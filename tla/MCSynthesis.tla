---------------------------- MODULE MCSynthesis -----------------------------
\* The instance of Synthesis that TLC checks.
EXTENDS Synthesis

\* No roadmap, or one of one or two actions.  Each tactic has an action that
\* is backed and one that is not, so that grounding or sanitation can drop
\* one and leave the other; beside a backed one there may be an action with
\* an unknown tactic of either shape.  Actions without a tactic, and an
\* invented one alone, are what sanitation leaves of the others.
Cited == [id: Tactics, backed: BOOLEAN]
Invented == [id: {Unknown, Misshapen}, backed: {TRUE}]
MCWritten == {{}} \cup {{a, b} : a \in Cited, b \in Cited}
                  \cup {{a, b} : a \in {c \in Cited : c.backed}, b \in Invented}
=============================================================================
