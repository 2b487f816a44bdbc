------------------------------ MODULE Synthesis -----------------------------
(***************************************************************************)
(* Phase 3 of analyzeDocument (src/services/analysisService.ts): a model   *)
(* drafts the strategy, two fact checks read its halves, bounded repairs   *)
(* replace it by a better draft, sanitation strikes what stays             *)
(* unsupported, one repair restores required tactics, and a deterministic  *)
(* quality gate decides what the report may say.                           *)
(*                                                                         *)
(* Everything a model answers is a choice.  A strategy is what the code    *)
(* tells apart: whether its summary cites a tactic that does not exist,    *)
(* whether its roadmap has phases, and which actions these hold.  The      *)
(* function runs alone in one browser tab, so an operation is one step;    *)
(* a model call that gives nothing is a step of its own, and so is a       *)
(* request that is never answered.                                         *)
(***************************************************************************)
EXTENDS Naturals, FiniteSets

CONSTANTS
    Tactics,      \* the verified tactics
    Unknown,      \* a tactic identifier outside the database
    Misshapen,    \* one the identifier gate sees (kernel/tacticIds.ts) and
                  \* the final gate does not: it reads tactic_id_pattern of
                  \* the pack, which asks for more digits
    None,         \* an action without a tactic
    Written,      \* bound: the roadmaps the models write, as their actions
    MaxClaims,    \* bound: unsupported claims of one fact check
    MaxRetries,   \* FACT_CHECK_MAX_RETRIES
    Densities,    \* metrics.evidence_density, per cent
    Integrities   \* metrics.delivery_integrity, per cent

\* backed: the grounding rules and the silent domains leave the action in.
Actions == [id: Tactics \cup {Unknown, Misshapen, None}, backed: BOOLEAN]

ASSUME TacticAssumption ==
    /\ Unknown # None /\ Misshapen \notin {Unknown, None}
    /\ Tactics \cap {Unknown, Misshapen, None} = {}
ASSUME WrittenAssumption == Written \subseteq SUBSET Actions
ASSUME BoundAssumption ==
    MaxClaims \in Nat /\ MaxRetries \in Nat
ASSUME MetricAssumption == Densities \subseteq Nat /\ Integrities \subseteq Nat

Parts == {"summary", "roadmap"}
Scopes == (SUBSET Parts) \ {{}}

\* unread: the parts no completed fact check has read as they stand.
Strategies == [unknown: BOOLEAN, phases: BOOLEAN,
               actions: SUBSET Actions, unread: SUBSET Parts]

\* The severities parseFactCheckResponse lets pass, a tactic claim by its
\* disposition.  on: the action the claim quotes, if it quotes one.
Dispositions == {"contraindicated", "citation_rejected"}
Kinds == {"blocking", "hygiene"} \cup Dispositions
Claims == [part: Parts, on: SUBSET Actions, kind: Kinds]

VARIABLES
    pc,
    audit,      \* what Phase 1 and 2 left: density, integrity, whether the
                \* evidence check is complete, the required tactics
    draft,      \* strategyData
    adjusted,   \* tacticGroundingWarnings is not empty
    candidate,  \* candidateStrategy
    scope,      \* requestedScope
    attempt,
    checks,     \* acceptedFactChecks
    fact,       \* factCheck, and the last disposition sanitized_claims
                \* holds for each tactic
    restored,   \* the required-tactic repair was accepted
    gate, notes,
    report

inputs == <<audit, adjusted>>
texts  == <<draft, candidate, scope, restored>>
rounds == <<attempt, checks, fact>>
ends   == <<gate, notes, report>>
vars   == <<pc, inputs, texts, rounds, ends>>

-----------------------------------------------------------------------------
\* The confidence bracket and the tactic plan.

Low == \/ ~audit.verified
       \/ audit.density < 30
       \/ audit.integrity < 70

\* The required tactics of tacticSelectionPlan.
Plan == IF Low THEN {} ELSE audit.required

Cites(actions) == {a.id : a \in actions}
Missing(s, plan) == plan \ Cites(s.actions)
Invalid(s) == s.unknown \/ Cites(s.actions) \cap {Unknown, Misshapen} # {}

\* What callRoadmapSynthesis accepts: every required tactic is cited.
Roadmaps(plan) == {r \in Written : plan \subseteq Cites(r)}

\* buildDeterministicLowConfidenceStrategy.
Fallback == [unknown |-> FALSE, phases |-> FALSE, actions |-> {},
             unread |-> Parts]

-----------------------------------------------------------------------------
\* Drafting.

\* callPhase3: the parts in sc are written anew, the others are kept.
Drafts(s, sc) ==
    IF Low
    THEN {[Fallback EXCEPT !.unknown = u] : u \in BOOLEAN}
    ELSE {[unknown |-> u,
           phases  |-> IF "roadmap" \in sc THEN r # {} ELSE s.phases,
           actions |-> r, unread |-> s.unread \cup sc] :
            u \in IF "summary" \in sc THEN BOOLEAN ELSE {s.unknown},
            r \in IF "roadmap" \in sc THEN Roadmaps(Plan) ELSE {s.actions}}

\* One round of the identifier gate; it always asks for a roadmap.
ReplaceInvalid(S) ==
    UNION {IF Invalid(s) THEN Drafts(s, {"roadmap"}) ELSE {s} : s \in S}

\* sanitizeRoadmapTacticGrounding, which drops the phases it empties.
Ground(s) ==
    LET kept == {a \in s.actions : a.backed}
    IN [s EXCEPT !.actions = kept, !.phases = kept # {}]

\* callPhase3Validated when it returns: two rounds of the identifier gate,
\* grounding, and one more roadmap if a required tactic is gone.  It gives
\* the draft as written; the caller's strategy is Ground of it.
Validated(s, sc) ==
    LET gated    == ReplaceInvalid(ReplaceInvalid(Drafts(s, sc)))
        complete == {d \in gated : Missing(Ground(d), Plan) = {}}
        redone   == UNION {Drafts(d, {"roadmap"}) : d \in gated \ complete}
    IN complete \cup {d \in redone : /\ ~Invalid(d)
                                     /\ Missing(Ground(d), Plan) = {}}

-----------------------------------------------------------------------------
\* Fact check.

Failed == [failed |-> TRUE, claims |-> {}]

\* What a check of one part may object to; a tactic claim quotes an action
\* that cites a tactic.  A claim about the planning decision is like one
\* about an action that is at most struck out.
Objections(s, part) ==
    {c \in [part: {part}, kind: Kinds,
            on: IF part = "summary" THEN {{}} ELSE {{a} : a \in s.actions}] :
       c.kind \in Dispositions => \E a \in c.on : a.id # None}

OfPart(claims, parts) == {c \in claims : c.part \in parts}

\* The sets of at most n elements of S.
UpTo(n, S) == UNION {{{f[i] : i \in 1..k} : f \in [1..k -> S]} : k \in 0..n}

\* runFactCheck: the parts in sc are read, the others keep the claims of
\* the accepted check, which has none to keep when it failed.
FactChecks(s, sc, previous) ==
    LET kept == OfPart(previous.claims, Parts \ sc)
        room == MaxClaims - Cardinality(kept)
    IN {Failed} \cup
       IF sc # Parts /\ previous.failed THEN {}
       ELSE {[failed |-> FALSE, claims |-> kept \cup c] :
               c \in UpTo(room, UNION {Objections(s, p) : p \in sc})}

Read(s, sc) == [s EXCEPT !.unread = @ \ sc]

\* isStrictFactCheckImprovement.
Blocking(claims) == {c \in claims : c.kind = "blocking"}
Improves(old, new) ==
    \/ Cardinality(Blocking(new)) < Cardinality(Blocking(old))
    \/ /\ Cardinality(Blocking(new)) = Cardinality(Blocking(old))
       /\ Cardinality(new) < Cardinality(old)

-----------------------------------------------------------------------------
\* Sanitation.

\* What sanitizeStrategyAfterFactCheck may do with a claim, by where it
\* finds the text: strike it out of a string, take the action out of the
\* roadmap, take the tactic the claim names out of the action, or nothing.
\* noted: struck out of a string, and the claim names the tactic.
Treatments(c) ==
    {"open", "struck"}
    \cup (IF c.on # {} THEN {"removed"} ELSE {})
    \cup (IF c.kind \in Dispositions THEN {"stripped", "noted"} ELSE {})

Edits(claims) ==
    {e \in [claims -> {"open", "struck", "removed", "stripped", "noted"}] :
       \A c \in claims : e[c] \in Treatments(c)}

Hit(claims, e, how, a) == \E c \in claims : e[c] = how /\ a \in c.on

\* A phase stays when its last action goes.
Edited(s, claims, e) ==
    [s EXCEPT !.actions =
       {IF Hit(claims, e, "stripped", a) THEN [a EXCEPT !.id = None] ELSE a :
          a \in {b \in @ : ~Hit(claims, e, "removed", b)}}]

\* The disposition of a tactic is that of the last sanitized claim that
\* names it.
Named(claims, e, t) ==
    {c.kind : c \in {x \in claims : /\ e[x] \in {"stripped", "noted"}
                                    /\ \E a \in x.on : a.id = t}}

Reviewed(old, claims, e) ==
    LET named == [t \in Tactics |-> Named(claims, e, t)]
    IN {r \in [Tactics -> Dispositions \cup {"none"}] : \A t \in Tactics :
          IF named[t] = {} THEN r[t] = old[t] ELSE r[t] \in named[t]}

\* Everything the sanitation of strategy s may return, given the claims and
\* the history of f.
Sanitized(s, f) ==
    IF f.failed THEN {[draft |-> s, fact |-> f]}
    ELSE UNION {{[draft |-> Edited(s, f.claims, e),
                  fact  |-> [failed |-> FALSE,
                             claims |-> {c \in f.claims : e[c] = "open"},
                             edited |-> f.edited \/ \E c \in f.claims : e[c] # "open",
                             reviewed |-> r]] :
                   r \in Reviewed(f.reviewed, f.claims, e)} :
                e \in Edits(f.claims)}

-----------------------------------------------------------------------------
\* The required-tactic contract and the quality gate.

Excused(f) == {t \in Tactics : f.reviewed[t] = "contraindicated"}

\* citation_rejected and missing of classifyFinalRequiredTactics.
M_Unresolved(s, f) == {t \in Missing(s, Plan) : f.reviewed[t] = "none"}
Unresolved(s, f) == Missing(s, Plan) \ Excused(f)

\* Of the roadmap's identifiers the gate misses the misshapen ones.
\* notes: what the gate reads that is not modelled.  "malformed": a scored
\* item without a trace or another error of validatePhase3Grounding;
\* "cautioned": a warning about the evidence or the wording.
M_Reasons(s, f, n) ==
    (IF audit.density < 30 THEN {"density"} ELSE {})
    \cup (IF ~audit.verified THEN {"evidence check"} ELSE {})
    \cup (IF ~f.failed /\ Blocking(f.claims) # {} THEN {"fact check"} ELSE {})
    \cup (IF f.failed THEN {"not checked"} ELSE {})
    \cup (n \cap {"malformed"})
    \cup (IF (~Low /\ ~s.phases) \/ Unresolved(s, f) # {} THEN {"phase 3"} ELSE {})
Reasons(s, f, n) ==
    (IF audit.density < 30 THEN {"density"} ELSE {})
    \cup (IF ~audit.verified THEN {"evidence check"} ELSE {})
    \cup (IF ~f.failed /\ Blocking(f.claims) # {} THEN {"fact check"} ELSE {})
    \cup (IF f.failed THEN {"not checked"} ELSE {})
    \cup (n \cap {"malformed"})
    \cup (IF \/ ~Low /\ ~s.phases
             \/ Unknown \in Cites(s.actions)
             \/ Unresolved(s, f) # {} THEN {"phase 3"} ELSE {})

Cautioned(f, n) ==
    \/ "cautioned" \in n \/ adjusted
    \/ audit.density < 60
    \/ ~f.failed /\ (f.edited \/ f.claims # {})

Decide(s, f, n) == IF Reasons(s, f, n) # {} THEN "BLOCK"
                   ELSE IF Cautioned(f, n) THEN "WARN" ELSE "GO"

Verdict(s, f, n) == [decision |-> Decide(s, f, n), reasons |-> Reasons(s, f, n)]
NoVerdict == [decision |-> "none", reasons |-> {}]

-----------------------------------------------------------------------------
\* The steps.

NoFact == [failed |-> TRUE, claims |-> {}, edited |-> FALSE,
           reviewed |-> [t \in Tactics |-> "none"]]
NoReport == [decision |-> "none", actions |-> {}]
FromCheck(c) == [NoFact EXCEPT !.failed = c.failed, !.claims = c.claims]

Init ==
    /\ pc = "start"
    /\ audit \in [density: Densities, integrity: Integrities,
                  verified: BOOLEAN, required: SUBSET Tactics]
    /\ draft = Fallback /\ candidate = Fallback /\ adjusted = FALSE
    /\ scope = Parts /\ restored = FALSE
    /\ attempt = 1 /\ checks = Failed /\ fact = NoFact
    /\ gate = NoVerdict /\ notes = {} /\ report = NoReport

\* The first strategy.
Draft ==
    /\ pc = "start" /\ audit.density >= 30
    /\ \E d \in Validated(Fallback, Parts) :
         draft' = Ground(d) /\ adjusted' = (Ground(d).actions # d.actions)
    /\ pc' = "check"
    /\ UNCHANGED <<audit, candidate, scope, restored, rounds, ends>>

\* No strategy was written: findings only when the bracket is LOW.
FallBack ==
    /\ pc = "start" /\ Low
    /\ draft' = Fallback /\ pc' = "check"
    /\ UNCHANGED <<inputs, candidate, scope, restored, rounds, ends>>

\* Otherwise the run ends (and is suspended or failed).
Stop ==
    /\ pc = "start" /\ ~Low
    /\ pc' = "stopped"
    /\ UNCHANGED <<inputs, texts, rounds, ends>>

\* Fact check pass 1.
Check ==
    /\ pc = "check"
    /\ \E c \in FactChecks(draft, Parts, Failed) :
         /\ checks' = c /\ fact' = FromCheck(c)
         /\ draft' = IF c.failed THEN draft ELSE Read(draft, Parts)
    /\ pc' = "repair"
    /\ UNCHANGED <<inputs, candidate, scope, restored, attempt, ends>>

MayRepair == /\ ~checks.failed /\ checks.claims # {} /\ attempt <= MaxRetries

\* A candidate is written for the parts that have defects.
Repair ==
    /\ pc = "repair" /\ MayRepair
    /\ scope' = IF Low THEN Parts ELSE {c.part : c \in checks.claims}
    /\ \E d \in Validated(draft, scope') :
         candidate' = Ground(d) /\ adjusted' = (Ground(d).actions # d.actions)
    /\ pc' = "recheck"
    /\ UNCHANGED <<audit, draft, restored, rounds, ends>>

\* The loop is over, or no candidate came: the accepted strategy is
\* sanitized.
EndRepairs ==
    /\ pc = "repair" /\ pc' = "sanitize"
    /\ UNCHANGED <<inputs, texts, rounds, ends>>

\* The candidate replaces the draft when its check is an improvement.
M_Accepts(c) == ~c.failed /\ Cardinality(OfPart(c.claims, scope))
                             <= Cardinality(OfPart(checks.claims, scope))
Accepts(c) == ~c.failed /\ Improves(OfPart(checks.claims, scope),
                                    OfPart(c.claims, scope))

Recheck ==
    /\ pc = "recheck" /\ attempt' = attempt + 1
    /\ \E c \in FactChecks(candidate, scope, checks) :
         IF Accepts(c)
         THEN /\ draft' = Read(candidate, scope)
              /\ checks' = c /\ fact' = FromCheck(c)
              /\ pc' = "repair"
         ELSE /\ pc' = "sanitize" /\ UNCHANGED <<draft, checks, fact>>
    /\ candidate' = Fallback
    /\ UNCHANGED <<inputs, scope, restored, ends>>

\* Sanitation of what the last check objects to, after the loop, after the
\* required-tactic repair and after the escalation.  The loop's variables go
\* out of scope; of the accepted check only the summary is read again.
Afterwards == [sanitize |-> "tactics", resanitize |-> "gate", settle |-> "regate"]

Sanitize ==
    /\ pc \in DOMAIN Afterwards /\ pc' = Afterwards[pc]
    /\ \E r \in Sanitized(draft, fact) : draft' = r.draft /\ fact' = r.fact
    /\ checks' = [checks EXCEPT !.claims = OfPart(@, {"summary"})]
    /\ attempt' = 1 /\ scope' = Parts
    /\ UNCHANGED <<inputs, candidate, restored, ends>>

\* A further check of the strategy: its claims, with the history so far.
Continue(c) == [fact EXCEPT !.failed = c.failed, !.claims = c.claims]

\* The one repair of the required tactics: a roadmap that cites all but the
\* missing ones found contraindicated, neither put through the identifier gate nor
\* grounded; it is kept unless its check fails.
RestoreTactics ==
    /\ pc = "tactics" /\ Unresolved(draft, fact) # {}
    /\ \E r \in Roadmaps(Plan \ (Missing(draft, Plan) \cap Excused(fact))) :
         LET s == [draft EXCEPT !.actions = r, !.phases = r # {},
                                !.unread = @ \cup {"roadmap"}]
         IN \E c \in FactChecks(s, {"roadmap"}, checks) :
              IF c.failed
              THEN pc' = "gate" /\ UNCHANGED <<draft, fact, restored>>
              ELSE /\ draft' = Read(s, {"roadmap"}) /\ fact' = Continue(c)
                   /\ restored' = TRUE /\ pc' = "resanitize"
    /\ checks' = Failed
    /\ UNCHANGED <<inputs, candidate, scope, attempt, ends>>

\* None is unresolved, or no roadmap came; the accepted check is not read
\* again.
KeepTactics ==
    /\ pc = "tactics" /\ pc' = "gate"
    /\ checks' = Failed
    /\ UNCHANGED <<inputs, texts, attempt, fact, ends>>

Gate ==
    /\ pc = "gate"
    /\ notes' \in SUBSET {"cautioned", "malformed"}
    /\ gate' = Verdict(draft, fact, notes')
    /\ pc' = IF gate'.reasons = {"fact check"} THEN "escalate" ELSE "report"
    /\ UNCHANGED <<inputs, texts, rounds, report>>

\* As Escalate, but after a failed check the gate decides again.
M_Escalate ==
    /\ pc = "escalate"
    /\ \E c \in FactChecks(draft, Parts, Failed) :
         IF c.failed THEN pc' = "gate" /\ UNCHANGED <<draft, fact>>
         ELSE /\ draft' = Read(draft, Parts) /\ fact' = Continue(c)
              /\ pc' = "settle"
    /\ UNCHANGED <<inputs, candidate, scope, restored, attempt, checks, ends>>

\* The fact check alone blocks: a stronger model reads both parts once, and
\* unless it fails its claims are sanitized and the gate decides anew.
Escalate ==
    /\ pc = "escalate"
    /\ \E c \in FactChecks(draft, Parts, Failed) :
         IF c.failed THEN pc' = "report" /\ UNCHANGED <<draft, fact>>
         ELSE /\ draft' = Read(draft, Parts) /\ fact' = Continue(c)
              /\ pc' = "settle"
    /\ UNCHANGED <<inputs, candidate, scope, restored, attempt, checks, ends>>

Regate ==
    /\ pc = "regate" /\ pc' = "report"
    /\ \E n \in SUBSET {"malformed"} : notes' = notes \cup n
    /\ gate' = Verdict(draft, fact, notes')
    /\ UNCHANGED <<inputs, texts, rounds, report>>

\* The final strategy: a blocked one is stripped of its roadmap, a GO under
\* warnings becomes conditional.  Marking the run ready may fail; the report
\* is returned all the same.
M_Final(decision) == [decision |-> decision, actions |-> draft.actions]
Final(decision) ==
    IF gate.decision = "BLOCK" THEN [decision |-> "NO_GO", actions |-> {}]
    ELSE [decision |-> IF Low THEN "NO_GO"
                       ELSE IF gate.decision = "WARN" /\ decision = "GO"
                            THEN "CONDITIONAL_GO" ELSE decision,
          actions  |-> draft.actions]

Report ==
    /\ pc = "report"
    /\ \E decision \in {"GO", "CONDITIONAL_GO", "NO_GO"} : report' = Final(decision)
    /\ pc' = "delivered"
    /\ UNCHANGED <<inputs, texts, rounds, gate, notes>>

Work == \/ Draft \/ FallBack \/ Stop \/ Check \/ Repair \/ EndRepairs
        \/ Recheck \/ Sanitize \/ RestoreTactics \/ KeepTactics
        \/ Gate \/ Escalate \/ Regate \/ Report

Ends == pc \in {"delivered", "stopped", "hung"}

\* A request that nothing bounds is never answered: checkpoint() awaits its
\* fetch, and a model call fetches its packet and its result.
Hang ==
    /\ ~Ends /\ pc' = "hung"
    /\ UNCHANGED <<inputs, texts, rounds, ends>>

Next == Work \/ Hang \/ (Ends /\ UNCHANGED vars)

\* The function goes on as long as its requests are answered.
Spec == Init /\ [][Next]_vars /\ WF_vars(Work)

-----------------------------------------------------------------------------
\* The state is of its types.
TypeOK ==
    /\ pc \in {"start", "check", "repair", "recheck", "sanitize", "tactics",
               "resanitize", "gate", "escalate", "settle", "regate", "report",
               "delivered", "stopped", "hung"}
    /\ audit \in [density: Densities, integrity: Integrities,
                  verified: BOOLEAN, required: SUBSET Tactics]
    /\ draft \in Strategies /\ candidate \in Strategies
    /\ adjusted \in BOOLEAN /\ restored \in BOOLEAN
    /\ scope \in Scopes
    /\ attempt \in 1..(MaxRetries + 1)
    /\ checks \in [failed: BOOLEAN, claims: SUBSET Claims]
    /\ fact \in [failed: BOOLEAN, claims: SUBSET Claims, edited: BOOLEAN,
                 reviewed: [Tactics -> Dispositions \cup {"none"}]]
    /\ gate \in [decision: {"none", "GO", "WARN", "BLOCK"},
                 reasons: SUBSET {"density", "evidence check", "fact check",
                    "not checked", "malformed", "phase 3"}]
    /\ notes \in SUBSET {"cautioned", "malformed"}
    /\ report \in [decision: {"none", "GO", "CONDITIONAL_GO", "NO_GO"},
                   actions: SUBSET Actions]

\* A delivered report that prescribes anything, or decides anything but
\* NO_GO, rests on a complete evidence check, on a fact check that was
\* carried out and left no blocking claim, and on a gate that did not block;
\* a plain GO needs the gate's GO and a report nothing was struck from.
ActionableOnlyWhenPassed ==
    (pc = "delivered" /\ (report.actions # {} \/ report.decision # "NO_GO")) =>
       /\ audit.verified /\ audit.density >= 30 /\ audit.integrity >= 70
       /\ ~fact.failed /\ Blocking(fact.claims) = {}
       /\ gate.decision \in {"GO", "WARN"}
       /\ report.decision = "GO" =>
            gate.decision = "GO" /\ ~fact.edited /\ fact.claims = {} /\ ~adjusted

\* ADR-003: in a roadmap that is delivered every required tactic is cited,
\* or a reviewed claim found it contraindicated; no draft, repair or
\* sanitation loses one silently.
RequiredTacticsSettled ==
    (pc = "delivered" /\ gate.decision # "BLOCK" /\ ~Low) =>
       \A t \in audit.required : \/ t \in Cites(report.actions)
                                 \/ fact.reviewed[t] = "contraindicated"

\* Every action that is delivered cites no unknown tactic the final gate can
\* read, was grounded and stood in a text that a completed fact check has
\* read, with three exceptions the code leaves open: a misshapen identifier
\* that outlives the identifier gate, or comes with the required-tactic
\* repair, is delivered; a repair of the summary alone may have had its
\* roadmap rewritten by the identifier gate (see RepairsImprove); and the
\* required-tactic repair is not grounded.
DeliveredIsVetted ==
    (pc = "delivered" /\ gate.decision # "BLOCK") =>
       /\ "summary" \notin draft.unread
       /\ "roadmap" \in draft.unread => ~restored
       /\ \A a \in report.actions : a.id # Unknown /\ (a.backed \/ restored)

\* A repair that changes the strategy or its verdict leaves fewer blocking
\* claims in the whole strategy, or as many and fewer claims, whichever half
\* it rewrote; and it leaves nothing unread but the roadmap, when it was
\* asked for the summary alone.
RepairsImprove ==
    [][(pc = "recheck" /\ <<draft, checks>>' # <<draft, checks>>) =>
          /\ ~checks'.failed /\ Improves(checks.claims, checks'.claims)
          /\ draft'.unread # {} =>
                draft'.unread = {"roadmap"} /\ scope = {"summary"}]_vars

\* Once a strategy exists a report is delivered, unless a request is never
\* answered: no repair, check, escalation or late failure loses it.
DraftIsDelivered == (pc = "check") ~> (pc \in {"delivered", "hung"})
=============================================================================
