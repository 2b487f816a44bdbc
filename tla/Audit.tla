------------------------------- MODULE Audit --------------------------------
(***************************************************************************)
(* Phases 1 and 2 of an assessment: runPhase1Audit (src/orchestrator.ts)   *)
(* reads every design area with a scanner and an evidence check from the   *)
(* packets of Evidence, rereads what stays weak over a larger packet, and  *)
(* keeps what was verified; then analyzeDocument binds the quotes to the   *)
(* sources, caps what their class cannot prove, gates the result and       *)
(* scores it.                                                              *)
(*                                                                         *)
(* A model answers anything its contract lets pass.  Of a quote the code   *)
(* tells apart the chunk or derived line it cites and the text it repeats. *)
(* A batch runs one attempt at a time; batches share only what they add to.*)
(***************************************************************************)
EXTENDS Evidence

CONSTANTS
    Maturity,    \* capability criteria
    Antipattern, \* anti-pattern criteria
    BatchOf,     \* the design area of a criterion
    Targets,     \* the criteria a derived line is evidence for
    Scopes,      \* the scopes a user locks in Step 0
    Quotes,      \* bound: the quotes the scanner writes
    Counts,      \* bound: the counts the scanner gives
    Width,       \* bound: batches in progress at once
    Null

Criteria == Maturity \cup Antipattern
Citable == Chunks \cup Derived
\* A text is that of a chunk or a derived line, close to one, or found nowhere.
Texts == Citable \cup {"close", "nowhere"}

ASSUME StreamAssumption == Maturity \cap Antipattern = {}
ASSUME CriteriaAssumption == BatchOf \in [Criteria -> Batches]
ASSUME TargetAssumption == Targets \in [Derived -> SUBSET Criteria]
ASSUME TextAssumption == {"close", "nowhere"} \cap Citable = {}
ASSUME ScopeAssumption == Scopes \subseteq (SUBSET Batches) \ {{}}
ASSUME QuoteAssumption == Quotes \subseteq [cites: Citable, text: Texts]
ASSUME CountAssumption == Counts \subseteq 0..3 /\ Width \in Nat

Of == [b \in Batches |-> {c \in Criteria : BatchOf[c] = b}]

Statuses == {"supported", "weak", "unsupported", "missing"}
\* antipattern_absence_status; a capability has none.
Absences == {"confirmed_present", "partially_present", "tested_absent",
             "unknown_absent", "none"}

\* A finding of the scanner, an item of the evidence check, a log entry.
\* supported: its question_results that are; open: verification_unresolved.
Scans    == [assessed: BOOLEAN, count: 0..3, quotes: SUBSET Quotes]
Verdicts == [status: Statuses, assessed: BOOLEAN, original: 0..3,
             verified: 0..3, absence: Absences, rescan: BOOLEAN,
             open: BOOLEAN, undecided: BOOLEAN]
Entries  == [count: 0..3, original: 0..3, assessed: BOOLEAN,
             supported: 0..3, quotes: SUBSET Quotes, status: Statuses,
             absence: Absences, open: BOOLEAN]
Scores   == [resolved: [Criteria -> 0..3 \cup {Null}],
             findings: SUBSET Antipattern,
             sufficient: BOOLEAN, low: BOOLEAN]

ASSUME NullAssumption == Null \notin Nat \cup Scans \cup Verdicts \cup Entries

VARIABLES
    pc,
    upload,   \* the sources and what is locked with them
    scope,    \* the locked design areas
    stage,    \* how far each batch is
    tries,    \* its attempts
    pass,     \* its rounds of gap retrieval
    packet,   \* semanticPackets
    seen,     \* seenTerms: the terms an attempt has asked for
    found,    \* batchResult
    verdict,  \* evidenceCheck
    log,      \* phase_1_audit_logs
    score     \* published_phase2 and the confidence bracket

input  == <<upload, scope>>
batch  == <<stage, tries, pass, packet, seen>>
result == <<found, verdict, log>>
vars   == <<pc, input, batch, result, score>>

-----------------------------------------------------------------------------
\* The scanner and the evidence check.

NotAssessed == [assessed |-> FALSE, count |-> 0, quotes |-> {}]

\* What the forensic contract lets pass: one quote if assessed, else none.
Findings == {NotAssessed} \cup
    [assessed: {TRUE}, count: Counts, quotes: {{q} : q \in Quotes}]

Lower(a, b) == IF a <= b THEN a ELSE b

\* verifyTextEvidenceSupport: do the texts p of the packet hold what the finding
\* quotes?  A contract-abiding finding has a quote, so nothing is "missing".
Local(s, p) == IF ~s.assessed THEN "weak"
               ELSE IF \E q \in s.quotes : q.text \in p THEN "supported"
               ELSE IF \E q \in s.quotes : q.text = "close" THEN "weak"
               ELSE "unsupported"

\* What a second model makes of a disputed item: present in part, not
\* known, or no valid decision.
Decisions == {"partially_present", "unknown_absent", "none"}

\* A verifier's answer about a finding, with the decision if one is asked
\* for, and whether it is one isValidEvidenceVerifierItem admits.  tested: it
\* calls the anti-pattern tested_absent.
Answers == [status: Statuses, verified: 0..3, rescan: BOOLEAN,
            tested: BOOLEAN, decision: Decisions]
Valid(c, s, r) ==
    /\ r.verified <= s.count
    /\ r.tested => c \in Antipattern /\ s.count = 0 /\ r.status = "supported"
    /\ r.decision # "none" => c \in Antipattern /\ s.count > 0

\* resolveAntiPatternAbsenceStatus.  A count of zero out of more never is
\* "supported", so wording that suggests presence decides nothing here.
Absence(c, verified, original, tested, status) ==
    IF c \notin Antipattern THEN "none"
    ELSE IF verified = 3 THEN "confirmed_present"
    ELSE IF verified > 0 THEN "partially_present"
    ELSE IF original = 0
         THEN IF tested /\ status = "supported"
              THEN "tested_absent" ELSE "unknown_absent"
    ELSE IF status = "weak" THEN "partially_present" ELSE "unknown_absent"

\* The status of a finding the verifier gave the status given.
StatusOf(s, loc, given) ==
    IF s.count = 0 THEN IF given = "missing" THEN "supported" ELSE given
    ELSE IF loc = "unsupported" \/ (loc = "weak" /\ given = "supported")
         THEN loc
    ELSE given

\* How much of its count the packet's text lets stand.
Cap(s, loc) == CASE loc = "supported" -> s.count
                 [] loc = "weak" -> IF s.count = 0 THEN 0 ELSE s.count - 1
                 [] OTHER -> 0

\* One item of runEvidenceCheck; loc: what the packet's text says of it.
Judge(c, s, loc, r) ==
    LET verified == Lower(r.verified, Cap(s, loc))
        given    == StatusOf(s, loc, r.status)
        status   == IF given = "supported" /\ verified < s.count
                    THEN IF verified = 0 THEN "unsupported" ELSE "weak"
                    ELSE given
        absence  == Absence(c, verified, s.count, r.tested, status)
        counted  == IF absence = "partially_present" /\ verified = 0
                    THEN 1 ELSE verified
    IN [status |-> status, assessed |-> s.assessed /\ loc = "supported",
        original |-> s.count, verified |-> counted, absence |-> absence,
        rescan |-> r.rescan \/ counted < s.count \/ ~s.assessed,
        open |-> FALSE, undecided |-> FALSE]

\* needsAntiPatternAdjudication.
Disputed(c, v) == /\ c \in Antipattern
                  /\ v.original > 0 /\ v.verified = 0
                  /\ v.status # "supported"
                  /\ v.absence # "partially_present"

Adjudicated(v, decision) ==
    CASE decision = "partially_present" ->
           [v EXCEPT !.status = "weak", !.verified = 1, !.absence = decision,
                     !.rescan = v.rescan \/ v.original > 1]
      [] decision = "unknown_absent" -> [v EXCEPT !.absence = decision]
      [] OTHER -> [v EXCEPT !.status = "missing", !.rescan = FALSE,
                            !.absence = "unknown_absent", !.undecided = TRUE]

Item(c, s, p, r) ==
    LET v == Judge(c, s, Local(s, p), r)
    IN IF Disputed(c, v) THEN Adjudicated(v, r.decision) ELSE v

\* buildUnavailableEvidenceCheck, and unavailableEvidenceCheck for count 0.
Unavailable(c, count) ==
    [status |-> "missing", assessed |-> FALSE, original |-> count,
     verified |-> 0, rescan |-> FALSE, open |-> TRUE, undecided |-> FALSE,
     absence |-> IF c \in Antipattern THEN "unknown_absent" ELSE "none"]

\* runEvidenceCheck of a batch with findings s over the texts p: both attempts
\* may fail.
Checks(b, s, p) ==
    {[c \in Of[b] |-> Unavailable(c, s[c].count)]} \cup
    {[c \in Of[b] |-> Item(c, s[c], p, r[c])] :
       r \in {f \in [Of[b] -> Answers] : \A c \in Of[b] : Valid(c, s[c], f[c])}}

CheckFailed(v) == \E c \in DOMAIN v : v[c].open \/ v[c].undecided

\* evidenceItemsNeedingRescan.
NeedRescan(v) == {c \in DOMAIN v : /\ v[c].status = "weak" \/ ~v[c].assessed
                                   /\ v[c].rescan}

\* f with the values g has where it is defined.
Over(f, g) == [x \in DOMAIN f |-> IF x \in DOMAIN g THEN g[x] ELSE f[x]]
Part(f, S) == [x \in S |-> f[x]]

-----------------------------------------------------------------------------
\* applyEvidenceCheckToBatch and the deterministic steps on the logs.

Applied(c, s, v) ==
    IF v.open
    THEN [count |-> s.count, original |-> s.count, assessed |-> s.assessed,
          supported |-> s.count, quotes |-> s.quotes, status |-> v.status,
          absence |-> "none", open |-> TRUE]
    ELSE LET absence == Absence(c, v.verified, v.original,
                                v.absence = "tested_absent", v.status)
         IN [count |-> v.verified, original |-> v.original,
             assessed |-> v.assessed,
             supported |-> IF v.assessed THEN v.verified ELSE 0,
             quotes |-> IF v.assessed \/ absence = "tested_absent"
                        THEN s.quotes ELSE {},
             status |-> v.status, absence |-> absence, open |-> FALSE]

\* As Bound, but what is cited need not say what is quoted.
M_Bound(c, q, p) == q.cites \in p

\* isEvidenceQuoteBoundToChunk: the chunk cited is in the packet and says it;
\* isEvidenceQuoteBoundToDerivedEvidence: a line of any area, if its analysis is
\* of criterion c.  p: the chunks of the packet, and what is derived.
Bound(c, q, p) == /\ q.text = q.cites /\ q.cites \in p
                  /\ q.cites \in Derived => c \in Targets[q.cites]

Unassessed(c, e) ==
    [e EXCEPT !.count = 0, !.supported = 0, !.assessed = FALSE,
              !.quotes = {}, !.absence = Unavailable(c, 0).absence]

\* As Reconciled, but the count a dropped quote carried stays.
M_Reconciled(c, e, p) ==
    [e EXCEPT !.quotes = {q \in e.quotes : Bound(c, q, p)}]

\* reconcileEvidenceProvenance, for the entry and for its verdict.
Unbacked(c, e, p) ==
    LET valid == {q \in e.quotes : Bound(c, q, p)}
    IN /\ valid = {} /\ ~e.open
       /\ valid # e.quotes \/ e.count > 0
Reconciled(c, e, p) ==
    IF Unbacked(c, e, p)
    THEN [Unassessed(c, e) EXCEPT !.status = "unsupported"]
    ELSE [e EXCEPT !.quotes = {q \in e.quotes : Bound(c, q, p)}]
ReconciledVerdict(c, e, p, v) ==
    IF ~Unbacked(c, e, p) THEN v
    ELSE [v EXCEPT !.status = "unsupported", !.verified = 0,
                   !.assessed = v.assessed /\ e.count > 0,
                   !.rescan = FALSE, !.absence = Unavailable(c, 0).absence]

Cited(e) == {Class[q.cites] : q \in e.quotes}
Strongest(e) == IF "platform" \in Cited(e) THEN "platform"
                ELSE IF "document" \in Cited(e) THEN "document"
                ELSE IF "workshop" \in Cited(e) THEN "workshop" ELSE "none"

\* What lzForensicEvaluation lets a class prove of a count of three.
Limit(class) == CASE class = "document" -> 2 [] class = "workshop" -> 1
                  [] OTHER -> 3

\* evaluateItem.
Authorized(c, e) ==
    IF e.open THEN e
    ELSE IF e.absence = "tested_absent" /\ Strongest(e) # "platform"
         THEN Unassessed(c, e)
    ELSE IF e.count = 3 /\ Limit(Strongest(e)) < 3
         THEN [e EXCEPT !.count = Limit(Strongest(e)), !.assessed = TRUE,
                        !.supported = Lower(e.supported, Limit(Strongest(e)))]
    ELSE e
\* As AuthorizedVerdict, but the evidence check does not hear of a cap.
M_AuthorizedVerdict(c, e, v) == v

\* syncEvidenceCheck.
AuthorizedVerdict(c, e, v) ==
    IF Authorized(c, e) = e THEN v
    ELSE IF e.absence = "tested_absent"
         THEN [v EXCEPT !.verified = 0, !.assessed = FALSE,
                        !.absence = "unknown_absent"]
    ELSE [v EXCEPT !.verified = Authorized(c, e).count]

-----------------------------------------------------------------------------
\* The gate before synthesis and the score.

\* validatePreSynthesisIntegrity on one item.
Consistent(e) == IF e.assessed THEN e.supported = e.count
                 ELSE e.count = 0 /\ e.supported = 0
Traced(c, e, p) ==
    /\ \A q \in e.quotes : Bound(c, q, p)
    /\ ~e.open /\ (e.count > 0 \/ e.assessed) => e.quotes # {}
Settled(e, v) ==
    /\ v.open => /\ v.verified = 0 /\ v.status = "missing"
                 /\ e.open /\ e.count = v.original
    /\ v.undecided /\ ~v.open => /\ v.verified = 0 /\ e.count = 0
                                 /\ v.status \in {"missing", "unsupported"}

Failures == {b \in Batches : stage[b] = "failed"}

\* Every criterion of the pack is asked for, whatever the scope.
Admissible ==
    /\ Failures = {}
    /\ \A c \in Criteria :
         /\ log[c] # Null /\ verdict[c] # Null
         /\ Consistent(log[c])
         /\ Traced(c, log[c], packet[BatchOf[c]] \cup Computed(upload))
         /\ Settled(log[c], verdict[c])

\* How the reasoning and coverage texts of an entry read: like a presence,
\* as in "Verifier status: weak. The evidence ...", or as not assessed.
Wordings == {"presence", "silence", "plain"}

\* inferAntiPatternAbsenceStatus.
Disposition(e, wording) ==
    IF e.count = 3 THEN "confirmed_present"
    ELSE IF e.count > 0 \/ wording = "presence" THEN "partially_present"
    ELSE IF /\ e.absence = "tested_absent" /\ e.status = "supported"
            /\ wording = "plain"
         THEN "tested_absent" ELSE "unknown_absent"

\* applyEvidenceClassPolicy: only platform evidence resolves a criterion.
Backed(e) == e.assessed /\ e.status \in {"supported", "weak"} /\ e.quotes # {}
Demoted(c, e) ==
    /\ \/ Backed(e)
       \/ e.absence \in {"confirmed_present", "partially_present",
                         "tested_absent"}
    /\ "platform" \notin Cited(e)
Classed(c, e) == IF Demoted(c, e)
                 THEN [Unassessed(c, e) EXCEPT !.status = "missing",
                                               !.quotes = e.quotes]
                 ELSE e

\* resolveCapability and resolveAntipattern; a count of zero is resolved
\* as a tested absence only.
Resolved(c, e, wording) ==
    IF e.open \/ ~Backed(e) THEN Null
    ELSE IF \/ c \in Maturity \/ e.count > 0
            \/ Disposition(e, wording) = "tested_absent"
         THEN e.count
    ELSE Null

\* hasVerifiedSourceCoverage.
Covered(c, e, wording) ==
    /\ ~e.open
    /\ \/ e.assessed /\ e.quotes # {}
       \/ /\ e.status \in {"supported", "weak"} /\ c \in Antipattern
          /\ Disposition(e, wording) = "tested_absent"

\* Math.round of a share of the criteria, of so many parts.
Rounded(S, parts) == (2 * parts * Cardinality(S) + Cardinality(Criteria))
                        \div (2 * Cardinality(Criteria))

\* scoreLandingZoneAssessment for one provider, and the bracket.  All pairs
\* weigh the same, so the resolution of the pairs is that of the criteria; a
\* run whose packets are not ready has thrown before (Refuse).
Scored(entries, failed, wordings) ==
    LET e        == [c \in Criteria |-> Classed(c, entries[c])]
        w        == [c \in Criteria |-> IF Demoted(c, entries[c])
                                        THEN "plain" ELSE wordings[c]]
        resolved == [c \in Criteria |-> Resolved(c, e[c], w[c])]
    IN [resolved   |-> resolved,
        findings   |-> {c \in Antipattern :
                          /\ ~e[c].open
                          /\ Disposition(e[c], w[c]) \in
                               {"confirmed_present", "partially_present"}},
        sufficient |-> /\ Rounded({c \in Criteria : resolved[c] # Null},
                                  1000) >= 300
                       /\ \A c \in Criteria : ~e[c].open,
        low        |-> \/ failed
                       \/ Rounded({c \in Criteria :
                                     Covered(c, e[c], w[c])}, 100) < 30]

-----------------------------------------------------------------------------
Init == /\ pc = "intake"
        /\ upload \in Uploads
        /\ scope \in Scopes
        /\ stage = [b \in Batches |-> IF b \in scope THEN "scan" ELSE "out"]
        /\ tries = [b \in Batches |-> 0]
        /\ pass = [b \in Batches |-> 0]
        /\ packet = [b \in Batches |-> {}]
        /\ seen = AreaTerms
        /\ found = [c \in Criteria |-> Null]
        /\ verdict = [c \in Criteria |-> Null]
        /\ log = [c \in Criteria |-> Null]
        /\ score = Null

\* The upload passes the gates; the packets are those of bounded retrieval.
Acquire ==
    /\ pc = "intake" /\ ~Refused(upload)
    /\ pc' = "phase1"
    /\ packet' = [b \in Batches |-> Bounded(upload, b)]
    /\ UNCHANGED <<input, stage, tries, pass, seen, result, score>>

\* The analysis throws before any model is called.
Refuse ==
    /\ pc = "intake" /\ Refused(upload)
    /\ pc' = "refused"
    /\ UNCHANGED <<input, batch, result, score>>

Busy == {b \in Batches : stage[b] \in {"check", "judge"} \/
                         (stage[b] = "scan" /\ tries[b] > 0)}

\* runSingleBatch answers and passes its contract.
Scan(b) ==
    /\ pc = "phase1" /\ stage[b] = "scan"
    /\ b \in Busy \/ Cardinality(Busy) < Width
    /\ \E s \in [Of[b] -> Findings] : found' = Over(found, s)
    /\ stage' = [stage EXCEPT ![b] = "check"]
    /\ tries' = [tries EXCEPT ![b] = @ + 1]
    /\ UNCHANGED <<pc, input, pass, packet, seen, verdict, log, score>>

\* runSingleBatch fails: one more attempt, then the batch has failed.
ScanFails(b) ==
    /\ pc = "phase1" /\ stage[b] = "scan"
    /\ b \in Busy \/ Cardinality(Busy) < Width
    /\ tries' = [tries EXCEPT ![b] = @ + 1]
    /\ IF tries[b] = 0
       THEN UNCHANGED <<stage, verdict>>
       ELSE /\ stage' = [stage EXCEPT ![b] = "failed"]
            /\ verdict' = Over(verdict, [c \in Of[b] |-> Unavailable(c, 0)])
    /\ UNCHANGED <<pc, input, pass, packet, seen, found, log, score>>

Check(b) ==
    /\ pc = "phase1" /\ stage[b] = "check"
    /\ \E v \in Checks(b, found, packet[b] \cup Lines(upload, b)) :
         verdict' = Over(verdict, v)
    /\ stage' = [stage EXCEPT ![b] = "judge"]
    /\ UNCHANGED <<pc, input, tries, pass, packet, seen, found, log, score>>

MayReread(b) == /\ ~CheckFailed(Part(verdict, Of[b]))
                /\ NeedRescan(Part(verdict, Of[b])) # {}
                /\ pass[b] < 2

\* As Accept, but the last check is taken, completed or not.
M_Accept(v) == TRUE

\* semanticTerms and the answers of a gap query: terms that were not asked
\* for before, if weak items call for any.  The packet takes in what holds
\* them.
NewTerms(b) == Terms \ seen[b]
Queries(b) ==
    IF \E c \in Of[b] : verdict[c].status = "weak" /\ verdict[c].rescan
    THEN SUBSET NewTerms(b) ELSE {{}}
Enlarged(b, asked) == Matched(upload, packet[b], asked)

\* A pass that selects chunks more, rescans, and checks the whole batch
\* again; its outcome is taken only if that check was completed.
Accept(v) == ~CheckFailed(v)
Reread(b) ==
    /\ pc = "phase1" /\ stage[b] = "judge" /\ MayReread(b)
    /\ \E asked \in Queries(b) :
         /\ Enlarged(b, asked) # packet[b]
         /\ packet' = [packet EXCEPT ![b] = Enlarged(b, asked)]
         /\ seen' = [seen EXCEPT ![b] = @ \cup asked]
    /\ \E s \in [NeedRescan(Part(verdict, Of[b])) -> Findings] :
         \E v \in Checks(b, Over(found, s), packet'[b] \cup Lines(upload, b)) :
           /\ Accept(v)
           /\ found' = Over(found, s)
           /\ verdict' = Over(verdict, v)
    /\ pass' = [pass EXCEPT ![b] = @ + 1]
    /\ UNCHANGED <<pc, input, stage, tries, log, score>>

\* The outcome of a batch is applied; its own variables are gone.
Apply(b) ==
    /\ log' = Over(log, [c \in Of[b] |-> Applied(c, found[c], verdict[c])])
    /\ found' = Over(found, [c \in Of[b] |-> Null])
    /\ stage' = [stage EXCEPT ![b] = "done"]
    /\ tries' = [tries EXCEPT ![b] = 0]
    /\ pass' = [pass EXCEPT ![b] = 0]
    /\ seen' = [seen EXCEPT ![b] = AreaTerms[b]]

\* The passes are over, or a gap query finds nothing to select.
Finish(b) ==
    /\ pc = "phase1" /\ stage[b] = "judge"
    /\ Apply(b)
    /\ UNCHANGED <<pc, input, packet, verdict, score>>

\* A pass has enlarged the packet, but the rescan or the check that follows
\* failed: what was verified before stays.
GiveUp(b) ==
    /\ pc = "phase1" /\ stage[b] = "judge" /\ MayReread(b)
    /\ \E asked \in Queries(b) :
         /\ Enlarged(b, asked) # packet[b]
         /\ packet' = [packet EXCEPT ![b] = Enlarged(b, asked)]
    /\ Apply(b)
    /\ UNCHANGED <<pc, input, verdict, score>>

\* All batches have ended: the logs are bound to the sources.
Reconcile ==
    /\ pc = "phase1" /\ \A b \in scope : stage[b] \in {"done", "failed"}
    /\ pc' = "reconciled"
    /\ log' = [c \in Criteria |-> IF log[c] = Null THEN Null
                 ELSE Reconciled(c, log[c],
                                 packet[BatchOf[c]] \cup Computed(upload))]
    /\ verdict' = [c \in Criteria |-> IF log[c] = Null THEN verdict[c]
                     ELSE ReconciledVerdict(c, log[c],
                            packet[BatchOf[c]] \cup Computed(upload),
                            verdict[c])]
    /\ UNCHANGED <<input, batch, found, score>>

\* applyLzForensicEvaluation.
Authorize ==
    /\ pc = "reconciled" /\ pc' = "gate"
    /\ log' = [c \in Criteria |-> IF log[c] = Null THEN Null
                                  ELSE Authorized(c, log[c])]
    /\ verdict' = [c \in Criteria |-> IF log[c] = Null THEN verdict[c]
                     ELSE AuthorizedVerdict(c, log[c], verdict[c])]
    /\ UNCHANGED <<input, batch, found, score>>

Admit ==
    /\ pc = "gate" /\ Admissible /\ pc' = "admitted"
    /\ \E wordings \in [Criteria -> Wordings] :
         score' = Scored(log, CheckFailed(verdict), wordings)
    /\ UNCHANGED <<input, batch, result>>

Reject ==
    /\ pc = "gate" /\ ~Admissible /\ pc' = "rejected"
    /\ UNCHANGED <<input, batch, result, score>>

Next == \/ \E b \in Batches : \/ Scan(b) \/ ScanFails(b) \/ Check(b)
                              \/ Reread(b) \/ Finish(b) \/ GiveUp(b)
        \/ Acquire \/ Refuse
        \/ Reconcile \/ Authorize \/ Admit \/ Reject

Spec == Init /\ [][Next]_vars

-----------------------------------------------------------------------------
\* Every variable has its type.
TypeOK ==
    /\ pc \in {"intake", "refused", "phase1", "reconciled", "gate",
              "admitted", "rejected"}
    /\ upload \in Uploads
    /\ scope \in Scopes
    /\ stage \in [Batches -> {"out", "scan", "check", "judge", "done",
                              "failed"}]
    /\ tries \in [Batches -> 0..2]
    /\ pass \in [Batches -> 0..2]
    /\ packet \in [Batches -> SUBSET Chunks]
    /\ seen \in [Batches -> SUBSET Terms]
    /\ found \in [Criteria -> Scans \cup {Null}]
    /\ verdict \in [Criteria -> Verdicts \cup {Null}]
    /\ log \in [Criteria -> Entries \cup {Null}]
    /\ score \in Scores \cup {Null}

\* A count enters the published score only if the scanner gave at least as
\* much, the evidence check stands behind exactly this much, and a quote of
\* it repeats what platform evidence says: a chunk of the area's last packet,
\* or a line that was derived from an uploaded source for this criterion; and
\* no score is called sufficient while one verification is open.
\* (evidenceCheckService.ts, evidenceSupport.ts, lzForensicEvaluation.ts and
\* landingZoneScoringAdapter.ts together.)
ScoreIsEarned ==
    pc = "admitted" =>
      /\ \A c \in Criteria : score.resolved[c] # Null =>
           /\ score.resolved[c] = verdict[c].verified
           /\ score.resolved[c] <= verdict[c].original
           /\ \E q \in log[c].quotes :
                /\ q.text = q.cites /\ Class[q.cites] = "platform"
                /\ \/ q.cites \in packet[BatchOf[c]]
                   \/ /\ q.cites \in Derived /\ c \in Targets[q.cites]
                      /\ SourceOf[q.cites] \in upload.sources
      /\ score.sufficient => \A c \in Criteria : ~verdict[c].open

\* The gate turns a run down only because an area failed twice or was left
\* out of the scope: whatever else the models answer, the steps before it
\* leave logs and verdicts it admits.  (validatePreSynthesisIntegrity,
\* src/services/pipelineIntegrityService.ts.)
OnlyMissingAreasReject ==
    pc = "rejected" => Failures # {} \/ scope # Batches

\* At the gate the log and the evidence check tell the same: the count that
\* was verified, or a candidate both keep open, and then the score is not
\* sufficient and confidence is low.  (applyEvidenceCheckToBatch,
\* reconcileEvidenceProvenance and syncEvidenceCheck change both.)
VerdictsAgree ==
    pc \in {"gate", "admitted"} =>
      \A c \in Criteria : log[c] # Null =>
        /\ log[c].open <=> verdict[c].open
        /\ ~log[c].open => /\ log[c].count = verdict[c].verified
                           /\ log[c].assessed => verdict[c].assessed
        /\ log[c].open => log[c].count = verdict[c].original
        /\ log[c].open /\ pc = "admitted" => score.low /\ ~score.sufficient

\* A finding is replaced by another only after its area's packet has grown
\* and by a check that was completed: a rescan or a check that fails leaves
\* what was verified.  (The loop of runPhase1Audit, src/orchestrator.ts.)
ReadingsNeedEvidence ==
    [][\A c \in Criteria :
         found[c] # Null /\ found'[c] \notin {Null, found[c]} =>
           /\ packet[BatchOf[c]] \subseteq packet'[BatchOf[c]]
           /\ packet[BatchOf[c]] # packet'[BatchOf[c]]
           /\ ~verdict'[c].open /\ ~verdict'[c].undecided]_vars

\* No chunk of a hidden sheet, an evidence lead, a source that names only
\* providers out of scope, or with a secret in it is routed to a design area,
\* however its packet is filled or enlarged, nor kept as a quote of a log.
\* Foreign sources have two other ways to the models, of which this says
\* nothing: the lines derived from their tables (ForeignIsNotScored), and the
\* source context of phase 3, which is rendered from the whole registry.
\* (rankedDomainCandidates and expandDomainPacket, sourceRegistryService.ts.)
WithheldStaysOut ==
    LET withheld == {x \in Chunks : \/ x \in Hidden \cup Leads
                                    \/ Foreign(upload, x)
                                    \/ Privacy[x] \in {"secret", "unclosed"}}
    IN /\ \A b \in Batches : packet[b] \cap withheld = {}
       /\ pc \notin {"intake", "phase1"} =>
            \A c \in Criteria : log[c] # Null =>
              \A q \in log[c].quotes : q.cites \notin withheld

\* A packet stays within the budget its chunks are picked by through bounded
\* retrieval and all passes of a rescan.  The budget is of estimates, 260
\* characters beside each text: the rendered packet may be longer.
\* (HARD_PACKET_CHARS of sourceRegistryService.ts, checked by two loops.)
PacketsWithinLimit == \A b \in Batches : Estimate(packet[b]) <= Hard

\* Not what the code does.  A packet that is not called weak leaves no routed
\* chunk out: "Report insufficient coverage and withheld content explicitly."
\* (src/services/evidenceStagePacketService.ts)
CoverageIsHonest ==
    pc = "phase1" =>
      \A b \in Batches : ~Weak(upload, b, packet[b]) =>
                           Candidates(upload, b) \subseteq packet[b]

\* Not what the code does.  A scope that leaves out design areas can be
\* assessed: "Excluded by the locked assessment scope before scoring."
\* (src/services/analysisService.ts:277)
ScopedRunsPass == pc = "rejected" => Failures # {}

\* Not what the code does.  A published count does not rest on sources out of
\* scope alone: "Out-of-scope provider evidence is withheld from packets"
\* (src/Landing_Zone_Assessment_Implementation_Plan.md:293)
ForeignIsNotScored ==
    pc = "admitted" =>
      \A c \in Criteria : score.resolved[c] # Null =>
        \E q \in log[c].quotes : ~Foreign(upload, q.cites)

\* Not what the code does.  "Evidence Check cannot create a harmful finding
\* that the scanner did not identify."  (antiPatternSemantics.ts:66)
FindingsWereScanned ==
    pc = "admitted" => \A c \in score.findings : verdict[c].original > 0

=============================================================================
