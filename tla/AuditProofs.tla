----------------------------- MODULE AuditProofs -----------------------------
(***************************************************************************)
(* Proofs about Audit, for every set of design areas, criteria, sources,   *)
(* quotes and counts, every scope and every number of batches at once.     *)
(* Those about verdicts and scores use of retrieval only that a packet     *)
(* grows; those about packets, that what the greedy choices of Evidence    *)
(* select exists and fits.                                                 *)
(***************************************************************************)
EXTENDS Audit, TLAPS, FiniteSetTheorems, WellFoundedInduction

-----------------------------------------------------------------------------
(* What the operators return *)

LEMMA AreasApart ==
  ASSUME NEW b \in Batches
  PROVE  /\ Of[b] \in SUBSET Criteria
         /\ \A c \in Criteria : c \in Of[b] <=> BatchOf[c] = b
  BY DEF Of

LEMMA AreaOf ==
  ASSUME NEW c \in Criteria
  PROVE  BatchOf[c] \in Batches
  BY CriteriaAssumption

LEMMA FindingsTyped ==
  ASSUME NEW s \in Findings
  PROVE  /\ s \in Scans /\ s.count \in 0..3 /\ s.assessed \in BOOLEAN
         /\ s.assessed => s.quotes # {}
         /\ ~s.assessed => s.count = 0
<1>1. CASE s = NotAssessed
  BY <1>1 DEF NotAssessed, Scans
<1>2. CASE s \in [assessed: {TRUE}, count: Counts, quotes: {{q} : q \in Quotes}]
  BY <1>2, CountAssumption DEF Scans
<1>3. QED
  BY <1>1, <1>2 DEF Findings

LEMMA LowerTyped ==
  ASSUME NEW a \in 0..3, NEW b \in 0..3
  PROVE  /\ Lower(a, b) \in 0..3 /\ Lower(a, b) <= a /\ Lower(a, b) <= b
  BY DEF Lower

\* What the text of a packet lets stand of a count: all of three only if it
\* supports the finding.
LEMMA CapBounds ==
  ASSUME NEW s \in Findings, NEW loc \in {"supported", "weak", "unsupported"}
  PROVE  /\ Cap(s, loc) \in 0..3 /\ Cap(s, loc) <= s.count
         /\ Cap(s, loc) = 3 => loc = "supported"
  BY FindingsTyped DEF Cap

LEMMA LocalTyped ==
  ASSUME NEW s, NEW p
  PROVE  /\ Local(s, p) \in {"supported", "weak", "unsupported"}
  BY DEF Local

LEMMA AbsenceTyped ==
  ASSUME NEW c, NEW v \in 0..3, NEW o \in 0..3, NEW t, NEW status
  PROVE  /\ Absence(c, v, o, t, status) \in Absences
         /\ Absence(c, v, o, t, status) = "tested_absent" => v = 0
         /\ Absence(c, v, o, t, status) = "partially_present" /\ v = 0 => o > 0
  BY DEF Absence, Absences

\* How a verdict relates to the finding it is about.
Fits(s, v) ==
  /\ v \in Verdicts /\ v.original = s.count
  /\ v.open => v.verified = 0 /\ v.status = "missing"
  /\ ~v.open => /\ v.verified <= v.original
                /\ v.verified = 3 => v.assessed
                /\ v.assessed => s.assessed
                /\ v.undecided => v.verified = 0 /\ v.status = "missing"

LEMMA JudgeFits ==
  ASSUME NEW c \in Criteria, NEW s \in Findings, NEW r \in Answers,
         NEW loc \in {"supported", "weak", "unsupported"}
  PROVE  LET v == Judge(c, s, loc, r)
         IN /\ Fits(s, v) /\ ~v.open /\ ~v.undecided
<1> DEFINE verified == Lower(r.verified, Cap(s, loc))
           given    == StatusOf(s, loc, r.status)
           status   == IF given = "supported" /\ verified < s.count
                       THEN IF verified = 0 THEN "unsupported" ELSE "weak"
                       ELSE given
           absence  == Absence(c, verified, s.count, r.tested, status)
           counted  == IF absence = "partially_present" /\ verified = 0
                       THEN 1 ELSE verified
<1>1. /\ s.count \in 0..3 /\ s.assessed \in BOOLEAN
      /\ ~s.assessed => s.count = 0
  BY FindingsTyped
<1>2. /\ r.verified \in 0..3 /\ r.rescan \in BOOLEAN /\ r.tested \in BOOLEAN
      /\ r.status \in Statuses
  BY DEF Answers
<1>3. /\ verified \in 0..3 /\ verified <= s.count
      /\ verified = 3 => loc = "supported"
  BY <1>1, <1>2, CapBounds, LowerTyped
<1>4. status \in Statuses
  BY <1>2 DEF StatusOf, Statuses
<1>5. /\ absence \in Absences
      /\ absence = "partially_present" /\ verified = 0 => s.count > 0
  BY <1>1, <1>3, AbsenceTyped
<1>6. /\ counted \in 0..3 /\ counted <= s.count
      /\ counted = 3 => loc = "supported" /\ s.assessed
  BY <1>1, <1>3, <1>5
<1>7. Judge(c, s, loc, r) =
        [status |-> status, assessed |-> s.assessed /\ loc = "supported",
         original |-> s.count, verified |-> counted, absence |-> absence,
         rescan |-> r.rescan \/ counted < s.count \/ ~s.assessed,
         open |-> FALSE, undecided |-> FALSE]
  BY DEF Judge
<1> HIDE DEF status, absence, counted
<1>8. Judge(c, s, loc, r) \in Verdicts
  BY <1>1, <1>2, <1>4, <1>5, <1>6, <1>7 DEF Verdicts
<1>9. QED
  BY <1>1, <1>6, <1>7, <1>8 DEF Fits

LEMMA ItemFits ==
  ASSUME NEW c \in Criteria, NEW s \in Findings, NEW p, NEW r \in Answers
  PROVE  Fits(s, Item(c, s, p, r)) /\ ~Item(c, s, p, r).open
<1> DEFINE v == Judge(c, s, Local(s, p), r)
<1>1. Fits(s, v) /\ ~v.open /\ ~v.undecided
  BY JudgeFits, LocalTyped
<1>2. r.decision \in Decisions
  BY DEF Answers
<1>3. CASE ~Disputed(c, v)
  BY <1>1, <1>3 DEF Item
<1>4. CASE Disputed(c, v)
  <2>1. Item(c, s, p, r) = Adjudicated(v, r.decision)
    BY <1>4 DEF Item
  <2>2. v \in Verdicts /\ v.verified = 0 /\ v.original > 0 /\ v.original = s.count
    BY <1>1, <1>4 DEF Disputed, Fits
  <2> HIDE DEF v
  <2>3. /\ ~v.open /\ ~v.undecided
        /\ v.assessed \in BOOLEAN /\ (v.assessed => s.assessed)
        /\ v.original \in 0..3 /\ v.rescan \in BOOLEAN
    BY <1>1, <2>2 DEF Fits, Verdicts
  <2>4. CASE r.decision = "partially_present"
    <3> DEFINE w == Adjudicated(v, r.decision)
    <3> DEFINE again == v.rescan \/ v.original > 1
    <3>1. w = [v EXCEPT !.status = "weak", !.verified = 1,
                        !.absence = "partially_present", !.rescan = again]
      BY <2>4 DEF Adjudicated
    <3>a. again \in BOOLEAN
      OBVIOUS
    <3> HIDE DEF again
    <3>b. w = [status |-> "weak", assessed |-> v.assessed,
               original |-> v.original, verified |-> 1,
               absence |-> "partially_present", rescan |-> again,
               open |-> v.open, undecided |-> v.undecided]
      BY <2>2, <3>1 DEF Verdicts
    <3>2. w \in Verdicts
      BY <2>2, <3>b, <3>a DEF Verdicts, Statuses, Absences
    <3>3. /\ w.original = v.original /\ w.verified = 1 /\ ~w.open
          /\ ~w.undecided /\ (w.assessed => v.assessed)
      BY <2>2, <2>3, <3>1 DEF Verdicts
    <3> HIDE DEF w
    <3>4. Fits(s, w) /\ ~w.open
      BY <2>2, <2>3, <3>2, <3>3 DEF Fits
    <3>5. QED
      BY <2>1, <3>4 DEF w
  <2>5. CASE r.decision = "unknown_absent"
    <3> DEFINE w == Adjudicated(v, r.decision)
    <3>1. w = [v EXCEPT !.absence = "unknown_absent"]
      BY <2>5 DEF Adjudicated
    <3>2. w \in Verdicts
      BY <2>2, <3>1 DEF Verdicts, Absences
    <3>3. /\ w.original = v.original /\ w.verified = 0 /\ ~w.open
          /\ ~w.undecided /\ (w.assessed => v.assessed)
      BY <2>2, <2>3, <3>1 DEF Verdicts
    <3> HIDE DEF w
    <3>4. Fits(s, w) /\ ~w.open
      BY <2>2, <2>3, <3>2, <3>3 DEF Fits
    <3>5. QED
      BY <2>1, <3>4 DEF w
  <2>6. CASE r.decision = "none"
    <3> DEFINE w == Adjudicated(v, r.decision)
    <3>1. w = [v EXCEPT !.status = "missing", !.rescan = FALSE,
                        !.absence = "unknown_absent", !.undecided = TRUE]
      BY <2>6 DEF Adjudicated
    <3>2. w \in Verdicts
      BY <2>2, <3>1 DEF Verdicts, Statuses, Absences
    <3>3. /\ w.original = v.original /\ w.verified = 0 /\ ~w.open
          /\ w.status = "missing" /\ (w.assessed => v.assessed)
      BY <2>2, <2>3, <3>1 DEF Verdicts
    <3> HIDE DEF w
    <3>4. Fits(s, w) /\ ~w.open
      BY <2>2, <2>3, <3>2, <3>3 DEF Fits
    <3>5. QED
      BY <2>1, <3>4 DEF w
  <2>7. QED
    BY <1>2, <2>4, <2>5, <2>6 DEF Decisions
<1>5. QED
  BY <1>3, <1>4

LEMMA UnavailableTyped ==
  ASSUME NEW c, NEW n \in 0..3
  PROVE  LET v == Unavailable(c, n)
         IN /\ v \in Verdicts /\ v.open /\ v.original = n /\ v.verified = 0
            /\ v.status = "missing"
  BY DEF Unavailable, Verdicts, Statuses, Absences

\* runEvidenceCheck returns a verdict for each criterion of the batch.
LEMMA ChecksFit ==
  ASSUME NEW b \in Batches, NEW s, \A c \in Of[b] : s[c] \in Findings,
         NEW p, NEW v \in Checks(b, s, p)
  PROVE  DOMAIN v = Of[b] /\ \A c \in Of[b] : Fits(s[c], v[c])
<1>1. CASE v = [c \in Of[b] |-> Unavailable(c, s[c].count)]
  <2>1. ASSUME NEW c \in Of[b]
        PROVE  Fits(s[c], v[c])
    <3>1. s[c].count \in 0..3
      BY FindingsTyped
    <3>2. v[c] = Unavailable(c, s[c].count)
      BY <1>1
    <3>3. QED
      BY <3>1, <3>2, UnavailableTyped DEF Fits
  <2>2. QED
    BY <1>1, <2>1
<1>2. ASSUME NEW r \in [Of[b] -> Answers],
             v = [c \in Of[b] |-> Item(c, s[c], p, r[c])]
      PROVE  DOMAIN v = Of[b] /\ \A c \in Of[b] : Fits(s[c], v[c])
  BY <1>2, ItemFits, AreasApart
<1>3. QED
  BY <1>1, <1>2 DEF Checks

-----------------------------------------------------------------------------
(* Log entries and verdicts *)

\* What an entry and the verdict on it have in common from the moment the
\* entry is written.
Agree(e, v) ==
  /\ e \in Entries /\ v \in Verdicts
  /\ e.open <=> v.open
  /\ e.supported = IF e.assessed THEN e.count ELSE 0
  /\ e.open => /\ e.count = v.original
               /\ v.verified = 0 /\ v.status = "missing"
               /\ ~e.assessed => e.count = 0
  /\ ~e.open => /\ e.count = v.verified /\ v.verified <= v.original
                /\ e.assessed => v.assessed /\ e.quotes # {}
                /\ e.count = 3 => e.assessed
                /\ ~e.assessed /\ e.quotes # {} => e.count = 0
                /\ v.undecided => /\ v.verified = 0
                                  /\ v.status \in {"missing", "unsupported"}

\* What binding to the sources adds: every quote is in the packet or derived,
\* and what is not assessed counts nothing.
Whole(c, e, p) == Traced(c, e, p) /\ (~e.assessed => e.count = 0)

LEMMA AppliedAgrees ==
  ASSUME NEW c \in Criteria, NEW s \in Findings, NEW v, Fits(s, v)
  PROVE  Agree(Applied(c, s, v), v)
<1>1. /\ s.count \in 0..3 /\ s.assessed \in BOOLEAN /\ s.quotes \in SUBSET Quotes
      /\ s.assessed => s.quotes # {}
      /\ ~s.assessed => s.count = 0
  BY FindingsTyped DEF Scans
<1>2. /\ v \in Verdicts /\ v.original = s.count
      /\ v.verified \in 0..3 /\ v.original \in 0..3 /\ v.status \in Statuses
      /\ v.open \in BOOLEAN /\ v.assessed \in BOOLEAN
  BY DEF Fits, Verdicts
<1>3. CASE v.open
  <2> DEFINE e == [count |-> s.count, original |-> s.count,
                   assessed |-> s.assessed, supported |-> s.count,
                   quotes |-> s.quotes, status |-> v.status,
                   absence |-> "none", open |-> TRUE]
  <2>1. Applied(c, s, v) = e
    BY <1>3 DEF Applied
  <2>2. e \in Entries
    BY <1>1, <1>2 DEF Entries, Absences
  <2>3. QED
    BY <1>1, <1>2, <1>3, <2>1, <2>2 DEF Agree, Fits
<1>4. CASE ~v.open
  <2> DEFINE absence == Absence(c, v.verified, v.original,
                                v.absence = "tested_absent", v.status)
             quotes == IF v.assessed \/ absence = "tested_absent"
                       THEN s.quotes ELSE {}
             supported == IF v.assessed THEN v.verified ELSE 0
             e == [count |-> v.verified, original |-> v.original,
                   assessed |-> v.assessed, supported |-> supported,
                   quotes |-> quotes, status |-> v.status,
                   absence |-> absence, open |-> FALSE]
  <2>1. Applied(c, s, v) = e
    BY <1>4 DEF Applied
  <2>2. absence \in Absences /\ (absence = "tested_absent" => v.verified = 0)
    BY <1>2, AbsenceTyped
  <2> HIDE DEF absence
  <2>3. /\ quotes \in SUBSET Quotes
        /\ v.assessed => quotes # {}
        /\ ~v.assessed /\ quotes # {} => v.verified = 0
    BY <1>1, <1>2, <1>4, <2>2 DEF Fits
  <2>4. /\ supported = (IF v.assessed THEN v.verified ELSE 0)
        /\ supported \in 0..3
    BY <1>2
  <2> HIDE DEF quotes, supported
  <2>5. e \in Entries
    BY <1>2, <2>2, <2>3, <2>4 DEF Entries
  <2>6. /\ e.count = v.verified /\ ~e.open /\ e.supported = supported
        /\ (e.assessed <=> v.assessed) /\ e.quotes = quotes
    OBVIOUS
  <2> HIDE DEF e
  <2>7. QED
    BY <1>2, <1>4, <2>1, <2>3, <2>4, <2>5, <2>6 DEF Agree, Fits
<1>5. QED
  BY <1>3, <1>4

\* reconcileEvidenceProvenance changes an entry and its verdict together.
LEMMA ReconciledAgrees ==
  ASSUME NEW c \in Criteria, NEW e, NEW v, NEW p, Agree(e, v)
  PROVE  /\ Agree(Reconciled(c, e, p), ReconciledVerdict(c, e, p, v))
         /\ Whole(c, Reconciled(c, e, p), p)
<1> DEFINE valid == {q \in e.quotes : Bound(c, q, p)}
           e2 == Reconciled(c, e, p)
           v2 == ReconciledVerdict(c, e, p, v)
<1>1. /\ e \in Entries /\ v \in Verdicts
      /\ e.count \in 0..3 /\ e.supported \in 0..3 /\ e.open \in BOOLEAN
      /\ e.assessed \in BOOLEAN /\ v.open \in BOOLEAN /\ v.assessed \in BOOLEAN
      /\ v.undecided \in BOOLEAN /\ v.original \in 0..3 /\ v.verified \in 0..3
      /\ e.quotes \in SUBSET Quotes
  BY DEF Agree, Entries, Verdicts
<1>2. valid \in SUBSET Quotes /\ valid \subseteq e.quotes
      /\ \A q \in valid : Bound(c, q, p)
  BY <1>1
<1>3. Unbacked(c, e, p) <=> /\ valid = {} /\ ~e.open
                         /\ (valid # e.quotes \/ e.count > 0)
  BY DEF Unbacked
<1> HIDE DEF valid
<1>4. CASE Unbacked(c, e, p)
  <2> DEFINE absence == Unavailable(c, 0).absence
             assessed == v.assessed /\ e.count > 0
  <2>1. absence \in Absences
    BY DEF Unavailable, Absences
  <2>2. assessed \in BOOLEAN
    OBVIOUS
  <2>3. e2 = [count |-> 0, original |-> e.original, assessed |-> FALSE,
              supported |-> 0, quotes |-> {}, status |-> "unsupported",
              absence |-> absence, open |-> e.open]
    BY <1>1, <1>4 DEF Reconciled, Unassessed, Entries
  <2>4. v2 = [status |-> "unsupported", assessed |-> assessed,
              original |-> v.original, verified |-> 0,
              absence |-> absence, rescan |-> FALSE, open |-> v.open,
              undecided |-> v.undecided]
    BY <1>1, <1>4 DEF ReconciledVerdict, Verdicts
  <2> HIDE DEF absence, assessed, e2, v2
  <2>5. e2 \in Entries /\ v2 \in Verdicts
    BY <1>1, <2>1, <2>2, <2>3, <2>4 DEF Entries, Verdicts, Statuses
  <2>6. /\ e2.count = 0 /\ e2.supported = 0 /\ ~e2.assessed /\ e2.quotes = {}
        /\ e2.open = e.open /\ v2.open = v.open /\ v2.verified = 0
        /\ v2.status = "unsupported" /\ v2.original = v.original
    BY <2>3, <2>4
  <2>7. ~e.open /\ ~v.open
    BY <1>3, <1>4 DEF Agree
  <2>8. QED
    BY <1>1, <2>5, <2>6, <2>7 DEF Agree, Whole, Traced, e2, v2
<1>5. CASE ~Unbacked(c, e, p)
  <2>1. e2 = [e EXCEPT !.quotes = valid]
    BY <1>5 DEF Reconciled, valid
  <2>2. v2 = v
    BY <1>5 DEF ReconciledVerdict
  <2> HIDE DEF e2, v2
  <2>3. e2 \in Entries
    BY <1>1, <1>2, <2>1 DEF Entries
  <2>4. /\ e2.count = e.count /\ e2.supported = e.supported
        /\ e2.assessed = e.assessed /\ e2.quotes = valid /\ e2.open = e.open
    BY <1>1, <2>1 DEF Entries
  <2>5. CASE e.open
    BY <1>1, <1>2, <2>2, <2>3, <2>4, <2>5 DEF Agree, Whole, Traced, e2, v2
  <2>6. CASE ~e.open /\ valid # {}
    BY <1>1, <1>2, <2>2, <2>3, <2>4, <2>6 DEF Agree, Whole, Traced, e2, v2
  <2>7. CASE ~e.open /\ valid = {}
    <3>1. valid = e.quotes /\ e.count = 0
      BY <1>1, <1>3, <1>5, <2>7
    <3>2. ~e.assessed
      BY <2>7, <3>1 DEF Agree
    <3>3. QED
      BY <1>1, <1>2, <2>2, <2>3, <2>4, <2>7, <3>1, <3>2
         DEF Agree, Whole, Traced, e2, v2
  <2>8. QED
    BY <2>5, <2>6, <2>7
<1>6. QED
  BY <1>4, <1>5

\* applyLzForensicEvaluation and syncEvidenceCheck do so too.
LEMMA AuthorizedAgrees ==
  ASSUME NEW c \in Criteria, NEW e, NEW v, NEW p, Agree(e, v), Whole(c, e, p)
  PROVE  /\ Agree(Authorized(c, e), AuthorizedVerdict(c, e, v))
         /\ Whole(c, Authorized(c, e), p)
<1> DEFINE e2 == Authorized(c, e)
           v2 == AuthorizedVerdict(c, e, v)
           most == Limit(Strongest(e))
<1>1. /\ e \in Entries /\ v \in Verdicts
      /\ e.count \in 0..3 /\ e.supported \in 0..3 /\ e.open \in BOOLEAN
      /\ e.assessed \in BOOLEAN /\ v.open \in BOOLEAN /\ v.assessed \in BOOLEAN
      /\ v.undecided \in BOOLEAN /\ v.original \in 0..3 /\ v.verified \in 0..3
      /\ e.quotes \in SUBSET Quotes
  BY DEF Agree, Entries, Verdicts
<1>2. most \in {1, 2, 3}
  BY DEF Limit
<1>3. CASE e2 = e
  BY <1>3 DEF AuthorizedVerdict
<1>4. CASE e2 # e /\ e.absence = "tested_absent" /\ Strongest(e) # "platform"
  <2> DEFINE absence == Unavailable(c, 0).absence
  <2>1. absence \in Absences
    BY DEF Unavailable, Absences
  <2>2. ~e.open /\ ~v.open
    BY <1>4 DEF Authorized, Agree
  <2>3. e2 = [count |-> 0, original |-> e.original, assessed |-> FALSE,
              supported |-> 0, quotes |-> {}, status |-> e.status,
              absence |-> absence, open |-> e.open]
    BY <1>1, <1>4, <2>2 DEF Authorized, Unassessed, Entries
  <2>4. v2 = [v EXCEPT !.verified = 0, !.assessed = FALSE,
                       !.absence = "unknown_absent"]
    BY <1>4 DEF AuthorizedVerdict
  <2> HIDE DEF absence, e2, v2
  <2>5. e2 \in Entries
    BY <1>1, <2>1, <2>3 DEF Entries
  <2>a. v2 = [status |-> v.status, assessed |-> FALSE,
              original |-> v.original, verified |-> 0,
              absence |-> "unknown_absent", rescan |-> v.rescan,
              open |-> v.open, undecided |-> v.undecided]
    BY <1>1, <2>4 DEF Verdicts
  <2>6. v2 \in Verdicts
    BY <1>1, <2>a DEF Verdicts, Absences
  <2>7. /\ e2.count = 0 /\ e2.supported = 0 /\ ~e2.assessed /\ e2.quotes = {}
        /\ e2.open = e.open
    BY <2>3
  <2>8. /\ v2.open = v.open /\ v2.verified = 0 /\ v2.status = v.status
        /\ v2.original = v.original /\ v2.undecided = v.undecided
    BY <1>1, <2>4 DEF Verdicts
  <2>9. QED
    BY <1>1, <2>2, <2>5, <2>6, <2>7, <2>8 DEF Agree, Whole, Traced, e2, v2
<1>5. CASE e2 # e /\ ~(e.absence = "tested_absent" /\ Strongest(e) # "platform")
  <2>1. ~e.open /\ ~v.open /\ e.count = 3 /\ most < 3
    BY <1>5 DEF Authorized, Agree
  <2>2. most \in 1..2
    BY <1>2, <2>1
  <2>3. Lower(e.supported, most) = most /\ e.assessed /\ v.assessed
        /\ e.quotes # {}
    BY <1>1, <2>1, <2>2 DEF Agree, Lower
  <2>4. e.absence # "tested_absent"
    BY <1>5, <2>1 DEF Limit
  <2>5. e2 = [e EXCEPT !.count = most, !.assessed = TRUE, !.supported = most]
    BY <1>5, <2>1, <2>3 DEF Authorized
  <2>6. v2 = [v EXCEPT !.verified = e2.count]
    BY <1>5, <2>4 DEF AuthorizedVerdict
  <2> HIDE DEF e2, v2, most
  <2>a. e2 = [count |-> most, original |-> e.original, assessed |-> TRUE,
              supported |-> most, quotes |-> e.quotes, status |-> e.status,
              absence |-> e.absence, open |-> e.open]
    BY <1>1, <2>5 DEF Entries
  <2>7. e2 \in Entries
    BY <1>1, <2>2, <2>a DEF Entries
  <2>8. /\ e2.count = most /\ e2.supported = most /\ e2.assessed
        /\ e2.quotes = e.quotes /\ e2.open = e.open
    BY <1>1, <2>5 DEF Entries
  <2>9. v2 \in Verdicts
    BY <1>1, <2>2, <2>6, <2>8 DEF Verdicts
  <2>10. /\ v2.open = v.open /\ v2.verified = most /\ v2.status = v.status
         /\ v2.original = v.original /\ v2.undecided = v.undecided
         /\ v2.assessed = v.assessed
    BY <1>1, <2>6, <2>8 DEF Verdicts
  <2>11. ~v.undecided /\ v.original = 3
    BY <1>1, <2>1 DEF Agree
  <2>12. QED
    BY <1>1, <2>1, <2>2, <2>3, <2>7, <2>8, <2>9, <2>10, <2>11
       DEF Agree, Whole, Traced, e2, v2
<1>6. QED
  BY <1>3, <1>4, <1>5

-----------------------------------------------------------------------------
(* The inductive invariant *)

Open == pc \in {"intake", "refused", "phase1"}

Typed ==
  /\ pc \in {"intake", "refused", "phase1", "reconciled", "gate",
             "admitted", "rejected"}
  /\ scope \subseteq Batches
  /\ stage \in [Batches -> {"out", "scan", "check", "judge", "done", "failed"}]
  /\ packet = [b \in Batches |-> packet[b]]
  /\ found \in [Criteria -> Findings \cup {Null}]
  /\ verdict \in [Criteria -> Verdicts \cup {Null}]
  /\ log \in [Criteria -> Entries \cup {Null}]

\* What the stage of its design area says of a criterion: a finding while the
\* area is read, a verdict that fits it from the check on, and a log entry
\* once the area is done; past phase 1 the entry is bound to the packet.
Progress(c) ==
  /\ stage[BatchOf[c]] \notin {"check", "judge"} => found[c] = Null
  /\ stage[BatchOf[c]] \in {"check", "judge"} => found[c] \in Findings
  /\ stage[BatchOf[c]] = "judge" => Fits(found[c], verdict[c])
  /\ stage[BatchOf[c]] = "done" <=> log[c] # Null
  /\ log[c] # Null => Agree(log[c], verdict[c])
  /\ ~Open /\ log[c] # Null =>
       Whole(c, log[c], packet[BatchOf[c]] \cup Computed(upload))

\* Just the areas of the scope are read, and past phase 1 none is under way.
Closed == /\ \A b \in Batches : b \in scope <=> stage[b] # "out"
          /\ ~Open => \A b \in scope : stage[b] \in {"done", "failed"}

\* What is open stays visible in the score.
OpenShows ==
  pc = "admitted" =>
    \A c \in Criteria : log[c] # Null /\ log[c].open =>
                           score.low /\ ~score.sufficient

IInv == /\ Typed /\ Closed
        /\ \A c \in Criteria : Progress(c)
        /\ OnlyMissingAreasReject /\ ScoreIsEarned /\ OpenShows

LEMMA InitIInv == Init => IInv
<1> SUFFICES ASSUME Init PROVE IInv
  OBVIOUS
<1>1. Typed
  BY ScopeAssumption DEF Init, Typed
<1>2. Closed
  BY <1>1 DEF Init, Closed, Open, Typed
<1>3. ASSUME NEW c \in Criteria
      PROVE  Progress(c)
  BY <1>3, AreaOf DEF Init, Progress, Open
<1>4. OnlyMissingAreasReject /\ ScoreIsEarned /\ OpenShows
  BY DEF Init, OnlyMissingAreasReject, ScoreIsEarned, OpenShows
<1>5. QED
  BY <1>1, <1>2, <1>3, <1>4 DEF IInv

\* A step of one design area in phase 1 has to answer for its own criteria.
LEMMA AreaStep ==
  ASSUME IInv, pc = "phase1", pc' = pc, scope' = scope /\ upload' = upload, Typed',
         NEW b \in Batches, stage[b] # "out", stage'[b] # "out",
         \A a \in Batches \ {b} : stage'[a] = stage[a],
         \A c \in Criteria : BatchOf[c] = b => Progress(c)',
         \A c \in Criteria : BatchOf[c] # b =>
           /\ found'[c] = found[c] /\ verdict'[c] = verdict[c]
           /\ log'[c] = log[c]
  PROVE  IInv'
<1>1. Closed'
  BY DEF Closed, Open, IInv, Typed
<1>2. ASSUME NEW c \in Criteria
      PROVE  Progress(c)'
  <2>1. CASE BatchOf[c] = b
    BY <2>1
  <2>2. CASE BatchOf[c] # b
    <3>1. stage'[BatchOf[c]] = stage[BatchOf[c]]
      BY <2>2, AreaOf
    <3>2. QED
      BY <2>2, <3>1 DEF IInv, Progress, Open
  <2>3. QED
    BY <2>1, <2>2
<1>3. OnlyMissingAreasReject' /\ ScoreIsEarned' /\ OpenShows'
  BY DEF OnlyMissingAreasReject, ScoreIsEarned, OpenShows
<1>4. QED
  BY <1>1, <1>2, <1>3 DEF IInv

LEMMA ScanKeeps ==
  ASSUME IInv, NEW b \in Batches, Scan(b) \/ ScanFails(b)
  PROVE  IInv'
<1>1. /\ pc = "phase1" /\ pc' = pc
      /\ scope' = scope /\ upload' = upload /\ packet' = packet
      /\ log' = log /\ stage[b] = "scan"
  BY DEF Scan, ScanFails, input
<1>2. \A c \in Criteria : BatchOf[c] = b => found[c] = Null /\ log[c] = Null
  BY <1>1 DEF IInv, Progress
<1>3. CASE Scan(b)
  <2>1. PICK s \in [Of[b] -> Findings] : found' = Over(found, s)
    BY <1>3 DEF Scan
  <2>2. stage' = [stage EXCEPT ![b] = "check"] /\ verdict' = verdict
    BY <1>3 DEF Scan
  <2>a. /\ found \in [Criteria -> Findings \cup {Null}]
        /\ Of[b] \in SUBSET Criteria /\ DOMAIN s = Of[b]
        /\ \A c \in Of[b] : s[c] \in Findings \cup {Null}
    BY AreasApart DEF IInv, Typed
  <2>3. /\ found' \in [Criteria -> Findings \cup {Null}]
        /\ \A c \in Criteria : found'[c] = IF c \in Of[b] THEN s[c] ELSE found[c]
    BY <2>1, <2>a DEF Over
  <2>4. Typed'
    BY <1>1, <2>2, <2>3 DEF IInv, Typed
  <2>5. stage'[b] = "check" /\ \A a \in Batches \ {b} : stage'[a] = stage[a]
    BY <2>2 DEF IInv, Typed
  <2>6. ASSUME NEW c \in Criteria, BatchOf[c] = b
        PROVE  Progress(c)'
    BY <1>1, <1>2, <2>1, <2>3, <2>5, <2>6, AreasApart DEF Progress, Open
  <2>7. QED
    BY <1>1, <2>2, <2>3, <2>4, <2>5, <2>6, AreaStep, AreasApart
<1>4. CASE ScanFails(b)
  <2>1. found' = found
    BY <1>4 DEF ScanFails
  <2>2. CASE stage' = stage /\ verdict' = verdict
    BY <1>1, <2>1, <2>2 DEF IInv, Typed, Closed, Progress, Open,
       OnlyMissingAreasReject, ScoreIsEarned, OpenShows
  <2>3. CASE /\ stage' = [stage EXCEPT ![b] = "failed"]
             /\ verdict' = Over(verdict, [c \in Of[b] |-> Unavailable(c, 0)])
    <3> DEFINE v == [c \in Of[b] |-> Unavailable(c, 0)]
    <3>1. /\ verdict \in [Criteria -> Verdicts \cup {Null}]
          /\ Of[b] \in SUBSET Criteria /\ DOMAIN v = Of[b]
          /\ \A c \in Of[b] : v[c] \in Verdicts \cup {Null}
      BY UnavailableTyped, AreasApart DEF IInv, Typed
    <3>a. verdict' = Over(verdict, v)
      BY <2>3
    <3> HIDE DEF v
    <3>2. /\ verdict' \in [Criteria -> Verdicts \cup {Null}]
          /\ \A c \in Criteria : verdict'[c] = IF c \in Of[b] THEN v[c] ELSE verdict[c]
      BY <3>1, <3>a DEF Over
    <3>3. Typed'
      BY <1>1, <2>1, <2>3, <3>2 DEF IInv, Typed
    <3>4. stage'[b] = "failed" /\ \A a \in Batches \ {b} : stage'[a] = stage[a]
      BY <2>3 DEF IInv, Typed
    <3>5. ASSUME NEW c \in Criteria, BatchOf[c] = b
          PROVE  Progress(c)'
      BY <1>1, <1>2, <2>1, <3>4, <3>5 DEF Progress, Open
    <3>6. QED
      BY <1>1, <2>1, <3>2, <3>3, <3>4, <3>5, AreaStep, AreasApart
  <2>4. QED
    BY <1>4, <2>2, <2>3 DEF ScanFails
<1>5. QED
  BY <1>3, <1>4

LEMMA CheckKeeps ==
  ASSUME IInv, NEW b \in Batches, Check(b)
  PROVE  IInv'
<1>1. /\ pc = "phase1" /\ pc' = pc
      /\ scope' = scope /\ upload' = upload /\ packet' = packet
      /\ log' = log /\ found' = found /\ stage[b] = "check"
      /\ stage' = [stage EXCEPT ![b] = "judge"]
  BY DEF Check, input
<1>2. PICK v \in Checks(b, found, packet[b] \cup Lines(upload, b)) :
        verdict' = Over(verdict, v)
  BY DEF Check
<1>3. \A c \in Criteria : c \in Of[b] => found[c] \in Findings /\ log[c] = Null
  BY <1>1, AreasApart DEF IInv, Progress
<1>4. DOMAIN v = Of[b] /\ \A c \in Of[b] : Fits(found[c], v[c])
  BY <1>3, ChecksFit, AreasApart
<1>5. /\ verdict \in [Criteria -> Verdicts \cup {Null}]
      /\ Of[b] \in SUBSET Criteria
      /\ \A c \in Of[b] : v[c] \in Verdicts \cup {Null}
  BY <1>4, AreasApart DEF Fits, IInv, Typed
<1>6. /\ verdict' \in [Criteria -> Verdicts \cup {Null}]
      /\ \A c \in Criteria : verdict'[c] = IF c \in Of[b] THEN v[c] ELSE verdict[c]
  BY <1>2, <1>4, <1>5 DEF Over
<1>7. Typed'
  BY <1>1, <1>6 DEF IInv, Typed
<1>8. stage'[b] = "judge" /\ \A a \in Batches \ {b} : stage'[a] = stage[a]
  BY <1>1 DEF IInv, Typed
<1>9. ASSUME NEW c \in Criteria, BatchOf[c] = b
      PROVE  Progress(c)'
  BY <1>1, <1>3, <1>4, <1>6, <1>8, <1>9, AreasApart DEF Progress, Open
<1>10. QED
  BY <1>1, <1>6, <1>7, <1>8, <1>9, AreaStep, AreasApart

\* evidenceItemsNeedingRescan returns criteria of the batch.
LEMMA RescanOfArea ==
  ASSUME NEW b \in Batches
  PROVE  NeedRescan(Part(verdict, Of[b])) \subseteq Of[b]
  BY DEF NeedRescan, Part

\* expandDomainPacket only adds.
LEMMA PacketGrows ==
  ASSUME NEW b \in Batches, NEW asked
  PROVE  packet[b] \subseteq Enlarged(b, asked)
  BY DEF Enlarged, Matched, Expanded

\* What a pass of gap retrieval does to its area.
LEMMA RereadEffect ==
  ASSUME IInv, NEW b \in Batches, Reread(b)
  PROVE  /\ packet' = [packet EXCEPT ![b] = packet'[b]]
         /\ packet[b] \subseteq packet'[b] /\ packet[b] # packet'[b]
         /\ found' \in [Criteria -> Findings \cup {Null}]
         /\ verdict' \in [Criteria -> Verdicts \cup {Null}]
         /\ \A c \in Criteria : BatchOf[c] = b =>
              /\ found'[c] \in Findings /\ Fits(found'[c], verdict'[c])
              /\ ~verdict'[c].open /\ ~verdict'[c].undecided
         /\ \A c \in Criteria : BatchOf[c] # b =>
              found'[c] = found[c] /\ verdict'[c] = verdict[c]
<1>1. PICK asked \in Queries(b) :
        /\ Enlarged(b, asked) # packet[b]
        /\ packet' = [packet EXCEPT ![b] = Enlarged(b, asked)]
  BY DEF Reread
<1>2. packet = [a \in Batches |-> packet[a]]
  BY DEF IInv, Typed
<1>3. /\ packet' = [packet EXCEPT ![b] = packet'[b]]
      /\ packet[b] \subseteq packet'[b] /\ packet[b] # packet'[b]
  BY <1>1, <1>2, PacketGrows
<1>4. PICK s \in [NeedRescan(Part(verdict, Of[b])) -> Findings] :
        \E v \in Checks(b, Over(found, s), packet'[b] \cup Lines(upload, b)) :
          /\ Accept(v) /\ found' = Over(found, s) /\ verdict' = Over(verdict, v)
  BY DEF Reread
<1>5. PICK v \in Checks(b, found', packet'[b] \cup Lines(upload, b)) :
        Accept(v) /\ verdict' = Over(verdict, v)
  BY <1>4
<1>6. stage[b] = "judge" /\ \A c \in Criteria : c \in Of[b] => found[c] \in Findings
  <2>1. stage[b] = "judge"
    BY DEF Reread
  <2>2. ASSUME NEW c \in Criteria, c \in Of[b]
        PROVE  found[c] \in Findings
    <3>1. BatchOf[c] = b /\ Progress(c)
      BY <2>2, AreasApart DEF IInv
    <3>2. QED
      BY <2>1, <3>1 DEF Progress
  <2>3. QED
    BY <2>1, <2>2
<1>7. /\ found \in [Criteria -> Findings \cup {Null}]
      /\ Of[b] \in SUBSET Criteria /\ DOMAIN s \subseteq Of[b]
      /\ \A c \in DOMAIN s : s[c] \in Findings
  BY AreasApart, RescanOfArea DEF IInv, Typed
<1>8. /\ found' \in [Criteria -> Findings \cup {Null}]
      /\ \A c \in Criteria : found'[c] = IF c \in DOMAIN s THEN s[c] ELSE found[c]
  BY <1>4, <1>7 DEF Over
<1>9. /\ \A c \in Of[b] : found'[c] \in Findings
      /\ \A c \in Criteria \ Of[b] : found'[c] = found[c]
  BY <1>6, <1>7, <1>8
<1>10. DOMAIN v = Of[b] /\ \A c \in Of[b] : Fits(found'[c], v[c])
  BY <1>9, ChecksFit
<1>11. \A c \in Of[b] : ~v[c].open /\ ~v[c].undecided
  BY <1>5, <1>10 DEF Accept, CheckFailed
<1>12. /\ verdict \in [Criteria -> Verdicts \cup {Null}]
       /\ \A c \in Of[b] : v[c] \in Verdicts \cup {Null}
  BY <1>10 DEF Fits, IInv, Typed
<1>13. /\ verdict' \in [Criteria -> Verdicts \cup {Null}]
       /\ \A c \in Criteria : verdict'[c] = IF c \in Of[b] THEN v[c] ELSE verdict[c]
  BY <1>5, <1>7, <1>10, <1>12 DEF Over
<1>14. QED
  BY <1>3, <1>8, <1>9, <1>10, <1>11, <1>13, AreasApart

LEMMA RereadKeeps ==
  ASSUME IInv, NEW b \in Batches, Reread(b)
  PROVE  IInv'
<1>1. /\ pc = "phase1" /\ pc' = pc
      /\ scope' = scope /\ upload' = upload /\ log' = log
      /\ stage' = stage /\ stage[b] = "judge"
  BY DEF Reread, input
<1>2. packet' = [a \in Batches |-> packet'[a]]
  <2>1. packet' = [packet EXCEPT ![b] = packet'[b]]
    BY RereadEffect
  <2>2. packet = [a \in Batches |-> packet[a]]
    BY DEF IInv, Typed
  <2>3. QED
    BY <2>1, <2>2
<1>3. Typed'
  BY <1>1, <1>2, RereadEffect DEF IInv, Typed
<1>4. ASSUME NEW c \in Criteria, BatchOf[c] = b
      PROVE  Progress(c)'
  <2>1. log[c] = Null
    BY <1>1, <1>4 DEF IInv, Progress
  <2>2. QED
    BY <1>1, <1>4, <2>1, RereadEffect DEF Progress, Open
<1>5. \A c \in Criteria : BatchOf[c] # b =>
        found'[c] = found[c] /\ verdict'[c] = verdict[c]
  BY RereadEffect
<1>6. QED
  BY <1>1, <1>3, <1>4, <1>5, AreaStep

LEMMA ApplyKeeps ==
  ASSUME IInv, NEW b \in Batches, Finish(b) \/ GiveUp(b)
  PROVE  IInv'
<1>1. /\ pc = "phase1" /\ pc' = pc
      /\ scope' = scope /\ upload' = upload /\ verdict' = verdict
      /\ stage[b] = "judge" /\ Apply(b)
  BY DEF Finish, GiveUp, input
<1>2. packet' = [a \in Batches |-> packet'[a]]
  <2>1. packet = [a \in Batches |-> packet[a]]
    BY DEF IInv, Typed
  <2>2. CASE packet' = packet
    BY <2>1, <2>2
  <2>3. ASSUME NEW asked, packet' = [packet EXCEPT ![b] = Enlarged(b, asked)]
        PROVE  packet' = [a \in Batches |-> packet'[a]]
    BY <2>1, <2>3
  <2>4. QED
    BY <2>2, <2>3 DEF Finish, GiveUp
<1>3. \A c \in Criteria : c \in Of[b] =>
        found[c] \in Findings /\ Fits(found[c], verdict[c])
  BY <1>1, AreasApart DEF IInv, Progress
<1> DEFINE entry == [c \in Of[b] |-> Applied(c, found[c], verdict[c])]
           none  == [c \in Of[b] |-> Null]
<1>4. \A c \in Criteria : c \in Of[b] => Agree(entry[c], verdict[c])
  BY <1>3, AppliedAgrees
<1>5. /\ log \in [Criteria -> Entries \cup {Null}]
      /\ found \in [Criteria -> Findings \cup {Null}]
      /\ Of[b] \in SUBSET Criteria /\ DOMAIN entry = Of[b] /\ DOMAIN none = Of[b]
      /\ \A c \in Of[b] : none[c] = Null
      /\ \A c \in Of[b] : entry[c] \in Entries
  BY <1>4, AreasApart DEF Agree, IInv, Typed
<1>6. log' = Over(log, entry) /\ found' = Over(found, none)
  BY <1>1 DEF Apply
<1> HIDE DEF entry, none
<1>7. /\ log' \in [Criteria -> Entries \cup {Null}]
      /\ \A c \in Criteria : log'[c] = IF c \in Of[b] THEN entry[c] ELSE log[c]
  BY <1>5, <1>6 DEF Over
<1>8. /\ found' \in [Criteria -> Findings \cup {Null}]
      /\ \A c \in Criteria : found'[c] = IF c \in Of[b] THEN Null ELSE found[c]
  BY <1>5, <1>6 DEF Over
<1>9. stage' = [stage EXCEPT ![b] = "done"]
  BY <1>1 DEF Apply
<1>10. Typed'
  BY <1>1, <1>2, <1>7, <1>8, <1>9 DEF IInv, Typed
<1>11. stage'[b] = "done" /\ \A a \in Batches \ {b} : stage'[a] = stage[a]
  BY <1>9 DEF IInv, Typed
<1>12. ASSUME NEW c \in Criteria, BatchOf[c] = b
       PROVE  Progress(c)'
  <2>1. /\ log'[c] = entry[c] /\ found'[c] = Null /\ entry[c] \in Entries
        /\ Agree(entry[c], verdict[c])
    BY <1>4, <1>5, <1>7, <1>8, <1>12, AreasApart
  <2>2. log'[c] # Null
    BY <2>1, NullAssumption
  <2>3. QED
    BY <1>1, <1>11, <1>12, <2>1, <2>2 DEF Progress, Open
<1>13. QED
  BY <1>1, <1>7, <1>8, <1>10, <1>11, <1>12, AreaStep, AreasApart

LEMMA IntakeKeeps ==
  ASSUME IInv, Acquire \/ Refuse
  PROVE  IInv'
<1>1. /\ pc = "intake" /\ pc' \in {"phase1", "refused"}
      /\ scope' = scope /\ upload' = upload
      /\ stage' = stage /\ found' = found /\ verdict' = verdict /\ log' = log
  BY DEF Acquire, Refuse, input, batch, result
<1>2. packet' = [b \in Batches |-> packet'[b]]
  BY DEF Acquire, Refuse, batch, IInv, Typed
<1>3. Typed'
  BY <1>1, <1>2 DEF IInv, Typed
<1>4. QED
  BY <1>1, <1>3 DEF IInv, Closed, Progress, Open, OnlyMissingAreasReject,
     ScoreIsEarned, OpenShows

LEMMA ReconcileKeeps ==
  ASSUME IInv, Reconcile
  PROVE  IInv'
<1>1. /\ pc = "phase1" /\ pc' = "reconciled" /\ scope' = scope /\ upload' = upload
      /\ stage' = stage /\ packet' = packet /\ found' = found
      /\ \A b \in scope : stage[b] \in {"done", "failed"}
  BY DEF Reconcile, input, batch
<1>2. ASSUME NEW c \in Criteria
      PROVE  /\ log'[c] \in Entries \cup {Null}
             /\ verdict'[c] \in Verdicts \cup {Null}
             /\ log'[c] = Null <=> log[c] = Null
             /\ log'[c] # Null => /\ Agree(log'[c], verdict'[c])
                                  /\ Whole(c, log'[c], packet[BatchOf[c]] \cup Computed(upload))
  <2>1. CASE log[c] = Null
    BY <2>1 DEF Reconcile, IInv, Typed
  <2>2. CASE log[c] # Null
    <3>1. Agree(log[c], verdict[c])
      BY <2>2 DEF IInv, Progress
    <3> DEFINE p == packet[BatchOf[c]] \cup Computed(upload)
    <3>2. /\ log'[c] = Reconciled(c, log[c], p)
          /\ verdict'[c] = ReconciledVerdict(c, log[c], p, verdict[c])
      BY <2>2 DEF Reconcile
    <3> HIDE DEF p
    <3>3. Agree(log'[c], verdict'[c]) /\ Whole(c, log'[c], p)
      BY <3>1, <3>2, ReconciledAgrees
    <3>4. QED
      BY <2>2, <3>3, NullAssumption DEF Agree, p
  <2>3. QED
    BY <2>1, <2>2
<1>3. /\ log' = [c \in Criteria |-> log'[c]]
      /\ verdict' = [c \in Criteria |-> verdict'[c]]
  BY DEF Reconcile
<1>4. Typed'
  BY <1>1, <1>2, <1>3 DEF IInv, Typed
<1>5. Closed'
  BY <1>1 DEF IInv, Closed, Open
<1>6. ASSUME NEW c \in Criteria
      PROVE  Progress(c)'
  <2>2. stage[BatchOf[c]] \notin {"check", "judge"}
    BY <1>1, AreaOf DEF IInv, Progress, Typed, Closed
  <2>3. QED
    BY <1>1, <1>2, <2>2 DEF IInv, Progress
<1>7. OnlyMissingAreasReject' /\ ScoreIsEarned' /\ OpenShows'
  BY <1>1 DEF OnlyMissingAreasReject, ScoreIsEarned, OpenShows
<1>8. QED
  BY <1>4, <1>5, <1>6, <1>7 DEF IInv

LEMMA AuthorizeKeeps ==
  ASSUME IInv, Authorize
  PROVE  IInv'
<1>1. /\ pc = "reconciled" /\ pc' = "gate" /\ scope' = scope /\ upload' = upload
      /\ stage' = stage /\ packet' = packet /\ found' = found
  BY DEF Authorize, input, batch
<1>2. ASSUME NEW c \in Criteria
      PROVE  /\ log'[c] \in Entries \cup {Null}
             /\ verdict'[c] \in Verdicts \cup {Null}
             /\ log'[c] = Null <=> log[c] = Null
             /\ log'[c] # Null => /\ Agree(log'[c], verdict'[c])
                                  /\ Whole(c, log'[c], packet[BatchOf[c]] \cup Computed(upload))
  <2>1. CASE log[c] = Null
    BY <2>1 DEF Authorize, IInv, Typed
  <2>2. CASE log[c] # Null
    <3>1. /\ Agree(log[c], verdict[c])
          /\ Whole(c, log[c], packet[BatchOf[c]] \cup Computed(upload))
      BY <1>1, <2>2 DEF IInv, Progress, Open
    <3>2. /\ log'[c] = Authorized(c, log[c])
          /\ verdict'[c] = AuthorizedVerdict(c, log[c], verdict[c])
      BY <2>2 DEF Authorize
    <3>3. /\ Agree(log'[c], verdict'[c])
          /\ Whole(c, log'[c], packet[BatchOf[c]] \cup Computed(upload))
      BY <3>1, <3>2, AuthorizedAgrees
    <3>4. QED
      BY <2>2, <3>3, NullAssumption DEF Agree
  <2>3. QED
    BY <2>1, <2>2
<1>3. /\ log' = [c \in Criteria |-> log'[c]]
      /\ verdict' = [c \in Criteria |-> verdict'[c]]
  BY DEF Authorize
<1>4. Typed'
  BY <1>1, <1>2, <1>3 DEF IInv, Typed
<1>5. Closed'
  BY <1>1 DEF IInv, Closed, Open
<1>6. ASSUME NEW c \in Criteria
      PROVE  Progress(c)'
  <2>1. stage[BatchOf[c]] \notin {"check", "judge"}
    BY <1>1, AreaOf DEF IInv, Typed, Closed, Open
  <2>2. QED
    BY <1>1, <1>2, <2>1 DEF IInv, Progress
<1>7. OnlyMissingAreasReject' /\ ScoreIsEarned' /\ OpenShows'
  BY <1>1 DEF OnlyMissingAreasReject, ScoreIsEarned, OpenShows
<1>8. QED
  BY <1>4, <1>5, <1>6, <1>7 DEF IInv

\* What a resolved criterion rests on: an entry that is not open and has a
\* quote from platform evidence, and its own count.
LEMMA ResolvedRests ==
  ASSUME NEW c \in Criteria, NEW e \in Entries, NEW w,
         Resolved(c, Classed(c, e), w) # Null
  PROVE  /\ Resolved(c, Classed(c, e), w) = e.count /\ ~e.open
         /\ \E q \in e.quotes : Class[q.cites] = "platform"
<1>1. CASE Demoted(c, e)
  <2>1. ~Classed(c, e).assessed
    BY <1>1 DEF Classed, Unassessed, Entries
  <2>2. Resolved(c, Classed(c, e), w) = Null
    BY <2>1 DEF Resolved, Backed
  <2>3. QED
    BY <2>2
<1>2. CASE ~Demoted(c, e)
  <2>1. Classed(c, e) = e
    BY <1>2 DEF Classed
  <2>2. ~e.open /\ Backed(e) /\ Resolved(c, e, w) = e.count
    BY <2>1 DEF Resolved
  <2>3. "platform" \in Cited(e)
    BY <1>2, <2>2 DEF Demoted
  <2>4. QED
    BY <2>1, <2>2, <2>3 DEF Cited
<1>3. QED
  BY <1>1, <1>2

LEMMA ClassedOpen ==
  ASSUME NEW c \in Criteria, NEW e \in Entries
  PROVE  Classed(c, e).open = e.open
  BY DEF Classed, Unassessed, Entries

LEMMA AdmitKeeps ==
  ASSUME IInv, Admit
  PROVE  IInv'
<1>1. /\ pc = "gate" /\ pc' = "admitted" /\ Admissible
      /\ scope' = scope /\ upload' = upload
      /\ stage' = stage /\ packet' = packet /\ found' = found
      /\ verdict' = verdict /\ log' = log
  BY DEF Admit, input, batch, result
<1>2. PICK wordings \in [Criteria -> Wordings] :
        score' = Scored(log, CheckFailed(verdict), wordings)
  BY DEF Admit
<1> DEFINE e == [c \in Criteria |-> Classed(c, log[c])]
           w == [c \in Criteria |-> IF Demoted(c, log[c]) THEN "plain"
                                    ELSE wordings[c]]
<1>3. \A c \in Criteria :
        /\ log[c] \in Entries /\ Agree(log[c], verdict[c])
        /\ Whole(c, log[c], packet[BatchOf[c]] \cup Computed(upload))
  BY <1>1 DEF Admissible, IInv, Typed, Progress, Open
<1>4. /\ score'.resolved = [c \in Criteria |-> Resolved(c, e[c], w[c])]
      /\ score'.sufficient => \A c \in Criteria : ~e[c].open
      /\ CheckFailed(verdict) => score'.low
  BY <1>2 DEF Scored
<1>5. ASSUME NEW c \in Criteria
      PROVE  e[c].open = log[c].open
  BY <1>3, ClassedOpen
<1>6. ASSUME NEW c \in Criteria, score'.resolved[c] # Null
      PROVE  /\ score'.resolved[c] = verdict[c].verified
             /\ score'.resolved[c] <= verdict[c].original
             /\ \E q \in log[c].quotes :
                  /\ q.text = q.cites /\ Class[q.cites] = "platform"
                  /\ \/ q.cites \in packet[BatchOf[c]]
                     \/ /\ q.cites \in Derived /\ c \in Targets[q.cites]
                        /\ SourceOf[q.cites] \in upload.sources
  <2>1. score'.resolved[c] = Resolved(c, Classed(c, log[c]), w[c])
    BY <1>4
  <2> HIDE DEF w
  <2>2. /\ score'.resolved[c] = log[c].count /\ ~log[c].open
        /\ \E q \in log[c].quotes : Class[q.cites] = "platform"
    BY <1>3, <1>6, <2>1, ResolvedRests
  <2>3. \A q \in log[c].quotes :
          /\ q.text = q.cites
          /\ \/ q.cites \in packet[BatchOf[c]]
             \/ /\ q.cites \in Derived /\ c \in Targets[q.cites]
                /\ SourceOf[q.cites] \in upload.sources
    BY <1>3 DEF Whole, Traced, Bound, Computed
  <2>4. log[c].count = verdict[c].verified /\ verdict[c].verified <= verdict[c].original
    BY <1>3, <2>2 DEF Agree
  <2>5. QED
    BY <2>2, <2>3, <2>4
<1>7. ScoreIsEarned'
  <2>1. ASSUME score'.sufficient, NEW c \in Criteria
        PROVE  ~verdict[c].open
    BY <1>3, <1>4, <1>5, <2>1 DEF Agree
  <2> HIDE DEF e, w
  <2>2. QED
    BY <1>1, <1>6, <2>1 DEF ScoreIsEarned
<1>8. OpenShows'
  <2>1. ASSUME NEW c \in Criteria, log[c].open
        PROVE  score'.low /\ ~score'.sufficient
    <3>1. verdict[c].open /\ c \in DOMAIN verdict
      BY <1>3, <2>1 DEF Agree, IInv, Typed
    <3>2. CheckFailed(verdict)
      BY <3>1 DEF CheckFailed
    <3>3. QED
      BY <1>4, <1>5, <2>1, <3>2
  <2> HIDE DEF e, w
  <2>2. QED
    BY <1>1, <2>1 DEF OpenShows
<1>9. Typed' /\ Closed' /\ OnlyMissingAreasReject'
  BY <1>1 DEF IInv, Typed, Closed, Open, OnlyMissingAreasReject
<1>10. \A c \in Criteria : Progress(c)'
  BY <1>1 DEF IInv, Progress, Open
<1>11. QED
  BY <1>7, <1>8, <1>9, <1>10 DEF IInv

\* If all areas were read, the gate has nothing to turn down.
LEMMA RejectKeeps ==
  ASSUME IInv, Reject
  PROVE  IInv'
<1>1. /\ pc = "gate" /\ pc' = "rejected" /\ ~Admissible
      /\ scope' = scope /\ upload' = upload
      /\ stage' = stage /\ packet' = packet /\ found' = found
      /\ verdict' = verdict /\ log' = log
  BY DEF Reject, input, batch, result
<1>2. ASSUME Failures = {}, scope = Batches, NEW c \in Criteria
      PROVE  /\ log[c] # Null /\ verdict[c] # Null
             /\ Consistent(log[c])
             /\ Traced(c, log[c], packet[BatchOf[c]] \cup Computed(upload))
             /\ Settled(log[c], verdict[c])
  <2>1. stage[BatchOf[c]] = "done"
    BY <1>1, <1>2, AreaOf DEF Failures, IInv, Closed, Open
  <2>2. /\ log[c] # Null /\ Agree(log[c], verdict[c])
        /\ Whole(c, log[c], packet[BatchOf[c]] \cup Computed(upload))
    BY <1>1, <2>1 DEF IInv, Progress, Open
  <2>3. verdict[c] # Null /\ log[c].open \in BOOLEAN /\ log[c].assessed \in BOOLEAN
        /\ verdict[c].open \in BOOLEAN /\ verdict[c].undecided \in BOOLEAN
    BY <2>2, NullAssumption DEF Agree, Verdicts, Entries
  <2>4. Consistent(log[c])
    BY <2>2, <2>3 DEF Consistent, Agree, Whole
  <2>5. Traced(c, log[c], packet[BatchOf[c]] \cup Computed(upload))
    BY <2>2 DEF Whole
  <2>6. Settled(log[c], verdict[c])
    BY <2>2, <2>3 DEF Settled, Agree
  <2>7. QED
    BY <2>2, <2>3, <2>4, <2>5, <2>6
<1>3. Failures # {} \/ scope # Batches
  BY <1>1, <1>2 DEF Admissible
<1>4. OnlyMissingAreasReject'
  BY <1>1, <1>3 DEF OnlyMissingAreasReject, Failures
<1>5. Typed' /\ Closed' /\ ScoreIsEarned' /\ OpenShows'
  BY <1>1 DEF IInv, Typed, Closed, Open, ScoreIsEarned, OpenShows
<1>6. \A c \in Criteria : Progress(c)'
  BY <1>1 DEF IInv, Progress, Open
<1>7. QED
  BY <1>4, <1>5, <1>6 DEF IInv

LEMMA StutterKeeps ==
  ASSUME IInv, UNCHANGED vars
  PROVE  IInv'
<1>1. /\ pc' = pc
      /\ scope' = scope /\ upload' = upload /\ stage' = stage /\ packet' = packet
      /\ found' = found /\ verdict' = verdict /\ log' = log /\ score' = score
  BY DEF vars, input, batch, result
<1>2. /\ Typed' /\ Closed' /\ OnlyMissingAreasReject'
      /\ ScoreIsEarned' /\ OpenShows'
  BY <1>1 DEF IInv, Typed, Closed, Open, ScoreIsEarned, OpenShows,
     OnlyMissingAreasReject, Failures
<1>3. \A c \in Criteria : Progress(c)'
  BY <1>1 DEF IInv, Progress, Open
<1>4. QED
  BY <1>2, <1>3 DEF IInv

LEMMA NextKeeps ==
  ASSUME IInv, [Next]_vars
  PROVE  IInv'
<1>1. ASSUME NEW b \in Batches,
             \/ Scan(b) \/ ScanFails(b) \/ Check(b)
             \/ Reread(b) \/ Finish(b) \/ GiveUp(b)
      PROVE  IInv'
  BY <1>1, ScanKeeps, CheckKeeps, RereadKeeps, ApplyKeeps
<1>2. CASE Acquire \/ Refuse \/ Reconcile \/ Authorize \/ Admit \/ Reject
  BY <1>2, IntakeKeeps, ReconcileKeeps, AuthorizeKeeps, AdmitKeeps, RejectKeeps
<1>3. CASE UNCHANGED vars
  BY <1>3, StutterKeeps
<1>4. QED
  BY <1>1, <1>2, <1>3 DEF Next

LEMMA Invariance == Spec => []IInv
<1>1. Init => IInv
  BY InitIInv
<1>2. IInv /\ [Next]_vars => IInv'
  BY NextKeeps
<1>3. QED
  BY <1>1, <1>2, PTL DEF Spec

-----------------------------------------------------------------------------
(* Choices in an order: what expandDomainPacket and buildDomainPacket take *)

\* A non-empty family of sets of chunks has a smallest member.
LEMMA SmallestExists ==
  ASSUME NEW F \in SUBSET SUBSET Chunks, F # {}
  PROVE  \E T \in F : \A U \in F : U \subseteq T => U = T
<1>1. IsWellFoundedOn(StrictSubsetOrdering(Chunks), SUBSET Chunks)
  <2>1. FiniteSubsetsOf(Chunks) = SUBSET Chunks
    BY FS_FiniteSubsetsOfFinite, ChunkAssumption
  <2>2. IsWellFoundedOn(StrictSubsetOrdering(Chunks), FiniteSubsetsOf(Chunks))
    BY FS_StrictSubsetOrderingWellFounded
  <2>3. QED
    BY <2>1, <2>2
<1>2. \A G : G \subseteq SUBSET Chunks /\ G # {} =>
        \E T \in G : \A U \in G :
          ~(<<U, T>> \in StrictSubsetOrdering(Chunks))
  BY <1>1, WFMin
<1>3. PICK T \in F : \A U \in F : ~(<<U, T>> \in StrictSubsetOrdering(Chunks))
  BY <1>2
<1>4. QED
  BY <1>3 DEF StrictSubsetOrdering

\* before[c]: the chunks ahead of c in a strict total order.
Ordering(before) ==
  /\ before \in [Chunks -> SUBSET Chunks]
  /\ \A c \in Chunks : c \notin before[c]
  /\ \A c, d \in Chunks : d \in before[c] => before[d] \subseteq before[c]
  /\ \A c, d \in Chunks : c # d => c \in before[d] \/ d \in before[c]

LEMMA LastExists ==
  ASSUME NEW before, Ordering(before), NEW S \in SUBSET Chunks, S # {}
  PROVE  \E m \in S : S \cap before[m] = S \ {m}
<1> DEFINE Behind(d) == {c \in S : d \in before[c]}
           F == {Behind(d) : d \in S}
<1>1. F \in SUBSET SUBSET Chunks /\ F # {}
  OBVIOUS
<1>2. PICK T \in F : \A U \in F : U \subseteq T => U = T
  <2> HIDE DEF F
  <2>1. QED
    BY <1>1, SmallestExists
<1>3. PICK m \in S : T = Behind(m)
  OBVIOUS
<1>4. ASSUME NEW c \in S, m \in before[c]
      PROVE  FALSE
  <2>1. Behind(c) \subseteq Behind(m)
    BY <1>4 DEF Ordering
  <2>2. c \in Behind(m) /\ c \notin Behind(c)
    BY <1>4 DEF Ordering
  <2>3. Behind(c) \in F
    OBVIOUS
  <2>4. QED
    BY <1>2, <1>3, <2>1, <2>2, <2>3
<1>5. QED
  BY <1>4 DEF Ordering

\* A choice that goes through S in the order, and takes c if the pair of what
\* it has taken so far and c is in admitted, has a result.
LEMMA GreedyExists ==
  ASSUME NEW before, Ordering(before), NEW S \in SUBSET Chunks, NEW admitted
  PROVE  \E T \in SUBSET S :
           \A c \in S : c \in T <=> <<T \cap before[c], c>> \in admitted
<1> DEFINE Result(D, T) ==
      \A c \in D : c \in T <=> <<T \cap before[c], c>> \in admitted
           F == {D \in SUBSET Chunks : \A T \in SUBSET D : ~Result(D, T)}
<1>1. SUFFICES ASSUME F # {}
               PROVE  FALSE
  BY DEF F
<1>2. PICK D \in F : \A U \in F : U \subseteq D => U = D
  <2>1. F \in SUBSET SUBSET Chunks
    OBVIOUS
  <2> HIDE DEF F
  <2>2. QED
    BY <1>1, <2>1, SmallestExists
<1>3. D \in SUBSET Chunks /\ \A T \in SUBSET D : ~Result(D, T)
  BY <1>2
<1>4. D # {}
  BY <1>3
<1>5. PICK m \in D : D \cap before[m] = D \ {m}
  BY <1>3, <1>4, LastExists
<1>6. D \ {m} \notin F /\ D \ {m} \in SUBSET Chunks
  BY <1>2, <1>3, <1>5
<1>7. PICK T \in SUBSET (D \ {m}) : Result(D \ {m}, T)
  BY <1>6
<1> DEFINE T1 == IF <<T, m>> \in admitted THEN T \cup {m} ELSE T
<1>8. ASSUME NEW c \in D \ {m}
      PROVE  T1 \cap before[c] = T \cap before[c]
  <2>1. m \notin before[c]
    BY <1>3, <1>5 DEF Ordering
  <2>2. QED
    BY <2>1
<1>9. T1 \cap before[m] = T
  <2>1. T \subseteq before[m] /\ m \notin before[m]
    BY <1>3, <1>5, <1>7 DEF Ordering
  <2>2. QED
    BY <2>1
<1>10. T1 \in SUBSET D /\ (m \in T1 <=> <<T, m>> \in admitted)
  BY <1>7
<1>11. \A c \in D \ {m} : c \in T1 <=> c \in T
  BY <1>7
<1> HIDE DEF T1
<1>12. Result(D, T1)
  BY <1>7, <1>8, <1>9, <1>10, <1>11
<1>13. QED
  BY <1>3, <1>10, <1>12

LEMMA FirstExists ==
  ASSUME NEW before, Ordering(before), NEW S \in SUBSET Chunks, S # {}
  PROVE  \E m \in S : S \cap before[m] = {}
<1> DEFINE F == {S \cap before[d] : d \in S}
<1>1. F \in SUBSET SUBSET Chunks /\ F # {}
  OBVIOUS
<1>2. PICK G \in F : \A U \in F : U \subseteq G => U = G
  <2> HIDE DEF F
  <2>1. QED
    BY <1>1, SmallestExists
<1>3. PICK m \in S : G = S \cap before[m]
  BY <1>2
<1>4. ASSUME NEW e \in S \cap before[m]
      PROVE  FALSE
  <2>1. before[e] \subseteq before[m] /\ e \notin before[e]
    BY <1>4 DEF Ordering
  <2>2. S \cap before[e] \in F /\ S \cap before[e] \subseteq G
    BY <1>3, <2>1
  <2>3. S \cap before[e] = G
    BY <1>2, <2>2
  <2>4. QED
    BY <1>3, <2>1, <2>3
<1>5. QED
  BY <1>4

\* It has only one: two results would differ on a first chunk, and agree on all
\* that is ahead of it.
LEMMA GreedyUnique ==
  ASSUME NEW before, Ordering(before), NEW S \in SUBSET Chunks, NEW admitted,
         NEW T \in SUBSET S, NEW U \in SUBSET S,
         \A c \in S : c \in T <=> <<T \cap before[c], c>> \in admitted,
         \A c \in S : c \in U <=> <<U \cap before[c], c>> \in admitted
  PROVE  T = U
<1> DEFINE D == (T \ U) \cup (U \ T)
<1>1. SUFFICES ASSUME D # {} PROVE FALSE
  OBVIOUS
<1>2. D \in SUBSET Chunks /\ D \subseteq S
  OBVIOUS
<1>3. PICK m \in D : D \cap before[m] = {}
  <2> HIDE DEF D
  <2>1. QED
    BY <1>1, <1>2, FirstExists
<1>4. T \cap before[m] = U \cap before[m]
  BY <1>3
<1>5. m \in T <=> m \in U
  BY <1>2, <1>3, <1>4
<1>6. QED
  BY <1>3, <1>5

-----------------------------------------------------------------------------
(* The size of a packet *)

LEMMA ChunkTyped ==
  ASSUME NEW c \in Chunks
  PROVE  /\ IsFiniteSet({c} \X (1..Size[c]))
         /\ Cardinality({c} \X (1..Size[c])) = Size[c]
         /\ Size[c] \in Nat /\ Order[c] \in Nat
<1>1. Size[c] \in Nat /\ Order[c] \in Nat
  BY ChunkAssumption
<1>2. IsFiniteSet(1..Size[c]) /\ Cardinality(1..Size[c]) = Size[c]
  <2>1. \A n \in Int : n >= 0 => IsFiniteSet(1..n) /\ Cardinality(1..n) = n
    BY FS_Interval
  <2>2. QED
    BY <1>1, <2>1
<1>3. IsFiniteSet({c}) /\ Cardinality({c}) = 1
  BY FS_Singleton
<1>4. /\ IsFiniteSet({c} \X (1..Size[c]))
      /\ Cardinality({c} \X (1..Size[c])) = 1 * Size[c]
  BY <1>2, <1>3, FS_Product
<1>5. QED
  BY <1>1, <1>4

LEMMA TextFinite ==
  ASSUME NEW S \in SUBSET Chunks
  PROVE  IsFiniteSet(Text(S)) /\ Estimate(S) \in Nat
<1> DEFINE f == [c \in S |-> {c} \X (1..Size[c])]
           R == {f[c] : c \in S}
<1>1. IsFiniteSet(S)
  BY ChunkAssumption, FS_Subset
<1>2. f \in Surjection(S, R)
  BY DEF Surjection
<1>3. IsFiniteSet(R)
  BY <1>1, <1>2, FS_Surjection
<1>4. \A T \in R : IsFiniteSet(T)
  BY ChunkTyped
<1>5. Text(S) = UNION R
  BY DEF Text
<1> HIDE DEF R
<1>6. IsFiniteSet(Text(S))
  BY <1>3, <1>4, <1>5, FS_UNION
<1>7. QED
  BY <1>6, FS_CardinalityType DEF Estimate

\* A chunk adds at most its size.
LEMMA EstimateAdded ==
  ASSUME NEW S \in SUBSET Chunks, NEW c \in Chunks
  PROVE  Estimate(S \cup {c}) <= Estimate(S) + Size[c]
<1> DEFINE own == {c} \X (1..Size[c])
<1>1. Text(S \cup {c}) = Text(S) \cup own
  BY DEF Text
<1>2. /\ IsFiniteSet(Text(S)) /\ Estimate(S) \in Nat
      /\ IsFiniteSet(own) /\ Cardinality(own) = Size[c] /\ Size[c] \in Nat
  BY TextFinite, ChunkTyped
<1> HIDE DEF own
<1>3. Estimate(S \cup {c}) = Estimate(S) + Size[c] - Cardinality(Text(S) \cap own)
  BY <1>1, <1>2, FS_Union DEF Estimate
<1>4. Cardinality(Text(S) \cap own) \in Nat
  BY <1>2, FS_Intersection, FS_CardinalityType
<1>5. QED
  BY <1>2, <1>3, <1>4

LEMMA EstimateOfNothing == Estimate({}) = 0
  BY FS_EmptySet DEF Estimate, Text

LEMMA EstimateGrows ==
  ASSUME NEW S \in SUBSET Chunks, NEW R \in SUBSET S
  PROVE  Estimate(R) <= Estimate(S)
<1>1. Text(R) \subseteq Text(S)
  BY DEF Text
<1>2. IsFiniteSet(Text(S))
  BY TextFinite
<1>3. QED
  BY <1>1, <1>2, FS_Subset DEF Estimate

\* A set that is p and then chunk by chunk what fits stays within Hard.
LEMMA LimitKept ==
  ASSUME NEW before, Ordering(before),
         NEW p \in SUBSET Chunks, Estimate(p) <= Hard, NEW T \in SUBSET Chunks,
         \A c \in T : Estimate(p \cup (T \cap before[c])) + Size[c] <= Hard
  PROVE  Estimate(p \cup T) <= Hard
<1>1. CASE T = {}
  <2>1. p \cup T = p
    BY <1>1
  <2>2. QED
    BY <2>1
<1>2. CASE T # {}
  <2>1. PICK m \in T : T \cap before[m] = T \ {m}
    BY <1>2, LastExists
  <2> DEFINE rest == p \cup (T \ {m})
  <2>2. Estimate(rest) + Size[m] <= Hard
    BY <2>1
  <2>3. p \cup T = rest \cup {m}
    BY <2>1
  <2>4. rest \in SUBSET Chunks /\ m \in Chunks
    BY <2>1
  <2> HIDE DEF rest
  <2>5. /\ Estimate(rest \cup {m}) <= Estimate(rest) + Size[m]
        /\ Estimate(rest) \in Nat /\ Estimate(rest \cup {m}) \in Nat
        /\ Size[m] \in Nat /\ Hard \in Nat
    BY <2>4, EstimateAdded, TextFinite, ChunkTyped, LimitAssumption
  <2>6. Estimate(p \cup T) = Estimate(rest \cup {m})
    BY <2>3
  <2>7. QED
    BY <2>2, <2>5, <2>6
<1>3. QED
  BY <1>1, <1>2

-----------------------------------------------------------------------------
(* The orders the code sorts by *)

\* Every order the code sorts by ends with the score and the name of a chunk.
LEMMA RankOrders ==
  ASSUME NEW rank \in [Chunks -> Nat]
  PROVE  Ordering([c \in Chunks |->
                     {d \in Chunks : \/ rank[d] > rank[c]
                                     \/ /\ rank[d] = rank[c]
                                        /\ Order[d] < Order[c]}])
<1> DEFINE before == [c \in Chunks |->
                        {d \in Chunks : \/ rank[d] > rank[c]
                                        \/ /\ rank[d] = rank[c]
                                           /\ Order[d] < Order[c]}]
<1>1. \A c \in Chunks : rank[c] \in Nat /\ Order[c] \in Nat
  BY ChunkTyped
<1>2. \A c, d \in Chunks : Order[c] = Order[d] => c = d
  BY ChunkAssumption
<1>3. \A c, d \in Chunks :
        d \in before[c] <=> \/ rank[d] > rank[c]
                            \/ rank[d] = rank[c] /\ Order[d] < Order[c]
  OBVIOUS
<1>4. before \in [Chunks -> SUBSET Chunks]
  OBVIOUS
<1> HIDE DEF before
<1>5. \A c \in Chunks : c \notin before[c]
  BY <1>1, <1>3
<1>6. ASSUME NEW c \in Chunks, NEW d \in Chunks, d \in before[c]
      PROVE  before[d] \subseteq before[c]
  <2>1. ASSUME NEW e \in before[d]
        PROVE  e \in before[c]
    <3>1. e \in Chunks
      BY <1>4
    <3>2. \/ rank[e] > rank[d]
          \/ rank[e] = rank[d] /\ Order[e] < Order[d]
      BY <1>3, <3>1
    <3>3. \/ rank[d] > rank[c]
          \/ rank[d] = rank[c] /\ Order[d] < Order[c]
      BY <1>3, <1>6
    <3>4. \/ rank[e] > rank[c]
          \/ rank[e] = rank[c] /\ Order[e] < Order[c]
      BY <1>1, <3>1, <3>2, <3>3
    <3>5. QED
      BY <1>3, <3>1, <3>4
  <2>2. QED
    BY <2>1
<1>7. ASSUME NEW c \in Chunks, NEW d \in Chunks, c # d
      PROVE  c \in before[d] \/ d \in before[c]
  BY <1>1, <1>2, <1>3, <1>7
<1>8. QED
  BY <1>4, <1>5, <1>6, <1>7 DEF Ordering, before

LEMMA RankedOrders ==
  ASSUME NEW b \in Batches
  PROVE  Ordering([c \in Chunks |-> {d \in Chunks : Ranked(b, d, c)}])
<1> DEFINE rank == [c \in Chunks |-> Weight(Tier[b][c])]
<1>1. rank \in [Chunks -> Nat]
  BY DEF Weight
<1>2. [c \in Chunks |-> {d \in Chunks : Ranked(b, d, c)}] =
      [c \in Chunks |-> {d \in Chunks : \/ rank[d] > rank[c]
                                        \/ /\ rank[d] = rank[c]
                                           /\ Order[d] < Order[c]}]
  BY DEF Ranked
<1> HIDE DEF rank
<1>3. QED
  BY <1>1, <1>2, RankOrders

LEMMA NamedOrders ==
  Ordering([c \in Chunks |-> {d \in Chunks : Order[d] < Order[c]}])
<1> DEFINE rank == [c \in Chunks |-> 0]
<1>1. rank \in [Chunks -> Nat]
  OBVIOUS
<1>2. [c \in Chunks |-> {d \in Chunks : Order[d] < Order[c]}] =
      [c \in Chunks |-> {d \in Chunks : \/ rank[d] > rank[c]
                                        \/ /\ rank[d] = rank[c]
                                           /\ Order[d] < Order[c]}]
  OBVIOUS
<1> HIDE DEF rank
<1>3. QED
  BY <1>1, <1>2, RankOrders

LEMMA CloserOrders ==
  ASSUME NEW asked \in SUBSET Terms
  PROVE  Ordering([c \in Chunks |->
           {d \in Chunks :
              \/ Cardinality(Words[d] \cap asked) > Cardinality(Words[c] \cap asked)
              \/ /\ Cardinality(Words[d] \cap asked) = Cardinality(Words[c] \cap asked)
                 /\ Order[d] < Order[c]}])
<1> DEFINE rank == [c \in Chunks |-> Cardinality(Words[c] \cap asked)]
<1>1. rank \in [Chunks -> Nat]
  <2>1. IsFiniteSet(asked)
    BY ChunkAssumption, FS_Subset
  <2>2. \A S : IsFiniteSet(S \cap asked) /\ Cardinality(S \cap asked) \in Nat
    BY <2>1, FS_Intersection, FS_CardinalityType
  <2>3. QED
    BY <2>2
<1>2. [c \in Chunks |->
        {d \in Chunks :
           \/ Cardinality(Words[d] \cap asked) > Cardinality(Words[c] \cap asked)
           \/ /\ Cardinality(Words[d] \cap asked) = Cardinality(Words[c] \cap asked)
              /\ Order[d] < Order[c]}] =
      [c \in Chunks |-> {d \in Chunks : \/ rank[d] > rank[c]
                                        \/ /\ rank[d] = rank[c]
                                           /\ Order[d] < Order[c]}]
  OBVIOUS
<1> HIDE DEF rank
<1>3. QED
  BY <1>1, <1>2, RankOrders

-----------------------------------------------------------------------------
(* What retrieval selects *)

\* The chunks of an upload a model may see.
Allowed(u) == {c \in Registry(u) : ~Foreign(u, c)}

LEMMA AllowedChunks ==
  ASSUME NEW u
  PROVE  Allowed(u) \in SUBSET Chunks
  BY DEF Allowed, Registry, Uploaded

LEMMA RoutedWithin ==
  ASSUME NEW u, NEW b \in Batches
  PROVE  Routed(u, b) \in SUBSET Allowed(u) /\ Estimate(Routed(u, b)) <= Hard
<1> DEFINE before == [c \in Chunks |-> {d \in Chunks : Ranked(b, d, c)}]
           S == Candidates(u, b)
           Fits2(X, c) == /\ Estimate(X) < Target
                          /\ Estimate(X) + Size[c] <=
                               IF Cardinality(X) < 3 THEN Hard ELSE Target
           admitted == {x \in (SUBSET Chunks) \X Chunks : Fits2(x[1], x[2])}
           Greedy(T) == \A c \in S :
                          LET got == {d \in T : Ranked(b, d, c)}
                          IN c \in T <=>
                               /\ Estimate(got) < Target
                               /\ Estimate(got) + Size[c] <=
                                    IF Cardinality(got) < 3
                                    THEN Hard ELSE Target
<1>1. S \in SUBSET Allowed(u) /\ S \in SUBSET Chunks
  BY DEF Candidates, Allowed, Registry, Uploaded
<1>2. Ordering(before)
  BY RankedOrders
<1>3. ASSUME NEW T \in SUBSET S, NEW c \in S
      PROVE  /\ {d \in T : Ranked(b, d, c)} = T \cap before[c]
             /\ T \cap before[c] \in SUBSET Chunks
  BY <1>1
<1>4. \E T \in SUBSET S : Greedy(T)
  <2>1. PICK T \in SUBSET S :
               \A c \in S : c \in T <=> <<T \cap before[c], c>> \in admitted
    <3> HIDE DEF S, before, admitted
    <3>1. QED
      BY <1>1, <1>2, GreedyExists
  <2>2. ASSUME NEW c \in S
        PROVE  <<T \cap before[c], c>> \in admitted <=> Fits2(T \cap before[c], c)
    BY <1>1, <1>3
  <2> HIDE DEF S, before, admitted
  <2>3. Greedy(T)
    BY <1>3, <2>1, <2>2
  <2>4. QED
    BY <2>3
<1>5. Routed(u, b) = CHOOSE T \in SUBSET S : Greedy(T)
  BY DEF Routed
<1> DEFINE R == Routed(u, b)
<1>6. R \in SUBSET S /\ Greedy(R)
  <2> HIDE DEF S, Greedy
  <2>1. QED
    BY <1>4, <1>5
<1>7. ASSUME NEW c \in R
      PROVE  Estimate({} \cup (R \cap before[c])) + Size[c] <= Hard
  <2>1. R \cap before[c] \in SUBSET Chunks /\ c \in S /\ c \in Chunks
        /\ Estimate(R \cap before[c]) + Size[c] <=
             IF Cardinality(R \cap before[c]) < 3 THEN Hard ELSE Target
    <3>1. c \in S
      BY <1>6
    <3> HIDE DEF R, S, before
    <3>2. QED
      BY <1>1, <1>3, <1>6, <1>7, <3>1
  <2>2. {} \cup (R \cap before[c]) = R \cap before[c]
    OBVIOUS
  <2> DEFINE got == R \cap before[c]
  <2>3. /\ Estimate(got) \in Nat /\ Size[c] \in Nat /\ Target \in Nat /\ Hard \in Nat
        /\ Target <= Hard
    BY <2>1, TextFinite, ChunkTyped, LimitAssumption
  <2> HIDE DEF R, S, before
  <2>4. QED
    BY <2>1, <2>2, <2>3
<1>8. R \in SUBSET Chunks /\ {} \cup R = R /\ {} \in SUBSET Chunks
  BY <1>1, <1>6
<1>9. Estimate({}) <= Hard
  BY EstimateOfNothing, LimitAssumption
<1> HIDE DEF R, S, before
<1>10. Estimate({} \cup R) <= Hard
  BY <1>2, <1>7, <1>8, <1>9, LimitKept
<1>11. QED
  BY <1>1, <1>6, <1>8, <1>10 DEF R

\* T is what expandDomainPacket takes of the picks.
Taken(u, p, picks, before, T) ==
  \A c \in picks : c \in T <=> Admits(u, p \cup (T \cap before[c]), c)

LEMMA TakenExists ==
  ASSUME NEW u, NEW before, Ordering(before), NEW p \in SUBSET Chunks,
         NEW picks \in SUBSET Chunks
  PROVE  \E T \in SUBSET picks : Taken(u, p, picks, before, T)
<1> DEFINE admitted == {x \in (SUBSET Chunks) \X Chunks :
                          Admits(u, p \cup x[1], x[2])}
<1>1. PICK T \in SUBSET picks :
        \A c \in picks : c \in T <=> <<T \cap before[c], c>> \in admitted
  <2> HIDE DEF admitted
  <2>1. QED
    BY GreedyExists
<1>2. ASSUME NEW c \in picks
      PROVE  <<T \cap before[c], c>> \in admitted
               <=> Admits(u, p \cup (T \cap before[c]), c)
  OBVIOUS
<1> HIDE DEF admitted
<1>3. Taken(u, p, picks, before, T)
  BY <1>1, <1>2 DEF Taken
<1>4. QED
  BY <1>3

\* An expansion is determined by the order in which the picks are asked for:
\* it is what the loop of expandDomainPacket takes, whatever that is.
THEOREM ExpansionIsDetermined ==
  ASSUME NEW u, NEW before, Ordering(before), NEW p \in SUBSET Chunks,
         NEW picks \in SUBSET Chunks,
         NEW T \in SUBSET picks, Taken(u, p, picks, before, T)
  PROVE  Expanded(u, p, picks, before) = p \cup T
<1> DEFINE admitted == {x \in (SUBSET Chunks) \X Chunks :
                          Admits(u, p \cup x[1], x[2])}
           V == CHOOSE U \in SUBSET picks : Taken(u, p, picks, before, U)
<1>1. V \in SUBSET picks /\ Taken(u, p, picks, before, V)
  BY TakenExists
<1>2. Expanded(u, p, picks, before) = p \cup V
  BY DEF Expanded, Taken
<1> HIDE DEF V
<1>3. ASSUME NEW U \in SUBSET picks, Taken(u, p, picks, before, U)
      PROVE  \A c \in picks : c \in U <=> <<U \cap before[c], c>> \in admitted
  BY <1>3 DEF Taken
<1>4. T = V
  <2>1. /\ \A c \in picks : c \in T <=> <<T \cap before[c], c>> \in admitted
        /\ \A c \in picks : c \in V <=> <<V \cap before[c], c>> \in admitted
    BY <1>1, <1>3
  <2> HIDE DEF admitted
  <2>2. QED
    BY <1>1, <2>1, GreedyUnique
<1>5. QED
  BY <1>2, <1>4

\* Nothing is left out that could be in: a pick that the expanded packet lacks is
\* of a provider out of scope, or does not fit beside what the packet holds
\* (expandDomainPacket never removes a chunk, nor stops before the last pick).
THEOREM LeftOutDoesNotFit ==
  ASSUME NEW u, NEW before, Ordering(before), NEW p \in SUBSET Chunks,
         NEW picks \in SUBSET Chunks,
         NEW c \in picks \ Expanded(u, p, picks, before)
  PROVE  Foreign(u, c) \/ Estimate(Expanded(u, p, picks, before)) + Size[c] > Hard
<1>1. PICK T \in SUBSET picks : Taken(u, p, picks, before, T)
  BY TakenExists
<1>2. Expanded(u, p, picks, before) = p \cup T
  BY <1>1, ExpansionIsDetermined
<1> DEFINE got == p \cup (T \cap before[c])
           all == p \cup T
<1>3. ~Admits(u, got, c)
  BY <1>1, <1>2 DEF Taken
<1>4. all \in SUBSET Chunks /\ got \in SUBSET all /\ c \in Chunks
  OBVIOUS
<1>5. Expanded(u, p, picks, before) = all
  BY <1>2
<1> HIDE DEF got, all
<1>6. /\ Estimate(got) <= Estimate(all) /\ Estimate(got) \in Nat /\ Estimate(all) \in Nat
      /\ Size[c] \in Nat /\ Hard \in Nat
  BY <1>4, EstimateGrows, TextFinite, ChunkTyped, LimitAssumption
<1>7. QED
  BY <1>3, <1>5, <1>6 DEF Admits

LEMMA ExpandedWithin ==
  ASSUME NEW u, NEW before, Ordering(before),
         NEW p \in SUBSET Chunks, p \subseteq Allowed(u), Estimate(p) <= Hard,
         NEW picks \in SUBSET Chunks, picks \subseteq Registry(u)
  PROVE  /\ Expanded(u, p, picks, before) \in SUBSET Allowed(u)
         /\ Estimate(Expanded(u, p, picks, before)) <= Hard
<1> DEFINE T == CHOOSE U \in SUBSET picks : Taken(u, p, picks, before, U)
<1>1. T \in SUBSET picks /\ Taken(u, p, picks, before, T)
  BY TakenExists
<1>2. Expanded(u, p, picks, before) = p \cup T
  BY DEF Expanded, Taken
<1> HIDE DEF T
<1>3. \A c \in T : /\ ~Foreign(u, c) /\ c \in Registry(u)
                   /\ Estimate(p \cup (T \cap before[c])) + Size[c] <= Hard
  BY <1>1 DEF Admits, Taken
<1>4. T \in SUBSET Allowed(u) /\ T \in SUBSET Chunks
  BY <1>1, <1>3 DEF Allowed
<1>5. Estimate(p \cup T) <= Hard
  BY <1>3, <1>4, LimitKept
<1>6. QED
  BY <1>2, <1>4, <1>5

LEMMA BoundedWithin ==
  ASSUME NEW u, NEW b \in Batches
  PROVE  Bounded(u, b) \in SUBSET Allowed(u) /\ Estimate(Bounded(u, b)) <= Hard
<1> DEFINE named  == [c \in Chunks |-> {d \in Chunks : Order[d] < Order[c]}]
           ranked == [c \in Chunks |-> {d \in Chunks : Ranked(b, d, c)}]
           base      == Routed(u, b)
           routed    == Candidates(u, b)
           expansion == {c \in Registry(u) \ routed :
                           c \in (Locations(u, b) \ base) \cup Hints[b]}
           picks1 == First(routed \ base, ranked)
           first  == Expanded(u, base, picks1, ranked)
           picks2 == First(expansion \ first, named)
           second == Expanded(u, first, picks2, named)
<1>1. Ordering(named) /\ Ordering(ranked)
  BY NamedOrders, RankedOrders
<1>2. /\ base \subseteq Allowed(u) /\ Estimate(base) <= Hard
      /\ base \in SUBSET Chunks
  BY RoutedWithin, AllowedChunks
<1>3. picks1 \subseteq Registry(u) /\ picks1 \in SUBSET Chunks
  BY DEF First, Candidates, Registry, Uploaded
<1>4. /\ first \subseteq Allowed(u) /\ Estimate(first) <= Hard
      /\ first \in SUBSET Chunks
  <2> HIDE DEF base, picks1, ranked
  <2>1. QED
    BY <1>1, <1>2, <1>3, ExpandedWithin, AllowedChunks
<1>5. picks2 \subseteq Registry(u) /\ picks2 \in SUBSET Chunks
  BY DEF First, Registry, Uploaded
<1>6. second \in SUBSET Allowed(u) /\ Estimate(second) <= Hard
  <2> HIDE DEF first, picks2, named
  <2>1. QED
    BY <1>1, <1>4, <1>5, ExpandedWithin
<1>7. Bounded(u, b) \in {base, first, second}
  BY DEF Bounded
<1>8. QED
  BY <1>2, <1>4, <1>6, <1>7

LEMMA MatchedWithin ==
  ASSUME NEW u, NEW p \in SUBSET Allowed(u), Estimate(p) <= Hard,
         NEW asked \in SUBSET Terms
  PROVE  /\ Matched(u, p, asked) \in SUBSET Allowed(u)
         /\ Estimate(Matched(u, p, asked)) <= Hard
<1> DEFINE closer == [c \in Chunks |->
             {d \in Chunks :
                \/ Cardinality(Words[d] \cap asked) > Cardinality(Words[c] \cap asked)
                \/ /\ Cardinality(Words[d] \cap asked) = Cardinality(Words[c] \cap asked)
                   /\ Order[d] < Order[c]}]
           picks == First(Matching(u, p, asked), closer)
<1>1. Ordering(closer)
  BY CloserOrders
<1>2. /\ picks \subseteq Registry(u) /\ picks \in SUBSET Chunks
      /\ p \in SUBSET Chunks
  BY AllowedChunks DEF First, Matching, Registry, Uploaded
<1>3. Matched(u, p, asked) = Expanded(u, p, picks, closer)
  BY DEF Matched
<1> HIDE DEF closer, picks
<1>4. QED
  BY <1>1, <1>2, <1>3, ExpandedWithin

-----------------------------------------------------------------------------
(* The packets of a run *)

\* A packet holds chunks the user may see used and stays within Hard; until
\* the upload has passed the gates there is none, and no log either.
PacketInv ==
  /\ upload \in Uploads /\ scope \in Scopes
  /\ packet \in [Batches -> SUBSET Allowed(upload)]
  /\ PacketsWithinLimit
  /\ pc \in {"intake", "refused"} =>
       /\ \A b \in Batches : packet[b] = {}
       /\ \A c \in Criteria : log[c] = Null
  /\ pc \notin {"intake", "refused"} => ~Refused(upload)

LEMMA InitPackets == Init => PacketInv
  BY EstimateOfNothing, LimitAssumption DEF Init, PacketInv, PacketsWithinLimit

LEMMA AskedTerms ==
  ASSUME NEW b, NEW asked \in Queries(b)
  PROVE  asked \in SUBSET Terms
  BY DEF Queries, NewTerms

\* A pass of gap retrieval leaves the packet of its area as it has to be.
LEMMA EnlargedWithin ==
  ASSUME PacketInv, NEW b \in Batches, NEW asked \in Queries(b),
         packet' = [packet EXCEPT ![b] = Enlarged(b, asked)], upload' = upload
  PROVE  packet' \in [Batches -> SUBSET Allowed(upload)] /\ PacketsWithinLimit'
<1>1. packet[b] \in SUBSET Allowed(upload) /\ Estimate(packet[b]) <= Hard
  BY DEF PacketInv, PacketsWithinLimit
<1>2. /\ Enlarged(b, asked) \in SUBSET Allowed(upload)
      /\ Estimate(Enlarged(b, asked)) <= Hard
  BY <1>1, AskedTerms, MatchedWithin DEF Enlarged
<1>3. packet' \in [Batches -> SUBSET Allowed(upload)]
  BY <1>2 DEF PacketInv
<1>4. ASSUME NEW a \in Batches
      PROVE  Estimate(packet'[a]) <= Hard
  <2>1. packet'[a] = IF a = b THEN Enlarged(b, asked) ELSE packet[a]
    BY DEF PacketInv
  <2>2. QED
    BY <1>2, <2>1 DEF PacketInv, PacketsWithinLimit
<1>5. QED
  BY <1>3, <1>4 DEF PacketsWithinLimit

LEMMA PacketsKept ==
  ASSUME PacketInv, [Next]_vars
  PROVE  PacketInv'
<1>1. upload' = upload /\ scope' = scope
  BY DEF Next, Scan, ScanFails, Check, Reread, Finish, GiveUp, Acquire, Refuse,
     Reconcile, Authorize, Admit, Reject, input, vars
<1>2. CASE Acquire
  <2>1. /\ pc' = "phase1" /\ ~Refused(upload)
        /\ packet' = [b \in Batches |-> Bounded(upload, b)]
    BY <1>2 DEF Acquire
  <2>2. \A b \in Batches : /\ packet'[b] \in SUBSET Allowed(upload)
                           /\ Estimate(packet'[b]) <= Hard
    BY <2>1, BoundedWithin
  <2>3. packet' \in [Batches -> SUBSET Allowed(upload)]
    BY <2>1, <2>2
  <2>4. PacketsWithinLimit'
    BY <2>2 DEF PacketsWithinLimit
  <2>5. QED
    BY <1>1, <2>1, <2>3, <2>4 DEF PacketInv
<1>3. ASSUME NEW b \in Batches, Reread(b) \/ GiveUp(b)
      PROVE  PacketInv'
  <2>1. PICK asked \in Queries(b) :
          packet' = [packet EXCEPT ![b] = Enlarged(b, asked)]
    BY <1>3 DEF Reread, GiveUp
  <2>2. pc = "phase1" /\ pc' = pc
    BY <1>3 DEF Reread, GiveUp
  <2>3. packet' \in [Batches -> SUBSET Allowed(upload)] /\ PacketsWithinLimit'
    BY <1>1, <2>1, EnlargedWithin
  <2>4. QED
    BY <1>1, <2>2, <2>3 DEF PacketInv
<1>4. CASE \/ \E b \in Batches : Scan(b) \/ ScanFails(b) \/ Check(b) \/ Finish(b)
           \/ Refuse \/ Reconcile \/ Authorize \/ Admit \/ Reject
           \/ UNCHANGED vars
  <2>1. /\ packet' = packet
        /\ pc' \in {"intake", "refused"} => /\ pc \in {"intake", "refused"}
                                            /\ log' = log
        /\ pc' \notin {"intake", "refused"} => pc \notin {"intake", "refused"}
    BY <1>4 DEF Scan, ScanFails, Check, Finish, Refuse, Reconcile, Authorize,
       Admit, Reject, batch, result, vars
  <2>2. PacketsWithinLimit'
    BY <2>1 DEF PacketInv, PacketsWithinLimit
  <2>3. QED
    BY <1>1, <2>1, <2>2 DEF PacketInv
<1>5. QED
  BY <1>2, <1>3, <1>4 DEF Next

LEMMA PacketsInvariance == Spec => []PacketInv
<1>1. Init => PacketInv
  BY InitPackets
<1>2. PacketInv /\ [Next]_vars => PacketInv'
  BY PacketsKept
<1>3. QED
  BY <1>1, <1>2, PTL DEF Spec

-----------------------------------------------------------------------------
(* Attempts, passes and the score *)

RoundsInv ==
  /\ tries \in [Batches -> 0..2] /\ pass \in [Batches -> 0..2]
  /\ \A b \in Batches : stage[b] = "scan" => tries[b] <= 1
  /\ seen \in [Batches -> SUBSET Terms]
  /\ score \in Scores \cup {Null}

LEMMA ScoredTyped ==
  ASSUME NEW entries, \A c \in Criteria : entries[c] \in Entries,
         NEW failed \in BOOLEAN, NEW wordings
  PROVE  Scored(entries, failed, wordings) \in Scores
<1> DEFINE e == [c \in Criteria |-> Classed(c, entries[c])]
           w == [c \in Criteria |-> IF Demoted(c, entries[c])
                                    THEN "plain" ELSE wordings[c]]
           resolved == [c \in Criteria |-> Resolved(c, e[c], w[c])]
           s == Scored(entries, failed, wordings)
<1>1. resolved \in [Criteria -> 0..3 \cup {Null}]
  <2>1. ASSUME NEW c \in Criteria, resolved[c] # Null
        PROVE  resolved[c] \in 0..3
    <3>1. resolved[c] = Resolved(c, Classed(c, entries[c]), w[c])
      OBVIOUS
    <3> HIDE DEF w, resolved
    <3>2. resolved[c] = entries[c].count
      BY <2>1, <3>1, ResolvedRests
    <3>3. QED
      BY <3>2 DEF Entries
  <2>2. QED
    BY <2>1
<1>2. /\ s.resolved = resolved /\ s.findings \in SUBSET Antipattern
      /\ s.sufficient \in BOOLEAN /\ s.low \in BOOLEAN
      /\ s = [resolved |-> s.resolved, findings |-> s.findings,
              sufficient |-> s.sufficient, low |-> s.low]
  BY DEF Scored
<1> HIDE DEF s, resolved, e, w
<1>3. s \in Scores
  BY <1>1, <1>2 DEF Scores
<1>4. QED
  BY <1>3 DEF s

LEMMA RoundsKept ==
  ASSUME IInv, RoundsInv, [Next]_vars
  PROVE  RoundsInv'
<1> USE DEF RoundsInv
<1>1. stage \in [Batches -> {"out", "scan", "check", "judge", "done", "failed"}]
  BY DEF IInv, Typed
<1>2. ASSUME NEW b \in Batches, Scan(b)
      PROVE  RoundsInv'
  <2>1. /\ stage[b] = "scan" /\ stage' = [stage EXCEPT ![b] = "check"]
        /\ tries' = [tries EXCEPT ![b] = @ + 1]
        /\ pass' = pass /\ seen' = seen /\ score' = score
    BY <1>2 DEF Scan
  <2>2. tries' \in [Batches -> 0..2]
    BY <2>1
  <2>3. \A a \in Batches : stage'[a] = "scan" => tries'[a] <= 1
    BY <1>1, <2>1
  <2>4. QED
    BY <2>1, <2>2, <2>3
<1>3. ASSUME NEW b \in Batches, ScanFails(b)
      PROVE  RoundsInv'
  <2>1. /\ stage[b] = "scan" /\ tries' = [tries EXCEPT ![b] = @ + 1]
        /\ pass' = pass /\ seen' = seen /\ score' = score
        /\ stage' = IF tries[b] = 0 THEN stage
                    ELSE [stage EXCEPT ![b] = "failed"]
    BY <1>3 DEF ScanFails
  <2>2. tries' \in [Batches -> 0..2]
    BY <2>1
  <2>3. \A a \in Batches : stage'[a] = "scan" => tries'[a] <= 1
    BY <1>1, <2>1
  <2>4. QED
    BY <2>1, <2>2, <2>3
<1>4. ASSUME NEW b \in Batches, Reread(b)
      PROVE  RoundsInv'
  <2>1. PICK asked \in Queries(b) : seen' = [seen EXCEPT ![b] = @ \cup asked]
    BY <1>4 DEF Reread
  <2>2. /\ pass[b] < 2 /\ pass' = [pass EXCEPT ![b] = @ + 1]
        /\ stage' = stage /\ tries' = tries /\ score' = score
    BY <1>4 DEF Reread, MayReread
  <2>3. pass' \in [Batches -> 0..2]
    BY <2>2
  <2>4. seen' \in [Batches -> SUBSET Terms]
    BY <2>1, AskedTerms
  <2>5. QED
    BY <2>2, <2>3, <2>4
<1>5. ASSUME NEW b \in Batches, Finish(b) \/ GiveUp(b)
      PROVE  RoundsInv'
  <2>1. /\ Apply(b) /\ score' = score
    BY <1>5 DEF Finish, GiveUp
  <2>2. AreaTerms[b] \in SUBSET Terms
    BY AreaAssumption
  <2>3. QED
    BY <1>1, <2>1, <2>2 DEF Apply
<1>6. CASE Admit
  <2>1. /\ UNCHANGED batch /\ Admissible
        /\ \E wordings \in [Criteria -> Wordings] :
             score' = Scored(log, CheckFailed(verdict), wordings)
    BY <1>6 DEF Admit
  <2>2. \A c \in Criteria : log[c] \in Entries
    BY <2>1 DEF Admissible, IInv, Typed
  <2>3. CheckFailed(verdict) \in BOOLEAN
    BY DEF CheckFailed
  <2>4. score' \in Scores
    BY <2>1, <2>2, <2>3, ScoredTyped
  <2>5. QED
    BY <2>1, <2>4 DEF batch
<1>7. CASE \/ \E b \in Batches : Check(b)
           \/ Acquire \/ Refuse \/ Reconcile \/ Authorize \/ Reject
           \/ UNCHANGED vars
  <2>1. /\ tries' = tries /\ pass' = pass /\ seen' = seen /\ score' = score
        /\ \A b \in Batches : stage'[b] = "scan" => stage[b] = "scan"
    BY <1>1, <1>7 DEF Check, Acquire, Refuse, Reconcile, Authorize, Reject, batch, vars
  <2>2. QED
    BY <2>1
<1>8. QED
  BY <1>2, <1>3, <1>4, <1>5, <1>6, <1>7 DEF Next

LEMMA InitRounds == Init => RoundsInv
  BY AreaAssumption DEF Init, RoundsInv

LEMMA RoundsInvariance == Spec => [](IInv /\ RoundsInv)
<1>1. Init => IInv /\ RoundsInv
  BY InitIInv, InitRounds
<1>2. IInv /\ RoundsInv /\ [Next]_vars => (IInv /\ RoundsInv)'
  BY NextKeeps, RoundsKept
<1>3. QED
  BY <1>1, <1>2, PTL DEF Spec

-----------------------------------------------------------------------------
(* The theorems *)

\* A published count is no more than the scanner gave, is what the evidence
\* check verified, and rests on a quote from platform evidence in the packet;
\* a sufficient score has no open verification.
THEOREM EarnedScore == Spec => []ScoreIsEarned
<1>1. IInv => ScoreIsEarned
  BY DEF IInv
<1>2. QED
  BY <1>1, Invariance, PTL

\* However many areas and criteria there are, and whatever the models answer,
\* the gate turns a run down for missing areas only.
THEOREM GateAcceptsWhatWasRead == Spec => []OnlyMissingAreasReject
<1>1. IInv => OnlyMissingAreasReject
  BY DEF IInv
<1>2. QED
  BY <1>1, Invariance, PTL

\* Three steps rewrite the log and the evidence check; at the gate they still
\* tell the same, and what is open shows in the score.
THEOREM LogsAndVerdictsAgree == Spec => []VerdictsAgree
<1>1. ASSUME IInv
      PROVE  VerdictsAgree
  <2>1. ASSUME NEW c \in Criteria, log[c] # Null
        PROVE  Agree(log[c], verdict[c])
    BY <1>1, <2>1 DEF IInv, Progress
  <2>2. QED
    BY <1>1, <2>1 DEF VerdictsAgree, Agree, IInv, OpenShows
<1>2. QED
  BY <1>1, Invariance, PTL

\* A finding is replaced only over a packet that has grown, by a check that
\* was completed.
THEOREM EvidenceBeforeReading == Spec => ReadingsNeedEvidence
<1> DEFINE Reading ==
      \A c \in Criteria :
        found[c] # Null /\ found'[c] \notin {Null, found[c]} =>
          /\ packet[BatchOf[c]] \subseteq packet'[BatchOf[c]]
          /\ packet[BatchOf[c]] # packet'[BatchOf[c]]
          /\ ~verdict'[c].open /\ ~verdict'[c].undecided
<1>1. ASSUME IInv, Next
      PROVE  Reading
  <2>1. SUFFICES ASSUME NEW c \in Criteria, found[c] # Null,
                        found'[c] # Null, found'[c] # found[c]
                 PROVE  /\ packet[BatchOf[c]] \subseteq packet'[BatchOf[c]]
                        /\ packet[BatchOf[c]] # packet'[BatchOf[c]]
                        /\ ~verdict'[c].open /\ ~verdict'[c].undecided
    OBVIOUS
  <2>2. ASSUME NEW b \in Batches, Scan(b)
        PROVE  FALSE
    <3>1. PICK s \in [Of[b] -> Findings] : found' = Over(found, s)
      BY <2>2 DEF Scan
    <3>2. c \in DOMAIN found
      BY <1>1 DEF IInv, Typed
    <3>3. c \in Of[b]
      BY <2>1, <3>1, <3>2 DEF Over
    <3>4. stage[BatchOf[c]] = "scan"
      BY <2>2, <3>3, AreasApart DEF Scan
    <3>5. QED
      BY <1>1, <2>1, <3>4 DEF IInv, Progress
  <2>3. ASSUME NEW b \in Batches, Reread(b)
        PROVE  /\ packet[BatchOf[c]] \subseteq packet'[BatchOf[c]]
               /\ packet[BatchOf[c]] # packet'[BatchOf[c]]
               /\ ~verdict'[c].open /\ ~verdict'[c].undecided
    <3>1. BatchOf[c] = b
      BY <1>1, <2>1, <2>3, RereadEffect
    <3>2. QED
      BY <1>1, <2>3, <3>1, RereadEffect
  <2>4. ASSUME NEW b \in Batches, Finish(b) \/ GiveUp(b)
        PROVE  FALSE
    <3>1. found' = Over(found, [d \in Of[b] |-> Null])
      BY <2>4 DEF Finish, GiveUp, Apply
    <3>2. c \in DOMAIN found
      BY <1>1 DEF IInv, Typed
    <3>3. found'[c] \in {Null, found[c]}
      BY <3>1, <3>2 DEF Over
    <3>4. QED
      BY <2>1, <3>3
  <2>5. CASE \/ Acquire \/ Refuse \/ Reconcile \/ Authorize \/ Admit \/ Reject
             \/ \E b \in Batches : ScanFails(b) \/ Check(b)
    BY <2>1, <2>5 DEF Acquire, Refuse, Reconcile, Authorize, Admit, Reject,
       ScanFails, Check, result
  <2>6. QED
    BY <1>1, <2>2, <2>3, <2>4, <2>5 DEF Next
<1>2. ASSUME UNCHANGED vars
      PROVE  Reading
  BY <1>2 DEF vars, result
<1>3. IInv /\ [Next]_vars => [Reading]_vars
  BY <1>1, <1>2
<1>4. QED
  BY <1>3, Invariance, PTL DEF Spec, ReadingsNeedEvidence

\* Every variable keeps its type, the bounds of attempts and passes included.
THEOREM TypeCorrect == Spec => []TypeOK
<1>1. Findings \subseteq Scans
  BY FindingsTyped
<1>2. ASSUME PacketInv
      PROVE  packet \in [Batches -> SUBSET Chunks]
  BY <1>2, AllowedChunks DEF PacketInv
<1>3. IInv /\ RoundsInv /\ PacketInv => TypeOK
  BY <1>1, <1>2 DEF IInv, Typed, RoundsInv, PacketInv, TypeOK
<1>4. QED
  BY <1>3, RoundsInvariance, PacketsInvariance, PTL

\* Bounded retrieval and both passes of a rescan respect the limit, whatever
\* the sizes of the chunks are and whatever a model asks for.
THEOREM PacketsFit == Spec => []PacketsWithinLimit
<1>1. PacketInv => PacketsWithinLimit
  BY DEF PacketInv
<1>2. QED
  BY <1>1, PacketsInvariance, PTL

\* No packet, and no quote a log keeps, is of what the user may not see used.
THEOREM WithheldIsNotUsed == Spec => []WithheldStaysOut
<1> DEFINE Withheld == {x \in Chunks : \/ x \in Hidden \cup Leads
                                       \/ Foreign(upload, x)
                                       \/ Privacy[x] \in {"secret", "unclosed"}}
<1>1. ASSUME PacketInv, NEW b \in Batches
      PROVE  packet[b] \cap Withheld = {}
  <2>1. CASE pc \in {"intake", "refused"}
    BY <1>1, <2>1 DEF PacketInv
  <2>2. CASE pc \notin {"intake", "refused"}
    <3>1. ~Refused(upload) /\ packet[b] \subseteq Allowed(upload)
      BY <1>1, <2>2 DEF PacketInv
    <3>2. \A x \in Allowed(upload) : x \notin Withheld
      BY <3>1 DEF Allowed, Refused, Blocked, DlpHit, Registry
    <3>3. QED
      BY <3>1, <3>2
  <2>3. QED
    BY <2>1, <2>2
<1>2. ASSUME IInv, PacketInv, pc \notin {"intake", "phase1"},
             NEW c \in Criteria, log[c] # Null, NEW q \in log[c].quotes
      PROVE  q.cites \notin Withheld
  <2>1. pc # "refused"
    BY <1>2 DEF PacketInv
  <2>2. Whole(c, log[c], packet[BatchOf[c]] \cup Computed(upload))
    BY <1>2, <2>1 DEF IInv, Progress, Open
  <2>3. q.cites \in packet[BatchOf[c]] \cup Derived
    BY <1>2, <2>2 DEF Whole, Traced, Bound, Computed
  <2>4. packet[BatchOf[c]] \cap Withheld = {}
    BY <1>1, <1>2, AreaOf
  <2>5. Withheld \cap Derived = {}
    BY ChunkAssumption
  <2> HIDE DEF Withheld
  <2>6. QED
    BY <2>3, <2>4, <2>5
<1>3. IInv /\ PacketInv => WithheldStaysOut
  BY <1>1, <1>2 DEF WithheldStaysOut
<1>4. QED
  BY <1>3, Invariance, PacketsInvariance, PTL

=============================================================================
