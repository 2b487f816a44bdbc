--------------------------- MODULE SynthesisProofs ---------------------------
(***************************************************************************)
(* Proofs about Synthesis, for every set of tactics, every bound on        *)
(* actions, claims and repairs, and every pair of metrics.                 *)
(***************************************************************************)
EXTENDS Synthesis, FiniteSetTheorems, TLAPS

-----------------------------------------------------------------------------
(* What the operators return *)

LEMMA FallbackTyped ==
  /\ Fallback \in Strategies
  /\ Fallback.actions = {} /\ Fallback.unread = Parts
  BY DEF Fallback, Strategies

\* callPhase3 writes a strategy, without actions when the bracket is LOW; it
\* leaves unread what was unread, what it was asked for, and the roadmap.
LEMMA DraftsWrite ==
  ASSUME NEW s \in Strategies, NEW sc \in SUBSET Parts, NEW d \in Drafts(s, sc)
  PROVE  /\ d \in Strategies
         /\ Low => d.actions = {}
         /\ ~Low => d.unread = s.unread \cup sc
<1>1. CASE Low
  <2>1. PICK u \in BOOLEAN : d = [Fallback EXCEPT !.unknown = u]
    BY <1>1 DEF Drafts
  <2>2. QED
    BY <1>1, <2>1, FallbackTyped DEF Strategies, Fallback
<1>2. CASE ~Low
  <2>1. PICK u \in (IF "summary" \in sc THEN BOOLEAN ELSE {s.unknown}),
             r \in (IF "roadmap" \in sc THEN Roadmaps(Plan) ELSE {s.actions}) :
          d = [unknown |-> u,
               phases  |-> IF "roadmap" \in sc THEN r # {} ELSE s.phases,
               actions |-> r, unread |-> s.unread \cup sc]
    BY <1>2 DEF Drafts
  <2>2. u \in BOOLEAN
    BY <2>1 DEF Strategies
  <2>3. r \in SUBSET Actions
    BY <2>1, WrittenAssumption DEF Strategies, Roadmaps
  <2>4. (IF "roadmap" \in sc THEN r # {} ELSE s.phases) \in BOOLEAN
    BY DEF Strategies
  <2>5. s.unread \cup sc \in SUBSET Parts
    BY DEF Strategies
  <2>6. QED
    BY <1>2, <2>1, <2>2, <2>3, <2>4, <2>5 DEF Strategies
<1>3. QED
  BY <1>1, <1>2

\* What all of a set of drafts have in common.
Fit(d, u) == /\ d \in Strategies
             /\ Low => d.actions = {}
             /\ d.unread \subseteq u

LEMMA ReplaceFits ==
  ASSUME NEW S, NEW u \in SUBSET Parts, "roadmap" \in u, Low => u = Parts,
         \A s \in S : Fit(s, u),
         NEW d \in ReplaceInvalid(S)
  PROVE  Fit(d, u)
<1>1. PICK s \in S : d \in (IF Invalid(s) THEN Drafts(s, {"roadmap"}) ELSE {s})
  BY DEF ReplaceInvalid
<1>2. CASE d = s
  BY <1>2
<1>3. CASE d \in Drafts(s, {"roadmap"})
  <2>1. {"roadmap"} \in SUBSET Parts /\ s \in Strategies
    BY DEF Parts, Fit
  <2>2. /\ d \in Strategies /\ (Low => d.actions = {})
        /\ ~Low => d.unread = s.unread \cup {"roadmap"}
    BY <1>3, <2>1, DraftsWrite
  <2>3. d.unread \subseteq Parts
    BY <2>2 DEF Strategies
  <2>4. QED
    BY <2>2, <2>3 DEF Fit
<1>4. QED
  BY <1>1, <1>2, <1>3

\* sanitizeRoadmapTacticGrounding keeps what is grounded.
LEMMA GroundKeeps ==
  ASSUME NEW s \in Strategies
  PROVE  /\ Ground(s) \in Strategies
         /\ Ground(s).actions \subseteq s.actions
         /\ Ground(s).unread = s.unread
         /\ \A a \in Ground(s).actions : a.backed
  BY DEF Ground, Strategies

\* callPhase3Validated returns a strategy that, grounded, cites what the plan
\* requires.
LEMMA ValidatedFits ==
  ASSUME NEW s \in Strategies, NEW sc \in SUBSET Parts, Low => sc = Parts,
         NEW d \in Validated(s, sc)
  PROVE  /\ Fit(d, s.unread \cup sc \cup {"roadmap"})
         /\ Missing(Ground(d), Plan) = {}
<1> DEFINE u == s.unread \cup sc \cup {"roadmap"}
           gated == ReplaceInvalid(ReplaceInvalid(Drafts(s, sc)))
<1>1. u \in SUBSET Parts /\ "roadmap" \in u /\ (Low => u = Parts)
  BY DEF Strategies, Parts
<1>2. \A x \in Drafts(s, sc) : Fit(x, u)
  <2> SUFFICES ASSUME NEW x \in Drafts(s, sc) PROVE Fit(x, u)
    OBVIOUS
  <2>1. /\ x \in Strategies /\ (Low => x.actions = {})
        /\ ~Low => x.unread = s.unread \cup sc
    BY DraftsWrite
  <2>2. x.unread \subseteq Parts
    BY <2>1 DEF Strategies
  <2>3. x.unread \subseteq u
    BY <1>1, <2>1, <2>2
  <2>4. QED
    BY <2>1, <2>3 DEF Fit
<1> HIDE DEF u
<1>3. \A x \in ReplaceInvalid(Drafts(s, sc)) : Fit(x, u)
  BY <1>1, <1>2, ReplaceFits
<1>4. \A x \in gated : Fit(x, u)
  BY <1>1, <1>3, ReplaceFits
<1> HIDE DEF gated
<1>5. /\ Missing(Ground(d), Plan) = {}
      /\ d \in gated \/ \E x \in gated : d \in Drafts(x, {"roadmap"})
  BY DEF Validated, gated
<1>6. ASSUME NEW x \in gated, d \in Drafts(x, {"roadmap"}) PROVE Fit(d, u)
  <2>1. x \in Strategies /\ x.unread \subseteq u /\ {"roadmap"} \in SUBSET Parts
    BY <1>4 DEF Fit, Parts
  <2>2. /\ d \in Strategies /\ (Low => d.actions = {})
        /\ ~Low => d.unread = x.unread \cup {"roadmap"}
    BY <1>6, <2>1, DraftsWrite
  <2>3. d.unread \subseteq Parts
    BY <2>2 DEF Strategies
  <2>4. d.unread \subseteq u
    BY <1>1, <2>1, <2>2, <2>3
  <2>5. QED
    BY <2>2, <2>4 DEF Fit
<1>7. Fit(d, u)
  BY <1>4, <1>5, <1>6
<1>8. QED
  BY <1>5, <1>7 DEF u

Checked == [failed: BOOLEAN, claims: SUBSET Claims]
Facts == [failed: BOOLEAN, claims: SUBSET Claims, edited: BOOLEAN,
          reviewed: [Tactics -> Dispositions \cup {"none"}]]

LEMMA UpToFinite ==
  ASSUME NEW S, NEW n \in Int, NEW c \in UpTo(n, S)
  PROVE  c \subseteq S /\ IsFiniteSet(c)
<1>1. PICK k \in 0..n : c \in {{f[i] : i \in 1..k} : f \in [1..k -> S]}
  BY DEF UpTo
<1>2. PICK f \in [1..k -> S] : c = {f[i] : i \in 1..k}
  BY <1>1
<1>3. k \in Nat
  BY <1>1
<1> DEFINE g == [i \in 1..k |-> f[i]]
<1>4. g \in Surjection(1..k, c)
  BY <1>2 DEF Surjection
<1>5. IsFiniteSet(c)
  BY <1>3, <1>4, FS_NatSurjection DEF ExistsSurjection
<1>6. QED
  BY <1>2, <1>5

\* A fact check that is carried out for a part needs the claims of the other,
\* and keeps them as they are.
LEMMA FactChecksKeep ==
  ASSUME NEW s \in Strategies, NEW sc \in SUBSET Parts,
         NEW p \in Checked, IsFiniteSet(p.claims),
         NEW c \in FactChecks(s, sc, p)
  PROVE  /\ c \in Checked /\ IsFiniteSet(c.claims)
         /\ ~c.failed => /\ sc = Parts \/ ~p.failed
                         /\ OfPart(c.claims, Parts \ sc) = OfPart(p.claims, Parts \ sc)
<1> DEFINE kept == OfPart(p.claims, Parts \ sc)
           room == MaxClaims - Cardinality(kept)
<1>1. kept \subseteq p.claims /\ kept \subseteq Claims
  BY DEF OfPart, Checked
<1>2. IsFiniteSet(kept)
  BY <1>1, FS_Subset
<1>3. room \in Int
  BY <1>2, FS_CardinalityType, BoundAssumption
<1>4. CASE c = Failed
  BY <1>4, FS_EmptySet DEF Failed, Checked
<1>5. CASE /\ ~(sc # Parts /\ p.failed)
           /\ \E x \in UpTo(room, UNION {Objections(s, q) : q \in sc}) :
                c = [failed |-> FALSE, claims |-> kept \cup x]
  <2>1. PICK x \in UpTo(room, UNION {Objections(s, q) : q \in sc}) :
               c = [failed |-> FALSE, claims |-> kept \cup x]
    BY <1>5
  <2>2. x \subseteq UNION {Objections(s, q) : q \in sc} /\ IsFiniteSet(x)
    BY <1>3, UpToFinite
  <2>3. ASSUME NEW q \in sc, NEW o \in Objections(s, q)
        PROVE  o \in Claims /\ o.part \in sc
    <3>1. o \in [part: {q}, kind: Kinds,
                 on: IF q = "summary" THEN {{}} ELSE {{a} : a \in s.actions}]
      BY DEF Objections
    <3>2. o.part = q /\ o.kind \in Kinds /\ o = [part |-> o.part, kind |-> o.kind, on |-> o.on]
      BY <3>1
    <3>3. o.on \subseteq Actions
      BY <3>1 DEF Strategies
    <3>4. QED
      BY <3>2, <3>3 DEF Claims
  <2>4. \A o \in x : o \in Claims /\ o.part \in sc
    BY <2>2, <2>3
  <2>5. c \in Checked
    BY <1>1, <2>1, <2>4 DEF Checked
  <2>6. IsFiniteSet(kept \cup x)
    BY <1>2, <2>2, FS_Union
  <2>7. OfPart(kept \cup x, Parts \ sc) = kept
    BY <2>4 DEF OfPart
  <2>8. QED
    BY <1>5, <2>1, <2>5, <2>6, <2>7
<1>6. QED
  BY <1>4, <1>5 DEF FactChecks

\* Sanitation takes actions and tactics away, and nothing else.
LEMMA SanitizedKeeps ==
  ASSUME NEW s \in Strategies, NEW f \in Facts, NEW r \in Sanitized(s, f)
  PROVE  /\ r.draft \in Strategies /\ r.fact \in Facts
         /\ r.draft.unread = s.unread /\ r.fact.failed = f.failed
         /\ s.actions = {} => r.draft.actions = {}
         /\ (\A a \in s.actions : a.backed) => \A a \in r.draft.actions : a.backed
<1>1. CASE f.failed
  <2>1. r = [draft |-> s, fact |-> f]
    BY <1>1 DEF Sanitized
  <2>2. QED
    BY <2>1
<1>2. CASE ~f.failed
  <2>0. PICK e \in Edits(f.claims) :
          r \in {[draft |-> Edited(s, f.claims, e),
                 fact  |-> [failed |-> FALSE,
                            claims |-> {c \in f.claims : e[c] = "open"},
                            edited |-> f.edited \/ \E c \in f.claims : e[c] # "open",
                            reviewed |-> v]] : v \in Reviewed(f.reviewed, f.claims, e)}
    BY <1>2 DEF Sanitized
  <2>1. PICK v \in Reviewed(f.reviewed, f.claims, e) :
          r = [draft |-> Edited(s, f.claims, e),
               fact  |-> [failed |-> FALSE,
                          claims |-> {c \in f.claims : e[c] = "open"},
                          edited |-> f.edited \/ \E c \in f.claims : e[c] # "open",
                          reviewed |-> v]]
    BY <2>0
  <2> DEFINE after ==
        {IF Hit(f.claims, e, "stripped", a) THEN [a EXCEPT !.id = None] ELSE a :
           a \in {b \in s.actions : ~Hit(f.claims, e, "removed", b)}}
  <2>2. r.draft = [s EXCEPT !.actions = after]
    BY <2>1 DEF Edited
  <2>3. \A a \in after : \E b \in s.actions : a = b \/ a = [b EXCEPT !.id = None]
    OBVIOUS
  <2> HIDE DEF after
  <2>4. \A a \in after : \E b \in s.actions :
          a \in Actions /\ a.backed = b.backed
    BY <2>3 DEF Strategies, Actions
  <2>5. r.draft \in Strategies /\ r.draft.unread = s.unread /\ r.draft.actions = after
    BY <2>2, <2>4 DEF Strategies
  <2>6. v \in [Tactics -> Dispositions \cup {"none"}]
    BY <2>1 DEF Reviewed
  <2>7. r.fact \in Facts /\ r.fact.failed = FALSE
    <3>1. {c \in f.claims : e[c] = "open"} \in SUBSET Claims
      BY DEF Facts
    <3>2. (f.edited \/ \E c \in f.claims : e[c] # "open") \in BOOLEAN
      OBVIOUS
    <3>3. QED
      BY <2>1, <2>6, <3>1, <3>2 DEF Facts
  <2>8. QED
    BY <1>2, <2>4, <2>5, <2>7 DEF Facts
<1>3. QED
  BY <1>1, <1>2

-----------------------------------------------------------------------------
(* The invariant *)

\* A candidate is checked for parts it has newly written, and the draft it
\* may replace has a completed check and an attempt left.
RecheckOpen ==
  pc = "recheck" => /\ attempt <= MaxRetries /\ ~checks.failed
                    /\ "summary" \in candidate.unread => "summary" \in scope

\* Until the required tactics are settled the accepted check is the one the
\* gate would read.
CheckHeld ==
  /\ pc \in {"repair", "recheck", "sanitize", "tactics"} => fact.failed = checks.failed
  /\ IsFiniteSet(checks.claims)

\* No draft with a completed check has an unread summary.
SummaryRead ==
  pc \notin {"start", "check", "stopped", "hung"} /\ ~fact.failed => "summary" \notin draft.unread

\* Nothing is prescribed under a LOW bracket.
LowIsBare == Low => draft.actions = {} /\ candidate.actions = {}

\* Actions are grounded, but for those of the required-tactic repair, which
\* comes last and was read.
Grounded ==
  /\ \A a \in candidate.actions : a.backed
  /\ restored \/ \A a \in draft.actions : a.backed
  /\ restored => /\ pc \in {"resanitize", "gate", "escalate", "settle", "regate",
                            "report", "delivered", "hung"}
                 /\ "roadmap" \notin draft.unread

\* The verdict is one about the strategy that is reported.
GateTells ==
  /\ pc \in {"escalate", "report", "delivered"} => gate = Verdict(draft, fact, notes)
  /\ pc = "delivered" =>
       \E decision \in {"GO", "CONDITIONAL_GO", "NO_GO"} : report = Final(decision)

IInv == /\ TypeOK
        /\ RecheckOpen /\ CheckHeld /\ SummaryRead
        /\ LowIsBare /\ Grounded /\ GateTells

LEMMA InitInv == Init => IInv
<1> SUFFICES ASSUME Init PROVE IInv
  OBVIOUS
<1>1. NoFact \in Facts /\ Failed \in Checked
  BY DEF NoFact, Facts, Failed, Checked
<1>2. 1 \in 1..(MaxRetries + 1) /\ IsFiniteSet({})
  BY BoundAssumption, FS_EmptySet
<1>3. NoVerdict \in [decision: {"none", "GO", "WARN", "BLOCK"},
                    reasons: SUBSET {"density", "evidence check", "fact check",
                       "not checked", "malformed", "phase 3"}]
  BY DEF NoVerdict
<1>4. NoReport \in [decision: {"none", "GO", "CONDITIONAL_GO", "NO_GO"},
                   actions: SUBSET Actions]
  BY DEF NoReport
<1>5. TypeOK
  <2>1. scope \in Scopes
    BY DEF Init, Scopes, Parts
  <2>2. checks \in Checked /\ fact \in Facts
    BY <1>1 DEF Init
  <2>3. QED
    BY <1>2, <1>3, <1>4, <2>1, <2>2, FallbackTyped DEF Init, TypeOK, Facts, Checked
<1>6. QED
  BY <1>2, <1>5, FallbackTyped DEF Init, IInv, RecheckOpen, CheckHeld, SummaryRead,
     LowIsBare, Grounded, GateTells, Failed

\* Every step keeps the invariant; a lemma for each step that writes or
\* judges a strategy.
LEMMA DraftInv ==
  ASSUME IInv, Draft PROVE IInv'
<1>1. PICK d \in Validated(Fallback, Parts) :
        draft' = Ground(d) /\ adjusted' = (Ground(d).actions # d.actions)
  BY DEF Draft
<1>2. Parts \in SUBSET Parts /\ Fallback \in Strategies
  BY FallbackTyped
<1>3. Fit(d, Fallback.unread \cup Parts \cup {"roadmap"})
  BY <1>1, <1>2, ValidatedFits
<1>4. d \in Strategies /\ (Low => d.actions = {})
  BY <1>3 DEF Fit
<1>5. /\ draft' \in Strategies
      /\ Low => draft'.actions = {}
      /\ \A a \in draft'.actions : a.backed
  BY <1>1, <1>4, GroundKeeps
<1>6. TypeOK' /\ (Low <=> Low')
  BY <1>1, <1>5 DEF IInv, TypeOK, Draft, rounds, ends, Low
<1>7. QED
  BY <1>1, <1>5, <1>6 DEF IInv, TypeOK, Draft, rounds, ends, RecheckOpen, CheckHeld,
     SummaryRead, LowIsBare, Grounded, GateTells

LEMMA CheckInv ==
  ASSUME IInv, Check PROVE IInv'
<1>1. PICK c \in FactChecks(draft, Parts, Failed) :
        /\ checks' = c /\ fact' = FromCheck(c)
        /\ draft' = IF c.failed THEN draft ELSE Read(draft, Parts)
  BY DEF Check
<1>2. Failed \in Checked /\ IsFiniteSet(Failed.claims)
  BY FS_EmptySet DEF Failed, Checked
<1>3. draft \in Strategies /\ Parts \in SUBSET Parts
  BY DEF IInv, TypeOK
<1>4. c \in Checked /\ IsFiniteSet(c.claims)
  BY <1>1, <1>2, <1>3, FactChecksKeep
<1>5. fact' \in Facts /\ fact'.failed = c.failed
  BY <1>1, <1>4 DEF FromCheck, NoFact, Facts, Checked
<1>6. /\ draft' \in Strategies /\ draft'.actions = draft.actions
      /\ ~c.failed => draft'.unread = {}
  BY <1>1, <1>3 DEF Read, Strategies
<1>7. TypeOK' /\ (Low <=> Low')
  BY <1>1, <1>4, <1>5, <1>6 DEF IInv, TypeOK, Check, inputs, ends, Facts, Checked, Low
<1>8. QED
  BY <1>1, <1>4, <1>5, <1>6, <1>7 DEF IInv, TypeOK, Check, inputs, ends, RecheckOpen, CheckHeld,
     SummaryRead, LowIsBare, Grounded, GateTells

LEMMA RepairInv ==
  ASSUME IInv, Repair PROVE IInv'
<1>1. PICK d \in Validated(draft, scope') :
        candidate' = Ground(d) /\ adjusted' = (Ground(d).actions # d.actions)
  BY DEF Repair
<1>2. scope' \in Scopes /\ (Low => scope' = Parts)
  <2>1. checks.claims # {} /\ \A c \in checks.claims : c.part \in Parts
    BY DEF IInv, TypeOK, Repair, MayRepair, Claims
  <2>2. {c.part : c \in checks.claims} \in (SUBSET Parts) \ {{}}
    BY <2>1
  <2>3. QED
    BY <2>2 DEF Repair, Scopes, Parts
<1>3. scope' \in SUBSET Parts /\ draft \in Strategies
  BY <1>2 DEF Scopes, IInv, TypeOK
<1>4. Fit(d, draft.unread \cup scope' \cup {"roadmap"})
  BY <1>1, <1>2, <1>3, ValidatedFits
<1>5. d \in Strategies /\ d.unread \subseteq draft.unread \cup scope' \cup {"roadmap"}
  BY <1>4 DEF Fit
<1>6. /\ candidate' \in Strategies /\ candidate'.unread = d.unread
      /\ Low => candidate'.actions = {}
      /\ \A a \in candidate'.actions : a.backed
  BY <1>1, <1>4, <1>5, GroundKeeps DEF Fit
<1>7. ~checks.failed /\ ~fact.failed /\ "summary" \notin draft.unread
  BY DEF IInv, Repair, MayRepair, CheckHeld, SummaryRead
<1>8. "summary" \in candidate'.unread => "summary" \in scope'
  BY <1>5, <1>6, <1>7
<1>9. TypeOK' /\ (Low <=> Low')
  BY <1>1, <1>2, <1>6 DEF IInv, TypeOK, Repair, rounds, ends, Low
<1>10. attempt' <= MaxRetries
  BY DEF Repair, MayRepair, rounds
<1>11. QED
  BY <1>6, <1>7, <1>8, <1>9, <1>10 DEF IInv, TypeOK, Repair, rounds, ends,
     RecheckOpen, CheckHeld, SummaryRead, LowIsBare, Grounded, GateTells

\* The check of a candidate, and what follows if it is accepted.
LEMMA RecheckReads ==
  ASSUME IInv, pc = "recheck", NEW c \in FactChecks(candidate, scope, checks)
  PROVE  /\ c \in Checked /\ IsFiniteSet(c.claims)
         /\ ~c.failed => OfPart(c.claims, Parts \ scope) = OfPart(checks.claims, Parts \ scope)
         /\ Read(candidate, scope) \in Strategies
         /\ Read(candidate, scope).actions = candidate.actions
         /\ Read(candidate, scope).unread = candidate.unread \ scope
         /\ "summary" \notin Read(candidate, scope).unread
<1>1. scope \in SUBSET Parts /\ candidate \in Strategies
      /\ checks \in Checked /\ IsFiniteSet(checks.claims)
  BY DEF IInv, TypeOK, Scopes, Checked, CheckHeld
<1>2. /\ Read(candidate, scope) \in Strategies
      /\ Read(candidate, scope).actions = candidate.actions
      /\ Read(candidate, scope).unread = candidate.unread \ scope
  BY <1>1 DEF Read, Strategies
<1>3. "summary" \notin Read(candidate, scope).unread
  BY <1>2 DEF IInv, RecheckOpen
<1>4. /\ c \in Checked /\ IsFiniteSet(c.claims)
      /\ ~c.failed => OfPart(c.claims, Parts \ scope) = OfPart(checks.claims, Parts \ scope)
  BY <1>1, FactChecksKeep
<1>5. QED
  BY <1>2, <1>3, <1>4

LEMMA RecheckInv ==
  ASSUME IInv, Recheck PROVE IInv'
<1>1. PICK c \in FactChecks(candidate, scope, checks) :
        IF Accepts(c)
        THEN /\ draft' = Read(candidate, scope)
             /\ checks' = c /\ fact' = FromCheck(c)
             /\ pc' = "repair"
        ELSE /\ pc' = "sanitize" /\ UNCHANGED <<draft, checks, fact>>
  BY DEF Recheck
<1>2. pc = "recheck" /\ attempt' \in 1..(MaxRetries + 1)
  <2>1. pc = "recheck" /\ attempt' = attempt + 1
    BY DEF Recheck
  <2>2. attempt \in 1..(MaxRetries + 1) /\ attempt <= MaxRetries
    BY <2>1 DEF IInv, TypeOK, RecheckOpen
  <2>3. QED
    BY <2>1, <2>2, BoundAssumption
<1>3. /\ candidate' = Fallback /\ UNCHANGED <<inputs, scope, restored, ends>>
      /\ (Low <=> Low')
  BY DEF Recheck, inputs, Low
<1>4. candidate' \in Strategies /\ candidate'.actions = {}
  BY <1>3, FallbackTyped
<1>5. CASE Accepts(c)
  <2>1. /\ c \in Checked /\ IsFiniteSet(c.claims) /\ ~c.failed
        /\ draft' \in Strategies /\ draft'.actions = candidate.actions
        /\ "summary" \notin draft'.unread
    BY <1>1, <1>2, <1>5, RecheckReads DEF Accepts
  <2>2. fact' \in Facts /\ fact'.failed = c.failed
    <3>1. fact' = FromCheck(c)
      BY <1>1, <1>5
    <3>2. QED
      BY <2>1, <3>1 DEF FromCheck, NoFact, Facts, Checked
  <2>3. TypeOK'
    BY <1>1, <1>2, <1>3, <1>4, <1>5, <2>1, <2>2 DEF IInv, TypeOK, inputs, ends, Facts, Checked
  <2>4. QED
    BY <1>1, <1>2, <1>3, <1>4, <1>5, <2>1, <2>2, <2>3 DEF IInv, inputs, ends,
       RecheckOpen, CheckHeld, SummaryRead, LowIsBare, Grounded, GateTells
<1>6. CASE ~Accepts(c)
  <2>1. TypeOK'
    BY <1>1, <1>2, <1>3, <1>4, <1>6 DEF IInv, TypeOK, inputs, ends
  <2>2. QED
    BY <1>1, <1>2, <1>3, <1>4, <1>6, <2>1 DEF IInv, inputs, ends,
       RecheckOpen, CheckHeld, SummaryRead, LowIsBare, Grounded, GateTells
<1>7. QED
  BY <1>5, <1>6

LEMMA SanitizeInv ==
  ASSUME IInv, Sanitize PROVE IInv'
<1>1. PICK r \in Sanitized(draft, fact) : draft' = r.draft /\ fact' = r.fact
  BY DEF Sanitize
<1>2. draft \in Strategies /\ fact \in Facts
  BY DEF IInv, TypeOK, Facts
<1>3. /\ draft' \in Strategies /\ fact' \in Facts
      /\ draft'.unread = draft.unread /\ fact'.failed = fact.failed
      /\ draft.actions = {} => draft'.actions = {}
      /\ (\A a \in draft.actions : a.backed) => \A a \in draft'.actions : a.backed
  BY <1>1, <1>2, SanitizedKeeps
<1>4. /\ pc \in {"sanitize", "resanitize", "settle"}
      /\ pc = "sanitize" => pc' = "tactics"
      /\ pc = "resanitize" => pc' = "gate"
      /\ pc = "settle" => pc' = "regate"
  BY DEF Sanitize, Afterwards
<1>5. /\ checks' \in Checked /\ checks'.failed = checks.failed
      /\ IsFiniteSet(checks'.claims)
  <2>1. OfPart(checks.claims, {"summary"}) \subseteq checks.claims
    BY DEF OfPart
  <2>2. IsFiniteSet(OfPart(checks.claims, {"summary"}))
    BY <2>1, FS_Subset DEF IInv, CheckHeld
  <2>3. QED
    BY <2>1, <2>2 DEF Sanitize, IInv, TypeOK, Checked
<1>6. attempt' \in 1..(MaxRetries + 1) /\ scope' \in Scopes
  <2>1. attempt' = 1 /\ scope' = Parts
    BY DEF Sanitize
  <2>2. QED
    BY <2>1, BoundAssumption DEF Scopes, Parts
<1>7. UNCHANGED <<inputs, candidate, restored, ends>> /\ (Low <=> Low')
  BY DEF Sanitize, inputs, Low
<1>8. TypeOK'
  BY <1>3, <1>4, <1>5, <1>6, <1>7 DEF IInv, TypeOK, inputs, ends, Facts, Checked
<1>9. QED
  BY <1>3, <1>4, <1>5, <1>7, <1>8 DEF IInv, inputs, ends,
     RecheckOpen, CheckHeld, SummaryRead, LowIsBare, Grounded, GateTells

\* The required-tactic repair keeps the summary and has its roadmap read.
LEMMA RestoreInv ==
  ASSUME IInv, RestoreTactics PROVE IInv'
<1>1. PICK r \in Roadmaps(Plan \ (Missing(draft, Plan) \cap Excused(fact))) :
        LET s == [draft EXCEPT !.actions = r, !.phases = r # {},
                               !.unread = @ \cup {"roadmap"}]
        IN \E c \in FactChecks(s, {"roadmap"}, checks) :
             IF c.failed
             THEN pc' = "gate" /\ UNCHANGED <<draft, fact, restored>>
             ELSE /\ draft' = Read(s, {"roadmap"}) /\ fact' = Continue(c)
                  /\ restored' = TRUE /\ pc' = "resanitize"
  BY DEF RestoreTactics
<1> DEFINE s == [draft EXCEPT !.actions = r, !.phases = r # {},
                              !.unread = @ \cup {"roadmap"}]
<1>2. PICK c \in FactChecks(s, {"roadmap"}, checks) :
        IF c.failed
        THEN pc' = "gate" /\ UNCHANGED <<draft, fact, restored>>
        ELSE /\ draft' = Read(s, {"roadmap"}) /\ fact' = Continue(c)
             /\ restored' = TRUE /\ pc' = "resanitize"
  BY <1>1
<1>3. draft \in Strategies /\ checks \in Checked /\ IsFiniteSet(checks.claims)
      /\ fact \in Facts
  BY DEF IInv, TypeOK, CheckHeld, Checked, Facts
<1>4. r \in SUBSET Actions
  BY WrittenAssumption DEF Roadmaps
<1>5. /\ s \in Strategies /\ s.unread = draft.unread \cup {"roadmap"} /\ s.actions = r
  BY <1>3, <1>4 DEF Strategies, Parts
<1> HIDE DEF s
<1>6. /\ c \in Checked /\ (~c.failed => ~checks.failed)
  <2>1. {"roadmap"} \in SUBSET Parts /\ {"roadmap"} # Parts
    BY DEF Parts
  <2>2. QED
    BY <1>3, <1>5, <2>1, FactChecksKeep
<1>7. ~Low
  BY DEF RestoreTactics, Unresolved, Missing, Plan
<1>8. /\ pc = "tactics" /\ checks' = Failed
      /\ UNCHANGED <<inputs, candidate, scope, attempt, ends>> /\ (Low <=> Low')
  BY DEF RestoreTactics, inputs, Low
<1>9. Failed \in Checked /\ IsFiniteSet(Failed.claims)
  BY FS_EmptySet DEF Failed, Checked
<1>10. CASE c.failed
  <2>1. TypeOK'
    BY <1>2, <1>8, <1>9, <1>10 DEF IInv, TypeOK, inputs, ends, Checked
  <2>2. QED
    BY <1>2, <1>8, <1>9, <1>10, <2>1 DEF IInv, inputs, ends,
       RecheckOpen, CheckHeld, SummaryRead, LowIsBare, Grounded, GateTells
<1>11. CASE ~c.failed
  <2>1. /\ draft' = Read(s, {"roadmap"}) /\ fact' = Continue(c)
        /\ restored' = TRUE /\ pc' = "resanitize"
    BY <1>2, <1>11
  <2>2. /\ draft' \in Strategies /\ "roadmap" \notin draft'.unread
        /\ draft'.unread \subseteq draft.unread
    BY <1>5, <2>1 DEF Read, Strategies
  <2>3. "summary" \notin draft.unread
    BY <1>6, <1>8, <1>11 DEF IInv, CheckHeld, SummaryRead
  <2>4. fact' \in Facts
    BY <1>3, <1>6, <2>1 DEF Continue, Facts, Checked
  <2>5. TypeOK'
    BY <1>8, <1>9, <2>1, <2>2, <2>4 DEF IInv, TypeOK, inputs, ends, Checked, Facts
  <2>6. QED
    BY <1>7, <1>8, <1>9, <2>1, <2>2, <2>3, <2>5 DEF IInv, inputs, ends,
       RecheckOpen, CheckHeld, SummaryRead, LowIsBare, Grounded, GateTells
<1>12. QED
  BY <1>10, <1>11

\* The gate's verdict has its type.
LEMMA VerdictTyped ==
  ASSUME NEW s, NEW f, NEW n \in SUBSET {"cautioned", "malformed"}
  PROVE  Verdict(s, f, n) \in [decision: {"none", "GO", "WARN", "BLOCK"},
            reasons: SUBSET {"density", "evidence check", "fact check",
                             "not checked", "malformed", "phase 3"}]
<1>1. Reasons(s, f, n) \in SUBSET {"density", "evidence check", "fact check",
                                   "not checked", "malformed", "phase 3"}
  BY DEF Reasons
<1>2. Decide(s, f, n) \in {"none", "GO", "WARN", "BLOCK"}
  BY DEF Decide
<1>3. QED
  BY <1>1, <1>2 DEF Verdict

\* The verdict reads nothing but the strategy, its check, the notes and what
\* the phase was given.
LEMMA VerdictStays ==
  ASSUME UNCHANGED <<inputs, draft, fact>>
  PROVE  Verdict(draft, fact, notes') = Verdict(draft, fact, notes)'
<1>1. audit' = audit /\ adjusted' = adjusted /\ draft' = draft /\ fact' = fact
  BY DEF inputs
<1>2. Low' <=> Low
  BY <1>1 DEF Low
<1>3. Plan' = Plan
  BY <1>1, <1>2 DEF Plan
<1>4. Unresolved(draft, fact)' = Unresolved(draft, fact)
  BY <1>1, <1>3 DEF Unresolved, Missing, Cites, Excused
<1>5. Reasons(draft, fact, notes)' = Reasons(draft, fact, notes')
  BY <1>1, <1>2, <1>4 DEF Reasons, Blocking, Cites
<1>6. Cautioned(fact, notes)' <=> Cautioned(fact, notes')
  BY <1>1 DEF Cautioned
<1>7. Decide(draft, fact, notes)' = Decide(draft, fact, notes')
  BY <1>5, <1>6 DEF Decide
<1>8. QED
  BY <1>5, <1>7 DEF Verdict

LEMMA GateInv ==
  ASSUME IInv, Gate \/ Regate PROVE IInv'
<1>1. notes' \in SUBSET {"cautioned", "malformed"}
  BY DEF Gate, Regate, IInv, TypeOK
<1>2. /\ gate' = Verdict(draft, fact, notes')
      /\ UNCHANGED <<inputs, texts, rounds, report>>
  BY DEF Gate, Regate
<1>3. /\ pc \in {"gate", "regate"} /\ pc' \in {"escalate", "report"}
      /\ Low <=> Low'
  BY <1>2 DEF Gate, Regate, inputs, Low
<1>4. Verdict(draft, fact, notes') = Verdict(draft, fact, notes)'
  BY <1>2, VerdictStays DEF texts, rounds
<1>5. gate' \in [decision: {"none", "GO", "WARN", "BLOCK"},
                 reasons: SUBSET {"density", "evidence check", "fact check",
                                  "not checked", "malformed", "phase 3"}]
  BY <1>1, <1>2, VerdictTyped
<1>6. TypeOK'
  BY <1>1, <1>2, <1>3, <1>5 DEF IInv, TypeOK, inputs, texts, rounds
<1>7. QED
  BY <1>2, <1>3, <1>4, <1>6 DEF IInv, inputs, texts, rounds,
     RecheckOpen, CheckHeld, SummaryRead, LowIsBare, Grounded, GateTells

LEMMA EscalateInv ==
  ASSUME IInv, Escalate PROVE IInv'
<1>1. PICK c \in FactChecks(draft, Parts, Failed) :
        IF c.failed THEN pc' = "report" /\ UNCHANGED <<draft, fact>>
        ELSE /\ draft' = Read(draft, Parts) /\ fact' = Continue(c)
             /\ pc' = "settle"
  BY DEF Escalate
<1>2. Failed \in Checked /\ IsFiniteSet(Failed.claims)
  BY FS_EmptySet DEF Failed, Checked
<1>3. draft \in Strategies /\ fact \in Facts /\ Parts \in SUBSET Parts
  BY DEF IInv, TypeOK, Facts
<1>4. c \in Checked
  BY <1>2, <1>3, FactChecksKeep
<1>5. /\ pc = "escalate"
      /\ UNCHANGED <<inputs, candidate, scope, restored, attempt, checks, ends>>
      /\ Low <=> Low'
  BY DEF Escalate, inputs, Low
<1>6. CASE c.failed
  <2>1. UNCHANGED <<draft, fact>> /\ pc' = "report"
    BY <1>1, <1>6
  <2>2. TypeOK'
    BY <1>5, <2>1 DEF IInv, TypeOK, inputs, ends
  <2>3. Verdict(draft, fact, notes) = Verdict(draft, fact, notes)'
    BY <1>5, <2>1, VerdictStays DEF ends
  <2>4. QED
    BY <1>5, <2>1, <2>2, <2>3 DEF IInv, inputs, ends,
       RecheckOpen, CheckHeld, SummaryRead, LowIsBare, Grounded, GateTells
<1>7. CASE ~c.failed
  <2>1. draft' = Read(draft, Parts) /\ fact' = Continue(c) /\ pc' = "settle"
    BY <1>1, <1>7
  <2>2. /\ draft' \in Strategies /\ draft'.unread = {}
        /\ draft'.actions = draft.actions
    BY <1>3, <2>1 DEF Read, Strategies
  <2>3. fact' \in Facts
    BY <1>3, <1>4, <2>1 DEF Continue, Facts, Checked
  <2>4. TypeOK'
    BY <1>5, <2>1, <2>2, <2>3 DEF IInv, TypeOK, inputs, ends, Facts
  <2>5. QED
    BY <1>5, <2>1, <2>2, <2>4 DEF IInv, inputs, ends,
       RecheckOpen, CheckHeld, SummaryRead, LowIsBare, Grounded, GateTells
<1>8. QED
  BY <1>6, <1>7

LEMMA ReportInv ==
  ASSUME IInv, Report PROVE IInv'
<1>1. PICK decision \in {"GO", "CONDITIONAL_GO", "NO_GO"} : report' = Final(decision)
  BY DEF Report
<1>2. /\ pc = "report" /\ pc' = "delivered"
      /\ UNCHANGED <<inputs, texts, rounds, gate, notes>>
      /\ Low <=> Low'
  BY DEF Report, inputs, Low
<1>3. report' \in [decision: {"none", "GO", "CONDITIONAL_GO", "NO_GO"},
                   actions: SUBSET Actions]
  BY <1>1 DEF Final, IInv, TypeOK, Strategies
<1>4. TypeOK'
  BY <1>2, <1>3 DEF IInv, TypeOK, inputs, texts, rounds
<1>5. Verdict(draft, fact, notes) = Verdict(draft, fact, notes)'
  BY <1>2, VerdictStays DEF texts, rounds
<1>6. Final(decision) = Final(decision)'
  BY <1>2 DEF inputs, texts, Final
<1>7. QED
  BY <1>1, <1>2, <1>4, <1>5, <1>6 DEF IInv, inputs, texts, rounds,
     RecheckOpen, CheckHeld, SummaryRead, LowIsBare, Grounded, GateTells

\* A step that changes at most pc keeps the types.
LEMMA TypeStays ==
  ASSUME IInv, UNCHANGED <<inputs, texts, rounds, ends>>,
         pc' \in {pc, "stopped", "sanitize", "hung"}
  PROVE  TypeOK'
<1>1. /\ audit' = audit /\ adjusted' = adjusted
      /\ draft' = draft /\ candidate' = candidate /\ scope' = scope
      /\ restored' = restored /\ attempt' = attempt /\ checks' = checks
      /\ fact' = fact /\ gate' = gate /\ notes' = notes /\ report' = report
  BY DEF inputs, texts, rounds, ends
<1>2. TypeOK
  BY DEF IInv
<1>3. pc' \in {"start", "check", "repair", "recheck", "sanitize", "tactics",
               "resanitize", "gate", "escalate", "settle", "regate", "report",
               "delivered", "stopped", "hung"}
  BY <1>2 DEF TypeOK
<1>4. QED
  BY <1>1, <1>2, <1>3 DEF TypeOK

LEMMA NextInv == IInv /\ [Next]_vars => IInv'
<1> SUFFICES ASSUME IInv, [Next]_vars PROVE IInv'
  OBVIOUS
<1>1. CASE FallBack
  <2>1. draft' \in Strategies /\ draft'.actions = {}
    BY <1>1, FallbackTyped DEF FallBack
  <2>2. Low <=> Low'
    BY <1>1 DEF FallBack, inputs, Low
  <2>3. TypeOK'
    BY <1>1, <2>1 DEF FallBack, IInv, TypeOK, inputs, rounds, ends
  <2>4. QED
    BY <1>1, <2>1, <2>2, <2>3 DEF FallBack, IInv, inputs, rounds, ends,
       RecheckOpen, CheckHeld, SummaryRead, LowIsBare, Grounded, GateTells
<1>2. CASE Stop \/ EndRepairs \/ Hang
  <2>1. /\ UNCHANGED <<inputs, texts, rounds, ends>> /\ (Low <=> Low')
        /\ \/ pc = "start" /\ pc' = "stopped"
           \/ pc = "repair" /\ pc' = "sanitize"
           \/ pc' = "hung"
    BY <1>2 DEF Stop, EndRepairs, Hang, inputs, Low
  <2>2. TypeOK'
    BY <2>1, TypeStays
  <2>3. QED
    BY <2>1, <2>2 DEF IInv, inputs, texts, rounds, ends,
       RecheckOpen, CheckHeld, SummaryRead, LowIsBare, Grounded, GateTells
<1>3. CASE KeepTactics
  <2>1. Failed \in Checked /\ IsFiniteSet(Failed.claims)
    BY FS_EmptySet DEF Failed, Checked
  <2>2. Low <=> Low'
    BY <1>3 DEF KeepTactics, inputs, Low
  <2>3. TypeOK'
    BY <1>3, <2>1 DEF KeepTactics, IInv, TypeOK, inputs, texts, ends, Checked
  <2>4. QED
    BY <1>3, <2>1, <2>2, <2>3 DEF KeepTactics, IInv, inputs, texts, ends,
       RecheckOpen, CheckHeld, SummaryRead, LowIsBare, Grounded, GateTells
<1>4. CASE UNCHANGED vars
  <2>1. UNCHANGED <<pc, inputs, texts, rounds, ends>> /\ (Low <=> Low')
    BY <1>4 DEF vars, inputs, Low
  <2>2. TypeOK'
    BY <2>1, TypeStays DEF IInv, TypeOK
  <2>3. Verdict(draft, fact, notes) = Verdict(draft, fact, notes)'
    BY <2>1, VerdictStays DEF texts, rounds, ends
  <2>4. ASSUME NEW decision PROVE Final(decision) = Final(decision)'
    BY <2>1 DEF inputs, texts, ends, Final
  <2>5. QED
    BY <2>1, <2>2, <2>3, <2>4 DEF IInv, inputs, texts, rounds, ends,
       RecheckOpen, CheckHeld, SummaryRead, LowIsBare, Grounded, GateTells
<1>5. QED
  BY <1>1, <1>2, <1>3, <1>4, DraftInv, CheckInv, RepairInv, RecheckInv, SanitizeInv,
     RestoreInv, GateInv, EscalateInv, ReportInv DEF Next, Work

LEMMA Invariance == Spec => []IInv
  BY InitInv, NextInv, PTL DEF Spec

-----------------------------------------------------------------------------
(* What is delivered *)

\* Type correctness of the phase, its strategies, its checks and its report.
THEOREM TypeCorrect == Spec => []TypeOK
<1>1. IInv => TypeOK
  BY DEF IInv
<1>2. QED
  BY <1>1, Invariance, PTL

\* A gate that does not block found no reason to, and the report is the
\* strategy it judged.
LEMMA NotBlocked ==
  ASSUME IInv, pc = "delivered", gate.decision # "BLOCK"
  PROVE  /\ Reasons(draft, fact, notes) = {}
         /\ gate.decision = (IF Cautioned(fact, notes) THEN "WARN" ELSE "GO")
         /\ report.actions = draft.actions
         /\ report.decision # "NO_GO" => ~Low
         /\ report.decision = "GO" => gate.decision # "WARN"
<1>1. gate.decision = Decide(draft, fact, notes)
  BY DEF IInv, GateTells, Verdict
<1>2. /\ Reasons(draft, fact, notes) = {}
      /\ gate.decision = (IF Cautioned(fact, notes) THEN "WARN" ELSE "GO")
  BY <1>1 DEF Decide
<1>3. PICK decision \in {"GO", "CONDITIONAL_GO", "NO_GO"} : report = Final(decision)
  BY DEF IInv, GateTells
<1>4. report = [decision |-> IF Low THEN "NO_GO"
                             ELSE IF gate.decision = "WARN" /\ decision = "GO"
                                  THEN "CONDITIONAL_GO" ELSE decision,
                actions  |-> draft.actions]
  BY <1>3 DEF Final
<1>5. QED
  BY <1>2, <1>4

\* What no reason to block says.
LEMMA NoReasons ==
  ASSUME IInv, Reasons(draft, fact, notes) = {}
  PROVE  /\ audit.density >= 30 /\ audit.verified
         /\ ~fact.failed /\ Blocking(fact.claims) = {}
         /\ Unknown \notin Cites(draft.actions) /\ Unresolved(draft, fact) = {}
<1>1. audit.density \in Nat /\ fact.failed \in BOOLEAN /\ audit.verified \in BOOLEAN
  BY MetricAssumption DEF IInv, TypeOK
<1>2. ~(audit.density < 30)
  BY DEF Reasons
<1>3. audit.verified
  BY DEF Reasons
<1>4. ~fact.failed
  BY DEF Reasons
<1>5. Blocking(fact.claims) = {}
  BY <1>4 DEF Reasons
<1>6. Unknown \notin Cites(draft.actions) /\ Unresolved(draft, fact) = {}
  BY DEF Reasons
<1>7. QED
  BY <1>1, <1>2, <1>3, <1>4, <1>5, <1>6

\* A report that prescribes or approves anything passed every check.
THEOREM ActionableReports == Spec => []ActionableOnlyWhenPassed
<1>1. IInv => ActionableOnlyWhenPassed
  <2> SUFFICES ASSUME IInv, pc = "delivered",
                      report.actions # {} \/ report.decision # "NO_GO"
               PROVE  /\ audit.verified /\ audit.density >= 30 /\ audit.integrity >= 70
                      /\ ~fact.failed /\ Blocking(fact.claims) = {}
                      /\ gate.decision \in {"GO", "WARN"}
                      /\ report.decision = "GO" =>
                           gate.decision = "GO" /\ ~fact.edited /\ fact.claims = {}
                           /\ ~adjusted
    BY DEF ActionableOnlyWhenPassed
  <2>1. gate.decision # "BLOCK"
    BY DEF IInv, GateTells, Final
  <2>2. /\ Reasons(draft, fact, notes) = {}
        /\ gate.decision = (IF Cautioned(fact, notes) THEN "WARN" ELSE "GO")
        /\ report.actions = draft.actions
        /\ report.decision # "NO_GO" => ~Low
        /\ report.decision = "GO" => gate.decision # "WARN"
    BY <2>1, NotBlocked
  <2>3. /\ audit.density >= 30 /\ audit.verified
        /\ ~fact.failed /\ Blocking(fact.claims) = {}
    BY <2>2, NoReasons
  <2>4. ~Low
    BY <2>2 DEF IInv, LowIsBare
  <2>5. audit.integrity >= 70
    <3>1. ~(audit.integrity < 70)
      BY <2>4 DEF Low
    <3>2. audit.integrity \in Nat
      BY MetricAssumption DEF IInv, TypeOK
    <3>3. QED
      BY <3>1, <3>2
  <2>6. report.decision = "GO" => ~fact.edited /\ fact.claims = {} /\ ~adjusted
    BY <2>2, <2>3 DEF Cautioned
  <2>7. QED
    BY <2>2, <2>3, <2>5, <2>6
<1>2. QED
  BY <1>1, Invariance, PTL

\* No required tactic is lost on the way to a delivered roadmap.
THEOREM TacticsSettled == Spec => []RequiredTacticsSettled
<1>1. IInv => RequiredTacticsSettled
  <2> SUFFICES ASSUME IInv, pc = "delivered", gate.decision # "BLOCK", ~Low,
                      NEW t \in audit.required
               PROVE  t \in Cites(report.actions) \/ fact.reviewed[t] = "contraindicated"
    BY DEF RequiredTacticsSettled
  <2>1. report.actions = draft.actions /\ Unresolved(draft, fact) = {}
    BY NotBlocked, NoReasons
  <2>2. t \in Plan /\ t \in Tactics
    BY DEF Plan, IInv, TypeOK
  <2>3. QED
    BY <2>1, <2>2 DEF Unresolved, Missing, Excused
<1>2. QED
  BY <1>1, Invariance, PTL

\* Every action that is delivered was grounded and read, but for the
\* exceptions the property names.
THEOREM DeliveredVetted == Spec => []DeliveredIsVetted
<1>1. IInv => DeliveredIsVetted
  <2> SUFFICES ASSUME IInv, pc = "delivered", gate.decision # "BLOCK"
               PROVE  /\ "summary" \notin draft.unread
                      /\ "roadmap" \in draft.unread => ~restored
                      /\ \A a \in report.actions : a.id # Unknown /\ (a.backed \/ restored)
    BY DEF DeliveredIsVetted
  <2>1. /\ report.actions = draft.actions /\ ~fact.failed
        /\ Unknown \notin Cites(draft.actions)
    BY NotBlocked, NoReasons
  <2>2. "summary" \notin draft.unread /\ ("roadmap" \in draft.unread => ~restored)
    BY <2>1 DEF IInv, SummaryRead, Grounded
  <2>3. \A a \in draft.actions : a.id # Unknown /\ (a.backed \/ restored)
    BY <2>1 DEF IInv, Grounded, Cites
  <2>4. QED
    BY <2>1, <2>2, <2>3
<1>2. QED
  BY <1>1, Invariance, PTL

-----------------------------------------------------------------------------
(* Repairs *)

\* The claims about both parts are those about the first and those about the
\* second.
LEMMA ClaimsSplit ==
  ASSUME NEW claims \in SUBSET Claims, IsFiniteSet(claims), NEW sc \in SUBSET Parts
  PROVE  /\ Cardinality(OfPart(claims, sc)) \in Nat
         /\ Cardinality(OfPart(claims, Parts \ sc)) \in Nat
         /\ Cardinality(claims) = Cardinality(OfPart(claims, sc))
                                    + Cardinality(OfPart(claims, Parts \ sc))
<1>1. /\ OfPart(claims, sc) \subseteq claims /\ OfPart(claims, Parts \ sc) \subseteq claims
      /\ claims = OfPart(claims, sc) \cup OfPart(claims, Parts \ sc)
      /\ OfPart(claims, sc) \cap OfPart(claims, Parts \ sc) = {}
  BY DEF OfPart, Claims
<1>2. IsFiniteSet(OfPart(claims, sc)) /\ IsFiniteSet(OfPart(claims, Parts \ sc))
  BY <1>1, FS_Subset
<1>3. /\ Cardinality(OfPart(claims, sc)) \in Nat
      /\ Cardinality(OfPart(claims, Parts \ sc)) \in Nat
  BY <1>2, FS_CardinalityType
<1>4. Cardinality(OfPart(claims, sc) \cup OfPart(claims, Parts \ sc))
        = Cardinality(OfPart(claims, sc)) + Cardinality(OfPart(claims, Parts \ sc))
          - Cardinality(OfPart(claims, sc) \cap OfPart(claims, Parts \ sc))
  BY <1>2, FS_Union
<1>5. Cardinality(OfPart(claims, sc) \cap OfPart(claims, Parts \ sc)) = 0
  BY <1>1, FS_EmptySet
<1>6. Cardinality(claims) = Cardinality(OfPart(claims, sc) \cup OfPart(claims, Parts \ sc))
  BY <1>1
<1>7. QED
  BY <1>3, <1>4, <1>5, <1>6

\* An improvement of the parts in sc that leaves the claims of the others
\* alone is one of the whole.
LEMMA ImprovesWhole ==
  ASSUME NEW old \in SUBSET Claims, NEW new \in SUBSET Claims,
         IsFiniteSet(old), IsFiniteSet(new), NEW sc \in SUBSET Parts,
         OfPart(new, Parts \ sc) = OfPart(old, Parts \ sc),
         Improves(OfPart(old, sc), OfPart(new, sc))
  PROVE  Improves(old, new)
<1>1. ASSUME NEW claims \in SUBSET Claims, IsFiniteSet(claims)
      PROVE  /\ Blocking(claims) \in SUBSET Claims /\ IsFiniteSet(Blocking(claims))
             /\ \A p : OfPart(Blocking(claims), p) = Blocking(OfPart(claims, p))
  <2>1. Blocking(claims) \subseteq claims
    BY DEF Blocking
  <2>2. IsFiniteSet(Blocking(claims))
    BY <1>1, <2>1, FS_Subset
  <2>3. QED
    BY <2>1, <2>2 DEF Blocking, OfPart
<1> DEFINE bOld == Cardinality(Blocking(OfPart(old, sc)))
           bNew == Cardinality(Blocking(OfPart(new, sc)))
           bKept == Cardinality(Blocking(OfPart(old, Parts \ sc)))
           cOld == Cardinality(OfPart(old, sc))
           cNew == Cardinality(OfPart(new, sc))
           cKept == Cardinality(OfPart(old, Parts \ sc))
<1>2. /\ cOld \in Nat /\ cNew \in Nat /\ cKept \in Nat
      /\ Cardinality(old) = cOld + cKept /\ Cardinality(new) = cNew + cKept
  BY ClaimsSplit
<1>3. /\ bOld \in Nat /\ bKept \in Nat
      /\ Cardinality(Blocking(old)) = bOld + bKept
  BY <1>1, ClaimsSplit
<1>4. /\ bNew \in Nat
      /\ Cardinality(Blocking(new)) = bNew + bKept
  BY <1>1, ClaimsSplit
<1>5. bNew < bOld \/ (bNew = bOld /\ cNew < cOld)
  BY DEF Improves
<1> HIDE DEF bOld, bNew, bKept, cOld, cNew, cKept
<1>6. QED
  BY <1>2, <1>3, <1>4, <1>5 DEF Improves

\* An accepted repair improves the strategy as a whole, and leaves at most
\* the roadmap unread.
THEOREM RepairsOnlyImprove == Spec => RepairsImprove
<1>1. ASSUME IInv, [Next]_vars, pc = "recheck", <<draft, checks>>' # <<draft, checks>>
      PROVE  /\ ~checks'.failed /\ Improves(checks.claims, checks'.claims)
             /\ draft'.unread # {} =>
                   draft'.unread = {"roadmap"} /\ scope = {"summary"}
  <2>1. Recheck
    BY <1>1 DEF Next, Work, Hang, vars, texts, rounds, Ends, Draft, FallBack, Stop, Check,
       Repair, EndRepairs, Sanitize, Afterwards, RestoreTactics, KeepTactics, Gate,
       Escalate, Regate, Report
  <2>2. PICK c \in FactChecks(candidate, scope, checks) :
          /\ Accepts(c) /\ draft' = Read(candidate, scope) /\ checks' = c
    BY <1>1, <2>1 DEF Recheck
  <2>3. /\ ~c.failed
        /\ Improves(OfPart(checks.claims, scope), OfPart(c.claims, scope))
    BY <2>2 DEF Accepts
  <2>4. /\ c \in Checked /\ IsFiniteSet(c.claims)
        /\ OfPart(c.claims, Parts \ scope) = OfPart(checks.claims, Parts \ scope)
        /\ draft' \in Strategies /\ draft'.unread = candidate.unread \ scope
        /\ "summary" \notin draft'.unread
    BY <1>1, <2>2, <2>3, RecheckReads
  <2>5. scope \in SUBSET Parts /\ scope # {}
        /\ checks \in Checked /\ IsFiniteSet(checks.claims)
    BY <1>1 DEF IInv, TypeOK, Scopes, Checked, CheckHeld
  <2>6. c.claims \in SUBSET Claims /\ checks.claims \in SUBSET Claims
    BY <2>4, <2>5 DEF Checked
  <2>7. Improves(checks.claims, c.claims)
    BY <2>3, <2>4, <2>5, <2>6, ImprovesWhole
  <2>8. draft'.unread \subseteq Parts
    BY <2>4 DEF Strategies
  <2>9. QED
    BY <2>2, <2>3, <2>4, <2>5, <2>7, <2>8 DEF Parts
<1>2. IInv /\ [Next]_vars =>
        [(pc = "recheck" /\ <<draft, checks>>' # <<draft, checks>>) =>
            /\ ~checks'.failed /\ Improves(checks.claims, checks'.claims)
            /\ draft'.unread # {} =>
                  draft'.unread = {"roadmap"} /\ scope = {"summary"}]_vars
  BY <1>1
<1>3. QED
  BY <1>2, Invariance, PTL DEF Spec, RepairsImprove

=============================================================================
