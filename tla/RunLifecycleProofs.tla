------------------------- MODULE RunLifecycleProofs -------------------------
(***************************************************************************)
(* Proofs about RunLifecycle, for every number of requests and cleanup     *)
(* workers, every pair of lifetimes and every number of faults.            *)
(***************************************************************************)
EXTENDS RunViews, TLAPS

-----------------------------------------------------------------------------
(* Type correctness *)

\* effectiveExpiry never passes the absolute deadline.
LEMMA ExpiryTyped == \A t \in 0..Absolute : Expiry(t) \in 0..Absolute
  BY TimesAssumption DEF Expiry

LEMMA InitTyped == Init => TypeOK
<1>1. 0 \in 0..Absolute /\ 0 \in 0..MaxFaults
  BY TimesAssumption
<1>2. QED
  BY <1>1, ExpiryTyped DEF Init, TypeOK, Open

\* A fault spends the budget by one.
LEMMA FaultTyped ==
  ASSUME TypeOK, Fault PROVE faults' \in 0..MaxFaults
  BY TimesAssumption DEF TypeOK, Fault

\* What a request or a worker may leave behind when it has finished.
LEMMA FinishTyped ==
  ASSUME TypeOK, NEW c \in Actors, Finish(c)
  PROVE  /\ pc' \in [Actors -> {"off", "select", "claim", "tombstone",
                                "record", "retry", "prune"}]
         /\ mine' \in [Actors -> Claims \cup {None}]
  BY DEF TypeOK, Finish

LEMMA VerifyTyped ==
  ASSUME TypeOK, NEW c \in Actors,
         Verify(c) \/ UNCHANGED <<claims, cleanup, run, bodies, manifest>>
  PROVE  /\ claims' \in [Claims -> {"none", "in_progress", "aged", "verified",
                                    "retryable_failure"}]
         /\ cleanup' \in CleanupStates \cup {None}
         /\ run' \in Open \cup Ended
         /\ bodies' \in SUBSET Packets
         /\ manifest' \in {"none", "available", "deleted", "expired"}
<1>1. CASE UNCHANGED <<claims, cleanup, run, bodies, manifest>>
  BY <1>1 DEF TypeOK
<1>2. CASE Verify(c) /\ Current(c)
  BY <1>2 DEF TypeOK, Verify, CleanupStates, Ended
<1>3. QED
  BY <1>1, <1>2 DEF Verify

\* Every step keeps the types.
LEMMA NextTyped == TypeOK /\ [Next]_vars => TypeOK'
<1> SUFFICES ASSUME TypeOK, [Next]_vars PROVE TypeOK'
  OBVIOUS
<1>1. Expiry(now) \in 0..Absolute
  BY ExpiryTyped DEF TypeOK
<1>2. CASE Activity
  <2>1. CASE \E p \in Packets : CommitPacket(p)
    BY <1>1, <2>1 DEF CommitPacket, TypeOK, actor
  <2>2. CASE \E k \in Keys : StartWrite(k) \/ FinishWrite(k) \/ ExpireKey(k)
    BY <2>2 DEF StartWrite, FinishWrite, ExpireKey, TypeOK, actor, time
  <2>3. CASE CommitCheckpoint \/ TouchUnchecked \/ Suspend \/ Resume
    BY <1>1, <2>3 DEF CommitCheckpoint, TouchUnchecked, Suspend, Resume,
       TypeOK, actor, store, Open
  <2>4. CASE \E q \in Snapshots : Ready(q)
    BY <1>1, <2>4 DEF Ready, TypeOK, actor, store, Open
  <2>5. QED
    BY <1>2, <2>1, <2>2, <2>3, <2>4 DEF Activity
<1>3. ASSUME NEW h \in Handlers, EndRequest(h) PROVE TypeOK'
  <2>1. ASSUME ThenClean(h), run' \in Ended, quality' \in Snapshots \cup {None},
               accepted' \in SUBSET Snapshots
        PROVE  TypeOK'
    BY <2>1 DEF ThenClean, Requested, TypeOK, CleanupStates, store, Actors
  <2>2. CASE Acknowledge(h) \/ Fail(h) \/ Delete(h)
    BY <2>1, <2>2 DEF Acknowledge, Fail, Delete, Ended, TypeOK
  <2>3. CASE \E q \in Snapshots : Complete(h, q)
    BY <2>1, <2>3 DEF Complete, Ended, TypeOK
  <2>4. QED
    BY <1>3, <2>2, <2>3 DEF EndRequest
<1>4. ASSUME NEW c \in Cleaners, TickStep(c) PROVE TypeOK'
  <2>1. CASE ExpireRuns(c)
    BY <2>1 DEF ExpireRuns, TypeOK, time, store, Actors, CleanupStates, Ended
  <2>2. CASE SelectCandidate(c)
    BY <2>2 DEF SelectCandidate, TypeOK, time, store, Actors
  <2>3. CASE Prune(c)
    BY <2>3 DEF Prune, TypeOK, time, Actors
  <2>4. QED
    BY <1>4, <2>1, <2>2, <2>3 DEF TickStep
<1>5. ASSUME NEW c \in Actors, CleanStep(c) PROVE TypeOK'
  <2>1. CASE ClaimCleanup(c) /\ Claimable
    <3>1. PICK k \in Claims :
             /\ claims' = [[i \in Claims |-> IF i \in Aged THEN "retryable_failure"
                                             ELSE claims[i]]
                             EXCEPT ![k] = "in_progress"]
             /\ mine' = [mine EXCEPT ![c] = k]
      BY <2>1 DEF ClaimCleanup
    <3>2. QED
      BY <2>1, <3>1 DEF ClaimCleanup, TypeOK, time, store, CleanupStates
  <2>2. CASE ClaimCleanup(c) /\ ~Claimable
    <3>1. claims' = [i \in Claims |-> IF i \in Aged THEN "retryable_failure"
                                      ELSE claims[i]]
      BY <2>2 DEF ClaimCleanup
    <3>2. QED
      BY <2>2, <3>1, FinishTyped DEF ClaimCleanup, TypeOK, time, store
  <2>3. CASE Purge(c)
    BY <2>3 DEF Purge, TypeOK, time
  <2>4. CASE RecordVerified(c)
    BY <2>4, FinishTyped, VerifyTyped DEF RecordVerified, TypeOK, time
  <2>5. CASE RecordRetryable(c)
    BY <2>5, FinishTyped DEF RecordRetryable, TypeOK, time, store, CleanupStates
  <2>6. QED
    BY <1>5, <2>1, <2>2, <2>3, <2>4, <2>5 DEF CleanStep
<1>6. ASSUME NEW c \in Actors, CleanFault(c) PROVE TypeOK'
  <2>1. CASE PurgeThrows(c)
    BY <2>1, FaultTyped DEF PurgeThrows, TypeOK, time
  <2>2. CASE RecordThrows(c)
    BY <2>2, FaultTyped, VerifyTyped DEF RecordThrows, TypeOK, time
  <2>3. CASE ActorDies(c)
    BY <2>3, FaultTyped DEF ActorDies, TypeOK, time, store
  <2>4. QED
    BY <1>6, <2>1, <2>2, <2>3 DEF CleanFault
<1>7. CASE \E k \in Claims : AgeClaim(k)
  BY <1>7, FaultTyped DEF AgeClaim, TypeOK, time, store, actor
<1>8. CASE Tick
  BY <1>8, TimesAssumption DEF Tick, TypeOK, store, actor
<1>9. CASE UNCHANGED vars
  BY <1>9 DEF vars, TypeOK
<1>10. QED
  BY <1>2, <1>3, <1>4, <1>5, <1>6, <1>7, <1>8, <1>9 DEF Next

\* Type correctness of the run, its claims and its actors; the expiry of a run
\* never passes its deadline.
THEOREM TypeCorrect == Spec => []TypeOK
  BY InitTyped, NextTyped, PTL DEF Spec

-----------------------------------------------------------------------------
(* The cleanup protocol *)

\* Only ended runs are purged; the evidence comes after the tombstone, and
\* nothing is left under it.
PurgedBeforeRecord ==
    /\ \A c \in Actors : pc[c] = "tombstone" => run \notin Open
    /\ \A c \in Actors : pc[c] = "record" => tombstone
    /\ tombstone => content = {}

CleanupInv ==
    /\ PurgedBeforeRecord
    /\ OneCleanupClaim
    /\ CleanedMeansGone
    /\ OpenRunsKeepContent

\* No actor comes to the purge or to the evidence.
NoNewcomer ==
    \A c \in Actors :
        /\ pc'[c] = "tombstone" => pc[c] = "tombstone"
        /\ pc'[c] = "record" => pc[c] = "record"

\* A step that leaves the cleanup, its claims and the tombstone alone, opens no
\* ended run, calls nothing deleted and stores something only while it may.
Harmless ==
    /\ UNCHANGED <<cleanup, tombstone>>
    /\ UNCHANGED InProgress
    /\ NoNewcomer
    /\ run' \in Open => run \in Open
    /\ run' = "deleted" => run = "deleted" \/ cleanup = "verified"
    /\ tombstone => content' \subseteq content
    /\ run \notin Open => bodies' \subseteq bodies
                          /\ (manifest' = "available" => manifest = "available")

LEMMA HarmlessKeeps ==
  ASSUME TypeOK, CleanupInv, Harmless PROVE CleanupInv'
<1> USE DEF CleanupInv
<1>1. PurgedBeforeRecord'
  BY DEF PurgedBeforeRecord, NoNewcomer, Harmless
<1>2. OneCleanupClaim'
  BY DEF OneCleanupClaim, Harmless
<1>3. CleanedMeansGone'
  BY DEF CleanedMeansGone, OpenRunsKeepContent, Harmless
<1>4. OpenRunsKeepContent'
  BY DEF OpenRunsKeepContent, Harmless
<1>5. QED
  BY <1>1, <1>2, <1>3, <1>4

\* Activity, selection, pruning, faults before the evidence and the clock.
LEMMA OthersHarmless ==
  ASSUME TypeOK, OpenRunsKeepContent,
         \/ Activity \/ Tick \/ UNCHANGED vars
         \/ \E c \in Cleaners : SelectCandidate(c) \/ Prune(c)
         \/ \E c \in Actors : ActorDies(c)
         \/ \E k \in Claims : AgeClaim(k)
  PROVE  Harmless
<1>1. UNCHANGED claims => UNCHANGED InProgress
  BY DEF InProgress
<1>2. CASE Activity
  <2>1. CASE \E p \in Packets : CommitPacket(p)
    BY <1>1, <2>1 DEF CommitPacket, Harmless, NoNewcomer, actor, Open
  <2>2. CASE \E k \in Keys : StartWrite(k) \/ FinishWrite(k) \/ ExpireKey(k)
    BY <1>1, <2>2 DEF StartWrite, FinishWrite, ExpireKey, Harmless, NoNewcomer, actor
  <2>3. CASE CommitCheckpoint \/ TouchUnchecked \/ Suspend \/ Resume
    BY <1>1, <2>3 DEF CommitCheckpoint, TouchUnchecked, Suspend, Resume,
       Harmless, NoNewcomer, actor, store, Open
  <2>4. CASE \E q \in Snapshots : Ready(q)
    BY <1>1, <2>4 DEF Ready, Harmless, NoNewcomer, actor, store, Open
  <2>5. QED
    BY <1>2, <2>1, <2>2, <2>3, <2>4 DEF Activity
<1>3. CASE Tick \/ UNCHANGED vars
  BY <1>1, <1>3 DEF Tick, vars, Harmless, NoNewcomer, store, actor
<1>4. CASE \E c \in Cleaners : SelectCandidate(c) \/ Prune(c)
  BY <1>1, <1>4 DEF SelectCandidate, Prune, Harmless, NoNewcomer, store, TypeOK, Actors
<1>5. CASE \E c \in Actors : ActorDies(c)
  BY <1>1, <1>5 DEF ActorDies, Harmless, NoNewcomer, store, TypeOK
<1>6. ASSUME NEW k \in Claims, AgeClaim(k) PROVE Harmless
  <2>1. UNCHANGED InProgress
    BY <1>6 DEF AgeClaim, InProgress, TypeOK
  <2>2. QED
    BY <1>6, <2>1 DEF AgeClaim, Harmless, NoNewcomer, store, actor
<1>7. QED
  BY <1>2, <1>3, <1>4, <1>5, <1>6

\* A request that ends the run asks for its cleanup, a sweep does so for an
\* expired run; neither gives up a claim or a verified cleanup.
LEMMA EndKeeps ==
  ASSUME TypeOK, CleanupInv, UNCHANGED <<claims, store>>, run' \in Ended,
         run' = "deleted" => run = "deleted" \/ cleanup = "verified",
         NoNewcomer,
         cleanup' = cleanup \/ (cleanup = None /\ cleanup' = "pending")
  PROVE  CleanupInv'
<1> USE DEF CleanupInv
<1>1. PurgedBeforeRecord'
  BY DEF PurgedBeforeRecord, NoNewcomer, store, Open, Ended
<1>2. OneCleanupClaim'
  BY NoneAssumption DEF OneCleanupClaim, InProgress, CleanupStates
<1>3. CleanedMeansGone'
  BY NoneAssumption DEF CleanedMeansGone, CleanupStates, store
<1>4. OpenRunsKeepContent'
  BY DEF OpenRunsKeepContent, Open, Ended
<1>5. QED
  BY <1>1, <1>2, <1>3, <1>4

\* The evidence is recorded by the one claim in progress, after the tombstone.
LEMMA VerifyKeeps ==
  ASSUME TypeOK, CleanupInv, NEW c \in Actors, pc[c] = "record",
         Verify(c) \/ UNCHANGED <<claims, cleanup, run, bodies, manifest>>,
         UNCHANGED <<tombstone, content>>,
         NoNewcomer
  PROVE  CleanupInv'
<1> USE DEF CleanupInv
<1>1. CASE UNCHANGED <<claims, cleanup, run, bodies, manifest>>
  <2>1. UNCHANGED InProgress
    BY <1>1 DEF InProgress
  <2>2. Harmless
    BY <1>1, <2>1 DEF Harmless, NoNewcomer
  <2>3. QED
    BY <2>2, HarmlessKeeps
<1>2. CASE Verify(c) /\ Current(c)
  <2>1. /\ mine[c] \in InProgress
        /\ claims' = [claims EXCEPT ![mine[c]] = "verified"]
        /\ cleanup' = "verified"
        /\ run' = IF run = "deletion_requested" THEN "deleted" ELSE run
        /\ bodies' = {} /\ manifest' # "available"
    BY <1>2 DEF Verify, Current
  <2>2. InProgress' = {}
    <3>1. \A k \in Claims :
             claims'[k] = IF k = mine[c] THEN "verified" ELSE claims[k]
      BY <2>1 DEF TypeOK
    <3>2. \A k \in InProgress : k = mine[c]
      BY <2>1 DEF OneCleanupClaim
    <3>3. QED
      BY <3>1, <3>2 DEF InProgress
  <2>3. tombstone
    BY DEF PurgedBeforeRecord
  <2>4. PurgedBeforeRecord'
    BY <2>1 DEF PurgedBeforeRecord, NoNewcomer, Open
  <2>5. OneCleanupClaim'
    BY <2>1, <2>2 DEF OneCleanupClaim
  <2>6. CleanedMeansGone'
    BY <2>1, <2>3 DEF CleanedMeansGone, PurgedBeforeRecord
  <2>7. OpenRunsKeepContent'
    BY <2>1, <2>3 DEF OpenRunsKeepContent, Open
  <2>8. QED
    BY <2>4, <2>5, <2>6, <2>7
<1>3. QED
  BY <1>1, <1>2 DEF Verify

\* A claim is made when none is fresh: it replaces the aged one.
LEMMA ClaimKeeps ==
  ASSUME TypeOK, CleanupInv, NEW c \in Actors, ClaimCleanup(c)
  PROVE  CleanupInv'
<1> USE DEF CleanupInv
<1>1. UNCHANGED <<run, store>> /\ pc[c] = "claim"
  BY DEF ClaimCleanup
<1>2. CASE Claimable
  <2>1. PICK k \in Claims :
           /\ claims' = [[i \in Claims |-> IF i \in Aged THEN "retryable_failure"
                                           ELSE claims[i]]
                           EXCEPT ![k] = "in_progress"]
           /\ cleanup' = "in_progress"
           /\ pc' = [pc EXCEPT ![c] = "tombstone"]
    BY <1>2 DEF ClaimCleanup
  <2>2. InProgress \subseteq Aged
    BY <1>2 DEF Claimable, OneCleanupClaim, InProgress, Aged
  <2>3. InProgress' = {k}
    BY <2>1, <2>2 DEF InProgress, Aged
  <2>4. run \in Ended /\ cleanup # "verified"
    BY <1>2, NoneAssumption DEF Claimable, OpenRunsKeepContent, TypeOK,
       InProgress, Aged, CleanupStates
  <2>5. PurgedBeforeRecord'
    BY <1>1, <2>1, <2>4 DEF PurgedBeforeRecord, TypeOK, store, Open, Ended
  <2>6. OneCleanupClaim'
    BY <2>1, <2>3 DEF OneCleanupClaim
  <2>7. CleanedMeansGone'
    BY <1>1, <2>1, <2>4 DEF CleanedMeansGone, store
  <2>8. OpenRunsKeepContent'
    BY <1>1, <2>4 DEF OpenRunsKeepContent, Open, Ended
  <2>9. QED
    BY <2>5, <2>6, <2>7, <2>8
<1>3. CASE ~Claimable
  <2>1. /\ claims' = [i \in Claims |-> IF i \in Aged THEN "retryable_failure"
                                       ELSE claims[i]]
        /\ Finish(c) /\ UNCHANGED cleanup
    BY <1>3 DEF ClaimCleanup
  <2>2. Aged = {}
    BY <1>3 DEF Claimable, OneCleanupClaim, InProgress, Aged
  <2>3. UNCHANGED InProgress
    BY <2>1, <2>2 DEF InProgress
  <2>4. Harmless
    BY <1>1, <2>1, <2>3 DEF Harmless, NoNewcomer, Finish, TypeOK, store
  <2>5. QED
    BY <2>4, HarmlessKeeps
<1>4. QED
  BY <1>2, <1>3

\* A failed cleanup gives its claim back.
LEMMA RetryKeeps ==
  ASSUME TypeOK, CleanupInv, NEW c \in Actors, RecordRetryable(c)
  PROVE  CleanupInv'
<1> USE DEF CleanupInv
<1>1. UNCHANGED <<run, store>> /\ Finish(c)
  BY DEF RecordRetryable
<1>2. NoNewcomer
  BY <1>1 DEF NoNewcomer, Finish, TypeOK
<1>3. CASE Current(c)
  <2>1. /\ mine[c] \in InProgress /\ cleanup = "in_progress"
        /\ claims' = [claims EXCEPT ![mine[c]] = "retryable_failure"]
        /\ cleanup' = "retryable_failure"
    BY <1>3 DEF RecordRetryable, Current
  <2>2. InProgress' = {}
    <3>1. \A k \in Claims :
             claims'[k] = IF k = mine[c] THEN "retryable_failure" ELSE claims[k]
      BY <2>1 DEF TypeOK
    <3>2. \A k \in InProgress : k = mine[c]
      BY <2>1 DEF OneCleanupClaim
    <3>3. QED
      BY <3>1, <3>2 DEF InProgress
  <2>3. run \notin Open
    BY <2>1 DEF OpenRunsKeepContent
  <2>4. PurgedBeforeRecord'
    BY <1>1, <1>2 DEF PurgedBeforeRecord, NoNewcomer, store
  <2>5. OneCleanupClaim'
    BY <2>1, <2>2 DEF OneCleanupClaim
  <2>6. CleanedMeansGone'
    BY <1>1, <2>1 DEF CleanedMeansGone
  <2>7. OpenRunsKeepContent'
    BY <1>1, <2>3 DEF OpenRunsKeepContent
  <2>8. QED
    BY <2>4, <2>5, <2>6, <2>7
<1>4. CASE ~Current(c)
  <2>1. UNCHANGED <<claims, cleanup>>
    BY <1>4 DEF RecordRetryable
  <2>2. Harmless
    BY <1>1, <1>2, <2>1 DEF Harmless, NoNewcomer, InProgress, store
  <2>3. QED
    BY <2>2, HarmlessKeeps
<1>5. QED
  BY <1>3, <1>4

\* The tombstone is set for a run that has ended: an open run has no claim, and
\* whoever purges late finds nothing that a verified cleanup has left.
LEMMA PurgeKeeps ==
  ASSUME TypeOK, CleanupInv, NEW c \in Actors, run \notin Open,
         UNCHANGED <<run, cleanup, claims, bodies, manifest>>,
         tombstone' = TRUE /\ content' = {}
  PROVE  CleanupInv'
  BY DEF CleanupInv, PurgedBeforeRecord, OneCleanupClaim, InProgress,
     CleanedMeansGone, OpenRunsKeepContent

LEMMA NextCleanup == TypeOK /\ CleanupInv /\ [Next]_vars => CleanupInv'
<1> SUFFICES ASSUME TypeOK, CleanupInv, [Next]_vars PROVE CleanupInv'
  OBVIOUS
<1>1. CASE \/ Activity \/ Tick \/ UNCHANGED vars
           \/ \E c \in Cleaners : SelectCandidate(c) \/ Prune(c)
           \/ \E c \in Actors : ActorDies(c)
           \/ \E k \in Claims : AgeClaim(k)
  BY <1>1, OthersHarmless, HarmlessKeeps DEF CleanupInv
<1>2. ASSUME NEW h \in Handlers, EndRequest(h) PROVE CleanupInv'
  <2>1. ASSUME ThenClean(h), run' \in Ended,
               run' = "deleted" => run = "deleted" \/ cleanup = "verified"
        PROVE  CleanupInv'
    <3>1. NoNewcomer
      BY <2>1 DEF ThenClean, NoNewcomer, TypeOK, Actors
    <3>2. cleanup' = cleanup \/ (cleanup = None /\ cleanup' = "pending")
      BY <2>1 DEF ThenClean, Requested
    <3>3. QED
      BY <2>1, <3>1, <3>2, EndKeeps DEF ThenClean
  <2>2. CASE Acknowledge(h) \/ Fail(h) \/ Delete(h)
    BY <2>1, <2>2 DEF Acknowledge, Fail, Delete, Ended
  <2>3. CASE \E q \in Snapshots : Complete(h, q)
    BY <2>1, <2>3 DEF Complete, Ended
  <2>4. QED
    BY <1>2, <2>2, <2>3 DEF EndRequest
<1>3. ASSUME NEW c \in Cleaners, ExpireRuns(c) PROVE CleanupInv'
  <2>1. NoNewcomer
    BY <1>3 DEF ExpireRuns, NoNewcomer, TypeOK, Actors
  <2>2. CASE run \in Open /\ run' = "expired" /\ cleanup' = "pending"
    <3>1. cleanup = None
      BY <2>2 DEF CleanupInv, OpenRunsKeepContent
    <3>2. QED
      BY <1>3, <2>1, <2>2, <3>1, EndKeeps DEF ExpireRuns, Ended
  <2>3. CASE UNCHANGED <<run, cleanup>>
    <3>1. Harmless
      BY <1>3, <2>1, <2>3 DEF ExpireRuns, Harmless, InProgress, store
    <3>2. QED
      BY <3>1, HarmlessKeeps
  <2>4. QED
    BY <1>3, <2>2, <2>3 DEF ExpireRuns
<1>4. ASSUME NEW c \in Actors, Purge(c) \/ PurgeThrows(c) PROVE CleanupInv'
  <2>1. run \notin Open
    BY <1>4 DEF Purge, PurgeThrows, CleanupInv, PurgedBeforeRecord
  <2>2. CASE UNCHANGED <<tombstone, content>>
    <3>1. Purge(c) => tombstone
      BY <2>2 DEF Purge
    <3>2. \A d \in Actors : pc'[d] = "record" => pc[d] = "record" \/ tombstone
      BY <1>4, <3>1 DEF Purge, PurgeThrows, TypeOK
    <3>3. \A d \in Actors : pc'[d] = "tombstone" => pc[d] = "tombstone"
      BY <1>4 DEF Purge, PurgeThrows, TypeOK
    <3>4. UNCHANGED <<run, cleanup, claims, bodies, manifest>>
      BY <1>4 DEF Purge, PurgeThrows
    <3>5. QED
      BY <2>2, <3>2, <3>3, <3>4 DEF CleanupInv, PurgedBeforeRecord,
         OneCleanupClaim, InProgress, CleanedMeansGone,
         OpenRunsKeepContent
  <2>3. CASE tombstone' = TRUE /\ content' = {}
    <3>1. UNCHANGED <<run, cleanup, claims, bodies, manifest>>
      BY <1>4 DEF Purge, PurgeThrows
    <3>2. QED
      BY <2>1, <2>3, <3>1, PurgeKeeps
  <2>4. QED
    BY <1>4, <2>2, <2>3 DEF Purge, PurgeThrows
<1>5. ASSUME NEW c \in Actors, RecordVerified(c) \/ RecordThrows(c)
      PROVE  CleanupInv'
  <2>1. NoNewcomer
    BY <1>5 DEF RecordVerified, RecordThrows, NoNewcomer, Finish, TypeOK
  <2>2. QED
    BY <1>5, <2>1, VerifyKeeps DEF RecordVerified, RecordThrows
<1>6. ASSUME NEW c \in Actors, ClaimCleanup(c) \/ RecordRetryable(c)
      PROVE  CleanupInv'
  BY <1>6, ClaimKeeps, RetryKeeps
<1>7. QED
  BY <1>1, <1>2, <1>3, <1>4, <1>5, <1>6
     DEF Next, TickStep, CleanStep, CleanFault

LEMMA CleanupInvariant == Spec => []CleanupInv
<1>1. Init => CleanupInv
  BY NoneAssumption DEF Init, CleanupInv, PurgedBeforeRecord, OneCleanupClaim,
     InProgress, CleanedMeansGone, OpenRunsKeepContent,
     CleanupStates
<1>2. QED
  BY <1>1, NextCleanup, TypeCorrect, PTL DEF Spec

\* A run is being cleaned exactly while one claim is in progress, however many
\* requests and workers clean it (claimCleanup, recordCleanupEvidence).
THEOREM CleanupIsExclusive == Spec => []OneCleanupClaim
<1>1. CleanupInv => OneCleanupClaim
  BY DEF CleanupInv
<1>2. QED
  BY <1>1, CleanupInvariant, PTL

\* Verified cleanup is true and stays true, against every late writer and every
\* late cleaner, and nothing else is called deleted (cleanupClaim, createChild,
\* terminalRun, recordCleanupEvidence).
THEOREM VerifiedIsTrue == Spec => []CleanedMeansGone
<1>1. CleanupInv => CleanedMeansGone
  BY DEF CleanupInv
<1>2. QED
  BY <1>1, CleanupInvariant, PTL

\* A run that can go on or be fetched is not cleaned (acknowledgeDelivery,
\* expireRuns).
THEOREM OpenIsKept == Spec => []OpenRunsKeepContent
<1>1. CleanupInv => OpenRunsKeepContent
  BY DEF CleanupInv
<1>2. QED
  BY <1>1, CleanupInvariant, PTL

-----------------------------------------------------------------------------
(* The report that is delivered *)

\* A run that is still analysed has no snapshot yet.
DeliveryInv ==
    /\ OneSnapshot
    /\ run \in {"active", "recovery_required"} => quality = None

\* A step that neither stores a snapshot nor makes a run ready.
Undelivered ==
    /\ UNCHANGED <<quality, accepted>>
    /\ run' \in {"active", "recovery_required"} =>
          run \in {"active", "recovery_required"}
    /\ run' \in {"ready_for_delivery", "completed"} =>
          run \in {"ready_for_delivery", "completed"}

LEMMA UndeliveredKeeps ==
  ASSUME DeliveryInv, Undelivered PROVE DeliveryInv'
  BY DEF DeliveryInv, OneSnapshot, Undelivered

\* A snapshot is stored for a run without one, or is the one that is stored.
LEMMA DeliverKeeps ==
  ASSUME DeliveryInv, NEW q \in Snapshots,
         quality' = q, accepted' = accepted \cup {q}, quality \in {None, q},
         run' \in {"ready_for_delivery", "completed"}
  PROVE  DeliveryInv'
<1>1. q # None
  BY NoneAssumption
<1>2. accepted' = {q}
  BY <1>1 DEF DeliveryInv, OneSnapshot
<1>3. QED
  BY <1>1, <1>2 DEF DeliveryInv, OneSnapshot

LEMMA NextDelivery == TypeOK /\ DeliveryInv /\ [Next]_vars => DeliveryInv'
<1> SUFFICES ASSUME TypeOK, DeliveryInv, [Next]_vars PROVE DeliveryInv'
  OBVIOUS
<1>1. CASE Activity
  <2>1. CASE \E p \in Packets : CommitPacket(p)
    BY <2>1, UndeliveredKeeps DEF CommitPacket, Undelivered
  <2>2. CASE \E k \in Keys : StartWrite(k) \/ FinishWrite(k) \/ ExpireKey(k)
    BY <2>2, UndeliveredKeeps DEF StartWrite, FinishWrite, ExpireKey, Undelivered
  <2>3. CASE CommitCheckpoint \/ TouchUnchecked \/ Suspend \/ Resume
    BY <2>3, UndeliveredKeeps
       DEF CommitCheckpoint, TouchUnchecked, Suspend, Resume, Undelivered
  <2>4. ASSUME NEW q \in Snapshots, Ready(q) PROVE DeliveryInv'
    <3>1. quality' = q /\ quality \in {None, q} /\ run' = "ready_for_delivery"
      BY <2>4 DEF Ready, DeliveryInv
    <3>2. QED
      BY <2>4, <3>1, DeliverKeeps DEF Ready
  <2>5. QED
    BY <1>1, <2>1, <2>2, <2>3, <2>4 DEF Activity
<1>2. ASSUME NEW h \in Handlers, EndRequest(h) PROVE DeliveryInv'
  <2>1. CASE Acknowledge(h) \/ Fail(h) \/ Delete(h)
    BY <2>1, UndeliveredKeeps DEF Acknowledge, Fail, Delete, Undelivered
  <2>2. ASSUME NEW q \in Snapshots, Complete(h, q) PROVE DeliveryInv'
    <3>1. quality' = q /\ quality \in {None, q} /\ run' = "completed"
      BY <2>2 DEF Complete, DeliveryInv
    <3>2. QED
      BY <2>2, <3>1, DeliverKeeps DEF Complete
  <2>3. QED
    BY <1>2, <2>1, <2>2 DEF EndRequest
<1>3. ASSUME NEW c \in Cleaners, TickStep(c) PROVE DeliveryInv'
  BY <1>3, UndeliveredKeeps
     DEF TickStep, ExpireRuns, SelectCandidate, Prune, Undelivered
<1>4. ASSUME NEW c \in Actors, CleanStep(c) \/ CleanFault(c) PROVE DeliveryInv'
  <2>1. UNCHANGED <<quality, accepted>>
    BY <1>4 DEF CleanStep, CleanFault, ClaimCleanup, Purge, RecordVerified,
       RecordRetryable, PurgeThrows, RecordThrows, ActorDies
  <2>2. run' = run \/ run' = "deleted"
    BY <1>4 DEF CleanStep, CleanFault, ClaimCleanup, Purge, RecordVerified,
       RecordRetryable, PurgeThrows, RecordThrows, ActorDies, Verify
  <2>3. QED
    BY <2>1, <2>2, UndeliveredKeeps DEF Undelivered
<1>5. CASE (\E k \in Claims : AgeClaim(k)) \/ Tick \/ UNCHANGED vars
  BY <1>5, UndeliveredKeeps DEF AgeClaim, Tick, vars, Undelivered
<1>6. QED
  BY <1>1, <1>2, <1>3, <1>4, <1>5 DEF Next

\* All requests to deliver that are answered with success have brought the one
\* snapshot that is stored (readyRunWithQuality, completeRunWithQuality).
THEOREM DeliveredIsOne == Spec => []OneSnapshot
<1>1. Init => DeliveryInv
  BY DEF Init, DeliveryInv, OneSnapshot
<1>2. DeliveryInv => OneSnapshot
  BY DEF DeliveryInv
<1>3. QED
  BY <1>1, <1>2, NextDelivery, TypeCorrect, PTL DEF Spec

-----------------------------------------------------------------------------
(* What has ended stays so *)

\* No statement opens or delivers an ended run again, and no late cleaner takes
\* a verified cleanup back.
THEOREM EndIsFinal == Spec => EndedIsFinal
<1> DEFINE Final == /\ run \in Ended =>
                        \/ run' = run
                        \/ run # "deleted" /\ run' \in {"deletion_requested", "deleted"}
                    /\ cleanup = "verified" => cleanup' = "verified"
<1>1. ASSUME TypeOK, CleanupInv, [Next]_vars PROVE Final
  <2>1. cleanup = "verified" => InProgress = {}
    BY <1>1 DEF CleanupInv, OneCleanupClaim
  <2>2. CASE Activity
    BY <2>2 DEF Activity, CommitPacket, StartWrite, FinishWrite, ExpireKey,
       CommitCheckpoint, TouchUnchecked, Suspend, Resume, Ready, Ended
  <2>3. ASSUME NEW h \in Handlers, EndRequest(h) PROVE Final
    BY <2>3, NoneAssumption DEF EndRequest, Acknowledge, Fail, Delete, Complete, ThenClean,
       Requested, Ended, CleanupStates
  <2>4. ASSUME NEW c \in Cleaners, TickStep(c) PROVE Final
    BY <1>1, <2>4, NoneAssumption DEF TickStep, ExpireRuns, SelectCandidate, Prune,
       CleanupInv, OpenRunsKeepContent, Open, Ended, CleanupStates
  <2>5. ASSUME NEW c \in Actors, ClaimCleanup(c) \/ Purge(c) \/ PurgeThrows(c)
                                  \/ ActorDies(c) \/ RecordRetryable(c)
        PROVE  Final
    BY <2>1, <2>5 DEF ClaimCleanup, Claimable, Purge, PurgeThrows, ActorDies,
       RecordRetryable, Current
  <2>6. ASSUME NEW c \in Actors, RecordVerified(c) \/ RecordThrows(c) PROVE Final
    BY <2>6 DEF RecordVerified, RecordThrows, Verify, Ended
  <2>7. CASE (\E k \in Claims : AgeClaim(k)) \/ Tick \/ UNCHANGED vars
    BY <2>7 DEF AgeClaim, Tick, vars
  <2>8. QED
    BY <1>1, <2>2, <2>3, <2>4, <2>5, <2>6, <2>7 DEF Next, CleanStep, CleanFault
<1>2. TypeOK /\ CleanupInv /\ [Next]_vars => [Final]_vars
  BY <1>1
<1>3. QED
  BY <1>2, TypeCorrect, CleanupInvariant, PTL DEF Spec, EndedIsFinal

-----------------------------------------------------------------------------
(* The contract about the content of a run *)

\* What the contract can see of a step that only moves the run.
OnlyMoves ==
    /\ UNCHANGED <<bodies, manifest, tombstone, content>>
    /\ cleanup' = "verified" <=> cleanup = "verified"

\* A run that does not go on with its own state is suspended, resumed, ready or
\* over.
LEMMA MoveKeepsContract ==
  ASSUME OnlyMoves,
         \/ UNCHANGED run
         \/ run = "active" /\ run' \in {"recovery_required", "ready_for_delivery"}
         \/ run = "recovery_required" /\ run' \in {"active", "recovery_required"}
         \/ run' \in Ended,
         run \in Open \cup Ended
  PROVE  [Contract!Next]_(Contract!contractVars)
<1>1. Phase' = Phase => UNCHANGED Contract!contractVars
  BY DEF OnlyMoves, Contract!contractVars
<1>2. CASE UNCHANGED run
  BY <1>1, <1>2 DEF Phase
<1>3. CASE run = "active" /\ run' = "recovery_required"
  BY <1>3 DEF OnlyMoves, Phase, Open, Contract!Next, Contract!Suspend, Contract!Move
<1>4. CASE run = "active" /\ run' = "ready_for_delivery"
  BY <1>4 DEF OnlyMoves, Phase, Open, Contract!Next, Contract!Ready, Contract!Move
<1>5. CASE run = "recovery_required" /\ run' \in {"active", "recovery_required"}
  BY <1>1, <1>5 DEF OnlyMoves, Phase, Open, Contract!Next, Contract!Resume, Contract!Move
<1>6. CASE run' \in Ended
  BY <1>6 DEF OnlyMoves, Phase, Open, Ended, Contract!Next, Contract!End,
     Contract!Move, Contract!Phases, Contract!Recording
<1>7. QED
  BY <1>2, <1>3, <1>4, <1>5, <1>6

\* Content is stored while the contract allows it, and may be lost at any time.
LEMMA ActivityKeepsContract ==
  ASSUME TypeOK, Activity PROVE [Contract!Next]_(Contract!contractVars)
<1>1. ASSUME NEW p \in Packets, CommitPacket(p)
      PROVE  Contract!Record(p)
  BY <1>1 DEF CommitPacket, Phase, Open, Contract!Record, Contract!Recording
<1>2. ASSUME NEW k \in Keys, StartWrite(k) \/ FinishWrite(k) \/ ExpireKey(k)
      PROVE  UNCHANGED Contract!contractVars \/ Contract!Write(k) \/ Contract!Lose
  <2>1. UNCHANGED <<run, cleanup, bodies, manifest, tombstone>>
    BY <1>2 DEF StartWrite, FinishWrite, ExpireKey
  <2>2. \/ UNCHANGED content
        \/ ~tombstone /\ content' = content \cup {k}
        \/ content' \in SUBSET content
    BY <1>2 DEF StartWrite, FinishWrite, ExpireKey
  <2>3. QED
    BY <2>1, <2>2 DEF Phase, Contract!contractVars, Contract!Write, Contract!Lose
<1>3. CASE CommitCheckpoint
  <2>1. Contract!Record("manifest")
    BY <1>3 DEF CommitCheckpoint, Phase, Open, Contract!Record, Contract!Recording
  <2>2. QED
    BY <2>1 DEF Contract!Next
<1>4. CASE TouchUnchecked \/ Suspend \/ Resume \/ \E q \in Snapshots : Ready(q)
  <2>1. OnlyMoves
    BY <1>4 DEF TouchUnchecked, Suspend, Resume, Ready, OnlyMoves, store
  <2>2. QED
    BY <1>4, <2>1, MoveKeepsContract DEF TouchUnchecked, Suspend, Resume, Ready, TypeOK
<1>5. QED
  BY <1>1, <1>2, <1>3, <1>4 DEF Activity, Contract!Next

\* The evidence is recorded after the tombstone, by whoever holds the claim.
LEMMA VerifyKeepsContract ==
  ASSUME TypeOK, CleanupInv, NEW c \in Actors, pc[c] = "record",
         Verify(c) \/ UNCHANGED <<claims, cleanup, run, bodies, manifest>>,
         UNCHANGED <<tombstone, content>>
  PROVE  [Contract!Next]_(Contract!contractVars)
<1>1. CASE UNCHANGED <<claims, cleanup, run, bodies, manifest>>
  BY <1>1 DEF Phase, Contract!contractVars
<1>2. CASE Verify(c) /\ Current(c)
  <2>1. tombstone
    BY DEF CleanupInv, PurgedBeforeRecord
  <2>2. /\ cleanup' = "verified" /\ bodies' = {} /\ manifest' # "available"
        /\ run' = IF run = "deletion_requested" THEN "deleted" ELSE run
    BY <1>2 DEF Verify
  <2>3. Phase' = Phase
    BY <2>2 DEF Phase, Open
  <2>4. Contract!Verify
    BY <2>1, <2>2, <2>3 DEF Contract!Verify
  <2>5. QED
    BY <2>4 DEF Contract!Next
<1>3. QED
  BY <1>1, <1>2 DEF Verify

LEMMA StepKeepsContract ==
  ASSUME TypeOK, CleanupInv, [Next]_vars
  PROVE  [Contract!Next]_(Contract!contractVars)
<1> DEFINE Kept == [Contract!Next]_(Contract!contractVars)
<1>1. ASSUME OnlyMoves, UNCHANGED run \/ run' \in Ended PROVE Kept
  BY <1>1, MoveKeepsContract DEF TypeOK
<1>2. CASE Activity
  BY <1>2, ActivityKeepsContract
<1>3. ASSUME NEW h \in Handlers, EndRequest(h) PROVE Kept
  <2>1. ThenClean(h) => OnlyMoves
    BY <1>3, NoneAssumption DEF EndRequest, Acknowledge, Fail, Delete, Complete,
       ThenClean, Requested, OnlyMoves, CleanupStates, store
  <2>2. QED
    BY <1>1, <1>3, <2>1 DEF EndRequest, Acknowledge, Fail, Delete, Complete, Ended
<1>4. ASSUME NEW c \in Cleaners, TickStep(c) PROVE Kept
  <2>1. CASE ExpireRuns(c) \/ SelectCandidate(c)
    <3>1. OnlyMoves
      BY <2>1, NoneAssumption DEF ExpireRuns, SelectCandidate, OnlyMoves, store,
         CleanupInv, OpenRunsKeepContent, CleanupStates
    <3>2. QED
      BY <1>1, <2>1, <3>1 DEF ExpireRuns, SelectCandidate, Ended
  <2>2. CASE Prune(c)
    <3>1. Contract!Discard
      BY <2>2 DEF Prune, Phase, Contract!Discard
    <3>2. QED
      BY <3>1 DEF Contract!Next
  <2>3. QED
    BY <1>4, <2>1, <2>2 DEF TickStep
<1>5. ASSUME NEW c \in Actors, Purge(c) \/ PurgeThrows(c) PROVE Kept
  <2>1. Phase = "over" /\ UNCHANGED <<run, cleanup, bodies, manifest>>
    BY <1>5 DEF Purge, PurgeThrows, CleanupInv, PurgedBeforeRecord, Phase
  <2>2. CASE UNCHANGED <<tombstone, content>>
    BY <2>1, <2>2 DEF Phase, Contract!contractVars
  <2>3. CASE tombstone' = TRUE /\ content' = {}
    BY <2>1, <2>3 DEF Phase, Contract!Seal, Contract!Next
  <2>4. QED
    BY <1>5, <2>2, <2>3 DEF Purge, PurgeThrows
<1>6. ASSUME NEW c \in Actors, RecordVerified(c) \/ RecordThrows(c) PROVE Kept
  BY <1>6, VerifyKeepsContract DEF RecordVerified, RecordThrows
<1>7. ASSUME NEW c \in Actors, ClaimCleanup(c) \/ RecordRetryable(c) \/ ActorDies(c)
      PROVE  Kept
  <2>1. OnlyMoves
    <3>1. UNCHANGED <<bodies, manifest, tombstone, content>>
      BY <1>7 DEF ClaimCleanup, RecordRetryable, ActorDies, store
    <3>2. cleanup' = "verified" <=> cleanup = "verified"
      BY <1>7 DEF ClaimCleanup, Claimable, RecordRetryable, Current, ActorDies
    <3>3. QED
      BY <3>1, <3>2 DEF OnlyMoves
  <2>2. QED
    BY <1>1, <1>7, <2>1 DEF ClaimCleanup, RecordRetryable, ActorDies
<1>8. CASE (\E k \in Claims : AgeClaim(k)) \/ Tick \/ UNCHANGED vars
  <2>1. OnlyMoves /\ UNCHANGED run
    BY <1>8 DEF AgeClaim, Tick, vars, OnlyMoves, store
  <2>2. QED
    BY <1>1, <2>1
<1>9. QED
  BY <1>2, <1>3, <1>4, <1>5, <1>6, <1>7, <1>8 DEF Next, CleanStep, CleanFault

\* Of its promises the contract itself shows the one that matters: nothing is
\* left of a run whose cleanup is verified, and nothing comes back.
THEOREM ContractCleans == Contract!Spec => []Contract!VerifiedIsEmpty
<1> USE DEF Contract!VerifiedIsEmpty
<1>1. Contract!Init => Contract!VerifiedIsEmpty
  BY DEF Contract!Init
<1>2. Contract!VerifiedIsEmpty /\ [Contract!Next]_(Contract!contractVars)
        => Contract!VerifiedIsEmpty'
  BY DEF Contract!Next, Contract!Suspend, Contract!Resume, Contract!Ready,
     Contract!End, Contract!Move, Contract!Write, Contract!Lose, Contract!Record,
     Contract!Discard, Contract!Seal, Contract!Verify, Contract!Phases,
     Contract!Recording, Contract!contractVars
<1>3. QED
  BY <1>1, <1>2, PTL DEF Contract!Spec

-----------------------------------------------------------------------------
(* The run that the dispatch of attempts takes for granted *)

\* Activity before the deadline leaves a run unexpired.
LEMMA ExpiryLater ==
  ASSUME TypeOK, now < Absolute PROVE Expiry(now) > now
  BY TimesAssumption DEF TypeOK, Expiry

LEMMA SeenCases ==
  ASSUME TypeOK
  PROVE  Seen = IF run = "active"
                THEN IF now < expires THEN "active"
                     ELSE IF now < Absolute THEN "idle" ELSE "overdue"
                ELSE IF run = "recovery_required"
                THEN IF now < Absolute THEN "recovery_required" ELSE "overdue"
                ELSE "ended"
  BY TimesAssumption DEF Seen, Unexpired, TypeOK

\* What a step may do to the state of the run and its expiry.
LEMMA RunSteps ==
  ASSUME TypeOK, CleanupInv, [Next]_vars
  PROVE  \/ /\ UNCHANGED <<run, time>>
            /\ UNCHANGED tombstone \/ (run \notin Open /\ tombstone' = TRUE)
         \/ /\ UNCHANGED tombstone
            /\ \/ UNCHANGED <<run, now>> /\ expires' = Expiry(now)
               \/ /\ run \in {"active", "recovery_required"} /\ now < Absolute
                  /\ run' \in {"active", "recovery_required"}
                  /\ run' = "active" => run = "recovery_required"
                  /\ UNCHANGED now /\ expires' = Expiry(now)
               \/ run' \in Ended \cup {"ready_for_delivery"}
               \/ UNCHANGED <<run, expires>> /\ now < Absolute /\ now' = now + 1
<1>1. CASE Activity
  BY <1>1 DEF Activity, CommitPacket, StartWrite, FinishWrite, ExpireKey,
     CommitCheckpoint, TouchUnchecked, Suspend, Resume, Ready, time, store
<1>2. ASSUME NEW h \in Handlers, EndRequest(h)
      PROVE  run' \in Ended /\ UNCHANGED tombstone
  BY <1>2 DEF EndRequest, Acknowledge, Fail, Delete, Complete, ThenClean, Ended, store
<1>3. ASSUME NEW c \in Cleaners, TickStep(c)
      PROVE  UNCHANGED <<run, time>> \/ (run' \in Ended /\ UNCHANGED tombstone)
  BY <1>3 DEF TickStep, ExpireRuns, SelectCandidate, Prune, Ended, store
<1>4. ASSUME NEW c \in Cleaners, TickStep(c) PROVE UNCHANGED tombstone
  BY <1>4 DEF TickStep, ExpireRuns, SelectCandidate, Prune, store
<1>5. ASSUME NEW c \in Actors, Purge(c) \/ PurgeThrows(c)
      PROVE  /\ UNCHANGED <<run, time>> /\ run \notin Open
             /\ UNCHANGED tombstone \/ tombstone' = TRUE
  BY <1>5 DEF Purge, PurgeThrows, CleanupInv, PurgedBeforeRecord, time
<1>6. ASSUME NEW c \in Actors, RecordVerified(c) \/ RecordThrows(c)
      PROVE  /\ UNCHANGED tombstone
             /\ UNCHANGED <<run, time>> \/ run' \in Ended
  BY <1>6 DEF RecordVerified, RecordThrows, Verify, time, Ended
<1>7. ASSUME NEW c \in Actors, ClaimCleanup(c) \/ RecordRetryable(c) \/ ActorDies(c)
      PROVE  UNCHANGED <<run, time, tombstone>>
  BY <1>7 DEF ClaimCleanup, RecordRetryable, ActorDies, store
<1>8. CASE Tick
  BY <1>8 DEF Tick, store
<1>9. CASE (\E k \in Claims : AgeClaim(k)) \/ UNCHANGED vars
  BY <1>9 DEF AgeClaim, vars, store, time
<1>10. QED
  BY <1>1, <1>2, <1>3, <1>4, <1>5, <1>6, <1>7, <1>8, <1>9
     DEF Next, CleanStep, CleanFault

LEMMA StepIsExpected ==
  ASSUME TypeOK, TypeOK', CleanupInv, [Next]_vars
  PROVE  [ForDispatch!Next]_<<Seen, tombstone>>
<1> DEFINE Expected == [ForDispatch!Next]_<<Seen, tombstone>>
<1> USE DEF ForDispatch!Next, ForDispatch!Moves, ForDispatch!Touched, ForDispatch!Seal
<1>1. /\ now \in Nat /\ expires \in Nat /\ Absolute \in Nat
      /\ now <= Absolute /\ expires <= Absolute /\ tombstone \in BOOLEAN
  BY TimesAssumption DEF TypeOK
<1>2. Seen' = IF run' = "active"
              THEN IF now' < expires' THEN "active"
                   ELSE IF now' < Absolute THEN "idle" ELSE "overdue"
              ELSE IF run' = "recovery_required"
              THEN IF now' < Absolute THEN "recovery_required" ELSE "overdue"
              ELSE "ended"
  BY TimesAssumption DEF Seen, Unexpired, TypeOK
<1>3. CASE /\ UNCHANGED <<run, time>>
           /\ UNCHANGED tombstone \/ (run \notin Open /\ tombstone' = TRUE)
  <2>1. Seen' = Seen
    BY <1>2, <1>3, SeenCases DEF time
  <2>2. run \notin Open => Seen = "ended"
    BY SeenCases DEF Open
  <2>3. QED
    BY <1>1, <1>3, <2>1, <2>2
<1>4. CASE /\ UNCHANGED tombstone
           /\ UNCHANGED <<run, now>> /\ expires' = Expiry(now)
  <2>1. now < Absolute => now' < expires'
    BY <1>4, ExpiryLater
  <2>2. now >= Absolute => ~(now < expires) /\ ~(now' < expires')
    BY <1>1, <1>4, ExpiryTyped DEF TypeOK
  <2>3. Seen' = ForDispatch!Touched
    BY <1>1, <1>2, <1>4, <2>1, <2>2, SeenCases
  <2>4. QED
    BY <1>4, <2>3
<1>5. CASE /\ UNCHANGED tombstone
           /\ run \in {"active", "recovery_required"} /\ now < Absolute
           /\ run' \in {"active", "recovery_required"}
           /\ run' = "active" => run = "recovery_required"
           /\ UNCHANGED now /\ expires' = Expiry(now)
  <2>1. now' < expires'
    BY <1>5, ExpiryLater
  <2>2. QED
    BY <1>1, <1>2, <1>5, <2>1, SeenCases
<1>6. CASE UNCHANGED tombstone /\ run' \in Ended \cup {"ready_for_delivery"}
  <2>1. Seen' = "ended"
    BY <1>2, <1>6 DEF Ended
  <2>2. QED
    BY <1>6, <2>1
<1>7. CASE /\ UNCHANGED tombstone
           /\ UNCHANGED <<run, expires>> /\ now < Absolute /\ now' = now + 1
  BY <1>1, <1>2, <1>7, SeenCases
<1>8. QED
  BY <1>3, <1>4, <1>5, <1>6, <1>7, RunSteps

\* For every number of requests, workers and faults and all lifetimes, a run
\* keeps the contract about its content, and makes no move that the dispatch of
\* its attempts does not expect: module Dispatch, with its runs that move at
\* will, has every behaviour of the attempts of such a run.
THEOREM RunKeepsItsContracts == Spec => KeepsItsContracts
<1>1. Init => Contract!Init
  BY NoneAssumption DEF Init, Phase, Open, Contract!Init, CleanupStates
<1>2. Init => Seen = "active" /\ tombstone = FALSE
  <2>1. Expiry(0) > 0
    BY TimesAssumption DEF Expiry
  <2>2. QED
    BY <2>1 DEF Init, Seen, Unexpired
<1>3. TypeOK /\ CleanupInv /\ [Next]_vars => [Contract!Next]_(Contract!contractVars)
  BY StepKeepsContract
<1>4. TypeOK /\ TypeOK' /\ CleanupInv /\ [Next]_vars
        => [ForDispatch!Next]_<<Seen, tombstone>>
  BY StepIsExpected
<1>5. QED
  BY <1>1, <1>2, <1>3, <1>4, TypeCorrect, CleanupInvariant, PTL
     DEF Spec, KeepsItsContracts, Contract!Spec, ForDispatch!Spec

=============================================================================
