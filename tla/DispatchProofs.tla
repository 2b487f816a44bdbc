--------------------------- MODULE DispatchProofs ---------------------------
(***************************************************************************)
(* Proofs about Dispatch, for every number of attempts, workers,           *)
(* publishers and reconcilers and for every bound.                         *)
(***************************************************************************)
EXTENDS DispatchRefinement, TLAPS

-----------------------------------------------------------------------------
(* Type correctness *)

\* The initial rows, keys and processes are well typed (createRun, an empty
\* ledger, processes that have just started).
LEMMA InitTyped == Init => TypeOK
<1> SUFFICES ASSUME Init PROVE TypeOK
  OBVIOUS
<1>1. DatabaseTypes
  BY DEF Init, DatabaseTypes, AttemptStates, RunStates, Run!RunStates
<1>2. RedisTypes
  BY DEF Init, RedisTypes
<1>3. ProcessTypes
  BY DEF Init, ProcessTypes, WorkerSteps, AttemptStates
<1>4. HistoryTypes
  BY BoundsAssumption DEF Init, HistoryTypes
<1>5. QED
  BY <1>1, <1>2, <1>3, <1>4 DEF TypeOK

\* A step that leaves a group of variables alone keeps their types.
LEMMA Kept ==
  /\ TypeOK => DatabaseTypes /\ RedisTypes /\ ProcessTypes /\ HistoryTypes
  /\ TypeOK' <=> DatabaseTypes' /\ RedisTypes' /\ ProcessTypes' /\ HistoryTypes'
  /\ DatabaseTypes /\ UNCHANGED <<ledger, delivery, packet, run>> => DatabaseTypes'
  /\ RedisTypes /\ UNCHANGED <<redis, notices>> => RedisTypes'
  /\ ProcessTypes /\ UNCHANGED <<job, pub, rec>> => ProcessTypes'
  /\ HistoryTypes /\ UNCHANGED <<history, faults>> => HistoryTypes'
<1>1. TypeOK => DatabaseTypes /\ RedisTypes /\ ProcessTypes /\ HistoryTypes
  BY DEF TypeOK
<1>2. TypeOK' <=> DatabaseTypes' /\ RedisTypes' /\ ProcessTypes' /\ HistoryTypes'
  BY DEF TypeOK
<1>3. DatabaseTypes /\ UNCHANGED <<ledger, delivery, packet, run>> => DatabaseTypes'
  BY DEF DatabaseTypes, ledger, delivery
<1>4. RedisTypes /\ UNCHANGED <<redis, notices>> => RedisTypes'
  BY DEF RedisTypes, redis, notices
<1>5. ProcessTypes /\ UNCHANGED <<job, pub, rec>> => ProcessTypes'
  BY DEF ProcessTypes, job, pub, rec
<1>6. HistoryTypes /\ UNCHANGED <<history, faults>> => HistoryTypes'
  BY DEF HistoryTypes, history
<1>7. QED
  BY <1>1, <1>2, <1>3, <1>4, <1>5, <1>6

\* A job that is under way works on an attempt of the ledger.
LEMMA Working ==
  ASSUME TypeOK, NEW w \in Workers, pc[w] # "off"
  PROVE  att[w] \in Attempts
  BY DEF TypeOK, ProcessTypes

\* A fault spends the budget by one.
LEMMA FaultTyped ==
  ASSUME HistoryTypes, Fault, UNCHANGED history
  PROVE  HistoryTypes'
  BY BoundsAssumption DEF HistoryTypes, Fault, history

\* transitionAttempt keeps the ledger well typed.
LEMMA TransitionTyped ==
  ASSUME DatabaseTypes, NEW a \in Attempts, NEW from, NEW to \in AttemptStates,
         transitionAttempt(a, from, to),
         UNCHANGED <<owner, token, lease, authorized, delivery, packet>>
  PROVE  DatabaseTypes'
<1>1. state' \in [Attempts -> AttemptStates]
  BY DEF transitionAttempt, DatabaseTypes
<1>2. run' \in RunStates
  BY DEF transitionAttempt, DatabaseTypes, Touched, Run!Touched, RunStates,
     Run!RunStates
<1>3. QED
  BY <1>1, <1>2 DEF DatabaseTypes, delivery

\* A worker that goes on to its next step, or ends its job, is well typed.
LEMMA GotoTyped ==
  ASSUME ProcessTypes, NEW w \in Workers, pc[w] # "off" , NEW step \in WorkerSteps,
         Goto(w, step), UNCHANGED <<pub, rec>>
  PROVE  ProcessTypes'
  BY DEF ProcessTypes, Goto, pub, rec

LEMMA EndJobTyped ==
  ASSUME ProcessTypes, NEW w \in Workers, EndJob(w), UNCHANGED <<pub, rec>>
  PROVE  ProcessTypes'
  BY DEF ProcessTypes, EndJob, WorkerSteps, AttemptStates, pub, rec

\* Every last statement of a job (transitionAttempt in process) keeps the types.
LEMMA FinalTransitionTyped ==
  ASSUME TypeOK, NEW w \in Workers, NEW step, step # "off", NEW from,
         NEW to \in AttemptStates, FinalTransition(w, step, from, to)
  PROVE  TypeOK'
<1>1. att[w] \in Attempts
  BY Working DEF FinalTransition
<1>2. DatabaseTypes'
  BY <1>1, Kept, TransitionTyped DEF FinalTransition
<1>3. ProcessTypes'
  BY Kept, EndJobTyped DEF FinalTransition
<1>4. QED
  BY <1>2, <1>3, Kept DEF FinalTransition

\* The steps of a job (ExecutionWorker.process) keep the types.
LEMMA JobTyped ==
  ASSUME TypeOK, NEW w \in Workers, JobStep(w) \/ JobFault(w) \/ LoseFence(w)
  PROVE  TypeOK'
<1> DEFINE Ends == {"cancelled", "fallback_allowed", "outcome_unknown",
                    "succeeded", "result_unavailable"}
<1>1. Ends \subseteq AttemptStates /\ "dispatch_intent" \in AttemptStates
  BY DEF AttemptStates
<1>2. /\ BeforeSend \subseteq WorkerSteps \ {"off"}
      /\ Sending \subseteq WorkerSteps \ {"off"}
  BY DEF BeforeSend, Sending, WorkerSteps
<1>3. pc[w] # "off" => att[w] \in Attempts
  BY Working
<1>4. CASE \/ StopCancelled(w) \/ StopFallback(w) \/ StopAmbiguous(w)
           \/ StopNotConfigured(w) \/ StopLost(w) \/ RecordSuccess(w)
           \/ RecordUnavailable(w) \/ RecordRefusal(w) \/ RecordUnknown(w)
  BY <1>1, <1>4, FinalTransitionTyped
     DEF StopCancelled, StopFallback, StopAmbiguous, StopNotConfigured,
         StopLost, RecordSuccess, RecordUnavailable, RecordRefusal, RecordUnknown
<1>5. CASE ReadAttempt(w)
  <2>1. CASE packet[att[w]] = "pruned" /\ EndJob(w)
    BY <1>5, <2>1, Kept, EndJobTyped DEF ReadAttempt
  <2>2. CASE packet[att[w]] # "pruned"
    <3>1. state[att[w]] \in AttemptStates
      BY <1>3, <1>5 DEF ReadAttempt, TypeOK, DatabaseTypes
    <3>2. PICK next \in {"cancel", "fallback", "lease"} :
             pc' = [pc EXCEPT ![w] = next]
      BY <1>5, <2>2 DEF ReadAttempt
    <3>3. next \in WorkerSteps
      BY <1>2 DEF BeforeSend
    <3>4. ProcessTypes'
      BY <1>5, <2>2, <3>1, <3>2, <3>3, Kept
         DEF ReadAttempt, ProcessTypes, pub, rec
    <3>5. QED
      BY <1>5, <3>4, Kept DEF ReadAttempt
  <2>3. QED
    BY <1>5, <2>1, <2>2 DEF ReadAttempt
<1>6. CASE SetLease(w) \/ SetLeaseThrows(w)
  <2>1. tok[w] \in Nat
    BY DEF TypeOK, ProcessTypes
  <2>2. pc[w] # "off" /\ RedisTypes'
    BY <1>3, <1>6, <2>1, Kept DEF SetLease, SetLeaseThrows, RedisTypes, notices
  <2>3. \E step \in BeforeSend : Goto(w, step)
    BY <1>6 DEF SetLease, SetLeaseThrows, BeforeSend
  <2>4. ProcessTypes'
    BY <1>2, <1>6, <2>2, <2>3, Kept, GotoTyped DEF SetLease, SetLeaseThrows
  <2>5. HistoryTypes'
    BY <1>6, Kept, FaultTyped DEF SetLease, SetLeaseThrows
  <2>6. QED
    BY <1>6, <2>2, <2>4, <2>5, Kept DEF SetLease, SetLeaseThrows
<1>7. CASE RecordIntent(w)
  <2>1. DatabaseTypes'
    BY <1>1, <1>3, <1>7, Kept, TransitionTyped DEF RecordIntent
  <2>2. (\E step \in BeforeSend : Goto(w, step)) \/ EndJob(w)
    BY <1>7 DEF RecordIntent, BeforeSend
  <2>3. ProcessTypes'
    BY <1>2, <1>7, <2>2, Kept, GotoTyped, EndJobTyped DEF RecordIntent
  <2>4. QED
    BY <1>7, <2>1, <2>3, Kept DEF RecordIntent
<1>8. CASE AuthorizeSend(w)
  <2>1. RedisTypes' /\ pc[w] # "off"
    BY <1>3, <1>8, Kept DEF AuthorizeSend, TypeOK, ProcessTypes, RedisTypes, notices
  <2>2. \E step \in BeforeSend : Goto(w, step)
    BY <1>8 DEF AuthorizeSend, BeforeSend
  <2>3. ProcessTypes'
    BY <1>2, <1>8, <2>1, <2>2, Kept, GotoTyped DEF AuthorizeSend
  <2>4. QED
    BY <1>8, <2>1, <2>3, Kept DEF AuthorizeSend
<1>9. CASE AuthorizeAttempt(w)
  <2>1. DatabaseTypes' /\ pc[w] # "off"
    BY <1>3, <1>9, Kept
       DEF AuthorizeAttempt, DatabaseTypes, AttemptStates, delivery
  <2>2. \E step \in BeforeSend \cup Sending : Goto(w, step)
    BY <1>9 DEF AuthorizeAttempt, BeforeSend, Sending
  <2>3. ProcessTypes'
    BY <1>2, <1>9, <2>1, <2>2, Kept, GotoTyped DEF AuthorizeAttempt
  <2>4. QED
    BY <1>9, <2>1, <2>3, Kept DEF AuthorizeAttempt
<1>10. CASE InvokeProvider(w) \/ ProviderAnswers(w) \/ LoseFence(w)
  <2>1. HistoryTypes' /\ pc[w] # "off"
    <3>1. CASE InvokeProvider(w)
      BY <1>3, <3>1, Kept DEF InvokeProvider, HistoryTypes
    <3>2. CASE ProviderAnswers(w)
      BY <1>3, <3>2, Kept DEF ProviderAnswers, HistoryTypes
    <3>3. CASE LoseFence(w)
      BY <3>3, Kept, FaultTyped DEF LoseFence
    <3>4. QED
      BY <1>10, <3>1, <3>2, <3>3
  <2>2. \E step \in Sending : Goto(w, step)
    BY <1>10 DEF InvokeProvider, ProviderAnswers, LoseFence, Sending
  <2>3. ProcessTypes'
    BY <1>2, <1>10, <2>1, <2>2, Kept, GotoTyped
       DEF InvokeProvider, ProviderAnswers, LoseFence
  <2>4. QED
    BY <1>10, <2>1, <2>3, Kept DEF InvokeProvider, ProviderAnswers, LoseFence
<1>11. CASE SetResult(w) \/ SetResultThrows(w)
  <2>1. RedisTypes' /\ pc[w] # "off"
    BY <1>3, <1>11, Kept DEF SetResult, SetResultThrows, RedisTypes, notices
  <2>2. HistoryTypes'
    <3>1. faults' \in 0..MaxFaults
      BY <1>11, Kept, BoundsAssumption
         DEF SetResult, SetResultThrows, Fault, HistoryTypes
    <3>2. stored' \in [Attempts -> BOOLEAN]
      BY <1>3, <1>11, Kept DEF SetResult, SetResultThrows, HistoryTypes
    <3>3. QED
      BY <1>11, <3>1, <3>2, Kept DEF SetResult, SetResultThrows, HistoryTypes
  <2>3. \E step \in Sending : Goto(w, step)
    BY <1>11 DEF SetResult, SetResultThrows, Sending
  <2>4. ProcessTypes'
    BY <1>2, <1>11, <2>1, <2>3, Kept, GotoTyped DEF SetResult, SetResultThrows
  <2>5. QED
    BY <1>11, <2>1, <2>2, <2>4, Kept DEF SetResult, SetResultThrows
<1>12. CASE RecordThrows(w)
  <2>1. DatabaseTypes'
    <3>1. CASE UNCHANGED <<state, run>>
      BY <1>12, <3>1, Kept DEF RecordThrows, ledger
    <3>2. CASE \E to \in Ends : transitionAttempt(att[w], "send_authorized", to)
      BY <1>1, <1>3, <1>12, <3>2, Kept, TransitionTyped DEF RecordThrows
    <3>3. QED
      BY <1>12, <3>1, <3>2 DEF RecordThrows
  <2>2. ProcessTypes'
    BY <1>2, <1>12, Kept, GotoTyped DEF RecordThrows, Sending
  <2>3. QED
    BY <1>12, <2>1, <2>2, Kept, FaultTyped DEF RecordThrows
<1>13. CASE JobDies(w)
  <2>1. RedisTypes'
    BY <1>13, Kept DEF JobDies, RedisTypes, redis
  <2>2. ProcessTypes'
    BY <1>13, Kept, EndJobTyped DEF JobDies
  <2>3. QED
    BY <1>13, <2>1, <2>2, Kept, FaultTyped DEF JobDies
<1>14. QED
  BY <1>4, <1>5, <1>6, <1>7, <1>8, <1>9, <1>10, <1>11, <1>12, <1>13
     DEF JobStep, JobFault

\* The reconciler (AttemptReconciler.tick) keeps the types.
LEMMA ReconcilerTyped ==
  ASSUME TypeOK, NEW r \in Reconcilers,
         \/ ReconcilerStep(r) \/ ReconcilerDies(r)
         \/ \E a \in Attempts : ListCandidate(r, a)
  PROVE  TypeOK'
<1>1. recPc[r] # "off" => recAtt[r] \in Attempts
  BY DEF TypeOK, ProcessTypes
<1>2. CASE \E a \in Attempts : ListCandidate(r, a)
  <2>1. PICK a \in Attempts : ListCandidate(r, a)
    BY <1>2
  <2>2. state[a] \in AttemptStates
    BY DEF TypeOK, DatabaseTypes
  <2>3. ProcessTypes'
    BY <2>1, <2>2, Kept, NoneAssumption DEF ListCandidate, ProcessTypes, job, pub
  <2>4. QED
    BY <2>1, <2>3, Kept DEF ListCandidate
<1>3. RecDone(r) /\ UNCHANGED <<job, pub>> => ProcessTypes'
  BY Kept DEF RecDone, ProcessTypes, AttemptStates, job, pub
<1>4. CASE LookForResult(r)
  <2>1. ProcessTypes'
    BY <1>4, Kept DEF LookForResult, RecGoto, ProcessTypes, job, pub
  <2>2. QED
    BY <1>4, <2>1, Kept DEF LookForResult
<1>5. CASE RecoverSucceeded(r)
  <2>1. state' \in [Attempts -> AttemptStates]
    BY <1>5, Kept DEF RecoverSucceeded, DatabaseTypes, AttemptStates
  <2>2. run' \in RunStates
    BY <1>5, Kept
       DEF RecoverSucceeded, DatabaseTypes, Touched, Run!Touched, RunStates,
       Run!RunStates
  <2>3. DatabaseTypes'
    BY <1>5, <2>1, <2>2, Kept DEF RecoverSucceeded, DatabaseTypes, delivery
  <2>4. QED
    BY <1>3, <1>5, <2>3, Kept DEF RecoverSucceeded, notices
<1>6. CASE LookForMarker(r)
  <2>1. ProcessTypes'
    BY <1>3, <1>6, Kept DEF LookForMarker, RecGoto, ProcessTypes, job, pub
  <2>2. QED
    BY <1>6, <2>1, Kept DEF LookForMarker
<1>7. CASE Renotify(r)
  <2>1. RedisTypes'
    BY <1>1, <1>7, Kept DEF Renotify, notifyAttempt, RedisTypes, redis
  <2>2. QED
    BY <1>3, <1>7, <2>1, Kept DEF Renotify
<1>8. CASE MarkUnknown(r)
  <2>1. "outcome_unknown" \in AttemptStates
    BY DEF AttemptStates
  <2>2. DatabaseTypes'
    BY <1>1, <1>8, <2>1, Kept, TransitionTyped DEF MarkUnknown
  <2>3. QED
    BY <1>3, <1>8, <2>2, Kept DEF MarkUnknown
<1>9. CASE ReconcilerDies(r)
  BY <1>3, <1>9, Kept, FaultTyped DEF ReconcilerDies
<1>10. QED
  BY <1>2, <1>4, <1>5, <1>6, <1>7, <1>8, <1>9 DEF ReconcilerStep

\* Every step keeps the types.
LEMMA NextTyped == TypeOK /\ [Next]_vars => TypeOK'
<1> SUFFICES ASSUME TypeOK, [Next]_vars PROVE TypeOK'
  OBVIOUS
<1>1. CASE \E a \in Attempts : Reserve(a) \/ ReconcileStale(a)
  <2>1. DatabaseTypes'
    BY <1>1, Kept DEF Reserve, ReconcileStale, DatabaseTypes, AttemptStates, ledger
  <2>2. QED
    BY <1>1, <2>1, Kept DEF Reserve, ReconcileStale
<1>2. CASE \E a \in Attempts : Timer(a)
  <2>1. PICK a \in Attempts : Timer(a)
    BY <1>2
  <2>2. CASE ExpirePublishLease(a) \/ ExpireLease(a) \/ ExpirePacket(a)
    <3>1. DatabaseTypes'
      BY <2>2, Kept DEF ExpirePublishLease, ExpireLease, ExpirePacket,
         DatabaseTypes, ledger, delivery
    <3>2. HistoryTypes'
      BY <2>2, Kept, FaultTyped DEF ExpirePublishLease, ExpireLease, ExpirePacket
    <3>3. QED
      BY <2>2, <3>1, <3>2, Kept DEF ExpirePublishLease, ExpireLease, ExpirePacket
  <2>3. CASE ExpireRedisLease(a) \/ ExpireMarker(a) \/ ExpireResult(a)
    <3>1. RedisTypes'
      <4>1. CASE ExpireRedisLease(a)
        BY <4>1 DEF TypeOK, ExpireRedisLease, RedisTypes, notices
      <4>2. CASE ExpireMarker(a)
        BY <4>2 DEF TypeOK, ExpireMarker, RedisTypes, notices
      <4>3. CASE ExpireResult(a)
        BY <4>3 DEF TypeOK, ExpireResult, RedisTypes, notices
      <4>4. QED
        BY <2>3, <4>1, <4>2, <4>3
    <3>2. QED
      BY <2>3, <3>1, Kept DEF ExpireRedisLease, ExpireMarker, ExpireResult
  <2>4. QED
    BY <2>1, <2>2, <2>3 DEF Timer
<1>3. CASE \E p \in Publishers : PublisherStep(p) \/ PublisherDies(p)
  <2>1. PICK p \in Publishers : PublisherStep(p) \/ PublisherDies(p)
    BY <1>3
  <2>2. pubPc[p] # "off" => pubAtt[p] \in Attempts
    BY DEF TypeOK, ProcessTypes
  <2>3. CASE \E a \in Attempts : ClaimOutbox(p, a)
    <3>1. DatabaseTypes'
      BY <2>3, Kept DEF ClaimOutbox, DatabaseTypes, ledger
    <3>2. ProcessTypes'
      BY <2>3, Kept, NoneAssumption DEF ClaimOutbox, ProcessTypes, job, rec
    <3>3. QED
      BY <2>3, <3>1, <3>2, Kept DEF ClaimOutbox
  <2>4. CASE PublishNotice(p)
    <3>1. RedisTypes'
      BY <2>2, <2>4, Kept DEF PublishNotice, notifyAttempt, RedisTypes, redis
    <3>2. ProcessTypes'
      BY <2>4, Kept DEF PublishNotice, ProcessTypes, job, rec
    <3>3. QED
      BY <2>4, <3>1, <3>2, Kept DEF PublishNotice
  <2>5. CASE MarkPublished(p) \/ PublisherDies(p)
    <3>1. DatabaseTypes'
      BY <2>5, Kept DEF MarkPublished, PublisherDies, DatabaseTypes, ledger, delivery
    <3>2. ProcessTypes'
      BY <2>5, Kept DEF MarkPublished, PublisherDies, ProcessTypes, job, rec
    <3>3. QED
      BY <2>5, <3>1, <3>2, Kept, FaultTyped DEF MarkPublished, PublisherDies
  <2>6. QED
    BY <2>1, <2>3, <2>4, <2>5 DEF PublisherStep
<1>4. CASE \E w \in Workers, a \in Attempts : ClaimAttempt(w, a)
  <2>1. PICK w \in Workers, a \in Attempts : ClaimAttempt(w, a)
    BY <1>4
  <2>2. DatabaseTypes'
    BY <2>1, Kept DEF ClaimAttempt, DatabaseTypes, delivery
  <2>3. RedisTypes'
    BY <2>1, Kept DEF ClaimAttempt, RedisTypes, redis
  <2>4. ProcessTypes'
    <3>1. "read" \in WorkerSteps /\ token[a] + 1 \in Nat
      BY DEF WorkerSteps, BeforeSend, TypeOK, DatabaseTypes
    <3>2. CASE UNCHANGED job
      BY <2>1, <3>2, Kept DEF ClaimAttempt
    <3>3. CASE Claimable(a)
      BY <2>1, <3>1, <3>3, Kept, NoneAssumption
         DEF ClaimAttempt, ProcessTypes, job, pub, rec
    <3>4. QED
      BY <2>1, <3>2, <3>3 DEF ClaimAttempt
  <2>5. QED
    BY <2>1, <2>2, <2>3, <2>4, Kept DEF ClaimAttempt
<1>5. CASE \E w \in Workers : JobStep(w) \/ LoseFence(w) \/ JobFault(w)
  BY <1>5, JobTyped
<1>6. CASE \E r \in Reconcilers :
              \/ \E a \in Attempts : ListCandidate(r, a)
              \/ ReconcilerStep(r) \/ ReconcilerDies(r)
  BY <1>6, ReconcilerTyped
<1>7. CASE RunMoves \/ DeleteBodies
  <2>1. DatabaseTypes'
    BY <1>7, Kept
       DEF RunMoves, Run!Moves, DeleteBodies, DatabaseTypes, RunStates,
       Run!RunStates, ledger, delivery
  <2>2. QED
    BY <1>7, <2>1, Kept DEF RunMoves, DeleteBodies
<1>8. CASE Tombstone
  <2>1. RedisTypes'
    BY <1>8, Kept DEF Tombstone, Run!Seal, RedisTypes, notices
  <2>2. QED
    BY <1>8, <2>1, Kept DEF Tombstone, Run!Seal
<1>9. CASE UNCHANGED vars
  BY <1>9, Kept DEF vars
<1>10. QED
  BY <1>1, <1>2, <1>3, <1>4, <1>5, <1>6, <1>7, <1>8, <1>9 DEF Next

\* Type correctness of the ledger, the keys and the processes.
THEOREM TypeCorrect == Spec => []TypeOK
  BY InitTyped, NextTyped, PTL DEF Spec

-----------------------------------------------------------------------------
(* At most one provider request per attempt *)

Unsent == {"none", "queued", "dispatch_intent"}

\* A job holds one of the tokens its attempt has given out, and no two jobs of
\* an attempt hold the same one.
TokensDiffer ==
    /\ \A w \in Workers : pc[w] # "off" => tok[w] <= token[att[w]]
    /\ \A v, w \in Workers :
          v # w /\ pc[v] # "off" /\ pc[w] # "off" /\ att[v] = att[w]
              => tok[v] # tok[w]

\* Only the job with the newest token is past the authorization; the recorded
\* authorization is never taken back to a state that can be claimed again.
SenderIsNewest ==
    /\ \A w \in Workers :
          pc[w] \in Sending => authorized[att[w]] /\ tok[w] = token[att[w]]
    /\ \A a \in Attempts : authorized[a] => state[a] \notin Unsent

\* The request of an attempt starts after its authorization, and the job that
\* is about to start it has not started it.
SendsCounted ==
    /\ \A a \in Attempts : sends[a] <= 1
    /\ \A a \in Attempts : sends[a] # 0 => authorized[a]
    /\ \A w \in Workers : pc[w] = "invoke" => sends[att[w]] = 0

SendInv == TokensDiffer /\ SenderIsNewest /\ SendsCounted

\* A step that gives out no token and no authorization, starts no request and
\* lets no job reach the request.
Quiet ==
    /\ UNCHANGED <<token, authorized, sends>>
    /\ \A a \in Attempts : state'[a] \in Unsent => state[a] \in Unsent
    /\ \A w \in Workers :
          \/ pc'[w] = "off"
          \/ /\ pc[w] # "off"
             /\ att'[w] = att[w] /\ tok'[w] = tok[w]
             /\ pc'[w] \in Sending => pc[w] \in Sending
             /\ pc'[w] = "invoke" => pc[w] = "invoke"

LEMMA QuietKeeps ==
  ASSUME TypeOK, SendInv, Quiet PROVE SendInv'
<1> USE DEF SendInv
<1>1. \A w \in Workers : pc[w] # "off" => att[w] \in Attempts
  BY Working
<1>2. "off" \notin Sending /\ "invoke" # "off"
  BY DEF Sending
<1>3. TokensDiffer'
  BY <1>1 DEF TokensDiffer, Quiet
<1>4. SenderIsNewest'
  BY <1>1, <1>2 DEF SenderIsNewest, Quiet
<1>5. SendsCounted'
  BY <1>1, <1>2 DEF SendsCounted, Quiet
<1>6. QED
  BY <1>3, <1>4, <1>5

\* Nothing but a job moves a job.
LEMMA IdleQuiet ==
  ASSUME TypeOK, UNCHANGED <<token, authorized, sends, job>>,
         \A a \in Attempts : state'[a] \in Unsent => state[a] \in Unsent
  PROVE  Quiet
  BY DEF Quiet, job

\* transitionAttempt never goes back to a state that can be claimed.
LEMMA TransitionQuiet ==
  ASSUME TypeOK, NEW a \in Attempts, NEW from, NEW to, to \in Unsent => from \in Unsent,
         transitionAttempt(a, from, to)
  PROVE  \A b \in Attempts : state'[b] \in Unsent => state[b] \in Unsent
  BY DEF transitionAttempt, Applies, TypeOK, DatabaseTypes

LEMMA GotoQuiet ==
  ASSUME TypeOK, UNCHANGED <<token, authorized, sends>>, NEW w \in Workers,
         NEW step, Goto(w, step), pc[w] # "off", step # "invoke",
         step \in Sending => pc[w] \in Sending,
         \A a \in Attempts : state'[a] \in Unsent => state[a] \in Unsent
  PROVE  Quiet
  BY DEF TypeOK, ProcessTypes, Goto, Quiet

LEMMA EndJobQuiet ==
  ASSUME TypeOK, UNCHANGED <<token, authorized, sends>>, NEW w \in Workers, EndJob(w),
         \A a \in Attempts : state'[a] \in Unsent => state[a] \in Unsent
  PROVE  Quiet
  BY DEF TypeOK, ProcessTypes, EndJob, Quiet

LEMMA FinalTransitionQuiet ==
  ASSUME TypeOK, NEW w \in Workers, NEW step, step # "off", NEW from,
         NEW to, to \notin Unsent, FinalTransition(w, step, from, to)
  PROVE  Quiet
<1>1. att[w] \in Attempts
  BY Working DEF FinalTransition
<1>2. \A b \in Attempts : state'[b] \in Unsent => state[b] \in Unsent
  BY <1>1, TransitionQuiet DEF FinalTransition
<1>3. QED
  BY <1>2, EndJobQuiet DEF FinalTransition, history

\* Every step of a job but the authorization and the request is quiet.
LEMMA JobQuiet ==
  ASSUME TypeOK, NEW w \in Workers, JobStep(w) \/ JobFault(w) \/ LoseFence(w)
  PROVE  AuthorizeAttempt(w) \/ InvokeProvider(w) \/ Quiet
<1>1. pc[w] # "off" => att[w] \in Attempts
  BY Working
<1>2. UNCHANGED state
        => \A a \in Attempts : state'[a] \in Unsent => state[a] \in Unsent
  OBVIOUS
<1>3. CASE \/ StopCancelled(w) \/ StopFallback(w) \/ StopAmbiguous(w)
           \/ StopNotConfigured(w) \/ StopLost(w) \/ RecordSuccess(w)
           \/ RecordUnavailable(w) \/ RecordRefusal(w) \/ RecordUnknown(w)
  BY <1>3, FinalTransitionQuiet
     DEF StopCancelled, StopFallback, StopAmbiguous, StopNotConfigured, Unsent,
         StopLost, RecordSuccess, RecordUnavailable, RecordRefusal, RecordUnknown
<1>4. CASE ReadAttempt(w)
  <2>1. EndJob(w) \/ \E next \in {"cancel", "fallback", "lease"} :
           pc' = [pc EXCEPT ![w] = next] /\ UNCHANGED <<att, tok>>
    BY <1>4 DEF ReadAttempt
  <2>2. UNCHANGED <<state, token, authorized, sends>> /\ pc[w] = "read"
    BY <1>4 DEF ReadAttempt, ledger, history
  <2>3. CASE EndJob(w)
    BY <2>2, <2>3, <1>2, EndJobQuiet
  <2>4. CASE \E next \in {"cancel", "fallback", "lease"} :
           pc' = [pc EXCEPT ![w] = next] /\ UNCHANGED <<att, tok>>
    BY <1>2, <2>2, <2>4 DEF Quiet, Sending, TypeOK, ProcessTypes
  <2>5. QED
    BY <2>1, <2>3, <2>4
<1>5. CASE SetLease(w) \/ SetLeaseThrows(w) \/ AuthorizeSend(w)
  <2>1. \E step \in BeforeSend : Goto(w, step)
    BY <1>5 DEF SetLease, SetLeaseThrows, AuthorizeSend, BeforeSend
  <2>2. UNCHANGED <<state, token, authorized, sends>> /\ pc[w] # "off"
    BY <1>5 DEF SetLease, SetLeaseThrows, AuthorizeSend, ledger, history
  <2>3. QED
    BY <1>2, <2>1, <2>2, GotoQuiet DEF BeforeSend, Sending
<1>6. CASE RecordIntent(w)
  <2>1. (\E step \in {"mark", "decline"} : Goto(w, step)) \/ EndJob(w)
    BY <1>6 DEF RecordIntent
  <2>2. \A a \in Attempts : state'[a] \in Unsent => state[a] \in Unsent
    BY <1>1, <1>6, TransitionQuiet DEF RecordIntent, Unsent
  <2>3. UNCHANGED <<token, authorized, sends>> /\ pc[w] # "off"
    BY <1>6 DEF RecordIntent, history
  <2>4. QED
    BY <2>1, <2>2, <2>3, GotoQuiet, EndJobQuiet DEF Sending
<1>7. CASE ProviderAnswers(w) \/ LoseFence(w) \/ SetResult(w) \/ SetResultThrows(w)
  <2>1. \E step \in Sending \ {"invoke"} : Goto(w, step)
    BY <1>7 DEF ProviderAnswers, LoseFence, SetResult, SetResultThrows, Sending
  <2>2. /\ UNCHANGED <<state, token, authorized, sends>>
        /\ pc[w] # "off" /\ pc[w] \in Sending
    BY <1>7 DEF ProviderAnswers, LoseFence, SetResult, SetResultThrows, ledger,
       history, Sending
  <2>3. QED
    BY <1>2, <2>1, <2>2, GotoQuiet
<1>8. CASE RecordThrows(w)
  <2>1. \A a \in Attempts : state'[a] \in Unsent => state[a] \in Unsent
    BY <1>1, <1>2, <1>8, TransitionQuiet DEF RecordThrows, Unsent
  <2>2. QED
    BY <1>8, <2>1, GotoQuiet DEF RecordThrows, history, Sending
<1>9. CASE JobDies(w)
  BY <1>2, <1>9, EndJobQuiet DEF JobDies, ledger, history
<1>10. QED
  BY <1>3, <1>4, <1>5, <1>6, <1>7, <1>8, <1>9 DEF JobStep, JobFault

\* Publishers, reconcilers, timers and the run's own statements are quiet.
LEMMA OthersQuiet ==
  ASSUME TypeOK,
         \/ \E a \in Attempts : Reserve(a) \/ ReconcileStale(a) \/ Timer(a)
         \/ \E p \in Publishers : PublisherStep(p) \/ PublisherDies(p)
         \/ \E r \in Reconcilers :
              \/ \E a \in Attempts : ListCandidate(r, a)
              \/ ReconcilerStep(r) \/ ReconcilerDies(r)
         \/ RunMoves \/ Tombstone \/ DeleteBodies
         \/ UNCHANGED vars
  PROVE  Quiet
<1>1. UNCHANGED state
        => \A a \in Attempts : state'[a] \in Unsent => state[a] \in Unsent
  OBVIOUS
<1>2. CASE \E a \in Attempts : Reserve(a)
  <2>1. \A a \in Attempts : state'[a] \in Unsent => state[a] \in Unsent
    BY <1>2 DEF Reserve, TypeOK, DatabaseTypes, Unsent
  <2>2. QED
    BY <1>2, <2>1, IdleQuiet DEF Reserve, history
<1>3. CASE \E a \in Attempts : ReconcileStale(a) \/ Timer(a)
  BY <1>1, <1>3, IdleQuiet
     DEF ReconcileStale, Timer, ExpirePublishLease, ExpireLease, ExpireRedisLease,
         ExpireMarker, ExpireResult, ExpirePacket, ledger, history
<1>4. CASE \E p \in Publishers : PublisherStep(p) \/ PublisherDies(p)
  BY <1>1, <1>4, IdleQuiet
     DEF PublisherStep, PublisherDies, ClaimOutbox, PublishNotice, MarkPublished,
         ledger, history
<1>5. ASSUME NEW r \in Reconcilers,
             \/ \E a \in Attempts : ListCandidate(r, a)
             \/ LookForResult(r) \/ LookForMarker(r) \/ Renotify(r)
             \/ ReconcilerDies(r)
      PROVE  Quiet
  BY <1>1, <1>5, IdleQuiet
     DEF ListCandidate, LookForResult, LookForMarker, Renotify, ReconcilerDies,
         ledger, history
<1>6. ASSUME NEW r \in Reconcilers, RecoverSucceeded(r) PROVE Quiet
  <2>1. \A a \in Attempts : state'[a] \in Unsent => state[a] \in Unsent
    BY <1>6 DEF RecoverSucceeded, TypeOK, DatabaseTypes, Unsent
  <2>2. QED
    BY <1>6, <2>1, IdleQuiet DEF RecoverSucceeded, history
<1>7. ASSUME NEW r \in Reconcilers, MarkUnknown(r) PROVE Quiet
  <2>1. recAtt[r] \in Attempts
    BY <1>7 DEF MarkUnknown, TypeOK, ProcessTypes
  <2>2. \A a \in Attempts : state'[a] \in Unsent => state[a] \in Unsent
    BY <1>7, <2>1, TransitionQuiet DEF MarkUnknown, Unsent
  <2>3. QED
    BY <1>7, <2>2, IdleQuiet DEF MarkUnknown, history
<1>8. CASE RunMoves \/ Tombstone \/ DeleteBodies \/ UNCHANGED vars
  BY <1>1, <1>8, IdleQuiet
     DEF RunMoves, Tombstone, DeleteBodies, vars, ledger, history
<1>9. QED
  BY <1>2, <1>3, <1>4, <1>5, <1>6, <1>7, <1>8 DEF ReconcilerStep

\* Every step keeps the invariant: a claim gives out a newer token, which no
\* sender holds; the authorization is won with the newest token in a state that
\* no authorized attempt is in; the request is started by its only sender.
LEMMA NextSend == TypeOK /\ SendInv /\ [Next]_vars => SendInv'
<1> SUFFICES ASSUME TypeOK, SendInv, [Next]_vars PROVE SendInv'
  OBVIOUS
<1>1. \A w \in Workers : pc[w] # "off" => att[w] \in Attempts
  BY Working
<1>2. /\ \A a \in Attempts : token[a] \in Nat /\ sends[a] \in Nat
      /\ \A w \in Workers : tok[w] \in Nat
  BY DEF TypeOK, DatabaseTypes, ProcessTypes, HistoryTypes
<1>3. ASSUME NEW w \in Workers, NEW a \in Attempts, ClaimAttempt(w, a)
      PROVE  SendInv'
  <2>1. CASE UNCHANGED <<owner, token, lease, job>>
    <3>1. Quiet
      BY <1>3, <2>1, IdleQuiet DEF ClaimAttempt, history
    <3>2. QED
      BY <3>1, QuietKeeps
  <2>2. CASE Claimable(a)
    <3>1. /\ token' = [token EXCEPT ![a] = @ + 1]
          /\ pc' = [pc EXCEPT ![w] = "read"]
          /\ att' = [att EXCEPT ![w] = a]
          /\ tok' = [tok EXCEPT ![w] = token[a] + 1]
          /\ UNCHANGED <<state, authorized, sends>> /\ pc[w] = "off"
      BY <1>3, <2>2 DEF ClaimAttempt, history
    <3>2. ~authorized[a]
      BY <2>2 DEF Claimable, SendInv, SenderIsNewest, Unsent
    <3>3. \A v \in Workers : v # w => /\ pc'[v] = pc[v] /\ att'[v] = att[v]
                                      /\ tok'[v] = tok[v]
      BY <3>1 DEF TypeOK, ProcessTypes
    <3>4. pc'[w] = "read" /\ att'[w] = a /\ tok'[w] = token[a] + 1
      BY <3>1 DEF TypeOK, ProcessTypes
    <3>5. \A b \in Attempts : token'[b] = IF b = a THEN token[a] + 1 ELSE token[b]
      BY <3>1 DEF TypeOK, DatabaseTypes
    <3>6. "read" \notin Sending /\ "read" # "off" /\ "off" \notin Sending
      BY DEF Sending
    <3>7. TokensDiffer'
      <4>1. \A v \in Workers : pc'[v] # "off" => tok'[v] <= token'[att'[v]]
        BY <1>1, <1>2, <3>3, <3>4, <3>5 DEF SendInv, TokensDiffer
      <4>2. \A v \in Workers :
               v # w /\ pc[v] # "off" /\ att[v] = a => tok[v] # token[a] + 1
        BY <1>2 DEF SendInv, TokensDiffer
      <4>3. QED
        BY <3>3, <3>4, <4>1, <4>2 DEF SendInv, TokensDiffer
    <3>8. SenderIsNewest'
      <4>1. \A v \in Workers : pc[v] \in Sending => att[v] # a
        BY <3>2 DEF SendInv, SenderIsNewest
      <4>2. QED
        BY <1>1, <3>1, <3>3, <3>4, <3>5, <3>6, <4>1 DEF SendInv, SenderIsNewest
    <3>9. SendsCounted'
      BY <3>1, <3>3, <3>4 DEF SendInv, SendsCounted
    <3>10. QED
      BY <3>7, <3>8, <3>9 DEF SendInv
  <2>3. QED
    BY <1>3, <2>1, <2>2 DEF ClaimAttempt
<1>4. ASSUME NEW w \in Workers, AuthorizeAttempt(w) PROVE SendInv'
  <2>1. pc[w] = "authorize" /\ att[w] \in Attempts
    BY <1>1, <1>4 DEF AuthorizeAttempt
  <2>2. CASE UNCHANGED <<state, authorized>>
    <3>1. Quiet
      BY <1>4, <2>1, <2>2, GotoQuiet, IdleQuiet
         DEF AuthorizeAttempt, CanAuthorize, history, Sending, TypeOK, DatabaseTypes
    <3>2. QED
      BY <3>1, QuietKeeps
  <2>3. CASE CanAuthorize(w)
    <3>1. /\ state' = [state EXCEPT ![att[w]] = "send_authorized"]
          /\ authorized' = [authorized EXCEPT ![att[w]] = TRUE]
          /\ Goto(w, "invoke")
          /\ UNCHANGED <<token, sends>>
      BY <1>4, <2>3 DEF AuthorizeAttempt, history
    <3>2. ~authorized[att[w]] /\ tok[w] = token[att[w]]
      BY <2>1, <2>3 DEF CanAuthorize, SendInv, SenderIsNewest, Unsent
    <3>3. /\ \A v \in Workers : pc'[v] = IF v = w THEN "invoke" ELSE pc[v]
          /\ UNCHANGED <<att, tok>>
      BY <3>1 DEF Goto, TypeOK, ProcessTypes
    <3>4. \A a \in Attempts :
             authorized'[a] = IF a = att[w] THEN TRUE ELSE authorized[a]
      BY <3>1 DEF TypeOK, DatabaseTypes
    <3>5. \A a \in Attempts :
             state'[a] = IF a = att[w] THEN "send_authorized" ELSE state[a]
      BY <3>1 DEF TypeOK, DatabaseTypes
    <3>6. TokensDiffer'
      BY <2>1, <3>1, <3>3 DEF SendInv, TokensDiffer
    <3>7. SenderIsNewest'
      <4>1. \A v \in Workers :
               pc'[v] \in Sending => authorized'[att'[v]] /\ tok'[v] = token'[att'[v]]
        <5>1. ASSUME NEW v \in Workers, pc'[v] \in Sending, v # w
              PROVE  authorized'[att'[v]] /\ tok'[v] = token'[att'[v]]
          BY <1>1, <3>1, <3>3, <3>4, <5>1 DEF SendInv, SenderIsNewest, Sending
        <5>2. authorized'[att'[w]] /\ tok'[w] = token'[att'[w]]
          BY <2>1, <3>1, <3>2, <3>3, <3>4
        <5>3. QED
          BY <5>1, <5>2
      <4>2. \A a \in Attempts : authorized'[a] => state'[a] \notin Unsent
        BY <3>4, <3>5 DEF SendInv, SenderIsNewest, Unsent
      <4>3. QED
        BY <4>1, <4>2 DEF SenderIsNewest
    <3>8. SendsCounted'
      BY <2>1, <3>1, <3>2, <3>3, <3>4 DEF SendInv, SendsCounted
    <3>9. QED
      BY <3>6, <3>7, <3>8 DEF SendInv
  <2>4. QED
    BY <1>4, <2>2, <2>3 DEF AuthorizeAttempt
<1>5. ASSUME NEW w \in Workers, InvokeProvider(w) PROVE SendInv'
  <2>1. pc[w] = "invoke" /\ att[w] \in Attempts /\ pc[w] \in Sending
    BY <1>1, <1>5 DEF InvokeProvider, Sending
  <2>2. /\ sends' = [sends EXCEPT ![att[w]] = @ + 1]
        /\ Goto(w, "waiting")
        /\ UNCHANGED <<state, token, authorized>>
    BY <1>5 DEF InvokeProvider, ledger
  <2>3. sends[att[w]] = 0 /\ authorized[att[w]] /\ tok[w] = token[att[w]]
    BY <2>1 DEF SendInv, SendsCounted, SenderIsNewest
  <2>4. /\ \A v \in Workers : pc'[v] = IF v = w THEN "waiting" ELSE pc[v]
        /\ UNCHANGED <<att, tok>>
    BY <2>2 DEF Goto, TypeOK, ProcessTypes
  <2>5. \A a \in Attempts : sends'[a] = IF a = att[w] THEN 1 ELSE sends[a]
    BY <2>2, <2>3 DEF TypeOK, HistoryTypes
  <2>6. TokensDiffer'
    BY <2>1, <2>2, <2>4 DEF SendInv, TokensDiffer
  <2>7. SenderIsNewest'
    BY <2>1, <2>2, <2>4 DEF SendInv, SenderIsNewest
  <2>8. \A v \in Workers : v # w /\ pc[v] = "invoke" => att[v] # att[w]
    BY <2>1, <2>3 DEF SendInv, SenderIsNewest, TokensDiffer, Sending
  <2>9. SendsCounted'
    BY <1>1, <2>2, <2>3, <2>4, <2>5, <2>8 DEF SendInv, SendsCounted
  <2>10. QED
    BY <2>6, <2>7, <2>9 DEF SendInv
<1>6. ASSUME NEW w \in Workers, JobStep(w) \/ LoseFence(w) \/ JobFault(w)
      PROVE  SendInv'
  BY <1>4, <1>5, <1>6, JobQuiet, QuietKeeps
<1>7. CASE \E w \in Workers :
              \/ \E a \in Attempts : ClaimAttempt(w, a)
              \/ JobStep(w) \/ LoseFence(w) \/ JobFault(w)
  BY <1>3, <1>6, <1>7
<1>8. CASE \/ \E a \in Attempts : Reserve(a) \/ ReconcileStale(a) \/ Timer(a)
           \/ \E p \in Publishers : PublisherStep(p) \/ PublisherDies(p)
           \/ \E r \in Reconcilers :
                \/ \E a \in Attempts : ListCandidate(r, a)
                \/ ReconcilerStep(r) \/ ReconcilerDies(r)
           \/ RunMoves \/ Tombstone \/ DeleteBodies
           \/ UNCHANGED vars
  BY <1>8, OthersQuiet, QuietKeeps
<1>9. QED
  BY <1>7, <1>8 DEF Next

\* The provider is called at most once for an attempt, after the authorization
\* of PostgreSQL, under every interleaving, crash, redelivery and stall of any
\* number of workers (executionWorker.js process, claimAttempt,
\* authorizeAttempt).
THEOREM AtMostOneSend == Spec => []SentAtMostOnce
<1>1. Init => SendInv
  BY DEF Init, SendInv, TokensDiffer, SenderIsNewest, SendsCounted, Sending
<1>2. SendInv => SentAtMostOnce
  BY DEF SendInv, SendsCounted, SentAtMostOnce
<1>3. Spec => []SendInv
  BY <1>1, TypeCorrect, NextSend, PTL DEF Spec
<1>4. QED
  BY <1>2, <1>3, PTL

=============================================================================
