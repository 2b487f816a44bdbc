----------------------- MODULE DispatchOutcomeProofs -----------------------
(***************************************************************************)
(* More about Dispatch, on top of DispatchProofs: the two stores agree, a  *)
(* settled attempt stays settled, results and refusals decide, and the     *)
(* processes implement the ledger.                                         *)
(***************************************************************************)
EXTENDS DispatchProofs

-----------------------------------------------------------------------------
(* What a step may do to the state of an attempt *)

Changed(a, from, to) ==
  state[a] = from /\ state' = [state EXCEPT ![a] = to]

\* Somebody who records the outcome to of an attempt that was sent, and is done
\* with it.
Recorder(a, to) ==
  \E w \in Workers :
    /\ att[w] = a /\ pc'[w] \in {"off", "unknown"}
    /\ \/ to = "succeeded" /\ pc[w] = "succeed"
       \/ to = "result_unavailable" /\ pc[w] = "unavailable"
       \/ /\ to = "fallback_allowed"
          /\ pc[w] = "reject" \/ (pc[w] = "fallback" /\ seen[w] = "send_authorized")

Recovering(a) == \E r \in Reconcilers : recPc[r] = "recover" /\ recAtt[r] = a

\* The changes of one attempt, by what they say of it.
Advances(a) ==
  Changed(a, "none", "queued") \/ Changed(a, "queued", "dispatch_intent")
Closes(a) ==
  \E from \in {"queued", "dispatch_intent"}, to \in {"cancelled", "fallback_allowed"} :
    Changed(a, from, to)
Doubts(a) == \E from \in InFlight : Changed(a, from, "outcome_unknown")
Records(a, to) == Changed(a, "send_authorized", to) /\ Recorder(a, to)
Recovers(a) ==
  /\ Recovering(a)
  /\ \E from \in {"send_authorized", "outcome_unknown"} : Changed(a, from, "succeeded")
Outcomes == {"succeeded", "result_unavailable", "fallback_allowed"}
Authorizes(a) ==
  /\ Changed(a, "dispatch_intent", "send_authorized")
  /\ \E w \in Workers : AuthorizeAttempt(w) /\ CanAuthorize(w) /\ att[w] = a

StateStep ==
  \E a \in Attempts :
    \/ Advances(a) \/ Closes(a) \/ Doubts(a) \/ Authorizes(a) \/ Recovers(a)
    \/ \E to \in Outcomes : Records(a, to)

\* A final transition moves the attempt, if at all, along ATTEMPT_TRANSITIONS.
LEMMA FinalTransitionChanges ==
  ASSUME TypeOK, NEW w \in Workers, NEW step, step # "off", NEW from, NEW to,
         FinalTransition(w, step, from, to)
  PROVE  /\ pc[w] = step /\ att[w] \in Attempts /\ pc'[w] = "off"
         /\ UNCHANGED state
            \/ (<<from, to>> \in AttemptTransitions /\ Changed(att[w], from, to))
  BY Working DEF FinalTransition, transitionAttempt, Applies, Changed, EndJob, TypeOK,
     ProcessTypes

\* The pairs of ATTEMPT_TRANSITIONS by their second component.
LEMMA TransitionsTo ==
  ASSUME NEW from, NEW to, <<from, to>> \in AttemptTransitions
  PROVE  /\ to = "dispatch_intent" => from = "queued"
         /\ to = "cancelled" => from \in {"queued", "dispatch_intent"}
         /\ to = "fallback_allowed" => from \in InFlight
         /\ to = "outcome_unknown" => from \in InFlight
  BY DEF AttemptTransitions, InFlight

LEMMA JobSteps ==
  ASSUME TypeOK, NEW w \in Workers, JobStep(w) \/ JobFault(w) \/ LoseFence(w)
  PROVE  UNCHANGED state \/ StateStep
<1>1. CASE StopCancelled(w)
  <2>1. FinalTransition(w, "cancel", seen[w], "cancelled")
    BY <1>1 DEF StopCancelled
  <2>2. /\ att[w] \in Attempts
        /\ UNCHANGED state
           \/ (/\ <<seen[w], "cancelled">> \in AttemptTransitions
               /\ Changed(att[w], seen[w], "cancelled"))
    BY <2>1, FinalTransitionChanges
  <2>3. UNCHANGED state \/ Closes(att[w])
    BY <2>2, TransitionsTo DEF Closes
  <2>4. QED
    BY <2>2, <2>3 DEF StateStep
<1>2. CASE StopFallback(w)
  <2>1. /\ pc[w] = "fallback" /\ att[w] \in Attempts /\ pc'[w] = "off"
        /\ UNCHANGED state
           \/ (seen[w] \in InFlight /\ Changed(att[w], seen[w], "fallback_allowed"))
    BY <1>2, FinalTransitionChanges, TransitionsTo DEF StopFallback
  <2>2. CASE seen[w] = "send_authorized"
    BY <2>1, <2>2 DEF StateStep, Records, Recorder, Outcomes
  <2>3. CASE seen[w] \in {"queued", "dispatch_intent"}
    BY <2>1, <2>3 DEF StateStep, Closes
  <2>4. QED
    BY <2>1, <2>2, <2>3 DEF InFlight
<1>3. CASE StopAmbiguous(w) \/ StopLost(w) \/ RecordUnknown(w)
  BY <1>3, FinalTransitionChanges, TransitionsTo
     DEF StopAmbiguous, StopLost, RecordUnknown, StateStep, Doubts
<1>4. CASE StopNotConfigured(w)
  BY <1>4, FinalTransitionChanges DEF StopNotConfigured, StateStep, Closes
<1>5. CASE RecordSuccess(w) \/ RecordUnavailable(w) \/ RecordRefusal(w)
  <2>1. PICK step \in {"succeed", "unavailable", "reject"}, to \in Outcomes :
           /\ FinalTransition(w, step, "send_authorized", to)
           /\ step = "succeed" <=> to = "succeeded"
           /\ step = "unavailable" <=> to = "result_unavailable"
    BY <1>5 DEF RecordSuccess, RecordUnavailable, RecordRefusal, Outcomes
  <2>2. /\ pc[w] = step /\ att[w] \in Attempts /\ pc'[w] = "off"
        /\ UNCHANGED state \/ Changed(att[w], "send_authorized", to)
    BY <2>1, FinalTransitionChanges
  <2>3. Recorder(att[w], to)
    BY <2>1, <2>2 DEF Recorder, Outcomes
  <2>4. UNCHANGED state \/ Records(att[w], to)
    BY <2>2, <2>3 DEF Records
  <2>5. QED
    BY <2>2, <2>4 DEF StateStep
<1>6. CASE RecordIntent(w)
  <2>1. att[w] \in Attempts
    BY <1>6, Working DEF RecordIntent
  <2>2. UNCHANGED state \/ Changed(att[w], "queued", "dispatch_intent")
    BY <1>6 DEF RecordIntent, transitionAttempt, Applies, Changed
  <2>3. QED
    BY <2>1, <2>2 DEF StateStep, Advances
<1>7. CASE AuthorizeAttempt(w)
  <2>1. att[w] \in Attempts
    BY <1>7, Working DEF AuthorizeAttempt
  <2>2. UNCHANGED state \/ Authorizes(att[w])
    BY <1>7 DEF AuthorizeAttempt, Authorizes, Changed, CanAuthorize
  <2>3. QED
    BY <2>1, <2>2 DEF StateStep
<1>8. CASE RecordThrows(w)
  <2>1. att[w] \in Attempts /\ pc'[w] = "unknown"
    BY <1>8, Working DEF RecordThrows, Goto, TypeOK, ProcessTypes
  <2>2. UNCHANGED state \/ \E to \in Outcomes : Records(att[w], to)
    <3>1. CASE pc[w] = "succeed"
      BY <1>8, <2>1, <3>1 DEF RecordThrows, transitionAttempt, Applies, Changed, Records,
         Recorder, Outcomes
    <3>2. CASE pc[w] = "unavailable"
      BY <1>8, <2>1, <3>2 DEF RecordThrows, transitionAttempt, Applies, Changed, Records,
         Recorder, Outcomes
    <3>3. QED
      BY <1>8, <3>1, <3>2 DEF RecordThrows
  <2>3. QED
    BY <2>1, <2>2 DEF StateStep
<1>9. CASE \/ ReadAttempt(w) \/ SetLease(w) \/ AuthorizeSend(w) \/ InvokeProvider(w)
           \/ ProviderAnswers(w) \/ SetResult(w) \/ LoseFence(w)
           \/ SetLeaseThrows(w) \/ SetResultThrows(w) \/ JobDies(w)
  BY <1>9 DEF ReadAttempt, SetLease, AuthorizeSend, InvokeProvider, ProviderAnswers,
     SetResult, LoseFence, SetLeaseThrows, SetResultThrows, JobDies, ledger
<1>10. QED
  BY <1>1, <1>2, <1>3, <1>4, <1>5, <1>6, <1>7, <1>8, <1>9 DEF JobStep, JobFault

LEMMA StateSteps ==
  ASSUME TypeOK, [Next]_vars PROVE UNCHANGED state \/ StateStep
<1>1. ASSUME NEW w \in Workers, NEW a \in Attempts, ClaimAttempt(w, a)
      PROVE  UNCHANGED state
  BY <1>1 DEF ClaimAttempt
<1>2. ASSUME NEW a \in Attempts, Reserve(a) \/ ReconcileStale(a) \/ Timer(a)
      PROVE  UNCHANGED state \/ StateStep
  BY <1>2 DEF Reserve, ReconcileStale, Timer, ExpirePublishLease, ExpireLease,
     ExpireRedisLease, ExpireMarker, ExpireResult, ExpirePacket, ledger, StateStep,
     Advances, Changed
<1>3. ASSUME NEW p \in Publishers, PublisherStep(p) \/ PublisherDies(p)
      PROVE  UNCHANGED state
  BY <1>3 DEF PublisherStep, ClaimOutbox, PublishNotice, MarkPublished,
     PublisherDies, ledger
<1>4. ASSUME NEW r \in Reconcilers,
             \/ \E a \in Attempts : ListCandidate(r, a)
             \/ ReconcilerStep(r) \/ ReconcilerDies(r)
      PROVE  UNCHANGED state \/ StateStep
  <2>1. recPc[r] # "off" => recAtt[r] \in Attempts
    BY DEF TypeOK, ProcessTypes
  <2>2. CASE RecoverSucceeded(r)
    <3>1. UNCHANGED state \/ Recovers(recAtt[r])
      BY <2>2 DEF RecoverSucceeded, Recovers, Recovering, Changed
    <3>2. QED
      BY <2>1, <2>2, <3>1 DEF RecoverSucceeded, StateStep
  <2>3. CASE MarkUnknown(r)
    <3>1. \/ UNCHANGED state
          \/ /\ <<recSeen[r], "outcome_unknown">> \in AttemptTransitions
             /\ Changed(recAtt[r], recSeen[r], "outcome_unknown")
      BY <2>3 DEF MarkUnknown, transitionAttempt, Applies, Changed
    <3>2. UNCHANGED state \/ Doubts(recAtt[r])
      BY <3>1, TransitionsTo DEF Doubts
    <3>3. QED
      BY <2>1, <2>3, <3>2 DEF MarkUnknown, StateStep
  <2>4. QED
    BY <1>4, <2>2, <2>3 DEF ReconcilerStep, ReconcilerDies, ListCandidate,
       LookForResult, LookForMarker, Renotify, ledger
<1>5. CASE RunMoves \/ Tombstone \/ DeleteBodies \/ UNCHANGED vars
  BY <1>5 DEF RunMoves, Tombstone, DeleteBodies, vars, ledger
<1>6. QED
  BY <1>1, <1>2, <1>3, <1>4, <1>5, JobSteps DEF Next

-----------------------------------------------------------------------------
(* How a job goes on *)

\* A job that goes on keeps its attempt and its token, and comes to a step from
\* the step before it.
Follows(w) ==
  /\ pc[w] # "off" /\ pc'[w] # "read"
  /\ att'[w] = att[w] /\ tok'[w] = tok[w]
  /\ pc'[w] = "authorize" => pc[w] = "mark"
  /\ pc'[w] = "invoke" => pc[w] = "authorize"
  /\ pc'[w] = "waiting" => pc[w] = "invoke"
  /\ pc'[w] \in {"store", "reject"} => pc[w] = "waiting"
  /\ pc'[w] \in {"succeed", "unavailable"} => pc[w] = "store"
  /\ pc'[w] = "unknown" => pc[w] \in {"waiting", "store", "succeed", "unavailable"}

\* What a job knows of its attempt it has read.
Reads(w) ==
  \/ seen'[w] \in {seen[w], "none"}
  \/ pc[w] = "read" /\ seen'[w] = state[att[w]]

Keeps(w) == pc'[w] = pc[w] /\ att'[w] = att[w] /\ tok'[w] = tok[w] /\ seen'[w] = seen[w]

LEMMA GotoFollows ==
  ASSUME TypeOK, NEW w \in Workers, NEW step, Goto(w, step)
  PROVE  /\ \A v \in Workers \ {w} : Keeps(v)
         /\ pc'[w] = step /\ att'[w] = att[w] /\ tok'[w] = tok[w] /\ seen'[w] = seen[w]
  BY DEF TypeOK, ProcessTypes, Goto, Keeps

LEMMA EndJobFollows ==
  ASSUME TypeOK, NEW w \in Workers, EndJob(w)
  PROVE  /\ \A v \in Workers \ {w} : Keeps(v)
         /\ pc'[w] = "off" /\ Reads(w)
  BY DEF TypeOK, ProcessTypes, EndJob, Keeps, Reads

LEMMA JobFollows ==
  ASSUME TypeOK, NEW w \in Workers, JobStep(w) \/ JobFault(w) \/ LoseFence(w)
  PROVE  /\ \A v \in Workers \ {w} : Keeps(v)
         /\ pc'[w] = "off" \/ Follows(w)
         /\ Reads(w)
<1>1. CASE EndJob(w)
  BY <1>1, EndJobFollows
<1>2. ASSUME NEW step, Goto(w, step), pc[w] # "off", step # "read",
             step = "authorize" => pc[w] = "mark",
             step = "invoke" => pc[w] = "authorize",
             step = "waiting" => pc[w] = "invoke",
             step \in {"store", "reject"} => pc[w] = "waiting",
             step \in {"succeed", "unavailable"} => pc[w] = "store",
             step = "unknown" => pc[w] \in {"waiting", "store", "succeed", "unavailable"}
      PROVE  /\ \A v \in Workers \ {w} : Keeps(v)
             /\ Follows(w) /\ Reads(w)
  BY <1>2, GotoFollows DEF Follows, Reads
<1>3. CASE ReadAttempt(w)
  <2>1. CASE packet[att[w]] # "pruned"
    <3>1. PICK next \in {"cancel", "fallback", "lease"} :
            /\ pc[w] = "read" /\ pc' = [pc EXCEPT ![w] = next]
            /\ seen' = [seen EXCEPT ![w] = state[att[w]]]
            /\ UNCHANGED <<att, tok>>
      BY <1>3, <2>1 DEF ReadAttempt
    <3>2. QED
      BY <3>1 DEF TypeOK, ProcessTypes, Keeps, Follows, Reads
  <2>2. QED
    BY <1>1, <1>3, <2>1 DEF ReadAttempt
<1>4. CASE \/ StopCancelled(w) \/ StopFallback(w) \/ StopAmbiguous(w)
           \/ StopNotConfigured(w) \/ StopLost(w) \/ RecordSuccess(w)
           \/ RecordUnavailable(w) \/ RecordRefusal(w) \/ RecordUnknown(w)
           \/ JobDies(w)
  BY <1>1, <1>4 DEF StopCancelled, StopFallback, StopAmbiguous, StopNotConfigured,
     StopLost, RecordSuccess, RecordUnavailable, RecordRefusal, RecordUnknown,
     FinalTransition, JobDies
<1>5. CASE SetLease(w) \/ SetLeaseThrows(w) \/ RecordIntent(w)
  BY <1>1, <1>2, <1>5 DEF SetLease, SetLeaseThrows, RecordIntent
<1>6. CASE AuthorizeSend(w) \/ AuthorizeAttempt(w) \/ InvokeProvider(w)
  BY <1>2, <1>6 DEF AuthorizeSend, AuthorizeAttempt, InvokeProvider
<1>7. CASE ProviderAnswers(w) \/ LoseFence(w)
  BY <1>2, <1>7 DEF ProviderAnswers, LoseFence
<1>8. CASE SetResult(w) \/ SetResultThrows(w) \/ RecordThrows(w)
  BY <1>2, <1>8 DEF SetResult, SetResultThrows, RecordThrows
<1>9. QED
  BY <1>3, <1>4, <1>5, <1>6, <1>7, <1>8 DEF JobStep, JobFault

-----------------------------------------------------------------------------
(* The two stores *)

\* Only an ended run has a tombstone; a job of the newest token that is about to
\* ask for the authorization holds the marker while its lease runs, before the
\* deadline.
Tombed == tombstone => run = "ended"
TokensPositive == \A w \in Workers : pc[w] # "off" => tok[w] # 0
MarkerHeld ==
  \A w \in Workers :
    pc[w] = "authorize" /\ tok[w] = token[att[w]] /\ lease[att[w]] = "live" /\ BeforeDeadline
      => marker[att[w]] = tok[w]

FenceInv ==
  Tombed /\ TokensPositive /\ MarkerHeld /\ FenceAgreement /\ CleanedRunHoldsNothing

\* What a step does to the run.
RunGoes == run' \in {run, Touched} \/ Run!Moves

LEMMA RunGoesOn ==
  ASSUME TypeOK, [Next]_vars PROVE RunGoes
<1> USE DEF RunGoes
<1>1. ASSUME NEW a, NEW from, NEW to, transitionAttempt(a, from, to) PROVE RunGoes
  BY <1>1 DEF transitionAttempt
<1>2. ASSUME NEW w \in Workers, JobStep(w) \/ LoseFence(w) \/ JobFault(w)
      PROVE  RunGoes
  <2>1. CASE \/ StopCancelled(w) \/ StopFallback(w) \/ StopAmbiguous(w)
             \/ StopNotConfigured(w) \/ StopLost(w) \/ RecordSuccess(w)
             \/ RecordUnavailable(w) \/ RecordRefusal(w) \/ RecordUnknown(w)
             \/ RecordIntent(w) \/ RecordThrows(w)
    BY <1>1, <2>1 DEF StopCancelled, StopFallback, StopAmbiguous, StopNotConfigured,
       StopLost, RecordSuccess, RecordUnavailable, RecordRefusal, RecordUnknown,
       FinalTransition, RecordIntent, RecordThrows
  <2>2. CASE \/ ReadAttempt(w) \/ SetLease(w) \/ AuthorizeSend(w) \/ AuthorizeAttempt(w)
             \/ InvokeProvider(w) \/ ProviderAnswers(w) \/ SetResult(w) \/ LoseFence(w)
             \/ SetLeaseThrows(w) \/ SetResultThrows(w) \/ JobDies(w)
    BY <2>2 DEF ReadAttempt, SetLease, AuthorizeSend, AuthorizeAttempt, InvokeProvider,
       ProviderAnswers, SetResult, LoseFence, SetLeaseThrows, SetResultThrows, JobDies
  <2>3. QED
    BY <1>2, <2>1, <2>2 DEF JobStep, JobFault
<1>3. CASE \E r \in Reconcilers : \/ \E a \in Attempts : ListCandidate(r, a)
                                  \/ ReconcilerStep(r) \/ ReconcilerDies(r)
  BY <1>1, <1>3 DEF ListCandidate, ReconcilerStep, ReconcilerDies, LookForResult,
     RecoverSucceeded, LookForMarker, Renotify, MarkUnknown
<1>4. CASE \/ \E a \in Attempts : Reserve(a) \/ ReconcileStale(a) \/ Timer(a)
           \/ \E p \in Publishers : PublisherStep(p) \/ PublisherDies(p)
           \/ \E w \in Workers, a \in Attempts : ClaimAttempt(w, a)
           \/ RunMoves \/ Tombstone \/ DeleteBodies \/ UNCHANGED vars
  BY <1>4 DEF Reserve, ReconcileStale, Timer, ExpirePublishLease, ExpireLease,
     ExpireRedisLease, ExpireMarker, ExpireResult, ExpirePacket, PublisherStep,
     PublisherDies, ClaimOutbox, PublishNotice, MarkPublished, ClaimAttempt,
     RunMoves, Tombstone, Run!Seal, DeleteBodies, vars
<1>5. QED
  BY <1>2, <1>3, <1>4 DEF Next

\* An ended run stays ended, and no run comes back before its deadline.
LEMMA EndedStays ==
  ASSUME TypeOK, [Next]_vars
  PROVE  /\ run = "ended" => run' = "ended"
         /\ BeforeDeadline' => BeforeDeadline
<1>1. RunGoes /\ run \in RunStates
  BY RunGoesOn DEF TypeOK, DatabaseTypes
<1>2. QED
  BY <1>1 DEF RunGoes, Touched, Run!Touched, Run!Moves, BeforeDeadline,
     Run!BeforeDeadline, RunStates, Run!RunStates

\* A step that writes neither a key nor a lease, and takes a marker away only
\* from an attempt that has no live lease of it, or past the deadline.
Fenced ==
  /\ UNCHANGED <<token, tombstone>>
  /\ \A a \in Attempts :
       /\ marker'[a] = marker[a]
          \/ /\ marker'[a] = 0
             /\ ~(BeforeDeadline /\ lease[a] = "live" /\ marker[a] = token[a])
       /\ result'[a] => result[a] \/ ~tombstone
       /\ lease'[a] = "live" => lease[a] = "live"
       /\ state'[a] = "send_authorized" => state[a] = "send_authorized"
  /\ \A w \in Workers :
       pc'[w] = "off" \/ /\ pc[w] # "off" /\ att'[w] = att[w] /\ tok'[w] = tok[w]
                         /\ pc'[w] = "authorize" => pc[w] = "authorize"

LEMMA FencedKeeps ==
  ASSUME TypeOK, FenceInv, Fenced, run = "ended" => run' = "ended",
         BeforeDeadline' => BeforeDeadline
  PROVE  FenceInv'
<1> USE DEF FenceInv
<1>1. Tombed' /\ TokensPositive'
  BY DEF Tombed, TokensPositive, Fenced
<1>2. MarkerHeld'
  <2> SUFFICES ASSUME NEW w \in Workers, pc'[w] = "authorize", tok'[w] = token'[att'[w]],
                      lease'[att'[w]] = "live", BeforeDeadline'
               PROVE  marker'[att'[w]] = tok'[w]
    BY DEF MarkerHeld
  <2>1. /\ pc[w] = "authorize" /\ att'[w] = att[w] /\ tok'[w] = tok[w]
        /\ UNCHANGED <<token, tombstone>> /\ att[w] \in Attempts
    BY Working DEF Fenced
  <2>2. lease[att[w]] = "live"
    BY <2>1 DEF Fenced
  <2>3. marker[att[w]] = tok[w] /\ marker[att[w]] = token[att[w]]
    BY <2>1, <2>2 DEF MarkerHeld
  <2>4. QED
    BY <2>1, <2>2, <2>3 DEF Fenced
<1>3. FenceAgreement'
  BY DEF Fenced, FenceAgreement
<1>4. CleanedRunHoldsNothing'
  BY DEF Fenced, CleanedRunHoldsNothing
<1>5. QED
  BY <1>1, <1>2, <1>3, <1>4

\* Without a new authorization no attempt becomes authorized.
LEMMA NoNewSender ==
  ASSUME TypeOK, SendInv, [Next]_vars, UNCHANGED authorized
  PROVE  \A a \in Attempts : state'[a] = "send_authorized" => state[a] = "send_authorized"
<1>1. ASSUME NEW a \in Attempts PROVE ~Authorizes(a)
  <2> SUFFICES ASSUME Authorizes(a) PROVE FALSE
    OBVIOUS
  <2>1. state[a] = "dispatch_intent" /\ authorized'[a]
    BY DEF Authorizes, Changed, AuthorizeAttempt, CanAuthorize, TypeOK, DatabaseTypes
  <2>2. QED
    BY <2>1 DEF SendInv, SenderIsNewest, Unsent
<1>2. CASE UNCHANGED state
  BY <1>2
<1>3. ASSUME NEW a \in Attempts,
             \/ Advances(a) \/ Closes(a) \/ Doubts(a) \/ Recovers(a)
             \/ \E to \in Outcomes : Records(a, to)
      PROVE  \A b \in Attempts :
               state'[b] = "send_authorized" => state[b] = "send_authorized"
  BY <1>3 DEF Advances, Closes, Doubts, Recovers, Records, Outcomes, Changed,
     TypeOK, DatabaseTypes
<1>4. QED
  BY <1>1, <1>2, <1>3, StateSteps DEF StateStep

\* Every step of a job but the two that authorize is fenced.
LEMMA JobFenced ==
  ASSUME TypeOK, SendInv, [Next]_vars, NEW w \in Workers,
         JobStep(w) \/ JobFault(w) \/ LoseFence(w),
         ~AuthorizeSend(w), ~AuthorizeAttempt(w)
  PROVE  Fenced
<1>1. UNCHANGED <<token, lease, authorized, marker, tombstone>>
  BY DEF JobStep, JobFault, LoseFence, ReadAttempt, StopCancelled, StopFallback, SetLease,
     StopAmbiguous, RecordIntent, StopNotConfigured, StopLost, InvokeProvider,
     ProviderAnswers, SetResult, RecordSuccess, RecordUnavailable, RecordRefusal,
     RecordUnknown, SetLeaseThrows, SetResultThrows, RecordThrows, JobDies,
     FinalTransition, ledger, redis
<1>2. ASSUME NEW a \in Attempts PROVE result'[a] => result[a] \/ ~tombstone
  <2>1. UNCHANGED result \/ ~tombstone
    BY DEF JobStep, JobFault, LoseFence, ReadAttempt, StopCancelled, StopFallback, SetLease,
       StopAmbiguous, RecordIntent, StopNotConfigured, StopLost, InvokeProvider,
       ProviderAnswers, SetResult, RecordSuccess, RecordUnavailable, RecordRefusal,
       RecordUnknown, SetLeaseThrows, SetResultThrows, RecordThrows, JobDies,
       FinalTransition, redis
  <2>2. QED
    BY <2>1
<1>3. \A a \in Attempts : state'[a] = "send_authorized" => state[a] = "send_authorized"
  BY <1>1, NoNewSender
<1>4. pc'[w] # "authorize"
  BY DEF JobStep, JobFault, LoseFence, ReadAttempt, StopCancelled, StopFallback, SetLease,
     StopAmbiguous, RecordIntent, StopNotConfigured, StopLost, InvokeProvider,
     ProviderAnswers, SetResult, RecordSuccess, RecordUnavailable, RecordRefusal,
     RecordUnknown, SetLeaseThrows, SetResultThrows, RecordThrows, JobDies,
     FinalTransition, Goto, EndJob, TypeOK, ProcessTypes
<1>5. ASSUME NEW v \in Workers
      PROVE  pc'[v] = "off" \/ /\ pc[v] # "off" /\ att'[v] = att[v] /\ tok'[v] = tok[v]
                               /\ pc'[v] = "authorize" => pc[v] = "authorize"
  BY <1>4, JobFollows DEF Follows, Keeps
<1>6. QED
  BY <1>1, <1>2, <1>3, <1>5 DEF Fenced

LEMMA OthersFenced ==
  ASSUME TypeOK, SendInv, [Next]_vars,
         \/ \E a \in Attempts : Reserve(a) \/ ReconcileStale(a) \/ Timer(a)
         \/ \E p \in Publishers : PublisherStep(p) \/ PublisherDies(p)
         \/ \E r \in Reconcilers :
              \/ \E a \in Attempts : ListCandidate(r, a)
              \/ ReconcilerStep(r) \/ ReconcilerDies(r)
         \/ RunMoves \/ DeleteBodies \/ UNCHANGED vars
  PROVE  Fenced
<1>1. UNCHANGED <<token, authorized, tombstone, job>>
  BY DEF Reserve, ReconcileStale, Timer, ExpirePublishLease, ExpireLease,
     ExpireRedisLease, ExpireMarker, ExpireResult, ExpirePacket, PublisherStep,
     PublisherDies, ClaimOutbox, PublishNotice, MarkPublished, ListCandidate,
     ReconcilerStep, ReconcilerDies, LookForResult, RecoverSucceeded, LookForMarker,
     Renotify, MarkUnknown, RunMoves, DeleteBodies, vars, ledger, redis
<1>2. \A a \in Attempts : state'[a] = "send_authorized" => state[a] = "send_authorized"
  BY <1>1, NoNewSender
<1>3. ASSUME NEW a \in Attempts
      PROVE  /\ marker'[a] = marker[a]
                \/ /\ marker'[a] = 0
                   /\ ~(BeforeDeadline /\ lease[a] = "live" /\ marker[a] = token[a])
             /\ result'[a] => result[a]
             /\ lease'[a] = "live" => lease[a] = "live"
  <2>1. CASE \E b \in Attempts : ExpireMarker(b) \/ ExpireResult(b) \/ ExpireLease(b)
    BY <2>1 DEF ExpireMarker, ExpireResult, ExpireLease, TypeOK, DatabaseTypes,
       RedisTypes, ledger, redis
  <2>2. CASE ~\E b \in Attempts : ExpireMarker(b) \/ ExpireResult(b) \/ ExpireLease(b)
    <3>1. UNCHANGED <<marker, result, lease>>
      BY <2>2 DEF Reserve, ReconcileStale, Timer, ExpirePublishLease,
         ExpireRedisLease, ExpirePacket, PublisherStep,
         PublisherDies, ClaimOutbox, PublishNotice, MarkPublished, ListCandidate,
         ReconcilerStep, ReconcilerDies, LookForResult, RecoverSucceeded, LookForMarker,
         Renotify, MarkUnknown, RunMoves, DeleteBodies, vars, ledger, redis
    <3>2. QED
      BY <3>1
  <2>3. QED
    BY <2>1, <2>2
<1>4. QED
  BY <1>1, <1>2, <1>3 DEF Fenced, job

LEMMA NextFence == TypeOK /\ SendInv /\ FenceInv /\ [Next]_vars => FenceInv'
<1> SUFFICES ASSUME TypeOK, SendInv, FenceInv, [Next]_vars PROVE FenceInv'
  OBVIOUS
<1>1. \A w \in Workers : pc[w] # "off" => att[w] \in Attempts
  BY Working
<1>2. /\ \A a \in Attempts : token[a] \in Nat
      /\ \A w \in Workers : tok[w] \in Nat
  BY DEF TypeOK, DatabaseTypes, ProcessTypes
<1>3. /\ run = "ended" => run' = "ended"
      /\ BeforeDeadline' => BeforeDeadline
      /\ BeforeDeadline => ~tombstone
  BY EndedStays DEF FenceInv, Tombed, BeforeDeadline, Run!BeforeDeadline
<1>4. Fenced => FenceInv'
  BY <1>3, FencedKeeps
<1>5. ASSUME NEW w \in Workers, NEW a \in Attempts, ClaimAttempt(w, a) PROVE FenceInv'
  <2>1. UNCHANGED <<state, authorized, run, marker, result, tombstone>>
    BY <1>5 DEF ClaimAttempt, redis
  <2>2. CASE UNCHANGED <<token, lease, job>>
    <3>1. Fenced
      BY <2>1, <2>2 DEF Fenced, job
    <3>2. QED
      BY <1>4, <3>1
  <2>3. CASE Claimable(a) /\ ~UNCHANGED <<token, lease, job>>
    <3>1. /\ token' = [token EXCEPT ![a] = @ + 1]
          /\ lease' = [lease EXCEPT ![a] = "live"]
          /\ pc' = [pc EXCEPT ![w] = "read"]
          /\ att' = [att EXCEPT ![w] = a]
          /\ tok' = [tok EXCEPT ![w] = token[a] + 1]
      BY <1>5, <2>3 DEF ClaimAttempt
    <3>2. \A v \in Workers : v # w => /\ pc'[v] = pc[v] /\ att'[v] = att[v]
                                      /\ tok'[v] = tok[v]
      BY <3>1 DEF TypeOK, ProcessTypes
    <3>3. pc'[w] = "read" /\ att'[w] = a /\ tok'[w] = token[a] + 1
      BY <3>1 DEF TypeOK, ProcessTypes
    <3>4. /\ \A b \in Attempts : b # a => token'[b] = token[b] /\ lease'[b] = lease[b]
          /\ token'[a] = token[a] + 1
      BY <3>1 DEF TypeOK, DatabaseTypes
    <3>5. Tombed' /\ TokensPositive'
      BY <1>2, <2>1, <3>2, <3>3 DEF FenceInv, Tombed, TokensPositive
    <3>6. ASSUME NEW v \in Workers, pc'[v] = "authorize", tok'[v] = token'[att'[v]],
                 lease'[att'[v]] = "live", BeforeDeadline'
          PROVE  marker'[att'[v]] = tok'[v]
      <4>1. v # w /\ pc[v] = "authorize" /\ att[v] \in Attempts
        BY <1>1, <3>2, <3>3, <3>6
      <4>2. att[v] # a
        BY <1>2, <3>2, <3>4, <3>6, <4>1 DEF SendInv, TokensDiffer
      <4>3. QED
        BY <1>3, <2>1, <3>2, <3>4, <3>6, <4>1, <4>2 DEF FenceInv, MarkerHeld
    <3>7. MarkerHeld'
      BY <3>6 DEF MarkerHeld
    <3>8. FenceAgreement' /\ CleanedRunHoldsNothing'
      BY <1>3, <2>1, <2>3, <3>4
      DEF FenceInv, FenceAgreement, CleanedRunHoldsNothing, Claimable
    <3>9. QED
      BY <3>5, <3>7, <3>8 DEF FenceInv
  <2>4. QED
    BY <1>5, <2>2, <2>3 DEF ClaimAttempt
<1>6. ASSUME NEW w \in Workers, AuthorizeSend(w) PROVE FenceInv'
  <2>1. /\ UNCHANGED <<state, lease, token, authorized, run, result, tombstone>>
        /\ pc[w] = "mark" /\ att[w] \in Attempts
    BY <1>1, <1>6 DEF AuthorizeSend, ledger
  <2>2. /\ UNCHANGED <<att, tok>>
        /\ \A v \in Workers : v # w => pc'[v] = pc[v]
    BY <1>6 DEF AuthorizeSend, Goto, TypeOK, ProcessTypes
  <2>3. CASE pc'[w] = "lost" /\ UNCHANGED marker
    <3>1. Fenced
      BY <2>1, <2>2, <2>3 DEF Fenced
    <3>2. QED
      BY <1>4, <3>1
  <2>4. CASE /\ ~tombstone /\ marker[att[w]] = 0
             /\ marker' = [marker EXCEPT ![att[w]] = tok[w]]
             /\ pc'[w] = "authorize"
    <3>1. \A a \in Attempts : marker'[a] = IF a = att[w] THEN tok[w] ELSE marker[a]
      BY <2>4 DEF TypeOK, RedisTypes
    <3>2. Tombed' /\ TokensPositive' /\ CleanedRunHoldsNothing'
      BY <2>1, <2>2, <2>4 DEF FenceInv, Tombed, TokensPositive, CleanedRunHoldsNothing
    <3>3. ASSUME NEW v \in Workers, pc'[v] = "authorize", tok[v] = token[att[v]],
                 lease[att[v]] = "live", BeforeDeadline
          PROVE  marker'[att[v]] = tok[v]
      <4>1. CASE v = w
        BY <2>1, <3>1, <4>1
      <4>2. CASE v # w /\ att[v] # att[w]
        BY <1>1, <2>2, <2>4, <3>1, <3>3, <4>2 DEF FenceInv, MarkerHeld
      <4>3. CASE v # w /\ att[v] = att[w]
        <5>1. marker[att[v]] = tok[v] /\ tok[v] # 0
          BY <2>2, <2>4, <3>3, <4>3 DEF FenceInv, MarkerHeld, TokensPositive
        <5>2. QED
          BY <2>4, <4>3, <5>1
      <4>4. QED
        BY <4>1, <4>2, <4>3
    <3>4. MarkerHeld'
      BY <1>3, <2>1, <2>2, <3>3 DEF MarkerHeld
    <3>5. token[att[w]] # 0
      BY <1>2, <2>1 DEF FenceInv, TokensPositive, SendInv, TokensDiffer
    <3>6. FenceAgreement'
      BY <1>3, <2>1, <2>4, <3>1, <3>5 DEF FenceInv, FenceAgreement
    <3>7. QED
      BY <3>2, <3>4, <3>6 DEF FenceInv
  <2>5. QED
    BY <1>6, <2>3, <2>4 DEF AuthorizeSend, Goto, TypeOK, ProcessTypes
<1>7. ASSUME NEW w \in Workers, AuthorizeAttempt(w) PROVE FenceInv'
  <2>1. /\ UNCHANGED <<lease, token, run, marker, result, tombstone>>
        /\ pc[w] = "authorize" /\ att[w] \in Attempts
    BY <1>1, <1>7 DEF AuthorizeAttempt, redis
  <2>2. /\ UNCHANGED <<att, tok>> /\ pc'[w] # "authorize"
        /\ \A v \in Workers : v # w => pc'[v] = pc[v]
    BY <1>7 DEF AuthorizeAttempt, Goto, TypeOK, ProcessTypes
  <2>3. CASE UNCHANGED <<state, authorized>>
    <3>1. \A v \in Workers : pc'[v] = "off" \/ pc[v] # "off"
      BY <2>1, <2>2
    <3>2. Fenced
      BY <2>1, <2>2, <2>3, <3>1 DEF Fenced
    <3>3. QED
      BY <1>4, <3>2
  <2>4. CASE CanAuthorize(w) /\ state' = [state EXCEPT ![att[w]] = "send_authorized"]
    <3>1. BeforeDeadline => marker[att[w]] = token[att[w]]
      BY <2>1, <2>4 DEF CanAuthorize, FenceInv, MarkerHeld
    <3>2. FenceAgreement'
      BY <1>3, <2>1, <2>4, <3>1 DEF FenceInv, FenceAgreement, TypeOK, DatabaseTypes
    <3>3. Tombed' /\ TokensPositive' /\ MarkerHeld' /\ CleanedRunHoldsNothing'
      BY <1>3, <2>1, <2>2
      DEF FenceInv, Tombed, TokensPositive, MarkerHeld, CleanedRunHoldsNothing
    <3>4. QED
      BY <3>2, <3>3 DEF FenceInv
  <2>5. QED
    BY <1>7, <2>3, <2>4 DEF AuthorizeAttempt
<1>8. ASSUME NEW w \in Workers, JobStep(w) \/ LoseFence(w) \/ JobFault(w) PROVE FenceInv'
  BY <1>4, <1>6, <1>7, <1>8, JobFenced
<1>9. CASE Tombstone
  <2>1. /\ tombstone' = TRUE /\ UNCHANGED <<state, lease, token, run, job>>
        /\ run = "ended"
        /\ \A a \in Attempts : marker'[a] = 0 /\ ~result'[a]
    BY <1>9 DEF Tombstone, Run!Seal, ledger
  <2>2. QED
    BY <1>3, <2>1 DEF BeforeDeadline, Run!BeforeDeadline, FenceInv, Tombed, TokensPositive, MarkerHeld, FenceAgreement,
       CleanedRunHoldsNothing, job
<1>10. CASE \/ \E a \in Attempts : Reserve(a) \/ ReconcileStale(a) \/ Timer(a)
            \/ \E p \in Publishers : PublisherStep(p) \/ PublisherDies(p)
            \/ \E r \in Reconcilers :
                 \/ \E a \in Attempts : ListCandidate(r, a)
                 \/ ReconcilerStep(r) \/ ReconcilerDies(r)
            \/ RunMoves \/ DeleteBodies \/ UNCHANGED vars
  BY <1>4, <1>10, OthersFenced
<1>11. QED
  BY <1>5, <1>8, <1>9, <1>10 DEF Next

LEMMA SendInvariant == Spec => []SendInv
<1>1. Init => SendInv
  BY DEF Init, SendInv, TokensDiffer, SenderIsNewest, SendsCounted, Sending
<1>2. QED
  BY <1>1, TypeCorrect, NextSend, PTL DEF Spec

LEMMA FenceInvariant == Spec => []FenceInv
<1>1. Init => FenceInv
  BY DEF Init, FenceInv, Tombed, TokensPositive, MarkerHeld, FenceAgreement,
     CleanedRunHoldsNothing
<1>2. QED
  BY <1>1, TypeCorrect, SendInvariant, NextFence, PTL DEF Spec

\* While the sender's lease runs and the run is before its deadline, the marker in
\* Redis carries the lease token of PostgreSQL (setLease, authorizeSend,
\* claimAttempt, ttl).
THEOREM StoresAgree == Spec => []FenceAgreement
<1>1. FenceInv => FenceAgreement
  BY DEF FenceInv
<1>2. QED
  BY <1>1, FenceInvariant, PTL

\* No marker and no result comes back under a tombstone (childScript,
\* authorizeScript).
THEOREM CleanedStaysEmpty == Spec => []CleanedRunHoldsNothing
<1>1. FenceInv => CleanedRunHoldsNothing
  BY DEF FenceInv
<1>2. QED
  BY <1>1, FenceInvariant, PTL

\* Only authorizeAttempt authorizes, only the request is counted.
LEMMA WhoSends ==
  ASSUME TypeOK, [Next]_vars
  PROVE  \/ UNCHANGED <<authorized, sends>>
         \/ \E w \in Workers : /\ AuthorizeAttempt(w) /\ CanAuthorize(w)
                               /\ authorized' = [authorized EXCEPT ![att[w]] = TRUE]
                               /\ UNCHANGED sends
         \/ \E w \in Workers : InvokeProvider(w) /\ UNCHANGED <<state, authorized>>
<1>1. ASSUME NEW w \in Workers, JobStep(w) \/ LoseFence(w) \/ JobFault(w),
             ~AuthorizeAttempt(w), ~InvokeProvider(w)
      PROVE  UNCHANGED <<authorized, sends>>
  BY <1>1 DEF JobStep, JobFault, LoseFence, ReadAttempt, StopCancelled,
     StopFallback, SetLease, StopAmbiguous, RecordIntent, StopNotConfigured,
     AuthorizeSend, StopLost, ProviderAnswers, SetResult,
     RecordSuccess, RecordUnavailable, RecordRefusal, RecordUnknown,
     SetLeaseThrows, SetResultThrows, RecordThrows, JobDies, FinalTransition, ledger,
     history
<1>2. CASE ~\E w \in Workers : JobStep(w) \/ LoseFence(w) \/ JobFault(w)
  BY <1>2 DEF Next, Reserve, ReconcileStale, Timer, ExpirePublishLease, ExpireLease,
     ExpireRedisLease, ExpireMarker, ExpireResult, ExpirePacket, PublisherStep,
     PublisherDies, ClaimOutbox, PublishNotice, MarkPublished, ListCandidate,
     ReconcilerStep, ReconcilerDies, LookForResult, RecoverSucceeded, LookForMarker,
     Renotify, MarkUnknown, RunMoves, Tombstone, DeleteBodies, ClaimAttempt, vars, ledger,
     history
<1>3. ASSUME NEW w \in Workers, AuthorizeAttempt(w)
      PROVE  \/ UNCHANGED <<authorized, sends>>
             \/ /\ CanAuthorize(w) /\ authorized' = [authorized EXCEPT ![att[w]] = TRUE]
                /\ UNCHANGED sends
  BY <1>3 DEF AuthorizeAttempt, history
<1>4. ASSUME NEW w \in Workers, InvokeProvider(w) PROVE UNCHANGED <<state, authorized>>
  BY <1>4 DEF InvokeProvider, ledger
<1>5. QED
  BY <1>1, <1>2, <1>3, <1>4

\* The authorization is given while the run is live, its keys are not purged
\* and the job's marker is in place (authorizeAttempt).
THEOREM LicensedAlive == Spec => AuthorizedWhileRunLives
<1> DEFINE Alive == \A a \in Attempts :
                      ~authorized[a] /\ authorized'[a]
                        => run = "active" /\ ~tombstone /\ marker[a] = token'[a]
<1>1. ASSUME TypeOK, FenceInv, [Next]_vars PROVE Alive
  <2>1. CASE UNCHANGED authorized
    BY <2>1
  <2>2. ASSUME NEW w \in Workers, AuthorizeAttempt(w), CanAuthorize(w),
               authorized' = [authorized EXCEPT ![att[w]] = TRUE]
        PROVE  Alive
    <3>1. /\ UNCHANGED token /\ pc[w] = "authorize" /\ run = "active"
          /\ lease[att[w]] = "live" /\ tok[w] = token[att[w]]
      BY <2>2 DEF AuthorizeAttempt, CanAuthorize
    <3>2. ~tombstone /\ BeforeDeadline
      BY <1>1, <3>1 DEF FenceInv, Tombed, BeforeDeadline, Run!BeforeDeadline
    <3>3. marker[att[w]] = token'[att[w]]
      BY <1>1, <3>1, <3>2 DEF FenceInv, MarkerHeld
    <3>4. \A a \in Attempts : ~authorized[a] /\ authorized'[a] => a = att[w]
      BY <1>1, <2>2 DEF TypeOK, DatabaseTypes
    <3>5. QED
      BY <3>1, <3>2, <3>3, <3>4
  <2>3. QED
    BY <1>1, <2>1, <2>2, WhoSends
<1>2. TypeOK /\ FenceInv /\ [Next]_vars => [Alive]_vars
  BY <1>1
<1>3. QED
  BY <1>2, TypeCorrect, FenceInvariant, PTL DEF Spec, AuthorizedWhileRunLives

-----------------------------------------------------------------------------
(* What is recorded of the request *)

Undecided == {"invoke", "waiting", "store", "unavailable", "reject"}

\* A job past the request knows that it was made; the step it is at tells what
\* came of it.
SendersTell ==
  \A w \in Workers :
    /\ pc[w] \in Sending \ {"invoke"} => sends[att[w]] = 1
    /\ pc[w] \in Undecided => ~stored[att[w]]
    /\ pc[w] = "reject" => refused[att[w]]
    /\ pc[w] = "succeed" => stored[att[w]]

\* What is found in Redis was stored there, by a job that had sent.
ResultsTell ==
  /\ \A a \in Attempts : stored[a] => sends[a] = 1
  /\ \A a \in Attempts : result[a] => stored[a]
  /\ \A r \in Reconcilers : recPc[r] = "recover" => stored[recAtt[r]]

StatesTell ==
  \A a \in Attempts :
    /\ state[a] = "succeeded" => stored[a]
    /\ state[a] \in {"send_authorized", "succeeded", "result_unavailable"} => authorized[a]

TellInv == SendersTell /\ ResultsTell /\ StatesTell

\* History is not taken back.
LEMMA HistoryStays ==
  ASSUME TypeOK, [Next]_vars, NEW a \in Attempts
  PROVE  /\ authorized[a] => authorized'[a]
         /\ stored[a] => stored'[a]
         /\ refused[a] => refused'[a]
<1>1. CASE UNCHANGED <<authorized, stored, refused>>
  BY <1>1
<1>2. ASSUME NEW w \in Workers, AuthorizeAttempt(w)
      PROVE  (authorized[a] => authorized'[a]) /\ UNCHANGED <<stored, refused>>
  BY <1>2 DEF AuthorizeAttempt, TypeOK, DatabaseTypes, history
<1>3. ASSUME NEW w \in Workers, ProviderAnswers(w)
      PROVE  (refused[a] => refused'[a]) /\ UNCHANGED <<authorized, stored>>
  BY <1>3 DEF ProviderAnswers, TypeOK, HistoryTypes, ledger
<1>4. ASSUME NEW w \in Workers, SetResult(w) \/ SetResultThrows(w)
      PROVE  (stored[a] => stored'[a]) /\ UNCHANGED <<authorized, refused>>
  BY <1>4 DEF SetResult, SetResultThrows, TypeOK, HistoryTypes, ledger
<1>5. CASE ~\E w \in Workers : \/ AuthorizeAttempt(w) \/ ProviderAnswers(w)
                               \/ SetResult(w) \/ SetResultThrows(w)
  <2>1. ASSUME NEW w \in Workers, JobStep(w) \/ LoseFence(w) \/ JobFault(w)
        PROVE  UNCHANGED <<authorized, stored, refused>>
    BY <1>5, <2>1 DEF JobStep, JobFault, LoseFence, ReadAttempt, StopCancelled,
       StopFallback, SetLease, StopAmbiguous, RecordIntent, StopNotConfigured,
       AuthorizeSend, StopLost, InvokeProvider, RecordSuccess, RecordUnavailable,
       RecordRefusal, RecordUnknown, SetLeaseThrows, RecordThrows, JobDies,
       FinalTransition, ledger, history
  <2>2. CASE ~\E w \in Workers : JobStep(w) \/ LoseFence(w) \/ JobFault(w)
    BY <2>2 DEF Next, Reserve, ReconcileStale, Timer, ExpirePublishLease,
       ExpireLease, ExpireRedisLease, ExpireMarker, ExpireResult, ExpirePacket,
       PublisherStep, PublisherDies, ClaimOutbox, PublishNotice, MarkPublished,
       ListCandidate, ReconcilerStep, ReconcilerDies, LookForResult, RecoverSucceeded,
       LookForMarker, Renotify, MarkUnknown, RunMoves, Tombstone, DeleteBodies,
       ClaimAttempt, vars, ledger, history
  <2>3. QED
    BY <1>1, <2>1, <2>2
<1>6. QED
  BY <1>1, <1>2, <1>3, <1>4, <1>5

LEMMA StatesKeep ==
  ASSUME TypeOK, SendInv, TellInv, [Next]_vars PROVE StatesTell'
<1>1. CASE UNCHANGED state
  BY <1>1, HistoryStays DEF TellInv, StatesTell
<1>2. ASSUME NEW a \in Attempts, NEW to, \E from : Changed(a, from, to),
             to = "succeeded" => stored[a],
             to \in {"send_authorized", "succeeded", "result_unavailable"} => authorized'[a]
      PROVE  StatesTell'
  <2>1. \A b \in Attempts : state'[b] = IF b = a THEN to ELSE state[b]
    BY <1>2 DEF Changed, TypeOK, DatabaseTypes
  <2>2. QED
    BY <1>2, <2>1, HistoryStays DEF TellInv, StatesTell
<1>3. ASSUME NEW a \in Attempts, Advances(a) \/ Closes(a) \/ Doubts(a) PROVE StatesTell'
  BY <1>2, <1>3 DEF Advances, Closes, Doubts
<1>4. ASSUME NEW a \in Attempts, Authorizes(a) PROVE StatesTell'
  <2>1. authorized'[a] /\ Changed(a, "dispatch_intent", "send_authorized")
    BY <1>4 DEF Authorizes, AuthorizeAttempt, CanAuthorize, TypeOK, DatabaseTypes
  <2>2. QED
    BY <1>2, <2>1
<1>5. ASSUME NEW a \in Attempts, Recovers(a) PROVE StatesTell'
  <2>1. stored[a] /\ \E from : Changed(a, from, "succeeded")
    BY <1>5 DEF Recovers, Recovering, TellInv, ResultsTell
  <2>2. sends[a] = 1
    BY <2>1 DEF TellInv, ResultsTell
  <2>3. authorized[a]
    BY <2>2 DEF SendInv, SendsCounted
  <2>4. QED
    BY <1>2, <2>1, <2>3, HistoryStays
<1>6. ASSUME NEW a \in Attempts, NEW to \in Outcomes, Records(a, to) PROVE StatesTell'
  <2>1. Changed(a, "send_authorized", to) /\ state[a] = "send_authorized"
    BY <1>6 DEF Records, Changed
  <2>2. authorized'[a]
    BY <2>1, HistoryStays DEF TellInv, StatesTell
  <2>3. to = "succeeded" => stored[a]
    BY <1>6 DEF Records, Recorder, TellInv, SendersTell
  <2>4. QED
    BY <1>2, <2>1, <2>2, <2>3
<1>7. QED
  BY <1>1, <1>3, <1>4, <1>5, <1>6, StateSteps DEF StateStep

\* A step that makes no request, hears no answer and stores no result.
Calm ==
  /\ UNCHANGED <<sends, stored, refused>>
  /\ \A a \in Attempts : result'[a] => result[a]
  /\ \A r \in Reconcilers :
       recPc'[r] = "recover" =>
         /\ recAtt'[r] \in Attempts
         /\ (recPc[r] = "recover" /\ recAtt'[r] = recAtt[r]) \/ result[recAtt'[r]]
  /\ \A w \in Workers :
       pc'[w] \in Sending =>
         /\ att'[w] = att[w]
         /\ \/ pc'[w] = pc[w]
            \/ pc'[w] = "unknown" /\ pc[w] \in Sending \ {"invoke"}
            \/ pc'[w] = "unavailable" /\ pc[w] = "store"

LEMMA CalmKeeps ==
  ASSUME TellInv, Calm PROVE SendersTell' /\ ResultsTell'
<1>1. ResultsTell'
  BY DEF TellInv, ResultsTell, Calm
<1>2. ASSUME NEW w \in Workers
      PROVE  /\ pc'[w] \in Sending \ {"invoke"} => sends'[att'[w]] = 1
             /\ pc'[w] \in Undecided => ~stored'[att'[w]]
             /\ pc'[w] = "reject" => refused'[att'[w]]
             /\ pc'[w] = "succeed" => stored'[att'[w]]
  BY DEF TellInv, SendersTell, Calm, Sending, Undecided
<1>3. QED
  BY <1>1, <1>2 DEF SendersTell

\* At most one job is past the authorization of an attempt.
LEMMA OneSender ==
  ASSUME SendInv, NEW v \in Workers, NEW w \in Workers, v # w,
         pc[v] \in Sending, pc[w] \in Sending
  PROVE  att[v] # att[w]
  BY DEF SendInv, TokensDiffer, SenderIsNewest, Sending

LEMMA OthersCalm ==
  ASSUME TypeOK, [Next]_vars, ~\E w \in Workers : JobStep(w) \/ JobFault(w) \/ LoseFence(w)
  PROVE  Calm
<1>1. UNCHANGED <<sends, stored, refused>>
  BY DEF Next, Reserve, ReconcileStale, Timer, ExpirePublishLease,
     ExpireLease, ExpireRedisLease, ExpireMarker, ExpireResult, ExpirePacket,
     PublisherStep, PublisherDies, ClaimOutbox, PublishNotice, MarkPublished,
     ListCandidate, ReconcilerStep, ReconcilerDies, LookForResult, RecoverSucceeded,
     LookForMarker, Renotify, MarkUnknown, RunMoves, Tombstone, DeleteBodies,
     ClaimAttempt, vars, history
<1>2. ASSUME NEW a \in Attempts PROVE result'[a] => result[a]
  <2>1. UNCHANGED result \/ Tombstone \/ \E b \in Attempts : ExpireResult(b)
    BY DEF Next, Reserve, ReconcileStale, Timer, ExpirePublishLease,
       ExpireLease, ExpireRedisLease, ExpireMarker, ExpirePacket,
       PublisherStep, PublisherDies, ClaimOutbox, PublishNotice, MarkPublished,
       ListCandidate, ReconcilerStep, ReconcilerDies, LookForResult, RecoverSucceeded,
       LookForMarker, Renotify, MarkUnknown, RunMoves, DeleteBodies,
       ClaimAttempt, vars, redis
  <2>2. QED
    BY <2>1 DEF Tombstone, ExpireResult, TypeOK, RedisTypes
<1>3. ASSUME NEW r \in Reconcilers, recPc'[r] = "recover"
      PROVE  /\ recAtt'[r] \in Attempts
             /\ (recPc[r] = "recover" /\ recAtt'[r] = recAtt[r]) \/ result[recAtt'[r]]
  <2>1. recPc[r] # "off" => recAtt[r] \in Attempts
    BY DEF TypeOK, ProcessTypes
  <2>2. CASE UNCHANGED rec
    BY <1>3, <2>1, <2>2 DEF rec
  <2>3. ASSUME NEW q \in Reconcilers,
               \/ \E a \in Attempts : ListCandidate(q, a)
               \/ ReconcilerStep(q) \/ ReconcilerDies(q)
        PROVE  /\ recAtt'[r] \in Attempts
               /\ (recPc[r] = "recover" /\ recAtt'[r] = recAtt[r]) \/ result[recAtt'[r]]
    <3>1. CASE LookForResult(q)
      <4>1. /\ recPc' = [recPc EXCEPT ![q] =
                           IF result[recAtt[q]] THEN "recover" ELSE "marker"]
            /\ recPc[q] = "result" /\ UNCHANGED recAtt
        BY <3>1 DEF LookForResult, RecGoto
      <4>2. QED
        BY <1>3, <2>1, <4>1 DEF TypeOK, ProcessTypes
    <3>2. CASE ~LookForResult(q)
      <4>1. /\ \A p \in Reconcilers \ {q} : recPc'[p] = recPc[p] /\ recAtt'[p] = recAtt[p]
            /\ recPc'[q] # "recover"
        <5>1. ASSUME NEW a \in Attempts, ListCandidate(q, a)
              PROVE  /\ \A p \in Reconcilers \ {q} :
                          recPc'[p] = recPc[p] /\ recAtt'[p] = recAtt[p]
                     /\ recPc'[q] # "recover"
          BY <5>1 DEF ListCandidate, TypeOK, ProcessTypes
        <5>2. RecDone(q)
                => /\ \A p \in Reconcilers \ {q} :
                        recPc'[p] = recPc[p] /\ recAtt'[p] = recAtt[p]
                   /\ recPc'[q] # "recover"
          BY DEF RecDone, TypeOK, ProcessTypes
        <5>3. CASE LookForMarker(q)
          <6>1. RecDone(q) \/ RecGoto(q, "notify") \/ RecGoto(q, "unknown")
            BY <5>3 DEF LookForMarker
          <6>2. QED
            BY <5>2, <6>1 DEF RecGoto, TypeOK, ProcessTypes
        <5>4. CASE RecoverSucceeded(q) \/ Renotify(q) \/ MarkUnknown(q) \/ ReconcilerDies(q)
          BY <5>2, <5>4 DEF RecoverSucceeded, Renotify, MarkUnknown, ReconcilerDies
        <5>5. QED
          BY <2>3, <3>2, <5>1, <5>3, <5>4 DEF ReconcilerStep
      <4>2. QED
        BY <1>3, <2>1, <4>1
    <3>3. QED
      BY <3>1, <3>2
  <2>4. CASE ~\E q \in Reconcilers : \/ \E a \in Attempts : ListCandidate(q, a)
                                     \/ ReconcilerStep(q) \/ ReconcilerDies(q)
    <3>1. UNCHANGED rec
      BY <2>4 DEF Next, Reserve, ReconcileStale, Timer, ExpirePublishLease,
         ExpireLease, ExpireRedisLease, ExpireMarker, ExpireResult, ExpirePacket,
         PublisherStep, PublisherDies, ClaimOutbox, PublishNotice, MarkPublished,
         RunMoves, Tombstone, DeleteBodies, ClaimAttempt, vars
    <3>2. QED
      BY <2>2, <3>1
  <2>5. QED
    BY <2>3, <2>4
<1>4. ASSUME NEW w \in Workers, pc'[w] \in Sending PROVE att'[w] = att[w] /\ pc'[w] = pc[w]
  <2>1. CASE UNCHANGED job
    BY <2>1 DEF job
  <2>2. ASSUME NEW v \in Workers, NEW a \in Attempts, ClaimAttempt(v, a)
        PROVE  att'[w] = att[w] /\ pc'[w] = pc[w]
    BY <1>4, <2>1, <2>2 DEF ClaimAttempt, TypeOK, ProcessTypes, Sending
  <2>3. CASE ~\E v \in Workers, a \in Attempts : ClaimAttempt(v, a)
    <3>1. UNCHANGED job
      BY <2>3 DEF Next, Reserve, ReconcileStale, Timer, ExpirePublishLease,
         ExpireLease, ExpireRedisLease, ExpireMarker, ExpireResult, ExpirePacket,
         PublisherStep, PublisherDies, ClaimOutbox, PublishNotice, MarkPublished,
         ListCandidate, ReconcilerStep, ReconcilerDies, LookForResult, RecoverSucceeded,
         LookForMarker, Renotify, MarkUnknown, RunMoves, Tombstone, DeleteBodies, vars
    <3>2. QED
      BY <2>1, <3>1
  <2>4. QED
    BY <2>2, <2>3
<1>5. QED
  BY <1>1, <1>2, <1>3, <1>4 DEF Calm

\* A job stores the result of its attempt.
Stores(w) ==
  /\ pc[w] = "store" /\ pc'[w] \in {"succeed", "unknown"}
  /\ stored' = [stored EXCEPT ![att[w]] = TRUE]
  /\ result' = [result EXCEPT ![att[w]] = TRUE]
  /\ UNCHANGED <<sends, refused, rec>>

LEMMA JobCalm ==
  ASSUME TypeOK, NEW w \in Workers, JobStep(w) \/ JobFault(w) \/ LoseFence(w)
  PROVE  \/ AuthorizeAttempt(w) \/ InvokeProvider(w) \/ ProviderAnswers(w)
         \/ Stores(w) \/ Calm
<1> SUFFICES ASSUME ~AuthorizeAttempt(w), ~InvokeProvider(w), ~ProviderAnswers(w)
             PROVE  Stores(w) \/ Calm
  OBVIOUS
<1>1. UNCHANGED <<sends, refused, rec>>
  BY DEF JobStep, JobFault, LoseFence, ReadAttempt, StopCancelled, StopFallback, SetLease,
     StopAmbiguous, RecordIntent, StopNotConfigured, AuthorizeSend, StopLost,
     SetResult, RecordSuccess, RecordUnavailable, RecordRefusal,
     RecordUnknown, SetLeaseThrows, SetResultThrows, RecordThrows, JobDies,
     FinalTransition, history
<1>2. CASE /\ SetResult(w) \/ SetResultThrows(w)
           /\ stored' = [stored EXCEPT ![att[w]] = TRUE]
           /\ result' = [result EXCEPT ![att[w]] = TRUE]
           /\ Goto(w, "succeed") \/ Goto(w, "unknown")
  BY <1>1, <1>2, GotoFollows DEF Stores, SetResult, SetResultThrows
<1>3. ASSUME UNCHANGED <<stored, result>>,
             pc'[w] \in {"off", "unknown", "unavailable"} \cup BeforeSend,
             pc'[w] = "unavailable" => pc[w] = "store"
      PROVE  Calm
  <2>1. ASSUME NEW v \in Workers, pc'[v] \in Sending
        PROVE  /\ att'[v] = att[v]
               /\ \/ pc'[v] = pc[v]
                  \/ pc'[v] = "unknown" /\ pc[v] \in Sending \ {"invoke"}
                  \/ pc'[v] = "unavailable" /\ pc[v] = "store"
    BY <1>3, <2>1, JobFollows DEF Keeps, Follows, Sending, BeforeSend
  <2>2. \A r \in Reconcilers : recPc[r] = "recover" => recAtt[r] \in Attempts
    BY DEF TypeOK, ProcessTypes
  <2>3. QED
    BY <1>1, <1>3, <2>1, <2>2 DEF Calm, rec
<1>4. CASE SetResult(w) \/ SetResultThrows(w)
  <2>1. CASE UNCHANGED <<stored, result>> /\ (Goto(w, "unavailable") \/ Goto(w, "unknown"))
    BY <1>3, <1>4, <2>1, GotoFollows DEF SetResult, SetResultThrows
  <2>2. QED
    BY <1>2, <1>4, <2>1 DEF SetResult, SetResultThrows
<1>5. CASE ~SetResult(w) /\ ~SetResultThrows(w)
  <2>1. UNCHANGED <<stored, result>>
    BY <1>5 DEF JobStep, JobFault, LoseFence, ReadAttempt, StopCancelled, StopFallback,
       SetLease, StopAmbiguous, RecordIntent, StopNotConfigured, AuthorizeSend, StopLost,
       RecordSuccess, RecordUnavailable, RecordRefusal, RecordUnknown, SetLeaseThrows,
       RecordThrows, JobDies, FinalTransition, history, redis
  <2>2. pc'[w] \in {"off", "unknown"} \cup BeforeSend
    BY <1>5 DEF JobStep, JobFault, LoseFence, ReadAttempt, StopCancelled, StopFallback,
       SetLease, StopAmbiguous, RecordIntent, StopNotConfigured, AuthorizeSend, StopLost,
       RecordSuccess, RecordUnavailable, RecordRefusal, RecordUnknown, SetLeaseThrows,
       RecordThrows, JobDies, FinalTransition, Goto, EndJob, BeforeSend, TypeOK,
       ProcessTypes
  <2>3. QED
    BY <1>3, <2>1, <2>2 DEF BeforeSend
<1>6. QED
  BY <1>4, <1>5

LEMMA NextTell == TypeOK /\ SendInv /\ TellInv /\ [Next]_vars => TellInv'
<1> SUFFICES ASSUME TypeOK, SendInv, TellInv, [Next]_vars PROVE TellInv'
  OBVIOUS
<1>1. \A w \in Workers : pc[w] # "off" => att[w] \in Attempts
  BY Working
<1>2. StatesTell'
  BY StatesKeep
<1>3. Calm => TellInv'
  BY <1>2, CalmKeeps DEF TellInv
<1>4. \A r \in Reconcilers : recPc[r] = "recover" => recAtt[r] \in Attempts
  BY DEF TypeOK, ProcessTypes
<1>5. ASSUME NEW w \in Workers, AuthorizeAttempt(w) PROVE TellInv'
  <2>1. /\ UNCHANGED <<sends, stored, refused, result, rec, att>> /\ pc[w] = "authorize"
        /\ \A v \in Workers : v # w => pc'[v] = pc[v]
    BY <1>5 DEF AuthorizeAttempt, Goto, history, redis, TypeOK, ProcessTypes
  <2>2. ResultsTell'
    BY <2>1 DEF TellInv, ResultsTell, rec
  <2>3. CASE pc'[w] = "lost"
    BY <1>2, <2>1, <2>2, <2>3 DEF TellInv, SendersTell, Sending, Undecided
  <2>4. CASE CanAuthorize(w) /\ pc'[w] = "invoke"
    <3>1. ~authorized[att[w]]
      BY <1>1, <2>1, <2>4 DEF CanAuthorize, SendInv, SenderIsNewest, Unsent
    <3>2. ~stored[att[w]]
      BY <1>1, <2>1, <3>1 DEF SendInv, SendsCounted, TellInv, ResultsTell
    <3>3. SendersTell'
      BY <2>1, <2>4, <3>2 DEF TellInv, SendersTell, Undecided, Sending
    <3>4. QED
      BY <1>2, <2>2, <3>3 DEF TellInv
  <2>5. QED
    BY <1>5, <2>3, <2>4 DEF AuthorizeAttempt, Goto, TypeOK, ProcessTypes
<1>6. ASSUME NEW w \in Workers, InvokeProvider(w) PROVE TellInv'
  <2>1. /\ UNCHANGED <<stored, refused, result, rec, att>>
        /\ pc[w] = "invoke" /\ pc'[w] = "waiting" /\ att[w] \in Attempts
        /\ \A v \in Workers : v # w => pc'[v] = pc[v]
    BY <1>1, <1>6 DEF InvokeProvider, Goto, redis, TypeOK, ProcessTypes
  <2>2. sends[att[w]] = 0
    BY <2>1 DEF SendInv, SendsCounted
  <2>3. \A a \in Attempts : sends'[a] = IF a = att[w] THEN 1 ELSE sends[a]
    BY <1>6, <2>1, <2>2 DEF InvokeProvider, TypeOK, HistoryTypes
  <2>4. ResultsTell'
    BY <2>1, <2>3 DEF TellInv, ResultsTell, rec
  <2>5. SendersTell'
    BY <1>1, <2>1, <2>3 DEF TellInv, SendersTell, Undecided, Sending
  <2>6. QED
    BY <1>2, <2>4, <2>5 DEF TellInv
<1>7. ASSUME NEW w \in Workers, ProviderAnswers(w) PROVE TellInv'
  <2>1. /\ UNCHANGED <<sends, stored, result, rec, att>>
        /\ pc[w] = "waiting" /\ att[w] \in Attempts
        /\ pc'[w] \in {"store", "reject", "unknown"}
        /\ \A v \in Workers : v # w => pc'[v] = pc[v]
    BY <1>1, <1>7 DEF ProviderAnswers, Goto, redis, TypeOK, ProcessTypes
  <2>2. pc'[w] = "reject" => refused'[att[w]]
    BY <1>7, <2>1 DEF ProviderAnswers, Goto, TypeOK, HistoryTypes, ProcessTypes
  <2>3. \A a \in Attempts : refused[a] => refused'[a]
    BY HistoryStays
  <2>4. ResultsTell'
    BY <2>1 DEF TellInv, ResultsTell, rec
  <2>5. SendersTell'
    BY <1>1, <2>1, <2>2, <2>3 DEF TellInv, SendersTell, Undecided, Sending
  <2>6. QED
    BY <1>2, <2>4, <2>5 DEF TellInv
<1>8. ASSUME NEW w \in Workers, Stores(w), JobStep(w) \/ JobFault(w) \/ LoseFence(w)
      PROVE  TellInv'
  <2>1. /\ UNCHANGED <<sends, refused, rec>>
        /\ pc[w] = "store" /\ att[w] \in Attempts
        /\ pc'[w] \in {"succeed", "unknown"} /\ att'[w] = att[w]
        /\ \A v \in Workers : v # w => pc'[v] = pc[v] /\ att'[v] = att[v]
    BY <1>1, <1>8, JobFollows DEF Stores, Keeps, Follows
  <2>2. \A a \in Attempts : /\ stored'[a] = IF a = att[w] THEN TRUE ELSE stored[a]
                            /\ result'[a] = IF a = att[w] THEN TRUE ELSE result[a]
    BY <1>8 DEF Stores, TypeOK, HistoryTypes, RedisTypes
  <2>3. sends[att[w]] = 1
    BY <2>1 DEF TellInv, SendersTell, Sending
  <2>4. ResultsTell'
    BY <1>4, <2>1, <2>2, <2>3 DEF TellInv, ResultsTell, rec
  <2>5. \A v \in Workers : v # w /\ pc[v] \in Sending => att[v] # att[w]
    BY <2>1, OneSender DEF Sending
  <2>6. ASSUME NEW v \in Workers
        PROVE  /\ pc'[v] \in Sending \ {"invoke"} => sends'[att'[v]] = 1
               /\ pc'[v] \in Undecided => ~stored'[att'[v]]
               /\ pc'[v] = "reject" => refused'[att'[v]]
               /\ pc'[v] = "succeed" => stored'[att'[v]]
    <3>1. CASE v = w
      BY <2>1, <2>2, <2>3, <3>1 DEF Undecided
    <3>2. CASE v # w /\ pc[v] \in Sending
      <4>1. /\ pc'[v] = pc[v] /\ att'[v] = att[v] /\ att[v] \in Attempts
            /\ stored'[att[v]] = stored[att[v]]
        BY <1>1, <2>1, <2>2, <2>5, <3>2 DEF Sending
      <4>2. QED
        BY <2>1, <4>1 DEF TellInv, SendersTell
    <3>3. CASE v # w /\ pc[v] \notin Sending
      BY <2>1, <3>3 DEF Sending, Undecided
    <3>4. QED
      BY <3>1, <3>2, <3>3
  <2>7. QED
    BY <1>2, <2>4, <2>6 DEF TellInv, SendersTell
<1>9. QED
  BY <1>3, <1>5, <1>6, <1>7, <1>8, JobCalm, OthersCalm

LEMMA TellInvariant == Spec => []TellInv
<1>1. Init => TellInv
  BY DEF Init, TellInv, SendersTell, ResultsTell, StatesTell, Sending, Undecided
<1>2. QED
  BY <1>1, TypeCorrect, SendInvariant, NextTell, PTL DEF Spec

\* What the ledger has settled stays settled, whatever stale jobs and snapshots
\* are about; only doubt may turn into a stored result (ATTEMPT_TRANSITIONS,
\* recoverSucceeded).
THEOREM SettledStaysSettled == Spec => SettledIsFinal
<1> DEFINE Final == \A a \in Attempts :
                      state[a] \notin InFlight \cup {"none"}
                        => \/ state'[a] = state[a]
                           \/ /\ state[a] = "outcome_unknown"
                              /\ state'[a] = "succeeded"
                              /\ stored[a]
<1>1. ASSUME TypeOK, TellInv, [Next]_vars PROVE Final
  <2>1. CASE UNCHANGED state
    BY <2>1
  <2>2. ASSUME NEW a \in Attempts, NEW from, NEW to, Changed(a, from, to),
               \/ from \in InFlight \cup {"none"}
               \/ from = "outcome_unknown" /\ to = "succeeded" /\ stored[a]
        PROVE  Final
    BY <1>1, <2>2 DEF Changed, TypeOK, DatabaseTypes
  <2>3. ASSUME NEW a \in Attempts, Recovers(a) PROVE Final
    <3>1. stored[a]
      BY <1>1, <2>3 DEF Recovers, Recovering, TellInv, ResultsTell
    <3>2. QED
      BY <2>2, <2>3, <3>1 DEF Recovers, InFlight
  <2>4. ASSUME NEW a \in Attempts,
               \/ Advances(a) \/ Closes(a) \/ Doubts(a) \/ Authorizes(a)
               \/ \E to \in Outcomes : Records(a, to)
        PROVE  Final
    BY <2>2, <2>4 DEF Advances, Closes, Doubts, Authorizes, Records, InFlight
  <2>5. QED
    BY <1>1, <2>1, <2>3, <2>4, StateSteps DEF StateStep
<1>2. TypeOK /\ TellInv /\ [Next]_vars => [Final]_vars
  BY <1>1
<1>3. QED
  BY <1>2, TypeCorrect, TellInvariant, PTL DEF Spec, SettledIsFinal

-----------------------------------------------------------------------------
(* The outcome of an attempt, when claimed attempts are read within the lease *)

\* A job that is about to read its attempt still has the lease it has claimed.
ReadersPrompt ==
  \A w \in Workers :
    pc[w] = "read" => /\ lease[att[w]] = "live" /\ tok[w] = token[att[w]]
                      /\ ~authorized[att[w]]

\* So no job has ever read an authorized attempt.
SeenUnsent == \A w \in Workers : seen[w] # "send_authorized"

\* While a sender has not told its outcome nobody else has; a stored result is
\* recorded, in doubt, or about to be recorded.
SendersOpen ==
  \A w \in Workers :
    pc[w] \in Undecided => state[att[w]] \in {"send_authorized", "outcome_unknown"}
StoredOpen ==
  \A a \in Attempts :
    stored[a] => state[a] \in {"send_authorized", "outcome_unknown", "succeeded"}

PromptInv ==
  ReadersPrompt /\ SeenUnsent /\ SendersOpen /\ StoredOpen /\ FallbackNeedsRefusal

CoreInv == TypeOK /\ SendInv /\ TellInv

LEMMA ReadersKeep ==
  ASSUME PromptRead, CoreInv, PromptInv, [Next]_vars PROVE ReadersPrompt'
<1> USE DEF CoreInv, PromptInv
<1>1. CASE /\ UNCHANGED <<lease, token, authorized>>
           /\ \A w \in Workers : pc'[w] = "read" => Keeps(w) /\ pc[w] = "read"
  BY <1>1 DEF ReadersPrompt, Keeps
<1>2. ASSUME NEW w \in Workers, NEW a \in Attempts, ClaimAttempt(w, a)
      PROVE  ReadersPrompt'
  <2>1. CASE UNCHANGED <<owner, token, lease, job>>
    BY <1>1, <1>2, <2>1 DEF ClaimAttempt, job, Keeps
  <2>2. CASE /\ Claimable(a)
             /\ token' = [token EXCEPT ![a] = @ + 1]
             /\ lease' = [lease EXCEPT ![a] = "live"]
             /\ pc' = [pc EXCEPT ![w] = "read"]
             /\ att' = [att EXCEPT ![w] = a]
             /\ tok' = [tok EXCEPT ![w] = token[a] + 1]
    <3>1. UNCHANGED authorized /\ ~authorized[a]
      BY <1>2, <2>2 DEF ClaimAttempt, Claimable, SendInv, SenderIsNewest, Unsent
    <3>2. /\ \A v \in Workers : v # w => /\ pc'[v] = pc[v] /\ att'[v] = att[v]
                                         /\ tok'[v] = tok[v]
          /\ att'[w] = a /\ tok'[w] = token[a] + 1
      BY <2>2 DEF TypeOK, ProcessTypes
    <3>3. /\ \A b \in Attempts : b # a => token'[b] = token[b] /\ lease'[b] = lease[b]
          /\ token'[a] = token[a] + 1 /\ lease'[a] = "live"
      BY <2>2 DEF TypeOK, DatabaseTypes
    <3>4. ASSUME NEW v \in Workers, v # w, pc[v] = "read" PROVE att[v] # a
      BY <2>2, <3>4 DEF ReadersPrompt, Claimable
    <3>5. \A v \in Workers : pc[v] = "read" => att[v] \in Attempts
      BY Working
    <3>6. QED
      BY <3>1, <3>2, <3>3, <3>4, <3>5 DEF ReadersPrompt
  <2>3. QED
    BY <1>2, <2>1, <2>2 DEF ClaimAttempt
<1>3. ASSUME NEW w \in Workers, JobStep(w) \/ LoseFence(w) \/ JobFault(w)
      PROVE  ReadersPrompt'
  <2>1. \A v \in Workers : pc'[v] = "read" => v # w /\ Keeps(v) /\ pc[v] = "read"
    BY <1>3, JobFollows DEF Keeps, Follows
  <2>2. CASE ~AuthorizeAttempt(w)
    <3>1. UNCHANGED <<lease, token, authorized>>
      BY <1>3, <2>2 DEF JobStep, JobFault, LoseFence, ReadAttempt, StopCancelled,
         StopFallback, SetLease, StopAmbiguous, RecordIntent, StopNotConfigured,
         AuthorizeSend, StopLost, InvokeProvider, ProviderAnswers, SetResult,
         RecordSuccess, RecordUnavailable, RecordRefusal, RecordUnknown,
         SetLeaseThrows, SetResultThrows, RecordThrows, JobDies, FinalTransition, ledger
    <3>2. QED
      BY <1>1, <2>1, <3>1
  <2>3. CASE AuthorizeAttempt(w)
    <3>1. UNCHANGED <<lease, token>> /\ pc[w] = "authorize" /\ att[w] \in Attempts
      BY <2>3, Working DEF AuthorizeAttempt
    <3>2. CASE UNCHANGED authorized
      BY <1>1, <2>1, <3>1, <3>2
    <3>3. CASE CanAuthorize(w) /\ authorized' = [authorized EXCEPT ![att[w]] = TRUE]
      <4>1. ASSUME NEW v \in Workers, v # w, pc[v] = "read" PROVE att[v] # att[w]
        BY <3>1, <3>3, <4>1 DEF CanAuthorize, ReadersPrompt, SendInv, TokensDiffer
      <4>2. \A b \in Attempts : b # att[w] => authorized'[b] = authorized[b]
        BY <3>3 DEF TypeOK, DatabaseTypes
      <4>3. \A v \in Workers : pc[v] = "read" => att[v] \in Attempts
        BY Working
      <4>4. QED
        BY <2>1, <3>1, <4>1, <4>2, <4>3 DEF ReadersPrompt, Keeps
    <3>4. QED
      BY <2>3, <3>2, <3>3 DEF AuthorizeAttempt
  <2>4. QED
    BY <2>2, <2>3
<1>4. ASSUME NEW a \in Attempts, ExpireLease(a) PROVE ReadersPrompt'
  <2>1. /\ lease' = [lease EXCEPT ![a] = "expired"]
        /\ UNCHANGED <<token, authorized, job>>
        /\ \A w \in Workers : att[w] = a /\ tok[w] = token[a] => pc[w] # "read"
    BY <1>4 DEF ExpireLease
  <2>2. \A w \in Workers : pc[w] = "read" => att[w] # a
    BY <2>1 DEF ReadersPrompt
  <2>3. \A b \in Attempts : b # a => lease'[b] = lease[b]
    BY <2>1 DEF TypeOK, DatabaseTypes
  <2>4. \A w \in Workers : pc[w] = "read" => att[w] \in Attempts
    BY Working
  <2>5. QED
    BY <2>1, <2>2, <2>3, <2>4 DEF ReadersPrompt, job
<1>5. CASE /\ ~\E w \in Workers : \/ \E a \in Attempts : ClaimAttempt(w, a)
                                 \/ JobStep(w) \/ LoseFence(w) \/ JobFault(w)
           /\ ~\E a \in Attempts : ExpireLease(a)
  <2>1. UNCHANGED <<lease, token, authorized, job>>
    BY <1>5 DEF Next, Reserve, ReconcileStale, Timer, ExpirePublishLease,
       ExpireRedisLease, ExpireMarker, ExpireResult, ExpirePacket, PublisherStep,
       PublisherDies, ClaimOutbox, PublishNotice, MarkPublished, ListCandidate,
       ReconcilerStep, ReconcilerDies, LookForResult, RecoverSucceeded, LookForMarker,
       Renotify, MarkUnknown, RunMoves, Tombstone, DeleteBodies, vars, ledger
  <2>2. QED
    BY <1>1, <2>1 DEF job, Keeps
<1>6. QED
  BY <1>2, <1>3, <1>4, <1>5

LEMMA SeenKeeps ==
  ASSUME CoreInv, PromptInv, [Next]_vars PROVE SeenUnsent'
<1> USE DEF CoreInv, PromptInv
<1>1. ASSUME NEW w \in Workers, pc[w] = "read" PROVE state[att[w]] # "send_authorized"
  BY <1>1, Working DEF ReadersPrompt, TellInv, StatesTell
<1>2. ASSUME NEW w \in Workers, JobStep(w) \/ LoseFence(w) \/ JobFault(w)
      PROVE  SeenUnsent'
  BY <1>1, <1>2, JobFollows DEF SeenUnsent, Keeps, Reads
<1>3. CASE ~\E w \in Workers : JobStep(w) \/ LoseFence(w) \/ JobFault(w)
  <2>1. UNCHANGED seen
    BY <1>3 DEF Next, Reserve, ReconcileStale, Timer, ExpirePublishLease, ExpireLease,
       ExpireRedisLease, ExpireMarker, ExpireResult, ExpirePacket, PublisherStep,
       PublisherDies, ClaimOutbox, PublishNotice, MarkPublished, ListCandidate,
       ReconcilerStep, ReconcilerDies, LookForResult, RecoverSucceeded, LookForMarker,
       Renotify, MarkUnknown, RunMoves, Tombstone, DeleteBodies, ClaimAttempt, vars, job
  <2>2. QED
    BY <2>1 DEF SeenUnsent
<1>4. QED
  BY <1>2, <1>3

\* Who records an outcome of an attempt was its sender, and has decided.
LEMMA RecorderDecides ==
  ASSUME CoreInv, PromptInv, NEW a \in Attempts, NEW to \in Outcomes, Records(a, to)
  PROVE  /\ sends[a] = 1 /\ authorized[a]
         /\ to = "succeeded" => stored[a]
         /\ to = "fallback_allowed" => refused[a] /\ ~stored[a]
         /\ to = "result_unavailable" => ~stored[a]
         /\ \A w \in Workers : pc'[w] \in Undecided /\ pc[w] \in Undecided => att[w] # a
<1> USE DEF CoreInv, PromptInv
<1>1. PICK v \in Workers :
         /\ att[v] = a /\ pc'[v] \in {"off", "unknown"}
         /\ \/ to = "succeeded" /\ pc[v] = "succeed"
            \/ to = "result_unavailable" /\ pc[v] = "unavailable"
            \/ to = "fallback_allowed" /\ pc[v] = "reject"
  BY DEF Records, Recorder, SeenUnsent
<1>2. sends[a] = 1 /\ authorized[a]
  BY <1>1 DEF TellInv, SendersTell, SendInv, SenderIsNewest, Sending
<1>3. /\ to = "succeeded" => stored[a]
      /\ to = "fallback_allowed" => refused[a] /\ ~stored[a]
      /\ to = "result_unavailable" => ~stored[a]
  BY <1>1 DEF TellInv, SendersTell, Undecided
<1>4. ASSUME NEW w \in Workers, pc'[w] \in Undecided, pc[w] \in Undecided
      PROVE  att[w] # a
  <2>1. v # w /\ pc[v] \in Sending /\ pc[w] \in Sending
    BY <1>1, <1>4 DEF Undecided, Sending
  <2>2. QED
    BY <1>1, <2>1, OneSender
<1>5. QED
  BY <1>2, <1>3, <1>4

LEMMA SendersKeep ==
  ASSUME CoreInv, PromptInv, [Next]_vars PROVE SendersOpen'
<1> USE DEF CoreInv, PromptInv
<1> SUFFICES ASSUME NEW w \in Workers, pc'[w] \in Undecided
             PROVE  state'[att'[w]] \in {"send_authorized", "outcome_unknown"}
  BY DEF SendersOpen
<1>1. CASE AuthorizeAttempt(w)
  <2>1. CanAuthorize(w) /\ Goto(w, "invoke")
    BY <1>1 DEF AuthorizeAttempt, Goto, TypeOK, ProcessTypes, Undecided
  <2>2. att'[w] = att[w] /\ att[w] \in Attempts
    BY <1>1, <2>1, Working DEF AuthorizeAttempt, Goto
  <2>3. state'[att[w]] = "send_authorized"
    BY <1>1, <2>1, <2>2 DEF AuthorizeAttempt, CanAuthorize, TypeOK, DatabaseTypes, Goto,
       ProcessTypes
  <2>4. QED
    BY <2>2, <2>3
<1>2. CASE pc[w] \in Undecided /\ att'[w] = att[w]
  <2>1. att[w] \in Attempts /\ ~stored[att[w]]
        /\ state[att[w]] \in {"send_authorized", "outcome_unknown"}
    BY <1>2, Working DEF Undecided, TellInv, SendersTell, SendersOpen
  <2>2. ASSUME NEW a \in Attempts, NEW from, NEW to, Changed(a, from, to),
               a # att[w] \/ to \in {"send_authorized", "outcome_unknown"}
        PROVE  state'[att[w]] \in {"send_authorized", "outcome_unknown"}
    BY <2>1, <2>2 DEF Changed, TypeOK, DatabaseTypes
  <2>3. ASSUME NEW a \in Attempts, Advances(a) \/ Closes(a) \/ Doubts(a) \/ Authorizes(a)
        PROVE  state'[att[w]] \in {"send_authorized", "outcome_unknown"}
    <3>1. PICK from, to : /\ Changed(a, from, to)
                          /\ \/ from \notin {"send_authorized", "outcome_unknown"}
                             \/ to = "outcome_unknown"
      BY <2>3 DEF Advances, Closes, Doubts, Authorizes
    <3>2. QED
      BY <2>1, <2>2, <3>1 DEF Changed
  <2>4. ASSUME NEW a \in Attempts, Recovers(a)
        PROVE  state'[att[w]] \in {"send_authorized", "outcome_unknown"}
    <3>1. a # att[w]
      BY <2>1, <2>4 DEF Recovers, Recovering, TellInv, ResultsTell
    <3>2. QED
      BY <2>2, <2>4, <3>1 DEF Recovers
  <2>5. ASSUME NEW a \in Attempts, NEW to \in Outcomes, Records(a, to)
        PROVE  state'[att[w]] \in {"send_authorized", "outcome_unknown"}
    <3>1. a # att[w]
      BY <1>2, <2>5, RecorderDecides
    <3>2. QED
      BY <2>2, <2>5, <3>1 DEF Records
  <2>6. UNCHANGED state \/ StateStep
    BY StateSteps
  <2>7. QED
    BY <1>2, <2>1, <2>3, <2>4, <2>5, <2>6 DEF StateStep
<1>3. AuthorizeAttempt(w) \/ (pc[w] \in Undecided /\ att'[w] = att[w])
  <2>1. ASSUME NEW v \in Workers, JobStep(v) \/ LoseFence(v) \/ JobFault(v)
        PROVE  AuthorizeAttempt(w) \/ (pc[w] \in Undecided /\ att'[w] = att[w])
    <3>1. CASE v # w
      BY <2>1, <3>1, JobFollows DEF Keeps
    <3>2. CASE v = w
      <4>1. Follows(w)
        BY <2>1, <3>2, JobFollows DEF Undecided
      <4>2. CASE pc[w] # "authorize"
        BY <4>1, <4>2 DEF Follows, Undecided
      <4>3. CASE pc[w] = "authorize"
        BY <2>1, <3>2, <4>1, <4>3 DEF Follows, Undecided, JobStep, JobFault, LoseFence,
           ReadAttempt, StopCancelled, StopFallback, SetLease, StopAmbiguous, RecordIntent,
           StopNotConfigured, AuthorizeSend, StopLost, InvokeProvider, ProviderAnswers,
           SetResult, RecordSuccess, RecordUnavailable, RecordRefusal, RecordUnknown,
           SetLeaseThrows, SetResultThrows, RecordThrows, JobDies, FinalTransition,
           EndJob, TypeOK, ProcessTypes
      <4>4. QED
        BY <4>2, <4>3
    <3>3. QED
      BY <3>1, <3>2
  <2>2. CASE \E v \in Workers, a \in Attempts : ClaimAttempt(v, a)
    BY <2>2 DEF ClaimAttempt, job, TypeOK, ProcessTypes, Undecided
  <2>3. CASE ~\E v \in Workers : \/ JobStep(v) \/ LoseFence(v) \/ JobFault(v)
                                 \/ \E a \in Attempts : ClaimAttempt(v, a)
    <3>1. UNCHANGED job
      BY <2>3 DEF Next, Reserve, ReconcileStale, Timer, ExpirePublishLease,
         ExpireLease, ExpireRedisLease, ExpireMarker, ExpireResult, ExpirePacket,
         PublisherStep, PublisherDies, ClaimOutbox, PublishNotice, MarkPublished,
         ListCandidate, ReconcilerStep, ReconcilerDies, LookForResult, RecoverSucceeded,
         LookForMarker, Renotify, MarkUnknown, RunMoves, Tombstone, DeleteBodies, vars
    <3>2. QED
      BY <3>1 DEF job
  <2>4. QED
    BY <2>1, <2>2, <2>3
<1>4. QED
  BY <1>1, <1>2, <1>3

\* A result is stored while the state of its attempt does not move.
LEMMA WhoStores ==
  ASSUME TypeOK, [Next]_vars
  PROVE  \/ UNCHANGED stored
         \/ /\ UNCHANGED state
            /\ \E w \in Workers : /\ pc[w] = "store" /\ att[w] \in Attempts
                                  /\ stored' = [stored EXCEPT ![att[w]] = TRUE]
<1>1. ASSUME NEW w \in Workers, JobStep(w) \/ LoseFence(w) \/ JobFault(w),
             ~SetResult(w), ~SetResultThrows(w)
      PROVE  UNCHANGED stored
  BY <1>1 DEF JobStep, JobFault, LoseFence, ReadAttempt, StopCancelled,
     StopFallback, SetLease, StopAmbiguous, RecordIntent, StopNotConfigured,
     AuthorizeSend, StopLost, AuthorizeAttempt, InvokeProvider, ProviderAnswers,
     RecordSuccess, RecordUnavailable, RecordRefusal, RecordUnknown,
     SetLeaseThrows, RecordThrows, JobDies, FinalTransition, history
<1>2. ASSUME NEW w \in Workers, SetResult(w) \/ SetResultThrows(w)
      PROVE  \/ UNCHANGED stored
             \/ /\ UNCHANGED state /\ pc[w] = "store" /\ att[w] \in Attempts
                /\ stored' = [stored EXCEPT ![att[w]] = TRUE]
  BY <1>2, Working DEF SetResult, SetResultThrows, ledger
<1>3. CASE ~\E w \in Workers : JobStep(w) \/ LoseFence(w) \/ JobFault(w)
  <2>1. Calm
    BY <1>3, OthersCalm
  <2>2. QED
    BY <2>1 DEF Calm
<1>4. QED
  BY <1>1, <1>2, <1>3

LEMMA StoredKeep ==
  ASSUME CoreInv, PromptInv, [Next]_vars PROVE StoredOpen'
<1> USE DEF CoreInv, PromptInv
<1> DEFINE Lasting == {"send_authorized", "outcome_unknown", "succeeded"}
<1>1. ASSUME NEW w \in Workers, UNCHANGED state, pc[w] = "store", att[w] \in Attempts,
             stored' = [stored EXCEPT ![att[w]] = TRUE]
      PROVE  StoredOpen'
  BY <1>1 DEF StoredOpen, SendersOpen, Undecided, TypeOK, HistoryTypes
<1>2. CASE UNCHANGED stored
  <2>1. ASSUME NEW a \in Attempts, NEW from, NEW to, Changed(a, from, to),
               to \in Lasting \/ ~stored[a]
        PROVE  StoredOpen'
    BY <1>2, <2>1 DEF Changed, StoredOpen, TypeOK, DatabaseTypes
  <2>2. ASSUME NEW a \in Attempts, Advances(a) \/ Closes(a) \/ Doubts(a) \/ Authorizes(a)
        PROVE  StoredOpen'
    <3>1. PICK from, to : /\ Changed(a, from, to)
                          /\ from \notin Lasting \/ to \in Lasting
      BY <2>2 DEF Advances, Closes, Doubts, Authorizes
    <3>2. QED
      BY <2>1, <3>1 DEF Changed, StoredOpen
  <2>3. ASSUME NEW a \in Attempts, Recovers(a) PROVE StoredOpen'
    BY <2>1, <2>3 DEF Recovers
  <2>4. ASSUME NEW a \in Attempts, NEW to \in Outcomes, Records(a, to) PROVE StoredOpen'
    BY <2>1, <2>4, RecorderDecides DEF Records, Outcomes
  <2>5. QED
    BY <1>2, <2>2, <2>3, <2>4, StateSteps DEF StateStep, StoredOpen
<1>3. QED
  BY <1>1, <1>2, WhoStores

LEMMA RefusalKeeps ==
  ASSUME CoreInv, PromptInv, [Next]_vars PROVE FallbackNeedsRefusal'
<1> USE DEF CoreInv, PromptInv
<1> SUFFICES ASSUME NEW a \in Attempts, state'[a] = "fallback_allowed", authorized'[a]
             PROVE  refused'[a]
  BY DEF FallbackNeedsRefusal
<1>1. authorized[a]
  <2>1. ASSUME NEW w \in Workers, AuthorizeAttempt(w), CanAuthorize(w),
               authorized' = [authorized EXCEPT ![att[w]] = TRUE], ~authorized[a]
        PROVE  FALSE
    <3>1. a = att[w]
      BY <2>1 DEF TypeOK, DatabaseTypes
    <3>2. state' = [state EXCEPT ![a] = "send_authorized"] \/ UNCHANGED authorized
      BY <2>1, <3>1 DEF AuthorizeAttempt
    <3>3. QED
      BY <2>1, <3>2 DEF TypeOK, DatabaseTypes
  <2>2. QED
    BY <2>1, WhoSends
<1>2. CASE state[a] = "fallback_allowed"
  BY <1>1, <1>2, HistoryStays DEF FallbackNeedsRefusal
<1>3. CASE state[a] # "fallback_allowed"
  <2>1. ASSUME NEW b \in Attempts, NEW from, NEW to, Changed(b, from, to)
        PROVE  b = a /\ to = "fallback_allowed" /\ from = state[a]
    BY <1>3, <2>1 DEF Changed, TypeOK, DatabaseTypes
  <2>2. PICK b \in Attempts :
           \/ Advances(b) \/ Closes(b) \/ Doubts(b) \/ Authorizes(b) \/ Recovers(b)
           \/ \E to \in Outcomes : Records(b, to)
    BY <1>3, StateSteps DEF StateStep
  <2>3. ~Advances(b) /\ ~Doubts(b) /\ ~Authorizes(b) /\ ~Recovers(b)
    BY <2>1 DEF Advances, Doubts, Authorizes, Recovers
  <2>4. ~Closes(b)
    BY <1>1, <2>1 DEF Closes, SendInv, SenderIsNewest, Unsent
  <2>5. Records(a, "fallback_allowed")
    BY <2>1, <2>2, <2>3, <2>4 DEF Records
  <2>6. refused[a]
    BY <2>5, RecorderDecides DEF Outcomes
  <2>7. QED
    BY <2>6, HistoryStays
<1>4. QED
  BY <1>2, <1>3

LEMMA PromptInvariant == PromptRead => (Spec => [](CoreInv /\ PromptInv))
<1> SUFFICES ASSUME PromptRead PROVE Spec => [](CoreInv /\ PromptInv)
  OBVIOUS
<1>1. Init => PromptInv
  BY DEF Init, PromptInv, ReadersPrompt, SeenUnsent, SendersOpen, StoredOpen,
     FallbackNeedsRefusal, Undecided
<1>2. CoreInv /\ PromptInv /\ [Next]_vars => PromptInv'
  BY ReadersKeep, SeenKeeps, SendersKeep, StoredKeep, RefusalKeeps DEF PromptInv
<1>3. Spec => []CoreInv
  BY TypeCorrect, SendInvariant, TellInvariant, PTL DEF CoreInv
<1>4. QED
  BY <1>1, <1>2, <1>3, PTL DEF Spec

\* After the send boundary only a definitive failure of the provider opens the
\* fallback, if claimed attempts are read within their lease (process).
THEOREM RefusalNeeded == PromptRead => (Spec => []FallbackNeedsRefusal)
<1> SUFFICES ASSUME PromptRead PROVE Spec => []FallbackNeedsRefusal
  OBVIOUS
<1>1. CoreInv /\ PromptInv => FallbackNeedsRefusal
  BY DEF PromptInv
<1>2. QED
  BY <1>1, PromptInvariant, PTL

\* A stored result is never given up, and success is recorded only with one
\* (setResult before the transition, recoverSucceeded).
THEOREM ResultsDecide == PromptRead => (Spec => []ResultDecides)
<1> SUFFICES ASSUME PromptRead PROVE Spec => []ResultDecides
  OBVIOUS
<1>1. CoreInv /\ PromptInv => ResultDecides
  BY DEF CoreInv, PromptInv, StoredOpen, TellInv, StatesTell, ResultDecides
<1>2. QED
  BY <1>1, PromptInvariant, PTL

-----------------------------------------------------------------------------
(* The processes implement the ledger *)

\* A change of one attempt is a move of its phase.
LEMMA PhaseMoves ==
  ASSUME TypeOK, NEW a \in Attempts, NEW from, NEW to, Changed(a, from, to),
         \A b \in Attempts : b # a => authorized'[b] = authorized[b]
  PROVE  /\ state[a] = from /\ state'[a] = to
         /\ [b \in Attempts |-> PhaseOf(b)]'
              = [[b \in Attempts |-> PhaseOf(b)] EXCEPT ![a] = PhaseOf(a)']
<1>1. \A b \in Attempts : state'[b] = IF b = a THEN to ELSE state[b]
  BY DEF Changed, TypeOK, DatabaseTypes
<1>2. \A b \in Attempts : b # a => PhaseOf(b)' = PhaseOf(b)
  BY <1>1 DEF PhaseOf
<1>3. QED
  BY <1>1, <1>2 DEF Changed

LEMMA StepImplements ==
  ASSUME CoreInv, PromptInv, [Next]_vars
  PROVE  [Ledger!Next]_(Ledger!ledgerVars)
<1> USE DEF CoreInv, PromptInv
<1> DEFINE phase == [a \in Attempts |-> PhaseOf(a)]
<1>1. CASE UNCHANGED <<state, authorized, sends>>
  <2>1. \A a \in Attempts : PhaseOf(a)' = PhaseOf(a)
    BY <1>1 DEF PhaseOf
  <2>2. phase' = phase
    BY <2>1
  <2>3. QED
    BY <1>1, <2>2 DEF Ledger!ledgerVars
<1>2. ASSUME NEW w \in Workers, AuthorizeAttempt(w), CanAuthorize(w),
             authorized' = [authorized EXCEPT ![att[w]] = TRUE], UNCHANGED sends
      PROVE  [Ledger!Next]_(Ledger!ledgerVars)
  <2>1. PICK a \in Attempts : a = att[w]
    BY <1>2, Working DEF AuthorizeAttempt
  <2>2. CASE state' = [state EXCEPT ![a] = "send_authorized"]
    <3>1. Changed(a, "dispatch_intent", "send_authorized")
      BY <1>2, <2>1, <2>2 DEF CanAuthorize, Changed
    <3>2. \A b \in Attempts : b # a => authorized'[b] = authorized[b]
      BY <1>2, <2>1 DEF TypeOK, DatabaseTypes
    <3>3. /\ state[a] = "dispatch_intent" /\ state'[a] = "send_authorized"
          /\ phase' = [phase EXCEPT ![a] = PhaseOf(a)']
      BY <3>1, <3>2, PhaseMoves
    <3>4. PhaseOf(a) = "unsent" /\ PhaseOf(a)' = "authorized"
      BY <3>3 DEF PhaseOf
    <3>5. Ledger!Authorize(a)
      BY <1>2, <2>1, <3>3, <3>4 DEF Ledger!Authorize, Ledger!Move
    <3>6. QED
      BY <3>5 DEF Ledger!Next
  <2>3. CASE UNCHANGED <<state, authorized>>
    BY <1>1, <1>2, <2>3
  <2>4. QED
    BY <1>2, <2>1, <2>2, <2>3 DEF AuthorizeAttempt
<1>3. ASSUME NEW w \in Workers, InvokeProvider(w), UNCHANGED <<state, authorized>>
      PROVE  [Ledger!Next]_(Ledger!ledgerVars)
  <2>1. pc[w] = "invoke" /\ att[w] \in Attempts
    BY <1>3, Working DEF InvokeProvider
  <2>2. /\ authorized[att[w]] /\ sends[att[w]] = 0
        /\ state[att[w]] \in {"send_authorized", "outcome_unknown"}
    BY <2>1 DEF SendInv, SenderIsNewest, SendsCounted, Sending, SendersOpen, Undecided
  <2>3. sends' = [sends EXCEPT ![att[w]] = 1]
    BY <1>3, <2>1, <2>2 DEF InvokeProvider
  <2>4. \A a \in Attempts : PhaseOf(a)' = PhaseOf(a)
    BY <1>3 DEF PhaseOf
  <2>5. phase' = phase
    BY <2>4
  <2>6. PhaseOf(att[w]) \in {"authorized", "doubtful"}
    BY <2>2 DEF PhaseOf
  <2>7. Ledger!Send(att[w])
    BY <1>3, <2>1, <2>2, <2>3, <2>5, <2>6 DEF Ledger!Send
  <2>8. QED
    BY <2>1, <2>7 DEF Ledger!Next
<1>4. ASSUME UNCHANGED <<authorized, sends>>, NEW a \in Attempts, NEW from, NEW to,
             Changed(a, from, to),
             \/ PhaseOf(a)' = PhaseOf(a)
             \/ /\ PhaseOf(a) = "unsent" /\ PhaseOf(a)' = "closed"
             \/ /\ PhaseOf(a) \in {"unsent", "authorized"} /\ PhaseOf(a)' = "doubtful"
             \/ /\ PhaseOf(a) \in {"authorized", "doubtful"} /\ PhaseOf(a)' = "answered"
                /\ sends[a] = 1
             \/ /\ PhaseOf(a) = "authorized" /\ PhaseOf(a)' \in {"refused", "unavailable"}
                /\ sends[a] = 1
      PROVE  [Ledger!Next]_(Ledger!ledgerVars)
  <2>1. phase' = [phase EXCEPT ![a] = PhaseOf(a)'] /\ phase[a] = PhaseOf(a)
    BY <1>4, PhaseMoves
  <2>2. CASE PhaseOf(a)' = PhaseOf(a)
    <3>1. phase' = phase
      BY <2>1, <2>2
    <3>2. QED
      BY <1>4, <3>1 DEF Ledger!ledgerVars
  <2>3. CASE PhaseOf(a)' # PhaseOf(a)
    <3>1. \/ Ledger!Close(a) \/ Ledger!Doubt(a) \/ Ledger!Answer(a)
          \/ Ledger!Refuse(a) \/ Ledger!LoseResult(a)
      BY <1>4, <2>1, <2>3 DEF Ledger!Close, Ledger!Doubt, Ledger!Answer, Ledger!Refuse,
         Ledger!LoseResult, Ledger!Move
    <3>2. QED
      BY <3>1 DEF Ledger!Next
  <2>4. QED
    BY <2>2, <2>3
<1>5. CASE UNCHANGED <<authorized, sends>> /\ StateStep
  <2>1. PICK a \in Attempts :
           \/ Advances(a) \/ Closes(a) \/ Doubts(a) \/ Authorizes(a) \/ Recovers(a)
           \/ \E to \in Outcomes : Records(a, to)
    BY <1>5 DEF StateStep
  <2>2. ASSUME NEW from, NEW to, Changed(a, from, to)
        PROVE  state[a] = from /\ state'[a] = to
    BY <2>2 DEF Changed, TypeOK, DatabaseTypes
  <2>3. CASE Advances(a)
    BY <1>4, <1>5, <2>2, <2>3 DEF Advances, PhaseOf
  <2>4. CASE Closes(a)
    <3>1. PICK from \in {"queued", "dispatch_intent"}, to \in {"cancelled", "fallback_allowed"} :
             Changed(a, from, to)
      BY <2>4 DEF Closes
    <3>2. state[a] = from /\ state'[a] = to /\ ~authorized[a]
      BY <2>2, <3>1 DEF SendInv, SenderIsNewest, Unsent
    <3>3. PhaseOf(a) = "unsent" /\ PhaseOf(a)' = "closed"
      BY <1>5, <3>1, <3>2 DEF PhaseOf
    <3>4. QED
      BY <1>4, <1>5, <3>1, <3>3
  <2>5. CASE Doubts(a)
    <3>1. PICK from \in InFlight : Changed(a, from, "outcome_unknown")
      BY <2>5 DEF Doubts
    <3>2. PhaseOf(a) \in {"unsent", "authorized"} /\ PhaseOf(a)' = "doubtful"
      BY <2>2, <3>1 DEF PhaseOf, InFlight
    <3>3. QED
      BY <1>4, <1>5, <3>1, <3>2
  <2>6. ~Authorizes(a)
    <3> SUFFICES ASSUME Authorizes(a) PROVE FALSE
      OBVIOUS
    <3>1. state[a] = "dispatch_intent" /\ authorized'[a]
      BY DEF Authorizes, Changed, AuthorizeAttempt, CanAuthorize, TypeOK, DatabaseTypes
    <3>2. QED
      BY <1>5, <3>1 DEF SendInv, SenderIsNewest, Unsent
  <2>7. CASE Recovers(a)
    <3>1. PICK from \in {"send_authorized", "outcome_unknown"} : Changed(a, from, "succeeded")
      BY <2>7 DEF Recovers
    <3>2. sends[a] = 1
      BY <2>7 DEF Recovers, Recovering, TellInv, ResultsTell
    <3>3. PhaseOf(a) \in {"authorized", "doubtful"} /\ PhaseOf(a)' = "answered"
      BY <2>2, <3>1 DEF PhaseOf
    <3>4. QED
      BY <1>4, <1>5, <3>1, <3>2, <3>3
  <2>8. ASSUME NEW to \in Outcomes, Records(a, to)
        PROVE  [Ledger!Next]_(Ledger!ledgerVars)
    <3>1. Changed(a, "send_authorized", to) /\ sends[a] = 1 /\ authorized[a]
      BY <2>8, RecorderDecides DEF Records
    <3>2. state[a] = "send_authorized" /\ state'[a] = to
      BY <2>2, <3>1
    <3>3. /\ PhaseOf(a) = "authorized"
          /\ PhaseOf(a)' \in {"answered", "refused", "unavailable"}
      BY <1>5, <3>1, <3>2 DEF PhaseOf, Outcomes
    <3>4. QED
      BY <1>4, <1>5, <3>1, <3>3
  <2>9. QED
    BY <2>1, <2>3, <2>4, <2>5, <2>6, <2>7, <2>8
<1>6. QED
  BY <1>1, <1>2, <1>3, <1>5, WhoSends, StateSteps

\* Workers, publishers and reconcilers, whatever fails between their calls,
\* keep the promises of the ledger, if claimed attempts are read within their
\* lease (README "Milestone C").
THEOREM DispatchImplements == PromptRead => (Spec => ImplementsLedger)
<1> SUFFICES ASSUME PromptRead PROVE Spec => ImplementsLedger
  OBVIOUS
<1>1. Init => Ledger!Init
  BY DEF Init, Ledger!Init, PhaseOf
<1>2. CoreInv /\ PromptInv /\ [Next]_vars => [Ledger!Next]_(Ledger!ledgerVars)
  BY StepImplements
<1>3. QED
  BY <1>1, <1>2, PromptInvariant, PTL DEF Spec, ImplementsLedger, Ledger!Spec

-----------------------------------------------------------------------------
(* The run and its content *)

content == <<marker, result, packet, tombstone>>

\* What a step may do to the run and to its content: move the run or extend its
\* expiry, write a marker or a result under the tombstone's eye, lose one, lose
\* a body, or begin the cleanup.
RunStep == (run' \in {run, Touched} \/ Run!Moves) /\ UNCHANGED content
WriteStep ==
  /\ ~tombstone /\ UNCHANGED <<packet, run, tombstone>>
  /\ \E a \in Attempts :
       \/ \E t \in Nat \ {0} : marker' = [marker EXCEPT ![a] = t] /\ UNCHANGED result
       \/ result' = [result EXCEPT ![a] = TRUE] /\ UNCHANGED marker
LoseStep ==
  /\ UNCHANGED <<packet, run, tombstone>>
  /\ \E a \in Attempts :
       \/ marker' = [marker EXCEPT ![a] = 0] /\ UNCHANGED result
       \/ result' = [result EXCEPT ![a] = FALSE] /\ UNCHANGED marker
DiscardStep ==
  /\ UNCHANGED <<marker, result, run, tombstone>>
  /\ packet' \in [Attempts -> {"live", "expired", "pruned"}]
  /\ \A a \in Attempts : packet[a] = "pruned" => packet'[a] = "pruned"
SealStep == Tombstone

ContentStep == RunStep \/ WriteStep \/ LoseStep \/ DiscardStep \/ SealStep

\* A job moves the run by its transitions alone, and writes with authorizeSend
\* and setResult.
LEMMA JobContent ==
  ASSUME TypeOK, TokensPositive, NEW w \in Workers,
         JobStep(w) \/ JobFault(w) \/ LoseFence(w)
  PROVE  RunStep \/ WriteStep
<1>1. ASSUME NEW step, NEW from, NEW to, FinalTransition(w, step, from, to)
      PROVE  RunStep
  BY <1>1 DEF FinalTransition, transitionAttempt, RunStep, content, redis
<1>2. CASE \/ StopCancelled(w) \/ StopFallback(w) \/ StopAmbiguous(w)
           \/ StopNotConfigured(w) \/ StopLost(w) \/ RecordSuccess(w)
           \/ RecordUnavailable(w) \/ RecordRefusal(w) \/ RecordUnknown(w)
  BY <1>1, <1>2 DEF StopCancelled, StopFallback, StopAmbiguous, StopNotConfigured,
     StopLost, RecordSuccess, RecordUnavailable, RecordRefusal, RecordUnknown
<1>3. CASE RecordIntent(w) \/ RecordThrows(w)
  BY <1>3 DEF RecordIntent, RecordThrows, transitionAttempt, RunStep, content, redis
<1>4. CASE AuthorizeSend(w)
  <2>1. att[w] \in Attempts /\ tok[w] \in Nat \ {0}
    BY <1>4, Working DEF AuthorizeSend, TokensPositive, TypeOK, ProcessTypes
  <2>2. /\ UNCHANGED <<result, packet, run, tombstone>>
        /\ \/ ~tombstone /\ marker' = [marker EXCEPT ![att[w]] = tok[w]]
           \/ UNCHANGED marker
    BY <1>4 DEF AuthorizeSend
  <2>3. QED
    BY <2>1, <2>2 DEF RunStep, WriteStep, content
<1>5. CASE SetResult(w) \/ SetResultThrows(w)
  <2>1. att[w] \in Attempts
    BY <1>5, Working DEF SetResult, SetResultThrows
  <2>2. /\ UNCHANGED <<marker, packet, run, tombstone>>
        /\ \/ ~tombstone /\ result' = [result EXCEPT ![att[w]] = TRUE]
           \/ UNCHANGED result
    BY <1>5 DEF SetResult, SetResultThrows
  <2>3. QED
    BY <2>1, <2>2 DEF RunStep, WriteStep, content
<1>6. CASE \/ ReadAttempt(w) \/ SetLease(w) \/ AuthorizeAttempt(w)
           \/ InvokeProvider(w) \/ ProviderAnswers(w) \/ LoseFence(w)
           \/ SetLeaseThrows(w) \/ JobDies(w)
  BY <1>6 DEF ReadAttempt, SetLease, AuthorizeAttempt, InvokeProvider,
     ProviderAnswers, LoseFence, SetLeaseThrows, JobDies, RunStep, content, redis
<1>7. QED
  BY <1>2, <1>3, <1>4, <1>5, <1>6 DEF JobStep, JobFault

\* The clocks take content away.
LEMMA TimerContent ==
  ASSUME TypeOK, NEW a \in Attempts, Timer(a)
  PROVE  RunStep \/ LoseStep \/ DiscardStep
<1>1. CASE ExpirePacket(a)
  BY <1>1 DEF ExpirePacket, DiscardStep, redis, TypeOK, DatabaseTypes
<1>2. CASE ExpireMarker(a) \/ ExpireResult(a)
  BY <1>2 DEF ExpireMarker, ExpireResult, LoseStep
<1>3. CASE ExpirePublishLease(a) \/ ExpireLease(a) \/ ExpireRedisLease(a)
  BY <1>3 DEF ExpirePublishLease, ExpireLease, ExpireRedisLease, RunStep, content, redis
<1>4. QED
  BY <1>1, <1>2, <1>3 DEF Timer

LEMMA ContentSteps ==
  ASSUME TypeOK, TokensPositive, [Next]_vars PROVE ContentStep
<1>1. CASE \/ \E a \in Attempts : Reserve(a) \/ ReconcileStale(a)
           \/ \E p \in Publishers : PublisherStep(p) \/ PublisherDies(p)
           \/ \E w \in Workers, a \in Attempts : ClaimAttempt(w, a)
           \/ UNCHANGED vars
  BY <1>1 DEF Reserve, ReconcileStale, PublisherStep, ClaimOutbox, PublishNotice,
     MarkPublished, PublisherDies, ClaimAttempt, vars, redis, content, RunStep,
     ContentStep
<1>2. CASE \E r \in Reconcilers : \/ \E a \in Attempts : ListCandidate(r, a)
                                  \/ ReconcilerStep(r) \/ ReconcilerDies(r)
  BY <1>2 DEF ListCandidate, ReconcilerStep, ReconcilerDies, LookForResult,
     RecoverSucceeded, LookForMarker, Renotify, MarkUnknown, transitionAttempt,
     redis, content, RunStep, ContentStep
<1>3. CASE RunMoves
  BY <1>3 DEF RunMoves, redis, content, RunStep, ContentStep
<1>4. CASE DeleteBodies
  BY <1>4 DEF DeleteBodies, redis, DiscardStep, ContentStep
<1>5. QED
  BY <1>1, <1>2, <1>3, <1>4, JobContent, TimerContent
  DEF Next, ContentStep, SealStep

\* The content of the run as its contract sees it.
RunPhase ==
  CASE run \in {"active", "idle", "overdue"} -> "active"
    [] run = "recovery_required" -> "recovery_required"
    [] run = "ended" -> "over"
RunKeys ==
  {a \in Attempts : marker[a] # 0} \X {"marker"}
    \cup {a \in Attempts : result[a]} \X {"result"}
RunRows == {a \in Attempts : packet[a] # "pruned"}

\* The contract's step from what it does to the content.
LEMMA ContractSteps ==
  ASSUME \/ /\ UNCHANGED <<RunKeys, RunRows, tombstone>>
            /\ \/ UNCHANGED RunPhase
               \/ RunPhase = "active" /\ RunPhase' = "recovery_required"
               \/ RunPhase = "recovery_required" /\ RunPhase' = "active"
               \/ RunPhase \in Contract!Phases /\ RunPhase' = "over"
         \/ /\ ~tombstone /\ UNCHANGED <<RunPhase, RunRows, tombstone>>
            /\ \E k \in Attempts \X {"marker", "result"} : RunKeys' = RunKeys \cup {k}
         \/ RunKeys' \subseteq RunKeys /\ UNCHANGED <<RunPhase, RunRows, tombstone>>
         \/ RunRows' \subseteq RunRows /\ UNCHANGED <<RunPhase, RunKeys, tombstone>>
         \/ /\ RunPhase = "over" /\ tombstone' = TRUE /\ RunKeys' = {}
            /\ UNCHANGED <<RunPhase, RunRows>>
  PROVE  [Contract!Next]_(Contract!contractVars)
  BY DEF Contract!Next, Contract!contractVars, Contract!Move, Contract!Suspend,
     Contract!Resume, Contract!End, Contract!Write, Contract!Lose,
     Contract!Discard, Contract!Seal, RunPhase, RunKeys, RunRows

LEMMA RunStepKeeps ==
  ASSUME TypeOK, RunStep PROVE [Contract!Next]_(Contract!contractVars)
<1>1. run \in {"active", "idle", "overdue", "recovery_required", "ended"}
  BY DEF TypeOK, DatabaseTypes, RunStates, Run!RunStates
<1>2. UNCHANGED <<RunKeys, RunRows, tombstone>>
  BY DEF RunStep, content, RunKeys, RunRows
<1>3. \/ UNCHANGED RunPhase
      \/ RunPhase = "active" /\ RunPhase' = "recovery_required"
      \/ RunPhase = "recovery_required" /\ RunPhase' = "active"
      \/ RunPhase \in Contract!Phases /\ RunPhase' = "over"
  <2>1. CASE run' \in {run, Touched}
    BY <1>1, <2>1 DEF Touched, Run!Touched, RunPhase
  <2>2. CASE Run!Moves
    BY <1>1, <2>2 DEF Run!Moves, RunPhase, Contract!Phases, Contract!Recording
  <2>3. QED
    BY <2>1, <2>2 DEF RunStep
<1>4. QED
  BY <1>2, <1>3, ContractSteps

LEMMA WriteStepKeeps ==
  ASSUME TypeOK, WriteStep PROVE [Contract!Next]_(Contract!contractVars)
<1>1. ~tombstone /\ UNCHANGED <<RunPhase, RunRows, tombstone>>
  BY DEF WriteStep, RunPhase, RunRows
<1>2. PICK a \in Attempts :
        \/ \E t \in Nat \ {0} : marker' = [marker EXCEPT ![a] = t] /\ UNCHANGED result
        \/ result' = [result EXCEPT ![a] = TRUE] /\ UNCHANGED marker
  BY DEF WriteStep
<1>3. marker \in [Attempts -> Nat] /\ result \in [Attempts -> BOOLEAN]
  BY DEF TypeOK, RedisTypes
<1>4. CASE \E t \in Nat \ {0} : marker' = [marker EXCEPT ![a] = t] /\ UNCHANGED result
  <2>1. {b \in Attempts : marker'[b] # 0} = {b \in Attempts : marker[b] # 0} \cup {a}
    BY <1>3, <1>4
  <2>2. RunKeys' = RunKeys \cup {<<a, "marker">>}
    BY <1>4, <2>1 DEF RunKeys
  <2>3. QED
    BY <1>1, <2>2, ContractSteps
<1>5. CASE result' = [result EXCEPT ![a] = TRUE] /\ UNCHANGED marker
  <2>1. {b \in Attempts : result'[b]} = {b \in Attempts : result[b]} \cup {a}
    BY <1>3, <1>5
  <2>2. RunKeys' = RunKeys \cup {<<a, "result">>}
    BY <1>5, <2>1 DEF RunKeys
  <2>3. QED
    BY <1>1, <2>2, ContractSteps
<1>6. QED
  BY <1>2, <1>4, <1>5

LEMMA LoseStepKeeps ==
  ASSUME TypeOK, LoseStep PROVE [Contract!Next]_(Contract!contractVars)
<1>1. UNCHANGED <<RunPhase, RunRows, tombstone>>
  BY DEF LoseStep, RunPhase, RunRows
<1>2. marker \in [Attempts -> Nat] /\ result \in [Attempts -> BOOLEAN]
  BY DEF TypeOK, RedisTypes
<1>3. PICK a \in Attempts :
        \/ marker' = [marker EXCEPT ![a] = 0] /\ UNCHANGED result
        \/ result' = [result EXCEPT ![a] = FALSE] /\ UNCHANGED marker
  BY DEF LoseStep
<1>4. \A b \in Attempts : /\ marker'[b] # 0 => marker[b] # 0
                          /\ result'[b] => result[b]
  BY <1>2, <1>3
<1>5. RunKeys' \subseteq RunKeys
  BY <1>4 DEF RunKeys
<1>6. QED
  BY <1>1, <1>5, ContractSteps

\* The attempts of a run keep its contract, whatever fails between the calls of
\* workers, publishers and reconcilers: no marker and no result is written once
\* the run is sealed, only an ended run is sealed, and no step opens it again
\* (childScript, authorizeScript, tombstoneScript, transitionAttempt).
THEOREM DispatchKeepsContract == Spec => KeepsContract
<1>1. Init => Contract!Init
  <2> SUFFICES ASSUME Init PROVE Contract!Init
    OBVIOUS
  <2>1. RunPhase = "active" /\ RunKeys = {} /\ RunRows \in SUBSET Attempts /\ ~tombstone
    BY DEF Init, RunPhase, RunKeys, RunRows
  <2>2. QED
    BY <2>1 DEF Init, Contract!Init, RunPhase, RunKeys, RunRows
<1>2. ASSUME TypeOK, FenceInv, [Next]_vars
      PROVE  [Contract!Next]_(Contract!contractVars)
  <2>1. CASE DiscardStep
    <3>1. RunRows' \subseteq RunRows
      BY <2>1 DEF DiscardStep, RunRows
    <3>2. UNCHANGED <<RunPhase, RunKeys, tombstone>>
      BY <2>1 DEF DiscardStep, RunPhase, RunKeys
    <3>3. QED
      BY <3>1, <3>2, ContractSteps
  <2>2. CASE SealStep
    <3>1. /\ run = "ended" /\ tombstone' = TRUE /\ UNCHANGED <<run, packet>>
          /\ marker' = [a \in Attempts |-> 0] /\ result' = [a \in Attempts |-> FALSE]
      BY <2>2 DEF SealStep, Tombstone, Run!Seal
    <3>2. RunPhase = "over" /\ UNCHANGED <<RunPhase, RunRows>>
      BY <3>1 DEF RunPhase, RunRows
    <3>3. RunKeys' = {}
      BY <3>1 DEF RunKeys
    <3>4. QED
      BY <3>1, <3>2, <3>3, ContractSteps
  <2>3. ContentStep
    BY <1>2, ContentSteps DEF FenceInv
  <2>4. QED
    BY <1>2, <2>1, <2>2, <2>3, RunStepKeeps, WriteStepKeeps, LoseStepKeeps
    DEF ContentStep
<1>3. TypeOK /\ FenceInv /\ [Next]_vars => [Contract!Next]_(Contract!contractVars)
  BY <1>2
<1>4. QED
  BY <1>1, <1>3, TypeCorrect, FenceInvariant, PTL
  DEF Spec, KeepsContract, Contract!Spec

=============================================================================
