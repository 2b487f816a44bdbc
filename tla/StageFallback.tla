--------------------------- MODULE StageFallback ----------------------------
(***************************************************************************)
(* One runStage call of the browser (src/services/modelRouter.ts): it      *)
(* walks the profiles of its route, and for each one has a packet approved *)
(* (api/governed-packet.js), posts it to the gateway                       *)
(* (lib/providerGateway.js), which reserves an attempt                     *)
(* (claimPacketAndReserve), reads the stream and, when that tells nothing, *)
(* polls /api/model-result until it knows whether it may try the next      *)
(* profile.                                                                *)
(*                                                                         *)
(* What the workers do with a reserved attempt is the abstract ledger      *)
(* DispatchLedger, which module Dispatch implements.  A post can be        *)
(* delayed, lost or sent again by the network; a handler works on after    *)
(* the browser has stopped listening.                                      *)
(***************************************************************************)
EXTENDS Naturals, FiniteSets

CONSTANTS
    N,        \* length of the route (validRoutingConfig: two)
    Copies,   \* bound: deliveries of one post
    Prompt    \* no handler reserves after INTERNAL_RESULT_MISSING_GRACE_MS

ASSUME RouteAssumption == N \in Nat \ {0} /\ Copies \in Nat \ {0}
ASSUME PromptAssumption == Prompt \in BOOLEAN

Profiles == 1..N
Numbers == 1..Copies

VARIABLES
    pc, at,      \* the browser: what it does, for which profile
    missing,     \* firstMissingAt is set for the current call
    left,        \* why a profile was left behind
    handler,     \* per profile and copy of its post: the gateway's handler
    active,      \* the run is active and unexpired
    packet,      \* governed_packet_metadata.state
    stage,       \* stage_executions.state
    reserved,    \* the row of model_attempts exists
    mayFallBack, \* a closed attempt is fallback_allowed, not cancelled
    result,      \* Redis: the governed result can be read
    phase, licensed, sends   \* the ledger of the attempts

Ledger == INSTANCE DispatchLedger WITH Attempts <- Profiles

browser == <<pc, at, missing, left>>
rows    == <<packet, stage, reserved>>
outcome == <<mayFallBack, result, phase, licensed, sends>>
vars    == <<browser, handler, active, rows, outcome>>

Ends == {"returned", "failed", "exhausted"}

\* In "hung" the browser waits for a fetch that never settles.
TypeOK ==
    /\ pc \in {"approve", "wait", "poll", "validate", "hung"} \cup Ends
    /\ at \in Profiles
    /\ missing \in BOOLEAN
    /\ left \in [Profiles -> {"no", "unapproved", "rejected", "absent",
                              "refused", "invalid"}]
    /\ handler \in [Profiles -> [Numbers ->
                     {"none", "lost", "transit", "unreserved", "stream",
                      "rejected", "uncertain", "done", "refused"}]]
    /\ active \in BOOLEAN
    /\ packet \in [Profiles -> {"none", "approved", "claimed", "expired"}]
    /\ stage \in [Profiles -> {"none", "active", "succeeded"}]
    /\ reserved \in [Profiles -> BOOLEAN]
    /\ mayFallBack \in [Profiles -> BOOLEAN]
    /\ result \in [Profiles -> BOOLEAN]
    /\ Ledger!LedgerTypeOK

Init ==
    /\ pc = "approve" /\ at = 1 /\ missing = FALSE
    /\ left = [i \in Profiles |-> "no"]
    /\ handler = [i \in Profiles |-> [c \in Numbers |-> "none"]]
    /\ active = TRUE
    /\ packet = [i \in Profiles |-> "none"]
    /\ stage = [i \in Profiles |-> "none"]
    /\ reserved = [i \in Profiles |-> FALSE]
    /\ mayFallBack = [i \in Profiles |-> FALSE]
    /\ result = [i \in Profiles |-> FALSE]
    /\ Ledger!Init

-----------------------------------------------------------------------------
(* The browser *)

\* The catch of runStage's loop: note the failure, go on with the next profile.
Leave(why) ==
    /\ left' = [left EXCEPT ![at] = why]
    /\ missing' = FALSE
    /\ \/ at < N /\ at' = at + 1 /\ pc' = "approve"
       \/ at = N /\ UNCHANGED at /\ pc' = "exhausted"

Become(what) == pc' = what /\ UNCHANGED <<at, missing, left>>

\* governedCall: commitPacket approves a packet for an active run, and the
\* packet is posted.  A reply that is an error ends the stage, a call that
\* throws only this profile, whether or not the packet is committed.
Approve ==
    /\ pc = "approve"
    /\ \/ active /\ packet' = [packet EXCEPT ![at] = "approved"]
       \/ UNCHANGED packet
    /\ \/ /\ packet'[at] = "approved"
          /\ Become("wait")
          /\ handler' = [handler EXCEPT ![at][1] = "transit"]
       \/ (Leave("unapproved") \/ Become("failed")) /\ UNCHANGED handler
    /\ UNCHANGED <<active, stage, reserved, outcome>>

Sent(i) == {c \in Numbers : handler[i][c] # "none"}
Newest(i) == CHOOSE c \in Sent(i) : \A d \in Sent(i) : d <= c
Reply == handler[at][Newest(at)]

\* postWithTimeout reads the answer.  A rejection of the post (404, 409) and a
\* frame with a fallback code lead to the next profile; the rest is uncertain.
Receive ==
    /\ pc = "wait"
    /\ \/ Reply = "rejected" /\ Leave("rejected")
       \/ Reply = "refused" /\ (Leave("refused") \/ Become("poll"))
       \/ Reply = "done" /\ Become("validate")
       \/ Reply \in {"uncertain", "lost"} /\ Become("poll")
    /\ UNCHANGED <<handler, active, rows, outcome>>

\* The connection breaks, or REQUEST_TIMEOUT_MS aborts it.
StopWaiting ==
    /\ pc = "wait"
    /\ Become("poll")
    /\ UNCHANGED <<handler, active, rows, outcome>>

M_Refusable(i) ==
    phase[i] \in {"refused", "doubtful"} \/ (phase[i] = "closed" /\ mayFallBack[i])

\* fallback_allowed.
Refusable(i) == phase[i] = "refused" \/ (phase[i] = "closed" /\ mayFallBack[i])

M_Readable(i) == result[i] \/ phase[i] = "authorized"

\* succeeded, and redis.getResult finds the governed output.
Readable(i) == phase[i] = "answered" /\ result[i]

\* The other settled states, and a result that has expired, end the stage.
Fatal(i) ==
    \/ phase[i] \in {"doubtful", "unavailable"}
    \/ phase[i] = "closed" /\ ~mayFallBack[i]
    \/ phase[i] = "answered" /\ ~result[i]

MayStillReserve(i) ==
    \E c \in Numbers : handler[i][c] \in {"transit", "unreserved"}

\* pollInternalResult, one answer of /api/model-result.
Poll ==
    /\ pc = "poll"
    /\ \/ ~reserved[at] /\ missing' = TRUE /\ UNCHANGED <<pc, at, left>>
       \/ /\ ~reserved[at] /\ missing
          /\ Prompt => ~MayStillReserve(at)
          /\ Leave("absent")
       \/ reserved[at] /\ Readable(at) /\ Become("validate")
       \/ reserved[at] /\ Refusable(at) /\ Leave("refused")
       \/ reserved[at] /\ Fatal(at) /\ Become("failed")
    /\ UNCHANGED <<handler, active, rows, outcome>>

M_PollDeadline ==
    /\ pc = "poll" /\ ~reserved[at]
    /\ Become("failed")
    /\ UNCHANGED <<handler, active, rows, outcome>>

\* recoveryDeadline: DEPENDENCY_UNCERTAINTY, or the error that led here.
PollDeadline ==
    /\ pc = "poll"
    /\ Become("failed")
    /\ UNCHANGED <<handler, active, rows, outcome>>

\* runStage validates the text of a completed attempt.
Validate ==
    /\ pc = "validate"
    /\ Become("returned") \/ Leave("invalid")
    /\ UNCHANGED <<handler, active, rows, outcome>>

\* Only the post to the gateway has a timeout.  The approval, the status of an
\* attempt and the awaited log posts (serverLog, after a rejection, a recovery,
\* a fallback and the last profile) have none: such a fetch may never settle,
\* and the recovery deadline is looked at only between two of them.
Hang ==
    /\ \/ /\ pc = "approve"
          /\ \/ active /\ packet' = [packet EXCEPT ![at] = "approved"]
             \/ UNCHANGED packet
       \/ /\ \/ pc = "wait" /\ (Reply = "rejected" \/ (Reply = "refused" /\ at = N))
             \/ pc = "poll"
             \/ pc = "validate" /\ (at > 1 \/ at = N)
          /\ UNCHANGED packet
    /\ Become("hung")
    /\ UNCHANGED <<handler, active, stage, reserved, outcome>>

GoOn == Approve \/ Receive \/ StopWaiting \/ Poll \/ PollDeadline \/ Validate

Browser == GoOn \/ Hang

-----------------------------------------------------------------------------
(* The network, and the gateway's handler of copy c of the post for i *)

Goes(i, c, what) == handler' = [handler EXCEPT ![i][c] = what]

\* The post is lost, or sent again by the network layer.
Network(i, c) ==
    /\ \/ handler[i][c] = "transit" /\ Goes(i, c, "lost")
       \/ /\ pc = "wait" /\ i = at
          /\ handler[i][c] = "none" /\ c - 1 \in Sent(i)
          /\ Goes(i, c, "transit")
    /\ UNCHANGED <<browser, active, rows, outcome>>

\* getPacketBody, and the SELECT of claimPacketAndReserve: a post that has
\* reserved before joins its attempt.
LookUp(i, c) ==
    /\ handler[i][c] = "transit"
    /\ \/ packet[i] = "expired" /\ Goes(i, c, "rejected")
       \/ packet[i] # "expired" /\ reserved[i] /\ Goes(i, c, "stream")
       \/ packet[i] # "expired" /\ ~reserved[i] /\ Goes(i, c, "unreserved")
       \/ Goes(i, c, "uncertain")
    /\ UNCHANGED <<browser, active, rows, outcome>>

\* The rest of claimPacketAndReserve: the lock of the run's row makes it one
\* step.  The COMMIT may be lost, with or without its effect.
Reserve(i, c) ==
    /\ handler[i][c] = "unreserved"
    /\ \/ /\ active /\ packet[i] = "approved" /\ stage[i] # "succeeded"
          /\ packet' = [packet EXCEPT ![i] = "claimed"]
          /\ stage' = [stage EXCEPT ![i] = "active"]
          /\ reserved' = [reserved EXCEPT ![i] = TRUE]
          /\ Goes(i, c, "stream") \/ Goes(i, c, "uncertain")
       \/ /\ ~active \/ packet[i] # "approved" \/ stage[i] = "succeeded"
          /\ Goes(i, c, "rejected")
          /\ UNCHANGED rows
       \/ Goes(i, c, "uncertain") /\ UNCHANGED rows
    /\ UNCHANGED <<browser, active, outcome>>

\* The handler's poll: a result, the end of the attempt, or a failure of its
\* own; while the result cannot be read, and while the attempt runs, keepalive.
Stream(i, c) ==
    /\ handler[i][c] = "stream"
    /\ \/ Readable(i) /\ Goes(i, c, "done")
       \/ Refusable(i) /\ Goes(i, c, "refused")
       \/ Fatal(i) /\ phase[i] # "answered" /\ Goes(i, c, "uncertain")
       \/ Goes(i, c, "uncertain")
    /\ UNCHANGED <<browser, active, rows, outcome>>

Gateway(i, c) == LookUp(i, c) \/ Reserve(i, c) \/ Stream(i, c)

-----------------------------------------------------------------------------
(* The workers, the run and the clock *)

\* The ledger's steps for a reserved attempt.  With the answer comes its
\* result, and the acceptance of the stage (transitionAttempt); a cancelled or
\* abandoned attempt is closed with or without leave to fall back.
Dispatch(i) ==
    /\ reserved[i]
    /\ \/ Ledger!Authorize(i) /\ active /\ UNCHANGED <<mayFallBack, result, stage>>
       \/ /\ \/ Ledger!Send(i) \/ Ledger!Doubt(i)
             \/ Ledger!Refuse(i) \/ Ledger!LoseResult(i)
          /\ UNCHANGED <<mayFallBack, result, stage>>
       \/ /\ Ledger!Close(i)
          /\ \E b \in BOOLEAN : mayFallBack' = [mayFallBack EXCEPT ![i] = b]
          /\ UNCHANGED <<result, stage>>
       \/ /\ Ledger!Answer(i)
          /\ result' = [result EXCEPT ![i] = TRUE]
          /\ stage' = [stage EXCEPT ![i] = "succeeded"]
          /\ UNCHANGED mayFallBack
    /\ UNCHANGED <<browser, handler, active, packet, reserved>>

\* The TTL of the result, the expiry of the packet.
Expire(i) ==
    /\ \/ result[i] /\ result' = [result EXCEPT ![i] = FALSE] /\ UNCHANGED packet
       \/ /\ packet[i] \in {"approved", "claimed"}
          /\ packet' = [packet EXCEPT ![i] = "expired"]
          /\ UNCHANGED result
    /\ UNCHANGED <<browser, handler, active, stage, reserved, mayFallBack, phase,
                   licensed, sends>>

\* The run is suspended, resumed or ended.
RunChanges ==
    /\ active' = ~active
    /\ UNCHANGED <<browser, handler, rows, outcome>>

Next ==
    \/ Browser
    \/ \E i \in Profiles, c \in Numbers : Network(i, c) \/ Gateway(i, c)
    \/ \E i \in Profiles : Dispatch(i) \/ Expire(i)
    \/ RunChanges

Spec == Init /\ [][Next]_vars

\* The browser's timers fire, and a fetch that is not hung settles in the end, by
\* an answer or an error.
FairSpec == Spec /\ WF_vars(GoOn)

-----------------------------------------------------------------------------
(* Properties *)

\* The browser goes on to the next profile only when it knows that the profile
\* before it is settled: never reserved, refused, closed with leave, or answered
\* with a text it has read and rejected.  No doubt, and no answer that nobody
\* reads, is left behind (runStage, postWithTimeout, pollInternalResult against
\* the gateway and the workers).
LeftBehindIsSettled ==
    \A i \in Profiles :
        CASE left[i] = "no" -> TRUE
          [] left[i] = "invalid" -> phase[i] = "answered"
          [] left[i] = "refused" -> Refusable(i)
          [] OTHER -> ~reserved[i]

\* The text that runStage returns, or is about to validate, is that of a
\* request that was made for the current profile and accepted for its stage,
\* also when the post was delivered twice.
ReturnedWasAnswered ==
    pc \in {"validate", "returned"} =>
        /\ phase[at] = "answered" /\ sends[at] = 1
        /\ stage[at] = "succeeded" /\ left[at] = "no"

\* runStage ends, whatever happens to its posts, its attempts and the run, except
\* in a fetch without a timeout that never settles: nothing else is waited for
\* without end (the timeout of the post, recoveryDeadline, the length of a route).
StageEnds == <>(pc \in Ends \cup {"hung"})

\* "a stably absent attempt is known to be pre-send": a profile left behind for
\* want of an attempt is never sent.
AbsentIsPreSend == \A i \in Profiles : left[i] = "absent" => sends[i] = 0

\* "404 and a closed stage-execution binding both occur before this fallback
\* packet is reserved": a rejected post has no attempt that can be sent.
RejectedIsPreSend == \A i \in Profiles : left[i] = "rejected" => sends[i] = 0

\* "Each browser `runStage` call creates one stage execution ID and reuses it
\* across fallbacks".
OneStageExecution == Cardinality({i \in Profiles : stage[i] # "none"}) <= 1

=============================================================================
