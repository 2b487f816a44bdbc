------------------------------ MODULE Dispatch ------------------------------
(***************************************************************************)
(* Governed dispatch of model attempts: the part of the server that sends  *)
(* an approved packet to a model provider.                                 *)
(*                                                                         *)
(* PostgreSQL holds the attempt ledger (lib/controlPlaneRepository.js),    *)
(* Redis the leases, the send-authorization markers, the tombstone and the *)
(* governed results (lib/redisExecutionPlane.js).  Three kinds of process  *)
(* work on them (lib/executionWorker.js): the worker, the publisher of the *)
(* dispatch outbox and the reconciler.  Every SQL statement and every Lua  *)
(* script is one atomic step; a process can be delayed, can fail or can be *)
(* restarted between any two of its steps.                                 *)
(*                                                                         *)
(* One run owns all the attempts of an instance.  Time is abstract: each   *)
(* timer may fire at any moment once it is armed, except where two timers  *)
(* are ordered by their constants (PromptRead, the Redis keys).  Packets,  *)
(* outputs and provider answers are abstracted to what the ledger records  *)
(* of them.                                                                *)
(***************************************************************************)
EXTENDS Naturals

CONSTANTS
    Attempts,      \* rows of model_attempts, all of one run
    Workers,       \* ExecutionWorker job slots, over all server processes
    Publishers,    \* OutboxPublisher instances
    Reconcilers,   \* AttemptReconciler instances
    None,          \* no attempt, no owner
    MaxToken,      \* bound: lease_token of an attempt
    MaxFaults,     \* bound: failed calls, dead jobs and stalls past a lease
    PromptRead     \* a claimed attempt is read back before its lease ends

ASSUME NoneAssumption ==
    /\ None \notin Attempts
    /\ None \notin Publishers
    /\ None \notin Workers
ASSUME BoundsAssumption ==
    /\ MaxToken \in Nat
    /\ MaxFaults \in Nat
    /\ PromptRead \in BOOLEAN

VARIABLES
    \* PostgreSQL
    state,        \* model_attempts.state, "none" before the row exists
    owner,        \* model_attempts.lease_owner
    token,        \* model_attempts.lease_token
    lease,        \* model_attempts.lease_until: "none", "live" or "expired"
    authorized,   \* model_attempts.send_authorized_at is set
    outbox,       \* dispatch_outbox.state; "lapsed": publishing, lease over
    publisher,    \* dispatch_outbox.publish_owner
    packet,       \* the packet: "live", "expired", body "pruned"
    run,          \* runs.state and its expiry, see module DispatchRun
    \* Redis
    rLease,       \* the lease key: a token, 0 if absent
    marker,       \* the send-authorized key: a token, 0 if absent
    result,       \* the result key exists
    tombstone,    \* the tombstone key of the run exists
    stream,       \* attempts notified on the stream
    inbox,        \* per worker: entries behind which its cursor still is
    \* Processes
    pc, att, tok, seen,     \* worker: next step, attempt, token, a.state
    pubPc, pubAtt,          \* publisher
    recPc, recAtt, recSeen, \* reconciler
    \* What happened outside, and the fault budget spent
    sends,        \* provider requests started for the attempt
    refused,      \* the provider's answer was a definitive failure
    stored,       \* a governed result was stored in Redis
    faults

ledger  == <<state, owner, token, lease, authorized>>
delivery == <<outbox, publisher>>
redis   == <<rLease, marker, result, tombstone>>
notices == <<stream, inbox>>
job     == <<pc, att, tok, seen>>
pub     == <<pubPc, pubAtt>>
rec     == <<recPc, recAtt, recSeen>>
history == <<sends, refused, stored>>
vars == <<ledger, delivery, packet, run, redis, notices, job, pub, rec,
          history, faults>>

AttemptStates ==
    {"none", "queued", "dispatch_intent", "send_authorized", "succeeded",
     "fallback_allowed", "outcome_unknown", "cancelled", "result_unavailable"}

\* States in which the attempt still waits for somebody to act on it.
InFlight == {"queued", "dispatch_intent", "send_authorized"}

\* The run, as the dispatch statements see it (module RunLifecycle has it).
Run == INSTANCE DispatchRun

RunStates == Run!RunStates

\* Steps of a worker that has won authorizeAttempt.
Sending == {"invoke", "waiting", "store", "succeed", "unavailable", "reject",
            "unknown"}
BeforeSend == {"read", "cancel", "fallback", "lease", "ambiguous", "intent",
               "decline", "mark", "authorize", "lost"}
WorkerSteps == {"off"} \cup BeforeSend \cup Sending

DatabaseTypes ==
    /\ state \in [Attempts -> AttemptStates]
    /\ owner \in [Attempts -> Workers \cup {None}]
    /\ token \in [Attempts -> Nat]
    /\ lease \in [Attempts -> {"none", "live", "expired"}]
    /\ authorized \in [Attempts -> BOOLEAN]
    /\ outbox \in [Attempts -> {"none", "pending", "publishing", "lapsed",
                              "published"}]
    /\ publisher \in [Attempts -> Publishers \cup {None}]
    /\ packet \in [Attempts -> {"live", "expired", "pruned"}]
    /\ run \in RunStates

RedisTypes ==
    /\ rLease \in [Attempts -> Nat]
    /\ marker \in [Attempts -> Nat]
    /\ result \in [Attempts -> BOOLEAN]
    /\ tombstone \in BOOLEAN
    /\ stream \in SUBSET Attempts
    /\ inbox \in [Workers -> SUBSET Attempts]

\* A process that is under way has an attempt.
ProcessTypes ==
    /\ pc \in [Workers -> WorkerSteps]
    /\ att \in [Workers -> Attempts \cup {None}]
    /\ tok \in [Workers -> Nat]
    /\ seen \in [Workers -> AttemptStates]
    /\ pubPc \in [Publishers -> {"off", "notify", "mark"}]
    /\ pubAtt \in [Publishers -> Attempts \cup {None}]
    /\ recPc \in [Reconcilers -> {"off", "result", "recover", "marker",
                                  "notify", "unknown"}]
    /\ recAtt \in [Reconcilers -> Attempts \cup {None}]
    /\ recSeen \in [Reconcilers -> AttemptStates]
    /\ \A w \in Workers : pc[w] # "off" => att[w] # None
    /\ \A p \in Publishers : pubPc[p] # "off" => pubAtt[p] # None
    /\ \A r \in Reconcilers : recPc[r] # "off" => recAtt[r] # None

HistoryTypes ==
    /\ sends \in [Attempts -> Nat]
    /\ refused \in [Attempts -> BOOLEAN]
    /\ stored \in [Attempts -> BOOLEAN]
    /\ faults \in 0..MaxFaults

TypeOK == DatabaseTypes /\ RedisTypes /\ ProcessTypes /\ HistoryTypes

Init ==
    /\ state = [a \in Attempts |-> "none"]
    /\ owner = [a \in Attempts |-> None]
    /\ token = [a \in Attempts |-> 0]
    /\ lease = [a \in Attempts |-> "none"]
    /\ authorized = [a \in Attempts |-> FALSE]
    /\ outbox = [a \in Attempts |-> "none"]
    /\ publisher = [a \in Attempts |-> None]
    /\ packet = [a \in Attempts |-> "live"]
    /\ run = "active"
    /\ rLease = [a \in Attempts |-> 0]
    /\ marker = [a \in Attempts |-> 0]
    /\ result = [a \in Attempts |-> FALSE]
    /\ tombstone = FALSE
    /\ stream = {}
    /\ inbox = [w \in Workers |-> {}]
    /\ pc = [w \in Workers |-> "off"]
    /\ att = [w \in Workers |-> None]
    /\ tok = [w \in Workers |-> 0]
    /\ seen = [w \in Workers |-> "none"]
    /\ pubPc = [p \in Publishers |-> "off"]
    /\ pubAtt = [p \in Publishers |-> None]
    /\ recPc = [r \in Reconcilers |-> "off"]
    /\ recAtt = [r \in Reconcilers |-> None]
    /\ recSeen = [r \in Reconcilers |-> "none"]
    /\ sends = [a \in Attempts |-> 0]
    /\ refused = [a \in Attempts |-> FALSE]
    /\ stored = [a \in Attempts |-> FALSE]
    /\ faults = 0

-----------------------------------------------------------------------------
(* Helpers *)

\* ATTEMPT_TRANSITIONS: any other pair makes transitionAttempt throw.
AttemptTransitions ==
    ({"queued"} \X {"dispatch_intent", "fallback_allowed", "outcome_unknown",
                    "cancelled"})
    \cup ({"dispatch_intent"} \X {"send_authorized", "fallback_allowed",
                                  "outcome_unknown", "cancelled"})
    \cup ({"send_authorized"} \X {"succeeded", "fallback_allowed",
                                  "outcome_unknown", "result_unavailable"})
    \cup ({"outcome_unknown"} \X {"succeeded", "result_unavailable"})

\* Authoritative activity extends the two-hour expiry of an active run.
Touched == Run!Touched

M_AppliesToAnyState(a, from, to) == <<from, to>> \in AttemptTransitions

Applies(a, from, to) ==
    state[a] = from /\ <<from, to>> \in AttemptTransitions

\* transitionAttempt: a compare-and-swap on the state alone.  It changes
\* nothing when the state has moved on or the pair is not a transition.
transitionAttempt(a, from, to) ==
    /\ state' = IF Applies(a, from, to) THEN [state EXCEPT ![a] = to] ELSE state
    /\ run' = IF Applies(a, from, to) THEN Touched ELSE run

Fault == faults < MaxFaults /\ faults' = faults + 1

Goto(w, step) ==
    /\ pc' = [pc EXCEPT ![w] = step]
    /\ UNCHANGED <<att, tok, seen>>

EndJob(w) ==
    /\ pc' = [pc EXCEPT ![w] = "off"]
    /\ att' = [att EXCEPT ![w] = None]
    /\ tok' = [tok EXCEPT ![w] = 0]
    /\ seen' = [seen EXCEPT ![w] = "none"]

\* notifyAttempt: every worker reads the whole stream with a cursor of its own.
notifyAttempt(a) ==
    /\ stream' = stream \cup {a}
    /\ inbox' = [w \in Workers |-> inbox[w] \cup {a}]

-----------------------------------------------------------------------------
(* The gateway reserves an attempt for an approved packet *)

\* claimPacketAndReserve for a fresh internal call: the attempt and its outbox
\* row are committed together, and only while the run and the packet are live.
Reserve(a) ==
    /\ state[a] = "none"
    /\ run = "active"
    /\ packet[a] = "live"
    /\ state' = [state EXCEPT ![a] = "queued"]
    /\ outbox' = [outbox EXCEPT ![a] = "pending"]
    /\ UNCHANGED <<owner, token, lease, authorized, publisher, packet, run,
                   redis, notices, job, pub, rec, history, faults>>

-----------------------------------------------------------------------------
(* OutboxPublisher.tick *)

\* claimPendingOutbox, for one of the rows it picks.
ClaimOutbox(p, a) ==
    /\ pubPc[p] = "off"
    /\ outbox[a] \in {"pending", "lapsed"}
    /\ outbox' = [outbox EXCEPT ![a] = "publishing"]
    /\ publisher' = [publisher EXCEPT ![a] = p]
    /\ pubPc' = [pubPc EXCEPT ![p] = "notify"]
    /\ pubAtt' = [pubAtt EXCEPT ![p] = a]
    /\ UNCHANGED <<ledger, packet, run, redis, notices, job, rec, history,
                   faults>>

PublishNotice(p) ==
    /\ pubPc[p] = "notify"
    /\ notifyAttempt(pubAtt[p])
    /\ pubPc' = [pubPc EXCEPT ![p] = "mark"]
    /\ UNCHANGED <<ledger, delivery, packet, run, redis, job, pubAtt, rec,
                   history, faults>>

\* markPublished: only by the publisher that still owns the row.
MarkPublished(p) ==
    /\ pubPc[p] = "mark"
    /\ LET a == pubAtt[p]
           mine == outbox[a] \in {"publishing", "lapsed"} /\ publisher[a] = p
       IN  outbox' = IF mine THEN [outbox EXCEPT ![a] = "published"] ELSE outbox
    /\ pubPc' = [pubPc EXCEPT ![p] = "off"]
    /\ pubAtt' = [pubAtt EXCEPT ![p] = None]
    /\ UNCHANGED <<ledger, publisher, packet, run, redis, notices, job, rec,
                   history, faults>>

\* notifyAttempt or markPublished throws, or the process stops.
PublisherDies(p) ==
    /\ pubPc[p] # "off"
    /\ Fault
    /\ pubPc' = [pubPc EXCEPT ![p] = "off"]
    /\ pubAtt' = [pubAtt EXCEPT ![p] = None]
    /\ UNCHANGED <<ledger, delivery, packet, run, redis, notices, job, rec,
                   history>>

ExpirePublishLease(a) ==
    /\ outbox[a] = "publishing"
    /\ outbox' = [outbox EXCEPT ![a] = "lapsed"]
    /\ UNCHANGED <<ledger, publisher, packet, run, redis, notices, job, pub,
                   rec, history, faults>>

-----------------------------------------------------------------------------
(* ExecutionWorker.process, in the order of its calls *)

Claimable(a) == state[a] \in {"queued", "dispatch_intent"} /\ lease[a] # "live"

\* The cursor passes the entry before the claim, so a refused claim drops it.
ClaimAttempt(w, a) ==
    /\ pc[w] = "off"
    /\ a \in inbox[w]
    /\ token[a] < MaxToken
    /\ inbox' = [inbox EXCEPT ![w] = @ \ {a}]
    /\ \/ /\ Claimable(a)
          /\ owner' = [owner EXCEPT ![a] = w]
          /\ token' = [token EXCEPT ![a] = @ + 1]
          /\ lease' = [lease EXCEPT ![a] = "live"]
          /\ pc' = [pc EXCEPT ![w] = "read"]
          /\ att' = [att EXCEPT ![w] = a]
          /\ tok' = [tok EXCEPT ![w] = token[a] + 1]
          /\ UNCHANGED seen
       \/ ~Claimable(a) /\ UNCHANGED <<owner, token, lease, job>>
    /\ UNCHANGED <<state, authorized, delivery, packet, run, redis, stream,
                   pub, rec, history, faults>>

\* getAttempt joins the packet bodies: without a body there is no row and the
\* job ends.  Otherwise the local checks on the row decide the next call: run
\* state and expiry, packet expiry, hash, binding, destination and queue wait.
ReadAttempt(w) ==
    /\ pc[w] = "read"
    /\ LET a == att[w] IN
       \/ packet[a] = "pruned" /\ EndJob(w)
       \/ /\ packet[a] # "pruned"
          /\ seen' = [seen EXCEPT ![w] = state[a]]
          /\ \E next \in {"cancel", "fallback", "lease"} :
                /\ next = "lease" => run = "active" /\ packet[a] = "live"
                /\ run # "active" => next = "cancel"
                /\ next = "fallback" => packet[a] = "expired"
                                        \/ state[a] = "queued"
                /\ run = "active" /\ packet[a] = "expired" => next = "fallback"
                /\ pc' = [pc EXCEPT ![w] = next]
          /\ UNCHANGED <<att, tok>>
    /\ UNCHANGED <<ledger, delivery, packet, run, redis, notices, pub, rec,
                   history, faults>>

\* The last statement of a job: one transition, from the given state.
FinalTransition(w, step, from, to) ==
    /\ pc[w] = step
    /\ transitionAttempt(att[w], from, to)
    /\ EndJob(w)
    /\ UNCHANGED <<owner, token, lease, authorized, delivery, packet, redis,
                   notices, pub, rec, history, faults>>

\* stopBeforeSend with a policy code or RUN_INACTIVE.
StopCancelled(w) == FinalTransition(w, "cancel", seen[w], "cancelled")

\* stopBeforeSend with PACKET_UNAVAILABLE or DEPENDENCY_UNAVAILABLE, and
\* QUEUE_WAIT_EXCEEDED: both transition from the state the job has read.
StopFallback(w) == FinalTransition(w, "fallback", seen[w], "fallback_allowed")

\* setLease.  A tombstone stops the job, a marker makes the attempt ambiguous,
\* a stale lease is overwritten.
SetLease(w) ==
    /\ pc[w] = "lease"
    /\ LET a == att[w] IN
       \/ tombstone /\ Goto(w, "cancel") /\ UNCHANGED rLease
       \/ ~tombstone /\ marker[a] # 0 /\ Goto(w, "ambiguous") /\ UNCHANGED rLease
       \/ /\ ~tombstone /\ marker[a] = 0
          /\ rLease' = [rLease EXCEPT ![a] = tok[w]]
          /\ \/ seen[w] = "queued" /\ Goto(w, "intent")
             \/ seen[w] # "queued" /\ \E next \in {"mark", "decline"} : Goto(w, next)
    /\ UNCHANGED <<ledger, delivery, packet, run, marker, result, tombstone,
                   notices, pub, rec, history, faults>>

\* setLease throws, whether or not Redis has run the script.
SetLeaseThrows(w) ==
    /\ pc[w] = "lease"
    /\ Fault
    /\ Goto(w, "fallback")
    /\ \/ ~tombstone /\ marker[att[w]] = 0
          /\ rLease' = [rLease EXCEPT ![att[w]] = tok[w]]
       \/ UNCHANGED rLease
    /\ UNCHANGED <<ledger, delivery, packet, run, marker, result, tombstone,
                   notices, pub, rec, history>>

StopAmbiguous(w) == FinalTransition(w, "ambiguous", seen[w], "outcome_unknown")

\* queued -> dispatch_intent; the job that loses this race ends.  Whether the
\* provider has a credential is only looked at afterwards.
RecordIntent(w) ==
    /\ pc[w] = "intent"
    /\ transitionAttempt(att[w], "queued", "dispatch_intent")
    /\ \/ /\ state[att[w]] = "queued"
          /\ \E next \in {"mark", "decline"} : Goto(w, next)
       \/ state[att[w]] # "queued" /\ EndJob(w)
    /\ UNCHANGED <<owner, token, lease, authorized, delivery, packet, redis,
                   notices, pub, rec, history, faults>>

StopNotConfigured(w) ==
    FinalTransition(w, "decline", "dispatch_intent", "fallback_allowed")

M_AuthorizeSendAndInvoke(w) ==
    /\ pc[w] = "mark"
    /\ LET a == att[w] IN
       \/ /\ ~tombstone /\ rLease[a] = tok[w] /\ marker[a] = 0
          /\ marker' = [marker EXCEPT ![a] = tok[w]]
          /\ Goto(w, "invoke")
       \/ /\ tombstone \/ rLease[a] # tok[w] \/ marker[a] # 0
          /\ Goto(w, "lost") /\ UNCHANGED marker
    /\ UNCHANGED <<ledger, delivery, packet, run, rLease, result, tombstone,
                   notices, pub, rec, history, faults>>

\* authorizeSend: the marker is written once, by the holder of the Redis lease.
\* Every other answer (0, 2 or 3) ends in DISPATCH_AMBIGUITY.
AuthorizeSend(w) ==
    /\ pc[w] = "mark"
    /\ LET a == att[w] IN
       \/ /\ ~tombstone /\ rLease[a] = tok[w] /\ marker[a] = 0
          /\ marker' = [marker EXCEPT ![a] = tok[w]]
          /\ Goto(w, "authorize")
       \/ /\ tombstone \/ rLease[a] # tok[w] \/ marker[a] # 0
          /\ Goto(w, "lost") /\ UNCHANGED marker
    /\ UNCHANGED <<ledger, delivery, packet, run, rLease, result, tombstone,
                   notices, pub, rec, history, faults>>

StopLost(w) == FinalTransition(w, "lost", "dispatch_intent", "outcome_unknown")

M_CanAuthorizeUnfenced(w) ==
    state[att[w]] = "dispatch_intent" /\ lease[att[w]] = "live" /\ run = "active"

M_CanAuthorizeForAnyRun(w) ==
    /\ state[att[w]] = "dispatch_intent"
    /\ owner[att[w]] = w
    /\ token[att[w]] = tok[w]
    /\ lease[att[w]] = "live"

\* authorizeAttempt: the durable permission to call the provider.
CanAuthorize(w) ==
    /\ state[att[w]] = "dispatch_intent"
    /\ owner[att[w]] = w
    /\ token[att[w]] = tok[w]
    /\ lease[att[w]] = "live"
    /\ run = "active"

AuthorizeAttempt(w) ==
    /\ pc[w] = "authorize"
    /\ \/ /\ CanAuthorize(w)
          /\ state' = [state EXCEPT ![att[w]] = "send_authorized"]
          /\ authorized' = [authorized EXCEPT ![att[w]] = TRUE]
          /\ Goto(w, "invoke")
       \/ ~CanAuthorize(w) /\ Goto(w, "lost") /\ UNCHANGED <<state, authorized>>
    /\ UNCHANGED <<owner, token, lease, delivery, packet, run, redis, notices,
                   pub, rec, history, faults>>

\* invokeProvider starts its single HTTP request.
InvokeProvider(w) ==
    /\ pc[w] = "invoke"
    /\ sends' = [sends EXCEPT ![att[w]] = @ + 1]
    /\ Goto(w, "waiting")
    /\ UNCHANGED <<ledger, delivery, packet, run, redis, notices, pub, rec,
                   refused, stored, faults>>

M_ProviderAnswersWithRetry(w) ==
    /\ pc[w] = "waiting"
    /\ \/ Goto(w, "store") /\ UNCHANGED refused
       \/ Goto(w, "reject") /\ refused' = [refused EXCEPT ![att[w]] = TRUE]
       \/ Goto(w, "invoke") /\ UNCHANGED refused
    /\ UNCHANGED <<ledger, delivery, packet, run, redis, notices, pub, rec,
                   sends, stored, faults>>

\* The call returns: an output that passes inspection and the output contract,
\* a definitive failure (a code of fallbackCodes), or anything else.
ProviderAnswers(w) ==
    /\ pc[w] = "waiting"
    /\ \/ Goto(w, "store") /\ UNCHANGED refused
       \/ Goto(w, "reject") /\ refused' = [refused EXCEPT ![att[w]] = TRUE]
       \/ Goto(w, "unknown") /\ UNCHANGED refused
    /\ UNCHANGED <<ledger, delivery, packet, run, redis, notices, pub, rec,
                   sends, stored, faults>>

HoldsBothLeases(w) ==
    /\ state[att[w]] = "send_authorized"
    /\ owner[att[w]] = w
    /\ token[att[w]] = tok[w]
    /\ lease[att[w]] = "live"
    /\ rLease[att[w]] = tok[w]

\* A heartbeat that cannot renew both leases aborts the call: the outcome is
\* unknown whatever the provider answers.  (A renewal that succeeds changes
\* nothing here: both leases stay live.)
LoseFence(w) ==
    /\ pc[w] = "waiting"
    /\ \/ ~HoldsBothLeases(w) /\ UNCHANGED faults
       \/ HoldsBothLeases(w) /\ Fault
    /\ Goto(w, "unknown")
    /\ UNCHANGED <<ledger, delivery, packet, run, redis, notices, pub, rec,
                   history>>

M_SetResultIgnoringTombstone(w) ==
    /\ pc[w] = "store"
    /\ result' = [result EXCEPT ![att[w]] = TRUE]
    /\ stored' = [stored EXCEPT ![att[w]] = TRUE]
    /\ Goto(w, "succeed")
    /\ UNCHANGED <<ledger, delivery, packet, run, rLease, marker, tombstone,
                   notices, pub, rec, sends, refused, faults>>

\* setResult: refused under a tombstone, otherwise the result is there.
SetResult(w) ==
    /\ pc[w] = "store"
    /\ \/ tombstone /\ Goto(w, "unavailable") /\ UNCHANGED <<result, stored>>
       \/ /\ ~tombstone
          /\ result' = [result EXCEPT ![att[w]] = TRUE]
          /\ stored' = [stored EXCEPT ![att[w]] = TRUE]
          /\ Goto(w, "succeed")
    /\ UNCHANGED <<ledger, delivery, packet, run, rLease, marker, tombstone,
                   notices, pub, rec, sends, refused, faults>>

\* setResult throws, whether or not Redis has run the script.
SetResultThrows(w) ==
    /\ pc[w] = "store"
    /\ Fault
    /\ \/ UNCHANGED <<result, stored>>
       \/ /\ ~tombstone
          /\ result' = [result EXCEPT ![att[w]] = TRUE]
          /\ stored' = [stored EXCEPT ![att[w]] = TRUE]
    /\ Goto(w, "unknown")
    /\ UNCHANGED <<ledger, delivery, packet, run, rLease, marker, tombstone,
                   notices, pub, rec, sends, refused>>

RecordSuccess(w) == FinalTransition(w, "succeed", "send_authorized", "succeeded")

RecordUnavailable(w) ==
    FinalTransition(w, "unavailable", "send_authorized", "result_unavailable")

\* Either of the two transitions above throws inside the try block.
RecordThrows(w) ==
    /\ pc[w] \in {"succeed", "unavailable"}
    /\ Fault
    /\ \/ UNCHANGED <<state, run>>
       \/ transitionAttempt(att[w], "send_authorized",
              IF pc[w] = "succeed" THEN "succeeded" ELSE "result_unavailable")
    /\ Goto(w, "unknown")
    /\ UNCHANGED <<owner, token, lease, authorized, delivery, packet, redis,
                   notices, pub, rec, history>>

RecordRefusal(w) ==
    FinalTransition(w, "reject", "send_authorized", "fallback_allowed")

M_RecordUnknownAsFallback(w) ==
    FinalTransition(w, "unknown", "send_authorized", "fallback_allowed")

RecordUnknown(w) ==
    FinalTransition(w, "unknown", "send_authorized", "outcome_unknown")

\* An exception outside the try block ends the job; a restart of the process
\* (every deployment: shutdown waits 30 seconds at most) also rewinds the
\* cursor to 0-0.
JobDies(w) ==
    /\ Fault
    /\ \/ pc[w] # "off" /\ EndJob(w) /\ UNCHANGED inbox
       \/ EndJob(w) /\ inbox' = [inbox EXCEPT ![w] = stream]
    /\ UNCHANGED <<ledger, delivery, packet, run, redis, stream, pub, rec,
                   history>>

-----------------------------------------------------------------------------
(* AttemptReconciler.tick *)

\* reconcileStale: a published row whose attempt never left is sent again.
ReconcileStale(a) ==
    /\ outbox[a] = "published"
    /\ state[a] \in {"queued", "dispatch_intent"}
    /\ outbox' = [outbox EXCEPT ![a] = "pending"]
    /\ publisher' = [publisher EXCEPT ![a] = None]
    /\ UNCHANGED <<ledger, packet, run, redis, notices, job, pub, rec, history,
                   faults>>

M_ListCandidateUnsentOnly(r, a) ==
    /\ recPc[r] = "off"
    /\ \/ state[a] = "dispatch_intent" /\ lease[a] = "expired"
       \/ state[a] = "outcome_unknown"
    /\ recPc' = [recPc EXCEPT ![r] = "result"]
    /\ recAtt' = [recAtt EXCEPT ![r] = a]
    /\ recSeen' = [recSeen EXCEPT ![r] = state[a]]
    /\ UNCHANGED <<ledger, delivery, packet, run, redis, notices, job, pub,
                   history, faults>>

\* One candidate of listReconciliationCandidates, with its state of that time.
ListCandidate(r, a) ==
    /\ recPc[r] = "off"
    /\ \/ state[a] \in {"dispatch_intent", "send_authorized"} /\ lease[a] = "expired"
       \/ state[a] = "outcome_unknown"
    /\ recPc' = [recPc EXCEPT ![r] = "result"]
    /\ recAtt' = [recAtt EXCEPT ![r] = a]
    /\ recSeen' = [recSeen EXCEPT ![r] = state[a]]
    /\ UNCHANGED <<ledger, delivery, packet, run, redis, notices, job, pub,
                   history, faults>>

RecGoto(r, step) ==
    /\ recPc' = [recPc EXCEPT ![r] = step]
    /\ UNCHANGED <<recAtt, recSeen>>

RecDone(r) ==
    /\ recPc' = [recPc EXCEPT ![r] = "off"]
    /\ recAtt' = [recAtt EXCEPT ![r] = None]
    /\ recSeen' = [recSeen EXCEPT ![r] = "none"]

M_LookForResultOptimistic(r) ==
    /\ recPc[r] = "result"
    /\ RecGoto(r, "recover")
    /\ UNCHANGED <<ledger, delivery, packet, run, redis, notices, job, pub,
                   history, faults>>

LookForResult(r) ==
    /\ recPc[r] = "result"
    /\ RecGoto(r, IF result[recAtt[r]] THEN "recover" ELSE "marker")
    /\ UNCHANGED <<ledger, delivery, packet, run, redis, notices, job, pub,
                   history, faults>>

M_RecoverAuthorizedOnly(r) ==
    /\ recPc[r] = "recover"
    /\ LET a == recAtt[r] IN
       /\ state' = IF state[a] = "send_authorized"
                    THEN [state EXCEPT ![a] = "succeeded"] ELSE state
       /\ run' = IF state[a] = "send_authorized" THEN Touched ELSE run
    /\ RecDone(r)
    /\ UNCHANGED <<owner, token, lease, authorized, delivery, packet, redis,
                   notices, job, pub, history, faults>>

\* recoverSucceeded: a durable governed result wins over the ledger's doubt.
RecoverSucceeded(r) ==
    /\ recPc[r] = "recover"
    /\ LET a == recAtt[r]
           unsettled == state[a] \in {"send_authorized", "outcome_unknown"}
       IN  /\ state' = IF unsettled THEN [state EXCEPT ![a] = "succeeded"] ELSE state
           /\ run' = IF unsettled THEN Touched ELSE run
    /\ RecDone(r)
    /\ UNCHANGED <<owner, token, lease, authorized, delivery, packet, redis,
                   notices, job, pub, history, faults>>

\* Without a marker a dispatch_intent has not been sent and is delivered again.
LookForMarker(r) ==
    /\ recPc[r] = "marker"
    /\ \/ recSeen[r] = "outcome_unknown" /\ RecDone(r)
       \/ /\ recSeen[r] = "dispatch_intent" /\ marker[recAtt[r]] = 0
          /\ RecGoto(r, "notify")
       \/ /\ \/ recSeen[r] = "send_authorized"
             \/ recSeen[r] = "dispatch_intent" /\ marker[recAtt[r]] # 0
          /\ RecGoto(r, "unknown")
    /\ UNCHANGED <<ledger, delivery, packet, run, redis, notices, job, pub,
                   history, faults>>

Renotify(r) ==
    /\ recPc[r] = "notify"
    /\ notifyAttempt(recAtt[r])
    /\ RecDone(r)
    /\ UNCHANGED <<ledger, delivery, packet, run, redis, job, pub, history,
                   faults>>

MarkUnknown(r) ==
    /\ recPc[r] = "unknown"
    /\ transitionAttempt(recAtt[r], recSeen[r], "outcome_unknown")
    /\ RecDone(r)
    /\ UNCHANGED <<owner, token, lease, authorized, delivery, packet, redis,
                   notices, job, pub, history, faults>>

ReconcilerDies(r) ==
    /\ recPc[r] # "off"
    /\ Fault
    /\ RecDone(r)
    /\ UNCHANGED <<ledger, delivery, packet, run, redis, notices, job, pub,
                   history>>

-----------------------------------------------------------------------------
(* Timers *)

\* lease_until passes.  Under a live job this is a stall of that job.
ExpireLease(a) ==
    /\ lease[a] = "live"
    /\ lease' = [lease EXCEPT ![a] = "expired"]
    /\ LET holders == {w \in Workers : att[w] = a /\ tok[w] = token[a]} IN
       /\ PromptRead => \A w \in holders : pc[w] # "read"
       /\ \/ holders = {} /\ UNCHANGED faults
          \/ holders # {} /\ Fault
    /\ UNCHANGED <<state, owner, token, authorized, delivery, packet, run,
                   redis, notices, job, pub, rec, history>>

\* The run is known to be before its absolute deadline.
BeforeDeadline == Run!BeforeDeadline

\* The Redis lease outlives the lease it follows by five seconds, unless the
\* deadline of the run, at which ttl() ends every key, comes first.
ExpireRedisLease(a) ==
    /\ rLease[a] # 0
    /\ ~(BeforeDeadline /\ lease[a] = "live" /\ rLease[a] = token[a])
    /\ rLease' = [rLease EXCEPT ![a] = 0]
    /\ UNCHANGED <<ledger, delivery, packet, run, marker, result, tombstone,
                   notices, job, pub, rec, history, faults>>

\* The marker lives 30 minutes, the lease under which it is written 60 seconds
\* (or, while heartbeats renew it, the 9 minutes of a provider call); but at the
\* deadline of the run it ends, whatever lease runs on.
ExpireMarker(a) ==
    /\ marker[a] # 0
    /\ ~(BeforeDeadline /\ lease[a] = "live" /\ marker[a] = token[a])
    /\ marker' = [marker EXCEPT ![a] = 0]
    /\ UNCHANGED <<ledger, delivery, packet, run, rLease, result, tombstone,
                   notices, job, pub, rec, history, faults>>

ExpireResult(a) ==
    /\ result[a]
    /\ result' = [result EXCEPT ![a] = FALSE]
    /\ UNCHANGED <<ledger, delivery, packet, run, rLease, marker, tombstone,
                   notices, job, pub, rec, history, faults>>

\* The packet expires after 30 minutes; pruneExpiredPacketBodies follows.
ExpirePacket(a) ==
    /\ packet[a] # "pruned"
    /\ packet' = [packet EXCEPT ![a] = IF @ = "live" THEN "expired" ELSE "pruned"]
    /\ UNCHANGED <<ledger, delivery, run, redis, notices, job, pub, rec,
                   history, faults>>

-----------------------------------------------------------------------------
(* The run *)

\* Expiry by inactivity or deadline, suspend, resume, and any terminal state.
RunMoves ==
    /\ Run!Moves
    /\ UNCHANGED <<ledger, delivery, packet, redis, notices, job, pub, rec,
                   history, faults>>

\* The cleanup of an ended run: the tombstone and the deletion of every indexed
\* key are one script.  The index itself lives until the deadline of the run: a
\* lease that a heartbeat has renewed beyond it (renewLease is not capped, as
\* the other keys are) is not found and waits for its own TTL.
Tombstone ==
    /\ Run!Seal
    /\ \E missed \in SUBSET {a \in Attempts : authorized[a]} :
          rLease' = [a \in Attempts |-> IF a \in missed THEN rLease[a] ELSE 0]
    /\ marker' = [a \in Attempts |-> 0]
    /\ result' = [a \in Attempts |-> FALSE]
    /\ UNCHANGED <<ledger, delivery, packet, run, notices, job, pub, rec,
                   history, faults>>

\* recordCleanupEvidence(verified) deletes the bodies of the run's packets.
DeleteBodies ==
    /\ tombstone
    /\ packet' = [a \in Attempts |-> "pruned"]
    /\ UNCHANGED <<ledger, delivery, run, redis, notices, job, pub, rec,
                   history, faults>>

-----------------------------------------------------------------------------

PublisherStep(p) ==
    \/ \E a \in Attempts : ClaimOutbox(p, a)
    \/ PublishNotice(p)
    \/ MarkPublished(p)

\* The steps of a job once it has claimed its attempt.
JobStep(w) ==
    \/ ReadAttempt(w) \/ StopCancelled(w) \/ StopFallback(w)
    \/ SetLease(w) \/ StopAmbiguous(w) \/ RecordIntent(w)
    \/ StopNotConfigured(w) \/ AuthorizeSend(w) \/ StopLost(w)
    \/ AuthorizeAttempt(w) \/ InvokeProvider(w) \/ ProviderAnswers(w)
    \/ SetResult(w) \/ RecordSuccess(w) \/ RecordUnavailable(w)
    \/ RecordRefusal(w) \/ RecordUnknown(w)

JobFault(w) ==
    SetLeaseThrows(w) \/ SetResultThrows(w) \/ RecordThrows(w) \/ JobDies(w)

ReconcilerStep(r) ==
    \/ LookForResult(r) \/ RecoverSucceeded(r) \/ LookForMarker(r)
    \/ Renotify(r) \/ MarkUnknown(r)

Timer(a) ==
    \/ ExpirePublishLease(a) \/ ExpireLease(a) \/ ExpireRedisLease(a)
    \/ ExpireMarker(a) \/ ExpireResult(a) \/ ExpirePacket(a)

Next ==
    \/ \E a \in Attempts : Reserve(a) \/ ReconcileStale(a) \/ Timer(a)
    \/ \E p \in Publishers : PublisherStep(p) \/ PublisherDies(p)
    \/ \E w \in Workers :
          \/ \E a \in Attempts : ClaimAttempt(w, a)
          \/ JobStep(w) \/ LoseFence(w) \/ JobFault(w)
    \/ \E r \in Reconcilers :
          \/ \E a \in Attempts : ListCandidate(r, a)
          \/ ReconcilerStep(r) \/ ReconcilerDies(r)
    \/ RunMoves \/ Tombstone \/ DeleteBodies

Spec == Init /\ [][Next]_vars

\* What the processes' loops guarantee: each goes on with its next step, the
\* loops come back to every entry, row and candidate, and leases run out.
Fairness ==
    /\ \A p \in Publishers :
          /\ WF_vars(PublishNotice(p) \/ MarkPublished(p))
          /\ \A a \in Attempts : SF_vars(ClaimOutbox(p, a))
    /\ \A w \in Workers :
          /\ WF_vars(JobStep(w))
          /\ \A a \in Attempts : SF_vars(ClaimAttempt(w, a))
    /\ \A r \in Reconcilers :
          /\ WF_vars(ReconcilerStep(r))
          /\ \A a \in Attempts : SF_vars(ListCandidate(r, a))
    /\ \A a \in Attempts :
          /\ WF_vars(ReconcileStale(a))
          /\ WF_vars(ExpirePublishLease(a)) /\ WF_vars(ExpireLease(a))

FairSpec == Spec /\ Fairness

-----------------------------------------------------------------------------
(* Properties *)

\* The provider is called at most once for an attempt, and only after
\* PostgreSQL has recorded the authorization: whatever is redelivered,
\* reclaimed, restarted or reconciled (executionWorker.js process,
\* authorizeAttempt, the reconciler's renotification).
SentAtMostOnce ==
    \A a \in Attempts : sends[a] <= 1 /\ (sends[a] # 0 => authorized[a])

\* The two stores agree on who may send: while the sender's lease runs and the
\* run goes on before its absolute deadline, with which every key of it ends,
\* the marker in Redis carries the lease token of PostgreSQL (setLease
\* overwrites stale leases, authorizeSend, claimAttempt).
FenceAgreement ==
    \A a \in Attempts :
        state[a] = "send_authorized" /\ lease[a] = "live" /\ BeforeDeadline
            => marker[a] = token[a]

\* Once a run is tombstoned no marker and no result of it comes back, although
\* workers are still between their calls (childScript, authorizeScript).
CleanedRunHoldsNothing ==
    tombstone => \A a \in Attempts : marker[a] = 0 /\ ~result[a]

\* After the send boundary only a definitive failure of the provider allows a
\* fallback; a crash or an uncertainty never does (process, catch block).
FallbackNeedsRefusal ==
    \A a \in Attempts :
        state[a] = "fallback_allowed" /\ authorized[a] => refused[a]

\* A stored governed result is never given up for a fallback, a cancellation or
\* result_unavailable, and success is recorded only with a stored result
\* (setResult before the transition, recoverSucceeded).
ResultDecides ==
    \A a \in Attempts :
        /\ stored[a] => state[a] \notin {"fallback_allowed", "cancelled",
                                         "result_unavailable"}
        /\ state[a] = "succeeded" => stored[a]

\* The permission to send is only ever granted while the run is live, its keys
\* are not purged and the granted job's marker is in place (authorizeAttempt
\* after authorizeSend, against terminalRun and the tombstone).
AuthorizedWhileRunLives ==
    [][\A a \in Attempts :
          ~authorized[a] /\ authorized'[a]
             => run = "active" /\ ~tombstone /\ marker[a] = token'[a]]_vars

\* What the ledger has settled stays settled, against stale jobs and stale
\* reconciler snapshots; only doubt may still turn into a stored result
\* (ATTEMPT_TRANSITIONS, recoverSucceeded).
SettledIsFinal ==
    [][\A a \in Attempts :
          state[a] \notin InFlight \cup {"none"}
             => \/ state'[a] = state[a]
                \/ /\ state[a] = "outcome_unknown"
                   /\ state'[a] = "succeeded"
                   /\ stored[a]]_vars

\* No attempt stays in flight for ever, unless its packet body is pruned first
\* (outbox, reconcileStale, listReconciliationCandidates together).
AttemptsSettle ==
    \A a \in Attempts :
        state[a] \in InFlight
            ~> (state[a] \notin InFlight \/ packet[a] = "pruned")

\* A result that outlives the doubt about its attempt is recovered before it
\* expires or is cleaned (AttemptReconciler.tick).
ResultsRecovered ==
    \A a \in Attempts :
        state[a] = "outcome_unknown" /\ result[a]
            ~> (state[a] = "succeeded" \/ ~result[a])

\* The worker's own rule for a packet body that is gone: stop the attempt with
\* PACKET_UNAVAILABLE, which allows the fallback (process, !canonicalBody).
MissingBodyFallsBack ==
    [][\A w \in Workers :
          ReadAttempt(w) /\ packet[att[w]] = "pruned"
             => pc'[w] = "fallback"]_vars

=============================================================================
