---------------------------- MODULE RunLifecycle ----------------------------
(***************************************************************************)
(* The life of one assessment run: its states and its expiry in            *)
(* PostgreSQL (lib/controlPlaneRepository.js), the statements behind       *)
(* /api/run (api/run.js) and the cleanup of its transient content by the   *)
(* handlers of requests and by the CleanupWorker of every server           *)
(* (lib/runLifecycleService.js).                                           *)
(*                                                                         *)
(* Every SQL statement or transaction and every Lua script is one step; a  *)
(* handler or a worker can be delayed, can fail or can be restarted        *)
(* between two steps.  The clock counts in units of half the inactivity    *)
(* limit; it stops at the absolute deadline, after which no comparison of  *)
(* the code changes any more.  Quality snapshots, packet bodies and Redis  *)
(* values are opaque.                                                      *)
(***************************************************************************)
EXTENDS Naturals

CONSTANTS
    Handlers,    \* requests of /api/run being handled
    Cleaners,    \* CleanupWorker instances
    Claims,      \* rows of cleanup_attempts
    Snapshots,   \* quality snapshots (with their shadow telemetry)
    Keys,        \* Redis keys of the run: checkpoints, results
    Packets,     \* governed packets of the run
    None,
    Inactivity,  \* LIFETIMES_MS.inactivity
    Absolute,    \* LIFETIMES_MS.absoluteRun
    MaxFaults    \* bound: failed calls, restarts and stalls past a claim

CleanupStates == {"pending", "in_progress", "verified", "retryable_failure"}

ASSUME ActorsAssumption == Handlers \cap Cleaners = {}
ASSUME NoneAssumption == None \notin Snapshots \cup Claims \cup CleanupStates
ASSUME TimesAssumption ==
    /\ Inactivity \in Nat \ {0}
    /\ Absolute \in Nat \ {0}
    /\ MaxFaults \in Nat

VARIABLES
    now,        \* the clock of the database
    run,        \* runs.state
    expires,    \* runs.effective_expires_at
    cleanup,    \* runs.cleanup_status, None for NULL
    quality,    \* the row of run_quality_snapshots
    claims,     \* cleanup_attempts.status; "aged": in_progress for a minute
    bodies,     \* packets whose canonical body is stored
    manifest,   \* checkpoint_metadata.state of the run's checkpoints
    tombstone,  \* Redis: the tombstone key
    content,    \* Redis: indexed keys of the run that exist
    writing,    \* keys that a worker or a checkpoint request will write
    pc, mine,   \* per handler and cleaner: next step, claimed row
    accepted,   \* snapshots that ready or complete have been told are stored
    faults

time  == <<now, expires>>
store == <<bodies, manifest, tombstone, content, writing>>
actor == <<pc, mine>>
vars  == <<now, run, expires, cleanup, quality, claims, bodies, manifest,
           tombstone, content, writing, pc, mine, accepted, faults>>

Actors == Handlers \cup Cleaners

\* RUN_STATES.
Open == {"active", "recovery_required", "ready_for_delivery"}
Ended == {"completed", "failed", "expired", "deletion_requested", "deleted"}

TypeOK ==
    /\ now \in 0..Absolute
    /\ expires \in 0..Absolute
    /\ run \in Open \cup Ended
    /\ cleanup \in CleanupStates \cup {None}
    /\ quality \in Snapshots \cup {None}
    /\ claims \in [Claims -> {"none", "in_progress", "aged", "verified",
                              "retryable_failure"}]
    /\ bodies \in SUBSET Packets
    /\ manifest \in {"none", "available", "deleted", "expired"}
    /\ tombstone \in BOOLEAN
    /\ content \in SUBSET Keys
    /\ writing \in SUBSET Keys
    /\ pc \in [Actors -> {"off", "select", "claim", "tombstone", "record",
                          "retry", "prune"}]
    /\ mine \in [Actors -> Claims \cup {None}]
    /\ accepted \in SUBSET Snapshots
    /\ faults \in 0..MaxFaults

\* effectiveExpiry: LEAST(now + two hours, absolute_deadline_at).
Expiry(t) == IF t + Inactivity <= Absolute THEN t + Inactivity ELSE Absolute

\* createRun.
Init ==
    /\ now = 0
    /\ run = "active"
    /\ expires = Expiry(0)
    /\ cleanup = None
    /\ quality = None
    /\ claims = [k \in Claims |-> "none"]
    /\ bodies = {}
    /\ manifest = "none"
    /\ tombstone = FALSE
    /\ content = {}
    /\ writing = {}
    /\ pc = [c \in Actors |-> "off"]
    /\ mine = [c \in Actors |-> None]
    /\ accepted = {}
    /\ faults = 0

-----------------------------------------------------------------------------
(* Activity of a run *)

Unexpired == now < expires

\* touchRun, and the activity that commitPacket records with the packet's body.
CommitPacket(p) ==
    /\ run = "active" /\ Unexpired
    /\ expires' = Expiry(now)
    /\ bodies' = bodies \cup {p}
    /\ UNCHANGED <<now, run, cleanup, quality, claims, manifest, tombstone,
                   content, writing, actor, accepted, faults>>

\* A checkpoint request reads the run (getRun), a worker wins authorizeAttempt:
\* both write to Redis later.
StartWrite(k) ==
    /\ run \in {"active", "recovery_required"} /\ Unexpired
    /\ k \notin writing
    /\ writing' = writing \cup {k}
    /\ UNCHANGED <<time, run, cleanup, quality, claims, bodies, manifest,
                   tombstone, content, actor, accepted, faults>>

M_FinishWriteUnfenced(k) ==
    /\ k \in writing
    /\ writing' = writing \ {k}
    /\ content' = content \cup {k}
    /\ UNCHANGED <<time, run, cleanup, quality, claims, bodies, manifest,
                   tombstone, actor, accepted, faults>>

\* createChild (setCheckpoint, setResult), or the writer has given up.
FinishWrite(k) ==
    /\ k \in writing
    /\ writing' = writing \ {k}
    /\ \/ UNCHANGED content
       \/ ~tombstone /\ content' = content \cup {k}
    /\ UNCHANGED <<time, run, cleanup, quality, claims, bodies, manifest,
                   tombstone, actor, accepted, faults>>

M_CommitCheckpointLate ==
    /\ Unexpired
    /\ expires' = Expiry(now)
    /\ manifest' = "available"
    /\ UNCHANGED <<now, run, cleanup, quality, claims, bodies, tombstone,
                   content, writing, actor, accepted, faults>>

\* commitCheckpoint: the manifest lists a checkpoint that is in Redis.
CommitCheckpoint ==
    /\ run \in {"active", "recovery_required"} /\ Unexpired
    /\ expires' = Expiry(now)
    /\ manifest' = "available"
    /\ UNCHANGED <<now, run, cleanup, quality, claims, bodies, tombstone,
                   content, writing, actor, accepted, faults>>

\* transitionAttempt and recoverSucceeded touch an active run without looking
\* at its expiry.
TouchUnchecked ==
    /\ run = "active"
    /\ expires' = Expiry(now)
    /\ UNCHANGED <<now, run, cleanup, quality, claims, store, actor, accepted,
                   faults>>

\* The TTL of a key.
ExpireKey(k) ==
    /\ k \in content
    /\ content' = content \ {k}
    /\ UNCHANGED <<time, run, cleanup, quality, claims, bodies, manifest,
                   tombstone, writing, actor, accepted, faults>>

Tick ==
    /\ now < Absolute
    /\ now' = now + 1
    /\ UNCHANGED <<run, expires, cleanup, quality, claims, store, actor,
                   accepted, faults>>

-----------------------------------------------------------------------------
(* Requests of /api/run that only change the run *)

\* suspend: markRunRecoverable.
Suspend ==
    /\ run \in {"active", "recovery_required"} /\ now < Absolute
    /\ run' = "recovery_required"
    /\ expires' = Expiry(now)
    /\ UNCHANGED <<now, cleanup, quality, claims, store, actor, accepted, faults>>

M_ResumeAny ==
    /\ run \in {"recovery_required", "expired"} /\ now < Absolute
    /\ run' = "active"
    /\ expires' = Expiry(now)
    /\ UNCHANGED <<now, cleanup, quality, claims, store, actor, accepted, faults>>

\* resume: resumeRun.
Resume ==
    /\ run = "recovery_required" /\ now < Absolute
    /\ run' = "active"
    /\ expires' = Expiry(now)
    /\ UNCHANGED <<now, cleanup, quality, claims, store, actor, accepted, faults>>

M_ReadyOverwrites(q) ==
    /\ run \in {"active", "ready_for_delivery"}
    /\ run' = "ready_for_delivery"
    /\ quality' = q
    /\ accepted' = accepted \cup {q}
    /\ expires' = Expiry(now)
    /\ UNCHANGED <<now, cleanup, claims, store, actor, faults>>

\* ready: readyRunWithQuality.  A repeated request must bring the same snapshot.
Ready(q) ==
    /\ \/ /\ run = "active"
          /\ run' = "ready_for_delivery"
          /\ quality' = q
          /\ expires' = Expiry(now)
       \/ /\ run = "ready_for_delivery" /\ quality = q
          /\ UNCHANGED <<run, quality, expires>>
    /\ accepted' = accepted \cup {q}
    /\ UNCHANGED <<now, cleanup, claims, store, actor, faults>>

-----------------------------------------------------------------------------
(* Requests of /api/run that end the run, and then clean it *)

\* COALESCE(cleanup_status,'pending').
Requested == IF cleanup = None THEN "pending" ELSE cleanup

\* The rest of the request (finishCleanup, transition): done if already clean.
ThenClean(h) ==
    /\ pc[h] = "off"
    /\ cleanup' = Requested
    /\ pc' = [pc EXCEPT ![h] = IF cleanup = "verified" THEN "off" ELSE "claim"]
    /\ UNCHANGED <<now, expires, claims, store, mine, faults>>

\* acknowledge: acknowledgeDelivery.
Acknowledge(h) ==
    /\ run \in {"ready_for_delivery", "completed"}
    /\ run' = "completed"
    /\ ThenClean(h)
    /\ UNCHANGED <<quality, accepted>>

\* complete: completeRunWithQuality.
Complete(h, q) ==
    /\ \/ run = "active" /\ quality' = q
       \/ run = "completed" /\ quality = q /\ UNCHANGED quality
    /\ run' = "completed"
    /\ accepted' = accepted \cup {q}
    /\ ThenClean(h)

\* fail: terminalRun(failed).
Fail(h) ==
    /\ run \in {"active", "recovery_required", "failed"}
    /\ run' = "failed"
    /\ ThenClean(h)
    /\ UNCHANGED <<quality, accepted>>

\* delete: terminalRun(deletion_requested), from every state.
Delete(h) ==
    /\ run' = IF cleanup = "verified" \/ run = "deleted"
              THEN "deleted" ELSE "deletion_requested"
    /\ ThenClean(h)
    /\ UNCHANGED <<quality, accepted>>

-----------------------------------------------------------------------------
(* CleanupWorker.tick *)

\* expireRuns, the first statement of a tick.
ExpireRuns(c) ==
    /\ pc[c] = "off"
    /\ pc' = [pc EXCEPT ![c] = "select"]
    /\ \/ /\ run \in Open /\ ~Unexpired
          /\ run' = "expired"
          /\ cleanup' = "pending"
       \/ ~(run \in Open /\ ~Unexpired) /\ UNCHANGED <<run, cleanup>>
    /\ UNCHANGED <<time, quality, claims, store, mine, accepted, faults>>

InProgress == {k \in Claims : claims[k] \in {"in_progress", "aged"}}
Fresh == {k \in Claims : claims[k] = "in_progress"}
Aged == {k \in Claims : claims[k] = "aged"}

\* claimCleanupCandidates: the runs it selects are claimed one by one.
SelectCandidate(c) ==
    /\ pc[c] = "select"
    /\ LET candidate == \/ cleanup \in {"pending", "retryable_failure"}
                        \/ cleanup = "in_progress" /\ Fresh = {}
       IN  pc' = [pc EXCEPT ![c] = IF candidate THEN "claim" ELSE "prune"]
    /\ UNCHANGED <<time, run, cleanup, quality, claims, store, mine, accepted,
                   faults>>

\* trimAttempts, pruneExpiredPacketBodies, pruneMetadata (metadata outlives the
\* model): the end of a tick.
Prune(c) ==
    /\ pc[c] = "prune"
    /\ pc' = [pc EXCEPT ![c] = "off"]
    /\ bodies' \in SUBSET bodies
    /\ UNCHANGED <<time, run, cleanup, quality, claims, manifest, tombstone,
                   content, writing, mine, accepted, faults>>

-----------------------------------------------------------------------------
(* Cleaning, by a request or by the worker *)

Fault == faults < MaxFaults /\ faults' = faults + 1

\* A request replies, the worker goes on with its tick.
Finish(c) ==
    /\ pc' = [pc EXCEPT ![c] = IF c \in Cleaners THEN "prune" ELSE "off"]
    /\ mine' = [mine EXCEPT ![c] = None]

M_ClaimableOnce == cleanup = "pending"

Claimable ==
    \/ cleanup \in {"pending", "retryable_failure"}
    \/ cleanup = "in_progress" /\ Aged # {}

\* claimCleanup: one statement gives up the claims of a minute ago and makes
\* a new one if the run waits for its cleanup.
ClaimCleanup(c) ==
    /\ pc[c] = "claim"
    /\ LET given == [k \in Claims |->
                       IF k \in Aged THEN "retryable_failure" ELSE claims[k]]
       IN  \/ /\ Claimable
              /\ \E k \in Claims :
                    /\ claims[k] = "none"
                    /\ claims' = [given EXCEPT ![k] = "in_progress"]
                    /\ mine' = [mine EXCEPT ![c] = k]
              /\ cleanup' = "in_progress"
              /\ pc' = [pc EXCEPT ![c] = "tombstone"]
           \/ /\ ~Claimable
              /\ claims' = given
              /\ Finish(c)
              /\ UNCHANGED cleanup
    /\ UNCHANGED <<time, run, quality, store, accepted, faults>>

\* tombstone: the tombstone and the deletion of every indexed key are one script.
Purge(c) ==
    /\ pc[c] = "tombstone"
    /\ tombstone' = TRUE
    /\ content' = {}
    /\ pc' = [pc EXCEPT ![c] = "record"]
    /\ UNCHANGED <<time, run, cleanup, quality, claims, bodies, manifest,
                   writing, mine, accepted, faults>>

\* The call throws, whether or not Redis has run the script.
PurgeThrows(c) ==
    /\ pc[c] = "tombstone"
    /\ Fault
    /\ \/ UNCHANGED <<tombstone, content>>
       \/ tombstone' = TRUE /\ content' = {}
    /\ pc' = [pc EXCEPT ![c] = "retry"]
    /\ UNCHANGED <<time, run, cleanup, quality, claims, bodies, manifest,
                   writing, mine, accepted>>

M_CurrentUnfenced(c) == cleanup = "in_progress"

\* The claim is still the actor's own, and the run is being cleaned.
Current(c) == mine[c] \in InProgress /\ cleanup = "in_progress"

\* recordCleanupEvidence(verified), one transaction.
Verify(c) ==
    \/ /\ Current(c)
       /\ claims' = [claims EXCEPT ![mine[c]] = "verified"]
       /\ cleanup' = "verified"
       /\ run' = IF run = "deletion_requested" THEN "deleted" ELSE run
       /\ bodies' = {}
       /\ manifest' = IF manifest # "available" THEN manifest
                      ELSE IF run = "expired" THEN "expired" ELSE "deleted"
    \/ ~Current(c) /\ UNCHANGED <<claims, cleanup, run, bodies, manifest>>

RecordVerified(c) ==
    /\ pc[c] = "record"
    /\ Verify(c)
    /\ Finish(c)
    /\ UNCHANGED <<time, quality, tombstone, content, writing, accepted, faults>>

\* The call throws, whether or not the transaction has committed.
RecordThrows(c) ==
    /\ pc[c] = "record"
    /\ Fault
    /\ Verify(c) \/ UNCHANGED <<claims, cleanup, run, bodies, manifest>>
    /\ pc' = [pc EXCEPT ![c] = "retry"]
    /\ UNCHANGED <<time, quality, tombstone, content, writing, mine, accepted>>

\* recordCleanupEvidence(retryable_failure).
RecordRetryable(c) ==
    /\ pc[c] = "retry"
    /\ \/ /\ Current(c)
          /\ claims' = [claims EXCEPT ![mine[c]] = "retryable_failure"]
          /\ cleanup' = "retryable_failure"
       \/ ~Current(c) /\ UNCHANGED <<claims, cleanup>>
    /\ Finish(c)
    /\ UNCHANGED <<time, run, quality, store, accepted, faults>>

\* A restart, or an exception that ends the request or the tick.
ActorDies(c) ==
    /\ pc[c] # "off"
    /\ Fault
    /\ pc' = [pc EXCEPT ![c] = "off"]
    /\ mine' = [mine EXCEPT ![c] = None]
    /\ UNCHANGED <<time, run, cleanup, quality, claims, store, accepted>>

\* attempted_at is a minute ago.  Under a live holder this is a stall.
AgeClaim(k) ==
    /\ claims[k] = "in_progress"
    /\ claims' = [claims EXCEPT ![k] = "aged"]
    /\ \/ (\A c \in Actors : mine[c] # k) /\ UNCHANGED faults
       \/ (\E c \in Actors : mine[c] = k) /\ Fault
    /\ UNCHANGED <<time, run, cleanup, quality, store, actor, accepted>>

-----------------------------------------------------------------------------

Activity ==
    \/ \E p \in Packets : CommitPacket(p)
    \/ \E k \in Keys : StartWrite(k) \/ FinishWrite(k) \/ ExpireKey(k)
    \/ CommitCheckpoint \/ TouchUnchecked \/ Suspend \/ Resume
    \/ \E q \in Snapshots : Ready(q)

EndRequest(h) ==
    \/ Acknowledge(h) \/ Fail(h) \/ Delete(h)
    \/ \E q \in Snapshots : Complete(h, q)

CleanStep(c) ==
    \/ ClaimCleanup(c) \/ Purge(c) \/ RecordVerified(c) \/ RecordRetryable(c)

TickStep(c) == ExpireRuns(c) \/ SelectCandidate(c) \/ Prune(c)

CleanFault(c) == PurgeThrows(c) \/ RecordThrows(c) \/ ActorDies(c)

Next ==
    \/ Activity
    \/ \E h \in Handlers : EndRequest(h)
    \/ \E c \in Cleaners : TickStep(c)
    \/ \E c \in Actors : CleanStep(c) \/ CleanFault(c)
    \/ \E k \in Claims : AgeClaim(k)
    \/ Tick

Spec == Init /\ [][Next]_vars

\* Time passes, the worker's loop goes on, a request that has started to clean
\* goes on, and a claim that nobody holds any more grows old.
Fairness ==
    /\ WF_vars(Tick)
    /\ \A c \in Cleaners : WF_vars(TickStep(c) \/ CleanStep(c))
    /\ \A h \in Handlers : WF_vars(CleanStep(h))
    /\ \A k \in Claims : WF_vars(AgeClaim(k))

FairSpec == Spec /\ Fairness

-----------------------------------------------------------------------------
(* Properties *)

\* However many requests and workers clean the run, it is being cleaned exactly
\* while one claim is in progress: no two evidences, and no run that is
\* in_progress for ever because its claim is gone (claimCleanup,
\* recordCleanupEvidence).
OneCleanupClaim ==
    /\ \A j, k \in InProgress : j = k
    /\ cleanup = "in_progress" <=> InProgress # {}

\* `deleted` is recorded only after verified cleanup; and a verified cleanup is
\* true, and stays true: no key, no packet body and no manifest entry of the
\* run is left or comes back (terminalRun, cleanupClaim, createChild).
CleanedMeansGone ==
    /\ run = "deleted" => cleanup = "verified"
    /\ cleanup = "verified" =>
          /\ tombstone
          /\ content = {} /\ bodies = {} /\ manifest # "available"

\* A run that can still go on, or whose report waits to be fetched, keeps its
\* content: nobody cleans it (acknowledgeDelivery, expireRuns).
OpenRunsKeepContent ==
    run \in Open => ~tombstone /\ cleanup = None /\ InProgress = {}

\* Of several requests to deliver, all that are answered with success have
\* brought the snapshot that is stored (readyRunWithQuality,
\* completeRunWithQuality).
OneSnapshot ==
    /\ accepted = IF quality = None THEN {} ELSE {quality}
    /\ run \in {"ready_for_delivery", "completed"} => quality # None

\* An ended run is never opened or delivered again, and a cleaned run is not
\* cleaned again (every statement on runs.state, against requests that arrive
\* late or twice).
EndedIsFinal ==
    [][/\ run \in Ended =>
            \/ run' = run
            \/ run # "deleted" /\ run' \in {"deletion_requested", "deleted"}
       /\ cleanup = "verified" => cleanup' = "verified"]_vars

\* Every run ends and its cleanup is verified, whoever fails on the way
\* (expireRuns, claimCleanupCandidates, the age of a claim).
RunsAreCleaned == <>(cleanup = "verified")

\* "Active runs expire [...] always within an immutable 24-hour deadline": past
\* the deadline an active run is not delivered any more.
DeadlineEndsRuns ==
    [][run = "active" /\ now = Absolute
          => run' \notin {"ready_for_delivery", "completed"}]_vars

=============================================================================
