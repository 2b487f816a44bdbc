------------------------------ MODULE Delivery ------------------------------
(***************************************************************************)
(* From the accepted boundaries of an analysis to the report in the        *)
(* browser: the checkpoints a run saves on its way                         *)
(* (src/services/analysisService.ts, api/checkpoint.js), in Redis with     *)
(* their metadata in PostgreSQL, the delivery of the report, and what a    *)
(* tab that is loaded again recovers (src/App.tsx,                         *)
(* src/services/checkpointRecoveryService.ts).                             *)
(*                                                                         *)
(* The run and its cleanup are those of module RunLifecycle, reduced to    *)
(* what a checkpoint can see of them.  A save is the number of its call in *)
(* the pipeline, and stands for its checkpoint id, its payload and its     *)
(* hash.                                                                   *)
(*                                                                         *)
(* Every Redis key of the run ends with the run's absolute deadline        *)
(* (RedisExecutionPlane.ttl), while its rows stay until the cleanup.       *)
(***************************************************************************)
EXTENDS Naturals, Sequences, FiniteSets

CONSTANTS
    Pipeline,  \* the kind (and scope) of every checkpoint() call, in order
    Reloads,   \* bound: how often the tab crashes or is loaded again
    MaxFaults  \* bound: how many faults strike, see FaultKinds

\* reset: the browser loses a connection while the handler goes on;
\* commit: a COMMIT whose reply is lost; redis: a Redis call that throws;
\* crash: a handler that dies; quota: sessionStorage refuses the report;
\* call: a list or load request of the recovery that fails.
FaultKinds == {"reset", "commit", "redis", "crash", "quota", "call"}

ASSUME PipelineAssumption ==
    /\ Pipeline \in Seq(STRING)
    /\ Len(Pipeline) > 0 /\ Pipeline[Len(Pipeline)] = "final_report"
    /\ Reloads \in Nat /\ MaxFaults \in Nat

Saves == 1..Len(Pipeline)

VARIABLES
    pc, step,        \* the tab: what it does; the next checkpoint() call
    parent, told,    \* checkpointParentHash (0: none); saves answered with 201
    key, session,    \* localStorage: the run's id; sessionStorage: the report
    shown, reloads,  \* the report the tab shows
    seen, listed,    \* recovery: the run's state and the manifest it has read
    chosen,          \* recovery: the checkpoints its report is made of
    handler, under,  \* per save: the request's progress, its parent_hash
    revision,        \* checkpoint_metadata: revision, 0 for no row
    manifest,        \* the rows that are available
    values, index,   \* Redis: checkpoint keys, and those in the run's index
    tombstone, run, clean,
    due,             \* the run's absolute deadline has passed
    faults, struck   \* how many faults there were, and of which kinds

tab    == <<pc, step, parent, told, key, session, shown, reloads, seen, listed,
            chosen>>
store  == <<handler, under, revision, manifest, values, index>>
server == <<tombstone, run, clean, due>>
fault  == <<faults, struck>>
vars   == <<tab, store, server, fault>>

Reports == {"none", "partial", "final"}
Open == {"active", "recovery_required", "ready_for_delivery"}
Usable == run \in {"active", "recovery_required"}

\* The runs for which a checkpoint is accepted.
Taking == Usable /\ ~due

TypeOK ==
    /\ pc \in {"save", "wait", "ready", "hold", "ack", "shown", "recover",
               "list", "load", "unavailable", "rest"}
    /\ step \in 1..(Len(Pipeline) + 1) /\ (pc = "wait" => step \in Saves)
    /\ parent \in Saves \cup {0} /\ told \in SUBSET Saves
    /\ key \in BOOLEAN /\ session \in Reports /\ shown \in Reports
    /\ reloads \in 0..Reloads
    /\ seen \in Open \cup {"none", "completed"}
    /\ listed \in SUBSET Saves /\ chosen \in SUBSET Saves
    /\ handler \in [Saves -> {"none", "arrived", "admitted", "stored",
                              "unindex", "delete", "saved", "error"}]
    /\ under \in [Saves -> Saves \cup {0}]
    /\ revision \in [Saves -> Nat]
    /\ manifest \in SUBSET Saves /\ values \in SUBSET Saves
    /\ index \in SUBSET values
    /\ tombstone \in BOOLEAN /\ due \in BOOLEAN
    /\ run \in Open \cup {"completed", "failed", "ended"}
    /\ clean \in {"none", "pending", "purged", "verified"}
    /\ faults \in 0..MaxFaults /\ struck \in SUBSET FaultKinds

\* createRun, and onRunStarted writes ACTIVE_RUN_KEY.
Init ==
    /\ pc = "save" /\ step = 1
    /\ parent = 0 /\ told = {}
    /\ key = TRUE /\ session = "none" /\ shown = "none" /\ reloads = 0
    /\ seen = "none" /\ listed = {} /\ chosen = {}
    /\ handler = [i \in Saves |-> "none"]
    /\ under = [i \in Saves |-> 0]
    /\ revision = [i \in Saves |-> 0]
    /\ manifest = {} /\ values = {} /\ index = {}
    /\ tombstone = FALSE /\ run = "active" /\ clean = "none" /\ due = FALSE
    /\ faults = 0 /\ struck = {}

Fault(kind) ==
    /\ faults < MaxFaults
    /\ faults' = faults + 1
    /\ struck' = struck \cup {kind}

Fine == UNCHANGED fault

-----------------------------------------------------------------------------
(* The pipeline in the tab *)

M_Post ==
    /\ pc = "save" /\ step \in Saves
    /\ pc' = "wait"
    /\ handler' = [handler EXCEPT ![step] = "arrived"]
    /\ under' = [under EXCEPT ![step] = parent]
    /\ parent' = step
    /\ UNCHANGED <<step, told, key, session, shown, reloads, seen, listed,
                   chosen, revision, manifest, values, index, server, fault>>

\* saveCheckpoint posts, with the hash of the last save that was answered.
Post ==
    /\ pc = "save" /\ step \in Saves
    /\ pc' = "wait"
    /\ handler' = [handler EXCEPT ![step] = "arrived"]
    /\ under' = [under EXCEPT ![step] = parent]
    /\ UNCHANGED <<step, parent, told, key, session, shown, reloads, seen,
                   listed, chosen, revision, manifest, values, index, server,
                   fault>>

\* checkpoint(): a save that fails is logged and the pipeline goes on.
Answered ==
    /\ pc = "wait"
    /\ \/ /\ handler[step] = "saved" /\ Fine
          /\ parent' = step /\ told' = told \cup {step}
       \/ handler[step] = "error" /\ Fine /\ UNCHANGED <<parent, told>>
       \/ Fault("reset") /\ UNCHANGED <<parent, told>>
    /\ step' = step + 1
    /\ pc' = IF step = Len(Pipeline) THEN "ready" ELSE "save"
    /\ UNCHANGED <<key, session, shown, reloads, seen, listed, chosen, store,
                   server>>

\* An error of the pipeline: suspend a run with a checkpoint, fail another.
PipelineFails ==
    /\ pc = "save"
    /\ \/ /\ told # {} /\ Taking
          /\ run' = "recovery_required"
          /\ UNCHANGED clean
       \/ /\ told = {} /\ Usable
          /\ run' = "failed" /\ clean' = "pending"
       \/ UNCHANGED <<run, clean>>
    /\ pc' = "rest"
    /\ UNCHANGED <<step, parent, told, key, session, shown, reloads, seen,
                   listed, chosen, store, tombstone, due, fault>>

\* readyRun.  The report is returned even if the call fails.
MarkReady ==
    /\ pc = "ready"
    /\ \/ run = "active" /\ run' = "ready_for_delivery"
       \/ UNCHANGED run
    /\ pc' = "hold"
    /\ UNCHANGED <<step, parent, told, key, session, shown, reloads, seen,
                   listed, chosen, store, tombstone, clean, due, fault>>

\* saveAssessmentToSession, setPreparedResult.
Show(report, next) ==
    /\ shown' = report
    /\ \/ session' = report /\ Fine
       \/ Fault("quota") /\ UNCHANGED session
    /\ pc' = next

Keep ==
    /\ pc = "hold"
    /\ Show("final", "ack")
    /\ UNCHANGED <<step, parent, told, key, reloads, seen, listed, chosen,
                   store, server>>

\* acknowledgeDelivery: the run's cleanup is due.
Complete ==
    /\ run \in {"ready_for_delivery", "completed"}
    /\ run' = "completed"
    /\ clean' = IF clean = "none" THEN "pending" ELSE clean
    /\ key' = FALSE

\* acknowledgeRun after the report is shown.
Acknowledge ==
    /\ pc = "ack"
    /\ Complete \/ UNCHANGED <<run, clean, key>>
    /\ pc' = "shown"
    /\ UNCHANGED <<step, parent, told, session, shown, reloads, seen, listed,
                   chosen, store, tombstone, due, fault>>

\* The effect on a shown result whose run still is the active one.
Effect ==
    /\ pc = "shown" /\ key
    /\ pc' = "rest"
    /\ \/ Complete
       \/ /\ run \notin {"recovery_required", "ready_for_delivery"}
          /\ run = "completed" => clean = "verified"
          /\ key' = FALSE
          /\ UNCHANGED <<run, clean>>
       \/ UNCHANGED <<run, clean, key>>
    /\ UNCHANGED <<step, parent, told, session, shown, reloads, seen, listed,
                   chosen, store, tombstone, due, fault>>

-----------------------------------------------------------------------------
(* The tab is loaded again *)

Reload ==
    /\ reloads < Reloads
    /\ reloads' = reloads + 1
    /\ shown' = session
    /\ pc' = IF session # "none" THEN "shown" ELSE IF key THEN "recover" ELSE "rest"
    /\ parent' = 0 /\ seen' = "none" /\ listed' = {} /\ chosen' = {}
    /\ UNCHANGED <<step, told, key, session, store, server, fault>>

Recoverable ==
    \/ run \in {"recovery_required", "ready_for_delivery"}
    \/ run = "completed" /\ clean # "verified"

\* getRun: a run that cannot be recovered is forgotten.
ReadRun ==
    /\ pc = "recover"
    /\ \/ Recoverable /\ pc' = "list" /\ seen' = run /\ UNCHANGED key
       \/ ~Recoverable /\ pc' = "rest" /\ key' = FALSE /\ UNCHANGED seen
       \/ pc' = "unavailable" /\ UNCHANGED <<key, seen>>
    /\ UNCHANGED <<step, parent, told, session, shown, reloads, listed, chosen,
                   store, server, fault>>

\* listCheckpoints.
List ==
    /\ pc = "list"
    /\ \/ listed' = manifest /\ pc' = "load" /\ Fine
       \/ pc' = "unavailable" /\ Fault("call") /\ UNCHANGED listed
    /\ UNCHANGED <<step, parent, told, key, session, shown, reloads, seen,
                   chosen, store, server>>

M_Candidates(kind) ==
    {i \in listed : Pipeline[i] = kind /\ under[i] = 0}

\* The manifest's entries of a kind whose parent is in the manifest.
Candidates(kind) ==
    {i \in listed : Pipeline[i] = kind /\ (under[i] = 0 \/ under[i] \in listed)}

M_Latest(kind) ==
    {i \in Candidates(kind) : \A j \in Candidates(kind) : revision[i] <= revision[j]}

\* latest: the highest revision whose parent_hash is in the manifest.
Latest(kind) ==
    {i \in Candidates(kind) : \A j \in Candidates(kind) : revision[j] <= revision[i]}

Analysis == Latest("phase1") \cup Latest("phase2")
Additions == Latest("synthesis") \cup Latest("quality_gate")

\* recoverCheckpointResult: the final report, or what the accepted phases give
\* with the synthesis and the verdict that go with them, if there are any.
Load ==
    LET complete == Latest("final_report") # {}
        enough == complete \/ Cardinality(Analysis) = 2
        used == IF complete THEN Latest("final_report")
                ELSE IF enough THEN Analysis \cup Additions ELSE Analysis
    IN
    /\ pc = "load"
    /\ \/ /\ enough /\ used \subseteq manifest \cap values
          /\ chosen' = used
          /\ IF complete
             THEN Show("final", IF seen = "recovery_required" THEN "shown" ELSE "ack")
             ELSE Show("partial", "shown")
       \/ /\ \/ ~(used \subseteq manifest \cap values) /\ Fine
             \/ used # {} /\ Fault("call")
          /\ pc' = "unavailable"
          /\ UNCHANGED <<session, shown, chosen>>
       \/ /\ ~enough /\ used \subseteq manifest \cap values
          /\ pc' = "rest"
          /\ UNCHANGED <<session, shown, chosen, fault>>
    /\ UNCHANGED <<step, parent, told, key, reloads, seen, listed, store, server>>

-----------------------------------------------------------------------------
(* The handler of POST /api/checkpoint for save i *)

Now(i, what) == handler' = [handler EXCEPT ![i] = what]

\* getRun.
Admit(i) ==
    /\ handler[i] = "arrived"
    /\ \/ Taking /\ Now(i, "admitted")
       \/ Now(i, "error")
    /\ UNCHANGED <<tab, under, revision, manifest, values, index, server, fault>>

\* setCheckpoint.
SetValue(i) ==
    /\ handler[i] = "admitted"
    /\ \/ /\ ~tombstone
          /\ values' = values \cup {i} /\ index' = index \cup {i}
          /\ (Now(i, "stored") /\ Fine) \/ (Now(i, "error") /\ Fault("redis"))
       \/ /\ (tombstone /\ Fine) \/ Fault("redis")
          /\ Now(i, "error")
          /\ UNCHANGED <<values, index>>
    /\ UNCHANGED <<tab, under, revision, manifest, server>>

NextRevision(kind) ==
    1 + Cardinality({j \in Saves : Pipeline[j] = kind /\ revision[j] > 0})

M_AcceptsAnyRun == TRUE

\* commitCheckpoint looks at the run again, under its lock.
Accepts == Taking

M_Answer == "saved"

\* No row: the value is removed again.
Answer == "unindex"

\* commitCheckpoint, one transaction.
Commit(i) ==
    /\ handler[i] = "stored"
    /\ \/ /\ Accepts
          /\ revision' = [revision EXCEPT ![i] = NextRevision(Pipeline[i])]
          /\ manifest' = manifest \cup {i}
          /\ (Now(i, "saved") /\ Fine) \/ (Now(i, "unindex") /\ Fault("commit"))
       \/ ~Accepts /\ Now(i, Answer) /\ Fine /\ UNCHANGED <<revision, manifest>>
       \/ Now(i, "unindex") /\ Fine /\ UNCHANGED <<revision, manifest>>
    /\ UNCHANGED <<tab, under, values, index, server>>

\* removeCheckpoint: SREM, then DEL.  An exception is swallowed.
Unindex(i) ==
    /\ handler[i] = "unindex"
    /\ \/ /\ index' = index \ {i}
          /\ (Now(i, "delete") /\ Fine) \/ (Now(i, "error") /\ Fault("redis"))
       \/ Now(i, "error") /\ Fault("redis") /\ UNCHANGED index
    /\ UNCHANGED <<tab, under, revision, manifest, values, server>>

Delete(i) ==
    /\ handler[i] = "delete"
    /\ \/ values' = values \ {i} /\ Fine
       \/ Fault("redis") /\ UNCHANGED values
    /\ Now(i, "error")
    /\ UNCHANGED <<tab, under, revision, manifest, index, server>>

Crash(i) ==
    /\ Fault("crash")
    /\ handler[i] \notin {"none", "saved", "error"}
    /\ Now(i, "error")
    /\ UNCHANGED <<tab, under, revision, manifest, values, index, server>>

-----------------------------------------------------------------------------
(* The run and its cleanup *)

\* Expiry, or deletion by the user.
EndRun ==
    /\ run \in Open \cup {"completed", "failed"}
    /\ run' = "ended"
    /\ clean' = IF clean = "none" THEN "pending" ELSE clean
    /\ UNCHANGED <<tab, store, tombstone, due, fault>>

\* tombstone: every indexed key.
Purge ==
    /\ clean = "pending"
    /\ clean' = "purged"
    /\ tombstone' = TRUE
    /\ values' = values \ index /\ index' = {}
    /\ UNCHANGED <<tab, handler, under, revision, manifest, run, due, fault>>

\* recordCleanupEvidence.
Verify ==
    /\ clean = "purged"
    /\ clean' = "verified"
    /\ manifest' = {}
    /\ UNCHANGED <<tab, handler, under, revision, values, index, tombstone, run,
                   due, fault>>

-----------------------------------------------------------------------------
(* The deadline *)

Deadline ==
    /\ ~due
    /\ due' = TRUE
    /\ UNCHANGED <<tab, store, tombstone, run, clean, fault>>

\* PX and PEXPIRE: past the deadline the index of a run and its checkpoint keys
\* last a millisecond at most, the keys perhaps a little longer.  The rows stay
\* listed.
Lapse ==
    /\ due
    /\ index' = {} /\ values' \in {values, {}}
    /\ UNCHANGED <<tab, handler, under, revision, manifest, server, fault>>

Tab ==
    \/ Post \/ Answered \/ PipelineFails \/ MarkReady \/ Keep \/ Acknowledge
    \/ Effect \/ Reload \/ ReadRun \/ List \/ Load

Handler(i) ==
    \/ Admit(i) \/ SetValue(i) \/ Commit(i) \/ Unindex(i) \/ Delete(i) \/ Crash(i)

Next ==
    \/ Tab
    \/ \E i \in Saves : Handler(i)
    \/ EndRun \/ Purge \/ Verify \/ Deadline \/ Lapse

Spec == Init /\ [][Next]_vars

-----------------------------------------------------------------------------
(* The contract of the run *)

\* A value that has left the index is nobody's content any more.
Contract == INSTANCE RunContract WITH
    Keys     <- Saves,
    Rows     <- Saves,
    phase    <- IF run \in Open THEN run ELSE "over",
    keys     <- index,
    rows     <- manifest,
    sealed   <- tombstone,
    verified <- clean = "verified"

\* Whatever handlers outlive, lose or leave half done, a checkpoint is indexed
\* only until the run is sealed and listed only while it goes on, and only an
\* ended run is sealed (createChild, commitCheckpoint, tombstone,
\* recordCleanupEvidence).
KeepsContract == Contract!Spec

-----------------------------------------------------------------------------
(* Properties *)

Readable(i) == i \in manifest /\ i \in values

\* A checkpoint that the browser was told is saved can be read until the run is
\* cleaned or its absolute deadline, where every key ends: across requests that
\* fail half-way, crashes and late handlers (setCheckpoint before
\* commitCheckpoint, removeCheckpoint).
SavedStaysReadable ==
    clean \in {"none", "pending"} /\ ~due => \A i \in told : Readable(i)

\* Every listed checkpoint names as its parent one that is listed too, so that
\* the filter of latest() never hides an accepted checkpoint.
LineageIsUnbroken ==
    \A i \in manifest : under[i] = 0 \/ under[i] \in manifest

\* What a reloaded tab recovers is, of each kind, no older than the last save
\* that the browser was told of, unless a handler outlived its connection; and
\* before the absolute deadline, a recovery whose own requests go through fails
\* only if the run has been cleaned, unless the reply to a COMMIT was lost
\* (latest, recoverCheckpointResult).
RecoveryIsFaithful ==
    /\ "reset" \notin struck =>
          \A i \in chosen, j \in told : Pipeline[j] = Pipeline[i] => j <= i
    /\ struck \cap {"commit", "call"} = {} /\ ~due
          /\ pc = "unavailable" /\ seen # "none"
          => clean \in {"purged", "verified"}

\* A verified cleanup leaves no checkpoint in either store, and none comes back
\* from a handler that was under way, whatever connections and COMMIT replies
\* are lost: but for a value that a handler is removing at that moment, or
\* failed to remove, or that outlives the index at the deadline, where it ends by
\* itself (createChild, commitCheckpoint, removeCheckpoint).
CleanedLeavesNothing ==
    clean = "verified" =>
        /\ manifest = {}
        /\ struck \cap {"redis", "crash"} = {} /\ ~due =>
              \A i \in values : handler[i] = "delete"

\* "`deleted` is recorded only after verified cleanup": when it is, no checkpoint
\* is left in Redis.
VerifiedMeansEmpty ==
    clean = "verified" /\ ~due /\ (\A i \in Saves : handler[i] \in {"none", "saved", "error"})
        => values = {}

\* A report whose final checkpoint is saved is not replaced by a partial one:
\* the run is completed only after the final report is shown, however often the
\* tab is loaded again before (recoverCheckpointResult, the effects of App).
CompletedAsFinal ==
    [][run # "completed" /\ run' = "completed" /\ Len(Pipeline) \in told
         => shown = "final"]_vars

\* "ready report must remain recoverable until client acknowledgement".
ReadyIsRecoverable ==
    run = "ready_for_delivery" /\ ~due => Readable(Len(Pipeline))

\* A listed checkpoint of a run that is not being cleaned can be loaded before
\* its deadline.
ListedIsReadable == clean = "none" /\ ~due => manifest \subseteq values

\* "The completed report [...] is stored in browser `sessionStorage` for crash
\* recovery": the run's own copy is not given up before that.
CompletedIsStored == run = "completed" => session # "none"

\* An interrupted run is not forgotten by the browser while accepted
\* checkpoints can still be recovered.
InterruptedIsRemembered ==
    run \in Open /\ {"phase1", "phase2"} \subseteq {Pipeline[i] : i \in told}
        => key

=============================================================================
