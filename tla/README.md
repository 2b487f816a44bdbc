# Landing Zone Assessment Engine: TLA+ specifications

This directory holds TLA+ models of the engine in this repository, the TLC
configurations that model-check them and theorems about them that TLAPS proves.
`PROJECT.json` maps every definition to the source lines it models and lists the
runs, the mutations each property must detect, the hazards and the theorems.
Source paths below are relative to the repository root.

## 1. The system

A browser tab runs the analysis of uploaded documents (`src/`). The server
(`server.js`, `api/`, `lib/`) approves and dispatches its model calls, keeps its
checkpoints and cleans up after it. PostgreSQL is the ledger, Redis holds
transient content.

| Part | State | Operations | Talks to |
|---|---|---|---|
| Control plane, `lib/controlPlaneRepository.js`, `migrations/` | `runs`, `governed_packets` and bodies, `stage_executions`, `model_attempts`, `dispatch_outbox`, `checkpoint_metadata`, `cleanup_attempts`, `run_quality_snapshots` | one SQL statement or transaction per method | every server part |
| Execution plane, `lib/redisExecutionPlane.js` | lease, send marker, result, checkpoint keys, their per-run index, tombstone, notice stream | four Lua scripts, plain GET/DEL/XADD | worker, reconciler, cleanup, checkpoint API |
| Execution worker, `lib/executionWorker.js` 14-51 | cursor in the stream, the job in hand | `process`, heartbeat, loop | both stores, provider |
| Outbox publisher, same file, 53 | none | `tick` | both stores |
| Reconciler, same file, 55-61 | list of candidates it read | `tick` | both stores |
| Gateway and result endpoint, `lib/providerGateway.js`, `api/model-result.js` | per request | reserve an attempt, stream or report its status | control plane, Redis, browser |
| Run lifecycle and cleanup, `lib/runLifecycleService.js`, `api/run.js` | none of their own | ready, suspend, resume, acknowledge, complete, fail, delete; sweep, claim, purge, record | both stores |
| Checkpoint API, `api/checkpoint.js` | per request | store a value, commit its row, remove on failure | both stores |
| Governed packets, `lib/governance.js`, `api/governed-packet.js` | packet bodies | inspect, canonicalize, hash, commit | control plane |
| Model routing in the browser, `src/services/modelRouter.ts` | one `runStage` call | approve, post, read frames, poll, fall back | gateway |
| Analysis pipeline, `src/services/analysisService.ts`, `src/orchestrator.ts` | accumulated evidence, batches, findings, report | phases, gates, repairs, checkpoints | routing, checkpoint API, run API |
| The tab: `src/App.tsx`, `src/services/checkpointRecoveryService.ts` | scope, uploads, the analysis, the report shown, `localStorage` run id, `sessionStorage` report | log in, lock, upload, analyse, show, acknowledge, recover, import, reset | pipeline, run and checkpoint API |
| Quality gate, fact check, confidence, strategy sanitation, maturity, metrics | none | pure decisions on findings and scores | pipeline |
| Acquisition: privacy scan, classification, questionnaires, source registry, packets, bounded retrieval | none | pure decisions about what a model may read | pipeline |
| Evidence check, gap retrieval of a rescan | the terms asked for | verdicts, expansion of a packet | pipeline, routing |
| Scope and workshop session, `src/scope` | admitted applications and landing zones | pure | App, pipeline |
| Parsing, table analysis, output contracts, knowledge base, domain packs, reports, export, sessions, logging, migrations | static data or none | conversion, validation, rendering | App, pipeline, server |

What makes the system hard:

- *Two stores without a common transaction.* The permission to send is written to
  Redis and then to PostgreSQL; a result to Redis and then its success to
  PostgreSQL; a checkpoint's value to Redis and then its row. A failure or a crash
  may fall between any two of those.
- *Leases.* A worker, a publisher and a cleaner may go on after their claim has
  been taken over.
- *At-most-once calls.* A model call costs money and discloses data, so no retry
  may send it twice, and a fallback to another provider needs to know that the
  first was not sent or has definitively refused.
- *A browser that owns the pipeline.* The tab can be closed or reloaded at any
  point, requests are lost or repeated, handlers outlive their connections.
- *Callbacks of one component.* A parsed file, an imported report, an analysis and the
  effects of `App` answer whenever they do, into state that has moved on since.
- *Deletion.* A run can be ended at any moment, with writers on their way. Every key in
  Redis ends at the run's absolute deadline, while rows and leases in PostgreSQL go on.
- *Fetches without a timeout.* Only the post of a model call has one. Approvals, polls, log
  posts and checkpoints may hang, and what awaits them with them.
- *One evidence set, many ways in.* A chunk reaches a model because it is routed, left
  over, located, hinted at or asked for in a rescan; what is hidden, a mere lead, of a
  provider out of scope or secret must stay out of all of these, within one limit. Two more
  ways are not filtered by scope: lines that are derived from tables, of all sources, and
  the source context of phase 3, which is rendered from the whole registry.
- *Models that may answer anything.* A finding, a verification, a strategy and a fact
  check are each written by a model, and each may fail or be wrong. What the report
  says is decided by deterministic steps that rewrite the same logs, verdicts and
  strategy one after the other, and by repairs whose outcome replaces the original.

What makes each part correct, and where that is stated:

| Part | Correct when | Properties |
|---|---|---|
| Worker, publisher, reconciler | one licence and one request per attempt; fallback only without a request or after a refusal; a stored result decides; nothing stays in flight | `SentAtMostOnce`, `FenceAgreement`, `FallbackNeedsRefusal`, `ResultDecides`, `AuthorizedWhileRunLives`, `SettledIsFinal`, `CleanedRunHoldsNothing`, `AttemptsSettle`, `ResultsRecovered`, `ImplementsLedger` |
| Lifecycle and cleanup | one cleanup at a time; verified is true and stays true; ended is final; one report is delivered; every run is cleaned | `OneCleanupClaim`, `CleanedMeansGone`, `OpenRunsKeepContent`, `OneSnapshot`, `EndedIsFinal`, `RunsAreCleaned`, `KeepsItsContracts` |
| Routing and gateway | nothing unsettled is left behind; what is returned was accepted; every call ends, unless a fetch hangs | `LeftBehindIsSettled`, `ReturnedWasAnswered`, `StageEnds` |
| Checkpoints, delivery, recovery | saved stays readable up to the deadline; lineage unbroken; recovery finds the newest; cleaned means gone; a final report stays final | `SavedStaysReadable`, `LineageIsUnbroken`, `RecoveryIsFaithful`, `CleanedLeavesNothing`, `CompletedAsFinal` |
| The tab | what is shown is what a reload brings back; a run is given up only when its report was seen; sources belong to the scope of their analysis; no second analysis waits beside one, no report stands beside that of recovery mode | `ShownIsSaved`, `AcknowledgedWasShown`, `SourcesFitScope`, `OneThingAtATime` |
| Acquisition, packets, retrieval | no withheld chunk is routed or quoted; no packet is reckoned over the limit | `WithheldStaysOut`, `PacketsWithinLimit` |
| Phases 1 and 2: evidence check, reconciliation, class policy, gate, score | a counted finding is verified and quoted from platform evidence, of a chunk in its packet or of a line derived for its criterion; logs and verdicts agree; only missing areas stop a run; a rescan that fails changes nothing | `ScoreIsEarned`, `VerdictsAgree`, `OnlyMissingAreasReject`, `ReadingsNeedEvidence` |
| Phase 3: strategy, fact check, repairs, sanitation, quality gate | nothing is prescribed that was not checked; no required tactic is lost; repairs improve; a strategy is delivered, unless a request hangs | `ActionableOnlyWhenPassed`, `DeliveredIsVetted`, `RequiredTacticsSettled`, `RepairsImprove`, `DraftIsDelivered` |

## 2. The modules

| Module | Models |
|---|---|
| `DispatchLedger` | abstract: the promise of the dispatch to its callers, per attempt a phase, a licence and a count of requests |
| `Dispatch` | attempts under workers, publishers, reconciler, leases and two stores |
| `DispatchRun` | abstract: the run as the statements of the dispatch see it |
| `RunContract` | abstract: what the server promises about the content of a run |
| `DispatchRefinement` | the mappings of `Dispatch` to `DispatchLedger` and `RunContract` |
| `DispatchProofs` | theorems about `Dispatch`: types, at most one request |
| `DispatchOutcomeProofs` | theorems about how attempts end, and the refinements |
| `MCDispatch` | symmetry, a state constraint and the liveness specification for TLC |
| `RunLifecycle` | one run from `createRun` to verified cleanup |
| `RunViews` | the mappings of `RunLifecycle` to `RunContract` and `DispatchRun` |
| `RunLifecycleProofs` | theorems about both |
| `StageFallback` | one `runStage` call, the gateway, and the attempts as the ledger describes them (`INSTANCE DispatchLedger`) |
| `StageFallbackProofs` | theorems about it |
| `Delivery` | the checkpoints of a run, its delivery, a tab that is reloaded |
| `DeliveryProofs`, `MCDelivery` | theorems about it; two pipelines |
| `Session` | one tab: the state of `App`, the user, and every callback that changes it |
| `SessionProofs`, `MCSession` | theorems about it; symmetry for TLC |
| `Evidence` | from the upload to the packets: registry, routing, bounded retrieval, gates, the expansion of a rescan; operators that `Audit` extends |
| `Audit` | intake, and phases 1 and 2: the batches of `orchestrator.ts`, the evidence check, the steps on its logs, the gate before synthesis, the score |
| `MCAudit` | two design areas, six sources of nine chunks, four uploads, the quotes a scanner may write |
| `AuditProofs` | theorems about `Audit` |
| `Synthesis` | phase 3: drafts, fact checks, repairs, sanitation, required tactics, quality gate, report |
| `SynthesisProofs`, `MCSynthesis` | theorems about it; the actions the models write |

`StageFallback` composes the browser with `DispatchLedger`, which `Dispatch` is proved
to implement: so the fallback chain is checked against what the workers guarantee and
not against a second copy of them. The run appears in three modules. `Dispatch` takes
its moves from `DispatchRun`, and `RunLifecycle` is proved to make no others: the expiry
and the deadline of the row are the states "idle" (active, but two hours without
activity) and "overdue" (active or suspended, but past the absolute deadline) there.
What is stored for the run, keys, rows, tombstone and evidence of the cleanup, is in
each of `RunLifecycle`, `Dispatch` and `Delivery` as far as that module needs it, and
each is proved to keep the one `RunContract` about it. `Delivery` follows one run
through saves, faults of the server and one tab that is reloaded; `Session` takes from
it what a run's checkpoints hold (`copy`) and has the rest of the tab, with several runs
and several callbacks. `Audit` and `Synthesis` are the two halves of `analyzeDocument`;
a call of a model is one `runStage` call, whose end `StageFallback` shows, and what they
use of each other is `audit` in `Synthesis`: density, integrity, whether the evidence
check is complete, and the tactics the score requires.

### Dispatch

The variables are columns of `model_attempts` and `dispatch_outbox`, Redis keys,
and a program counter per process. `ExecutionWorker.process` is one action per
call, in the order of the code: `ClaimAttempt`, `ReadAttempt`, `SetLease`,
`RecordIntent`, `AuthorizeSend`, `AuthorizeAttempt`, `InvokeProvider`,
`ProviderAnswers`, `SetResult`, `RecordSuccess`, with a `Stop...` or `Record...`
action for each exit. `...Throws` and `...Dies` are calls that fail (with or
without their effect) and processes that stop. `transitionAttempt` is the
compare-and-swap on the state it is in the code, with no owner or token. Several
attempts of one run only meet in the run, the tombstone and the processes, so one
attempt is checked; the proofs are for any number.

Time: a timer may fire whenever it is armed. The exceptions are ordered by
constants of the code: before the run's absolute deadline (`BeforeDeadline`) the Redis
lease outlives the database lease (60 s + 5 s) and the marker outlives both (30 min).
`ttl()` caps each at the deadline (`redisExecutionPlane.js:24`), so from then on they may
go while the lease in PostgreSQL runs on, and `FenceAgreement` is about the time before.
Where `PromptRead` is TRUE, a job that has claimed an attempt reads it back before its
60 s lease ends.

### RunLifecycle

The clock has one unit for the inactivity limit and ends at the absolute deadline.
A cleanup is `ClaimCleanup`, `Purge`, `RecordVerified` or `RecordRetryable`, taken
by request handlers and by the cleanup worker alike. `StartWrite` and
`FinishWrite` stand for everybody who was allowed to write to Redis and does so
later. `accepted` remembers the snapshots that requests were told are stored.

### StageFallback

The browser (`Approve`, `Receive`, `StopWaiting`, `Poll`, `PollDeadline`,
`Validate`), the network, the handler of every copy of the post (`LookUp`,
`Reserve`, `Stream`) and the ledger's steps. `Copies` is how often the network may
deliver one post; `Prompt` says that a handler has reserved before the browser's
10 s of grace for an absent attempt are over. `Hang` is a fetch that never settles, at each
`await` of one without a timeout: the approval (`modelRouter.ts:136`), the status of an
attempt (208) and the log posts (253, 278, 428, 482).

### Delivery

`Pipeline` is the sequence of kinds that `checkpoint()` is called with. A save is
its position in it. The tab posts, waits, goes on whatever the answer, makes the
run ready, shows and stores the report, acknowledges; `Reload` may strike at every
point. The handler of each save runs on its own, also after its tab has gone.
`struck` remembers which kinds of faults have happened, so that a property can say
which of them it tolerates. One kind, "call", is a request of the recovery that fails:
`List` or `Load` then ends in "unavailable". `Deadline` is the absolute deadline, before or
after which the run may be ended; from then on `Lapse` takes the index and, at once or a
little later, the values from Redis, while the rows stay listed.

### Session

The variables are the state hooks of `App` that decide what may happen next
(`authenticated`, `pendingAnalyzeRef`, `lockedScope`, `files`, `loading`, `result`,
`safeRecoveryResult`), the two browser stores, and what is under way: the file being
read (`reading`), `runAnalyze` (`job`, with the step it is at) and the effects whose
answers are outstanding (`tasks`). A file stands for a set that is large enough; it
carries the scope it was classified for. `shown`, `lost` and `epoch` are history.

`User` is what can be clicked, under what is rendered then: `Main`, `Intake`, the login
form, the fallback of `AppErrorBoundary`, recovery mode. `Answers` are the callbacks,
each in whatever state the tab is by then; `Read`, `Load` and `Deliver` are the two
effects up to each `await`. An effect starts when one of `authenticated`, `loading`,
`result` and `safeRecoveryResult` changes: `Effects`, with the new values. Nothing
cancels an effect, since the two return no cleanup. A write to `sessionStorage` may be
refused.

What the code shows: `handleFileSelect` keeps the scope of the moment of the
selection, and its files are added to whatever is there when they are parsed; the
sources are classified again when the analysis starts (`Classified`); an answer about
one run removes the key of whichever run is remembered by then (`Acknowledged`, `Read`).

### Evidence

All of acquisition is computed from the upload (`u`: its sources, the locked providers,
and what about them is broken) before the first model is called, so it is a set of
operators over it. A text is what these steps read in it: the providers it names
(`detectProviders`), the relevance to an area that `routeChunk` gives it (`Tier`,
`Order`), the crucial items and terms it holds, its size, what the privacy patterns
find. A packet is the set of its chunks. `Size` is what the code reckons a chunk at, its
text and 260 characters; what a packet is rendered to, with its markup, manifest and the
stage packet around it, may be larger, and no limit is put on that. `Computed` is what
`deriveAllEvidenceSignals` derives from an upload, and `Lines` what of it the stage packet
of an area carries: by area alone, whatever providers the source names.

`Routed` is `buildDomainPacket`, `Bounded` is `planGapRetrieval` with the two passes of
`applyBoundedRetrieval`, `Matched` is `expandWeakEvidencePacket`; the latter two share
`Expanded` (`expandDomainPacket`). These loops go through candidates in an order and
keep what still fits. They are written as the one subset in which every candidate is
in exactly if it is admitted after those before it. `Refused` is everything that makes
`analyzeDocument` throw before phase 1, in any order, since they all do the same.

What the definitions show of the code: a provider is detected in the headers of a
hidden sheet too, and these headers count as naming a crucial item (`Detected`,
`Named`), although no packet may hold them; the acquisition gate asks for a packet in
every area of the pack, in the scope or not (`Incomplete`); a private key without an
end passes `sanitizeEvidenceSources` and is found by `scanRegistryDlp` (`DlpHit`).

### Audit

`Acquire` and `Refuse` are the outcome of acquisition. A batch is a design area. `Scan`
and `ScanFails` are `runSingleBatch` with its one retry, `Check` is `runEvidenceCheck`,
`Reread` a round of gap retrieval whose rescan and check succeed, `GiveUp` one that
fails and `Finish` the end of the loop; the last two apply the outcome with
`mergeBatchResult`. Batches run concurrently and share only what they add to; `Width`
bounds how many are in progress. A round asks for terms not asked for before
(`Queries`), and what holds them is added to the packet (`Enlarged`); when the rescan
fails, the packet keeps chunks that the accepted reading has not seen. Then the pipeline
is sequential: `Reconcile` (`reconcileEvidenceProvenance`), `Authorize`
(`applyLzForensicEvaluation`), `Admit` or `Reject` (`validatePreSynthesisIntegrity`),
and `Admit` scores.

A scanner writes one finding per criterion: assessed or not, a count, a quote. Of a
quote the code tells apart the chunk or derived line it cites and the text it repeats,
which may be that one's, another's, nearly one's, or nobody's. A quote of a chunk counts
if the chunk is in the packet, one of a derived line if its analysis was made from this
upload and for this criterion (`Bound`), as in the reconciliation and again at the gate. A
verifier's answer is any that
`isValidEvidenceVerifierItem` admits, a second opinion any decision. What the code
computes from these is computed: the verified count under the cap of the local text
check (`Judge`), the status, the absence of an anti-pattern, what a class of evidence
can prove (`Limit`), the consistency the gate asks for, the criteria that resolve.

### Synthesis

The function runs alone, so each of its operations is one step from `Draft` to
`Report`. A strategy is whether its summary cites an invented tactic, whether its
roadmap has phases, and which actions these hold; an action is the tactic it cites
and whether the grounding rules leave it in. `unread` is history: the parts that no
completed fact check has read as they stand. A fact check may object to anything that
is there, up to `MaxClaims`; a claim has a part, the action it quotes and a kind.
Of invented tactics there are two: `Unknown` has the shape of `tactic_id_pattern`
(`validation-rules.json:28`), which the final gate reads, `Misshapen` only that of
`kernel/tacticIds.ts`, which the identifier gate reads. `Hang` is a request that is never
answered: `checkpoint()` is awaited over a fetch without a timeout.
`Validated` is everything `callPhase3Validated` may return, with its two rounds of the
identifier gate, grounding and the roadmap it asks for when a required tactic is
gone. `Sanitized` is everything the sanitation may do to the text of a claim: strike
it, remove the action, take its tactic out, or not find it.

Two facts of the code show in the definitions. `Low` includes an evidence check that
is not complete (`analysisService.ts` 712-735), and a density from 30 to 59 per cent
is reported through the same warning as other cautions (`Cautioned`).

## 3. The runs

| Run | Instance | What it shows |
|---|---|---|
| `dispatch_safety` | 1 attempt, 2 workers, 1 publisher, 1 reconciler, 3 lease tokens, 1 fault, prompt reads; 2.2 M states | permission, fallback and result never contradict each other while the run is suspended, resumed, ended and cleaned; the fence holds, the provider is called at most once, what is settled stays so; the processes implement the ledger |
| `dispatch_live` | 1 worker, 2 tokens, 1 fault, fairness | attempts settle, stored results are recovered |
| `dispatch_stale_read` | reads delayed without bound | *violated*: a late job opens the fallback of an attempt that another worker is sending |
| `dispatch_pruned_body` | | *violated*: a missing packet body does not stop the attempt |
| `lifecycle_safety` | `RunViews`: 1 handler, 1 cleaner, 3 claims, 2 snapshots, 2 faults, fairness; 0.7 M states | all properties of the lifecycle, with `RunsAreCleaned`; the contract of the content is kept, and the dispatch sees no move it does not expect |
| `lifecycle_deadline` | | *violated*: a run past its deadline is still delivered |
| `fallback_safety` | 2 profiles, 1 copy, prompt handlers, fairness of the browser; 40 k states | all properties of the fallback chain |
| `delivery_safety` | 5 saves, a synthesis between two of phase 2, 1 reload, the deadline, 1 fault of any kind; 0.8 M states | saved stays readable, lineage, cleanup, what recovery chooses and when it fails, the final report stays final |
| `delivery_forgotten` | 3 saves, 1 reload | *violated*: a tab that crashed forgets its run and the checkpoints |
| `session_safety` | 1 run, 2 scopes, 2 effects at once, logins, an import, crashes of the view, reloads; 2.5 M states | all properties of the tab |
| `audit_safety` | a capability in one area, an anti-pattern in the other; platform evidence and a document; counts 0 and 3; quotes of chunks and of a derived line that hold, that cite the wrong chunk, that are nearly right; a full and a partial scope; an upload that is accepted, with a hidden sheet, a lead and an export of a provider out of scope, and three that are refused; 0.21 M states | what withheld content and packet limits hold against, what a published count rests on, that logs and verdicts agree, that only missing areas stop a run, that a reading is replaced over a larger packet only |
| `synthesis_safety` | 1 tactic, actions with it, with an invented one of either shape (backed by evidence or not), roadmaps of 0 to 2 of them, 2 claims per check, 2 repairs, metrics on both sides of their limits, fairness; 0.22 M states | all properties of phase 3 |

Bounds. Two workers and three tokens allow an attempt to be claimed, lost, reclaimed and
claimed once more, with a job of each claim still under way; two faults, in
`Dispatch_faults` and `Delivery_faults`, are a fault in the recovery from a fault. A
handler and a cleaner are two concurrent cleanups; three claims allow each of two to fail. Two profiles are one
fallback; a third repeats the step from the first to the second. Four saves with a
repeated kind are the least in which `latest()` has a choice and a parent can be lost
between two saves; a fifth, of the synthesis, is what may be added to a report recovered
from the two analyses. The constraint `SteadyRun` of `Dispatch_faults` leaves out only
the moves of the run, which `dispatch_safety` has.

In `Session` two scopes let a file be classified for one and used for another, and two
effects let one answer while the other waits, or after what it was started for is gone;
an imported report is a second one beside that of the run. The theorems are for any number
of each, and of runs. `MaxEpoch`
only serves the instances that tell sessions apart.

In `Audit` a criterion per stream exercises every rule, since the rules that relate
criteria (the failure of a batch, density, sufficiency) are there with two; count 3 is
the only one that a class of evidence caps and that a weak text lowers to another count
than 0, so 1 and 2 come about as verified counts. Two rescans, `pass[b] < 2`, are the
code's. The packets of the instance have room for four units (`Hard`) of chunks of one
and two, so that both limits cut; the chunks that may not be used are located, hinted at
and asked for, and each area has a term it is routed by and asks for the other's; with
both terms left to ask for in one area the run holds as well (0.32 M states). One line
is derived from either export, for the capability only, so that a quote of it may be of
the right criterion or not. In `Synthesis` a tactic can be cited twice, lost once, lost
wholly, excused, or invented; two claims allow a blocking and a harmless one, in the
same or in both parts; `FACT_CHECK_MAX_RETRIES` is the code's 2.

Deadlock is checked in `RunLifecycle`, `StageFallback`, `Synthesis` and `Session`.
`Dispatch`, `Delivery` and `Audit` really come to rest, when every attempt is settled
and its keys are gone, when the tab rests and its run is clean, or when the gate has
decided: `CHECK_DEADLOCK FALSE`.

Symmetry of workers is used only where all properties are safety.

### Further instances

These configurations are kept beside the runs. Six hold: `StageFallback_duplicates`
(one profile, two copies, handlers delayed without bound), `Dispatch_faults` (two
faults, reads delayed without bound, the run kept live), `Delivery_faults` (all
properties of `delivery_safety` with two faults and the four saves of a run without a
synthesis to save; 2.7 M states), `Audit_types` (the types of `Audit`), and
`Dispatch_contract` and `Delivery_contract` (`KeepsContract` of either module, on the
instances of `dispatch_safety` and `Delivery_faults`). The others are violated, each by a behaviour of the code that a document or comment excludes:

- `StageFallback_absent`, `AbsentIsPreSend`: a handler that is delayed for more than
  the grace of `pollInternalResult` reserves an attempt the browser has given up
  (`scripts/test-internal-result-recovery.mjs:29`).
- `StageFallback_rejected`, `RejectedIsPreSend`: of two deliveries of one post the
  slower finds the packet claimed and answers 404, and the browser falls back while
  the other's attempt is sent (`src/services/modelRouter.ts:285`).
- `StageFallback_lineage`, `OneStageExecution`: `runStage` opens a stage execution per
  profile (`docs/architecture/ADR-001-execution-and-evidence-lineage.md:26`).
- `Delivery_ready`, `ReadyIsRecoverable`: a failed save of the final report is
  swallowed and the run made ready all the same.
- `Delivery_listed`, `ListedIsReadable`: a lost COMMIT reply leaves an available row
  whose value the handler removes.
- `Delivery_quota`, `CompletedIsStored`: a refused `sessionStorage` write is swallowed
  and the run acknowledged and thereby cleaned.
- `Delivery_unindexed`, `VerifiedMeansEmpty`: `removeCheckpoint` takes a key out of the
  index before it deletes it; if the deletion fails, a verified cleanup has missed it.
- `Session_uploads`, `UploadsStayInSession`: files that are parsed when the session is
  reset are added to the next one (`src/App.tsx:945`), where `handleFileSelect` says "Use
  Reset Session before uploading new source material" (`src/App.tsx:787`).
- `Session_suspended`, `SuspendedStaysRemembered`: `onRunStarted` of a new analysis
  overwrites the id of a suspended run (`src/App.tsx:1016`), of which the tab has said "It
  will remain available until expiry." (`src/App.tsx:633`).
- `Session_remembered`, `AnalysisIsRemembered`: a late answer of the effect that recovers
  an earlier run removes the id of the analysis that has been started since
  (`src/App.tsx:617`).
- `Audit_scope`, `ScopedRunsPass`: `validatePreSynthesisIntegrity` asks for every
  criterion of the pack (`pipelineIntegrityService.ts:368-377`), so that a scope locked
  in Step 0 without some area is always rejected, where the pipeline speaks of
  criteria "Excluded by the locked assessment scope before scoring."
  (`src/services/analysisService.ts:277`).
- `Audit_coverage`, `CoverageIsHonest`: `assembleDomainPacket` subtracts all included
  chunks from the routed candidates (`sourceRegistryService.ts:883`), so an unrouted
  chunk that retrieval adds hides a routed one left out and the packet is no longer
  called weak, where models are told to "Report insufficient coverage and withheld
  content explicitly." (`evidenceStagePacketService.ts`).
- `Audit_foreign`, `ForeignIsNotScored`: `deriveAllEvidenceSignals` runs over all sources
  (`analysisService.ts:378`) and its lines enter stage packets by area alone
  (`evidenceStagePacketService.ts` 184-188), so that a line of an export of a provider
  out of scope may alone carry a published count, where "Out-of-scope provider evidence
  is withheld from packets" (`Landing_Zone_Assessment_Implementation_Plan.md:293`).
- `Audit_findings`, `FindingsWereScanned`: a verified count of 0 is worded "Verifier
  status: weak. ... evidence ..." (`evidenceCheckService.ts` 71-91), which
  `inferAntiPatternAbsenceStatus` reads as a presence: a partial finding the scanner did
  not make (`src/services/antiPatternSemantics.ts:66`).

## 4. Fairness

- `Dispatch`: weak fairness of every process between its calls, strong fairness of
  picking an entry, row or candidate: the loops of worker, publisher and
  reconciler poll for ever (`executionWorker.js` 50, 53, 60), each batch is
  bounded and ordered, and a failed turn is followed by the next. Leases run out.
  The liveness run lets the run only end (`LiveSpec`): for a job every other
  inactive state is the same early return.
- `RunLifecycle`: the clock, the loop of the cleanup worker, requests that have
  begun to clean, and the age of a claim nobody holds.
- `StageFallback`: weak fairness of `GoOn`, what the browser does once a timer fires
  (`REQUEST_TIMEOUT_MS`, the recovery deadline) or a fetch settles, by an answer or an
  error. That a fetch settles is not assumed: it may `Hang` instead, and then the call
  does not end. `StageEnds` says that nothing else keeps it from ending. Nothing is assumed
  of the server's handlers or of the delivery of the post, which has a timeout.
- `Synthesis`: weak fairness of `Work`, its steps as a whole, as long as what they await
  settles; a model call or a checkpoint that never does is `Hang`, and the exception in
  `DraftIsDelivered`. No choice among answers is fair.
- `Audit` states no liveness, nor does `Session`: what a user does next is not fair.
- Faults are bounded and never fair.

## 5. What is proved

For every value of the constants, by TLAPS:

| Module | Theorem | Says |
|---|---|---|
| `DispatchProofs` | `TypeCorrect` | `TypeOK` |
| | `AtMostOneSend` | `SentAtMostOnce`, without any assumption on delays |
| `DispatchOutcomeProofs` | `StoresAgree`, `CleanedStaysEmpty`, `LicensedAlive`, `SettledStaysSettled` | `FenceAgreement`, `CleanedRunHoldsNothing`, `AuthorizedWhileRunLives`, `SettledIsFinal`, without any assumption on delays; the first is about the time before the deadline |
| | `RefusalNeeded`, `ResultsDecide` | `FallbackNeedsRefusal`, `ResultDecides`, under `PromptRead` |
| | `DispatchImplements` | `ImplementsLedger`: the refinement of `DispatchLedger`, under `PromptRead` |
| | `DispatchKeepsContract` | `KeepsContract`: the refinement of `RunContract`, without any assumption on delays |
| `RunLifecycleProofs` | `TypeCorrect` | `TypeOK`; the expiry never passes the deadline |
| | `CleanupIsExclusive`, `VerifiedIsTrue` | `OneCleanupClaim`, `CleanedMeansGone` |
| | `OpenIsKept`, `DeliveredIsOne`, `EndIsFinal` | `OpenRunsKeepContent`, `OneSnapshot`, the action property `EndedIsFinal` |
| | `ContractCleans` | whatever keeps `RunContract` has nothing left once its cleanup is verified (`VerifiedIsEmpty`) |
| | `RunKeepsItsContracts` | `KeepsItsContracts`: the refinements of `RunContract` and `DispatchRun`, for any number of requests and cleaners |
| `StageFallbackProofs` | `TypeCorrect` | `TypeOK` |
| | `ReturnedIsAnswer` | `ReturnedWasAnswered`, for any route and any number of copies of a post |
| | `LeftIsSettled` | `LeftBehindIsSettled`, when each post is delivered once and handlers are prompt (`Single`) |
| `DeliveryProofs` | `TypeCorrect` | `TypeOK`; the index names only values that exist |
| | `SavedIsReadable`, `LineageHolds`, `CleanupIsComplete` | `SavedStaysReadable` (up to the deadline), `LineageIsUnbroken`, `CleanedLeavesNothing` |
| | `RecoveryFaithful`, `FinalStaysFinal` | `RecoveryIsFaithful`, the action property `CompletedAsFinal`, for any pipeline, reloads and faults; the former says of failures what holds before the deadline |
| | `DeliveryKeepsContract` | `KeepsContract`: the refinement of `RunContract` |
| `SessionProofs` | `TypeCorrect` | `TypeOK` |
| | `ReloadShowsTheSame`, `SourcesFit`, `OneAtATime` | `ShownIsSaved`, `SourcesFitScope`, `OneThingAtATime` |
| | `NothingGivenUpUnseen` | the action property `AcknowledgedWasShown`, for any number of runs and effects |
| `SynthesisProofs` | `TypeCorrect` | `TypeOK` |
| | `ActionableReports`, `TacticsSettled`, `DeliveredVetted` | `ActionableOnlyWhenPassed`, `RequiredTacticsSettled`, `DeliveredIsVetted` |
| | `RepairsOnlyImprove` | the action property `RepairsImprove` |
| `AuditProofs` | `EarnedScore`, `GateAcceptsWhatWasRead`, `LogsAndVerdictsAgree` | `ScoreIsEarned`, `OnlyMissingAreasReject`, `VerdictsAgree` |
| | `EvidenceBeforeReading` | the action property `ReadingsNeedEvidence` |
| | `TypeCorrect`, `PacketsFit`, `WithheldIsNotUsed` | `TypeOK`, `PacketsWithinLimit`, `WithheldStaysOut`, for any registry, sizes, scores, terms and derived lines |
| | `ExpansionIsDetermined`, `LeftOutDoesNotFit` | an expansion of a packet has one result, and leaves out only what is out of scope or does not fit beside it |

The assumptions are those named in the modules: `None` is no attempt or process,
handlers are not cleaners, bounds are naturals, a pipeline ends with the final
report, `Null` is no finding, verdict or log entry; in `Session`, `None`, `Demo` and
`Elsewhere` are no run, scope or file.

`AtMostOneSend` rests on `SendInv`. No two jobs of an attempt hold the same lease
token, and none a token above the attempt's (`TokensDiffer`: the token grows with
every claim). A job past the authorization holds the newest token, and an
authorized attempt never comes back to a state that can be claimed
(`SenderIsNewest`). Requests follow the authorization, and the job that is about to
start one has not started it (`SendsCounted`). So `authorizeAttempt` succeeds once
and its job sends once. Steps that touch none of this are `Quiet` and handled by
one lemma; neither leases nor Redis are needed for the argument.

The theorems of `DispatchOutcomeProofs` are about the end of an attempt. `StateStep`
says once what any step may do to the state of one attempt, and `JobFollows` how a job
goes on; the invariants then need no case per action. `FenceInv` adds to
`FenceAgreement` that a job about to ask for the authorization, with the newest token
and a live lease, holds the marker before the deadline (`MarkerHeld`), and that nothing
is under the tombstone. No step leads back before the deadline. `TellInv` says what the
step of a sender, a key in Redis and a recorded state tell of the request: that it was
made, that its result was stored, that it was refused. `PromptInv` needs `PromptRead`: a
job that is about to read still has its lease (`ReadersPrompt`), so no job has ever read
an authorized attempt (`SeenUnsent`), and what is recorded after the request is recorded
by its sender. Without `PromptRead` `FallbackNeedsRefusal` is false, as the run
`dispatch_stale_read` shows. `StepImplements` gives the step of the ledger for every
step of `Dispatch`.

The theorems of the lifecycle share `CleanupInv`: the three properties, with
`OpenRunsKeepContent` and `PurgedBeforeRecord`. The latter says that only ended runs
are purged, that whoever is about to record evidence finds the tombstone, and that
nothing is left under it; the former is needed because bodies and rows may be
committed only while the run is open, hence not cleaned. A step that leaves the
cleanup alone is `Harmless`. `EndIsFinal` follows from it: while a cleanup is verified no
claim is in progress, and a claim is what could take it back. `OneSnapshot` needs
`DeliveryInv` besides: a run that is still analysed has no snapshot, so the first
delivery stores one and any later one finds it.

The three refinements of `RunContract` follow from these invariants, step by step. A
step of the contract is one of a few kinds (the run moves, a key is written or lost, a
row is recorded or discarded, the run is sealed, the cleanup is verified), and each
proof first says which kinds a module's steps are of: `StepKeepsContract` for the
lifecycle, where recording needs that bodies and rows are committed under the state of
the run; `ContentSteps` for the dispatch, where only `authorizeSend` and `setResult`
write and both look at the tombstone; `TabKeepsContract`, `HandlerKeepsContract` and
`CleanupKeepsContract` for the checkpoints, where `ManifestInv` says that what is purged
is not open. `ContractCleans` is proved once, about the contract. That an ended run
stays ended is in no module's hands alone: `Dispatch` takes the moves of its run from
`DispatchRun`, and the half of `RunKeepsItsContracts` about `DispatchRun` says that the
lifecycle makes no others. That half is about the clock: activity before the
deadline leaves a run unexpired (`ExpiryLater`), whether it was idle or not, and none
after the deadline does, so that from "overdue" there is no way back (`SeenCases`,
`RunSteps`).

For `StageFallback`, `CallInv` says that the browser takes the profiles in order
(`NothingAhead`), that an answered attempt was sent once and is accepted for its stage
(`AnswersAccepted`), and that what a handler tells its connection is so
(`HandlersTell`); that it stays so is `SettledStays`: an answered attempt is never
unanswered, a refused or closed one is never asked again. Which copy of a post the
browser listens to is `CopiesInOrder`. `LeftInv` is about the profiles that were left
without an attempt: under `Single` an attempt is reserved only by the one handler of
its profile, which is past its reservation when the browser leaves. Without `Single`
the property is false, as the further instances show.

For `Delivery`, `TypeInv` adds that a handler that is deleting has taken its key out
of the index. `SaveInv` says that the saves to come are untouched (`Fresh`), that a
run that takes checkpoints is uncleaned, that the browser was told only of what was
saved, and that until the purge or the deadline every handler finds in the stores what it
has put there. `LineageInv` says that every parent is a save the browser was told of.
`CleanInv` says that nothing is indexed under the tombstone, and that every value is
in the index or about to be deleted until a Redis call fails, a handler dies, or the
deadline passes.
What recovery chooses rests on four more (`RecoverInv`): `RowInv`, that a new row gets
a revision above those of its kind (its number of rows bounds them), so that while no
handler outlives its connection the revisions of a kind are in the order of its saves;
`ManifestInv`, that what was answered with 201 is listed until the cleanup is verified;
`ListInv`, that no step changes what is listed after it was read, and that what is listed
was saved unless a COMMIT reply was lost, so that it can be loaded until the purge or the
deadline (`Kept`); and `FinalInv`, that
while the run is open a tab whose final report was saved neither shows nor keeps a
partial one. The last needs that a kind with a candidate has a latest one
(`LatestExists`), for any number of saves: a set of revisions with a bound has a
highest (`HighestExists`), since the naturals are well-founded.

For `Session`, the types, `OneThingAtATime`, `ShownIsSaved` (with it) and
`SourcesFitScope` are inductive once the run of a job is known (`RunKnown`).
`AcknowledgedWasShown` is not: what acknowledges a run may have been started long
before. `UnseenInv` says that a run with a final checkpoint that was not shown is
neither held, in any of the three places of a report, nor about to be delivered. A
final checkpoint is saved by the analysis of its run, so `JobInv` says that nothing
refers to that run before, and `FreshInv` that nothing does when the run is created.
What any step may do to tasks, reports, keys and analyses is stated once each
(`TaskStep`, `HoldsStep`, `CreationStep`, `JobStep`, `CopyStep`), and the invariants
follow from these without a case per action.

For `Synthesis`, `IInv` says that a candidate's unread parts are those it is checked for
(`RecheckOpen`: `ValidatedFits` has what `callPhase3Validated` may leave unread), that
until the tactics are settled the gate's fact check is the accepted one (`CheckHeld`),
that a strategy with a completed check has a summary that was read (`SummaryRead`),
that nothing is prescribed under a LOW bracket (`LowIsBare`), that only the
required-tactic repair brings in ungrounded actions and is read (`Grounded`), and that
the verdict at the report is the gate's of the strategy that is reported (`GateTells`:
no step between the gate and the report touches what it has read). The three
properties of what is delivered follow from it by what an empty set of reasons says
(`NoReasons`). `RepairsImprove` needs arithmetic: a check of one part keeps the claims
of the other (`FactChecksKeep`), so an improvement of the part is one of the whole
(`ImprovesWhole`).

For `Audit`, `IInv` says of each criterion what the stage of its area tells
(`Progress`): a finding exists while the area is read, a verdict that fits it from the
check on (`Fits`: nothing is verified that the scanner did not give, and a full count
only of an assessed finding), and a log entry once the area is done. The properties
are about the end of the pipeline, so they need to know what entry and verdict have in
common from the moment the entry is written (`Agree`), and what the reconciliation
adds (`Whole`: the quotes are of chunks in the packet or of derived lines for this
criterion, and what is not assessed counts nothing).
One lemma per step that rewrites both shows that they still agree: `AppliedAgrees`,
`ReconciledAgrees`, `AuthorizedAgrees`. Concurrent batches come down to `AreaStep`: a
step of one area has to answer for its own criteria only. `OpenShows` links an open
verdict to the score, by the percentages of `Scored`. Of retrieval these proofs use only
that a packet grows: they hold for any selection of chunks.

What is selected is the matter of `PacketInv`: a packet holds only what the user may see
used (`Allowed`) and is within the limit, and before the upload has passed the gates there
is neither a packet nor a log. A packet is defined by `CHOOSE`, as the subset of the
candidates that a loop over them leaves behind, so the proof needs that there is one. The
order of the code is strict and total on chunks, since it ends with their names
(`RankOrders`); a non-empty set of chunks has a last one in it (`LastExists`); and a
smallest set of candidates for which the loop had no result would have one without its
last element, to which that element can be added or not (`GreedyExists`). There is only
one, since two results would differ on a first chunk (`GreedyUnique`). That every admitted
chunk leaves the packet within the limit gives the limit for the whole (`LimitKept`), and
that a packet only grows gives `LeftOutDoesNotFit`. `RoundsInv` bounds attempts and passes
and types the score.

## 6. What is only model-checked

The five liveness properties, `AttemptsSettle`, `ResultsRecovered`, `RunsAreCleaned`,
`StageEnds` and `DraftIsDelivered`: liveness under fairness and `ENABLED` are beyond the
prover used. Every invariant, action property and refinement of the passing runs is
proved. Three theorems hold under `PromptRead` and one under `Single`, which their
statements name. That the properties of the violated runs and further instances fail is
shown by TLC alone.

The refinements compose through their abstract modules; there is no proof about the
product of the modules. The run of `Delivery` is reduced: it is not resumed, which its tab
never does, nor completed before it is ready. `RunContract` allows both, and neither
touches what is stored. Induction over data (what a recursive definition computes for every
input) is out of reach too; the loops of retrieval are therefore defined by the result they
must have, and that it exists is proved from the order of the finite set of chunks.

## 7. Abstractions and what is not modelled

- Packets, answers, payloads, hashes and ids are opaque; the code compares them
  only for equality and presence. Canonicalization and DLP inspection of a packet
  are a single success or failure.
- The order of two CTEs inside one SQL statement is PostgreSQL's; statements and
  scripts are atomic. Deadlocks between transactions are detected and abort one of
  them, which is a call that throws.
- `pruneMetadata` deletes rows after 90 days, long after a run is over.
- A resumed run in `Delivery` is not analysed again by the reloaded tab: the code
  recovers a report and never restarts the pipeline.
- `Session`: the report shown is not edited, an engine simulation is an analysis with
  files of its own, one set of files or one import is read at a time, and an import that
  is none and files that are rejected change nothing. What a run goes through on the
  server is in `RunLifecycle`. Several tabs share the run id in `localStorage`; one is
  modelled.
- `Audit`: an image quote is one whose text is found in the packet but is not that of
  the chunk it cites. The local status "missing" is one with "unsupported". A chunk has
  one class, all pairs weigh the same, so that the share of pairs resolved is that of
  criteria, and one provider is assessed (with several the headline is withheld). That
  the packets are ready, which the score asks for besides, was asked before (`Refuse`).
  A call that fails, is refused by its contract twice, or is given up is one failure.
- `Evidence`: how a text is split, matched and scored is in its constants, with one set
  of crucial items per area. Hidden rows and columns never leave the parser and are not
  chunks. The bounds on terms of one query, on rows shown of a table and on the number
  of sources are left out, as are the markup of the stage packets
  (`evidenceStagePacketService.ts`), the hashes of the integrity snapshots (nothing changes
  a registry once it is built) and the source context of phase 3
  (`renderPseudonymousSourceContext`, `sourceRegistryService.ts` 988-1003), which holds
  chunks of every source. So `WithheldStaysOut` is about what is routed to the areas and
  quoted, not about every text a model is given, and `PacketsWithinLimit` about the
  reckoning of the packets, not their rendered size.
- Derived lines: what the analyzers find is a constant, with one source, area and set of
  criteria each, eligible for the report; a line in a packet is its text in the local text
  check. Analyses of several tables, and those whose lines are shadowed or diagnostic and
  therefore not handed on, are left out.
- Time: the absolute deadline is one moment for PostgreSQL, Redis and the browser. Redis
  drops the keys of a run at it within a moment of each other, but not before: clocks that
  differ are not modelled, nor are keys evicted for want of memory.
- `Synthesis`: what a claim's text matches is a choice (`Treatments`), one action at most
  per claim, and the stripping of hygiene and of `not_applicable`
  (`strategySanitationService.ts` 214-222) is one of those choices; the notes the gate reads
  besides the strategy are a choice too. That a NO_GO in findings mode need not have a
  roadmap (`validatorService.ts` 137-142) is left out: no property is about the reason it
  saves. The severities a check may give are the
  four of its contract. Delivery integrity is 100 per cent once the evidence is
  admitted; both sides of its limit are checked all the same.
- Rendering, export, parsing, OCR, table analysis, the patterns of the privacy scan,
  sessions, logging, static catalogues, migrations and build scripts: conversions,
  static data or I/O, with no state that outlives a call.

Behaviours of the code that a reader of the models should know, none excluded by a
property: a required-tactic repair sanitizes the summary again with claims it has
already struck, and its new roadmap is neither grounded nor put through the
identifier gate (`RestoreTactics`); after a failed fact check it always fails, for
want of a summary verdict to keep; grounding warnings of a candidate that is then
turned down still reach the gate (`adjusted`); sanitation may empty a phase and leave
it in place, so that the missing roadmap is not noticed (`Edited`); the severities
that would make the gate count minor objections do not occur.

## 8. Plan

Done, in this order: dispatch and its ledger; the run and its cleanup; the fallback
chain; checkpoints, delivery and recovery; phase 3; phases 1 and 2; acquisition and
retrieval; the tab; the contract of the run; the proofs above.

Next, most important first:

1. The weights and levels of the maturity model, the
   routing policy and the boot sequence, as operators checked against reference
   definitions over bounded inputs.
