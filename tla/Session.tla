------------------------------ MODULE Session -------------------------------
(***************************************************************************)
(* One browser tab (src/App.tsx): Step 0, uploads, analyses, the report    *)
(* that is shown and its copy in sessionStorage, the run remembered in     *)
(* localStorage, and the callbacks that change them whenever their answer  *)
(* comes: a parsed file, an imported report, analyzeDocument, the two      *)
(* effects that recover and deliver a run, a login.                        *)
(*                                                                         *)
(* Of a run the tab sees its state and what recoverCheckpointResult would  *)
(* rebuild; modules RunLifecycle and Delivery have the detail.  A file     *)
(* stands for a set of files that is large enough to be assessed.          *)
(***************************************************************************)
EXTENDS Naturals

CONSTANTS
    Runs, Scopes,  \* the runs and the locked scopes there may be
    Demo,          \* the scope of the engine simulation
    Elsewhere,     \* the run of an imported report
    None,
    Slots,         \* bound: effects under way at once
    MaxEpoch       \* bound: the resets after which sessions are told apart

ASSUME BoundAssumption == MaxEpoch \in Nat

\* lock: the scope a file is classified for; epoch: the session it was picked in.
Files   == [lock : Scopes \cup {Demo}, epoch : 0..MaxEpoch]
Reports == [run : Runs \cup {Elsewhere}, final : BOOLEAN]
Orders  == [scope : Scopes \cup {Demo}, files : SUBSET Files]
Jobs    == [at : {"create", "run", "ready", "show", "ack"}, scope : Scopes \cup {Demo},
            files : SUBSET Files, run : Runs \cup {None}]
Tasks   == [kind : {"recover", "deliver"}, run : Runs,
            at : {"read", "load", "suspended", "ack"}]

ASSUME NamesAssumption ==
    /\ Elsewhere \notin Runs /\ Demo \notin Scopes
    /\ Elsewhere \notin Files
    /\ None \notin Files \cup Reports \cup Orders \cup Jobs \cup Tasks
    /\ None \notin Runs \cup Scopes \cup {Demo, Elsewhere}

VARIABLES
    auth,              \* authenticated
    asked,             \* what waits for the login (pendingAnalyzeRef)
    scope, files,      \* lockedScope
    reading,           \* what handleFileSelect reads: files, or what may be
                       \* a report from Elsewhere; bound: one at a time
    job,               \* runAnalyze under way (loading)
    result, safe,      \* the report shown; the one shown in recovery mode
    saved, crash,      \* sessionStorage: the report; that a view has crashed
    crashed,           \* AppErrorBoundary shows its fallback
    key,               \* localStorage: ACTIVE_RUN_KEY
    tasks,             \* the effects whose answers are outstanding
    state, copy,       \* per run: its state, what its checkpoints hold
    epoch,
    shown,             \* history: the runs whose final report was shown here
    lost               \* history: sessionStorage refused the last report shown
                       \* or the user cleared it there

inputs  == <<scope, files, reading>>
view    == <<result, safe, saved, crash, crashed, shown, lost>>
server  == <<state, copy>>
vars    == <<auth, asked, inputs, job, view, key, tasks, server, epoch>>

TypeOK ==
    /\ auth \in BOOLEAN /\ asked \in Orders \cup {None}
    /\ scope \in Scopes \cup {None} /\ files \in SUBSET Files
    /\ reading \in Files \cup {Elsewhere, None}
    /\ job \in Jobs \cup {None}
    /\ result \in Reports \cup {None} /\ safe \in Reports \cup {None}
    /\ saved \in Reports \cup {None}
    /\ crash \in BOOLEAN /\ crashed \in BOOLEAN
    /\ key \in Runs \cup {None}
    /\ tasks \in [Slots -> Tasks \cup {None}]
    /\ state \in [Runs -> {"none", "active", "recovery_required",
                           "ready_for_delivery", "completed", "ended"}]
    /\ copy \in [Runs -> {"none", "partial", "final", "gone"}]
    /\ epoch \in 0..MaxEpoch
    /\ shown \in SUBSET Runs /\ lost \in BOOLEAN

Init ==
    /\ auth = FALSE /\ asked = None
    /\ scope = None /\ files = {} /\ reading = None
    /\ job = None
    /\ result = None /\ safe = None /\ saved = None
    /\ crash = FALSE /\ crashed = FALSE
    /\ key = None /\ tasks = [n \in Slots |-> None]
    /\ state = [r \in Runs |-> "none"] /\ copy = [r \in Runs |-> "none"]
    /\ epoch = 0
    /\ shown = {} /\ lost = FALSE

-----------------------------------------------------------------------------
(* The effects on [authenticated, loading, result, safeRecoveryResult] *)

Task(kind, r) == [kind |-> kind, run |-> r, at |-> "read"]

\* A shown report delivers whatever run is remembered.
M_Due ==
    IF ~auth' \/ job' # None \/ key' = None THEN None
    ELSE IF result' = None
         THEN IF safe' = None THEN Task("recover", key') ELSE None
         ELSE Task("deliver", key')

\* What the effects start on the new values, if anything.
Due ==
    IF ~auth' \/ job' # None \/ key' = None THEN None
    ELSE IF result' = None
         THEN IF safe' = None THEN Task("recover", key') ELSE None
         ELSE IF result'.run = key' THEN Task("deliver", key') ELSE None

\* One of the four has changed; those of now are still under way.  Beyond the
\* slots an effect is one whose call fails.
Effects(now) ==
    IF Due = None \/ \A n \in Slots : now[n] # None THEN tasks' = now
    ELSE \E n \in Slots : now[n] = None /\ tasks' = [now EXCEPT ![n] = Due]

Done(n) == [tasks EXCEPT ![n] = None]

\* What is saved once is kept.
M_Show(report) ==
    /\ result' = report /\ safe' = None
    /\ shown' = IF report.final /\ report.run # Elsewhere
                THEN shown \cup {report.run} ELSE shown
    /\ \/ saved' = (IF saved = None THEN report ELSE saved) /\ lost' = FALSE
       \/ lost' = TRUE /\ UNCHANGED saved

\* setPreparedResult and saveAssessmentToSession; the latter may be refused.
Show(report) ==
    /\ result' = report /\ safe' = None
    /\ shown' = IF report.final /\ report.run # Elsewhere
                THEN shown \cup {report.run} ELSE shown
    /\ \/ saved' = report /\ lost' = FALSE
       \/ lost' = TRUE /\ UNCHANGED saved

-----------------------------------------------------------------------------
(* What the user sees and may do *)

Main == safe = None /\ ~crashed /\ asked = None

\* The intake stays open during an analysis.
M_Intake == Main /\ result = None

Intake == Main /\ result = None /\ job = None

\* checkSession answers, or a login that nothing waits for.
SignIn ==
    /\ ~auth /\ auth' = TRUE
    /\ UNCHANGED <<asked, inputs, job, view, key, server, epoch>>
    /\ Effects(tasks)

\* The answer to a click, whatever is shown by then.
Logout ==
    /\ auth /\ auth' = FALSE
    /\ UNCHANGED <<asked, inputs, job, view, key, tasks, server, epoch>>

Lock(s) ==
    /\ Intake /\ scope = None /\ scope' = s
    /\ UNCHANGED <<auth, asked, files, reading, job, view, key, tasks,
                   server, epoch>>

\* The files stay.
Unlock ==
    /\ Intake /\ scope # None /\ scope' = None
    /\ UNCHANGED <<auth, asked, files, reading, job, view, key, tasks,
                   server, epoch>>

\* handleFileSelect up to its first await: the scope is that of this moment.
Select ==
    /\ Intake /\ scope # None /\ reading = None
    /\ reading' \in {[lock |-> scope, epoch |-> epoch], Elsewhere}
    /\ UNCHANGED <<auth, asked, scope, files, job, view, key, tasks, server, epoch>>

\* The files are parsed or rejected.
Parsed ==
    /\ reading \in Files /\ reading' = None
    /\ files' \in {files, files \cup {reading}}
    /\ UNCHANGED <<auth, asked, scope, job, view, key, tasks, server, epoch>>

\* A report saved as HTML or JSON, or a file that is none.
Imported ==
    /\ reading = Elsewhere /\ reading' = None
    /\ UNCHANGED <<auth, asked, scope, files, job, crash, crashed, key, server, epoch>>
    /\ \/ Show([run |-> Elsewhere, final |-> TRUE]) /\ Effects(tasks)
       \/ UNCHANGED <<result, safe, saved, shown, lost, tasks>>

RemoveFile ==
    /\ Intake /\ \E f \in files : files' = files \ {f}
    /\ UNCHANGED <<auth, asked, scope, reading, job, view, key, tasks,
                   server, epoch>>

\* runAnalyze: the files and the scope are those of this moment.
Start(order) ==
    job' = [at |-> "create", scope |-> order.scope, files |-> order.files, run |-> None]

\* handleAnalyze, handleEngineSimulation.
Ask ==
    /\ Intake
    /\ \E order \in {[scope |-> Demo, files |-> {}]} \cup
                    {[scope |-> s, files |-> files] : s \in {scope} \ {None}} :
         /\ order.scope = Demo \/ files # {}
         /\ IF auth THEN Start(order) /\ UNCHANGED asked
                    ELSE asked' = order /\ UNCHANGED job
    /\ UNCHANGED <<auth, inputs, view, key, tasks, server, epoch>>

\* The login form is submitted, again after a failure: what it will start is
\* what is there by now.
Submit ==
    /\ asked # None /\ asked.scope # Demo
    /\ asked' = [asked EXCEPT !.files = files]
    /\ UNCHANGED <<auth, inputs, job, view, key, tasks, server, epoch>>

\* onSuccess of the LoginModal, or onClose.
Login ==
    /\ asked # None /\ asked' = None
    /\ \/ auth' = TRUE /\ Start(asked)
       \/ UNCHANGED <<auth, job>>
    /\ UNCHANGED <<inputs, view, key, tasks, server, epoch>>

-----------------------------------------------------------------------------
(* runAnalyze *)

\* The classification of the upload is kept.
M_Classified(fs, s) == fs

\* applyLandingZoneSourceClassification: whatever the upload was classified for.
Classified(fs, s) == {[f EXCEPT !.lock = s] : f \in fs}

\* createRun and onRunStarted.
Created ==
    /\ job # None /\ job.at = "create"
    /\ \E r \in Runs :
         /\ state[r] = "none"
         /\ state' = [state EXCEPT ![r] = "active"]
         /\ key' = r
         /\ job' = [job EXCEPT !.at = "run", !.run = r,
                               !.files = Classified(@, job.scope)]
    /\ UNCHANGED <<auth, asked, inputs, view, tasks, copy, epoch>>

\* Both accepted phases are saved.
Progress ==
    /\ job # None /\ job.at = "run" /\ state[job.run] = "active"
    /\ copy[job.run] = "none"
    /\ copy' = [copy EXCEPT ![job.run] = "partial"]
    /\ UNCHANGED <<auth, asked, inputs, job, view, key, tasks, state, epoch>>

\* The final checkpoint is saved, or not, and the analysis goes on.
Finalizes ==
    /\ job # None /\ job.at = "run" /\ job' = [job EXCEPT !.at = "ready"]
    /\ \/ state[job.run] = "active" /\ copy' = [copy EXCEPT ![job.run] = "final"]
       \/ UNCHANGED copy
    /\ UNCHANGED <<auth, asked, inputs, view, key, tasks, state, epoch>>

\* readyRun: accepted or not, with an answer or none.
MarkReady ==
    /\ job # None /\ job.at = "ready" /\ job' = [job EXCEPT !.at = "show"]
    /\ \/ /\ state[job.run] = "active"
          /\ state' = [state EXCEPT ![job.run] = "ready_for_delivery"]
       \/ UNCHANGED state
    /\ UNCHANGED <<auth, asked, inputs, view, key, tasks, copy, epoch>>

\* analyzeDocument returns in either case.
Returns ==
    /\ job # None /\ job.at = "show" /\ job' = [job EXCEPT !.at = "ack"]
    /\ Show([run |-> job.run, final |-> TRUE])
    /\ UNCHANGED <<auth, asked, inputs, crash, crashed, key, tasks, server, epoch>>

\* It throws: before there is a run, or with a run it suspends or fails.
Throws ==
    /\ job # None /\ job.at \in {"create", "run"} /\ job' = None
    /\ \/ /\ job.at = "run" /\ state[job.run] = "active"
          /\ state' = [state EXCEPT ![job.run] = "recovery_required"]
       \/ /\ job.at = "run" /\ state[job.run] = "active" /\ copy[job.run] = "none"
          /\ state' = [state EXCEPT ![job.run] = "ended"]
       \/ UNCHANGED state
    /\ UNCHANGED <<auth, asked, inputs, view, key, copy, epoch>>
    /\ Effects(tasks)

\* acknowledgeRun is answered; what is remembered is forgotten, whichever run
\* that is by now.
Acknowledged(r) ==
    /\ state[r] \in {"ready_for_delivery", "completed"}
    /\ state' = [state EXCEPT ![r] = "completed"]
    /\ key' = None

\* It is refused, or its request or its answer is lost.
Unacknowledged(r) ==
    /\ \/ /\ state[r] = "ready_for_delivery"
          /\ state' = [state EXCEPT ![r] = "completed"]
       \/ UNCHANGED state
    /\ UNCHANGED key

Finish ==
    /\ job # None /\ job.at = "ack" /\ job' = None
    /\ Acknowledged(job.run) \/ Unacknowledged(job.run)
    /\ UNCHANGED <<auth, asked, inputs, view, copy, epoch>>
    /\ Effects(tasks)

-----------------------------------------------------------------------------
(* The effects that recover and deliver a run *)

Undelivered(r) ==
    \/ state[r] = "ready_for_delivery"
    \/ state[r] = "completed" /\ copy[r] # "gone"

Recoverable(r) == state[r] = "recovery_required" \/ Undelivered(r)

Step(n, next) == tasks' = [tasks EXCEPT ![n].at = next] /\ UNCHANGED key

\* getRun.  For a run that is over, what is remembered is forgotten, whichever
\* run that is by now.
Read(n) ==
    LET t == tasks[n] IN
    /\ t # None /\ t.at = "read"
    /\ \/ t.kind = "recover" /\ Undelivered(t.run) /\ Step(n, "load")
       \/ /\ t.kind = "recover" /\ state[t.run] = "recovery_required"
          /\ Step(n, "suspended")
       \/ t.kind = "deliver" /\ Undelivered(t.run) /\ Step(n, "ack")
       \/ ~Recoverable(t.run) /\ tasks' = Done(n) /\ key' = None
       \/ tasks' = Done(n) /\ UNCHANGED key  \* nothing to do, or a failed call
    /\ UNCHANGED <<auth, asked, inputs, job, view, server, epoch>>

\* recoverCheckpointResult: the report that was accepted, one without a
\* roadmap, or none.
Load(n) ==
    LET t == tasks[n]
        report == [run |-> t.run, final |-> copy[t.run] = "final"]
    IN
    /\ t # None /\ t.at \in {"load", "suspended"}
    /\ UNCHANGED <<auth, asked, inputs, job, crash, crashed, key, server, epoch>>
    /\ \/ /\ copy[t.run] \in {"partial", "final"}
          /\ Show(report)
          /\ IF report.final /\ t.at = "load"
             THEN Effects([tasks EXCEPT ![n].at = "ack"])
             ELSE Effects(Done(n))
       \/ tasks' = Done(n) /\ UNCHANGED <<result, safe, saved, shown, lost>>

Deliver(n) ==
    LET t == tasks[n] IN
    /\ t # None /\ t.at = "ack"
    /\ tasks' = Done(n)
    /\ Acknowledged(t.run) \/ Unacknowledged(t.run)
    /\ UNCHANGED <<auth, asked, inputs, job, view, copy, epoch>>

-----------------------------------------------------------------------------
(* Reset, recovery mode and reloads *)

\* Of the shown, the recovered and the saved report the first there is.
Held == IF result # None THEN result ELSE IF safe # None THEN safe ELSE saved

\* reset: the request to delete the run may be lost, what is under way stays.
Clear ==
    /\ epoch' = IF epoch < MaxEpoch THEN epoch + 1 ELSE epoch
    /\ \/ /\ Held # None /\ Held.run \in Runs
          /\ state' = [state EXCEPT ![Held.run] = "ended"]
       \/ UNCHANGED state
    /\ scope' = None /\ files' = {}
    /\ result' = None /\ safe' = None /\ saved' = None
    /\ crash' = FALSE /\ crashed' = FALSE /\ key' = None
    /\ lost' = FALSE
    /\ UNCHANGED <<auth, asked, reading, job, tasks, copy, shown>>

\* The button is disabled during an analysis.
Reset ==
    /\ Main /\ job = None
    /\ result # None \/ files # {} \/ scope # None
    /\ Clear

\* clearSavedAssessmentAndRestart, of the fallback and of recovery mode.
Restart == (crashed \/ safe # None) /\ Clear

\* The notice of a recovery or an import offers it.
ClearSaved ==
    /\ Main /\ saved # None
    /\ saved' = None /\ crash' = FALSE /\ lost' = TRUE
    /\ UNCHANGED <<auth, asked, inputs, job, result, safe, crashed, shown, key,
                   tasks, server, epoch>>

\* recordUiCrash, which sessionStorage may refuse.
ViewCrashes ==
    /\ Main /\ result # None
    /\ crashed' = TRUE /\ crash' \in {crash, TRUE}
    /\ UNCHANGED <<auth, asked, inputs, job, result, safe, saved, shown, lost,
                   key, tasks, server, epoch>>

\* restoreSavedAssessment.
Restore ==
    /\ crashed /\ saved # None
    /\ safe' = saved /\ result' = None /\ crashed' = FALSE
    /\ lost' = FALSE
    /\ UNCHANGED <<auth, asked, inputs, job, saved, crash, shown, key, tasks, server,
                   epoch>>

\* openRecoveredDashboard.
OpenDashboard ==
    /\ safe # None /\ crash' = FALSE
    /\ Show(safe)
    /\ UNCHANGED <<auth, asked, inputs, job, crashed, key, server, epoch>>
    /\ Effects(tasks)

ReturnToStart ==
    /\ safe # None /\ safe' = None /\ crash' = FALSE
    /\ UNCHANGED <<auth, asked, inputs, job, result, saved, crashed, shown, lost,
                   key, server, epoch>>
    /\ Effects(tasks)

\* What was under way is gone; the saved report is shown again, in recovery
\* mode after a crash.
Reload ==
    /\ auth' = FALSE /\ asked' = None
    /\ scope' = None /\ files' = {} /\ reading' = None
    /\ job' = None /\ tasks' = [n \in Slots |-> None]
    /\ result' = IF crash THEN None ELSE saved
    /\ safe' = IF crash THEN saved ELSE None
    /\ crashed' = FALSE /\ lost' = FALSE
    /\ UNCHANGED <<saved, crash, key, server, epoch, shown>>

-----------------------------------------------------------------------------
(* The server *)

Expire(r) ==
    /\ state[r] \in {"active", "recovery_required", "ready_for_delivery"}
    /\ state' = [state EXCEPT ![r] = "ended"]
    /\ UNCHANGED <<auth, asked, inputs, job, view, key, tasks, copy, epoch>>

Cleaned(r) ==
    /\ state[r] \in {"completed", "ended"} /\ copy[r] # "gone"
    /\ copy' = [copy EXCEPT ![r] = "gone"]
    /\ UNCHANGED <<auth, asked, inputs, job, view, key, tasks, state, epoch>>

User ==
    \/ SignIn \/ Logout \/ Unlock \/ Select \/ RemoveFile \/ Ask \/ Submit \/ Login
    \/ Reset \/ Restart \/ ClearSaved \/ Restore \/ OpenDashboard \/ ReturnToStart
    \/ \E s \in Scopes : Lock(s)

Answers ==
    \/ Parsed \/ Imported \/ Created \/ Progress \/ Finalizes \/ MarkReady
    \/ Returns \/ Throws \/ Finish
    \/ \E n \in Slots : Read(n) \/ Load(n) \/ Deliver(n)

Next == User \/ Answers \/ ViewCrashes \/ Reload \/ \E r \in Runs : Expire(r) \/ Cleaned(r)

Spec == Init /\ [][Next]_vars

-----------------------------------------------------------------------------
(* Properties *)

\* What the tab shows, in recovery mode or not, is what a reload brings back,
\* whichever callback has put it there and in whatever order: unless the write
\* was refused or the user has cleared it (setPreparedResult, the effect on
\* [result], restoreSavedAssessment, openRecoveredDashboard).
ShownIsSaved ==
    ~lost => /\ result # None => saved = result
             /\ safe # None => saved = safe

\* A run that has its final checkpoint is acknowledged, and its copies thereby
\* given up, only when its final report has been shown here: by the analysis,
\* by either effect, with other runs, imports and reloads in between.
AcknowledgedWasShown ==
    [][\A r \in Runs :
         state[r] # "completed" /\ state'[r] = "completed" /\ copy[r] = "final"
           => r \in shown]_vars

\* The sources of an analysis are classified for the scope it was ordered with,
\* though that scope may have been unlocked and locked otherwise since the
\* upload, and a login may lie between the order and the start.
SourcesFitScope ==
    job # None /\ job.at # "create" => \A f \in job.files : f.lock = job.scope

\* While an analysis is under way none waits for a login, to start beside it;
\* and while recovery mode has a report, the main view has none.
OneThingAtATime ==
    /\ asked # None => job = None
    /\ safe # None => result = None

\* "Use Reset Session before uploading new source material" (handleFileSelect):
\* an analysis uses the files of one session only.
UploadsStayInSession ==
    job # None => \A f, g \in job.files : f.epoch = g.epoch

\* "It will remain available until expiry" (the effect that recovers): a run
\* that is suspended stays remembered until it is over or the user resets.
SuspendedStaysRemembered ==
    [][\A r \in Runs :
         key = r /\ state[r] = "recovery_required" /\ epoch' = epoch
           => key' = r \/ state'[r] # "recovery_required"]_vars

\* The run of an analysis under way is the one that is remembered.
AnalysisIsRemembered == job # None /\ job.at \in {"run", "ready", "show"} => key = job.run

=============================================================================
