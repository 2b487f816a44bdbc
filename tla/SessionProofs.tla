---------------------------- MODULE SessionProofs ----------------------------
(***************************************************************************)
(* Theorems about module Session: types; what is shown is saved; sources   *)
(* fit their scope; one thing at a time; and a run is acknowledged only    *)
(* when its final report was shown.                                        *)
(***************************************************************************)
EXTENDS Session, TLAPS

Holds(r) ==
    \/ result # None /\ result.run = r
    \/ safe # None /\ safe.run = r
    \/ saved # None /\ saved.run = r

Has(r) == \E n \in Slots : tasks[n] # None /\ tasks[n].run = r

RunKnown == job # None /\ job.at # "create" => job.run \in Runs

Typed == TypeOK /\ RunKnown

\* Nothing refers to a run that has not been created.
FreshInv ==
    \A r \in Runs : state[r] = "none" =>
        ~Holds(r) /\ ~Has(r) /\ key # r /\ (job # None => job.run # r)

\* Nothing recovers or shows a run before its analysis has ended.
JobInv ==
    job # None =>
        /\ job.at = "run" => ~Holds(job.run) /\ ~Has(job.run)
        /\ job.at = "ack" => job.run \in shown

\* A final report nobody has seen is neither held nor about to be delivered.
UnseenInv ==
    \A r \in Runs : copy[r] = "final" /\ r \notin shown =>
        /\ ~Holds(r)
        /\ \A n \in Slots :
             tasks[n] # None /\ tasks[n].run = r
               => tasks[n].kind = "recover" /\ tasks[n].at # "ack"

IInv ==
    /\ Typed /\ OneThingAtATime /\ ShownIsSaved /\ SourcesFitScope
    /\ FreshInv /\ JobInv /\ UnseenInv

-----------------------------------------------------------------------------
(* The effects, and what is shown *)

LEMMA DueTyped ==
  ASSUME TypeOK', Due # None
  PROVE  /\ Due \in Tasks /\ Due.run = key' /\ Due.at = "read"
         /\ Due.kind = "deliver" => result' # None /\ result'.run = key'
  BY DEF Due, Task, Tasks, TypeOK

LEMMA EffectsAdd ==
  ASSUME key' \in Runs \cup {None}, NEW now \in [Slots -> Tasks \cup {None}], Effects(now)
  PROVE  /\ tasks' \in [Slots -> Tasks \cup {None}]
         /\ \A n \in Slots : tasks'[n] # now[n] => Due # None /\ tasks'[n] = Due
<1>1. Due # None => Due \in Tasks
  BY DEF Due, Task, Tasks
<1>2. CASE tasks' = now
  BY <1>2
<1>3. CASE tasks' # now
  <2>1. Due # None /\ \E m \in Slots : tasks' = [now EXCEPT ![m] = Due]
    BY <1>3 DEF Effects
  <2>2. QED
    BY <1>1, <2>1
<1>4. QED
  BY <1>2, <1>3

LEMMA ShowTyped ==
  ASSUME TypeOK, NEW report \in Reports, Show(report)
  PROVE  /\ result' \in Reports /\ safe' = None
         /\ saved' \in Reports \cup {None}
         /\ shown' \in SUBSET Runs /\ lost' \in BOOLEAN
         /\ shown \subseteq shown'
         /\ report.final /\ report.run # Elsewhere => report.run \in shown'
  BY DEF TypeOK, Show, Reports

-----------------------------------------------------------------------------
(* Types *)

LEMMA ClearTyped ==
  ASSUME TypeOK, Clear
  PROVE  TypeOK'
<1>1. epoch' \in 0..MaxEpoch
  BY BoundAssumption DEF Clear, TypeOK
<1>2. state' \in [Runs -> {"none", "active", "recovery_required",
                          "ready_for_delivery", "completed", "ended"}]
  BY DEF Clear, TypeOK
<1>3. QED
  BY <1>1, <1>2 DEF Clear, TypeOK

\* The run of an analysis stays what it is once it is there.
LEMMA JobTyped ==
  ASSUME TypeOK, job # None, NEW at \in {"create", "run", "ready", "show", "ack"}
  PROVE  /\ [job EXCEPT !.at = at] \in Jobs
         /\ [job EXCEPT !.at = at].run = job.run /\ [job EXCEPT !.at = at].at = at
         /\ [job EXCEPT !.at = at].files = job.files /\ [job EXCEPT !.at = at].scope = job.scope
  BY DEF TypeOK, Jobs

LEMMA StartTyped ==
  ASSUME NEW order \in Orders, Start(order)
  PROVE  /\ job' \in Jobs /\ job' # None
         /\ job'.at = "create" /\ job'.run = None
         /\ job'.scope = order.scope /\ job'.files = order.files
  BY NamesAssumption DEF Start, Orders, Jobs

LEMMA ClassifiedFits ==
  ASSUME NEW fs \in SUBSET Files, NEW s \in Scopes \cup {Demo}
  PROVE  /\ Classified(fs, s) \in SUBSET Files
         /\ \A f \in Classified(fs, s) : f.lock = s
  BY DEF Classified, Files

LEMMA CreatedTyped ==
  ASSUME TypeOK, Created
  PROVE  /\ job' \in Jobs /\ job' # None /\ job # None
         /\ job'.at = "run" /\ job'.scope = job.scope /\ job'.run \in Runs
         /\ key' = job'.run /\ state[job'.run] = "none"
         /\ state' = [state EXCEPT ![job'.run] = "active"]
         /\ \A f \in job'.files : f.lock = job'.scope
<1>1. job # None /\ job \in Jobs
  BY DEF Created, TypeOK
<1>2. /\ Classified(job.files, job.scope) \in SUBSET Files
      /\ \A f \in Classified(job.files, job.scope) : f.lock = job.scope
  BY <1>1, ClassifiedFits DEF Jobs
<1>3. PICK r \in Runs :
        /\ state[r] = "none" /\ state' = [state EXCEPT ![r] = "active"] /\ key' = r
        /\ job' = [job EXCEPT !.at = "run", !.run = r,
                              !.files = Classified(@, job.scope)]
  BY DEF Created
<1>4. job' = [at |-> "run", scope |-> job.scope, run |-> r,
              files |-> Classified(job.files, job.scope)]
  BY <1>1, <1>3 DEF Jobs
<1>5. job' \in Jobs
  BY <1>1, <1>2, <1>4 DEF Jobs
<1>6. QED
  BY <1>1, <1>2, <1>3, <1>4, <1>5, NamesAssumption

LEMMA TaskMoved ==
  ASSUME TypeOK, NEW n \in Slots, tasks[n] # None,
         NEW at \in {"read", "load", "suspended", "ack"}
  PROVE  /\ tasks[n] \in Tasks
         /\ [tasks[n] EXCEPT !.at = at] \in Tasks
         /\ [tasks[n] EXCEPT !.at = at].run = tasks[n].run
         /\ [tasks[n] EXCEPT !.at = at].kind = tasks[n].kind
         /\ [tasks[n] EXCEPT !.at = at].at = at
         /\ [tasks EXCEPT ![n].at = at] \in [Slots -> Tasks \cup {None}]
         /\ [tasks EXCEPT ![n].at = at][n] = [tasks[n] EXCEPT !.at = at]
         /\ \A m \in Slots : m # n => [tasks EXCEPT ![n].at = at][m] = tasks[m]
<1>1. tasks[n] \in Tasks
  BY DEF TypeOK
<1>2. [tasks[n] EXCEPT !.at = at] \in Tasks
  BY <1>1 DEF Tasks
<1>3. QED
  BY <1>1, <1>2 DEF TypeOK, Tasks

LEMMA DoneTyped ==
  ASSUME TypeOK, NEW n \in Slots
  PROVE  /\ Done(n) \in [Slots -> Tasks \cup {None}] /\ Done(n)[n] = None
         /\ \A m \in Slots : m # n => Done(n)[m] = tasks[m]
  BY DEF TypeOK, Done

LEMMA LoadTyped ==
  ASSUME TypeOK, NEW n \in Slots, tasks[n] # None
  PROVE  [run |-> tasks[n].run, final |-> copy[tasks[n].run] = "final"] \in Reports
  BY DEF TypeOK, Tasks, Reports

LEMMA TypeInit == Init => Typed
<1> SUFFICES ASSUME Init
             PROVE  Typed
  OBVIOUS
<1>1. 0 \in 0..MaxEpoch
  BY BoundAssumption
<1>2. /\ auth \in BOOLEAN /\ crash \in BOOLEAN /\ crashed \in BOOLEAN /\ lost \in BOOLEAN
  BY Zenon DEF Init
<1>3. QED
  BY <1>1, <1>2 DEF Init, Typed, RunKnown, TypeOK

LEMMA TypeStep == Typed /\ [Next]_vars => Typed'
<1> SUFFICES ASSUME Typed, [Next]_vars
             PROVE  Typed'
  OBVIOUS
<1> USE BoundAssumption, NamesAssumption
<1>1. ASSUME Unlock \/ Select
      PROVE  Typed'
  BY <1>1 DEF Typed, RunKnown, TypeOK, Unlock, Intake, Main, Files, inputs, view,
        server, Select
<1>2. ASSUME RemoveFile \/ Submit
      PROVE  Typed'
  BY <1>2 DEF Typed, RunKnown, TypeOK, RemoveFile, Intake, Main, Files, inputs,
        view, server, Submit, Start, Orders, Jobs
<1>3. ASSUME ClearSaved \/ Restore
      PROVE  Typed'
  BY <1>3 DEF Typed, RunKnown, TypeOK, ClearSaved, inputs, view, server, Restore
<1>4. ASSUME Parsed \/ Progress
      PROVE  Typed'
  BY <1>4 DEF Typed, RunKnown, TypeOK, Parsed, inputs, view, server, Progress
<1>5. ASSUME Reload
      PROVE  Typed'
  BY <1>5 DEF Typed, RunKnown, TypeOK, Reload, inputs, view, server
<1>6. ASSUME SignIn
      PROVE  Typed'
  BY <1>6, EffectsAdd DEF Typed, RunKnown, TypeOK, SignIn, inputs, view, server
<1>7. ASSUME Logout
      PROVE  Typed'
  <2>1. /\ auth' \in BOOLEAN /\ crash' \in BOOLEAN /\ crashed' \in BOOLEAN /\ lost' \in BOOLEAN
    BY <1>7, ZenonT(30) DEF Typed, TypeOK, Logout, view
  <2>2. QED
    BY <1>7, <2>1 DEF Typed, RunKnown, TypeOK, Logout, inputs, view, server
<1>8. ASSUME Ask
      PROVE  Typed'
  <2>1. PICK order \in Orders : IF auth THEN Start(order) /\ UNCHANGED asked
                                       ELSE asked' = order /\ UNCHANGED job
    BY <1>8 DEF Ask, Orders, Typed, TypeOK
  <2>2. /\ job' \in Jobs \cup {None} /\ (job' # None /\ job'.at # "create" => job'.run \in Runs)
        /\ asked' \in Orders \cup {None}
    BY <2>1, StartTyped DEF Typed, RunKnown, TypeOK
  <2>3. QED
    BY <1>8, <2>2 DEF Ask, Typed, RunKnown, TypeOK, inputs, view, server
<1>9. ASSUME Login
      PROVE  Typed'
  <2>1. asked \in Orders
    BY <1>9 DEF Login, Typed, TypeOK
  <2>2. job' \in Jobs \cup {None} /\ (job' # None /\ job'.at # "create" => job'.run \in Runs)
    BY <1>9, <2>1, StartTyped DEF Login, Typed, RunKnown, TypeOK
  <2>3. QED
    BY <1>9, <2>2 DEF Login, Typed, RunKnown, TypeOK, inputs, view, server
<1>10. ASSUME Reset
      PROVE  Typed'
  BY <1>10, ClearTyped DEF Typed, RunKnown, TypeOK, Reset, Clear, inputs, view,
        server
<1>11. ASSUME Restart
      PROVE  Typed'
  BY <1>11, ClearTyped DEF Typed, RunKnown, TypeOK, Restart, Clear, inputs, view,
        server
<1>12. ASSUME OpenDashboard
      PROVE  Typed'
  BY <1>12, EffectsAdd, ShowTyped DEF Typed, RunKnown, TypeOK, OpenDashboard,
        Reports, inputs, view, server
<1>13. ASSUME ReturnToStart
      PROVE  Typed'
  <2>1. /\ auth' \in BOOLEAN /\ crash' \in BOOLEAN /\ crashed' \in BOOLEAN /\ lost' \in BOOLEAN
    BY <1>13, ZenonT(30) DEF Typed, TypeOK, ReturnToStart, view
  <2>2. QED
    BY <1>13, <2>1, EffectsAdd DEF Typed, RunKnown, TypeOK, ReturnToStart, inputs,
          view, server
<1>14. ASSUME Imported
      PROVE  Typed'
  BY <1>14, EffectsAdd, ShowTyped DEF Typed, RunKnown, TypeOK, Imported, Reports,
        inputs, view, server
<1>15. ASSUME Created
      PROVE  Typed'
  <2>1. /\ job' \in Jobs /\ (job' # None /\ job'.at # "create" => job'.run \in Runs)
        /\ key' \in Runs
        /\ state' \in [Runs -> {"none", "active", "recovery_required",
                                "ready_for_delivery", "completed", "ended"}]
    BY <1>15, CreatedTyped DEF Typed, TypeOK
  <2>2. UNCHANGED <<auth, asked, inputs, view, tasks, copy, epoch>>
    BY <1>15 DEF Created
  <2>3. QED
    BY <2>1, <2>2 DEF Typed, RunKnown, TypeOK, inputs, view
<1>16. ASSUME Finalizes
      PROVE  Typed'
  BY <1>16, JobTyped DEF Typed, RunKnown, TypeOK, Finalizes, Jobs, inputs, view,
        server
<1>17. ASSUME MarkReady
      PROVE  Typed'
  BY <1>17, JobTyped DEF Typed, RunKnown, TypeOK, MarkReady, Jobs, inputs, view,
        server
<1>18. ASSUME Returns
      PROVE  Typed'
  BY <1>18, JobTyped, ShowTyped DEF Typed, RunKnown, TypeOK, Returns, Jobs, Reports,
        inputs, view, server
<1>19. ASSUME Throws
      PROVE  Typed'
  BY <1>19, EffectsAdd DEF Typed, RunKnown, TypeOK, Throws, inputs, view, server
<1>20. ASSUME Finish
      PROVE  Typed'
  BY <1>20, EffectsAdd DEF Typed, RunKnown, TypeOK, Finish, Acknowledged,
        Unacknowledged, Jobs, inputs, view, server
<1>21. ASSUME ViewCrashes
      PROVE  Typed'
  <2>1. /\ auth' \in BOOLEAN /\ crash' \in BOOLEAN /\ crashed' \in BOOLEAN /\ lost' \in BOOLEAN
    BY <1>21, ZenonT(30) DEF Typed, TypeOK, ViewCrashes, view
  <2>2. QED
    BY <1>21, <2>1 DEF Typed, RunKnown, TypeOK, ViewCrashes, inputs, view, server
<1>22. ASSUME NEW s \in Scopes, Lock(s)
      PROVE  Typed'
  BY <1>22 DEF Typed, RunKnown, TypeOK, Lock, Intake, Main, Files, inputs, view,
        server
<1>23. ASSUME NEW n \in Slots, Read(n)
      PROVE  Typed'
  BY <1>23 DEF Typed, RunKnown, TypeOK, Read, Tasks, Step, Done, Undelivered,
        Recoverable, inputs, view, server
<1>24. ASSUME NEW n \in Slots, Load(n)
      PROVE  Typed'
  <2> DEFINE report == [run |-> tasks[n].run, final |-> copy[tasks[n].run] = "final"]
             now    == [tasks EXCEPT ![n].at = "ack"]
  <2>1. /\ TypeOK /\ RunKnown /\ tasks[n] # None
        /\ UNCHANGED <<auth, asked, inputs, job, crash, crashed, key, server, epoch>>
    BY <1>24 DEF Load, Typed
  <2>2. /\ report \in Reports
        /\ now \in [Slots -> Tasks \cup {None}]
        /\ Done(n) \in [Slots -> Tasks \cup {None}]
    BY <2>1, LoadTyped, TaskMoved, DoneTyped
  <2>3. CASE Show(report) /\ (Effects(now) \/ Effects(Done(n)))
    <3>1. tasks' \in [Slots -> Tasks \cup {None}]
      BY <2>1, <2>2, <2>3, EffectsAdd DEF TypeOK
    <3>2. QED
      BY <2>1, <2>2, <2>3, <3>1, ShowTyped DEF Typed, RunKnown, TypeOK, inputs,
            server
  <2>4. CASE tasks' = Done(n) /\ UNCHANGED <<result, safe, saved, shown, lost>>
    BY <2>1, <2>2, <2>4 DEF Typed, RunKnown, TypeOK, inputs, server
  <2>5. QED
    BY <1>24, <2>3, <2>4 DEF Load
<1>25. ASSUME NEW n \in Slots, Deliver(n)
      PROVE  Typed'
  BY <1>25 DEF Typed, RunKnown, TypeOK, Deliver, Acknowledged, Unacknowledged, Jobs,
        Tasks, Step, Done, Undelivered, Recoverable, inputs, view, server
<1>26. ASSUME NEW r \in Runs, Expire(r)
      PROVE  Typed'
  BY <1>26 DEF Typed, RunKnown, TypeOK, Expire, inputs, view, server
<1>27. ASSUME NEW r \in Runs, Cleaned(r)
      PROVE  Typed'
  BY <1>27 DEF Typed, RunKnown, TypeOK, Cleaned, inputs, view, server
<1>28. CASE UNCHANGED vars
  BY <1>28 DEF Typed, RunKnown, TypeOK, vars, inputs, view, server
<1>29. QED
  BY <1>1, <1>2, <1>3, <1>4, <1>5, <1>6, <1>7, <1>8, <1>9, <1>10, <1>11, <1>12,
        <1>13, <1>14, <1>15, <1>16, <1>17, <1>18, <1>19, <1>20, <1>21, <1>22, <1>23,
        <1>24, <1>25, <1>26, <1>27, <1>28 DEF Next, User, Answers

-----------------------------------------------------------------------------
(* What is shown, what is asked, what is analysed *)

LEMMA OneThingStep == Typed /\ OneThingAtATime /\ [Next]_vars => OneThingAtATime'
<1> SUFFICES ASSUME Typed, OneThingAtATime, [Next]_vars
             PROVE  OneThingAtATime'
  OBVIOUS
<1>1. ASSUME SignIn \/ Logout \/ Unlock \/ Select \/ RemoveFile \/ Ask \/ Submit \/
             Login
      PROVE  OneThingAtATime'
  BY <1>1 DEF OneThingAtATime, inputs, view, server, SignIn, Logout, Unlock, Select,
        Intake, Main, RemoveFile, Ask, Start, Submit, Login
<1>2. ASSUME Reset \/ Restart \/ ClearSaved \/ Restore \/ OpenDashboard \/
             ReturnToStart \/ Parsed \/ Imported
      PROVE  OneThingAtATime'
  BY <1>2 DEF OneThingAtATime, inputs, view, server, Reset, Clear, Restart,
        ClearSaved, Restore, OpenDashboard, Show, ReturnToStart, Parsed, Imported
<1>3. ASSUME Created \/ Progress \/ Finalizes \/ MarkReady \/ Returns \/ Throws \/
             Finish \/ ViewCrashes
      PROVE  OneThingAtATime'
  BY <1>3 DEF OneThingAtATime, inputs, view, server, Created, Progress, Finalizes,
        MarkReady, Returns, Show, Throws, Finish, ViewCrashes
<1>4. ASSUME Reload
      PROVE  OneThingAtATime'
  BY <1>4 DEF OneThingAtATime, inputs, view, server, Reload
<1>5. ASSUME NEW s \in Scopes, Lock(s)
      PROVE  OneThingAtATime'
  BY <1>5 DEF OneThingAtATime, inputs, view, server, Lock, Intake, Main
<1>6. ASSUME NEW n \in Slots, Read(n)
      PROVE  OneThingAtATime'
  BY <1>6 DEF OneThingAtATime, inputs, view, server, Read
<1>7. ASSUME NEW n \in Slots, Load(n)
      PROVE  OneThingAtATime'
  BY <1>7 DEF OneThingAtATime, inputs, view, server, Load, Show
<1>8. ASSUME NEW n \in Slots, Deliver(n)
      PROVE  OneThingAtATime'
  BY <1>8 DEF OneThingAtATime, inputs, view, server, Deliver
<1>9. ASSUME NEW r \in Runs, Expire(r)
      PROVE  OneThingAtATime'
  BY <1>9 DEF OneThingAtATime, inputs, view, server, Expire
<1>10. ASSUME NEW r \in Runs, Cleaned(r)
      PROVE  OneThingAtATime'
  BY <1>10 DEF OneThingAtATime, inputs, view, server, Cleaned
<1>11. CASE UNCHANGED vars
  BY <1>11 DEF OneThingAtATime, inputs, view, server, vars
<1>12. QED
  BY <1>1, <1>2, <1>3, <1>4, <1>5, <1>6, <1>7, <1>8, <1>9, <1>10, <1>11 DEF Next,
        User, Answers

LEMMA ShownStep == OneThingAtATime /\ ShownIsSaved /\ [Next]_vars => ShownIsSaved'
<1> SUFFICES ASSUME OneThingAtATime, ShownIsSaved, [Next]_vars
             PROVE  ShownIsSaved'
  OBVIOUS
<1>1. ASSUME SignIn \/ Logout \/ Unlock
      PROVE  ShownIsSaved'
  BY <1>1 DEF ShownIsSaved, OneThingAtATime, inputs, view, server, SignIn, Logout,
        Unlock
<1>2. ASSUME Select \/ RemoveFile \/ Ask
      PROVE  ShownIsSaved'
  BY <1>2 DEF ShownIsSaved, OneThingAtATime, inputs, view, server, Select, Intake,
        Main, RemoveFile, Ask, Start
<1>3. ASSUME Submit \/ Login \/ Reset
      PROVE  ShownIsSaved'
  BY <1>3 DEF ShownIsSaved, OneThingAtATime, inputs, view, server, Submit, Login,
        Start, Reset, Clear
<1>4. ASSUME Restart \/ ClearSaved \/ Restore
      PROVE  ShownIsSaved'
  BY <1>4 DEF ShownIsSaved, OneThingAtATime, inputs, view, server, Restart, Clear,
        ClearSaved, Restore
<1>5. ASSUME OpenDashboard \/ ReturnToStart \/ Parsed
      PROVE  ShownIsSaved'
  BY <1>5 DEF ShownIsSaved, OneThingAtATime, inputs, view, server, OpenDashboard,
        Show, ReturnToStart, Parsed
<1>6. ASSUME Imported \/ Created \/ Progress
      PROVE  ShownIsSaved'
  BY <1>6 DEF ShownIsSaved, OneThingAtATime, inputs, view, server, Imported, Show,
        Created, Progress
<1>7. ASSUME Finalizes \/ MarkReady \/ Returns
      PROVE  ShownIsSaved'
  BY <1>7 DEF ShownIsSaved, OneThingAtATime, inputs, view, server, Finalizes,
        MarkReady, Returns, Show
<1>8. ASSUME Throws \/ Finish \/ ViewCrashes
      PROVE  ShownIsSaved'
  BY <1>8 DEF ShownIsSaved, OneThingAtATime, inputs, view, server, Throws, Finish,
        ViewCrashes
<1>9. ASSUME Reload
      PROVE  ShownIsSaved'
  BY <1>9 DEF ShownIsSaved, OneThingAtATime, inputs, view, server, Reload
<1>10. ASSUME NEW s \in Scopes, Lock(s)
      PROVE  ShownIsSaved'
  BY <1>10 DEF ShownIsSaved, OneThingAtATime, inputs, view, server, Lock, Intake,
        Main
<1>11. ASSUME NEW n \in Slots, Read(n)
      PROVE  ShownIsSaved'
  BY <1>11 DEF ShownIsSaved, OneThingAtATime, inputs, view, server, Read
<1>12. ASSUME NEW n \in Slots, Load(n)
      PROVE  ShownIsSaved'
  BY <1>12 DEF ShownIsSaved, OneThingAtATime, inputs, view, server, Load, Show
<1>13. ASSUME NEW n \in Slots, Deliver(n)
      PROVE  ShownIsSaved'
  BY <1>13 DEF ShownIsSaved, OneThingAtATime, inputs, view, server, Deliver
<1>14. ASSUME NEW r \in Runs, Expire(r)
      PROVE  ShownIsSaved'
  BY <1>14 DEF ShownIsSaved, OneThingAtATime, inputs, view, server, Expire
<1>15. ASSUME NEW r \in Runs, Cleaned(r)
      PROVE  ShownIsSaved'
  BY <1>15 DEF ShownIsSaved, OneThingAtATime, inputs, view, server, Cleaned
<1>16. CASE UNCHANGED vars
  BY <1>16 DEF ShownIsSaved, OneThingAtATime, inputs, view, server, vars
<1>17. QED
  BY <1>1, <1>2, <1>3, <1>4, <1>5, <1>6, <1>7, <1>8, <1>9, <1>10, <1>11, <1>12,
        <1>13, <1>14, <1>15, <1>16 DEF Next, User, Answers

LEMMA SourcesStep == Typed /\ SourcesFitScope /\ [Next]_vars => SourcesFitScope'
<1> SUFFICES ASSUME Typed, SourcesFitScope, [Next]_vars
             PROVE  SourcesFitScope'
  OBVIOUS
<1>1. ASSUME SignIn \/ Logout \/ Unlock \/ Select \/ RemoveFile \/ Ask \/ Submit \/
             Login
      PROVE  SourcesFitScope'
  BY <1>1 DEF SourcesFitScope, inputs, view, server, SignIn, Logout, Unlock, Select,
        RemoveFile, Ask, Start, Intake, Main, Submit, Login
<1>2. ASSUME Reset \/ Restart \/ ClearSaved \/ Restore \/ OpenDashboard \/
             ReturnToStart \/ Parsed \/ Imported
      PROVE  SourcesFitScope'
  BY <1>2 DEF SourcesFitScope, inputs, view, server, Reset, Clear, Restart,
        ClearSaved, Restore, OpenDashboard, ReturnToStart, Parsed, Imported
<1>3. ASSUME Progress \/ Throws \/ Finish \/ ViewCrashes \/ Reload
      PROVE  SourcesFitScope'
  BY <1>3 DEF SourcesFitScope, inputs, view, server, Progress, Throws, Finish,
        ViewCrashes, Reload
<1>4. ASSUME Created
      PROVE  SourcesFitScope'
  BY <1>4, CreatedTyped DEF SourcesFitScope, inputs, view, server, Created, Typed,
        RunKnown, TypeOK
<1>5. ASSUME Finalizes
      PROVE  SourcesFitScope'
  BY <1>5, JobTyped DEF SourcesFitScope, inputs, view, server, Finalizes, Typed,
        RunKnown, TypeOK
<1>6. ASSUME MarkReady
      PROVE  SourcesFitScope'
  BY <1>6, JobTyped DEF SourcesFitScope, inputs, view, server, MarkReady, Typed,
        RunKnown, TypeOK
<1>7. ASSUME Returns
      PROVE  SourcesFitScope'
  BY <1>7, JobTyped DEF SourcesFitScope, inputs, view, server, Returns, Typed,
        RunKnown, TypeOK
<1>8. ASSUME NEW s \in Scopes, Lock(s)
      PROVE  SourcesFitScope'
  BY <1>8 DEF SourcesFitScope, inputs, view, server, Lock
<1>9. ASSUME NEW n \in Slots, Read(n)
      PROVE  SourcesFitScope'
  BY <1>9 DEF SourcesFitScope, inputs, view, server, Read
<1>10. ASSUME NEW n \in Slots, Load(n)
      PROVE  SourcesFitScope'
  BY <1>10 DEF SourcesFitScope, inputs, view, server, Load
<1>11. ASSUME NEW n \in Slots, Deliver(n)
      PROVE  SourcesFitScope'
  BY <1>11 DEF SourcesFitScope, inputs, view, server, Deliver
<1>12. ASSUME NEW r \in Runs, Expire(r)
      PROVE  SourcesFitScope'
  BY <1>12 DEF SourcesFitScope, inputs, view, server, Expire
<1>13. ASSUME NEW r \in Runs, Cleaned(r)
      PROVE  SourcesFitScope'
  BY <1>13 DEF SourcesFitScope, inputs, view, server, Cleaned
<1>14. CASE UNCHANGED vars
  BY <1>14 DEF SourcesFitScope, inputs, view, server, vars
<1>15. QED
  BY <1>1, <1>2, <1>3, <1>4, <1>5, <1>6, <1>7, <1>8, <1>9, <1>10, <1>11, <1>12,
        <1>13, <1>14 DEF Next, User, Answers

-----------------------------------------------------------------------------
(* What refers to a run *)

LEMMA ShowHolds ==
  ASSUME NEW report, Show(report), NEW r, Holds(r)'
  PROVE  Holds(r) \/ report.run = r
  BY DEF Show, Holds

\* What an effect adds is about the run that is remembered, when no analysis
\* is under way; it delivers only the run whose report is shown.
LEMMA EffectsHas ==
  ASSUME TypeOK', NEW now \in [Slots -> Tasks \cup {None}], Effects(now),
         NEW n \in Slots, tasks'[n] # now[n]
  PROVE  /\ job' = None /\ tasks'[n] \in Tasks
         /\ tasks'[n].run = key' /\ tasks'[n].at = "read"
         /\ tasks'[n].kind = "deliver" => Holds(key)'
<1>1. Due # None /\ tasks'[n] = Due
  BY EffectsAdd DEF TypeOK
<1>2. job' = None
  BY <1>1 DEF Due
<1>3. QED
  BY <1>1, <1>2, DueTyped DEF Holds

\* A task is what it was, one step further, or new.
LEMMA TaskStep ==
  ASSUME Typed, Typed', [Next]_vars, NEW n \in Slots, tasks'[n] # None
  PROVE  \/ /\ tasks[n] # None
            /\ tasks'[n].run = tasks[n].run /\ tasks'[n].kind = tasks[n].kind
            /\ \/ tasks'[n].at = tasks[n].at
               \/ tasks'[n].at # "ack"
               \/ Read(n) /\ tasks[n].kind = "deliver"
               \/ Load(n) /\ copy[tasks[n].run] = "final" /\ tasks[n].run \in shown'
         \/ /\ job' = None /\ tasks'[n].run = key' /\ tasks'[n].at = "read"
            /\ tasks'[n].kind = "deliver" => Holds(key)'
<1> DEFINE Kept == /\ tasks[n] # None
                   /\ tasks'[n].run = tasks[n].run /\ tasks'[n].kind = tasks[n].kind
                   /\ \/ tasks'[n].at = tasks[n].at
                      \/ tasks'[n].at # "ack"
                      \/ Read(n) /\ tasks[n].kind = "deliver"
                      \/ Load(n) /\ copy[tasks[n].run] = "final" /\ tasks[n].run \in shown'
           New  == /\ job' = None /\ tasks'[n].run = key' /\ tasks'[n].at = "read"
                   /\ tasks'[n].kind = "deliver" => Holds(key)'
<1>1. ASSUME Logout \/ Unlock \/ Select \/ RemoveFile \/ Ask \/ Submit \/ Login \/
             Reset
      PROVE  Kept \/ New
  BY <1>1 DEF Logout, Unlock, Select, RemoveFile, Ask, Submit, Login, Reset, Clear
<1>2. ASSUME Restart \/ ClearSaved \/ Restore \/ Parsed \/ Created \/ Progress \/
             Finalizes \/ MarkReady
      PROVE  Kept \/ New
  BY <1>2 DEF Restart, Clear, ClearSaved, Restore, Parsed, Created, Progress,
        Finalizes, MarkReady
<1>3. ASSUME Returns \/ ViewCrashes \/ Reload
      PROVE  Kept \/ New
  BY <1>3 DEF Returns, ViewCrashes, Reload
<1>4. ASSUME SignIn
      PROVE  Kept \/ New
  <2>1. Effects(tasks) /\ TypeOK' /\ tasks \in [Slots -> Tasks \cup {None}]
    BY <1>4 DEF SignIn, Typed, TypeOK
  <2>2. CASE tasks'[n] = tasks[n]
    BY <2>2
  <2>3. CASE tasks'[n] # tasks[n]
    BY <2>1, <2>3, EffectsHas
  <2>4. QED
    BY <2>2, <2>3
<1>5. ASSUME OpenDashboard
      PROVE  Kept \/ New
  <2>1. Effects(tasks) /\ TypeOK' /\ tasks \in [Slots -> Tasks \cup {None}]
    BY <1>5 DEF OpenDashboard, Typed, TypeOK
  <2>2. CASE tasks'[n] = tasks[n]
    BY <2>2
  <2>3. CASE tasks'[n] # tasks[n]
    BY <2>1, <2>3, EffectsHas
  <2>4. QED
    BY <2>2, <2>3
<1>6. ASSUME ReturnToStart
      PROVE  Kept \/ New
  <2>1. Effects(tasks) /\ TypeOK' /\ tasks \in [Slots -> Tasks \cup {None}]
    BY <1>6 DEF ReturnToStart, Typed, TypeOK
  <2>2. CASE tasks'[n] = tasks[n]
    BY <2>2
  <2>3. CASE tasks'[n] # tasks[n]
    BY <2>1, <2>3, EffectsHas
  <2>4. QED
    BY <2>2, <2>3
<1>7. ASSUME Imported
      PROVE  Kept \/ New
  <2>1. CASE Effects(tasks)
    <3>1. TypeOK' /\ tasks \in [Slots -> Tasks \cup {None}]
      BY DEF Typed, TypeOK
    <3>2. QED
      BY <2>1, <3>1, EffectsHas
  <2>2. CASE UNCHANGED tasks
    BY <2>2
  <2>3. QED
    BY <1>7, <2>1, <2>2 DEF Imported
<1>8. ASSUME Throws
      PROVE  Kept \/ New
  <2>1. Effects(tasks) /\ TypeOK' /\ tasks \in [Slots -> Tasks \cup {None}]
    BY <1>8 DEF Throws, Typed, TypeOK
  <2>2. CASE tasks'[n] = tasks[n]
    BY <2>2
  <2>3. CASE tasks'[n] # tasks[n]
    BY <2>1, <2>3, EffectsHas
  <2>4. QED
    BY <2>2, <2>3
<1>9. ASSUME Finish
      PROVE  Kept \/ New
  <2>1. Effects(tasks) /\ TypeOK' /\ tasks \in [Slots -> Tasks \cup {None}]
    BY <1>9 DEF Finish, Typed, TypeOK
  <2>2. CASE tasks'[n] = tasks[n]
    BY <2>2
  <2>3. CASE tasks'[n] # tasks[n]
    BY <2>1, <2>3, EffectsHas
  <2>4. QED
    BY <2>2, <2>3
<1>10. ASSUME NEW s \in Scopes, Lock(s)
      PROVE  Kept \/ New
  BY <1>10 DEF Lock
<1>11. ASSUME NEW m \in Slots, Read(m)
      PROVE  Kept \/ New
  <2>1. TypeOK /\ tasks[m] # None /\ tasks[m].at = "read"
    BY <1>11 DEF Read, Typed
  <2>2. CASE tasks' = Done(m)
    BY <2>1, <2>2, DoneTyped
  <2>3. ASSUME NEW at \in {"load", "suspended"}, tasks' = [tasks EXCEPT ![m].at = at]
        PROVE  Kept
    <3>1. /\ tasks'[m].run = tasks[m].run /\ tasks'[m].kind = tasks[m].kind
          /\ tasks'[m].at # "ack"
          /\ n # m => tasks'[n] = tasks[n]
      BY <2>1, <2>3, TaskMoved
    <3>2. QED
      BY <2>1, <3>1
  <2>4. CASE tasks[m].kind = "deliver" /\ tasks' = [tasks EXCEPT ![m].at = "ack"]
    BY <1>11, <2>1, <2>4, TaskMoved
  <2>5. QED
    BY <1>11, <2>2, <2>3, <2>4 DEF Read, Step
<1>12. ASSUME NEW m \in Slots, Load(m)
      PROVE  Kept \/ New
  <2> DEFINE report == [run |-> tasks[m].run, final |-> copy[tasks[m].run] = "final"]
             now    == [tasks EXCEPT ![m].at = "ack"]
  <2>1. TypeOK /\ TypeOK' /\ tasks[m] # None
    BY <1>12 DEF Load, Typed
  <2>2. CASE tasks' = Done(m)
    BY <2>1, <2>2, DoneTyped
  <2>3. CASE Effects(Done(m))
    <3>1. CASE tasks'[n] = Done(m)[n]
      BY <2>1, <3>1, DoneTyped
    <3>2. CASE tasks'[n] # Done(m)[n]
      BY <2>1, <2>3, <3>2, DoneTyped, EffectsHas
    <3>3. QED
      BY <3>1, <3>2
  <2>4. CASE Show(report) /\ report.final /\ Effects(now)
    <3>1. CASE tasks'[n] # now[n]
      <4>1. now \in [Slots -> Tasks \cup {None}]
        BY <2>1, TaskMoved
      <4>2. QED
        BY <2>1, <2>4, <3>1, <4>1, EffectsHas
    <3>2. CASE tasks'[n] = now[n] /\ n # m
      BY <2>1, <3>2, TaskMoved
    <3>3. CASE tasks'[n] = now[n] /\ n = m
      <4>1. report \in Reports
        BY <2>1, LoadTyped
      <4>2. tasks[m] \in Tasks /\ tasks[m].run \in Runs
        BY <2>1 DEF TypeOK, Tasks
      <4>3. report.run = tasks[m].run /\ report.run # Elsewhere
        BY <4>2, NamesAssumption
      <4>4. report.run \in shown'
        BY <2>1, <2>4, <4>1, <4>3, ShowTyped
      <4>5. copy[tasks[m].run] = "final"
        BY <2>4
      <4>6. QED
        BY <1>12, <2>1, <3>3, <4>3, <4>4, <4>5, TaskMoved
    <3>4. QED
      BY <3>1, <3>2, <3>3
  <2>5. QED
    BY <1>12, <2>2, <2>3, <2>4 DEF Load
<1>13. ASSUME NEW m \in Slots, Deliver(m)
      PROVE  Kept \/ New
  <2>1. TypeOK /\ tasks' = Done(m)
    BY <1>13 DEF Deliver, Typed
  <2>2. QED
    BY <2>1, DoneTyped
<1>14. ASSUME NEW q \in Runs, Expire(q)
      PROVE  Kept \/ New
  BY <1>14 DEF Expire
<1>15. ASSUME NEW q \in Runs, Cleaned(q)
      PROVE  Kept \/ New
  BY <1>15 DEF Cleaned
<1>16. CASE UNCHANGED vars
  BY <1>16 DEF vars
<1>17. QED
  BY <1>1, <1>2, <1>3, <1>4, <1>5, <1>6, <1>7, <1>8, <1>9, <1>10, <1>11, <1>12,
        <1>13, <1>14, <1>15, <1>16 DEF Next, User, Answers

\* What is held was held before, is loaded, or is returned by its analysis.
LEMMA HoldsStep ==
  ASSUME Typed, [Next]_vars, NEW r \in Runs, Holds(r)'
  PROVE  \/ Holds(r)
         \/ Has(r) /\ (copy[r] = "final" => r \in shown')
         \/ Returns /\ job.run = r /\ r \in shown'
<1>1. ASSUME SignIn \/ Logout \/ Unlock \/ Select \/ RemoveFile \/ Ask \/ Submit \/
             Login
      PROVE  \/ Holds(r)
             \/ Has(r) /\ (copy[r] = "final" => r \in shown')
             \/ Returns /\ job.run = r /\ r \in shown'
  BY <1>1 DEF Holds, inputs, view, SignIn, Logout, Unlock, Select, RemoveFile, Ask,
        Submit, Login
<1>2. ASSUME Reset \/ Restart \/ ClearSaved \/ Restore \/ ReturnToStart \/ Parsed \/
             Created \/ Progress
      PROVE  \/ Holds(r)
             \/ Has(r) /\ (copy[r] = "final" => r \in shown')
             \/ Returns /\ job.run = r /\ r \in shown'
  BY <1>2 DEF Holds, inputs, view, Reset, Clear, Restart, ClearSaved, Restore,
        ReturnToStart, Parsed, Created, Progress
<1>3. ASSUME Finalizes \/ MarkReady \/ Throws \/ Finish \/ ViewCrashes \/ Reload
      PROVE  \/ Holds(r)
             \/ Has(r) /\ (copy[r] = "final" => r \in shown')
             \/ Returns /\ job.run = r /\ r \in shown'
  BY <1>3 DEF Holds, inputs, view, Finalizes, MarkReady, Throws, Finish,
        ViewCrashes, Reload
<1>4. ASSUME OpenDashboard
      PROVE  \/ Holds(r)
             \/ Has(r) /\ (copy[r] = "final" => r \in shown')
             \/ Returns /\ job.run = r /\ r \in shown'
  BY <1>4, ShowHolds DEF OpenDashboard, Holds
<1>5. ASSUME Imported
      PROVE  \/ Holds(r)
             \/ Has(r) /\ (copy[r] = "final" => r \in shown')
             \/ Returns /\ job.run = r /\ r \in shown'
  <2>1. r # Elsewhere
    BY NamesAssumption
  <2>2. QED
    BY <1>5, <2>1, ShowHolds DEF Imported, Holds
<1>6. ASSUME Returns
      PROVE  \/ Holds(r)
             \/ Has(r) /\ (copy[r] = "final" => r \in shown')
             \/ Returns /\ job.run = r /\ r \in shown'
  <2> DEFINE report == [run |-> job.run, final |-> TRUE]
  <2>1. Show(report) /\ r # Elsewhere
    BY <1>6, NamesAssumption DEF Returns
  <2>2. Holds(r) \/ job.run = r
    BY <2>1, ShowHolds
  <2>3. job.run = r => r \in shown'
    BY <2>1 DEF Show
  <2>4. QED
    BY <1>6, <2>2, <2>3
<1>7. ASSUME NEW s \in Scopes, Lock(s)
      PROVE  \/ Holds(r)
             \/ Has(r) /\ (copy[r] = "final" => r \in shown')
             \/ Returns /\ job.run = r /\ r \in shown'
  BY <1>7 DEF Holds, inputs, view, Lock
<1>8. ASSUME NEW m \in Slots, Read(m)
      PROVE  \/ Holds(r)
             \/ Has(r) /\ (copy[r] = "final" => r \in shown')
             \/ Returns /\ job.run = r /\ r \in shown'
  BY <1>8 DEF Holds, inputs, view, Read
<1>9. ASSUME NEW m \in Slots, Load(m)
      PROVE  \/ Holds(r)
             \/ Has(r) /\ (copy[r] = "final" => r \in shown')
             \/ Returns /\ job.run = r /\ r \in shown'
  <2> DEFINE report == [run |-> tasks[m].run, final |-> copy[tasks[m].run] = "final"]
  <2>1. TypeOK /\ tasks[m] # None /\ (Show(report) \/ UNCHANGED <<result, safe, saved>>)
    BY <1>9 DEF Load, Typed
  <2>2. CASE UNCHANGED <<result, safe, saved>>
    BY <2>2 DEF Holds
  <2>3. CASE Show(report)
    <3>1. Holds(r) \/ tasks[m].run = r
      BY <2>3, ShowHolds
    <3>2. report \in Reports /\ r # Elsewhere
      BY <2>1, LoadTyped, NamesAssumption
    <3>3. report.final /\ report.run # Elsewhere => report.run \in shown'
      BY <2>1, <2>3, <3>2, ShowTyped
    <3>4. tasks[m].run = r /\ copy[r] = "final" => r \in shown'
      BY <3>2, <3>3
    <3>5. QED
      BY <2>1, <3>1, <3>4 DEF Has
  <2>4. QED
    BY <2>1, <2>2, <2>3
<1>10. ASSUME NEW m \in Slots, Deliver(m)
      PROVE  \/ Holds(r)
             \/ Has(r) /\ (copy[r] = "final" => r \in shown')
             \/ Returns /\ job.run = r /\ r \in shown'
  BY <1>10 DEF Holds, inputs, view, Deliver
<1>11. ASSUME NEW q \in Runs, Expire(q)
      PROVE  \/ Holds(r)
             \/ Has(r) /\ (copy[r] = "final" => r \in shown')
             \/ Returns /\ job.run = r /\ r \in shown'
  BY <1>11 DEF Holds, inputs, view, Expire
<1>12. ASSUME NEW q \in Runs, Cleaned(q)
      PROVE  \/ Holds(r)
             \/ Has(r) /\ (copy[r] = "final" => r \in shown')
             \/ Returns /\ job.run = r /\ r \in shown'
  BY <1>12 DEF Holds, inputs, view, Cleaned
<1>13. CASE UNCHANGED vars
  BY <1>13 DEF Holds, inputs, view, vars
<1>14. QED
  BY <1>1, <1>2, <1>3, <1>4, <1>5, <1>6, <1>7, <1>8, <1>9, <1>10, <1>11, <1>12,
        <1>13 DEF Next, User, Answers

\* A run is remembered, or has an analysis, from its creation on.
LEMMA CreationStep ==
  ASSUME Typed, [Next]_vars, NEW r \in Runs
  PROVE  /\ state'[r] = "none" => state[r] = "none"
         /\ key' = r \/ (job' # None /\ job'.run = r) =>
              \/ key = r \/ (job # None /\ job.run = r)
              \/ state'[r] # "none"
<1>1. ASSUME SignIn \/ Logout \/ Unlock \/ Select \/ RemoveFile \/ Submit \/
             ClearSaved \/ Restore
      PROVE  /\ state'[r] = "none" => state[r] = "none"
             /\ key' = r \/ (job' # None /\ job'.run = r) =>
                  \/ key = r \/ (job # None /\ job.run = r)
                  \/ state'[r] # "none"
  BY <1>1 DEF inputs, view, server, SignIn, Logout, Unlock, Select, RemoveFile,
        Submit, ClearSaved, Restore
<1>2. ASSUME OpenDashboard \/ ReturnToStart \/ Parsed \/ Imported \/ Progress \/
             Throws \/ ViewCrashes
      PROVE  /\ state'[r] = "none" => state[r] = "none"
             /\ key' = r \/ (job' # None /\ job'.run = r) =>
                  \/ key = r \/ (job # None /\ job.run = r)
                  \/ state'[r] # "none"
  BY <1>2 DEF inputs, view, server, OpenDashboard, ReturnToStart, Parsed, Imported,
        Progress, Throws, Typed, TypeOK, ViewCrashes
<1>3. ASSUME Ask
      PROVE  /\ state'[r] = "none" => state[r] = "none"
             /\ key' = r \/ (job' # None /\ job'.run = r) =>
                  \/ key = r \/ (job # None /\ job.run = r)
                  \/ state'[r] # "none"
  BY <1>3, NamesAssumption DEF inputs, view, server, Ask, Start
<1>4. ASSUME Login
      PROVE  /\ state'[r] = "none" => state[r] = "none"
             /\ key' = r \/ (job' # None /\ job'.run = r) =>
                  \/ key = r \/ (job # None /\ job.run = r)
                  \/ state'[r] # "none"
  BY <1>4, NamesAssumption DEF inputs, view, server, Login, Start
<1>5. ASSUME Reset
      PROVE  /\ state'[r] = "none" => state[r] = "none"
             /\ key' = r \/ (job' # None /\ job'.run = r) =>
                  \/ key = r \/ (job # None /\ job.run = r)
                  \/ state'[r] # "none"
  BY <1>5, NamesAssumption DEF inputs, view, server, Reset, Clear, Typed, TypeOK
<1>6. ASSUME Restart
      PROVE  /\ state'[r] = "none" => state[r] = "none"
             /\ key' = r \/ (job' # None /\ job'.run = r) =>
                  \/ key = r \/ (job # None /\ job.run = r)
                  \/ state'[r] # "none"
  BY <1>6, NamesAssumption DEF inputs, view, server, Restart, Clear, Typed, TypeOK
<1>7. ASSUME Created
      PROVE  /\ state'[r] = "none" => state[r] = "none"
             /\ key' = r \/ (job' # None /\ job'.run = r) =>
                  \/ key = r \/ (job # None /\ job.run = r)
                  \/ state'[r] # "none"
  BY <1>7, CreatedTyped DEF Typed, TypeOK
<1>8. ASSUME Finalizes
      PROVE  /\ state'[r] = "none" => state[r] = "none"
             /\ key' = r \/ (job' # None /\ job'.run = r) =>
                  \/ key = r \/ (job # None /\ job.run = r)
                  \/ state'[r] # "none"
  BY <1>8, JobTyped DEF inputs, view, server, Finalizes, Typed, RunKnown, TypeOK
<1>9. ASSUME MarkReady
      PROVE  /\ state'[r] = "none" => state[r] = "none"
             /\ key' = r \/ (job' # None /\ job'.run = r) =>
                  \/ key = r \/ (job # None /\ job.run = r)
                  \/ state'[r] # "none"
  BY <1>9, JobTyped DEF inputs, view, server, MarkReady, Typed, RunKnown, TypeOK
<1>10. ASSUME Returns
      PROVE  /\ state'[r] = "none" => state[r] = "none"
             /\ key' = r \/ (job' # None /\ job'.run = r) =>
                  \/ key = r \/ (job # None /\ job.run = r)
                  \/ state'[r] # "none"
  BY <1>10, JobTyped DEF inputs, view, server, Returns, Typed, RunKnown, TypeOK
<1>11. ASSUME Finish
      PROVE  /\ state'[r] = "none" => state[r] = "none"
             /\ key' = r \/ (job' # None /\ job'.run = r) =>
                  \/ key = r \/ (job # None /\ job.run = r)
                  \/ state'[r] # "none"
  BY <1>11, NamesAssumption DEF inputs, view, server, Finish, Acknowledged,
        Unacknowledged, Typed, TypeOK
<1>12. ASSUME Reload
      PROVE  /\ state'[r] = "none" => state[r] = "none"
             /\ key' = r \/ (job' # None /\ job'.run = r) =>
                  \/ key = r \/ (job # None /\ job.run = r)
                  \/ state'[r] # "none"
  BY <1>12, NamesAssumption DEF inputs, view, server, Reload
<1>13. ASSUME NEW s \in Scopes, Lock(s)
      PROVE  /\ state'[r] = "none" => state[r] = "none"
             /\ key' = r \/ (job' # None /\ job'.run = r) =>
                  \/ key = r \/ (job # None /\ job.run = r)
                  \/ state'[r] # "none"
  BY <1>13 DEF inputs, view, server, Lock
<1>14. ASSUME NEW m \in Slots, Read(m)
      PROVE  /\ state'[r] = "none" => state[r] = "none"
             /\ key' = r \/ (job' # None /\ job'.run = r) =>
                  \/ key = r \/ (job # None /\ job.run = r)
                  \/ state'[r] # "none"
  BY <1>14, NamesAssumption DEF inputs, view, server, Read, Step
<1>15. ASSUME NEW m \in Slots, Load(m)
      PROVE  /\ state'[r] = "none" => state[r] = "none"
             /\ key' = r \/ (job' # None /\ job'.run = r) =>
                  \/ key = r \/ (job # None /\ job.run = r)
                  \/ state'[r] # "none"
  BY <1>15 DEF inputs, view, server, Load
<1>16. ASSUME NEW m \in Slots, Deliver(m)
      PROVE  /\ state'[r] = "none" => state[r] = "none"
             /\ key' = r \/ (job' # None /\ job'.run = r) =>
                  \/ key = r \/ (job # None /\ job.run = r)
                  \/ state'[r] # "none"
  BY <1>16, NamesAssumption DEF inputs, view, server, Deliver, Acknowledged,
        Unacknowledged, Typed, TypeOK
<1>17. ASSUME NEW q \in Runs, Expire(q)
      PROVE  /\ state'[r] = "none" => state[r] = "none"
             /\ key' = r \/ (job' # None /\ job'.run = r) =>
                  \/ key = r \/ (job # None /\ job.run = r)
                  \/ state'[r] # "none"
  BY <1>17 DEF inputs, view, server, Expire, Typed, RunKnown, TypeOK
<1>18. ASSUME NEW q \in Runs, Cleaned(q)
      PROVE  /\ state'[r] = "none" => state[r] = "none"
             /\ key' = r \/ (job' # None /\ job'.run = r) =>
                  \/ key = r \/ (job # None /\ job.run = r)
                  \/ state'[r] # "none"
  BY <1>18 DEF inputs, view, server, Cleaned
<1>19. CASE UNCHANGED vars
  BY <1>19 DEF inputs, view, server, vars
<1>20. QED
  BY <1>1, <1>2, <1>3, <1>4, <1>5, <1>6, <1>7, <1>8, <1>9, <1>10, <1>11, <1>12,
        <1>13, <1>14, <1>15, <1>16, <1>17, <1>18, <1>19 DEF Next, User, Answers

\* The course of an analysis.
LEMMA JobStep ==
  ASSUME Typed, [Next]_vars, job' # None
  PROVE  \/ job' = job
         \/ job'.at \in {"create", "ready", "show"}
         \/ job # None /\ job.at = "show" /\ job'.at = "ack" /\ job'.run \in shown'
         \/ Created
<1>1. ASSUME SignIn \/ Logout \/ Unlock \/ Select \/ RemoveFile \/ Ask \/ Submit \/
             Login
      PROVE  \/ job' = job
             \/ job'.at \in {"create", "ready", "show"}
             \/ job # None /\ job.at = "show" /\ job'.at = "ack" /\ job'.run \in shown'
             \/ Created
  BY <1>1 DEF inputs, view, server, SignIn, Logout, Unlock, Select, RemoveFile, Ask,
        Start, Submit, Login
<1>2. ASSUME Reset \/ Restart \/ ClearSaved \/ Restore \/ OpenDashboard \/
             ReturnToStart \/ Parsed \/ Imported
      PROVE  \/ job' = job
             \/ job'.at \in {"create", "ready", "show"}
             \/ job # None /\ job.at = "show" /\ job'.at = "ack" /\ job'.run \in shown'
             \/ Created
  BY <1>2 DEF inputs, view, server, Reset, Clear, Restart, ClearSaved, Restore,
        OpenDashboard, ReturnToStart, Parsed, Imported
<1>3. ASSUME Created \/ Progress \/ Throws \/ Finish \/ ViewCrashes \/ Reload
      PROVE  \/ job' = job
             \/ job'.at \in {"create", "ready", "show"}
             \/ job # None /\ job.at = "show" /\ job'.at = "ack" /\ job'.run \in shown'
             \/ Created
  BY <1>3 DEF inputs, view, server, Created, Progress, Throws, Finish, ViewCrashes,
        Reload
<1>4. ASSUME Finalizes
      PROVE  \/ job' = job
             \/ job'.at \in {"create", "ready", "show"}
             \/ job # None /\ job.at = "show" /\ job'.at = "ack" /\ job'.run \in shown'
             \/ Created
  BY <1>4, JobTyped DEF inputs, view, server, Finalizes, Typed, RunKnown, TypeOK
<1>5. ASSUME MarkReady
      PROVE  \/ job' = job
             \/ job'.at \in {"create", "ready", "show"}
             \/ job # None /\ job.at = "show" /\ job'.at = "ack" /\ job'.run \in shown'
             \/ Created
  BY <1>5, JobTyped DEF inputs, view, server, MarkReady, Typed, RunKnown, TypeOK
<1>6. ASSUME Returns
      PROVE  \/ job' = job
             \/ job'.at \in {"create", "ready", "show"}
             \/ job # None /\ job.at = "show" /\ job'.at = "ack" /\ job'.run \in shown'
             \/ Created
  <2>1. TypeOK /\ job # None /\ job.at = "show" /\ job.run \in Runs
    BY <1>6 DEF Returns, Typed, RunKnown
  <2>2. job'.at = "ack" /\ job'.run = job.run
    BY <1>6, <2>1, JobTyped DEF Returns
  <2>3. job.run \in shown'
    BY <1>6, <2>1, NamesAssumption DEF Returns, Show
  <2>4. QED
    BY <2>1, <2>2, <2>3
<1>7. ASSUME NEW s \in Scopes, Lock(s)
      PROVE  \/ job' = job
             \/ job'.at \in {"create", "ready", "show"}
             \/ job # None /\ job.at = "show" /\ job'.at = "ack" /\ job'.run \in shown'
             \/ Created
  BY <1>7 DEF inputs, view, server, Lock
<1>8. ASSUME NEW m \in Slots, Read(m)
      PROVE  \/ job' = job
             \/ job'.at \in {"create", "ready", "show"}
             \/ job # None /\ job.at = "show" /\ job'.at = "ack" /\ job'.run \in shown'
             \/ Created
  BY <1>8 DEF inputs, view, server, Read
<1>9. ASSUME NEW m \in Slots, Load(m)
      PROVE  \/ job' = job
             \/ job'.at \in {"create", "ready", "show"}
             \/ job # None /\ job.at = "show" /\ job'.at = "ack" /\ job'.run \in shown'
             \/ Created
  BY <1>9 DEF inputs, view, server, Load
<1>10. ASSUME NEW m \in Slots, Deliver(m)
      PROVE  \/ job' = job
             \/ job'.at \in {"create", "ready", "show"}
             \/ job # None /\ job.at = "show" /\ job'.at = "ack" /\ job'.run \in shown'
             \/ Created
  BY <1>10 DEF inputs, view, server, Deliver
<1>11. ASSUME NEW q \in Runs, Expire(q)
      PROVE  \/ job' = job
             \/ job'.at \in {"create", "ready", "show"}
             \/ job # None /\ job.at = "show" /\ job'.at = "ack" /\ job'.run \in shown'
             \/ Created
  BY <1>11 DEF inputs, view, server, Expire
<1>12. ASSUME NEW q \in Runs, Cleaned(q)
      PROVE  \/ job' = job
             \/ job'.at \in {"create", "ready", "show"}
             \/ job # None /\ job.at = "show" /\ job'.at = "ack" /\ job'.run \in shown'
             \/ Created
  BY <1>12 DEF inputs, view, server, Cleaned
<1>13. CASE UNCHANGED vars
  BY <1>13 DEF inputs, view, server, vars
<1>14. QED
  BY <1>1, <1>2, <1>3, <1>4, <1>5, <1>6, <1>7, <1>8, <1>9, <1>10, <1>11, <1>12,
        <1>13 DEF Next, User, Answers

\* A final checkpoint is saved by the analysis of its run; what was seen stays
\* seen.
LEMMA CopyStep ==
  ASSUME Typed, [Next]_vars, NEW r \in Runs
  PROVE  /\ shown \subseteq shown'
         /\ copy'[r] = "final" =>
              \/ copy[r] = "final"
              \/ /\ job # None /\ job.at = "run" /\ job.run = r
                 /\ UNCHANGED <<view, tasks>>
<1>1. ASSUME SignIn \/ Logout \/ Unlock \/ Select \/ RemoveFile \/ Ask \/ Submit \/
             Login
      PROVE  /\ shown \subseteq shown'
             /\ copy'[r] = "final" =>
                  \/ copy[r] = "final"
                  \/ /\ job # None /\ job.at = "run" /\ job.run = r
                     /\ UNCHANGED <<view, tasks>>
  BY <1>1 DEF view, server, SignIn, Logout, Unlock, Select, RemoveFile, Ask, Submit,
        Login
<1>2. ASSUME Reset \/ Restart \/ ClearSaved \/ Restore \/ OpenDashboard \/
             ReturnToStart \/ Parsed \/ Imported
      PROVE  /\ shown \subseteq shown'
             /\ copy'[r] = "final" =>
                  \/ copy[r] = "final"
                  \/ /\ job # None /\ job.at = "run" /\ job.run = r
                     /\ UNCHANGED <<view, tasks>>
  BY <1>2 DEF view, server, Reset, Clear, Restart, ClearSaved, Restore,
        OpenDashboard, Show, ReturnToStart, Parsed, Imported
<1>3. ASSUME Created \/ Progress \/ Finalizes \/ MarkReady \/ Returns \/ Throws \/
             Finish \/ ViewCrashes
      PROVE  /\ shown \subseteq shown'
             /\ copy'[r] = "final" =>
                  \/ copy[r] = "final"
                  \/ /\ job # None /\ job.at = "run" /\ job.run = r
                     /\ UNCHANGED <<view, tasks>>
  BY <1>3 DEF view, server, Created, Progress, Typed, RunKnown, TypeOK, Finalizes,
        MarkReady, Returns, Show, Throws, Finish, ViewCrashes
<1>4. ASSUME Reload
      PROVE  /\ shown \subseteq shown'
             /\ copy'[r] = "final" =>
                  \/ copy[r] = "final"
                  \/ /\ job # None /\ job.at = "run" /\ job.run = r
                     /\ UNCHANGED <<view, tasks>>
  BY <1>4 DEF view, server, Reload
<1>5. ASSUME NEW s \in Scopes, Lock(s)
      PROVE  /\ shown \subseteq shown'
             /\ copy'[r] = "final" =>
                  \/ copy[r] = "final"
                  \/ /\ job # None /\ job.at = "run" /\ job.run = r
                     /\ UNCHANGED <<view, tasks>>
  BY <1>5 DEF view, server, Lock
<1>6. ASSUME NEW m \in Slots, Read(m)
      PROVE  /\ shown \subseteq shown'
             /\ copy'[r] = "final" =>
                  \/ copy[r] = "final"
                  \/ /\ job # None /\ job.at = "run" /\ job.run = r
                     /\ UNCHANGED <<view, tasks>>
  BY <1>6 DEF view, server, Read
<1>7. ASSUME NEW m \in Slots, Load(m)
      PROVE  /\ shown \subseteq shown'
             /\ copy'[r] = "final" =>
                  \/ copy[r] = "final"
                  \/ /\ job # None /\ job.at = "run" /\ job.run = r
                     /\ UNCHANGED <<view, tasks>>
  BY <1>7 DEF view, server, Load, Show
<1>8. ASSUME NEW m \in Slots, Deliver(m)
      PROVE  /\ shown \subseteq shown'
             /\ copy'[r] = "final" =>
                  \/ copy[r] = "final"
                  \/ /\ job # None /\ job.at = "run" /\ job.run = r
                     /\ UNCHANGED <<view, tasks>>
  BY <1>8 DEF view, server, Deliver
<1>9. ASSUME NEW q \in Runs, Expire(q)
      PROVE  /\ shown \subseteq shown'
             /\ copy'[r] = "final" =>
                  \/ copy[r] = "final"
                  \/ /\ job # None /\ job.at = "run" /\ job.run = r
                     /\ UNCHANGED <<view, tasks>>
  BY <1>9 DEF view, server, Expire
<1>10. ASSUME NEW q \in Runs, Cleaned(q)
      PROVE  /\ shown \subseteq shown'
             /\ copy'[r] = "final" =>
                  \/ copy[r] = "final"
                  \/ /\ job # None /\ job.at = "run" /\ job.run = r
                     /\ UNCHANGED <<view, tasks>>
  BY <1>10 DEF view, server, Cleaned, Typed, RunKnown, TypeOK
<1>11. CASE UNCHANGED vars
  BY <1>11 DEF view, server, vars
<1>12. QED
  BY <1>1, <1>2, <1>3, <1>4, <1>5, <1>6, <1>7, <1>8, <1>9, <1>10, <1>11 DEF Next,
        User, Answers

\* A run is completed by what acknowledges it.
LEMMA CompletesStep ==
  ASSUME Typed, [Next]_vars, NEW r \in Runs, state[r] # "completed", state'[r] = "completed"
  PROVE  \/ Finish /\ job.run = r
         \/ \E n \in Slots : Deliver(n) /\ tasks[n].run = r
<1>1. ASSUME SignIn \/ Logout \/ Unlock \/ Select \/ RemoveFile \/ Ask \/ Submit \/
             Login
      PROVE  \/ Finish /\ job.run = r
             \/ \E n \in Slots : Deliver(n) /\ tasks[n].run = r
  BY <1>1 DEF server, SignIn, Logout, Unlock, Select, RemoveFile, Ask, Submit, Login
<1>2. ASSUME Reset \/ Restart \/ ClearSaved \/ Restore \/ OpenDashboard \/
             ReturnToStart \/ Parsed \/ Imported
      PROVE  \/ Finish /\ job.run = r
             \/ \E n \in Slots : Deliver(n) /\ tasks[n].run = r
  BY <1>2 DEF server, Reset, Clear, Typed, TypeOK, Restart, ClearSaved, Restore,
        OpenDashboard, ReturnToStart, Parsed, Imported
<1>3. ASSUME Progress \/ Finalizes \/ MarkReady \/ Returns \/ Throws \/ Finish \/
             ViewCrashes \/ Reload
      PROVE  \/ Finish /\ job.run = r
             \/ \E n \in Slots : Deliver(n) /\ tasks[n].run = r
  BY <1>3 DEF server, Progress, Finalizes, MarkReady, Typed, TypeOK, Returns,
        Throws, Finish, Acknowledged, Unacknowledged, ViewCrashes, Reload
<1>4. ASSUME Created
      PROVE  \/ Finish /\ job.run = r
             \/ \E n \in Slots : Deliver(n) /\ tasks[n].run = r
  BY <1>4, CreatedTyped DEF server, Typed, TypeOK
<1>5. ASSUME NEW s \in Scopes, Lock(s)
      PROVE  \/ Finish /\ job.run = r
             \/ \E n \in Slots : Deliver(n) /\ tasks[n].run = r
  BY <1>5 DEF server, Lock
<1>6. ASSUME NEW m \in Slots, Read(m)
      PROVE  \/ Finish /\ job.run = r
             \/ \E n \in Slots : Deliver(n) /\ tasks[n].run = r
  BY <1>6 DEF server, Read
<1>7. ASSUME NEW m \in Slots, Load(m)
      PROVE  \/ Finish /\ job.run = r
             \/ \E n \in Slots : Deliver(n) /\ tasks[n].run = r
  BY <1>7 DEF server, Load
<1>8. ASSUME NEW m \in Slots, Deliver(m)
      PROVE  \/ Finish /\ job.run = r
             \/ \E n \in Slots : Deliver(n) /\ tasks[n].run = r
  BY <1>8 DEF server, Deliver, Acknowledged, Unacknowledged, Typed, TypeOK
<1>9. ASSUME NEW q \in Runs, Expire(q)
      PROVE  \/ Finish /\ job.run = r
             \/ \E n \in Slots : Deliver(n) /\ tasks[n].run = r
  BY <1>9 DEF server, Expire, Typed, TypeOK
<1>10. ASSUME NEW q \in Runs, Cleaned(q)
      PROVE  \/ Finish /\ job.run = r
             \/ \E n \in Slots : Deliver(n) /\ tasks[n].run = r
  BY <1>10 DEF server, Cleaned
<1>11. CASE UNCHANGED vars
  BY <1>11 DEF vars, server
<1>12. QED
  BY <1>1, <1>2, <1>3, <1>4, <1>5, <1>6, <1>7, <1>8, <1>9, <1>10, <1>11 DEF Next,
        User, Answers

-----------------------------------------------------------------------------
(* The invariant *)

LEMMA FreshStep ==
  ASSUME Typed, Typed', FreshInv, [Next]_vars
  PROVE  FreshInv'
<1> SUFFICES ASSUME NEW r \in Runs, state'[r] = "none"
             PROVE  ~Holds(r)' /\ ~Has(r)' /\ key' # r /\ (job' # None => job'.run # r)
  BY DEF FreshInv
<1>1. ~Holds(r) /\ ~Has(r) /\ key # r /\ (job # None => job.run # r)
  BY CreationStep DEF FreshInv
<1>2. key' # r /\ (job' # None => job'.run # r)
  BY <1>1, CreationStep
<1>3. ~Holds(r)'
  <2>1. Returns => job # None
    BY DEF Returns
  <2>2. QED
    BY <1>1, <2>1, HoldsStep
<1>4. ~Has(r)'
  <2>1. SUFFICES ASSUME NEW n \in Slots, tasks'[n] # None, tasks'[n].run = r
                 PROVE  FALSE
    BY DEF Has
  <2>2. CASE tasks[n] # None /\ tasks[n].run = r
    BY <1>1, <2>2 DEF Has
  <2>3. CASE key' = r
    BY <1>2, <2>3
  <2>4. QED
    BY <2>1, <2>2, <2>3, TaskStep
<1>5. QED
  BY <1>2, <1>3, <1>4

LEMMA JobInvStep ==
  ASSUME Typed, Typed', FreshInv, JobInv, [Next]_vars
  PROVE  JobInv'
<1> SUFFICES ASSUME job' # None, job'.at # "create", NEW r \in Runs, job'.run = r
             PROVE  /\ job'.at = "run" => ~Holds(r)' /\ ~Has(r)'
                    /\ job'.at = "ack" => r \in shown'
  BY DEF JobInv, Typed, RunKnown
<1>1. CASE job' = job
  <2>1. job.at = "ack" => r \in shown'
    BY <1>1, CopyStep DEF JobInv
  <2>2. ASSUME job.at = "run"
        PROVE  ~Holds(r)' /\ ~Has(r)'
    <3>1. ~Holds(r) /\ ~Has(r)
      BY <1>1, <2>2 DEF JobInv
    <3>2. ~Returns
      BY <2>2 DEF Returns
    <3>3. ASSUME NEW n \in Slots, tasks'[n] # None, tasks'[n].run = r
          PROVE  FALSE
      <4>1. tasks[n] # None /\ tasks[n].run = r
        BY <3>3, TaskStep
      <4>2. QED
        BY <3>1, <4>1 DEF Has
    <3>4. QED
      BY <3>1, <3>2, <3>3, HoldsStep DEF Has
  <2>3. QED
    BY <1>1, <2>1, <2>2
<1>2. CASE Created
  <2>1. job'.at = "run" /\ state[r] = "none" /\ UNCHANGED <<view, tasks>>
    BY <1>2, CreatedTyped DEF Created, Typed
  <2>2. ~Holds(r) /\ ~Has(r)
    BY <2>1 DEF FreshInv
  <2>3. QED
    BY <2>1, <2>2 DEF Holds, Has, view
<1>3. QED
  BY <1>1, <1>2, JobStep

LEMMA UnseenStep ==
  ASSUME Typed, Typed', JobInv, UnseenInv, [Next]_vars
  PROVE  UnseenInv'
<1> SUFFICES ASSUME NEW r \in Runs, copy'[r] = "final", r \notin shown'
             PROVE  /\ ~Holds(r)'
                    /\ \A n \in Slots :
                         tasks'[n] # None /\ tasks'[n].run = r
                           => tasks'[n].kind = "recover" /\ tasks'[n].at # "ack"
  BY DEF UnseenInv
<1>1. CASE job # None /\ job.at = "run" /\ job.run = r /\ UNCHANGED <<view, tasks>>
  <2>1. ~Holds(r) /\ ~Has(r)
    BY <1>1 DEF JobInv
  <2>2. QED
    BY <1>1, <2>1 DEF Holds, Has, view
<1>2. CASE copy[r] = "final"
  <2>1. r \notin shown
    BY CopyStep
  <2>2. ~Holds(r)
    BY <1>2, <2>1 DEF UnseenInv
  <2>3. ~Holds(r)'
    BY <1>2, <2>2, HoldsStep
  <2>4. ASSUME NEW n \in Slots, tasks'[n] # None, tasks'[n].run = r
        PROVE  tasks'[n].kind = "recover" /\ tasks'[n].at # "ack"
    <3>1. CASE /\ tasks'[n].run = key' /\ tasks'[n].at = "read"
               /\ tasks'[n].kind = "deliver" => Holds(key)'
      <4>1. r = key'
        BY <2>4, <3>1
      <4>2. ~Holds(key)'
        BY <2>3, <4>1 DEF Holds
      <4>3. tasks'[n] \in Tasks
        BY <2>4 DEF Typed, TypeOK
      <4>4. QED
        BY <3>1, <4>2, <4>3 DEF Tasks
    <3>2. CASE tasks[n] # None /\ tasks[n].run = r /\ tasks'[n].kind = tasks[n].kind
      <4>1. tasks[n].kind = "recover" /\ tasks[n].at # "ack"
        BY <1>2, <2>1, <3>2 DEF UnseenInv
      <4>2. CASE tasks'[n].at # "ack"
        BY <3>2, <4>1, <4>2
      <4>3. CASE tasks'[n].at = "ack"
        BY <1>2, <2>4, <3>2, <4>1, <4>3, TaskStep
      <4>4. QED
        BY <4>2, <4>3
    <3>3. QED
      BY <2>4, <3>1, <3>2, TaskStep
  <2>5. QED
    BY <2>3, <2>4
<1>3. QED
  BY <1>1, <1>2, CopyStep

LEMMA InitInv == Init => IInv
<1> SUFFICES ASSUME Init
             PROVE  IInv
  OBVIOUS
<1>1. Typed
  BY TypeInit
<1>2. OneThingAtATime /\ ShownIsSaved /\ SourcesFitScope
  BY DEF Init, OneThingAtATime, ShownIsSaved, SourcesFitScope
<1>3. FreshInv /\ JobInv /\ UnseenInv
  BY NamesAssumption DEF Init, FreshInv, JobInv, UnseenInv, Holds, Has
<1>4. QED
  BY <1>1, <1>2, <1>3 DEF IInv

LEMMA StepInv == IInv /\ [Next]_vars => IInv'
<1> SUFFICES ASSUME IInv, [Next]_vars
             PROVE  IInv'
  OBVIOUS
<1>1. Typed'
  BY TypeStep DEF IInv
<1>2. OneThingAtATime' /\ ShownIsSaved' /\ SourcesFitScope'
  BY OneThingStep, ShownStep, SourcesStep DEF IInv
<1>3. FreshInv' /\ JobInv' /\ UnseenInv'
  BY <1>1, FreshStep, JobInvStep, UnseenStep DEF IInv
<1>4. QED
  BY <1>1, <1>2, <1>3 DEF IInv

LEMMA Invariance == Spec => []IInv
  BY InitInv, StepInv, PTL DEF Spec

-----------------------------------------------------------------------------
(* Theorems *)

\* The variables keep their types, for any numbers of runs, scopes and effects.
THEOREM TypeCorrect == Spec => []TypeOK
<1>1. IInv => TypeOK
  BY DEF IInv, Typed
<1>2. QED
  BY <1>1, Invariance, PTL

\* Whatever shows a report has saved it (setPreparedResult, the recovery mode,
\* a reload), or its write was refused or undone by the user.
THEOREM ReloadShowsTheSame == Spec => []ShownIsSaved
<1>1. IInv => ShownIsSaved
  BY DEF IInv
<1>2. QED
  BY <1>1, Invariance, PTL

\* Each analysis assesses its sources for the scope it was ordered with,
\* whatever was unlocked, locked or logged in between (runAnalyze).
THEOREM SourcesFit == Spec => []SourcesFitScope
<1>1. IInv => SourcesFitScope
  BY DEF IInv
<1>2. QED
  BY <1>1, Invariance, PTL

\* Nothing waits for a login beside an analysis, and nothing is shown beside
\* recovery mode (pendingAnalyzeRef, safeRecoveryResult).
THEOREM OneAtATime == Spec => []OneThingAtATime
<1>1. IInv => OneThingAtATime
  BY DEF IInv
<1>2. QED
  BY <1>1, Invariance, PTL

\* However many effects are under way, and whatever their answers meet, a run
\* with a final checkpoint is acknowledged only after its report was shown.
THEOREM NothingGivenUpUnseen == Spec => AcknowledgedWasShown
<1> DEFINE Seen == \A r \in Runs :
             state[r] # "completed" /\ state'[r] = "completed" /\ copy[r] = "final"
               => r \in shown
<1>1. ASSUME IInv, [Next]_vars
      PROVE  Seen
  <2>1. SUFFICES ASSUME NEW r \in Runs, state[r] # "completed",
                        state'[r] = "completed", copy[r] = "final"
                 PROVE  r \in shown
    OBVIOUS
  <2>2. TypeOK
    BY <1>1 DEF IInv, Typed
  <2>3. \/ Finish /\ job.run = r
        \/ \E n \in Slots : Deliver(n) /\ tasks[n].run = r
    BY <1>1, <2>1, <2>2, CompletesStep DEF IInv
  <2>4. CASE Finish /\ job.run = r
    BY <1>1, <2>4 DEF Finish, IInv, JobInv
  <2>5. ASSUME NEW n \in Slots, Deliver(n), tasks[n].run = r
        PROVE  r \in shown
    BY <1>1, <2>1, <2>5 DEF Deliver, IInv, UnseenInv
  <2>6. QED
    BY <2>3, <2>4, <2>5
<1>2. IInv /\ [Next]_vars => [Seen]_vars
  BY <1>1
<1>3. QED
  BY <1>2, Invariance, PTL DEF Spec, AcknowledgedWasShown

=============================================================================
