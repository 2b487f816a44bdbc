---------------------------- MODULE DispatchRun ----------------------------
(***************************************************************************)
(* A run as the statements of the dispatch see it: the state that          *)
(* claimPacketAndReserve, getAttempt and authorizeAttempt read beside      *)
(* their own rows (lib/controlPlaneRepository.js), and the tombstone that  *)
(* every Lua script looks at first (lib/redisExecutionPlane.js).  Module   *)
(* Dispatch takes its moves of the run from here, and module RunLifecycle, *)
(* where requests, the cleanup workers and the clock make them, is shown   *)
(* to make no others.                                                      *)
(***************************************************************************)

VARIABLES
    run,        \* runs.state and its expiry
    tombstone   \* the tombstone key exists

\* "idle": the row is active but its two-hour expiry has passed; "overdue":
\* active or suspended, but past the absolute deadline; "ended": any other state
\* of a run.
RunStates == {"active", "idle", "overdue", "recovery_required", "ended"}

\* The run is known to be before its absolute deadline, with which its keys in
\* Redis end.  Of an ended run the deadline may have passed or not.
BeforeDeadline == run \in {"active", "idle", "recovery_required"}

\* Authoritative activity extends the two-hour expiry of an active run.
Touched == IF run = "idle" THEN "active" ELSE run

\* Expiry by inactivity or deadline, suspend, resume, and any terminal state.
Moves ==
    \/ run = "active" /\ run' = "idle"
    \/ run \in {"active", "idle", "recovery_required"} /\ run' = "overdue"
    \/ run \in {"active", "idle"} /\ run' = "recovery_required"
    \/ run = "recovery_required" /\ run' = "active"
    \/ run # "ended" /\ run' = "ended"

\* The cleanup of an ended run begins with its tombstone.
Seal ==
    /\ run = "ended"
    /\ ~tombstone
    /\ tombstone' = TRUE

Next ==
    \/ Moves /\ UNCHANGED tombstone
    \/ run' = Touched /\ UNCHANGED tombstone
    \/ Seal /\ UNCHANGED run

Spec == run = "active" /\ tombstone = FALSE /\ [][Next]_<<run, tombstone>>

=============================================================================
