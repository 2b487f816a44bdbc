------------------------------ MODULE RunViews ------------------------------
(***************************************************************************)
(* The life of a run, seen from outside: the contract about its content,   *)
(* and the run that the dispatch of attempts takes for granted.            *)
(***************************************************************************)
EXTENDS RunLifecycle

Phase == IF run \in Open THEN run ELSE "over"

\* The manifest counts as one row: one checkpoint is listed or none.
Contract == INSTANCE RunContract WITH
    Keys     <- Keys,
    Rows     <- Packets \cup {"manifest"},
    phase    <- Phase,
    keys     <- content,
    rows     <- bodies \cup {r \in {"manifest"} : manifest = "available"},
    sealed   <- tombstone,
    verified <- cleanup = "verified"

\* touchRun and authorizeAttempt compare an active run with its expiry, which
\* is never later than its deadline.
Seen ==
    CASE run = "active" /\ Unexpired -> "active"
      [] run = "active" /\ ~Unexpired /\ now # Absolute -> "idle"
      [] run = "active" /\ ~Unexpired /\ now = Absolute -> "overdue"
      [] run = "recovery_required" /\ now # Absolute -> "recovery_required"
      [] run = "recovery_required" /\ now = Absolute -> "overdue"
      [] OTHER -> "ended"

ForDispatch == INSTANCE DispatchRun WITH run <- Seen, tombstone <- tombstone

\* Whatever requests, workers and the clock do to the run, its content is kept
\* while it may be needed and gone when that has been recorded (commitPacket,
\* commitCheckpoint, createChild, recordCleanupEvidence); and no step does to
\* it what the dispatch does not expect: an ended run stays ended, only an
\* ended run is purged, an expired one can only be touched, suspended or ended
\* (touchRun, markRunRecoverable, terminalRun, against authorizeAttempt).
KeepsItsContracts == Contract!Spec /\ ForDispatch!Spec

=============================================================================
