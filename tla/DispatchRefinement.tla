------------------------- MODULE DispatchRefinement -------------------------
(***************************************************************************)
(* The dispatch of attempts by workers, publisher and reconciler keeps the *)
(* promises of the ledger seen from outside, and the contract of the run   *)
(* whose attempts they are.                                                *)
(***************************************************************************)
EXTENDS Dispatch

\* The phase of an attempt, read off its row.
PhaseOf(a) ==
    CASE state[a] \in {"none", "queued", "dispatch_intent"} -> "unsent"
      [] state[a] = "send_authorized" -> "authorized"
      [] state[a] = "succeeded" -> "answered"
      [] state[a] = "outcome_unknown" -> "doubtful"
      [] state[a] = "result_unavailable" -> "unavailable"
      [] state[a] = "cancelled" -> "closed"
      [] state[a] = "fallback_allowed" ->
            IF authorized[a] THEN "refused" ELSE "closed"

Ledger == INSTANCE DispatchLedger WITH
    Attempts <- Attempts,
    phase    <- [a \in Attempts |-> PhaseOf(a)],
    licensed <- authorized,
    sends    <- sends

\* Every behaviour of the dispatch is one the ledger allows: one licence, one
\* request, fallback only when nothing is sent or the provider has refused
\* (README "Milestone C": "Provider invocation is at-most-once after the Redis
\* SEND_AUTHORIZED boundary").
ImplementsLedger == Ledger!Spec

\* An expired run may still go on; whether a run was suspended before its
\* deadline passed is not seen, and to the contract, which has no clock, it is
\* then as good as resumed.  A lease is no content, and can outlive the
\* purge (Tombstone).  Whether the cleanup is recorded as verified is not seen.
Contract == INSTANCE RunContract WITH
    Keys     <- Attempts \X {"marker", "result"},
    Rows     <- Attempts,
    phase    <- CASE run \in {"active", "idle", "overdue"} -> "active"
                  [] run = "recovery_required" -> "recovery_required"
                  [] run = "ended" -> "over",
    keys     <- {a \in Attempts : marker[a] # 0} \X {"marker"}
                  \cup {a \in Attempts : result[a]} \X {"result"},
    rows     <- {a \in Attempts : packet[a] # "pruned"},
    sealed   <- tombstone,
    verified <- FALSE

\* Whoever is still between two calls when the run ends: no marker and no
\* result is written once the run is sealed, only an ended run is sealed, and
\* no step opens it again (childScript, authorizeScript, tombstoneScript,
\* transitionAttempt).
KeepsContract == Contract!Spec

=============================================================================
