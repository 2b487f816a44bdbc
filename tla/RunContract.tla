---------------------------- MODULE RunContract ----------------------------
(***************************************************************************)
(* What the server promises about the content of one run, with no request, *)
(* worker, claim or clock in sight: docs/copied-baseline/                  *)
(* FINOPS_ENGINE_README.md, "Milestone C".  Content is recorded in         *)
(* PostgreSQL only while the run goes on, and is written to Redis only     *)
(* until the run is sealed; only a run that is over is sealed; a verified  *)
(* cleanup has found nothing and leaves nothing to either store.           *)
(*                                                                         *)
(* Modules RunLifecycle, Delivery and Dispatch each model the run as far   *)
(* as their own statements see it.  All three keep this contract.          *)
(***************************************************************************)

CONSTANTS
    Keys,  \* what may be written to Redis for the run
    Rows   \* what may be recorded of its content in PostgreSQL

VARIABLES
    phase,     \* "over": the run cannot go on, nor be fetched
    keys,      \* indexed keys that exist
    rows,      \* rows with content that exist
    sealed,    \* the tombstone is set
    verified   \* the evidence of a complete cleanup is recorded

contractVars == <<phase, keys, rows, sealed, verified>>

Recording == {"active", "recovery_required"}
Phases == Recording \cup {"ready_for_delivery", "over"}

\* A run may own packets that were approved before.
Init ==
    /\ phase = "active"
    /\ keys = {}
    /\ rows \in SUBSET Rows
    /\ sealed = FALSE
    /\ verified = FALSE

Move(from, to) ==
    /\ phase \in from
    /\ phase' = to
    /\ UNCHANGED <<keys, rows, sealed, verified>>

Suspend == Move({"active"}, "recovery_required")
Resume == Move({"recovery_required"}, "active")
Ready == Move({"active"}, "ready_for_delivery")
End == Move(Phases, "over")

\* Every script that writes a key looks at the tombstone first; the state of
\* the run may have changed since its writer has looked at it.
Write(k) ==
    /\ ~sealed
    /\ keys' = keys \cup {k}
    /\ UNCHANGED <<phase, rows, sealed, verified>>

\* A key expires or is removed.
Lose ==
    /\ keys' \in SUBSET keys
    /\ UNCHANGED <<phase, rows, sealed, verified>>

\* Every transaction that stores content looks at the run under its lock.
Record(r) ==
    /\ phase \in Recording
    /\ rows' = rows \cup {r}
    /\ UNCHANGED <<phase, keys, sealed, verified>>

\* Bodies are pruned when their packets expire.
Discard ==
    /\ rows' \in SUBSET rows
    /\ UNCHANGED <<phase, keys, sealed, verified>>

\* The tombstone and the deletion of the keys are one script.
Seal ==
    /\ phase = "over"
    /\ sealed' = TRUE
    /\ keys' = {}
    /\ UNCHANGED <<phase, rows, verified>>

\* The deletion of the rows and the evidence are one transaction.
Verify ==
    /\ sealed
    /\ verified' = TRUE
    /\ rows' = {}
    /\ UNCHANGED <<phase, keys, sealed>>

Next ==
    \/ Suspend \/ Resume \/ Ready \/ End
    \/ \E k \in Keys : Write(k)
    \/ \E r \in Rows : Record(r)
    \/ Lose \/ Discard \/ Seal \/ Verify

Spec == Init /\ [][Next]_contractVars

\* What a verified cleanup means: nothing of the run is left, and nothing can
\* come back.
VerifiedIsEmpty ==
    /\ sealed => phase = "over" /\ keys = {}
    /\ verified => sealed /\ rows = {}

=============================================================================
