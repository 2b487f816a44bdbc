--------------------------- MODULE DispatchLedger ---------------------------
(***************************************************************************)
(* What the dispatch of a model attempt promises to the rest of the system *)
(* (the gateway, the browser's fallback chain, the audit), with no worker, *)
(* lease, queue or second store in sight: docs/copied-baseline/            *)
(* FINOPS_ENGINE_README.md, "Milestone C".  The provider is called at most *)
(* once, only under a licence; a fallback is open to the caller only when  *)
(* nothing was or will be sent, or when the provider has refused; doubt    *)
(* can only be resolved by an answer.                                      *)
(***************************************************************************)
EXTENDS Naturals

CONSTANT Attempts

VARIABLES phase, licensed, sends

ledgerVars == <<phase, licensed, sends>>

Phases == {"unsent", "authorized", "answered", "refused", "doubtful",
           "unavailable", "closed"}

LedgerTypeOK ==
    /\ phase \in [Attempts -> Phases]
    /\ licensed \in [Attempts -> BOOLEAN]
    /\ sends \in [Attempts -> Nat]

Init ==
    /\ phase = [a \in Attempts |-> "unsent"]
    /\ licensed = [a \in Attempts |-> FALSE]
    /\ sends = [a \in Attempts |-> 0]

Move(a, from, to) ==
    /\ phase[a] \in from
    /\ phase' = [phase EXCEPT ![a] = to]

\* The licence to call the provider, given once.
Authorize(a) ==
    /\ Move(a, {"unsent"}, "authorized")
    /\ licensed' = [licensed EXCEPT ![a] = TRUE]
    /\ UNCHANGED sends

\* The single request.  It may start after the attempt has become doubtful.
Send(a) ==
    /\ licensed[a]
    /\ sends[a] = 0
    /\ phase[a] \in {"authorized", "doubtful"}
    /\ sends' = [sends EXCEPT ![a] = 1]
    /\ UNCHANGED <<phase, licensed>>

\* Cancelled, or left to a fallback, before any licence.
Close(a) ==
    /\ Move(a, {"unsent"}, "closed")
    /\ UNCHANGED <<licensed, sends>>

Doubt(a) ==
    /\ Move(a, {"unsent", "authorized"}, "doubtful")
    /\ UNCHANGED <<licensed, sends>>

\* The outcomes that report on the request need it to have been made.
Answer(a) ==
    /\ sends[a] = 1
    /\ Move(a, {"authorized", "doubtful"}, "answered")
    /\ UNCHANGED <<licensed, sends>>

Refuse(a) ==
    /\ sends[a] = 1
    /\ Move(a, {"authorized"}, "refused")
    /\ UNCHANGED <<licensed, sends>>

LoseResult(a) ==
    /\ sends[a] = 1
    /\ Move(a, {"authorized"}, "unavailable")
    /\ UNCHANGED <<licensed, sends>>

Next ==
    \E a \in Attempts :
        \/ Authorize(a) \/ Send(a) \/ Close(a) \/ Doubt(a)
        \/ Answer(a) \/ Refuse(a) \/ LoseResult(a)

Spec == Init /\ [][Next]_ledgerVars

=============================================================================
