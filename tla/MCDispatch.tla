----------------------------- MODULE MCDispatch -----------------------------
(* Instances of Dispatch for TLC. *)
EXTENDS DispatchRefinement, TLC

\* Workers are interchangeable; used by runs without liveness only.
WorkerSymmetry == Permutations(Workers)

\* Keeps the run and its packets live, to spend the states on faults instead.
SteadyRun == run = "active" /\ \A a \in Attempts : packet[a] = "live"

\* The liveness runs let the run only end: for a job, a suspended, idle or
\* overdue run is one more way to find it inactive.
LiveSpec ==
    /\ Init
    /\ [][Next /\ run' \in {"active", "ended"}]_vars
    /\ Fairness

=============================================================================
