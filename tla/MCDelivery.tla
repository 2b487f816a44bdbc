----------------------------- MODULE MCDelivery -----------------------------
(***************************************************************************)
(* Model-checking instances of Delivery: the shortest pipeline from which  *)
(* both kinds of report can be recovered, one that saves the analysis of   *)
(* phase 2 again, as after a repair of the synthesis, and one that saves   *)
(* the synthesis as well.                                                  *)
(***************************************************************************)
EXTENDS Delivery

ShortPipeline == <<"phase1", "phase2", "final_report">>

RepairPipeline == <<"phase1", "phase2", "phase2", "final_report">>

SynthesisPipeline ==
    <<"phase1", "phase2", "synthesis", "phase2", "final_report">>

=============================================================================
