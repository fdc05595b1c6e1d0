----------------------------- MODULE MCRepairRun -----------------------------
(* RepairRun for TLC. *)
EXTENDS RepairRun

MCJobs == ({"probe", "reproduction", "repair"} \X (1..MaxRounds)) \cup ({"final"} \X (1..3))
=============================================================================
