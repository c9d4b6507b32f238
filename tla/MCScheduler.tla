------------------------------ MODULE MCScheduler ------------------------------
(* Scheduler for TLC: nodes of one version, which does not have the schedule *)
(* that an earlier one has left in the table.                                *)
EXTENDS Scheduler, TLC

CONSTANTS kept, dropped   \* two names

OneVersion == [n \in Nodes |-> Names \ {dropped}]
=============================================================================
