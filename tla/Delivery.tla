-------------------------------- MODULE Delivery --------------------------------
(***************************************************************************)
(* What the job queue promises, whatever its nodes do: a job is handed to  *)
(* one node at most, once, and is over when that node is done with it or   *)
(* is gone.  Nothing is handed out twice, so a job whose node went away is *)
(* not tried again.                                                        *)
(***************************************************************************)
EXTENDS Naturals

CONSTANTS Nodes, Jobs

VARIABLES
  queued,   \* jobs that nobody has taken
  held,     \* [Nodes]: jobs a node has taken and not finished
  over      \* jobs that will not be run any more

vars == <<queued, held, over>>

Init ==
  /\ queued = {}
  /\ held = [n \in Nodes |-> {}]
  /\ over = {}

Add(j) ==
  /\ j \notin queued \cup over
  /\ \A n \in Nodes : j \notin held[n]
  /\ queued' = queued \cup {j}
  /\ UNCHANGED <<held, over>>

Take(n, batch) ==
  /\ batch \subseteq queued
  /\ queued' = queued \ batch
  /\ held' = [held EXCEPT ![n] = @ \cup batch]
  /\ UNCHANGED over

Finish(n, batch) ==
  /\ batch \subseteq held[n]
  /\ held' = [held EXCEPT ![n] = @ \ batch]
  /\ over' = over \cup batch
  /\ UNCHANGED queued

Next ==
  \/ \E j \in Jobs : Add(j)
  \/ \E n \in Nodes, batch \in SUBSET Jobs : Take(n, batch) \/ Finish(n, batch)

Spec == Init /\ [][Next]_vars
=============================================================================
