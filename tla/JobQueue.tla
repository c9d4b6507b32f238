-------------------------------- MODULE JobQueue --------------------------------
(***************************************************************************)
(* lib/queue.go with the starts and stops of lib/server.go: nodes that run *)
(* the same program, each with a loop that takes jobs out of one table and *)
(* runs them.                                                              *)
(*                                                                         *)
(* The loop's statement reads the ids of a batch and deletes them; another *)
(* node's delete may come between the two, so that only the rows still     *)
(* there are returned.  Taken jobs exist in the node's memory only.  Every *)
(* caller enqueues at high priority and without delay, hence the order is  *)
(* that of creation, and ids are numbered by it.                           *)
(*                                                                         *)
(* On SIGTERM Start closes the server and waits for the loops, but closing *)
(* makes ListenAndServe return to log.Fatal, which exits at any moment.    *)
(***************************************************************************)
EXTENDS Naturals, Sequences, FiniteSets

CONSTANTS
  Nodes,       \* servers over one database
  Names,       \* names of jobs
  Handlers,    \* [Nodes]: the names a node's version of the program registers
  Limit,       \* "limit 5"
  MaxJobs,     \* bound on the jobs created
  MaxCrashes,  \* bound on crashes, of all nodes together
  MaxStops     \* bound on SIGTERMs

ASSUME JobQueueAssumption ==
  /\ Handlers \in [Nodes -> SUBSET Names]
  /\ Limit \in Nat \ {0}
  /\ MaxJobs \in Nat /\ MaxCrashes \in Nat /\ MaxStops \in Nat

Jobs == 1..MaxJobs

VARIABLES
  table,     \* app_jobs: the ids of its rows
  created,   \* the names of the jobs created, a job's id being its place
  node,      \* [Nodes]: "down", "up", or "stopping" after SIGTERM
  loop,      \* [Nodes]: the queue's goroutine: where it is, its batch
  outcome,   \* history, [Jobs]: what became of a job
  crashes, stops

queueVars == <<table, created, node, loop, outcome, crashes, stops>>

Outcomes == {"none", "ran", "skipped", "lost"}
Ended == [pc |-> "ended", batch |-> {}]

-----------------------------------------------------------------------------
(* Operations *)

NewID == Len(created) + 1

Enqueue(job) ==
  /\ Len(created) < MaxJobs
  /\ created' = Append(created, job)
  /\ table' = table \cup {NewID}
  /\ UNCHANGED <<node, loop, outcome, crashes, stops>>

\* "order by priority, created asc limit 5"
Oldest == {j \in table : Cardinality({i \in table : i < j}) < Limit}

\* The statement's subquery.
SelectBatch(n) ==
  /\ loop[n].pc = "select" /\ node[n] = "up"
  /\ loop' = [loop EXCEPT ![n] = [pc |-> "delete", batch |-> Oldest]]
  /\ UNCHANGED <<table, created, node, outcome, crashes, stops>>

DeletedBatch(n) == loop[n].batch \cap table

\* The delete: rows another node has deleted since are not returned.
DeleteBatch(n) ==
  /\ loop[n].pc = "delete"
  /\ table' = table \ loop[n].batch
  /\ loop' = [loop EXCEPT ![n] = [pc |-> "run", batch |-> DeletedBatch(n)]]
  /\ UNCHANGED <<created, node, outcome, crashes, stops>>

\* Mutant: a job that panics is put back.
RunJobAgain(n, j) ==
  /\ loop[n].pc = "run" /\ j \in loop[n].batch
  /\ table' = table \cup {j}
  /\ loop' = [loop EXCEPT ![n].batch = @ \ {j}]
  /\ UNCHANGED <<created, node, outcome, crashes, stops>>

\* An unknown name is logged, and so is a panic, which is recovered.
RunJob(n, j) ==
  /\ loop[n].pc = "run" /\ j \in loop[n].batch
  /\ outcome' = [outcome EXCEPT ![j] =
                   IF created[j] \in Handlers[n] THEN "ran" ELSE "skipped"]
  /\ loop' = [loop EXCEPT ![n].batch = @ \ {j}]
  /\ UNCHANGED <<table, created, node, crashes, stops>>

\* The batch is done: the loop's condition is tried again.
NextBatch(n) ==
  /\ loop[n].pc = "run" /\ loop[n].batch = {}
  /\ loop' = [loop EXCEPT ![n].pc = "select"]
  /\ UNCHANGED <<table, created, node, outcome, crashes, stops>>

EndLoop(n) ==
  /\ loop[n].pc = "select" /\ node[n] = "stopping"
  /\ loop' = [loop EXCEPT ![n] = Ended]
  /\ UNCHANGED <<table, created, node, outcome, crashes, stops>>

-----------------------------------------------------------------------------
(* Processes *)

Start(n) ==
  /\ node[n] = "down"
  /\ node' = [node EXCEPT ![n] = "up"]
  /\ loop' = [loop EXCEPT ![n] = [pc |-> "select", batch |-> {}]]
  /\ UNCHANGED <<table, created, outcome, crashes, stops>>

Signal(n) ==
  /\ node[n] = "up" /\ stops < MaxStops
  /\ stops' = stops + 1
  /\ node' = [node EXCEPT ![n] = "stopping"]
  /\ UNCHANGED <<table, created, loop, outcome, crashes>>

\* Jobs in the memory of a process: while a batch is only selected it is not.
Taken(n) == IF loop[n].pc = "run" THEN loop[n].batch ELSE {}

\* The process is gone, with the jobs it had taken.
Gone(n) ==
  /\ node' = [node EXCEPT ![n] = "down"]
  /\ loop' = [loop EXCEPT ![n] = Ended]
  /\ outcome' = [j \in Jobs |-> IF j \in Taken(n) THEN "lost" ELSE outcome[j]]
  /\ UNCHANGED <<table, created>>

\* A crash, or an error of the database: Check panics outside of RunJob.
Crash(n) ==
  /\ node[n] # "down" /\ crashes < MaxCrashes
  /\ crashes' = crashes + 1
  /\ Gone(n)
  /\ UNCHANGED stops

\* A panic of another goroutine, which nothing recovers.
Panic(n) ==
  /\ node[n] # "down"
  /\ Gone(n)
  /\ UNCHANGED <<crashes, stops>>

\* log.Fatal exits after the server was closed, whatever the loops do.
Exit(n) ==
  /\ node[n] = "stopping"
  /\ Gone(n)
  /\ UNCHANGED <<crashes, stops>>

-----------------------------------------------------------------------------
(* Specification *)

QueueInit ==
  /\ table = {}
  /\ created = <<>>
  /\ node = [n \in Nodes |-> "down"]
  /\ loop = [n \in Nodes |-> Ended]
  /\ outcome = [j \in Jobs |-> "none"]
  /\ crashes = 0 /\ stops = 0

QueueLoop(n) ==
  \/ SelectBatch(n) \/ DeleteBatch(n) \/ NextBatch(n) \/ EndLoop(n)
  \/ \E j \in Jobs : RunJob(n, j)

QueueNext ==
  \/ \E n \in Nodes : \/ QueueLoop(n)
                      \/ Start(n) \/ Signal(n) \/ Crash(n) \/ Panic(n) \/ Exit(n)
  \/ \E job \in Names : Enqueue(job)

QueueSpec == QueueInit /\ [][QueueNext]_queueVars

-----------------------------------------------------------------------------
(* Properties *)

\* Types of the state.
QueueTypeOK ==
  /\ table \subseteq Jobs
  /\ created \in Seq(Names) /\ Len(created) <= MaxJobs
  /\ node \in [Nodes -> {"down", "up", "stopping"}]
  /\ loop \in [Nodes -> [pc : {"ended", "select", "delete", "run"},
                         batch : SUBSET Jobs]]
  /\ outcome \in [Jobs -> Outcomes]
  /\ crashes \in 0..MaxCrashes /\ stops \in 0..MaxStops

Over == {j \in Jobs : outcome[j] # "none"}

\* A job that was enqueued is in the table, or in the memory of exactly one
\* node, or over: none disappears, none is with two nodes, and none that was
\* run or lost is still to be run.
EachJobInOnePlace ==
  \A j \in Jobs :
    /\ j <= Len(created) <=> \/ j \in table \cup Over
                             \/ \E n \in Nodes : j \in Taken(n)
    /\ j \notin table \cap Over
    /\ \A n \in Nodes : j \in Taken(n) =>
         /\ j \notin table \cup Over
         /\ \A m \in Nodes \ {n} : j \notin Taken(m)

\* The nodes' loops over one table deliver every job at most once.
D == INSTANCE Delivery WITH
       queued <- table, held <- [n \in Nodes |-> Taken(n)], over <- Over
ImplementsDelivery == D!Spec
=============================================================================
