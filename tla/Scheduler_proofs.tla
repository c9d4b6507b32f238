---------------------------- MODULE Scheduler_proofs ----------------------------
(***************************************************************************)
(* Proofs about JobQueue and Scheduler for any nodes, names, schedules,    *)
(* versions, limit, bounds and interval.                                   *)
(*                                                                         *)
(* The queue comes first.  Every statement and every event of a node does  *)
(* one of four things to the places a job can be in: a new id is put into  *)
(* the table, some ids move from the table to a node, some from a node to  *)
(* those that are over, or nothing moves.  From that lemma follow both     *)
(* that each job stays in one place and that the nodes implement Delivery. *)
(*                                                                         *)
(* One run in an hour at most rests on arithmetic, next_run being rounded  *)
(* to the nearest hour: whatever the time of the update, it is past the    *)
(* end of the hour in which the schedule ran last (NextAfterLast).         *)
(***************************************************************************)
EXTENDS Scheduler, TLAPS

\* What the nodes have taken, as Delivery sees it.
Held == [n \in Nodes |-> Taken(n)]

\* The loop of a process that is gone has ended.
DownHasEnded == \A n \in Nodes : node[n] = "down" => loop[n].pc = "ended"

IInv == QueueTypeOK /\ DownHasEnded /\ EachJobInOnePlace

-----------------------------------------------------------------------------
(* The queue: types *)

\* The queue's types hold at first.
THEOREM QueueTypesInit == QueueInit => QueueTypeOK
BY JobQueueAssumption DEF QueueInit, QueueTypeOK, Ended, Outcomes, Jobs

\* Enqueue keeps the types of the table and the identifiers.
LEMMA EnqueueTypes ==
  ASSUME QueueTypeOK, NEW job \in Names, Enqueue(job)
  PROVE  QueueTypeOK'
<1>1. /\ Len(created) \in Nat
      /\ NewID \in Jobs
      /\ created' \in Seq(Names) /\ Len(created') = Len(created) + 1
  BY JobQueueAssumption DEF QueueTypeOK, Enqueue, NewID, Jobs
<1> QED
  BY <1>1, JobQueueAssumption DEF QueueTypeOK, Enqueue, Jobs

\* A process that ends leaves outcomes of the right type.
LEMMA GoneTypes ==
  ASSUME QueueTypeOK, NEW n \in Nodes, Gone(n),
         crashes' \in 0..MaxCrashes, stops' \in 0..MaxStops
  PROVE  QueueTypeOK'
BY DEF QueueTypeOK, Gone, Ended, Outcomes

\* A step of a node keeps the types.
LEMMA NodeTypes ==
  ASSUME QueueTypeOK, NEW n \in Nodes,
         QueueLoop(n) \/ Start(n) \/ Signal(n) \/ Crash(n) \/ Panic(n) \/ Exit(n)
  PROVE  QueueTypeOK'
<1> USE JobQueueAssumption DEF QueueTypeOK
<1>1. CASE SelectBatch(n)
  BY <1>1 DEF SelectBatch, Oldest
<1>2. CASE DeleteBatch(n)
  BY <1>2 DEF DeleteBatch, DeletedBatch
<1>3. CASE NextBatch(n)
  BY <1>3 DEF NextBatch
<1>4. CASE EndLoop(n)
  BY <1>4 DEF EndLoop, Ended
<1>5. CASE \E j \in Jobs : RunJob(n, j)
  BY <1>5 DEF RunJob, Outcomes
<1>6. CASE Start(n)
  BY <1>6 DEF Start
<1>7. CASE Signal(n)
  BY <1>7 DEF Signal
<1>8. CASE Crash(n)
  BY <1>8, GoneTypes DEF Crash
<1>9. CASE Exit(n) \/ Panic(n)
  BY <1>9, GoneTypes DEF Exit, Panic
<1> QED
  BY <1>1, <1>2, <1>3, <1>4, <1>5, <1>6, <1>7, <1>8, <1>9 DEF QueueLoop

\* Every step of a node keeps the queue's types.
LEMMA QueueTypesStep == QueueTypeOK /\ [QueueNext]_queueVars => QueueTypeOK'
<1> SUFFICES ASSUME QueueTypeOK, [QueueNext]_queueVars
             PROVE  QueueTypeOK'
  OBVIOUS
<1>1. CASE UNCHANGED queueVars
  BY <1>1 DEF queueVars, QueueTypeOK
<1>2. CASE QueueNext
  BY <1>2, EnqueueTypes, NodeTypes DEF QueueNext
<1> QED
  BY <1>1, <1>2

\* The state of queue, nodes and loops is well typed.
THEOREM QueueTypeCorrect == QueueSpec => []QueueTypeOK
BY QueueTypesInit, QueueTypesStep, PTL DEF QueueSpec

-----------------------------------------------------------------------------
(* What a step moves *)

\* The four shapes of a step.
Added == /\ table' = table \cup {Len(created) + 1}
         /\ Len(created') = Len(created) + 1
         /\ Len(created) + 1 \in Jobs
         /\ Held' = Held /\ Over' = Over
Moved(n, batch) == /\ batch \subseteq table
                   /\ table' = table \ batch
                   /\ Held' = [Held EXCEPT ![n] = @ \cup batch]
                   /\ Over' = Over /\ created' = created
Done(n, batch) == /\ batch \subseteq Taken(n)
                  /\ Held' = [Held EXCEPT ![n] = @ \ batch]
                  /\ Over' = Over \cup batch
                  /\ table' = table /\ created' = created
Still == table' = table /\ Held' = Held /\ Over' = Over /\ created' = created

\* Enqueue adds one waiting job with a new identifier.
LEMMA EnqueueAdds ==
  ASSUME QueueTypeOK, NEW job \in Names, Enqueue(job)
  PROVE  Added
<1>1. Len(created) \in Nat /\ Len(created) < MaxJobs
      /\ created \in Seq(Names)
  BY DEF QueueTypeOK, Enqueue
<1>2. Len(created') = Len(created) + 1 /\ Len(created) + 1 \in Jobs
  BY <1>1, JobQueueAssumption DEF Enqueue, Jobs
<1> QED
  BY <1>2 DEF Added, Enqueue, NewID, Held, Taken, Over

\* The process' jobs are over when it goes.
LEMMA GoneIsDone ==
  ASSUME QueueTypeOK, NEW n \in Nodes, Gone(n)
  PROVE  Done(n, Taken(n))
<1>1. Held' = [Held EXCEPT ![n] = {}]
  BY DEF QueueTypeOK, Gone, Held, Taken, Ended
<1>2. Taken(n) \subseteq Jobs
  BY DEF QueueTypeOK, Taken
<1>3. Over' = Over \cup Taken(n)
  BY <1>2 DEF QueueTypeOK, Gone, Over
<1> QED
  BY <1>1, <1>3 DEF Done, Gone, Held

\* Every step of a node's loop moves jobs between table, node and outcome, or nothing.
LEMMA NodeMoves ==
  ASSUME QueueTypeOK, NEW n \in Nodes,
         QueueLoop(n) \/ Start(n) \/ Signal(n) \/ Crash(n) \/ Panic(n) \/ Exit(n),
         node[n] = "down" => loop[n].pc = "ended"
  PROVE  Still \/ \E batch \in SUBSET Jobs : Moved(n, batch) \/ Done(n, batch)
<1>1. CASE SelectBatch(n)
  BY <1>1 DEF QueueTypeOK, SelectBatch, Still, Held, Taken, Over
<1>2. CASE DeleteBatch(n)
  <2>1. DeletedBatch(n) \in SUBSET Jobs /\ DeletedBatch(n) \subseteq table
    BY DEF QueueTypeOK, DeletedBatch
  <2>2. table' = table \ DeletedBatch(n)
    BY <1>2 DEF QueueTypeOK, DeleteBatch, DeletedBatch
  <2>3. Held' = [Held EXCEPT ![n] = @ \cup DeletedBatch(n)]
    BY <1>2 DEF QueueTypeOK, DeleteBatch, Held, Taken
  <2> QED
    BY <1>2, <2>1, <2>2, <2>3 DEF DeleteBatch, Moved, Over
<1>3. CASE NextBatch(n)
  BY <1>3 DEF QueueTypeOK, NextBatch, Still, Held, Taken, Over
<1>4. CASE EndLoop(n)
  BY <1>4 DEF QueueTypeOK, EndLoop, Ended, Still, Held, Taken, Over
<1>5. ASSUME NEW j \in Jobs, RunJob(n, j)
      PROVE  Done(n, {j})
  <2>1. Held' = [Held EXCEPT ![n] = @ \ {j}]
    BY <1>5 DEF QueueTypeOK, RunJob, Held, Taken
  <2>2. Over' = Over \cup {j}
    BY <1>5 DEF QueueTypeOK, RunJob, Over
  <2> QED
    BY <1>5, <2>1, <2>2 DEF RunJob, Done, Taken
<1>6. CASE Start(n)
  BY <1>6 DEF QueueTypeOK, Start, Still, Held, Taken, Over
<1>7. CASE Signal(n)
  BY <1>7 DEF Signal, Still, Held, Taken, Over
<1>8. CASE Crash(n) \/ Panic(n) \/ Exit(n)
  <2>1. Taken(n) \in SUBSET Jobs /\ Gone(n)
    BY <1>8 DEF QueueTypeOK, Taken, Crash, Panic, Exit
  <2> QED
    BY <2>1, GoneIsDone
<1> QED
  BY <1>1, <1>2, <1>3, <1>4, <1>5, <1>6, <1>7, <1>8 DEF QueueLoop

-----------------------------------------------------------------------------
(* Each job in one place *)

\* A new job is in one place, and the others stay where they are.
LEMMA AddedKeepsPlaces ==
  ASSUME QueueTypeOK, EachJobInOnePlace, Added
  PROVE  EachJobInOnePlace'
<1>1. Len(created) \in Nat
  BY DEF QueueTypeOK
<1>2. \A n \in Nodes : Taken(n)' = Taken(n)
  BY DEF Added, Held
<1>3. Over' = Over
  BY DEF Added
<1>4. \A j \in Jobs : j \in Nat
  BY JobQueueAssumption DEF Jobs
<1> QED
  BY <1>1, <1>2, <1>3, <1>4 DEF Added, EachJobInOnePlace

\* Taking a batch moves its jobs from the table to one node.
LEMMA MovedKeepsPlaces ==
  ASSUME EachJobInOnePlace, NEW n \in Nodes, NEW batch \in SUBSET Jobs,
         Moved(n, batch)
  PROVE  EachJobInOnePlace'
<1>1. \A m \in Nodes : Taken(m)' = IF m = n THEN Taken(n) \cup batch ELSE Taken(m)
  BY DEF Moved, Held
<1>2. Over' = Over
  BY DEF Moved
<1> QED
  BY <1>1, <1>2 DEF Moved, EachJobInOnePlace

\* A job that is over leaves its node.
LEMMA DoneKeepsPlaces ==
  ASSUME EachJobInOnePlace, NEW n \in Nodes, NEW batch \in SUBSET Jobs,
         Done(n, batch)
  PROVE  EachJobInOnePlace'
<1>1. \A m \in Nodes : Taken(m)' = IF m = n THEN Taken(n) \ batch ELSE Taken(m)
  BY DEF Done, Held
<1>2. Over' = Over \cup batch
  BY DEF Done
<1> QED
  BY <1>1, <1>2 DEF Done, EachJobInOnePlace

\* A step that moves no job keeps every job in its place.
LEMMA StillKeepsPlaces ==
  ASSUME EachJobInOnePlace, Still
  PROVE  EachJobInOnePlace'
<1>1. \A n \in Nodes : Taken(n)' = Taken(n)
  BY DEF Still, Held
<1>2. Over' = Over
  BY DEF Still
<1> QED
  BY <1>1, <1>2 DEF Still, EachJobInOnePlace

\* Every step has one of the four shapes.
LEMMA StepShape ==
  ASSUME QueueTypeOK, DownHasEnded, [QueueNext]_queueVars
  PROVE  \/ Added \/ Still
         \/ \E n \in Nodes, batch \in SUBSET Jobs : Moved(n, batch) \/ Done(n, batch)
<1>1. CASE UNCHANGED queueVars
  BY <1>1 DEF queueVars, Still, Held, Taken, Over
<1>2. CASE QueueNext
  BY <1>2, EnqueueAdds, NodeMoves DEF QueueNext, DownHasEnded
<1> QED
  BY <1>1, <1>2

\* Every step keeps each job in one place.
LEMMA PlacesStep ==
  ASSUME QueueTypeOK, DownHasEnded, EachJobInOnePlace, [QueueNext]_queueVars
  PROVE  EachJobInOnePlace'
BY StepShape, AddedKeepsPlaces, MovedKeepsPlaces, DoneKeepsPlaces, StillKeepsPlaces

\* A node that is down stays ended.
LEMMA DownHasEndedStep ==
  ASSUME QueueTypeOK, DownHasEnded, [QueueNext]_queueVars
  PROVE  DownHasEnded'
<1> USE DEF QueueTypeOK, DownHasEnded
<1>1. CASE UNCHANGED queueVars
  BY <1>1 DEF queueVars
<1>2. CASE \E job \in Names : Enqueue(job)
  BY <1>2 DEF Enqueue
<1>3. ASSUME NEW n \in Nodes, QueueLoop(n)
      PROVE  DownHasEnded'
  <2>1. CASE SelectBatch(n)
    BY <2>1 DEF SelectBatch
  <2>2. CASE DeleteBatch(n)
    BY <2>2 DEF DeleteBatch, DeletedBatch
  <2>3. CASE NextBatch(n)
    BY <2>3 DEF NextBatch
  <2>4. CASE EndLoop(n)
    BY <2>4 DEF EndLoop, Ended
  <2>5. CASE \E j \in Jobs : RunJob(n, j)
    BY <2>5 DEF RunJob
  <2> QED
    BY <1>3, <2>1, <2>2, <2>3, <2>4, <2>5 DEF QueueLoop
<1>4. ASSUME NEW n \in Nodes, Start(n) \/ Signal(n) \/ Crash(n) \/ Panic(n) \/ Exit(n)
      PROVE  DownHasEnded'
  BY <1>4 DEF Start, Signal, Crash, Panic, Exit, Gone, Ended
<1> QED
  BY <1>1, <1>2, <1>3, <1>4 DEF QueueNext

\* The invariant holds at first.
LEMMA IInvInit == QueueInit => IInv
<1> SUFFICES ASSUME QueueInit
             PROVE  IInv
  OBVIOUS
<1>1. \A n \in Nodes : Taken(n) = {}
  BY DEF QueueInit, Taken, Ended
<1>2. /\ Over = {} /\ table = {}
      /\ \A j \in Jobs : ~(j <= Len(created))
  BY JobQueueAssumption DEF QueueInit, Over, Jobs
<1>3. DownHasEnded
  BY DEF QueueInit, DownHasEnded, Ended
<1> QED
  BY <1>1, <1>2, <1>3, QueueTypesInit DEF IInv, EachJobInOnePlace

\* Every step keeps the invariant.
LEMMA IInvStep == IInv /\ [QueueNext]_queueVars => IInv'
BY QueueTypesStep, DownHasEndedStep, PlacesStep DEF IInv

\* The invariant holds in every reachable state.
LEMMA IInvAlways == QueueSpec => []IInv
BY IInvInit, IInvStep, PTL DEF QueueSpec

\* However nodes take, run, stop and crash: a job that was enqueued is in the
\* table, with one node, or over.
THEOREM JobsInOnePlace == QueueSpec => []EachJobInOnePlace
<1>1. IInv => EachJobInOnePlace
  BY DEF IInv
<1> QED
  BY <1>1, IInvAlways, PTL

-----------------------------------------------------------------------------
(* Delivery *)

\* The queue starts as at-most-once delivery does.
LEMMA DeliveryInit == QueueInit => D!Init
BY DEF QueueInit, D!Init, Taken, Ended, Over

\* Every step of the queue is a step of at-most-once delivery, or none.
LEMMA DeliveryStep ==
  ASSUME IInv, [QueueNext]_queueVars
  PROVE  [D!Next]_D!vars
<1> USE DEF Held
<1>1. CASE Added
  <2>1. Len(created) + 1 \notin table \cup Over
        /\ \A n \in Nodes : Len(created) + 1 \notin Taken(n)
    BY <1>1 DEF IInv, QueueTypeOK, EachJobInOnePlace, Added
  <2>2. D!Add(Len(created) + 1)
    BY <1>1, <2>1 DEF D!Add, Added
  <2> QED
    BY <1>1, <2>2 DEF D!Next, Added
<1>2. CASE Still
  BY <1>2 DEF Still, D!vars
<1>3. ASSUME NEW n \in Nodes, NEW batch \in SUBSET Jobs, Moved(n, batch)
      PROVE  D!Next
  BY <1>3 DEF Moved, D!Take, D!Next
<1>4. ASSUME NEW n \in Nodes, NEW batch \in SUBSET Jobs, Done(n, batch)
      PROVE  D!Next
  BY <1>4 DEF Done, D!Finish, D!Next
<1> QED
  BY <1>1, <1>2, <1>3, <1>4, StepShape DEF IInv

\* Whatever the nodes do, every job is delivered at most once.
THEOREM QueueDelivers == QueueSpec => ImplementsDelivery
<1>1. IInv /\ [QueueNext]_queueVars => [D!Next]_D!vars
  BY DeliveryStep
<1> QED
  BY <1>1, DeliveryInit, IInvAlways, PTL DEF QueueSpec, ImplementsDelivery, D!Spec

-----------------------------------------------------------------------------
(* Times *)

\* Floor division by a positive number.
LEMMA DivBounds ==
  ASSUME NEW a \in Int, NEW b \in Nat \ {0}
  PROVE  /\ a \div b \in Int
         /\ b * (a \div b) <= a
         /\ a < b * (a \div b) + b
OBVIOUS

\* The nearest tick to an interval from now is never in the present interval.
LEMMA RoundIsLater ==
  ASSUME NEW t \in Int, NEW d \in Nat \ {0}
  PROVE  /\ Round(t + d, d) \in Int
         /\ Round(t + d, d) >= d * (t \div d) + d
<1> DEFINE x == 2 * (t + d) + d
           e == 2 * d
           q == x \div e
           p == t \div d
<1>1. x \in Int /\ e \in Nat \ {0}
  OBVIOUS
<1>2. q \in Int /\ x < e * q + e
  <2> HIDE DEF x, e
  <2> QED
    BY <1>1, DivBounds
<1>3. p \in Int /\ d * p <= t
  BY DivBounds
<1>4. Round(t + d, d) = q * d
  BY DEF Round
<1> HIDE DEF q, p
<1>5. 2 * (d * p) + 3 * d < 2 * (d * q) + 2 * d
  <2>1. e * q = 2 * (d * q)
    BY <1>2
  <2> QED
    BY <1>2, <1>3, <2>1
<1>6. d * p < d * q
  BY <1>2, <1>3, <1>5
<1>7. p < q
  BY <1>2, <1>3, <1>6
<1>8. d * (p + 1) <= d * q
  BY <1>2, <1>3, <1>7
<1>9. d * (p + 1) = d * p + d /\ q * d = d * q /\ q * d \in Int
  BY <1>2, <1>3
<1>10. Round(t + d, d) \in Int /\ Round(t + d, d) >= d * p + d
  BY <1>3, <1>4, <1>8, <1>9
<1> QED
  BY <1>10 DEF p

\* A time past the end of an interval lies in a later one.
LEMMA PastTheEnd ==
  ASSUME NEW t \in Int, NEW u \in Int, NEW d \in Nat \ {0},
         d * (t \div d) + d <= u
  PROVE  u \div d > t \div d
<1> DEFINE p == t \div d
           q == u \div d
<1>1. /\ p \in Int /\ q \in Int
      /\ u < d * q + d
      /\ d * p + d <= u
  BY DivBounds
<1> HIDE DEF p, q
<1>2. d * p < d * q
  BY <1>1
<1>3. p < q
  BY <1>1, <1>2
<1> QED
  BY <1>3 DEF p, q

-----------------------------------------------------------------------------
(* Types *)

\* The next run is a whole number.
LEMMA NextRunInt ==
  ASSUME NEW n \in Nodes, NEW s \in Names, NEW t \in Nat
  PROVE  NextRun(n, s, t) \in Int
<1>1. CASE s \in Handlers[n]
  <2>1. t \in Int /\ Interval \in Nat \ {0}
    BY SchedulerAssumption
  <2>2. Round(t + Interval, Interval) \in Int
    BY <2>1, RoundIsLater
  <2> QED
    BY <1>1, <2>2 DEF NextRun, IntervalAt
<1>2. CASE s \notin Handlers[n]
  BY <1>2 DEF NextRun, IntervalAt, Round
<1> QED
  BY <1>1, <1>2

\* The types hold at first.
LEMMA TypesInit == Init => TypeOK
BY QueueTypesInit, SchedulerAssumption
   DEF Init, QueueInit, TypeOK, SchedStates, Off, Absent

\* The scheduler's own statements.
LEMMA SchedulerStepTypes ==
  ASSUME TypeOK, NEW n \in Nodes, SchedulerStep(n)
  PROVE  TypeOK'
<1> USE SchedulerAssumption, JobQueueAssumption DEF TypeOK
<1>q. UNCHANGED queueVars => QueueTypeOK'
  BY DEF queueVars, QueueTypeOK
<1>1. CASE ReadSchedules(n)
  <2>1. Rows \ Handlers[n] \subseteq Names /\ Handlers[n] \ Rows \subseteq Names
    BY DEF Rows
  <2> QED
    BY <1>1, <1>q, <2>1 DEF ReadSchedules, SchedStates, queueVars
<1>2. CASE \E s \in Names : DeleteOld(n, s)
  BY <1>2, <1>q DEF DeleteOld, SchedStates, Absent, queueVars
<1>3. CASE \E s \in Names : InsertNew(n, s)
  BY <1>3, <1>q, NextRunInt DEF InsertNew, Inserted, SchedStates, queueVars
<1>4. CASE InsertConflict(n)
  <2>1. QueueTypeOK'
    BY <1>4, NodeTypes DEF InsertConflict
  <2> QED
    BY <1>4, <2>1 DEF InsertConflict, Panic, Gone, Off, SchedStates, QueueTypeOK
<1>5. CASE Aligned(n)
  BY <1>5, <1>q DEF Aligned, SchedStates, queueVars
<1>6. CASE SelectDue(n)
  BY <1>6, <1>q DEF SelectDue, Rows, SchedStates, queueVars
<1>7. CASE \E s \in Names : ReadClock(n, s)
  BY <1>7, <1>q DEF ReadClock, SchedStates, queueVars
<1>8. CASE Bump(n)
  <2>1. /\ sched[n].job \in Names /\ sched[n].at \in Nat /\ sched[n].at \in Int
        /\ sched[n].due \in SUBSET Names
    BY <1>8 DEF Bump, SchedStates
  <2>2. NextRun(n, sched[n].job, sched[n].at) \in Int
    BY <2>1, NextRunInt
  <2> QED
    BY <1>8, <1>q, <2>1, <2>2 DEF Bump, SchedStates, queueVars
<1>9. CASE EnqueueDue(n)
  <2>1. sched[n].job \in Names /\ sched[n].due \in SUBSET Names
    BY <1>9 DEF EnqueueDue, SchedStates
  <2>2. QueueTypeOK'
    BY <1>9, <2>1, EnqueueTypes DEF EnqueueDue
  <2> QED
    BY <1>9, <2>1, <2>2 DEF EnqueueDue, Enqueue, SchedStates
<1> QED
  BY <1>1, <1>2, <1>3, <1>4, <1>5, <1>6, <1>7, <1>8, <1>9
  DEF SchedulerStep

\* Every step keeps the types.
LEMMA TypesStep == TypeOK /\ [Next]_vars => TypeOK'
<1> SUFFICES ASSUME TypeOK, [Next]_vars
             PROVE  TypeOK'
  OBVIOUS
<1> USE SchedulerAssumption DEF TypeOK
<1>1. CASE UNCHANGED vars
  BY <1>1 DEF vars, schedVars, queueVars, QueueTypeOK
<1>2. CASE Tick
  BY <1>2 DEF Tick, queueVars, QueueTypeOK
<1>3. ASSUME NEW n \in Nodes, StartJob(n)
      PROVE  TypeOK'
  <2>1. QueueTypeOK'
    BY <1>3, NodeTypes DEF StartJob
  <2> QED
    BY <1>3, <2>1 DEF StartJob, Start, SchedStates, QueueTypeOK
<1>4. ASSUME NEW n \in Nodes, Down(n)
      PROVE  TypeOK'
  <2>1. QueueTypeOK'
    BY <1>4, NodeTypes DEF Down
  <2> QED
    BY <1>4, <2>1 DEF Down, Crash, Exit, Gone, Off, SchedStates, QueueTypeOK
<1>5. ASSUME NEW n \in Nodes, QueueStep(n)
      PROVE  TypeOK'
  <2>1. QueueTypeOK'
    BY <1>5, NodeTypes DEF QueueStep
  <2>2. CASE Signal(n)
    BY <1>5, <2>1, <2>2 DEF QueueStep, Signal, schedVars, QueueTypeOK
  <2>3. CASE QueueLoop(n)
    <3>1. node' = node
      BY <2>3 DEF QueueLoop, SelectBatch, DeleteBatch, NextBatch, EndLoop, RunJob
    <3> QED
      BY <1>5, <2>1, <3>1 DEF QueueStep, schedVars
  <2> QED
    BY <1>5, <2>2, <2>3 DEF QueueStep
<1> QED
  BY <1>1, <1>2, <1>3, <1>4, <1>5, SchedulerStepTypes DEF Next

\* The state of schedulers, queue and nodes is well typed, and a node's two
\* goroutines live and end together.
THEOREM TypeCorrect == Spec => []TypeOK
BY TypesInit, TypesStep, PTL DEF Spec

-----------------------------------------------------------------------------
(* The schedules that all versions have *)

\* A node that has read the table inserts what it has not found, and none that
\* all have is deleted.
AlignKeepsCommon ==
  \A n \in Nodes :
    sched[n].pc = "align" => /\ sched[n].drop \cap Common = {}
                             /\ Common \subseteq Rows \cup sched[n].add

\* The next run is past the interval of the last; a row that is missing was
\* never there.
NextAfterLast ==
  \A s \in Common :
    IF nextRun[s] = Absent THEN lastRan[s] = -Interval
    ELSE nextRun[s] >= Interval * (lastRan[s] \div Interval) + Interval

SInv == TypeOK /\ AlignKeepsCommon /\ SchedulesInPlace /\ NextAfterLast

\* What a bump and an insert write for such a schedule.
LEMMA NextRunIsLater ==
  ASSUME NEW n \in Nodes, NEW s \in Common, NEW t \in Nat
  PROVE  /\ NextRun(n, s, t) >= Interval * (t \div Interval) + Interval
         /\ NextRun(n, s, t) # Absent
<1>1. t \in Int /\ Interval \in Nat \ {0}
  BY SchedulerAssumption
<1>2. NextRun(n, s, t) = Round(t + Interval, Interval)
  BY DEF NextRun, IntervalAt, Common
<1> DEFINE p == t \div Interval
<1>3. /\ Round(t + Interval, Interval) \in Int
      /\ Round(t + Interval, Interval) >= Interval * p + Interval
  BY <1>1, RoundIsLater
<1>4. p \in Int /\ t < Interval * p + Interval
  BY <1>1, DivBounds
<1> HIDE DEF p
<1>5. Interval * p \in Int
  BY <1>1, <1>4
<1>6. Round(t + Interval, Interval) >= 0
  BY <1>1, <1>3, <1>4, <1>5
<1> QED
  BY <1>2, <1>3, <1>6 DEF Absent, p

\* A clock in the interval before zero is bumped to zero.
LEMMA FirstInterval == Interval * ((-Interval) \div Interval) + Interval = 0
<1> DEFINE q == (-Interval) \div Interval
<1>1. Interval \in Nat \ {0} /\ -Interval \in Int
  BY SchedulerAssumption
<1>2. q \in Int /\ Interval * q <= -Interval /\ -Interval < Interval * q + Interval
  BY <1>1, DivBounds
<1> HIDE DEF q
<1>3. q = -1
  <2>1. Interval * q <= Interval * (-1) /\ Interval * (-2) < Interval * q
    BY <1>1, <1>2
  <2>2. -2 < q
    BY <1>1, <1>2, <2>1
  <2>3. q < 0
    BY <1>1, <1>2
  <2> QED
    BY <1>2, <2>2, <2>3
<1> QED
  BY <1>1, <1>3 DEF q

\* The invariant holds at first.
LEMMA SInvInit == Init => SInv
<1> SUFFICES ASSUME Init
             PROVE  SInv
  OBVIOUS
<1>1. AlignKeepsCommon /\ SchedulesInPlace
  BY DEF Init, AlignKeepsCommon, SchedulesInPlace, Off
<1>2. NextAfterLast
  BY FirstInterval, SchedulerAssumption DEF Init, NextAfterLast, Common, Absent
<1> QED
  BY <1>1, <1>2, TypesInit DEF SInv

\* What a node's goroutine may rely on, given the rows.
Fits(state, rows) ==
  /\ state.pc = "align" => /\ state.drop \cap Common = {}
                           /\ Common \subseteq rows \cup state.add
  /\ state.pc \in {"loop", "update", "enqueue"} => Common \subseteq rows

\* A step of one node that takes no such row away.
LEMMA OneNodeMoves ==
  ASSUME SInv, NEW n \in Nodes,
         \A m \in Nodes \ {n} : sched'[m] = sched[m],
         Common \cap Rows \subseteq Rows',
         Fits(sched'[n], Rows')
  PROVE  AlignKeepsCommon' /\ SchedulesInPlace'
<1>1. \A m \in Nodes : Fits(sched'[m], Rows')
  BY DEF SInv, AlignKeepsCommon, SchedulesInPlace, Fits
<1> QED
  BY <1>1 DEF Fits, AlignKeepsCommon, SchedulesInPlace

\* A step that leaves the table and the goroutines keeps the invariant.
LEMMA TableUntouched ==
  ASSUME SInv, UNCHANGED <<nextRun, lastRan>>
  PROVE  NextAfterLast' /\ Rows' = Rows
BY DEF SInv, NextAfterLast, Rows

\* Every statement of a scheduler's goroutine keeps the invariant.
LEMMA SchedulerStepInv ==
  ASSUME SInv, NEW n \in Nodes, SchedulerStep(n)
  PROVE  AlignKeepsCommon' /\ SchedulesInPlace' /\ NextAfterLast'
<1> USE DEF SInv, TypeOK
<1>a. Common \subseteq Handlers[n] /\ Common \subseteq Names
  BY DEF Common
<1>f. Fits(sched[n], Rows)
  BY DEF AlignKeepsCommon, SchedulesInPlace, Fits
<1>1. CASE ReadSchedules(n)
  <2>1. /\ \A m \in Nodes \ {n} : sched'[m] = sched[m]
        /\ Rows' = Rows /\ Fits(sched'[n], Rows')
    BY <1>1, <1>a, TableUntouched DEF ReadSchedules, Fits
  <2> QED
    BY <1>1, <2>1, OneNodeMoves, TableUntouched DEF ReadSchedules
<1>2. ASSUME NEW s \in Names, DeleteOld(n, s)
      PROVE  AlignKeepsCommon' /\ SchedulesInPlace' /\ NextAfterLast'
  <2>1. s \notin Common
    BY <1>2, <1>f DEF DeleteOld, Fits
  <2>2. Rows' = Rows \ {s}
    BY <1>2 DEF DeleteOld, Rows
  <2>3. /\ \A m \in Nodes \ {n} : sched'[m] = sched[m]
        /\ Fits(sched'[n], Rows')
    BY <1>2, <1>f, <2>1, <2>2 DEF DeleteOld, Fits, SchedStates
  <2>4. NextAfterLast'
    BY <1>2, <2>1 DEF DeleteOld, NextAfterLast, Common
  <2> QED
    BY <2>1, <2>2, <2>3, <2>4, OneNodeMoves
<1>3. ASSUME NEW s \in Names, InsertNew(n, s)
      PROVE  AlignKeepsCommon' /\ SchedulesInPlace' /\ NextAfterLast'
  <2>1. nextRun'[s] = NextRun(n, s, now) /\ lastRan'[s] = now /\ now \in Nat
    BY <1>3 DEF InsertNew, Inserted
  <2>2. \A r \in Names \ {s} : nextRun'[r] = nextRun[r] /\ lastRan'[r] = lastRan[r]
    BY <1>3 DEF InsertNew, Inserted
  <2>3. Rows \subseteq Rows' /\ (s \in Common => s \in Rows')
    BY <1>3, <2>1, <2>2, NextRunIsLater DEF InsertNew, Rows
  <2>4. /\ \A m \in Nodes \ {n} : sched'[m] = sched[m]
        /\ Fits(sched'[n], Rows')
    BY <1>3, <1>f, <2>3 DEF InsertNew, Inserted, Fits, SchedStates
  <2>5. NextAfterLast'
    BY <1>a, <2>1, <2>2, NextRunIsLater DEF NextAfterLast
  <2> QED
    BY <2>3, <2>4, <2>5, OneNodeMoves
<1>4. CASE InsertConflict(n)
  <2>1. /\ \A m \in Nodes \ {n} : sched'[m] = sched[m]
        /\ Rows' = Rows /\ Fits(sched'[n], Rows')
    BY <1>4, TableUntouched DEF InsertConflict, Off, Fits
  <2> QED
    BY <1>4, <2>1, OneNodeMoves, TableUntouched DEF InsertConflict
<1>5. CASE Aligned(n)
  <2>1. /\ \A m \in Nodes \ {n} : sched'[m] = sched[m]
        /\ Rows' = Rows /\ Fits(sched'[n], Rows')
    BY <1>5, <1>f, TableUntouched DEF Aligned, Fits
  <2> QED
    BY <1>5, <2>1, OneNodeMoves, TableUntouched DEF Aligned
<1>6. CASE SelectDue(n)
  <2>1. /\ \A m \in Nodes \ {n} : sched'[m] = sched[m]
        /\ Rows' = Rows /\ sched'[n].pc = "loop"
    BY <1>6, TableUntouched DEF SelectDue, SchedStates
  <2> QED
    BY <1>6, <1>f, <2>1, OneNodeMoves, TableUntouched DEF SelectDue, Fits
<1>7. ASSUME NEW s \in Names, ReadClock(n, s)
      PROVE  AlignKeepsCommon' /\ SchedulesInPlace' /\ NextAfterLast'
  <2>1. /\ \A m \in Nodes \ {n} : sched'[m] = sched[m]
        /\ Rows' = Rows /\ sched'[n].pc = "update"
    BY <1>7, TableUntouched DEF ReadClock, SchedStates
  <2> QED
    BY <1>7, <1>f, <2>1, OneNodeMoves, TableUntouched DEF ReadClock, Fits
<1>8. CASE Bump(n)
  <2> DEFINE s == sched[n].job
             t == sched[n].at
  <2>1. s \in Names /\ t \in Nat
    BY <1>8 DEF Bump, SchedStates
  <2>2. /\ \A m \in Nodes \ {n} : sched'[m] = sched[m]
        /\ sched'[n].pc \in {"loop", "enqueue"}
    BY <1>8 DEF Bump, SchedStates
  <2>3. CASE ~StillDue(n)
    BY <1>8, <1>f, <2>2, <2>3, OneNodeMoves, TableUntouched DEF Bump, Fits
  <2>4. CASE StillDue(n)
    <3>1. nextRun'[s] = NextRun(n, s, t) /\ lastRan'[s] = t
      BY <1>8, <2>1, <2>4 DEF Bump
    <3>2. \A r \in Names \ {s} : nextRun'[r] = nextRun[r] /\ lastRan'[r] = lastRan[r]
      BY <1>8, <2>4 DEF Bump
    <3>3. Common \cap Rows \subseteq Rows'
      BY <1>a, <2>1, <3>1, <3>2, NextRunIsLater DEF Rows
    <3>4. NextAfterLast'
      BY <1>a, <2>1, <3>1, <3>2, NextRunIsLater DEF NextAfterLast
    <3>5. Fits(sched'[n], Rows')
      BY <1>8, <1>f, <2>2, <3>3 DEF Bump, Fits
    <3> QED
      BY <2>2, <3>3, <3>4, <3>5, OneNodeMoves
  <2> QED
    BY <2>3, <2>4
<1>9. CASE EnqueueDue(n)
  <2>1. /\ \A m \in Nodes \ {n} : sched'[m] = sched[m]
        /\ Rows' = Rows /\ sched'[n].pc = "loop"
    BY <1>9, TableUntouched DEF EnqueueDue, SchedStates
  <2> QED
    BY <1>9, <1>f, <2>1, OneNodeMoves, TableUntouched DEF EnqueueDue, Fits
<1> QED
  BY <1>1, <1>2, <1>3, <1>4, <1>5, <1>6, <1>7, <1>8, <1>9 DEF SchedulerStep

\* Every step keeps the invariant.
LEMMA SInvStep == SInv /\ [Next]_vars => SInv'
<1> SUFFICES ASSUME SInv, [Next]_vars
             PROVE  AlignKeepsCommon' /\ SchedulesInPlace' /\ NextAfterLast'
  BY TypesStep DEF SInv
<1>1. CASE UNCHANGED <<nextRun, lastRan, sched>>
  BY <1>1, TableUntouched DEF SInv, AlignKeepsCommon, SchedulesInPlace
<1>2. ASSUME NEW n \in Nodes, StartJob(n) \/ Down(n)
      PROVE  AlignKeepsCommon' /\ SchedulesInPlace' /\ NextAfterLast'
  <2>1. /\ \A m \in Nodes \ {n} : sched'[m] = sched[m]
        /\ Rows' = Rows /\ Fits(sched'[n], Rows')
    BY <1>2, TableUntouched DEF SInv, TypeOK, StartJob, Down, Off, Fits
  <2> QED
    BY <1>2, <2>1, OneNodeMoves, TableUntouched DEF StartJob, Down
<1> QED
  BY <1>1, <1>2, SchedulerStepInv DEF Next, vars, schedVars, Tick, QueueStep

\* The invariant holds in every reachable state.
LEMMA SInvAlways == Spec => []SInv
BY SInvInit, SInvStep, PTL DEF Spec

\* A node that runs its loop can rely on the table to have every schedule that
\* all versions have, whatever versions start, insert and delete around it.
THEOREM InPlaceAlways == Spec => []SchedulesInPlace
<1>1. SInv => SchedulesInPlace
  BY DEF SInv
<1> QED
  BY <1>1, SInvAlways, PTL

\* A time in an interval after that of the last run.
LEMMA LaterInterval ==
  ASSUME NEW t \in Int, NEW u \in Int,
         Interval * (t \div Interval) + Interval <= u
  PROVE  u \div Interval > t \div Interval
BY PastTheEnd, SchedulerAssumption

\* Of a schedule that all versions have, no two runs are enqueued in the same
\* interval, however many nodes find it due.
THEOREM OneRunPerInterval == Spec => OncePerInterval
<1>1. ASSUME SInv, [Next]_vars, NEW s \in Common, lastRan'[s] # lastRan[s]
      PROVE  lastRan'[s] \div Interval > lastRan[s] \div Interval
  <2> USE DEF SInv, TypeOK
  <2>1. s \in Names /\ lastRan[s] \in Int /\ nextRun[s] \in Int
    BY <1>1 DEF Common
  <2>2. PICK n \in Nodes : Bump(n) \/ \E r \in Names : InsertNew(n, r)
    BY <1>1 DEF Next, vars, schedVars, Tick, QueueStep, StartJob, Down, SchedulerStep,
                ReadSchedules, DeleteOld, InsertConflict, Aligned, SelectDue, ReadClock,
                EnqueueDue
  <2>3. CASE Bump(n)
    <3>1. /\ sched[n].job = s /\ lastRan'[s] = sched[n].at
          /\ nextRun[s] # Absent /\ nextRun[s] < sched[n].at /\ sched[n].at \in Int
      BY <1>1, <2>1, <2>3 DEF Bump, StillDue, Rows, SchedStates
    <3>2. Interval * (lastRan[s] \div Interval) + Interval <= nextRun[s]
      BY <1>1, <3>1 DEF NextAfterLast
    <3>3. Interval * (lastRan[s] \div Interval) + Interval <= sched[n].at
      <4>1. Interval * (lastRan[s] \div Interval) \in Int
        BY <2>1, DivBounds, SchedulerAssumption
      <4> QED
        BY <2>1, <3>1, <3>2, <4>1, SchedulerAssumption
    <3> QED
      BY <2>1, <3>1, <3>3, LaterInterval
  <2>4. CASE \E r \in Names : InsertNew(n, r)
    <3>1. lastRan'[s] = now /\ nextRun[s] = Absent /\ now \in Int /\ 0 <= now
      BY <1>1, <2>1, <2>4 DEF InsertNew, Inserted
    <3>2. lastRan[s] = -Interval
      BY <1>1, <3>1 DEF NextAfterLast
    <3>3. Interval * (lastRan[s] \div Interval) + Interval <= now
      BY <3>1, <3>2, FirstInterval
    <3> QED
      BY <2>1, <3>1, <3>3, LaterInterval
  <2> QED
    BY <2>2, <2>3, <2>4
<1>2. SInv /\ [Next]_vars =>
        [\A s \in Common :
           lastRan'[s] # lastRan[s] =>
             lastRan'[s] \div Interval > lastRan[s] \div Interval]_vars
  BY <1>1
<1> QED
  BY <1>2, SInvAlways, PTL DEF Spec, OncePerInterval

-----------------------------------------------------------------------------
(* The queue *)

\* The schedulers do nothing to the queue but enqueue, and go down with it.
LEMMA QueueSimulated == TypeOK /\ [Next]_vars => [QueueNext]_queueVars
<1> SUFFICES ASSUME TypeOK, Next, ~UNCHANGED queueVars
             PROVE  QueueNext
  BY DEF vars
<1>1. ASSUME NEW n \in Nodes, EnqueueDue(n)
      PROVE  QueueNext
  <2>1. sched[n].job \in Names
    BY <1>1 DEF TypeOK, SchedStates, EnqueueDue
  <2> QED
    BY <1>1, <2>1 DEF EnqueueDue, QueueNext
<1>2. ASSUME NEW n \in Nodes, InsertConflict(n)
      PROVE  QueueNext
  BY <1>2 DEF InsertConflict, QueueNext
<1>3. ASSUME NEW n \in Nodes, StartJob(n) \/ Down(n) \/ QueueStep(n)
      PROVE  QueueNext
  BY <1>3 DEF StartJob, Down, QueueStep, QueueNext
<1>4. ASSUME NEW n \in Nodes, SchedulerStep(n), ~EnqueueDue(n), ~InsertConflict(n)
      PROVE  UNCHANGED queueVars
  BY <1>4 DEF SchedulerStep, ReadSchedules, Aligned, SelectDue, Bump, DeleteOld,
              InsertNew, ReadClock
<1>5. CASE Tick
  BY <1>5 DEF Tick
<1> QED
  BY <1>1, <1>2, <1>3, <1>4, <1>5 DEF Next

\* Beside the schedulers the queue is the queue: what is proved of it holds here.
THEOREM SchedulerKeepsQueue == Spec => QueueSpec
<1>1. Init => QueueInit
  BY DEF Init
<1>2. TypeOK /\ [Next]_vars => [QueueNext]_queueVars
  BY QueueSimulated
<1> QED
  BY <1>1, <1>2, TypeCorrect, PTL DEF Spec, QueueSpec

\* With schedulers on every node, a job is in the table, with one node, or over.
THEOREM JobsStayInOnePlace == Spec => []EachJobInOnePlace
BY SchedulerKeepsQueue, JobsInOnePlace

\* With schedulers on every node, the loops deliver every job at most once.
THEOREM SchedulerDelivers == Spec => ImplementsDelivery
BY SchedulerKeepsQueue, QueueDelivers
=============================================================================
