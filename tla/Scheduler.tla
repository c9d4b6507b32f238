------------------------------- MODULE Scheduler -------------------------------
(***************************************************************************)
(* lib/scheduler.go beside the queue: on every node a second goroutine     *)
(* that brings app_schedules in line with the program's schedules, then    *)
(* enqueues what is due.  All nodes share the table, and nodes of an older *)
(* or newer version of the program may be among them.                      *)
(*                                                                         *)
(* A statement is a step; the clock may move between any two, also between *)
(* the reading of the time for an update and the update itself.  Every     *)
(* schedule of the program has the same interval.                          *)
(***************************************************************************)
EXTENDS JobQueue, Integers

CONSTANTS
  Interval,   \* time units of the interval, an hour
  MaxTime     \* bound on the clock

ASSUME SchedulerAssumption ==
  /\ Interval \in Nat \ {0}
  /\ MaxTime \in Nat

VARIABLES
  now,       \* time.Now()
  nextRun,   \* app_schedules: next_run, Absent without a row
  lastRan,   \* app_schedules: last_ran
  sched      \* [Nodes]: the scheduler's goroutine

schedVars == <<now, nextRun, lastRan, sched>>
vars == <<queueVars, schedVars>>

Absent == -1
Off == [pc |-> "off"]
Rows == {s \in Names : nextRun[s] # Absent}

\* A name is a schedule of every version or of the nodes' own.
Common == {s \in Names : \A n \in Nodes : s \in Handlers[n]}

-----------------------------------------------------------------------------
(* Times *)

\* globalSchedules[id] is zero for a name that is not registered.
IntervalAt(n, s) == IF s \in Handlers[n] THEN Interval ELSE 0

\* time.Round: to the nearest multiple, halves up.
Round(t, d) == IF d = 0 THEN t ELSE ((2 * t + d) \div (2 * d)) * d

NextRun(n, s, t) == Round(t + IntervalAt(n, s), IntervalAt(n, s))

-----------------------------------------------------------------------------
(* Bringing the table in line *)

\* "select * from app_schedules"
ReadSchedules(n) ==
  /\ sched[n].pc = "read"
  /\ sched' = [sched EXCEPT ![n] =
       [pc |-> "align", drop |-> Rows \ Handlers[n], add |-> Handlers[n] \ Rows]]
  /\ UNCHANGED <<now, nextRun, lastRan, queueVars>>

DeleteOld(n, s) ==
  /\ sched[n].pc = "align" /\ s \in sched[n].drop
  /\ nextRun' = [nextRun EXCEPT ![s] = Absent]
  /\ sched' = [sched EXCEPT ![n].drop = @ \ {s}]
  /\ UNCHANGED <<now, lastRan, queueVars>>

\* Mutant: a schedule that is not in the table is left to the next start.
NotInserted(n, s) ==
  /\ UNCHANGED <<nextRun, lastRan>>
  /\ sched' = [sched EXCEPT ![n].add = @ \ {s}]

Inserted(n, s) ==
  /\ nextRun' = [nextRun EXCEPT ![s] = NextRun(n, s, now)]
  /\ lastRan' = [lastRan EXCEPT ![s] = now]
  /\ sched' = [sched EXCEPT ![n].add = @ \ {s}]

InsertNew(n, s) ==
  /\ sched[n].pc = "align" /\ sched[n].drop = {} /\ s \in sched[n].add
  /\ nextRun[s] = Absent
  /\ Inserted(n, s)
  /\ UNCHANGED <<now, queueVars>>

\* Another node has inserted it: the error is a panic, and the process ends.
InsertConflict(n) ==
  /\ sched[n].pc = "align" /\ sched[n].drop = {}
  /\ \E s \in sched[n].add : nextRun[s] # Absent
  /\ Panic(n)
  /\ sched' = [sched EXCEPT ![n] = Off]
  /\ UNCHANGED <<now, nextRun, lastRan>>

Aligned(n) ==
  /\ sched[n].pc = "align" /\ sched[n].drop = {} /\ sched[n].add = {}
  /\ sched' = [sched EXCEPT ![n] = [pc |-> "loop", due |-> {}]]
  /\ UNCHANGED <<now, nextRun, lastRan, queueVars>>

-----------------------------------------------------------------------------
(* The loop *)

\* Scheduler.Stop comes after Queue.Stop has waited for the queue's loop.
Stopped(n) == node[n] = "stopping" /\ loop[n].pc = "ended"

\* "select * from app_schedules where next_run < $1"
SelectDue(n) ==
  /\ sched[n].pc = "loop" /\ sched[n].due = {} /\ ~Stopped(n)
  /\ sched' = [sched EXCEPT ![n].due = {s \in Rows : nextRun[s] < now}]
  /\ UNCHANGED <<now, nextRun, lastRan, queueVars>>

\* The arguments of the update.
ReadClock(n, s) ==
  /\ sched[n].pc = "loop" /\ s \in sched[n].due
  /\ sched' = [sched EXCEPT ![n] =
       [pc |-> "update", due |-> @.due \ {s}, job |-> s, at |-> now]]
  /\ UNCHANGED <<now, nextRun, lastRan, queueVars>>

\* Mutants: the row was due when it was selected; the comparison is turned.
StillThere(n) == sched[n].job \in Rows

NotYetDue(n) == sched[n].job \in Rows /\ nextRun[sched[n].job] > sched[n].at

StillDue(n) == sched[n].job \in Rows /\ nextRun[sched[n].job] < sched[n].at

\* "update … where id = $1 and next_run < $2 returning *"
Bump(n) ==
  /\ sched[n].pc = "update"
  /\ IF StillDue(n)
     THEN LET s == sched[n].job
          IN /\ nextRun' = [nextRun EXCEPT ![s] = NextRun(n, s, sched[n].at)]
             /\ lastRan' = [lastRan EXCEPT ![s] = sched[n].at]
             /\ sched' = [sched EXCEPT ![n] =
                            [pc |-> "enqueue", due |-> @.due, job |-> s]]
     ELSE /\ sched' = [sched EXCEPT ![n] = [pc |-> "loop", due |-> @.due]]
          /\ UNCHANGED <<nextRun, lastRan>>
  /\ UNCHANGED <<now, queueVars>>

\* "We were the node to bump the next_run, execute job"
EnqueueDue(n) ==
  /\ sched[n].pc = "enqueue"
  /\ Enqueue(sched[n].job)
  /\ sched' = [sched EXCEPT ![n] = [pc |-> "loop", due |-> @.due]]
  /\ UNCHANGED <<now, nextRun, lastRan>>

-----------------------------------------------------------------------------
(* Composition with the queue and the processes *)

\* The start job starts both goroutines.
StartJob(n) ==
  /\ Start(n)
  /\ sched' = [sched EXCEPT ![n] = [pc |-> "read"]]
  /\ UNCHANGED <<now, nextRun, lastRan>>

Down(n) ==
  /\ Crash(n) \/ Exit(n)
  /\ sched' = [sched EXCEPT ![n] = Off]
  /\ UNCHANGED <<now, nextRun, lastRan>>

QueueStep(n) ==
  /\ QueueLoop(n) \/ Signal(n)
  /\ UNCHANGED schedVars

Tick ==
  /\ now < MaxTime
  /\ now' = now + 1
  /\ UNCHANGED <<nextRun, lastRan, sched, queueVars>>

Init ==
  /\ QueueInit
  /\ now = 0
  /\ nextRun \in [Names -> {Absent, 0}]   \* at first, or after a long stop
  /\ lastRan = [s \in Names |-> -Interval]
  /\ sched = [n \in Nodes |-> Off]

SchedulerStep(n) ==
  \/ ReadSchedules(n) \/ InsertConflict(n) \/ Aligned(n)
  \/ SelectDue(n) \/ Bump(n) \/ EnqueueDue(n)
  \/ \E s \in Names : DeleteOld(n, s) \/ InsertNew(n, s) \/ ReadClock(n, s)

Next ==
  \/ Tick
  \/ \E n \in Nodes : SchedulerStep(n) \/ StartJob(n) \/ Down(n) \/ QueueStep(n)

Spec == Init /\ [][Next]_vars

\* The scheduler's goroutine goes on, and time does.
FairSpec ==
  Spec /\ WF_vars(Tick) /\ \A n \in Nodes : WF_vars(SchedulerStep(n))

-----------------------------------------------------------------------------
(* Properties *)

SchedStates ==
  [pc : {"off", "read"}]
    \cup [pc : {"align"}, drop : SUBSET Names, add : SUBSET Names]
    \cup [pc : {"loop"}, due : SUBSET Names]
    \cup [pc : {"update"}, due : SUBSET Names, job : Names, at : 0..MaxTime]
    \cup [pc : {"enqueue"}, due : SUBSET Names, job : Names]

\* Types of the state.  A node's two goroutines live and end together.
TypeOK ==
  /\ QueueTypeOK
  /\ now \in 0..MaxTime
  /\ nextRun \in [Names -> Int] /\ lastRan \in [Names -> Int]
  /\ sched \in [Nodes -> SchedStates]
  /\ \A n \in Nodes : node[n] = "down" <=> sched[n].pc = "off"

\* However many nodes find a schedule due, at whatever pace: of the schedules
\* all versions have, one run is enqueued in an hour at most.
OncePerInterval ==
  [][\A s \in Common :
       lastRan'[s] # lastRan[s] =>
         lastRan'[s] \div Interval > lastRan[s] \div Interval]_vars

\* A node whose loop has begun can rely on the table: every schedule that all
\* versions have is there, though nodes delete, insert and crash around it.
SchedulesInPlace ==
  \A n \in Nodes :
    sched[n].pc \in {"loop", "update", "enqueue"} => Common \subseteq Rows

\* A schedule that is due is bumped, while a node that is up goes on.
DueIsServed ==
  \A s \in Common :
    nextRun[s] # Absent /\ nextRun[s] < now
      ~> nextRun[s] >= now \/ \A n \in Nodes : node[n] # "up"
=============================================================================
