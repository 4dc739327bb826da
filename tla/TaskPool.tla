------------------------------ MODULE TaskPool ------------------------------
(***************************************************************************)
(* What plotter/scheduler.h promises to the code that uses it, without the *)
(* two vectors it keeps: a pool of pending tasks, one of which at a time   *)
(* is being executed by run().  The task run() starts next is the least    *)
(* one in the order "earlier deadline, then smaller priority, then         *)
(* submitted first"; it never starts before its deadline; it leaves the    *)
(* pool when it starts, so it is executed once; and run() returns only     *)
(* when the pool is empty.                                                 *)
(***************************************************************************)
EXTENDS Integers

CONSTANTS
  Priorities,   \* values of struct priority
  Delays,       \* the delays a caller passes, negative ones included
  StartTime,    \* reading of the steady clock when the program starts
  MaxTasks,     \* bound: tasks submitted in a behaviour
  MaxTime       \* bound: last reading of the steady clock

Epoch == 0      \* clock::time_point{}: "as soon as possible"

Ids   == 1 .. MaxTasks
Time  == 0 .. MaxTime
Tasks == [id : Ids, prio : Priorities, when : Time]

(***************************************************************************)
(* A zero delay asks for the epoch, any other one for an instant relative  *)
(* to the clock.                                                           *)
(***************************************************************************)
Deadline(t, d) == IF d = 0 THEN Epoch ELSE t + d

(***************************************************************************)
(* The order in which pending tasks are executed.                          *)
(***************************************************************************)
Precedes(a, b) ==
  \/ a.when < b.when
  \/ a.when = b.when /\ a.prio < b.prio
  \/ a.when = b.when /\ a.prio = b.prio /\ a.id < b.id

VARIABLES
  now,       \* the steady clock
  nextId,    \* the number the next submitted task gets
  running,   \* run() has been called and has not returned
  pending,   \* the tasks submitted and not started
  current    \* the task being executed: a set of at most one task

vars == <<now, nextId, running, pending, current>>

TypeOK ==
  /\ now \in Time
  /\ nextId \in 1 .. MaxTasks + 1
  /\ running \in BOOLEAN
  /\ pending \subseteq Tasks
  /\ current \subseteq Tasks

Init ==
  /\ now = StartTime
  /\ nextId = 1
  /\ running = FALSE
  /\ pending = {}
  /\ current = {}

(***************************************************************************)
(* The program submits a task, from outside run() or from the task that    *)
(* run() is executing: there is one thread.                                *)
(***************************************************************************)
Submit ==
  /\ running => current # {}
  /\ nextId <= MaxTasks
  /\ \E p \in Priorities, d \in Delays :
       /\ Deadline(now, d) <= MaxTime
       /\ pending' = pending \cup {[id |-> nextId, prio |-> p, when |-> Deadline(now, d)]}
  /\ nextId' = nextId + 1
  /\ UNCHANGED <<now, running, current>>

Begin ==
  /\ ~ running
  /\ running' = TRUE
  /\ UNCHANGED <<now, nextId, pending, current>>

Start ==
  /\ running
  /\ current = {}
  /\ \E t \in pending :
       /\ \A u \in pending \ {t} : Precedes(t, u)
       /\ now' \in Time
       /\ now' >= now
       /\ now' >= t.when
       /\ current' = {t}
       /\ pending' = pending \ {t}
  /\ UNCHANGED <<nextId, running>>

Finish ==
  /\ current # {}
  /\ current' = {}
  /\ UNCHANGED <<now, nextId, running, pending>>

Return ==
  /\ running
  /\ current = {}
  /\ pending = {}
  /\ running' = FALSE
  /\ UNCHANGED <<now, nextId, pending, current>>

Tick ==
  /\ now < MaxTime
  /\ now' = now + 1
  /\ UNCHANGED <<nextId, running, pending, current>>

Next == Submit \/ Begin \/ Start \/ Finish \/ Return \/ Tick

Spec == Init /\ [][Next]_vars
=============================================================================
