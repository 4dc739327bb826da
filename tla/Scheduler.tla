------------------------------ MODULE Scheduler -----------------------------
(***************************************************************************)
(* class Scheduler of plotter/scheduler.h: a single-threaded cooperative   *)
(* scheduler.  schedule() appends a task to the vector updates_; run()     *)
(* repeats: sort updates_ and merge it into the sorted vector schedule_,   *)
(* execute the first task (sleeping until it is due if need be), erase it. *)
(* The task being executed stays at the head of schedule_ and may itself   *)
(* call schedule().                                                        *)
(*                                                                         *)
(* TaskPool states what this adds up to for a caller; Pool!Spec below is   *)
(* that contract under the refinement mapping.                             *)
(***************************************************************************)
EXTENDS Integers, Sequences, Functions

CONSTANTS
  Priorities,   \* values of struct priority used by callers
  Delays,       \* the delays callers pass, negative ones included
  StartTime,    \* reading of the steady clock when the program starts
  MaxTasks,     \* bound: tasks submitted in a behaviour
  MaxTime       \* bound: last reading of the steady clock

(***************************************************************************)
(* The machine has been up for longer than any negative delay, so that no  *)
(* deadline falls on or before the clock's epoch.                          *)
(***************************************************************************)
ASSUME SchedulerAssumption ==
  /\ Priorities \subseteq Int
  /\ Delays \subseteq Int
  /\ MaxTasks \in Nat
  /\ MaxTime \in Nat
  /\ StartTime \in 0 .. MaxTime
  /\ \A d \in Delays : StartTime + d > 0

Epoch == 0

Ids   == 1 .. MaxTasks
Time  == 0 .. MaxTime
Tasks == [id : Ids, prio : Priorities, when : Time]

VARIABLES
  now,        \* clock::now()
  schedule_,  \* sorted; while a callback runs its task is the first element
  updates_,   \* tasks scheduled since the last refresh()
  pc,         \* where run() is; "idle": not called, or returned
  nextId      \* ghost: numbers the tasks in the order of submission

vars == <<now, schedule_, updates_, pc, nextId>>

(***************************************************************************)
(* compare_tasks.                                                          *)
(***************************************************************************)
CompareTasks(a, b) == IF a.when = b.when THEN a.prio < b.prio ELSE a.when < b.when

\* Mutant of StableSorts: std::sort, which may reorder equal elements.
UnstableSorts(s) ==
  {[i \in DOMAIN s |-> s[p[i]]] :
     p \in {f \in [DOMAIN s -> DOMAIN s] :
              /\ Range(f) = DOMAIN s
              /\ \A i, j \in DOMAIN s : i < j =>
                    ~ CompareTasks(s[f[j]], s[f[i]])}}

(***************************************************************************)
(* The result of a stable sort of s: a rearrangement with no inversion in  *)
(* which elements that compare equal keep their order.  For every s there  *)
(* is exactly one; std::stable_sort computes it, and so does               *)
(* std::inplace_merge when both halves are sorted already.                 *)
(***************************************************************************)
StableSorts(s) ==
  {[i \in DOMAIN s |-> s[p[i]]] :
     p \in {f \in [DOMAIN s -> DOMAIN s] :
              /\ Range(f) = DOMAIN s
              /\ \A i, j \in DOMAIN s : i < j =>
                    \/ CompareTasks(s[f[i]], s[f[j]])
                    \/ ~ CompareTasks(s[f[j]], s[f[i]]) /\ f[i] < f[j]}}

Deadline(t, d) == IF d = 0 THEN Epoch ELSE t + d

-----------------------------------------------------------------------------
Init ==
  /\ now = StartTime
  /\ schedule_ = <<>>
  /\ updates_ = <<>>
  /\ pc = "idle"
  /\ nextId = 1

\* Mutant of Schedule: the task is inserted in front of the updates.
SchedulePushFront(p, d) ==
  /\ pc \in {"idle", "callback"}
  /\ nextId <= MaxTasks
  /\ Deadline(now, d) <= MaxTime
  /\ updates_' = <<[id |-> nextId, prio |-> p, when |-> Deadline(now, d)]>> \o updates_
  /\ nextId' = nextId + 1
  /\ UNCHANGED <<now, schedule_, pc>>

(***************************************************************************)
(* schedule(p, after_this_time, f), called before run() or by the callback *)
(* being executed.                                                         *)
(***************************************************************************)
Schedule(p, d) ==
  /\ pc \in {"idle", "callback"}
  /\ nextId <= MaxTasks
  /\ Deadline(now, d) <= MaxTime
  /\ updates_' = Append(updates_, [id |-> nextId, prio |-> p, when |-> Deadline(now, d)])
  /\ nextId' = nextId + 1
  /\ UNCHANGED <<now, schedule_, pc>>

(***************************************************************************)
(* run() is called.                                                        *)
(***************************************************************************)
Run ==
  /\ pc = "idle"
  /\ pc' = "refresh"
  /\ UNCHANGED <<now, schedule_, updates_, nextId>>

\* Mutant of Refresh: the sorted updates are appended and not merged.
RefreshWithoutMerge ==
  /\ pc = "refresh"
  /\ \E sorted \in StableSorts(updates_) : schedule_' = schedule_ \o sorted
  /\ updates_' = <<>>
  /\ pc' = IF schedule_' = <<>> THEN "idle" ELSE "pick"
  /\ UNCHANGED <<now, nextId>>

(***************************************************************************)
(* refresh(), and the end of run() when it returns false.                  *)
(***************************************************************************)
Refresh ==
  /\ pc = "refresh"
  /\ \E sorted \in StableSorts(updates_) : schedule_' \in StableSorts(schedule_ \o sorted)
  /\ updates_' = <<>>
  /\ pc' = IF schedule_' = <<>> THEN "idle" ELSE "pick"
  /\ UNCHANGED <<now, nextId>>

(***************************************************************************)
(* The head is an immediate task or its deadline has passed: call it now.  *)
(***************************************************************************)
Overdue(task) == task.when = Epoch \/ task.when < now

RunOverdue ==
  /\ pc = "pick"
  /\ Overdue(Head(schedule_))
  /\ pc' = "callback"
  /\ UNCHANGED <<now, schedule_, updates_, nextId>>

(***************************************************************************)
(* Otherwise sleep until the deadline at least, then call it.              *)
(***************************************************************************)
SleepUntil ==
  /\ pc = "pick"
  /\ ~ Overdue(Head(schedule_))
  /\ now' \in Head(schedule_).when .. MaxTime
  /\ pc' = "callback"
  /\ UNCHANGED <<schedule_, updates_, nextId>>

\* Mutants of StepDone: the whole schedule is cleared; nothing is erased.
StepDoneClearsAll ==
  /\ pc = "callback"
  /\ schedule_' = <<>>
  /\ pc' = "refresh"
  /\ UNCHANGED <<now, updates_, nextId>>

StepDoneKeepsHead ==
  /\ pc = "callback"
  /\ pc' = "refresh"
  /\ UNCHANGED <<now, schedule_, updates_, nextId>>

(***************************************************************************)
(* The callback and the after-step callback return; the task is erased.    *)
(***************************************************************************)
StepDone ==
  /\ pc = "callback"
  /\ schedule_' = Tail(schedule_)
  /\ pc' = "refresh"
  /\ UNCHANGED <<now, updates_, nextId>>

(***************************************************************************)
(* Time passes, in a callback or anywhere else.                            *)
(***************************************************************************)
Tick ==
  /\ now < MaxTime
  /\ now' = now + 1
  /\ UNCHANGED <<schedule_, updates_, pc, nextId>>

RunStep == Refresh \/ RunOverdue \/ SleepUntil \/ StepDone

Next ==
  \/ \E p \in Priorities, d \in Delays : Schedule(p, d)
  \/ Run
  \/ RunStep
  \/ Tick

Spec == Init /\ [][Next]_vars

(***************************************************************************)
(* run() keeps executing: every step of it is one of a running thread, and *)
(* callbacks return (all those of the repository do).                      *)
(***************************************************************************)
FairSpec == Spec /\ WF_vars(RunStep)

-----------------------------------------------------------------------------
(***************************************************************************)
(* The refinement mapping to TaskPool.                                     *)
(***************************************************************************)
InCallback == pc = "callback"
Waiting    == IF InCallback THEN Range(Tail(schedule_)) ELSE Range(schedule_)
PendingBar == Waiting \cup Range(updates_)
CurrentBar == IF InCallback THEN {Head(schedule_)} ELSE {}

Pool == INSTANCE TaskPool WITH
          running <- pc # "idle", pending <- PendingBar, current <- CurrentBar

(***************************************************************************)
(* The scheduler implements the contract of TaskPool: whatever is          *)
(* submitted, and whenever, run() starts the least pending task in the     *)
(* order deadline, priority, submission; never early; each task once; and  *)
(* it returns only when nothing is pending.                                *)
(***************************************************************************)
ImplementsTaskPool == Pool!Spec

-----------------------------------------------------------------------------
TypeOK ==
  /\ now \in StartTime .. MaxTime
  /\ schedule_ \in Seq(Tasks)
  /\ updates_ \in Seq(Tasks)
  /\ pc \in {"idle", "refresh", "pick", "callback"}
  /\ nextId \in 1 .. MaxTasks + 1

(***************************************************************************)
(* schedule_ is strictly sorted by deadline, priority and submission at    *)
(* every point of run().  refresh() depends on it: std::inplace_merge is   *)
(* defined only when the old tasks are sorted, and callbacks that submit   *)
(* tasks, or a clock that has moved, must not invalidate that.             *)
(***************************************************************************)
ScheduleSorted ==
  \A i, j \in DOMAIN schedule_ : i < j => Pool!Precedes(schedule_[i], schedule_[j])

(***************************************************************************)
(* The updates are numbered in the order of submission, all of them after  *)
(* every task in the schedule: what makes the two stable passes of         *)
(* refresh() first-in first-out among equals.                              *)
(***************************************************************************)
UpdatesInOrder ==
  /\ \A i, j \in DOMAIN updates_ : i < j => updates_[i].id < updates_[j].id
  /\ \A t \in Range(schedule_), u \in Range(updates_) : t.id < u.id

(***************************************************************************)
(* Task numbers in use are below the next one; the head exists while it is *)
(* picked or executed; nothing is left over between two calls of run() and *)
(* no update is left over when the head is picked.                         *)
(***************************************************************************)
Bookkeeping ==
  /\ \A t \in Range(schedule_) \cup Range(updates_) : t.id < nextId
  /\ pc \in {"pick", "callback"} => schedule_ # <<>>
  /\ pc = "idle" => schedule_ = <<>>
  /\ pc = "pick" => updates_ = <<>>

IInv == TypeOK /\ ScheduleSorted /\ UpdatesInOrder /\ Bookkeeping

-----------------------------------------------------------------------------
(***************************************************************************)
(* Every task pending while run() runs is eventually executed.  A task     *)
(* that is not due competes with immediate ones, so this rests on MaxTasks *)
(* being finite: callbacks that resubmit themselves with no delay starve   *)
(* every timed task.                                                       *)
(***************************************************************************)
IsCurrent(id) == InCallback /\ Head(schedule_).id = id

EveryTaskRuns ==
  \A id \in Ids :
    (pc # "idle" /\ \E t \in PendingBar : t.id = id) ~> IsCurrent(id)

(***************************************************************************)
(* run() returns once the program stops submitting tasks, whatever their   *)
(* deadlines are.                                                          *)
(***************************************************************************)
RunReturns == (pc # "idle") ~> (pc = "idle")

=============================================================================
