--------------------------- MODULE SchedulerProofs --------------------------
(***************************************************************************)
(* Proofs about class Scheduler: the inductive invariant IInv, and that    *)
(* Scheduler implements TaskPool, for every set of priorities and delays   *)
(* and any number of tasks.                                                *)
(***************************************************************************)
EXTENDS Scheduler, SequenceTheorems, TLAPS

(***************************************************************************)
(* What a stable sort of s keeps and establishes.  FifoIn(s) says that     *)
(* elements of s comparing equal stand in the order of their numbers.      *)
(***************************************************************************)
FifoIn(s) ==
  \A i, j \in DOMAIN s :
    i < j /\ ~ CompareTasks(s[i], s[j]) /\ ~ CompareTasks(s[j], s[i]) => s[i].id < s[j].id

Sorted(s) == \A i, j \in DOMAIN s : i < j => Pool!Precedes(s[i], s[j])

LEMMA TaskFields ==
  ASSUME NEW t \in Tasks
  PROVE  t.id \in Int /\ t.prio \in Int /\ t.when \in Nat
<1>1. t.id \in Int
  BY SchedulerAssumption DEF Tasks, Ids
<1>2. t.prio \in Int
  BY SchedulerAssumption DEF Tasks
<1>3. t.when \in Nat
  BY SchedulerAssumption DEF Tasks, Time
<1>4. QED
  BY <1>1, <1>2, <1>3

LEMMA SeqElements ==
  ASSUME NEW s \in Seq(Tasks), NEW i \in DOMAIN s
  PROVE  s[i] \in Tasks
OBVIOUS

(***************************************************************************)
(* A stable sort keeps the length and the elements, and a stable sort of a *)
(* sequence that is first-in first-out among equals is strictly sorted in  *)
(* the order of TaskPool.                                                  *)
(***************************************************************************)
LEMMA StableSortIsSorted ==
  ASSUME NEW s \in Seq(Tasks), FifoIn(s), NEW r \in StableSorts(s)
  PROVE  /\ r \in Seq(Tasks)
         /\ DOMAIN r = DOMAIN s
         /\ Range(r) = Range(s)
         /\ Sorted(r)
<1>1. PICK p \in [DOMAIN s -> DOMAIN s] :
        /\ Range(p) = DOMAIN s
        /\ \A i, j \in DOMAIN s : i < j =>
              \/ CompareTasks(s[p[i]], s[p[j]])
              \/ ~ CompareTasks(s[p[j]], s[p[i]]) /\ p[i] < p[j]
        /\ r = [i \in DOMAIN s |-> s[p[i]]]
  BY DEF StableSorts
<1>2. DOMAIN r = DOMAIN s
  BY <1>1
<1>3. r \in Seq(Tasks)
  BY <1>1
<1>4. Range(r) = Range(s)
  BY <1>1 DEF Range
<1>5. ASSUME NEW i \in DOMAIN s, NEW j \in DOMAIN s, i < j
      PROVE  Pool!Precedes(r[i], r[j])
  <2>1. /\ r[i] = s[p[i]] /\ r[j] = s[p[j]]
        /\ p[i] \in DOMAIN s /\ p[j] \in DOMAIN s
        /\ r[i] \in Tasks /\ r[j] \in Tasks
    BY <1>1
  <2>2. \/ CompareTasks(r[i], r[j])
        \/ ~ CompareTasks(r[j], r[i]) /\ p[i] < p[j]
    BY <1>1, <1>5, <2>1
  <2>3. ~ CompareTasks(r[i], r[j]) => r[i].id < r[j].id
    BY <2>1, <2>2 DEF FifoIn
  <2>4. QED
    BY <2>1, <2>2, <2>3, TaskFields DEF CompareTasks, Pool!Precedes
<1>6. QED
  BY <1>2, <1>3, <1>4, <1>5 DEF Sorted

(***************************************************************************)
(* Appending and dropping the head, as far as elements go.                 *)
(***************************************************************************)
LEMMA RangeAppend ==
  ASSUME NEW s \in Seq(Tasks), NEW t \in Tasks
  PROVE  Range(Append(s, t)) = Range(s) \cup {t}
<1>1. \A i \in DOMAIN s : Append(s, t)[i] = s[i]
  OBVIOUS
<1>2. Append(s, t)[Len(s) + 1] = t
  OBVIOUS
<1>3. DOMAIN Append(s, t) = DOMAIN s \cup {Len(s) + 1}
  OBVIOUS
<1>4. QED
  BY <1>1, <1>2, <1>3 DEF Range

LEMMA RangeTail ==
  ASSUME NEW s \in Seq(Tasks), s # <<>>
  PROVE  /\ Range(s) = {Head(s)} \cup Range(Tail(s))
         /\ Head(s) \in Tasks
         /\ Tail(s) \in Seq(Tasks)
<1>1. Head(s) \in Tasks /\ Tail(s) \in Seq(Tasks) /\ Head(s) = s[1]
  OBVIOUS
<1>2. \A i \in DOMAIN Tail(s) : Tail(s)[i] = s[i + 1] /\ i + 1 \in DOMAIN s
  OBVIOUS
<1>3. \A i \in DOMAIN s : i # 1 => i - 1 \in DOMAIN Tail(s) /\ s[i] = Tail(s)[i - 1]
  OBVIOUS
<1>4. 1 \in DOMAIN s
  OBVIOUS
<1>5. Range(s) \subseteq {Head(s)} \cup Range(Tail(s))
  <2>1. ASSUME NEW i \in DOMAIN s PROVE s[i] \in {Head(s)} \cup Range(Tail(s))
    BY <1>1, <1>3 DEF Range
  <2>2. QED
    BY <2>1 DEF Range
<1>6. {Head(s)} \cup Range(Tail(s)) \subseteq Range(s)
  BY <1>1, <1>2, <1>4 DEF Range
<1>7. QED
  BY <1>1, <1>5, <1>6

(***************************************************************************)
(* The two passes of refresh(): sort the updates, merge them in.           *)
(***************************************************************************)
LEMMA RefreshSorts ==
  ASSUME IInv, NEW sorted \in StableSorts(updates_), NEW merged \in StableSorts(schedule_ \o sorted)
  PROVE  /\ merged \in Seq(Tasks)
         /\ Range(merged) = Range(schedule_) \cup Range(updates_)
         /\ Sorted(merged)
<1> USE DEF IInv, TypeOK
<1>1. FifoIn(updates_)
  BY DEF UpdatesInOrder, FifoIn
<1>2. sorted \in Seq(Tasks) /\ Range(sorted) = Range(updates_) /\ Sorted(sorted)
  BY <1>1, StableSortIsSorted
<1> DEFINE all == schedule_ \o sorted
<1>3. all \in Seq(Tasks) /\ Range(all) = Range(schedule_) \cup Range(sorted)
  BY <1>2, RangeConcatenation
<1>4. ASSUME NEW i \in DOMAIN all, NEW j \in DOMAIN all, i < j,
             ~ CompareTasks(all[i], all[j]), ~ CompareTasks(all[j], all[i])
      PROVE  all[i].id < all[j].id
  <2>1. all[i] \in Tasks /\ all[j] \in Tasks
    BY <1>3
  <2>2. Pool!Precedes(all[i], all[j]) => all[i].id < all[j].id
    BY <1>4, <2>1, TaskFields DEF Pool!Precedes, CompareTasks
  <2>3. CASE j <= Len(schedule_)
    <3>1. i \in DOMAIN schedule_ /\ j \in DOMAIN schedule_
      BY <1>3, <1>4, <2>3, <1>2
    <3>2. all[i] = schedule_[i] /\ all[j] = schedule_[j]
      BY <3>1, <1>2
    <3>3. QED
      BY <1>4, <2>2, <3>1, <3>2 DEF ScheduleSorted
  <2>4. CASE i > Len(schedule_)
    <3>1. i - Len(schedule_) \in DOMAIN sorted /\ j - Len(schedule_) \in DOMAIN sorted
      BY <1>3, <1>4, <2>4, <1>2
    <3>2. all[i] = sorted[i - Len(schedule_)] /\ all[j] = sorted[j - Len(schedule_)]
      BY <3>1, <1>2, <1>3, <1>4, <2>4
    <3>3. i - Len(schedule_) < j - Len(schedule_)
      BY <1>4, <1>3
    <3>4. QED
      BY <1>2, <2>2, <3>1, <3>2, <3>3 DEF Sorted
  <2>5. CASE i <= Len(schedule_) /\ j > Len(schedule_)
    <3>1. i \in DOMAIN schedule_ /\ j - Len(schedule_) \in DOMAIN sorted
      BY <1>3, <1>4, <2>5, <1>2
    <3>2. all[i] = schedule_[i] /\ all[j] = sorted[j - Len(schedule_)]
      BY <3>1, <1>2, <1>3, <1>4, <2>5
    <3>3. all[i] \in Range(schedule_) /\ all[j] \in Range(updates_)
      BY <1>2, <3>1, <3>2 DEF Range
    <3>4. QED
      BY <3>3 DEF UpdatesInOrder
  <2>6. QED
    BY <1>3, <1>4, <2>3, <2>4, <2>5, <1>2
<1>5. FifoIn(all)
  BY <1>4 DEF FifoIn
<1>6. merged \in Seq(Tasks) /\ Range(merged) = Range(all) /\ Sorted(merged)
  BY <1>3, <1>5, StableSortIsSorted
<1>7. QED
  BY <1>2, <1>3, <1>6

-----------------------------------------------------------------------------
(***************************************************************************)
(* The inductive invariant, action by action.                              *)
(***************************************************************************)
LEMMA InitIInv == Init => IInv
<1> SUFFICES ASSUME Init PROVE IInv
  OBVIOUS
<1>1. StartTime \in Time /\ 1 \in 1 .. MaxTasks + 1
  BY SchedulerAssumption DEF Time
<1>2. QED
  BY <1>1, SchedulerAssumption DEF Init, IInv, TypeOK, ScheduleSorted, UpdatesInOrder, Bookkeeping, Range

LEMMA ScheduleIInv ==
  ASSUME IInv, NEW p \in Priorities, NEW d \in Delays, Schedule(p, d)
  PROVE  IInv'
<1> DEFINE t == [id |-> nextId, prio |-> p, when |-> Deadline(now, d)]
<1>1. t \in Tasks
  <2>1. Deadline(now, d) \in Time
    BY SchedulerAssumption DEF Schedule, IInv, TypeOK, Deadline, Time, Epoch
  <2>2. nextId \in Ids
    BY SchedulerAssumption DEF Schedule, IInv, TypeOK, Ids
  <2>3. QED
    BY <2>1, <2>2 DEF Tasks
<1>2. updates_' = Append(updates_, t) /\ updates_' \in Seq(Tasks)
  BY <1>1 DEF Schedule, IInv, TypeOK
<1>3. TypeOK'
  BY <1>2, SchedulerAssumption DEF Schedule, IInv, TypeOK
<1>4. Range(updates_') = Range(updates_) \cup {t}
  BY <1>1, <1>2, RangeAppend DEF IInv, TypeOK
<1>5. UpdatesInOrder'
  <2>1. \A i, j \in DOMAIN updates_' : i < j => updates_'[i].id < updates_'[j].id
    <3> SUFFICES ASSUME NEW i \in DOMAIN updates_', NEW j \in DOMAIN updates_', i < j
                 PROVE  updates_'[i].id < updates_'[j].id
      OBVIOUS
    <3>1. i \in DOMAIN updates_ /\ updates_'[i] = updates_[i]
      BY <1>2 DEF IInv, TypeOK
    <3>2. CASE j \in DOMAIN updates_
      BY <3>1, <3>2, <1>2 DEF IInv, TypeOK, UpdatesInOrder
    <3>3. CASE j = Len(updates_) + 1
      <4>1. updates_'[j] = t
        BY <1>2, <3>3 DEF IInv, TypeOK
      <4>2. updates_[i] \in Range(updates_)
        BY <3>1 DEF Range
      <4>3. QED
        BY <3>1, <4>1, <4>2 DEF IInv, Bookkeeping
    <3>4. QED
      BY <3>2, <3>3, <1>2 DEF IInv, TypeOK
  <2>2. \A a \in Range(schedule_), u \in Range(updates_) \cup {t} : a.id < u.id
    BY DEF IInv, UpdatesInOrder, Bookkeeping
  <2>3. QED
    BY <2>1, <2>2, <1>4 DEF UpdatesInOrder, Schedule
<1>6. Bookkeeping'
  <2>1. \A a \in Range(schedule_) \cup Range(updates_) \cup {t} : a.id < nextId + 1
    <3>1. \A a \in Range(schedule_) \cup Range(updates_) : a.id \in Int
      BY RangeOfSeq, TaskFields DEF IInv, TypeOK
    <3>2. QED
      BY <3>1 DEF IInv, TypeOK, Bookkeeping
  <2>2. QED
    BY <2>1, <1>4 DEF Bookkeeping, Schedule, IInv
<1>7. ScheduleSorted'
  BY DEF Schedule, IInv, ScheduleSorted
<1>8. QED
  BY <1>3, <1>5, <1>6, <1>7 DEF IInv

LEMMA RefreshIInv ==
  ASSUME IInv, Refresh
  PROVE  /\ IInv'
         /\ Range(schedule_') = Range(schedule_) \cup Range(updates_)
<1>1. PICK sorted \in StableSorts(updates_) : schedule_' \in StableSorts(schedule_ \o sorted)
  BY DEF Refresh
<1>2. /\ schedule_' \in Seq(Tasks)
      /\ Range(schedule_') = Range(schedule_) \cup Range(updates_)
      /\ Sorted(schedule_')
  BY <1>1, RefreshSorts
<1>3. TypeOK'
  BY <1>2 DEF Refresh, IInv, TypeOK
<1>4. ScheduleSorted'
  BY <1>2 DEF ScheduleSorted, Sorted
<1>5. updates_' = <<>> /\ Range(updates_') = {} /\ DOMAIN updates_' = {}
  BY DEF Refresh, Range
<1>6. UpdatesInOrder'
  BY <1>5 DEF UpdatesInOrder
<1>7. Bookkeeping'
  BY <1>2, <1>5 DEF Refresh, Bookkeeping, IInv
<1>8. QED
  BY <1>2, <1>3, <1>4, <1>6, <1>7 DEF IInv

LEMMA StepDoneIInv ==
  ASSUME IInv, StepDone
  PROVE  IInv'
<1>1. /\ schedule_' = Tail(schedule_) /\ schedule_' \in Seq(Tasks)
      /\ Range(schedule_') \subseteq Range(schedule_)
  BY RangeTail DEF StepDone, IInv, TypeOK, Bookkeeping
<1>2. TypeOK'
  BY <1>1 DEF StepDone, IInv, TypeOK
<1>3. ScheduleSorted'
  <2> SUFFICES ASSUME NEW i \in DOMAIN schedule_', NEW j \in DOMAIN schedule_', i < j
               PROVE  Pool!Precedes(schedule_'[i], schedule_'[j])
    BY DEF ScheduleSorted
  <2>1. /\ i + 1 \in DOMAIN schedule_ /\ j + 1 \in DOMAIN schedule_ /\ i + 1 < j + 1
        /\ schedule_'[i] = schedule_[i + 1] /\ schedule_'[j] = schedule_[j + 1]
    BY <1>1 DEF IInv, TypeOK, StepDone, Bookkeeping
  <2>2. QED
    BY <2>1 DEF IInv, ScheduleSorted
<1>4. UpdatesInOrder' /\ Bookkeeping'
  BY <1>1 DEF StepDone, IInv, UpdatesInOrder, Bookkeeping
<1>5. QED
  BY <1>2, <1>3, <1>4 DEF IInv

(***************************************************************************)
(* IInv holds throughout: schedule_ is sorted whenever std::inplace_merge  *)
(* is applied to it, there is a head to execute, and no task is left over  *)
(* when run() returns, for every set of priorities and delays and any      *)
(* number of tasks.                                                        *)
(***************************************************************************)
THEOREM SchedulerInvariant == Spec => []IInv
<1>1. Init => IInv
  BY InitIInv
<1>2. IInv /\ [Next]_vars => IInv'
  <2> SUFFICES ASSUME IInv, [Next]_vars PROVE IInv'
    OBVIOUS
  <2>1. CASE \E p \in Priorities, d \in Delays : Schedule(p, d)
    BY <2>1, ScheduleIInv
  <2>2. CASE Run
    BY <2>2 DEF Run, IInv, TypeOK, ScheduleSorted, UpdatesInOrder, Bookkeeping
  <2>3. CASE Refresh
    BY <2>3, RefreshIInv
  <2>4. CASE RunOverdue
    BY <2>4 DEF RunOverdue, IInv, TypeOK, ScheduleSorted, UpdatesInOrder, Bookkeeping
  <2>5. CASE SleepUntil
    <3>1. now' \in StartTime .. MaxTime
      <4>1. Head(schedule_) \in Tasks
        BY <2>5, RangeTail DEF SleepUntil, IInv, TypeOK, Bookkeeping
      <4>2. now <= Head(schedule_).when
        BY <2>5, <4>1, TaskFields DEF SleepUntil, Overdue, IInv, TypeOK
      <4>3. QED
        BY <2>5, <4>1, <4>2, TaskFields, SchedulerAssumption DEF SleepUntil, IInv, TypeOK
    <3>2. QED
      BY <2>5, <3>1 DEF SleepUntil, IInv, TypeOK, ScheduleSorted, UpdatesInOrder, Bookkeeping
  <2>6. CASE StepDone
    BY <2>6, StepDoneIInv
  <2>7. CASE Tick
    BY <2>7, SchedulerAssumption DEF Tick, IInv, TypeOK, ScheduleSorted, UpdatesInOrder, Bookkeeping
  <2>8. CASE UNCHANGED vars
    BY <2>8 DEF vars, IInv, TypeOK, ScheduleSorted, UpdatesInOrder, Bookkeeping
  <2>9. QED
    BY <2>1, <2>2, <2>3, <2>4, <2>5, <2>6, <2>7, <2>8 DEF Next, RunStep
<1>3. QED
  BY <1>1, <1>2, PTL DEF Spec

(***************************************************************************)
(* Whenever the tasks are looked at they are in the order they are to be   *)
(* run in: schedule() appends and sorts, refresh() sorts again after it    *)
(* has changed the times.                                                  *)
(***************************************************************************)
THEOREM QueueStaysSorted == Spec => []ScheduleSorted
<1>1. IInv => ScheduleSorted
  BY DEF IInv
<1>2. QED
  BY <1>1, SchedulerInvariant, PTL

-----------------------------------------------------------------------------
(***************************************************************************)
(* Refinement.  Once the head is being executed it is not among the        *)
(* pending tasks, whichever representation of the rest is used.            *)
(***************************************************************************)
LEMMA HeadIsLeast ==
  ASSUME IInv, schedule_ # <<>>
  PROVE  /\ Head(schedule_) \in Tasks
         /\ Range(schedule_) = {Head(schedule_)} \cup Range(Tail(schedule_))
         /\ Head(schedule_) \notin Range(Tail(schedule_))
         /\ \A u \in Range(Tail(schedule_)) : Pool!Precedes(Head(schedule_), u)
<1>1. Head(schedule_) \in Tasks /\ Range(schedule_) = {Head(schedule_)} \cup Range(Tail(schedule_))
  BY RangeTail DEF IInv, TypeOK
<1>2. ASSUME NEW u \in Range(Tail(schedule_))
      PROVE  Pool!Precedes(Head(schedule_), u)
  <2>1. PICK i \in DOMAIN Tail(schedule_) : u = Tail(schedule_)[i]
    BY DEF Range
  <2>2. /\ u = schedule_[i + 1] /\ i + 1 \in DOMAIN schedule_ /\ 1 < i + 1
        /\ Head(schedule_) = schedule_[1] /\ 1 \in DOMAIN schedule_
    BY <2>1 DEF IInv, TypeOK
  <2>3. QED
    BY <2>2 DEF IInv, ScheduleSorted
<1>3. ~ Pool!Precedes(Head(schedule_), Head(schedule_))
  BY <1>1, TaskFields DEF Pool!Precedes
<1>4. QED
  BY <1>1, <1>2, <1>3

LEMMA InitRefines == Init => Pool!Init
BY DEF Init, Pool!Init, PendingBar, CurrentBar, Waiting, InCallback, Range

LEMMA ScheduleRefines ==
  ASSUME IInv, NEW p \in Priorities, NEW d \in Delays, Schedule(p, d)
  PROVE  Pool!Submit
<1> DEFINE t == [id |-> nextId, prio |-> p, when |-> Deadline(now, d)]
<1>1. Deadline(now, d) = Pool!Deadline(now, d)
  BY DEF Deadline, Pool!Deadline, Epoch, Pool!Epoch
<1>2. t \in Tasks
  <2>1. Deadline(now, d) \in Time
    BY SchedulerAssumption DEF Schedule, IInv, TypeOK, Deadline, Time, Epoch
  <2>2. nextId \in Ids
    BY SchedulerAssumption DEF Schedule, IInv, TypeOK, Ids
  <2>3. QED
    BY <2>1, <2>2 DEF Tasks
<1>3. Range(updates_') = Range(updates_) \cup {t}
  BY <1>2, RangeAppend DEF Schedule, IInv, TypeOK
<1>4. PendingBar' = PendingBar \cup {t} /\ CurrentBar' = CurrentBar
  BY <1>3 DEF PendingBar, CurrentBar, Waiting, InCallback, Schedule
<1>5. pc # "idle" => CurrentBar # {}
  BY DEF Schedule, CurrentBar, InCallback
<1>6. QED
  BY <1>1, <1>4, <1>5 DEF Schedule, Pool!Submit

LEMMA RefreshRefines ==
  ASSUME IInv, Refresh
  PROVE  Pool!Return \/ UNCHANGED Pool!vars
<1>1. Range(schedule_') = Range(schedule_) \cup Range(updates_) /\ schedule_' \in Seq(Tasks)
  BY RefreshIInv DEF IInv, TypeOK
<1>2. Range(updates_') = {}
  BY DEF Refresh, Range
<1>3. PendingBar' = PendingBar /\ CurrentBar = {} /\ CurrentBar' = {}
  BY <1>1, <1>2 DEF PendingBar, CurrentBar, Waiting, InCallback, Refresh
<1>4. CASE schedule_' = <<>>
  <2>1. PendingBar = {}
    <3>1. Range(schedule_') = {}
      BY <1>4 DEF Range
    <3>2. QED
      BY <3>1, <1>1 DEF PendingBar, Waiting, InCallback, Refresh
  <2>2. QED
    BY <1>3, <1>4, <2>1 DEF Refresh, Pool!Return
<1>5. CASE schedule_' # <<>>
  BY <1>3, <1>5 DEF Refresh, Pool!vars
<1>6. QED
  BY <1>4, <1>5

(***************************************************************************)
(* Calling the head, at once or after a sleep, starts the least task.      *)
(***************************************************************************)
LEMMA CallRefines ==
  ASSUME IInv, pc = "pick", pc' = "callback", UNCHANGED <<schedule_, updates_, nextId>>,
         now' \in Time, now' >= now, now' >= Head(schedule_).when
  PROVE  Pool!Start
<1> DEFINE head == Head(schedule_)
<1>1. schedule_ # <<>> /\ Range(updates_) = {}
  BY DEF IInv, Bookkeeping, Range
<1>2. /\ PendingBar = {head} \cup Range(Tail(schedule_))
      /\ head \notin Range(Tail(schedule_))
      /\ \A u \in Range(Tail(schedule_)) : Pool!Precedes(head, u)
  BY <1>1, HeadIsLeast DEF PendingBar, Waiting, InCallback
<1>3. PendingBar' = PendingBar \ {head}
  BY <1>1, <1>2 DEF PendingBar, Waiting, InCallback
<1>4. CurrentBar = {} /\ CurrentBar' = {head}
  BY DEF CurrentBar, InCallback
<1>5. head \in PendingBar /\ \A u \in PendingBar \ {head} : Pool!Precedes(head, u)
  BY <1>2
<1>6. now' \in Pool!Time
  BY DEF Time, Pool!Time
<1>7. QED
  BY <1>3, <1>4, <1>5, <1>6 DEF Pool!Start

(***************************************************************************)
(* The scheduler's two vectors implement the contract of TaskPool: the     *)
(* least pending task in the order deadline, priority, submission is the   *)
(* one started, never before its deadline, each task exactly once, and     *)
(* run() returns only when nothing is pending.                             *)
(***************************************************************************)
THEOREM SchedulerImplementsTaskPool == Spec => ImplementsTaskPool
<1>1. Init => Pool!Init
  BY InitRefines
<1>2. IInv /\ [Next]_vars => [Pool!Next]_(Pool!vars)
  <2> SUFFICES ASSUME IInv, [Next]_vars
               PROVE  Pool!Next \/ UNCHANGED Pool!vars
    OBVIOUS
  <2>1. CASE \E p \in Priorities, d \in Delays : Schedule(p, d)
    BY <2>1, ScheduleRefines DEF Pool!Next
  <2>2. CASE Run
    <3>1. PendingBar' = PendingBar /\ CurrentBar' = CurrentBar
      BY <2>2 DEF Run, PendingBar, CurrentBar, Waiting, InCallback
    <3>2. QED
      BY <2>2, <3>1 DEF Run, Pool!Next, Pool!Begin
  <2>3. CASE Refresh
    BY <2>3, RefreshRefines DEF Pool!Next
  <2>4. CASE RunOverdue
    <3>1. Head(schedule_) \in Tasks
      BY <2>4, HeadIsLeast DEF RunOverdue, IInv, Bookkeeping
    <3>2. now \in Time /\ now >= Head(schedule_).when
      BY <2>4, <3>1, TaskFields, SchedulerAssumption DEF RunOverdue, Overdue, Epoch, IInv, TypeOK, Time
    <3>3. now' = now /\ now' >= now
      BY <2>4, SchedulerAssumption DEF RunOverdue, IInv, TypeOK
    <3>4. QED
      BY <2>4, <3>2, <3>3, CallRefines DEF RunOverdue, Pool!Next
  <2>5. CASE SleepUntil
    <3>1. Head(schedule_) \in Tasks
      BY <2>5, HeadIsLeast DEF SleepUntil, IInv, Bookkeeping
    <3>2. now' \in Time /\ now' >= now /\ now' >= Head(schedule_).when
      BY <2>5, <3>1, TaskFields, SchedulerAssumption DEF SleepUntil, Overdue, IInv, TypeOK, Time
    <3>3. QED
      BY <2>5, <3>2, CallRefines DEF SleepUntil, Pool!Next
  <2>6. CASE StepDone
    <3>1. PendingBar' = PendingBar
      BY <2>6 DEF StepDone, PendingBar, Waiting, InCallback
    <3>2. CurrentBar # {} /\ CurrentBar' = {}
      BY <2>6 DEF StepDone, CurrentBar, InCallback
    <3>3. QED
      BY <2>6, <3>1, <3>2 DEF StepDone, Pool!Next, Pool!Finish
  <2>7. CASE Tick
    <3>1. PendingBar' = PendingBar /\ CurrentBar' = CurrentBar
      BY <2>7 DEF Tick, PendingBar, CurrentBar, Waiting, InCallback
    <3>2. QED
      BY <2>7, <3>1 DEF Tick, Pool!Next, Pool!Tick
  <2>8. CASE UNCHANGED vars
    BY <2>8 DEF vars, Pool!vars, PendingBar, CurrentBar, Waiting, InCallback
  <2>9. QED
    BY <2>1, <2>2, <2>3, <2>4, <2>5, <2>6, <2>7, <2>8 DEF Next, RunStep
<1>3. QED
  BY <1>1, <1>2, SchedulerInvariant, PTL DEF Spec, Pool!Spec, ImplementsTaskPool
=============================================================================
