---------------------------- MODULE HomingProofs ----------------------------
(***************************************************************************)
(* Proofs about homing: the bookkeeping of tasks and the lifetime of the   *)
(* widgets, for any number of homings from the menu and the server.        *)
(***************************************************************************)
EXTENDS Homing, SequenceTheorems, TLAPS

(***************************************************************************)
(* The tasks im (in order) and ti are pending, each of them once.          *)
(***************************************************************************)
Pending(im, ti) == Range(im) \cup ti

Distinct(im, ti) ==
  /\ im \in Seq(Tasks)
  /\ ti \subseteq Tasks
  /\ \A i, j \in DOMAIN im : im[i] = im[j] => i = j
  /\ \A i \in DOMAIN im : im[i] \notin ti

LEMMA IInvTasks ==
  ASSUME Lifetimes
  PROVE  Distinct(immediate, timed)
BY DEF Lifetimes, TypeOK, OneTaskEach, Distinct

(***************************************************************************)
(* Taking a task removes it from what is pending, and nothing else.        *)
(***************************************************************************)
LEMMA TakeTask ==
  ASSUME NEW t \in Tasks, Distinct(immediate, timed), Takes(t)
  PROVE  /\ Distinct(Remaining(t)[1], Remaining(t)[2])
         /\ t \in Pending(immediate, timed)
         /\ Pending(Remaining(t)[1], Remaining(t)[2]) = Pending(immediate, timed) \ {t}
<1>1. CASE immediate = <<>>
  <2>1. t \in timed /\ Remaining(t) = <<immediate, timed \ {t}>> /\ Range(immediate) = {}
    BY <1>1 DEF Takes, Remaining, Range
  <2>2. QED
    BY <1>1, <2>1 DEF Pending, Distinct
<1>2. CASE immediate # <<>>
  <2> DEFINE rest == Tail(immediate)
  <2>1. t = Head(immediate) /\ Remaining(t) = <<rest, timed>>
    BY <1>2 DEF Takes, Remaining
  <2>2. rest \in Seq(Tasks) /\ t = immediate[1] /\ 1 \in DOMAIN immediate
    BY <1>2, <2>1 DEF Distinct
  <2>3. \A i \in DOMAIN rest : i + 1 \in DOMAIN immediate /\ rest[i] = immediate[i + 1] /\ i + 1 # 1
    BY <1>2 DEF Distinct
  <2>4. \A i \in DOMAIN immediate : i # 1 => i - 1 \in DOMAIN rest /\ rest[i - 1] = immediate[i]
    BY <1>2 DEF Distinct
  <2>5. Distinct(rest, timed)
    <3>1. \A i, j \in DOMAIN rest : rest[i] = rest[j] => i = j
      <4> SUFFICES ASSUME NEW i \in DOMAIN rest, NEW j \in DOMAIN rest, rest[i] = rest[j]
                   PROVE  i = j
        OBVIOUS
      <4>1. i + 1 = j + 1
        BY <2>3 DEF Distinct
      <4>2. i \in Nat /\ j \in Nat
        BY <2>2
      <4>3. QED
        BY <4>1, <4>2
    <3>2. \A i \in DOMAIN rest : rest[i] \notin timed
      BY <2>3 DEF Distinct
    <3>3. QED
      BY <2>2, <3>1, <3>2 DEF Distinct
  <2>6. t \notin Range(rest) /\ t \notin timed
    BY <2>2, <2>3 DEF Range, Distinct
  <2>7. Range(immediate) \subseteq Range(rest) \cup {t}
    <3> SUFFICES ASSUME NEW i \in DOMAIN immediate
                 PROVE  immediate[i] \in Range(rest) \cup {t}
      BY DEF Range
    <3>1. CASE i = 1
      BY <2>2, <3>1
    <3>2. CASE i # 1
      BY <2>4, <3>2 DEF Range
    <3>3. QED
      BY <3>1, <3>2
  <2>8. Range(rest) \cup {t} \subseteq Range(immediate)
    BY <2>2, <2>3 DEF Range
  <2>9. Remaining(t)[1] = rest /\ Remaining(t)[2] = timed
    BY <2>1
  <2>10. Range(immediate) = Range(rest) \cup {t}
    BY <2>7, <2>8
  <2>11. QED
    BY <2>5, <2>6, <2>9, <2>10 DEF Pending
<1>3. QED
  BY <1>1, <1>2

(***************************************************************************)
(* A step that reschedules its HomeState leaves the same tasks pending.    *)
(***************************************************************************)
LEMMA RescheduleTasks ==
  ASSUME NEW h \in Homers, Distinct(immediate, timed), Takes(h), Reschedule(h)
  PROVE  /\ Distinct(immediate', timed')
         /\ Pending(immediate', timed') = Pending(immediate, timed)
<1>1. h \in Tasks
  BY DEF Tasks
<1>2. /\ Distinct(Remaining(h)[1], Remaining(h)[2])
      /\ h \in Pending(immediate, timed)
      /\ Pending(Remaining(h)[1], Remaining(h)[2]) = Pending(immediate, timed) \ {h}
  BY <1>1, TakeTask
<1>3. immediate' = Remaining(h)[1] /\ timed' = Remaining(h)[2] \cup {h}
  BY DEF Reschedule
<1>4. h \notin Range(Remaining(h)[1])
  BY <1>2 DEF Pending
<1>5. Distinct(immediate', timed')
  BY <1>1, <1>2, <1>3, <1>4 DEF Distinct, Range
<1>6. QED
  BY <1>2, <1>3, <1>5 DEF Pending

(***************************************************************************)
(* Scheduling a task with no delay adds it, if it was not pending.         *)
(***************************************************************************)
LEMMA AppendTask ==
  ASSUME NEW t \in Tasks, Distinct(immediate, timed), t \notin Pending(immediate, timed)
  PROVE  /\ Distinct(Append(immediate, t), timed)
         /\ Pending(Append(immediate, t), timed) = Pending(immediate, timed) \cup {t}
<1> DEFINE new == Append(immediate, t)
<1>1. new \in Seq(Tasks) /\ DOMAIN new = DOMAIN immediate \cup {Len(immediate) + 1}
  BY DEF Distinct
<1>2. new[Len(immediate) + 1] = t
  BY DEF Distinct
<1>3. \A i \in DOMAIN immediate : new[i] = immediate[i] /\ immediate[i] # t
  BY DEF Distinct, Pending, Range
<1>4. \A i, j \in DOMAIN new : new[i] = new[j] => i = j
  BY <1>1, <1>2, <1>3 DEF Distinct
<1>5. \A i \in DOMAIN new : new[i] \notin timed
  BY <1>1, <1>2, <1>3 DEF Distinct, Pending
<1>6. Range(new) = Range(immediate) \cup {t}
  BY <1>1, <1>2, <1>3 DEF Range
<1>7. QED
  BY <1>1, <1>4, <1>5, <1>6 DEF Distinct, Pending

-----------------------------------------------------------------------------
(***************************************************************************)
(* OneTaskEach in terms of the set of pending tasks.                       *)
(***************************************************************************)
LEMMA OneTaskEachPrimed ==
  ASSUME Distinct(immediate', timed'),
         \A g \in Homers : Alive(g)' <=> g \in Pending(immediate', timed'),
         Loop \in Pending(immediate', timed') <=> phase' = "sched" /\ ~ exit',
         phase' # "returned" \/ (immediate' = <<>> /\ timed' = {})
  PROVE  OneTaskEach'
BY DEF OneTaskEach, Distinct, Pending

LEMMA PendingIInv ==
  ASSUME Lifetimes
  PROVE  /\ \A g \in Homers : Alive(g) <=> g \in Pending(immediate, timed)
         /\ Loop \in Pending(immediate, timed) <=> phase = "sched" /\ ~ exit
         /\ \A g \in Homers : g \in Tasks /\ g # Loop
BY HomingAssumption DEF Lifetimes, OneTaskEach, Pending, Tasks

(***************************************************************************)
(* A step that reschedules itself keeps one task for each.                 *)
(***************************************************************************)
LEMMA StepTasks ==
  ASSUME Lifetimes, NEW h \in Homers, Takes(h), Reschedule(h), UNCHANGED <<phase, exit>>,
         \A g \in Homers : Alive(g)' <=> Alive(g)
  PROVE  OneTaskEach' /\ Distinct(immediate', timed')
<1>1. /\ Distinct(immediate', timed')
      /\ Pending(immediate', timed') = Pending(immediate, timed)
  BY IInvTasks, RescheduleTasks
<1>2. phase' = "sched"
  BY DEF Takes
<1>3. QED
  BY <1>1, <1>2, PendingIInv, OneTaskEachPrimed

(***************************************************************************)
(* The types of what a step assigns, and the lifetime of widgets: h goes   *)
(* on to a state in which it may still be displayed.                       *)
(***************************************************************************)
Going == HomingStages \cup {"start", "go_for_homing_tool_down", "show_results", "showing_results"}

LEMMA GoingOn ==
  ASSUME Lifetimes, NEW h \in Homers, NEW s \in Going, widget' = widget,
         local_state' = [local_state EXCEPT ![h] = s],
         local_state[h] \notin {"unborn", "done"}
  PROVE  /\ local_state' \in [Homers -> LocalStates]
         /\ \A g \in Homers : Alive(g)' <=> Alive(g)
         /\ NoDanglingWidget'
<1>1. s \in LocalStates /\ s \notin {"unborn", "done", "stop", "stop_failed"}
  BY DEF Going, LocalStates, HomingStages
<1>2. \A g \in Homers : local_state'[g] = IF g = h THEN s ELSE local_state[g]
  BY DEF Lifetimes, TypeOK
<1>3. QED
  BY <1>1, <1>2 DEF Lifetimes, TypeOK, Alive, NoDanglingWidget

LEMMA DrivingType ==
  ASSUME NEW d \in [Motors -> Drives], NEW m \in Motors, NEW h \in Homers, NEW s \in HomingStages
  PROVE  Driving(d, m, h, s) \in [Motors -> Drives]
BY DEF Driving, Drives

LEMMA StageTables ==
  ASSUME NEW s \in HomingStages
  PROVE  /\ MotorOf[s] \in Motors
         /\ StageAfter[s] \in Going
BY DEF HomingStages, MotorOf, StageAfter, Motors, Going

LEMMA StepStartIInv ==
  ASSUME Lifetimes, NEW h \in Homers, StepStart(h)
  PROVE  Lifetimes'
<1>1. /\ local_state' \in [Homers -> LocalStates]
      /\ \A g \in Homers : Alive(g)' <=> Alive(g)
      /\ NoDanglingWidget'
  <2>1. "homing_tool_up" \in Going
    BY DEF Going, HomingStages
  <2>2. QED
    BY <2>1, GoingOn DEF StepStart, ui
<1>2. OneTaskEach' /\ Distinct(immediate', timed')
  BY <1>1, StepTasks DEF StepStart
<1>3. drive' \in [Motors -> Drives]
  <2>1. /\ [m \in Motors |-> Idle] \in [Motors -> Drives]
        /\ "tool_motor" \in Motors /\ "homing_tool_up" \in HomingStages
    BY DEF Drives, Motors, HomingStages
  <2>2. QED
    BY <2>1, DrivingType DEF StepStart
<1>4. TypeOK'
  BY <1>1, <1>2, <1>3 DEF StepStart, Lifetimes, TypeOK, Distinct, ui
<1>5. QED
  BY <1>1, <1>2, <1>4 DEF Lifetimes

LEMMA StepStalledIInv ==
  ASSUME Lifetimes, NEW h \in Homers, StepStalled(h)
  PROVE  Lifetimes'
<1> DEFINE stage == local_state[h]
           motor == MotorOf[stage]
           next == StageAfter[stage]
           stopped == [drive EXCEPT ![motor] = Idle]
<1>1. stage \in HomingStages /\ motor \in Motors /\ next \in Going
  BY StageTables DEF StepStalled
<1>2. stage \notin {"unborn", "done"}
  BY <1>1 DEF HomingStages
<1>3. /\ local_state' \in [Homers -> LocalStates]
      /\ \A g \in Homers : Alive(g)' <=> Alive(g)
      /\ NoDanglingWidget'
  BY <1>1, <1>2, GoingOn DEF StepStalled, ui
<1>4. OneTaskEach' /\ Distinct(immediate', timed')
  BY <1>3, StepTasks DEF StepStalled
<1>5. drive' \in [Motors -> Drives]
  <2>1. stopped \in [Motors -> Drives]
    BY <1>1 DEF Lifetimes, TypeOK, Drives
  <2>2. CASE next \in HomingStages
    BY <2>1, <2>2, StageTables, DrivingType DEF StepStalled
  <2>3. CASE next \notin HomingStages
    BY <2>1, <2>3 DEF StepStalled
  <2>4. QED
    BY <2>2, <2>3
<1>6. stalled' \in [Motors -> BOOLEAN]
  BY DEF StepStalled
<1>7. results' \in [Homers -> [HomingStages -> Sources]]
  <2>1. PICK source \in Sources : results' = [results EXCEPT ![h][stage] = source]
    BY DEF StepStalled, Sources
  <2>2. QED
    BY <1>1, <2>1 DEF Lifetimes, TypeOK
<1>8. TypeOK'
  BY <1>3, <1>4, <1>5, <1>6, <1>7 DEF StepStalled, Lifetimes, TypeOK, Distinct, ui
<1>9. QED
  BY <1>3, <1>4, <1>8 DEF Lifetimes

LEMMA StepWaitIInv ==
  ASSUME Lifetimes, NEW h \in Homers, StepWait(h)
  PROVE  Lifetimes'
<1>1. \A g \in Homers : Alive(g)' <=> Alive(g)
  BY DEF StepWait, machines, Alive
<1>2. OneTaskEach' /\ Distinct(immediate', timed')
  BY <1>1, StepTasks DEF StepWait
<1>3. TypeOK' /\ NoDanglingWidget'
  BY <1>2 DEF StepWait, Lifetimes, TypeOK, NoDanglingWidget, Distinct, machines, motors, ui
<1>4. QED
  BY <1>2, <1>3 DEF Lifetimes

LEMMA StepToolDownIInv ==
  ASSUME Lifetimes, NEW h \in Homers, StepToolDown(h)
  PROVE  Lifetimes'
<1>1. "homing_tool_down" \in HomingStages /\ "homing_tool_down" \in Going /\ "tool_motor" \in Motors
  BY DEF Going, HomingStages, Motors
<1>2. /\ local_state' \in [Homers -> LocalStates]
      /\ \A g \in Homers : Alive(g)' <=> Alive(g)
      /\ NoDanglingWidget'
  BY <1>1, GoingOn DEF StepToolDown, ui
<1>3. OneTaskEach' /\ Distinct(immediate', timed')
  BY <1>2, StepTasks DEF StepToolDown
<1>4. drive' \in [Motors -> Drives]
  BY <1>1, DrivingType DEF StepToolDown, Lifetimes, TypeOK
<1>5. TypeOK'
  BY <1>2, <1>3, <1>4 DEF StepToolDown, Lifetimes, TypeOK, Distinct, ui
<1>6. QED
  BY <1>2, <1>3, <1>5 DEF Lifetimes

LEMMA StepShowResultsIInv ==
  ASSUME Lifetimes, NEW h \in Homers, StepShowResults(h)
  PROVE  Lifetimes'
<1>1. \A g \in Homers :
        local_state'[g] = IF g = h THEN "showing_results" ELSE local_state[g]
  BY DEF StepShowResults, Lifetimes, TypeOK
<1>2. local_state' \in [Homers -> LocalStates] /\ \A g \in Homers : Alive(g)' <=> Alive(g)
  BY <1>1 DEF StepShowResults, Lifetimes, TypeOK, LocalStates, Alive
<1>3. OneTaskEach' /\ Distinct(immediate', timed')
  BY <1>2, StepTasks DEF StepShowResults
<1>4. widget' = ResultsMessage(h) /\ widget' \in Widgets /\ widget'.of = h
  BY DEF StepShowResults, SetWidget, ResultsMessage, Widgets
<1>5. NoDanglingWidget'
  BY <1>1, <1>4 DEF NoDanglingWidget
<1>6. TypeOK'
  BY <1>2, <1>3, <1>4 DEF StepShowResults, SetWidget, Lifetimes, TypeOK, Distinct, motors
<1>7. QED
  BY <1>3, <1>5, <1>6 DEF Lifetimes

(***************************************************************************)
(* The last step: the HomeState is gone, and with it its only task.  It    *)
(* was in a stopping state, so that it is not on display.                  *)
(***************************************************************************)
LEMMA StepDoneIInv ==
  ASSUME Lifetimes, NEW h \in Homers, StepDone(h)
  PROVE  Lifetimes'
<1>1. \A g \in Homers : local_state'[g] = IF g = h THEN "done" ELSE local_state[g]
  BY DEF StepDone, Lifetimes, TypeOK
<1>2. local_state' \in [Homers -> LocalStates] /\ \A g \in Homers : Alive(g)' <=> Alive(g) /\ g # h
  BY <1>1 DEF StepDone, Lifetimes, TypeOK, LocalStates, Alive
<1>3. /\ Distinct(immediate', timed')
      /\ Pending(immediate', timed') = Pending(immediate, timed) \ {h}
  BY TakeTask, IInvTasks, PendingIInv DEF StepDone
<1>4. OneTaskEach'
  <2>1. \A g \in Homers : Alive(g)' <=> g \in Pending(immediate', timed')
    BY <1>2, <1>3, PendingIInv
  <2>2. Loop \in Pending(immediate', timed') <=> phase' = "sched" /\ ~ exit'
    BY <1>3, PendingIInv DEF StepDone
  <2>3. phase' # "returned"
    BY DEF StepDone, Takes
  <2>4. QED
    BY <1>3, <2>1, <2>2, <2>3, OneTaskEachPrimed
<1>5. NoDanglingWidget'
  BY <1>1 DEF StepDone, ui, Lifetimes, NoDanglingWidget
<1>6. reply' \in [ServerHomers -> {"none", "ok", "error"}] /\ homed' \in Homers \cup {NoOne}
  BY DEF StepDone, Lifetimes, TypeOK
<1>7. TypeOK'
  BY <1>2, <1>3, <1>6 DEF StepDone, Lifetimes, TypeOK, Distinct, motors, ui
<1>8. QED
  BY <1>4, <1>5, <1>7 DEF Lifetimes

-----------------------------------------------------------------------------
(***************************************************************************)
(* commands::home, from whichever phase of the loop it is called.          *)
(***************************************************************************)
LEMMA HomeKeeps ==
  ASSUME Lifetimes, NEW h \in Homers, Home(h), timed' = timed, exit' = exit,
         phase # "sched", phase' \in {"server", "draw"}
  PROVE  /\ local_state' \in [Homers -> LocalStates] /\ overlap' \in BOOLEAN
         /\ widget' \in Widgets /\ changed' \in BOOLEAN
         /\ NoDanglingWidget'
         /\ OneTaskEach' /\ Distinct(immediate', timed')
<1>1. PICK s \in {"start", "showing_results"} : local_state' = [local_state EXCEPT ![h] = s]
  BY DEF Home
<1>2. \A g \in Homers : local_state'[g] = IF g = h THEN s ELSE local_state[g]
  BY <1>1 DEF Lifetimes, TypeOK
<1>3. s \in LocalStates /\ s \notin {"unborn", "stop", "stop_failed", "done"}
  BY DEF LocalStates
<1>4. /\ local_state' \in [Homers -> LocalStates]
      /\ \A g \in Homers : Alive(g)' <=> Alive(g) \/ g = h
  BY <1>1, <1>2, <1>3 DEF Lifetimes, TypeOK, Alive
<1>5. widget' \in Widgets /\ widget'.of = h /\ changed' \in BOOLEAN
  BY DEF Home, SetWidget, HomingMessage, Widgets
<1>6. NoDanglingWidget'
  BY <1>2, <1>3, <1>5 DEF NoDanglingWidget
<1>7. h \notin Pending(immediate, timed)
  BY PendingIInv DEF Home, Alive
<1>8. /\ Distinct(immediate', timed')
      /\ Pending(immediate', timed') = Pending(immediate, timed) \cup {h}
  BY <1>7, AppendTask, IInvTasks, PendingIInv DEF Home
<1>9. OneTaskEach'
  <2>1. \A g \in Homers : Alive(g)' <=> g \in Pending(immediate', timed')
    BY <1>4, <1>8, PendingIInv
  <2>2. Loop \notin Pending(immediate', timed') /\ phase' \notin {"sched", "returned"}
    BY <1>8, PendingIInv
  <2>3. QED
    BY <1>8, <2>1, <2>2, OneTaskEachPrimed
<1>10. overlap' \in BOOLEAN
  BY DEF Home, Lifetimes, TypeOK
<1>11. QED
  BY <1>10, <1>4, <1>5, <1>6, <1>8, <1>9

LEMMA LoopStartIInv ==
  ASSUME Lifetimes, LoopStart
  PROVE  Lifetimes'
<1>1. /\ Distinct(immediate', timed')
      /\ Pending(immediate', timed') = Pending(immediate, timed) \ {Loop}
  BY TakeTask, IInvTasks DEF LoopStart, Tasks
<1>2. \A g \in Homers : Alive(g)' <=> g \in Pending(immediate', timed')
  BY <1>1, PendingIInv DEF LoopStart, machines, Alive
<1>3. Loop \notin Pending(immediate', timed') /\ phase' = "events"
  BY <1>1 DEF LoopStart
<1>4. OneTaskEach'
  BY <1>1, <1>2, <1>3, OneTaskEachPrimed
<1>5. TypeOK' /\ NoDanglingWidget'
  BY <1>1, <1>3 DEF LoopStart, Lifetimes, TypeOK, NoDanglingWidget, Distinct, machines, motors, ui
<1>6. QED
  BY <1>4, <1>5 DEF Lifetimes

LEMMA LoopNoClickIInv ==
  ASSUME Lifetimes, NEW pressed \in BOOLEAN, LoopNoClick(pressed)
  PROVE  Lifetimes'
<1>1. changed' \in BOOLEAN /\ prev_pressed' \in BOOLEAN
  BY DEF LoopNoClick, Lifetimes, TypeOK
<1>2. TypeOK' /\ NoDanglingWidget'
  BY <1>1 DEF LoopNoClick, Lifetimes, TypeOK, NoDanglingWidget, machines, motors, tasks
<1>3. OneTaskEach'
  BY DEF LoopNoClick, Lifetimes, OneTaskEach, machines, tasks, Alive
<1>4. QED
  BY <1>2, <1>3 DEF Lifetimes

(***************************************************************************)
(* A click changes the widget and at most the state of the HomeState whose *)
(* widget it was: the one that stops is the one taken off the display.     *)
(***************************************************************************)
LEMMA ClickHomeStateKeeps ==
  ASSUME Lifetimes, ClickHomeState, phase = "events", phase' = "server"
  PROVE  /\ local_state' \in [Homers -> LocalStates] /\ overlap' \in BOOLEAN
         /\ widget' \in Widgets /\ changed' \in BOOLEAN
         /\ NoDanglingWidget'
         /\ OneTaskEach'
<1>1. PICK h \in Homers, success \in BOOLEAN : widget.of = h /\ Finish(h, success)
  <2>1. PICK h \in Homers :
          \/ widget = HomingMessage(h) /\ Finish(h, connected)
          \/ widget = ResultsMessage(h) /\ Finish(h, TRUE)
    BY DEF ClickHomeState
  <2>2. widget = HomingMessage(h) \/ widget = ResultsMessage(h)
    BY <2>1
  <2>3. widget.of = h
    BY <2>2 DEF HomingMessage, ResultsMessage
  <2>4. QED
    BY <2>1, <2>3 DEF Lifetimes, TypeOK
<1>2. PICK s \in {"stop", "stop_failed"} : local_state' = [local_state EXCEPT ![h] = s]
  BY <1>1 DEF Finish
<1>3. \A g \in Homers : local_state'[g] = IF g = h THEN s ELSE local_state[g]
  BY <1>2 DEF Lifetimes, TypeOK
<1>4. local_state[h] \notin {"unborn", "done"}
  BY <1>1 DEF Lifetimes, NoDanglingWidget
<1>5. local_state' \in [Homers -> LocalStates] /\ \A g \in Homers : Alive(g)' <=> Alive(g)
  BY <1>2, <1>3, <1>4 DEF Lifetimes, TypeOK, LocalStates, Alive
<1>6. widget' = MainMenu /\ widget' \in Widgets /\ changed' \in BOOLEAN /\ widget'.of = NoOne
  BY <1>1 DEF Finish, SetWidget, MainMenu, Widgets
<1>7. NoDanglingWidget'
  BY <1>6, HomingAssumption DEF NoDanglingWidget
<1>8. OneTaskEach'
  BY <1>5 DEF ClickHomeState, tasks, Lifetimes, OneTaskEach
<1>9. overlap' \in BOOLEAN
  BY DEF ClickHomeState, Lifetimes, TypeOK
<1>10. QED
  BY <1>5, <1>6, <1>7, <1>8, <1>9

(***************************************************************************)
(* A click that leads from one menu or dialog to another.                  *)
(***************************************************************************)
LEMMA MenuWidgetKeeps ==
  ASSUME Lifetimes, NEW w \in {MainMenu, ExitMenu, Dialog}, widget' = w,
         UNCHANGED <<local_state, tasks>>, phase = "events", phase' = "server"
  PROVE  widget' \in Widgets /\ NoDanglingWidget' /\ OneTaskEach'
<1>1. widget' \in Widgets /\ widget'.of = NoOne
  BY DEF Widgets, MainMenu, ExitMenu, Dialog
<1>2. NoDanglingWidget'
  BY <1>1, HomingAssumption DEF NoDanglingWidget
<1>3. OneTaskEach'
  BY DEF Lifetimes, OneTaskEach, tasks, Alive
<1>4. QED
  BY <1>1, <1>2, <1>3

LEMMA LoopClickIInv ==
  ASSUME Lifetimes, LoopClick
  PROVE  Lifetimes'
<1> SUFFICES /\ local_state' \in [Homers -> LocalStates] /\ overlap' \in BOOLEAN
             /\ widget' \in Widgets /\ changed' \in BOOLEAN /\ exit' \in BOOLEAN
             /\ NoDanglingWidget' /\ OneTaskEach'
             /\ immediate' \in Seq(Tasks) /\ timed' \subseteq Tasks
  BY DEF LoopClick, Lifetimes, TypeOK, motors
<1>1. phase = "events" /\ phase' = "server"
  BY DEF LoopClick
<1>2. CASE ClickMainMenu
  <2>1. CASE (\E h \in MenuHomers : Home(h)) /\ UNCHANGED <<timed, exit>>
    BY <1>1, <2>1, HomeKeeps DEF Homers, Distinct, Lifetimes, TypeOK
  <2>2. CASE (\E w \in {Dialog, ExitMenu} : SetWidget(w)) /\ UNCHANGED <<local_state, tasks, exit, overlap>>
    <3>1. PICK w \in {MainMenu, ExitMenu, Dialog} : SetWidget(w)
      BY <2>2
    <3>2. QED
      BY <1>1, <2>2, <3>1, MenuWidgetKeeps DEF SetWidget, Lifetimes, TypeOK, tasks
  <2>3. QED
    BY <1>2, <2>1, <2>2 DEF ClickMainMenu
<1>3. CASE ClickExitMenu
  <2>1. widget' \in {ExitMenu, MainMenu} /\ changed' \in BOOLEAN /\ exit' \in BOOLEAN
    BY <1>3 DEF ClickExitMenu, SetWidget, Lifetimes, TypeOK
  <2>2. QED
    BY <1>1, <1>3, <2>1, MenuWidgetKeeps DEF ClickExitMenu, Lifetimes, TypeOK, tasks
<1>4. CASE ClickDialog
  BY <1>1, <1>4, MenuWidgetKeeps DEF ClickDialog, SetWidget, Lifetimes, TypeOK, tasks
<1>5. CASE ClickHomeState
  BY <1>1, <1>5, ClickHomeStateKeeps DEF ClickHomeState, tasks, Lifetimes, TypeOK
<1>6. QED
  BY <1>2, <1>3, <1>4, <1>5 DEF LoopClick

LEMMA LoopServerIInv ==
  ASSUME Lifetimes, LoopServer
  PROVE  Lifetimes'
<1>1. CASE UNCHANGED <<local_state, ui, immediate, overlap>>
  <2>1. TypeOK' /\ NoDanglingWidget'
    BY <1>1 DEF LoopServer, Lifetimes, TypeOK, NoDanglingWidget, ui, motors
  <2>2. OneTaskEach'
    BY <1>1 DEF LoopServer, Lifetimes, OneTaskEach, Alive
  <2>3. QED
    BY <2>1, <2>2 DEF Lifetimes
<1>2. CASE \E h \in ServerHomers : Home(h)
  <2>1. PICK h \in Homers : Home(h)
    BY <1>2 DEF Homers
  <2>2. /\ local_state' \in [Homers -> LocalStates] /\ overlap' \in BOOLEAN
        /\ widget' \in Widgets /\ changed' \in BOOLEAN
        /\ NoDanglingWidget'
        /\ OneTaskEach' /\ Distinct(immediate', timed')
    BY <2>1, HomeKeeps DEF LoopServer
  <2>3. TypeOK'
    BY <2>2 DEF LoopServer, Lifetimes, TypeOK, motors, Distinct
  <2>4. QED
    BY <2>2, <2>3 DEF Lifetimes
<1>3. QED
  BY <1>1, <1>2 DEF LoopServer

(***************************************************************************)
(* The loop reschedules itself, in one way or the other, or not at all.    *)
(***************************************************************************)
LEMMA LoopDrawIInv ==
  ASSUME Lifetimes, NEW zero \in BOOLEAN, LoopDraw(zero)
  PROVE  Lifetimes'
<1>1. Loop \in Tasks /\ Loop \notin Pending(immediate, timed)
  BY PendingIInv DEF Tasks, LoopDraw
<1>2. /\ Distinct(immediate', timed')
      /\ Pending(immediate', timed') = Pending(immediate, timed) \cup (IF exit THEN {} ELSE {Loop})
  <2>1. CASE exit
    BY <2>1, IInvTasks DEF LoopDraw
  <2>2. CASE ~ exit /\ zero
    BY <1>1, <2>2, IInvTasks, AppendTask DEF LoopDraw
  <2>3. CASE ~ exit /\ ~ zero
    <3>1. immediate' = immediate /\ timed' = timed \cup {Loop}
      BY <2>3 DEF LoopDraw
    <3>2. \A i \in DOMAIN immediate : immediate[i] # Loop
      BY <1>1 DEF Pending, Range
    <3>3. QED
      BY <1>1, <2>3, <3>1, <3>2, IInvTasks DEF Distinct, Pending
  <2>4. QED
    BY <2>1, <2>2, <2>3
<1>3. \A g \in Homers : Alive(g)' <=> g \in Pending(immediate', timed')
  BY <1>2, PendingIInv DEF LoopDraw, machines, Alive
<1>4. Loop \in Pending(immediate', timed') <=> phase' = "sched" /\ ~ exit'
  BY <1>1, <1>2 DEF LoopDraw
<1>5. OneTaskEach'
  BY <1>2, <1>3, <1>4, OneTaskEachPrimed DEF LoopDraw
<1>6. TypeOK' /\ NoDanglingWidget'
  BY <1>2 DEF LoopDraw, Lifetimes, TypeOK, NoDanglingWidget, Distinct, machines, motors
<1>7. QED
  BY <1>5, <1>6 DEF Lifetimes

LEMMA ReturnIInv ==
  ASSUME Lifetimes, Return
  PROVE  Lifetimes'
<1>1. Pending(immediate, timed) = {} /\ Pending(immediate', timed') = {}
  BY DEF Return, Pending, Range, tasks
<1>2. OneTaskEach'
  <2>1. Distinct(immediate', timed')
    BY IInvTasks DEF Return, tasks
  <2>2. \A g \in Homers : Alive(g)' <=> g \in Pending(immediate', timed')
    BY <1>1, PendingIInv DEF Return, machines, Alive
  <2>3. QED
    BY <1>1, <2>1, <2>2, OneTaskEachPrimed DEF Return, tasks
<1>3. TypeOK' /\ NoDanglingWidget'
  BY DEF Return, Lifetimes, TypeOK, NoDanglingWidget, machines, motors, ui, tasks
<1>4. QED
  BY <1>2, <1>3 DEF Lifetimes

(***************************************************************************)
(* For any number of homings, started from the menu or by G28 messages at  *)
(* any time: the widget on display belongs to a HomeState that is alive    *)
(* and going on, each of them has exactly one task pending, and so has the *)
(* main loop until the program exits.                                      *)
(***************************************************************************)
LEMMA LifetimesInvariant == Spec => []Lifetimes
<1>1. Init => Lifetimes
  <2> SUFFICES ASSUME Init PROVE Lifetimes
    OBVIOUS
  <2>1. /\ Loop \in Tasks /\ Range(immediate) = {Loop} /\ DOMAIN immediate = {1}
        /\ immediate \in Seq(Tasks)
    BY DEF Init, Tasks, Range
  <2>2. \A h \in Homers : ~ Alive(h)
    BY DEF Init, Alive
  <2>3. OneTaskEach
    BY <2>1, <2>2, HomingAssumption DEF Init, OneTaskEach
  <2>4. NoDanglingWidget
    BY HomingAssumption DEF Init, NoDanglingWidget, MainMenu
  <2>5. TypeOK
    <3>1. local_state \in [Homers -> LocalStates] /\ results \in [Homers -> [HomingStages -> Sources]]
      BY DEF Init, LocalStates, Sources
    <3>2. drive \in [Motors -> Drives] /\ stalled \in [Motors -> BOOLEAN]
      BY DEF Init, Drives
    <3>3. widget \in Widgets
      BY DEF Init, Widgets
    <3>4. QED
      BY <2>1, <3>1, <3>2, <3>3 DEF Init, TypeOK
  <2>6. QED
    BY <2>3, <2>4, <2>5 DEF Lifetimes
<1>2. Lifetimes /\ [Next]_vars => Lifetimes'
  <2> SUFFICES ASSUME Lifetimes, [Next]_vars PROVE Lifetimes'
    OBVIOUS
  <2>1. CASE \E h \in Homers : Step(h)
    BY <2>1, StepStartIInv, StepStalledIInv, StepWaitIInv, StepToolDownIInv,
       StepShowResultsIInv, StepDoneIInv DEF Step
  <2>2. CASE LoopStep
    BY <2>2, LoopStartIInv, LoopNoClickIInv, LoopClickIInv, LoopServerIInv,
       LoopDrawIInv DEF LoopStep
  <2>3. CASE Return
    BY <2>3, ReturnIInv
  <2>4. CASE \E m \in Motors : Stall(m)
    <3>1. PICK m \in Motors : Stall(m)
      BY <2>4
    <3>2. stalled' \in [Motors -> BOOLEAN]
      BY <3>1 DEF Stall, Lifetimes, TypeOK
    <3>3. TypeOK' /\ NoDanglingWidget'
      BY <3>1, <3>2 DEF Stall, Lifetimes, TypeOK, NoDanglingWidget, machines, ui, tasks
    <3>4. OneTaskEach'
      BY <3>1 DEF Stall, Lifetimes, OneTaskEach, machines, tasks, Alive
    <3>5. QED
      BY <3>3, <3>4 DEF Lifetimes
  <2>5. CASE UNCHANGED vars
    <3>1. TypeOK' /\ NoDanglingWidget'
      BY <2>5 DEF vars, Lifetimes, TypeOK, NoDanglingWidget, machines, motors, ui, tasks
    <3>2. OneTaskEach'
      BY <2>5 DEF vars, Lifetimes, OneTaskEach, machines, tasks, Alive
    <3>3. QED
      BY <3>1, <3>2 DEF Lifetimes
  <2>6. QED
    BY <2>1, <2>2, <2>3, <2>4, <2>5 DEF Next
<1>3. QED
  BY <1>1, <1>2, PTL DEF Spec

(***************************************************************************)
(* The memory safety of the display, by itself.                            *)
(***************************************************************************)
THEOREM WidgetsDoNotDangle == Spec => []NoDanglingWidget
<1>1. Lifetimes => NoDanglingWidget
  BY DEF Lifetimes
<1>2. QED
  BY <1>1, LifetimesInvariant, PTL

-----------------------------------------------------------------------------
(***************************************************************************)
(* The order of the stages: each has its place, and is followed by the     *)
(* next one, or by a state in which all motors are at rest.                *)
(***************************************************************************)
Resting == {"go_for_homing_tool_down", "show_results", "showing_results"}
Nowhere == {"start", "stop", "stop_failed", "unborn", "done"}

LEMMA Places ==
  /\ \A s \in HomingStages :
       /\ s \in LocalStates \ (Resting \cup Nowhere)
       /\ Place[s] \in 1 .. 6
       /\ MotorOf[s] \in Motors
       /\ StageAfter[s] \in (HomingStages \cup Resting) \ {"showing_results"}
       /\ Place[StageAfter[s]] = Place[s] + 1
       /\ \A t \in HomingStages : Place[t] <= Place[s] => t = s \/ Place[t] < Place[s]
  /\ \A s \in Nowhere : s \in LocalStates /\ Place[s] = 0
BY DEF Place, HomingStages, LocalStates, Resting, Nowhere, StageAfter, MotorOf, Motors

\* The places of the last stage and of the states at rest.
LEMMA PlacesAtRest ==
  /\ Place["homing_tool_up"] = 1 /\ "homing_tool_up" \in HomingStages
  /\ Place["homing_tool_down"] = Place["go_for_homing_tool_down"] /\ "homing_tool_down" \in HomingStages
  /\ MotorOf["homing_tool_up"] = "tool_motor" /\ MotorOf["homing_tool_down"] = "tool_motor"
  /\ Place["showing_results"] = 7 /\ Place["show_results"] = 7
  /\ \A s \in Resting : s \in LocalStates /\ s \notin HomingStages \cup Nowhere
  /\ "homing_tool_up" # "homing_tool_down"
BY DEF Place, HomingStages, LocalStates, Resting, Nowhere, MotorOf

\* Steps that leave what Undisturbed is about alone.
LEMMA SameUndisturbed ==
  ASSUME Undisturbed, UNCHANGED <<connected, overlap, local_state, results, drive>>
  PROVE  Undisturbed'
BY DEF Undisturbed, OnItsWay, OneMotorDriven, Alive

(***************************************************************************)
(* A homing that is alive, and was not disturbed, is alone: the others are *)
(* not born yet, or done.                                                  *)
(***************************************************************************)
LEMMA OthersAreNowhere ==
  ASSUME Undisturbed, ~ overlap, NEW h \in Homers, Alive(h), NEW g \in Homers, g # h
  PROVE  local_state[g] \in {"unborn", "done"}
BY DEF Undisturbed, Alive

(***************************************************************************)
(* One that goes on from one state to another has to be looked at alone.   *)
(***************************************************************************)
LEMMA GoesOn ==
  ASSUME Lifetimes, Undisturbed, NEW h \in Homers, Alive(h), NEW t \in LocalStates, t # "unborn",
         UNCHANGED <<connected, overlap>>,
         local_state' = [local_state EXCEPT ![h] = t],
         \A g \in Homers \ {h} : results'[g] = results[g],
         ~ overlap => OnItsWay(h)' /\ OneMotorDriven'
  PROVE  Undisturbed'
<1> SUFFICES ASSUME ~ overlap PROVE Undisturbed'
  BY DEF Undisturbed
<1>1. \A g \in Homers : local_state'[g] = IF g = h THEN t ELSE local_state[g]
  BY DEF Lifetimes, TypeOK
<1>2. \A g \in Homers \ {h} : local_state[g] \in {"unborn", "done"}
  BY OthersAreNowhere
<1>3. \A f, g \in Homers : Alive(f)' /\ Alive(g)' => f = g
  BY <1>1, <1>2 DEF Alive
<1>4. ASSUME NEW g \in Homers, g # h PROVE OnItsWay(g)'
  <2>1. local_state'[g] \in {"unborn", "done"}
    BY <1>1, <1>2, <1>4
  <2>2. Place[local_state'[g]] = 0 /\ local_state'[g] \notin HomingStages \cup Resting
    BY <2>1, Places, PlacesAtRest DEF Nowhere
  <2> QED BY <2>2, Places DEF OnItsWay, Resting
<1> QED BY <1>3, <1>4 DEF Undisturbed

\* A stage that drives its own motor, the others being at rest.
LEMMA StageDrives ==
  ASSUME NEW h \in Homers, NEW t \in HomingStages, t # "unborn",
         local_state'[h] = t,
         \A m \in Motors : drive'[m] = IF m = MotorOf[t] THEN [by |-> h, for |-> t] ELSE Idle,
         \A s \in HomingStages : Place[s] < Place[t] => results'[h][s] = "own"
  PROVE  OnItsWay(h)' /\ OneMotorDriven'
<1>1. t \notin Resting
  BY Places
<1> QED BY <1>1 DEF OnItsWay, OneMotorDriven, Resting

\* A state in which all motors rest.
LEMMA RestDrivesNone ==
  ASSUME NEW h \in Homers, NEW t \in Resting, local_state'[h] = t,
         \A m \in Motors : drive'[m] = Idle,
         \A s \in HomingStages : Place[s] < Place[t] => results'[h][s] = "own"
  PROVE  OnItsWay(h)' /\ OneMotorDriven'
<1>1. t \notin HomingStages
  BY PlacesAtRest
<1> QED BY <1>1 DEF OnItsWay, OneMotorDriven

LEMMA StepStartUndisturbed ==
  ASSUME Lifetimes, Undisturbed, NEW h \in Homers, StepStart(h)
  PROVE  Undisturbed'
<1> DEFINE t == "homing_tool_up"
<1>1. Alive(h) /\ t \in LocalStates /\ t # "unborn" /\ local_state'[h] = t
  BY Places, PlacesAtRest DEF StepStart, Alive, Lifetimes, TypeOK
<1>2. \A m \in Motors : drive'[m] = IF m = MotorOf[t] THEN [by |-> h, for |-> t] ELSE Idle
  BY PlacesAtRest DEF StepStart, Driving
<1>3. \A s \in HomingStages : ~ (Place[s] < Place[t])
  BY Places, PlacesAtRest
<1>4. OnItsWay(h)' /\ OneMotorDriven'
  BY <1>1, <1>2, <1>3, PlacesAtRest, StageDrives
<1> QED BY <1>1, <1>4, GoesOn DEF StepStart

LEMMA StepStalledUndisturbed ==
  ASSUME Lifetimes, Undisturbed, NEW h \in Homers, StepStalled(h)
  PROVE  Undisturbed'
<1> DEFINE stage == local_state[h]
           motor == MotorOf[stage]
           next == StageAfter[stage]
           stopped == [drive EXCEPT ![motor] = Idle]
<1>1. /\ stage \in HomingStages /\ motor \in Motors
      /\ next \in (HomingStages \cup Resting) \ {"showing_results"} /\ Place[next] = Place[stage] + 1
      /\ next \in LocalStates /\ next # "unborn" /\ Alive(h) /\ stage # "showing_results"
  BY Places, PlacesAtRest DEF StepStalled, Alive, Resting, Nowhere
<1>2. local_state'[h] = next
  BY <1>1 DEF StepStalled, Lifetimes, TypeOK
<1>3. ASSUME ~ overlap
      PROVE  OnItsWay(h)' /\ OneMotorDriven'
  <2>1. OnItsWay(h)
    BY <1>1, <1>3 DEF Undisturbed
  <2>2. \A m \in Motors : drive[m] = IF m = motor THEN [by |-> h, for |-> stage] ELSE Idle
    BY <1>1, <2>1 DEF OnItsWay
  <2>3. results' = [results EXCEPT ![h][stage] = "own"]
    BY <1>1, <2>2 DEF StepStalled
  <2>4. \A s \in HomingStages : Place[s] < Place[next] => results'[h][s] = "own"
    <3> SUFFICES ASSUME NEW s \in HomingStages, Place[s] < Place[next] PROVE results'[h][s] = "own"
      OBVIOUS
    <3>1. s = stage \/ Place[s] < Place[stage]
      BY <1>1, Places
    <3>2. results'[h][s] = IF s = stage THEN "own" ELSE results[h][s]
      BY <1>1, <2>3 DEF Lifetimes, TypeOK
    <3>3. Place[s] < Place[stage] => results[h][s] = "own"
      BY <2>1 DEF OnItsWay
    <3> QED BY <3>1, <3>2, <3>3
  <2>5. \A m \in Motors : stopped[m] = Idle
    BY <1>1, <2>2 DEF Lifetimes, TypeOK
  <2>6. CASE next \in HomingStages
    <3>1. drive' = Driving(stopped, MotorOf[next], h, next) /\ MotorOf[next] \in Motors
      BY <2>6, Places DEF StepStalled
    <3>2. \A m \in Motors : drive'[m] = IF m = MotorOf[next] THEN [by |-> h, for |-> next] ELSE Idle
      BY <2>5, <3>1 DEF Driving, Lifetimes, TypeOK
    <3> QED BY <1>1, <1>2, <2>4, <2>6, <3>2, StageDrives
  <2>7. CASE next \notin HomingStages
    <3>1. \A m \in Motors : drive'[m] = Idle
      BY <2>5, <2>7 DEF StepStalled
    <3> QED BY <1>1, <1>2, <2>4, <2>7, <3>1, RestDrivesNone
  <2> QED BY <2>6, <2>7
<1>4. \A g \in Homers \ {h} : results'[g] = results[g]
  BY DEF StepStalled, Lifetimes, TypeOK
<1>5. local_state' = [local_state EXCEPT ![h] = next] /\ UNCHANGED <<connected, overlap>>
  BY DEF StepStalled
<1> QED BY <1>1, <1>3, <1>4, <1>5, GoesOn

LEMMA StepToolDownUndisturbed ==
  ASSUME Lifetimes, Undisturbed, NEW h \in Homers, StepToolDown(h)
  PROVE  Undisturbed'
<1> DEFINE t == "homing_tool_down"
           before == "go_for_homing_tool_down"
<1>1. Alive(h) /\ t \in LocalStates /\ t # "unborn" /\ local_state'[h] = t /\ local_state[h] = before
  BY Places, PlacesAtRest DEF StepToolDown, Alive, Lifetimes, TypeOK
<1>2. ASSUME ~ overlap
      PROVE  OnItsWay(h)' /\ OneMotorDriven'
  <2>1. OnItsWay(h)
    BY <1>1, <1>2 DEF Undisturbed
  <2>2. \A m \in Motors : drive[m] = Idle
    BY <1>1, <2>1 DEF OnItsWay
  <2>3. \A m \in Motors : drive'[m] = IF m = MotorOf[t] THEN [by |-> h, for |-> t] ELSE Idle
    BY <2>2, PlacesAtRest DEF StepToolDown, Driving, Lifetimes, TypeOK
  <2>4. \A s \in HomingStages : Place[s] < Place[t] => results'[h][s] = "own"
    BY <1>1, <2>1, PlacesAtRest DEF OnItsWay, StepToolDown
  <2> QED BY <1>1, <2>3, <2>4, PlacesAtRest, StageDrives
<1> QED BY <1>1, <1>2, GoesOn DEF StepToolDown

LEMMA StepShowResultsUndisturbed ==
  ASSUME Lifetimes, Undisturbed, NEW h \in Homers, StepShowResults(h)
  PROVE  Undisturbed'
<1> DEFINE t == "showing_results"
<1>1. Alive(h) /\ t \in LocalStates \cap Resting /\ t # "unborn" /\ local_state'[h] = t
        /\ local_state[h] = "show_results"
  BY PlacesAtRest DEF StepShowResults, Alive, Lifetimes, TypeOK, Resting
<1>2. ASSUME ~ overlap
      PROVE  OnItsWay(h)' /\ OneMotorDriven'
  <2>1. OnItsWay(h)
    BY <1>1, <1>2 DEF Undisturbed
  <2>2. \A m \in Motors : drive'[m] = Idle
    BY <1>1, <2>1 DEF OnItsWay, StepShowResults, motors
  <2>3. \A s \in HomingStages : Place[s] < Place[t] => results'[h][s] = "own"
    BY <1>1, <2>1, PlacesAtRest DEF OnItsWay, StepShowResults
  <2> QED BY <1>1, <2>2, <2>3, RestDrivesNone
<1> QED BY <1>1, <1>2, GoesOn DEF StepShowResults

(***************************************************************************)
(* A homing that stops, for good or to be taken down, may leave a motor    *)
(* running, but no second one.                                             *)
(***************************************************************************)
LEMMA Stopping ==
  ASSUME Lifetimes, Undisturbed, NEW h \in Homers, Alive(h), NEW t \in {"stop", "stop_failed", "done"},
         UNCHANGED <<connected, overlap, results, drive>>,
         local_state' = [local_state EXCEPT ![h] = t]
  PROVE  Undisturbed'
<1>1. local_state'[h] = t /\ t \in LocalStates /\ t # "unborn"
  BY DEF Lifetimes, TypeOK, LocalStates
<1>2. Place[t] = 0 /\ t \notin HomingStages \cup Resting
  BY Places, PlacesAtRest DEF Nowhere
<1>3. OnItsWay(h)'
  BY <1>1, <1>2, Places DEF OnItsWay, Resting
<1>4. ~ overlap => OneMotorDriven'
  BY DEF Undisturbed, OneMotorDriven
<1> QED BY <1>1, <1>3, <1>4, GoesOn

(***************************************************************************)
(* A homing that is started when none is alive is alone, and has not found *)
(* anything; one that is started during another ends what is said here.    *)
(***************************************************************************)
LEMMA HomeUndisturbed ==
  ASSUME Lifetimes, Undisturbed, NEW h \in Homers, Home(h), UNCHANGED <<connected, results, drive>>
  PROVE  Undisturbed'
<1> SUFFICES ASSUME ~ overlap' PROVE Undisturbed'
  BY DEF Undisturbed
<1>1. ~ overlap /\ \A g \in Homers : ~ Alive(g)
  BY DEF Home
<1>2. \A g \in Homers : local_state'[g] =
        IF g = h THEN (IF connected THEN "start" ELSE "showing_results") ELSE local_state[g]
  BY DEF Home, Lifetimes, TypeOK
<1>3. \A f, g \in Homers : Alive(f)' /\ Alive(g)' => f = g
  BY <1>1, <1>2 DEF Alive
<1>4. ASSUME NEW g \in Homers, connected' \/ local_state'[g] # "showing_results"
      PROVE  OnItsWay(g)'
  <2>1. local_state'[g] \in {"unborn", "done", "start"}
    BY <1>1, <1>2, <1>4 DEF Alive
  <2>2. Place[local_state'[g]] = 0 /\ local_state'[g] \notin HomingStages \cup Resting
    BY <2>1, Places, PlacesAtRest DEF Nowhere
  <2> QED BY <2>2, Places DEF OnItsWay, Resting
<1>5. OneMotorDriven'
  BY <1>1 DEF Undisturbed, OneMotorDriven
<1> QED BY <1>3, <1>4, <1>5 DEF Undisturbed

LEMMA LoopClickUndisturbed ==
  ASSUME Lifetimes, Undisturbed, LoopClick
  PROVE  Undisturbed'
<1>1. UNCHANGED <<connected, results, drive>>
  BY DEF LoopClick, motors
<1>2. CASE ClickMainMenu
  <2>1. CASE \E h \in MenuHomers : Home(h)
    BY <1>1, <2>1, HomeUndisturbed DEF Homers
  <2>2. CASE UNCHANGED <<local_state, overlap>>
    BY <1>1, <2>2, SameUndisturbed
  <2> QED BY <1>2, <2>1, <2>2 DEF ClickMainMenu
<1>3. CASE ClickExitMenu \/ ClickDialog
  BY <1>1, <1>3, SameUndisturbed DEF ClickExitMenu, ClickDialog
<1>4. CASE ClickHomeState
  <2>1. PICK h \in Homers, success \in BOOLEAN :
          (widget = HomingMessage(h) \/ widget = ResultsMessage(h)) /\ Finish(h, success)
    BY <1>4 DEF ClickHomeState, Lifetimes, TypeOK
  <2>2. Alive(h)
    <3>1. widget.of = h
      BY <2>1 DEF HomingMessage, ResultsMessage
    <3> QED BY <3>1 DEF Lifetimes, NoDanglingWidget, Alive
  <2>3. UNCHANGED overlap
    BY <1>4 DEF ClickHomeState
  <2>4. PICK t \in {"stop", "stop_failed"} : local_state' = [local_state EXCEPT ![h] = t]
    BY <2>1 DEF Finish
  <2> QED BY <1>1, <2>2, <2>3, <2>4, Stopping
<1> QED BY <1>2, <1>3, <1>4 DEF LoopClick

LEMMA UndisturbedStep ==
  ASSUME Lifetimes, Undisturbed, [Next]_vars
  PROVE  Undisturbed'
<1>1. ASSUME NEW h \in Homers, Step(h)
      PROVE  Undisturbed'
  <2>1. CASE StepWait(h)
    BY <2>1, SameUndisturbed DEF StepWait, machines, motors
  <2>2. CASE StepDone(h)
    <3>1. Alive(h)
      BY <2>2 DEF StepDone, Alive
    <3> QED BY <2>2, <3>1, Stopping DEF StepDone, motors
  <2> QED BY <1>1, <2>1, <2>2, StepStartUndisturbed, StepStalledUndisturbed,
             StepToolDownUndisturbed, StepShowResultsUndisturbed DEF Step
<1>2. CASE LoopStep
  <2>1. CASE LoopStart \/ (\E pressed \in BOOLEAN : LoopNoClick(pressed)) \/ (\E zero \in BOOLEAN : LoopDraw(zero))
    BY <2>1, SameUndisturbed DEF LoopStart, LoopNoClick, LoopDraw, machines, motors
  <2>2. CASE LoopServer
    <3>1. UNCHANGED <<connected, results, drive>>
      BY <2>2 DEF LoopServer, motors
    <3>2. CASE \E h \in ServerHomers : Home(h)
      BY <3>1, <3>2, HomeUndisturbed DEF Homers
    <3>3. CASE UNCHANGED <<local_state, overlap>>
      BY <3>1, <3>3, SameUndisturbed
    <3> QED BY <2>2, <3>2, <3>3 DEF LoopServer
  <2> QED BY <1>2, <2>1, <2>2, LoopClickUndisturbed DEF LoopStep
<1>3. CASE Return
  BY <1>3, SameUndisturbed DEF Return, machines, motors
<1>4. ASSUME NEW m \in Motors, Stall(m)
      PROVE  Undisturbed'
  BY <1>4, SameUndisturbed DEF Stall, machines
<1>5. CASE UNCHANGED vars
  BY <1>5, SameUndisturbed DEF vars, machines, motors
<1> QED BY <1>1, <1>2, <1>3, <1>4, <1>5 DEF Next

LEMMA InitUndisturbed == Init => Undisturbed
<1> SUFFICES ASSUME Init PROVE Undisturbed
  OBVIOUS
<1>1. \A h \in Homers : local_state[h] = "unborn" /\ ~ Alive(h)
  BY DEF Init, Alive
<1>2. ASSUME NEW h \in Homers PROVE OnItsWay(h)
  <2>1. Place["unborn"] = 0 /\ "unborn" \notin HomingStages \cup Resting
    BY Places, PlacesAtRest DEF Nowhere
  <2> QED BY <1>1, <2>1, Places DEF OnItsWay, Resting
<1>3. OneMotorDriven
  BY DEF Init, OneMotorDriven
<1> QED BY <1>1, <1>2, <1>3 DEF Undisturbed

(***************************************************************************)
(* For any number of homings: what is on display is alive, each has its    *)
(* task, and as long as none was started during another one each is in     *)
(* order: it has found what comes before the state it is in, and drives    *)
(* the motor of its stage and no other.                                    *)
(***************************************************************************)
THEOREM HomingInvariant == Spec => []IInv
<1>1. Spec => []Undisturbed
  BY LifetimesInvariant, InitUndisturbed, UndisturbedStep, PTL DEF Spec
<1> QED BY <1>1, LifetimesInvariant, PTL DEF IInv

(***************************************************************************)
(* Results that are shown without interference are six stalls of its own,  *)
(* with all motors stopped.                                                *)
(***************************************************************************)
THEOREM ResultsAreComplete == Spec => []CompleteResults
<1>1. Lifetimes /\ Undisturbed => CompleteResults
  <2> SUFFICES ASSUME Undisturbed, ~ overlap, NEW h \in Homers, connected,
                      local_state[h] \in {"show_results", "showing_results"}
               PROVE  /\ \A s \in HomingStages : results[h][s] = "own"
                      /\ \A m \in Motors : drive[m] = Idle
    BY DEF CompleteResults
  <2>1. OnItsWay(h)
    BY DEF Undisturbed
  <2>2. Place[local_state[h]] = 7 /\ \A s \in HomingStages : Place[s] < 7
    BY Places, PlacesAtRest
  <2> QED BY <2>1, <2>2 DEF OnItsWay
<1> QED BY <1>1, HomingInvariant, PTL DEF IInv

(***************************************************************************)
(* Homings that do not overlap never drive two motors at a time, stopped   *)
(* and started again as they may be.                                       *)
(***************************************************************************)
THEOREM OneMotorAtATime == Spec => []OneMotorDriven
<1>1. Undisturbed => OneMotorDriven
  BY DEF Undisturbed, OneMotorDriven
<1> QED BY <1>1, HomingInvariant, PTL DEF IInv
=============================================================================
