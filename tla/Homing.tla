------------------------------- MODULE Homing -------------------------------
(***************************************************************************)
(* commands::home of plotter/driver.cpp inside the main loop of            *)
(* plotter/main.cpp.  Each call creates a HomeState, a state machine that  *)
(* drives the three motors against their end stops one after the other and *)
(* records where they stall.  It advances by one step() per task of the    *)
(* Scheduler, shows a dialog with an ok button, and can be started from    *)
(* the main menu or by a G28 message of the server: nothing prevents two   *)
(* of them from running at the same time.                                  *)
(*                                                                         *)
(* The scheduler is used through the contract proved of it (TaskPool):     *)
(* tasks with no delay first, in the order of submission; a task with a    *)
(* deadline some time later.  The clock is left out: tasks with a deadline *)
(* become due in any order.                                                *)
(***************************************************************************)
EXTENDS Integers, Sequences, Functions

CONSTANTS
  MenuHomers,    \* bound: calls of commands::home made by the main menu
  ServerHomers,  \* bound: calls made on behalf of G28 messages
  Loop,          \* the task of the main loop
  NoOne          \* no HomeState

Homers == MenuHomers \cup ServerHomers
Tasks  == Homers \cup {Loop}

ASSUME HomingAssumption ==
  /\ MenuHomers \cap ServerHomers = {}
  /\ Loop \notin Homers
  /\ NoOne \notin Homers

Motors == {"tool_motor", "x_motor", "y_motor"}

(***************************************************************************)
(* The states in which HomeState waits for a motor to stall, the motor,    *)
(* and the state it goes to then.                                          *)
(***************************************************************************)
HomingStages ==
  {"homing_tool_up", "homing_x_left", "homing_x_right",
   "homing_y_min", "homing_y_max", "homing_tool_down"}

MotorOf ==
  [homing_tool_up |-> "tool_motor", homing_x_left |-> "x_motor", homing_x_right |-> "x_motor",
   homing_y_min |-> "y_motor", homing_y_max |-> "y_motor", homing_tool_down |-> "tool_motor"]

\* Mutant of StageAfter: the stage that looks for the pen-down position is
\* skipped.
StageAfterNoToolDown ==
  [homing_tool_up |-> "homing_x_left", homing_x_left |-> "homing_x_right",
   homing_x_right |-> "homing_y_min", homing_y_min |-> "homing_y_max",
   homing_y_max |-> "show_results", homing_tool_down |-> "show_results"]

StageAfter ==
  [homing_tool_up |-> "homing_x_left", homing_x_left |-> "homing_x_right",
   homing_x_right |-> "homing_y_min", homing_y_min |-> "homing_y_max",
   homing_y_max |-> "go_for_homing_tool_down", homing_tool_down |-> "show_results"]

LocalStates ==
  HomingStages \cup {"start", "go_for_homing_tool_down", "show_results", "showing_results",
                     "stop", "stop_failed", "unborn", "done"}

(***************************************************************************)
(* What state::widget_ shows: the main menu, the exit menu, any dialog     *)
(* that only leads back to the main menu, or one of the two messages of a  *)
(* HomeState.                                                              *)
(***************************************************************************)
MainMenu == [of |-> NoOne, kind |-> "main_menu"]
ExitMenu == [of |-> NoOne, kind |-> "exit_menu"]
Dialog   == [of |-> NoOne, kind |-> "dialog"]
HomingMessage(h)  == [of |-> h, kind |-> "homing_message"]
ResultsMessage(h) == [of |-> h, kind |-> "results_message"]

Widgets ==
  {MainMenu, ExitMenu, Dialog} \cup [of : Homers, kind : {"homing_message", "results_message"}]

VARIABLES
  connected,     \* are the three motors connected: fixed when state is built
  local_state,   \* HomeState::local_state_; "unborn" before, "done" after
  results,       \* ghost of HomeState::results_: what each entry comes from
  drive,         \* who drives each motor, and for which stage
  stalled,       \* is the motor stalled
  widget,        \* state::widget_
  changed,       \* state::changed_
  prev_pressed,  \* the ok button's prev_pressed_
  homed,         \* state::homed_: the HomeState whose results it holds
  reply,         \* the response given to each G28
  overlap,       \* ghost: a homing has been started during another one
  exit,          \* "yes" was chosen in the exit menu
  immediate,     \* tasks scheduled with no delay, in order of submission
  timed,         \* tasks scheduled with a delay
  phase          \* where the one thread is

machines == <<local_state, results, homed, reply>>
motors   == <<drive, stalled>>
ui       == <<widget, changed>>
tasks    == <<immediate, timed>>
vars     == <<connected, overlap, machines, motors, ui, prev_pressed, exit, tasks, phase>>

Idle == [by |-> NoOne, for |-> "none"]
Drives == {Idle} \cup [by : Homers, for : HomingStages]

(***************************************************************************)
(* Where an entry of the results comes from: its initial value 0, a stall  *)
(* against the end stop this HomeState was driving the motor to, or a      *)
(* stall while another one was driving it.                                 *)
(***************************************************************************)
Sources == {"zero", "own", "foreign"}

Init ==
  /\ connected \in BOOLEAN
  /\ local_state = [h \in Homers |-> "unborn"]
  /\ results = [h \in Homers |-> [s \in HomingStages |-> "zero"]]
  /\ drive = [m \in Motors |-> Idle]
  /\ stalled = [m \in Motors |-> FALSE]
  /\ widget = MainMenu
  /\ changed = TRUE
  /\ prev_pressed = FALSE
  /\ homed = NoOne
  /\ reply = [h \in ServerHomers |-> "none"]
  /\ overlap = FALSE
  /\ exit = FALSE
  /\ immediate = <<Loop>>
  /\ timed = {}
  /\ phase = "sched"

-----------------------------------------------------------------------------
(***************************************************************************)
(* The scheduler takes the next task.                                      *)
(***************************************************************************)
Takes(t) ==
  /\ phase = "sched"
  /\ IF immediate # <<>> THEN t = Head(immediate) ELSE t \in timed

Remaining(t) ==
  IF immediate # <<>> THEN <<Tail(immediate), timed>> ELSE <<immediate, timed \ {t}>>

Alive(h) == local_state[h] \notin {"unborn", "done"}

SetWidget(w) ==
  /\ widget' = w
  /\ changed' = TRUE

(***************************************************************************)
(* start_motor: m is driven by h for stage s.  Whatever it was doing, it   *)
(* moves again.  The 300 ms sleep is inside the step.                      *)
(***************************************************************************)
Driving(d, m, h, s) == [d EXCEPT ![m] = [by |-> h, for |-> s]]

(***************************************************************************)
(* step() schedules the next step 10 ms later.                             *)
(***************************************************************************)
Reschedule(h) ==
  /\ immediate' = Remaining(h)[1]
  /\ timed' = Remaining(h)[2] \cup {h}

\* Mutant of StepStart: the motors are not reset.
StepStartNoReset(h) ==
  /\ Takes(h)
  /\ local_state[h] = "start"
  /\ drive' = Driving(drive, "tool_motor", h, "homing_tool_up")
  /\ stalled' = [stalled EXCEPT !["tool_motor"] = FALSE]
  /\ local_state' = [local_state EXCEPT ![h] = "homing_tool_up"]
  /\ Reschedule(h)
  /\ UNCHANGED <<connected, overlap, results, homed, reply, ui, prev_pressed, exit, phase>>

StepStart(h) ==
  /\ Takes(h)
  /\ local_state[h] = "start"
  /\ drive' = Driving([m \in Motors |-> Idle], "tool_motor", h, "homing_tool_up")
  /\ stalled' = [m \in Motors |-> FALSE]
  /\ local_state' = [local_state EXCEPT ![h] = "homing_tool_up"]
  /\ Reschedule(h)
  /\ UNCHANGED <<connected, overlap, results, homed, reply, ui, prev_pressed, exit, phase>>

(***************************************************************************)
(* finish_homing finds the motor stalled: store its position, stop it and  *)
(* go on, which starts the next motor except after homing_y_max and        *)
(* homing_tool_down.                                                       *)
(***************************************************************************)
StepStalled(h) ==
  LET stage == local_state[h]
      motor == MotorOf[stage]
      next  == StageAfter[stage]
      stopped == [drive EXCEPT ![motor] = Idle]
      source == IF drive[motor] = [by |-> h, for |-> stage] THEN "own" ELSE "foreign"
  IN
  /\ Takes(h)
  /\ stage \in HomingStages
  /\ stalled[motor]
  /\ results' = [results EXCEPT ![h][stage] = source]
  /\ drive' = IF next \in HomingStages THEN Driving(stopped, MotorOf[next], h, next) ELSE stopped
  /\ stalled' = [m \in Motors |->
                   stalled[m] /\ m # motor /\ (next \in HomingStages => m # MotorOf[next])]
  /\ local_state' = [local_state EXCEPT ![h] = next]
  /\ Reschedule(h)
  /\ UNCHANGED <<connected, overlap, homed, reply, ui, prev_pressed, exit, phase>>

(***************************************************************************)
(* The motor still moves, or the results are being shown: look again in    *)
(* 10 ms.                                                                  *)
(***************************************************************************)
StepWait(h) ==
  /\ Takes(h)
  /\ \/ local_state[h] \in HomingStages /\ ~ stalled[MotorOf[local_state[h]]]
     \/ local_state[h] = "showing_results"
  /\ Reschedule(h)
  /\ UNCHANGED <<connected, overlap, machines, motors, ui, prev_pressed, exit, phase>>

StepToolDown(h) ==
  /\ Takes(h)
  /\ local_state[h] = "go_for_homing_tool_down"
  /\ drive' = Driving(drive, "tool_motor", h, "homing_tool_down")
  /\ stalled' = [stalled EXCEPT !["tool_motor"] = FALSE]
  /\ local_state' = [local_state EXCEPT ![h] = "homing_tool_down"]
  /\ Reschedule(h)
  /\ UNCHANGED <<connected, overlap, results, homed, reply, ui, prev_pressed, exit, phase>>

StepShowResults(h) ==
  /\ Takes(h)
  /\ local_state[h] = "show_results"
  /\ SetWidget(ResultsMessage(h))
  /\ local_state' = [local_state EXCEPT ![h] = "showing_results"]
  /\ Reschedule(h)
  /\ UNCHANGED <<connected, overlap, results, homed, reply, motors, prev_pressed, exit, phase>>

\* Mutant of StepDone: "break" in place of "return", so it is rescheduled.
StepDoneReschedules(h) ==
  /\ Takes(h)
  /\ local_state[h] \in {"stop", "stop_failed"}
  /\ homed' = IF local_state[h] = "stop" THEN h ELSE homed
  /\ reply' = [s \in ServerHomers |->
                 IF s # h THEN reply[s] ELSE IF local_state[h] = "stop" THEN "ok" ELSE "error"]
  /\ local_state' = [local_state EXCEPT ![h] = "done"]
  /\ Reschedule(h)
  /\ UNCHANGED <<connected, overlap, results, motors, ui, prev_pressed, exit, phase>>

(***************************************************************************)
(* stop and stop_failed: call done and do not reschedule, which destroys   *)
(* the HomeState.                                                          *)
(***************************************************************************)
StepDone(h) ==
  /\ Takes(h)
  /\ local_state[h] \in {"stop", "stop_failed"}
  /\ homed' = IF local_state[h] = "stop" THEN h ELSE homed
  /\ reply' = [s \in ServerHomers |->
                 IF s # h THEN reply[s] ELSE IF local_state[h] = "stop" THEN "ok" ELSE "error"]
  /\ local_state' = [local_state EXCEPT ![h] = "done"]
  /\ immediate' = Remaining(h)[1]
  /\ timed' = Remaining(h)[2]
  /\ UNCHANGED <<connected, overlap, results, motors, ui, prev_pressed, exit, phase>>

Step(h) ==
  \/ StepStart(h)
  \/ StepStalled(h)
  \/ StepWait(h)
  \/ StepToolDown(h)
  \/ StepShowResults(h)
  \/ StepDone(h)

-----------------------------------------------------------------------------
(***************************************************************************)
(* commands::home: a HomeState is made, shows its message, and its first   *)
(* step is scheduled with no delay.  With a motor missing it never moves:  *)
(* it shows why, and its button makes it fail.                             *)
(***************************************************************************)
Home(h) ==
  /\ local_state[h] = "unborn"
  /\ local_state' = [local_state EXCEPT ![h] = IF connected THEN "start" ELSE "showing_results"]
  /\ SetWidget(HomingMessage(h))
  /\ immediate' = Append(immediate, h)
  /\ overlap' = (overlap \/ \E g \in Homers : Alive(g))

\* Mutants of Finish: the widget is not replaced; the state is not changed.
FinishKeepsWidget(h, success) ==
  /\ UNCHANGED widget
  /\ changed' = TRUE
  /\ local_state' = [local_state EXCEPT ![h] = IF success THEN "stop" ELSE "stop_failed"]

FinishKeepsState(h, success) ==
  /\ SetWidget(MainMenu)
  /\ UNCHANGED local_state

(***************************************************************************)
(* HomeState::finish, the click of its messages.                           *)
(***************************************************************************)
Finish(h, success) ==
  /\ SetWidget(MainMenu)
  /\ local_state' = [local_state EXCEPT ![h] = IF success THEN "stop" ELSE "stop_failed"]

LoopStart ==
  /\ Takes(Loop)
  /\ immediate' = Remaining(Loop)[1]
  /\ timed' = Remaining(Loop)[2]
  /\ phase' = "events"
  /\ UNCHANGED <<connected, overlap, machines, motors, ui, prev_pressed, exit>>

(***************************************************************************)
(* state::handle_events reads the buttons, down and up before ok.  Once    *)
(* changed_ is set, by something else or by a move in a menu, the short    *)
(* circuit in it drops the press of ok, which is consumed all the same.    *)
(***************************************************************************)
LoopNoClick(pressed) ==
  /\ phase = "events"
  /\ \E moved \in {FALSE} \cup {w \in {TRUE} : widget \in {MainMenu, ExitMenu}} :
       /\ pressed /\ ~ prev_pressed => changed \/ moved
       /\ changed' = (changed \/ moved)
  /\ prev_pressed' = pressed
  /\ phase' = "server"
  /\ UNCHANGED <<connected, overlap, machines, motors, widget, exit, tasks>>

(***************************************************************************)
(* A press of ok reaches the widget.                                       *)
(***************************************************************************)
ClickMainMenu ==
  /\ widget = MainMenu
  /\ \/ (\E h \in MenuHomers : Home(h)) /\ UNCHANGED <<timed, exit>>
     \/ (\E w \in {Dialog, ExitMenu} : SetWidget(w)) /\ UNCHANGED <<local_state, tasks, exit, overlap>>

ClickExitMenu ==
  /\ widget = ExitMenu
  /\ \/ exit' = TRUE /\ changed' = TRUE /\ UNCHANGED widget
     \/ SetWidget(MainMenu) /\ UNCHANGED exit
  /\ UNCHANGED <<local_state, tasks, overlap>>

ClickDialog ==
  /\ widget = Dialog
  /\ SetWidget(MainMenu)
  /\ UNCHANGED <<local_state, tasks, exit, overlap>>

ClickHomeState ==
  /\ \E h \in Homers :
       \/ widget = HomingMessage(h) /\ Finish(h, connected)
       \/ widget = ResultsMessage(h) /\ Finish(h, TRUE)
  /\ UNCHANGED <<tasks, exit, overlap>>

LoopClick ==
  /\ phase = "events"
  /\ ~ prev_pressed /\ prev_pressed' = TRUE
  /\ ~ changed
  /\ ClickMainMenu \/ ClickExitMenu \/ ClickDialog \/ ClickHomeState
  /\ phase' = "server"
  /\ UNCHANGED <<connected, results, homed, reply, motors>>

(***************************************************************************)
(* Server::handle_events finds no G28, or one.                             *)
(***************************************************************************)
LoopServer ==
  /\ phase = "server"
  /\ \/ UNCHANGED <<local_state, ui, immediate, overlap>>
     \/ \E h \in ServerHomers : Home(h)
  /\ phase' = "draw"
  /\ UNCHANGED <<connected, results, homed, reply, motors, prev_pressed, exit, timed>>

\* Mutants of LoopDraw: changed_ is not reset; exit is not looked at.
LoopDrawKeepsChanged(zero) ==
  /\ phase = "draw"
  /\ immediate' = IF ~ exit /\ zero THEN Append(immediate, Loop) ELSE immediate
  /\ timed' = IF ~ exit /\ ~ zero THEN timed \cup {Loop} ELSE timed
  /\ phase' = "sched"
  /\ UNCHANGED <<connected, overlap, machines, motors, ui, prev_pressed, exit>>

LoopDrawNeverExits(zero) ==
  /\ phase = "draw"
  /\ changed' = FALSE
  /\ immediate' = IF zero THEN Append(immediate, Loop) ELSE immediate
  /\ timed' = IF zero THEN timed ELSE timed \cup {Loop}
  /\ phase' = "sched"
  /\ UNCHANGED <<connected, overlap, machines, motors, widget, prev_pressed, exit>>

(***************************************************************************)
(* draw() takes changed_ back; unless the program exits, the loop is       *)
(* scheduled again, 100 ms after its last run: a delay that may turn out   *)
(* to be zero, which the scheduler takes for "immediately".                *)
(***************************************************************************)
LoopDraw(zero) ==
  /\ phase = "draw"
  /\ changed' = FALSE
  /\ immediate' = IF ~ exit /\ zero THEN Append(immediate, Loop) ELSE immediate
  /\ timed' = IF ~ exit /\ ~ zero THEN timed \cup {Loop} ELSE timed
  /\ phase' = "sched"
  /\ UNCHANGED <<connected, overlap, machines, motors, widget, prev_pressed, exit>>

(***************************************************************************)
(* Scheduler::run returns, and with it main().                             *)
(***************************************************************************)
Return ==
  /\ phase = "sched"
  /\ immediate = <<>>
  /\ timed = {}
  /\ phase' = "returned"
  /\ UNCHANGED <<connected, overlap, machines, motors, ui, prev_pressed, exit, tasks>>

(***************************************************************************)
(* A driven motor reaches its end stop.                                    *)
(***************************************************************************)
Stall(m) ==
  /\ drive[m] # Idle
  /\ ~ stalled[m]
  /\ stalled' = [stalled EXCEPT ![m] = TRUE]
  /\ UNCHANGED <<connected, overlap, machines, drive, ui, prev_pressed, exit, tasks, phase>>

LoopStep ==
  \/ LoopStart
  \/ \E pressed \in BOOLEAN : LoopNoClick(pressed)
  \/ LoopClick
  \/ LoopServer
  \/ \E zero \in BOOLEAN : LoopDraw(zero)

Next ==
  \/ \E h \in Homers : Step(h)
  \/ LoopStep
  \/ Return
  \/ \E m \in Motors : Stall(m)

Spec == Init /\ [][Next]_vars

(***************************************************************************)
(* The thread keeps running.  A task with a deadline is run in the end:    *)
(* the contract of the scheduler, as long as the loop's delay is not zero  *)
(* from some point on.  A driven motor reaches its end stop.  The user     *)
(* lets go of the ok button and presses it again, alone, now and then.     *)
(***************************************************************************)
FairSpec ==
  /\ Spec
  /\ WF_vars(LoopStep) /\ WF_vars(Return)
  /\ SF_vars(LoopDraw(FALSE))
  /\ SF_vars(LoopStart) /\ \A h \in Homers : SF_vars(Step(h))
  /\ \A m \in Motors : WF_vars(Stall(m))
  /\ SF_vars(LoopNoClick(FALSE)) /\ SF_vars(LoopClick)

-----------------------------------------------------------------------------
TypeOK ==
  /\ connected \in BOOLEAN
  /\ local_state \in [Homers -> LocalStates]
  /\ results \in [Homers -> [HomingStages -> Sources]]
  /\ drive \in [Motors -> Drives]
  /\ stalled \in [Motors -> BOOLEAN]
  /\ widget \in Widgets
  /\ changed \in BOOLEAN
  /\ prev_pressed \in BOOLEAN
  /\ homed \in Homers \cup {NoOne}
  /\ reply \in [ServerHomers -> {"none", "ok", "error"}]
  /\ overlap \in BOOLEAN
  /\ exit \in BOOLEAN
  /\ immediate \in Seq(Tasks)
  /\ timed \subseteq Tasks
  /\ phase \in {"sched", "events", "server", "draw", "returned"}

(***************************************************************************)
(* The widget on display refers to a Message inside the HomeState, and     *)
(* only the HomeState's task keeps that alive: once it has decided to stop *)
(* its widget must be gone, however many homings replaced each other's     *)
(* widgets meanwhile, or the next draw or click uses freed memory.         *)
(***************************************************************************)
NoDanglingWidget ==
  \A h \in Homers :
    widget.of = h => local_state[h] \notin {"unborn", "stop", "stop_failed", "done"}

(***************************************************************************)
(* Every HomeState that lives has exactly one task pending, the main loop  *)
(* has one whenever it is not running itself and the program is not told   *)
(* to exit, and nothing else is pending: no step is lost or doubled, and   *)
(* main() cannot return under a homing that has not reported its outcome.  *)
(***************************************************************************)
OneTaskEach ==
  /\ \A i, j \in DOMAIN immediate : immediate[i] = immediate[j] => i = j
  /\ \A i \in DOMAIN immediate : immediate[i] \notin timed
  /\ \A h \in Homers : Alive(h) <=> h \in Range(immediate) \cup timed
  /\ Loop \in Range(immediate) \cup timed <=> phase = "sched" /\ ~ exit
  /\ phase = "returned" => immediate = <<>> /\ timed = {}

Lifetimes == TypeOK /\ NoDanglingWidget /\ OneTaskEach

\* No G28 has been received.
MenuOnly == \A h \in ServerHomers : local_state[h] = "unborn"

(***************************************************************************)
(* When homing reaches its results with no interference, each of the six   *)
(* is a stall against its own end stop, and the motors have been stopped.  *)
(***************************************************************************)
CompleteResults ==
  ~ overlap => \A h \in Homers :
    connected /\ local_state[h] \in {"show_results", "showing_results"} =>
      /\ \A s \in HomingStages : results[h][s] = "own"
      /\ \A m \in Motors : drive[m] = Idle

(***************************************************************************)
(* Homing moves one motor at a time, also when it was stopped half-way and *)
(* started again: the reset at the start of a homing stops what an earlier *)
(* one left running.                                                       *)
(***************************************************************************)
OneMotorDriven ==
  ~ overlap => \A m, n \in Motors : drive[m] # Idle /\ drive[n] # Idle => m = n

(***************************************************************************)
(* Why: the stages in their order, and the states between them.  A homing  *)
(* that was never disturbed has found what comes before the state it is    *)
(* in, drives the motor of its stage and no other, and leaves none running *)
(* between two stages that follow each other at rest.                      *)
(***************************************************************************)
Place ==
  [s \in LocalStates |->
     CASE s = "homing_tool_up" -> 1
       [] s = "homing_x_left" -> 2
       [] s = "homing_x_right" -> 3
       [] s = "homing_y_min" -> 4
       [] s = "homing_y_max" -> 5
       [] s \in {"go_for_homing_tool_down", "homing_tool_down"} -> 6
       [] s \in {"show_results", "showing_results"} -> 7
       [] OTHER -> 0]

OnItsWay(h) ==
  LET state == local_state[h] IN
  /\ \A s \in HomingStages : Place[s] < Place[state] => results[h][s] = "own"
  /\ state \in HomingStages =>
       \A m \in Motors : drive[m] = IF m = MotorOf[state] THEN [by |-> h, for |-> state] ELSE Idle
  /\ state \in {"go_for_homing_tool_down", "show_results", "showing_results"} =>
       \A m \in Motors : drive[m] = Idle

Undisturbed ==
  ~ overlap =>
    /\ \A g, h \in Homers : Alive(g) /\ Alive(h) => g = h
    /\ \A h \in Homers : connected \/ local_state[h] # "showing_results" => OnItsWay(h)
    /\ OneMotorDriven

IInv == Lifetimes /\ Undisturbed

(***************************************************************************)
(* A homing started from the menu ends: it shows its results or why it     *)
(* failed, is dismissed or stopped by ok, and reports to its caller.  A    *)
(* G28 may replace its dialog, and then nothing needs to end it.           *)
(***************************************************************************)
HomingEnds == (\E h \in MenuHomers : Alive(h)) ~> ((\A h \in MenuHomers : ~ Alive(h)) \/ ~ MenuOnly)

(***************************************************************************)
(* "yes" in the exit menu ends the program: no task is left that           *)
(* reschedules itself for ever.                                            *)
(***************************************************************************)
ExitEnds == exit ~> (phase = "returned" \/ ~ MenuOnly)

(***************************************************************************)
(* The dialog of a homing can always be closed, also when several homings  *)
(* run and replace each other's dialogs, unless the program was told to    *)
(* exit, which stops the loop that reads the buttons.                      *)
(***************************************************************************)
DialogCloses == (widget.of # NoOne) ~> (widget.of = NoOne \/ exit)

(***************************************************************************)
(* What the dialog says: "Press 'ok' to stop." (driver.cpp, in             *)
(* make_step_text).  Once no homing is in progress no motor is driven.     *)
(* finish() leaves the motor of the stage running.                         *)
(***************************************************************************)
OkStopsMotors ==
  (\A h \in Homers : ~ Alive(h)) => \A m \in Motors : drive[m] = Idle
=============================================================================
