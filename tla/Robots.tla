------------------------------- MODULE Robots -------------------------------
(***************************************************************************)
(* The programs of demos/ that move a robot, one of which is chosen:       *)
(*   autonomous   drive-test.cpp, control::drive_autonomously              *)
(*   remote       drive-test.cpp with mode 1, control::remote_loop         *)
(*   explorer     remote-control.cpp                                       *)
(*   prints       remote_control-test.cpp                                  *)
(*   motors       motor-test.cpp                                           *)
(* drive-test has two more threads, both detached, which share its flag    *)
(* _terminate, its _state and its motors without a lock: one waits for a   *)
(* key, one for the touch sensor.  A thread is the sequence of steps it    *)
(* has to do yet, each a write to a motor, an LED or a shared variable;    *)
(* what other threads do may come between any two.  A speed is abstracted  *)
(* to its direction, and whatever the motors do ends in finite time.       *)
(*                                                                         *)
(* A motor or a sensor may be unplugged at any moment.  The library throws *)
(* when it is used then, and none of the programs catches that: the        *)
(* process is terminated where it is, without a destructor, and what runs  *)
(* on the other port keeps running.                                        *)
(***************************************************************************)
EXTENDS RemoteControl, Integers, FiniteSets

CONSTANTS
  Distances,     \* what the infrared sensor may read in mode_ir_prox
  MaxUnplugged   \* bound: devices that are unplugged

ASSUME RobotsAssumption == Distances \subseteq Nat /\ MaxUnplugged \in Nat

Programs == {"autonomous", "remote", "explorer", "prints", "motors"}
Sides == {"left", "right"}
Threads == {"main", "key", "touch"}

VARIABLES
  program,     \* the program that runs
  pc,          \* where its main function is
  todo,        \* the steps each thread has to do yet
  motor,       \* of each side: speed_sp, what it runs for, and the direction it runs in
  leds,        \* of each side: their color
  state,       \* control::_state
  terminate,   \* control::_terminate, or the flag that the beacon sets
  key, touch,  \* the two threads: off, waits, or done
  gone,        \* what was unplugged: another device is there when it is plugged in again
  rc_value, rc_state,  \* of the remote control
  distance, start_distance, direction,  \* local to drive_autonomously
  printed      \* the buttons last printed as pressed

loopVars == <<distance, start_distance, direction>>
rcVars == <<rc_value, rc_state>>
shared == <<motor, leds, state, terminate, rcVars, printed>>

vars == <<program, pc, todo, key, touch, gone, loopVars, shared>>

DriveTest == program \in {"autonomous", "remote"}

Init ==
  /\ program \in Programs
  /\ pc = "loop"
  /\ todo = [t \in Threads |-> <<>>]
  /\ motor = [s \in Sides |-> [sp |-> "zero", run |-> "rest", dir |-> "zero"]]
  /\ leds = [s \in Sides |-> "off"]
  /\ state = "idle"
  /\ terminate = FALSE
  /\ key \in IF DriveTest THEN {"waits", "off"} ELSE {"off"}
  /\ touch \in IF DriveTest THEN {"waits", "off"} ELSE {"off"}
  /\ gone = {}
  /\ rc_value = 0 /\ rc_state = {}
  /\ distance = 0 /\ start_distance = 0 /\ direction = 100
  /\ printed = {}

-----------------------------------------------------------------------------
(***************************************************************************)
(* The functions of the programs, as the steps they consist of.            *)
(***************************************************************************)
Stop == <<<<"stop", "left">>, <<"stop", "right">>, <<"state", "idle">>>>

Reset == <<<<"reset", "left">>, <<"reset", "right">>, <<"state", "idle">>>>

\* control::drive, without and with a time.
Drive(dir) ==
  <<<<"speed", "left", dir>>, <<"speed", "right", dir>>, <<"state", "driving">>,
    <<"run", "left", "forever">>, <<"run", "right", "forever">>>>

DriveTimed(dir) ==
  <<<<"speed", "left", dir>>, <<"speed", "right", dir>>, <<"state", "driving">>,
    <<"run", "left", "timed">>, <<"run", "right", "timed">>, <<"wait">>, <<"state", "idle">>>>

\* control::turn to an angle that is not 0.
Turn ==
  (IF state # "idle" THEN Stop ELSE <<>>) \o
  <<<<"state", "turning">>,
    <<"speed", "left", "forward">>, <<"run", "left", "goal">>,
    <<"speed", "right", "forward">>, <<"run", "right", "goal">>, <<"wait">>, <<"state", "idle">>>>

\* drive of motor-test.cpp.
DriveBoth ==
  <<<<"speed", "left", "forward">>, <<"run", "left", "goal">>,
    <<"speed", "right", "forward">>, <<"run", "right", "goal">>, <<"wait">>>>

\* remote-control.cpp: roll, and what it does about an obstacle.
Roll(s, dir, pressed) ==
  IF pressed
  THEN <<<<"speed", s, dir>>, <<"run", s, "forever">>,
         <<"color", s, IF dir = "forward" THEN "green" ELSE "red">>>>
  ELSE <<<<"stop", s>>, <<"color", s, "off">>>>

BackAway ==
  <<<<"stop", "left">>, <<"stop", "right">>, <<"color", "left", "red">>, <<"color", "right", "red">>,
    <<"speed", "left", "backward">>, <<"run", "left", "timed">>,
    <<"speed", "right", "backward">>, <<"run", "right", "timed">>,
    <<"color", "left", "off">>, <<"color", "right", "off">>>>

\* The callbacks of remote_loop: a button that is pressed while the robot does something is ignored.
RemoteCallback(b, pressed) ==
  CASE b \in {"red_up", "red_down"} /\ ~ pressed -> Stop
    [] b = "red_up" /\ pressed /\ state = "idle" -> Drive("forward")
    [] b = "red_down" /\ pressed /\ state = "idle" -> Drive("backward")
    [] b \in {"blue_up", "blue_down"} /\ pressed /\ state = "idle" -> Turn
    [] b = "beacon" /\ pressed -> <<<<"terminate">>>>
    [] OTHER -> <<>>

ExplorerCallback(b, pressed) ==
  CASE b = "red_up" -> Roll("left", "forward", pressed)
    [] b = "red_down" -> Roll("left", "backward", pressed)
    [] b = "blue_up" -> Roll("right", "forward", pressed)
    [] b = "blue_down" -> Roll("right", "backward", pressed)
    [] OTHER -> <<>>

PrintCallback(b, pressed) ==
  IF b = "beacon" THEN (IF pressed THEN <<<<"terminate">>>> ELSE <<>>) ELSE <<<<"print", b, pressed>>>>

Callback(b, pressed) ==
  CASE program = "remote" -> RemoteCallback(b, pressed)
    [] program = "explorer" -> ExplorerCallback(b, pressed)
    [] program = "prints" -> PrintCallback(b, pressed)

\* remote_control::process: the callbacks come before _state and _value are set.
Process(value) ==
  IF value = rc_value THEN <<>> ELSE Append(Calls(rc_state, StateOf(value)), <<"saved", value>>)

-----------------------------------------------------------------------------
(***************************************************************************)
(* A thread does its next step.  The motors start with the speed_sp they   *)
(* have at that moment.  motor is what a motor was told last.              *)
(***************************************************************************)
Running(s) == motor[s].run # "rest"

Driven(op) ==
  CASE op[1] = "speed" -> [motor EXCEPT ![op[2]].sp = op[3]]
    [] op[1] = "run" -> [motor EXCEPT ![op[2]].run = op[3], ![op[2]].dir = motor[op[2]].sp]
    [] op[1] = "stop" -> [motor EXCEPT ![op[2]].run = "rest", ![op[2]].dir = "zero"]
    [] op[1] = "reset" -> [motor EXCEPT ![op[2]] = [sp |-> "zero", run |-> "rest", dir |-> "zero"]]
    [] OTHER -> motor

Do(op) ==
  /\ motor' = Driven(op)
  /\ leds' = IF op[1] = "color" THEN [leds EXCEPT ![op[2]] = op[3]] ELSE leds
  /\ state' = IF op[1] = "state" THEN op[2] ELSE state
  /\ terminate' = (terminate \/ op[1] = "terminate")
  /\ rc_value' = IF op[1] = "saved" THEN op[2] ELSE rc_value
  /\ rc_state' = IF op[1] = "saved" THEN StateOf(op[2]) ELSE rc_state
  /\ printed' = IF op[1] # "print" THEN printed
                ELSE IF op[3] THEN printed \cup {op[2]} ELSE printed \ {op[2]}

\* The process is over: main has returned, or std::terminate was called.
Over == pc \in {"ended", "aborted"}

\* A write to a motor that is there no more.
Fails(op) == op[1] \in {"speed", "run", "stop", "reset"} /\ op[2] \in gone

Exec(t) ==
  /\ ~ Over
  /\ todo[t] # <<>>
  /\ LET op == Head(todo[t]) IN
       /\ ~ Fails(op)
       /\ op[1] = "wait" => \A s \in Sides \ gone : ~ Running(s)
       /\ IF op[1] = "call"
          THEN /\ todo' = [todo EXCEPT ![t] = Callback(op[2], op[3]) \o Tail(todo[t])]
               /\ UNCHANGED shared
          ELSE todo' = [todo EXCEPT ![t] = Tail(todo[t])] /\ Do(op)
  /\ UNCHANGED <<program, pc, key, touch, gone, loopVars>>

(***************************************************************************)
(* An exception that nobody catches, in any thread: nothing is done any    *)
(* more.  A write throws; reset(), too, as connected() only says that the  *)
(* motor was found once.  The state that is waited for is read as empty,   *)
(* from a file that is open, or throws, too.                               *)
(***************************************************************************)
Aborts ==
  /\ pc' = "aborted"
  /\ UNCHANGED <<program, todo, key, touch, gone, loopVars, shared>>

MotorThrows(t) ==
  /\ ~ Over
  /\ todo[t] # <<>>
  /\ Fails(Head(todo[t])) \/ (Head(todo[t]) = <<"wait">> /\ Sides \cap gone # {})
  /\ Aborts

(***************************************************************************)
(* The main functions.  Each has the shape of a loop whose body hands the  *)
(* main thread steps to do, and goes on when they are done.                *)
(***************************************************************************)
At(place) == pc = place /\ todo["main"] = <<>>

Then(steps, place) ==
  /\ todo' = [todo EXCEPT !["main"] = steps]
  /\ pc' = place
  /\ UNCHANGED <<program, key, touch, gone, shared>>

\* sensor::value looks for num_values first, which is 0 or cannot be read when the sensor is gone.
Reads(d) == d \notin gone

\* drive_autonomously: something may be in the way.
Autonomous(d) ==
  /\ program = "autonomous"
  /\ At("loop") /\ ~ terminate /\ Reads("ir")
  /\ \/ d = 0 /\ Then(<<<<"terminate">>>> \o Reset, "ends") /\ UNCHANGED loopVars
     \/ d >= 20 /\ Then(IF state # "driving" THEN Drive("forward") ELSE <<>>, "loop") /\ UNCHANGED loopVars
     \/ /\ d > 0 /\ d < 20
        /\ Then(Stop, "avoids")
        /\ distance' = d /\ start_distance' = d /\ direction' = 100

\* It is: turn, to one side or the other, until there is nothing, whatever _terminate says.
Avoid ==
  /\ At("avoids")
  /\ IF distance <= 40 THEN Then(Turn, "turned") ELSE Then(<<>>, "loop")
  /\ UNCHANGED loopVars

Turned(d) ==
  /\ At("turned") /\ Reads("ir")
  /\ distance' = d
  /\ Then(IF d < start_distance /\ direction < 0 THEN DriveTimed("backward") ELSE <<>>, "avoids")
  /\ direction' = IF d < start_distance /\ direction > 0 THEN -200 ELSE direction
  /\ UNCHANGED start_distance

\* remote_loop, and the loop of remote_control-test.cpp.
RemoteLoop(value) ==
  /\ program \in {"remote", "prints"}
  /\ At("loop") /\ ~ terminate /\ Reads("ir")
  /\ Then(Process(value), "loop")
  /\ UNCHANGED loopVars

\* The loop of remote-control.cpp: the remote control, then the obstacle.
Explorer(value) ==
  /\ program = "explorer"
  /\ At("loop") /\ Reads("ir")
  /\ Then(Process(value), "looks")
  /\ UNCHANGED loopVars

Look(pressed) ==
  /\ At("looks") /\ Reads("touch")
  /\ Then(IF pressed THEN BackAway ELSE <<>>, "loop")
  /\ UNCHANGED loopVars

\* The sensor that main reads next was unplugged.
SensorThrows ==
  /\ \/ At("loop") /\ program # "motors" /\ ~ terminate /\ ~ Reads("ir")
     \/ At("turned") /\ ~ Reads("ir")
     \/ At("looks") /\ ~ Reads("touch")
  /\ Aborts

\* The enter button is pressed.
Enter ==
  /\ program = "explorer"
  /\ At("loop")
  /\ Then(<<>>, "ended")
  /\ UNCHANGED loopVars

\* main of motor-test.cpp: there, and back.
Motors ==
  /\ program = "motors"
  /\ \/ At("loop") /\ Then(DriveBoth, "back")
     \/ At("back") /\ Then(DriveBoth, "exits")
  /\ UNCHANGED loopVars

\* Mutant of LoopEnds: remote_loop does not look at _terminate.
LoopEndsNotRemote ==
  /\ program \in {"autonomous", "prints"}
  /\ At("loop") /\ terminate
  /\ Then(<<>>, IF program = "prints" THEN "exits" ELSE "ends")
  /\ UNCHANGED loopVars

\* The end of a loop that looks at _terminate.
LoopEnds ==
  /\ program \in {"autonomous", "remote", "prints"}
  /\ At("loop") /\ terminate
  /\ Then(IF program = "remote" THEN Reset ELSE <<>>, IF program = "prints" THEN "exits" ELSE "ends")
  /\ UNCHANGED loopVars

\* Mutant of Destroy: there is no destructor.
DestroyNothing == At("ends") /\ Then(<<>>, "exits") /\ UNCHANGED loopVars

\* control::~control.
Destroy == At("ends") /\ Then(Reset, "exits") /\ UNCHANGED loopVars

\* The process ends, and its threads with it.
Exit == At("exits") /\ Then(<<>>, "ended") /\ UNCHANGED loopVars

-----------------------------------------------------------------------------
\* terminate_on_key: a key was pressed.
KeyPressed ==
  /\ key = "waits" /\ ~ Over
  /\ key' = "done"
  /\ todo' = [todo EXCEPT !["key"] = <<<<"terminate">>>>]
  /\ UNCHANGED <<program, pc, touch, gone, loopVars, shared>>

\* panic_if_touched: it was, also after the flag was set, which the thread looks at before; or the
\* thread sees the flag.
Touched ==
  /\ touch = "waits" /\ ~ Over /\ Reads("touch")
  /\ touch' = "done"
  /\ todo' = [todo EXCEPT !["touch"] = <<<<"terminate">>>> \o Reset]
  /\ UNCHANGED <<program, pc, key, gone, loopVars, shared>>

NotTouched ==
  /\ touch = "waits" /\ ~ Over
  /\ terminate
  /\ touch' = "done"
  /\ UNCHANGED <<program, pc, todo, key, gone, loopVars, shared>>

\* It was unplugged.
TouchThrows ==
  /\ touch = "waits" /\ ~ Over /\ ~ Reads("touch")
  /\ Aborts

\* A device of those that the program uses is unplugged.
Used ==
  CASE program = "motors" -> Sides
    [] program = "prints" -> {"ir"}
    [] OTHER -> Sides \cup {"ir"} \cup (IF touch = "off" /\ DriveTest THEN {} ELSE {"touch"})

Unplug(d) ==
  /\ d \notin gone /\ ~ Over /\ Cardinality(gone) < MaxUnplugged
  /\ gone' = gone \cup {d}
  /\ UNCHANGED <<program, pc, todo, key, touch, loopVars, shared>>

\* A motor has run for its time, or has come to its goal: it never does with a speed of 0.
MotorEnds(s) ==
  /\ s \notin gone
  /\ motor[s].run \in {"timed", "goal"}
  /\ motor[s].run = "goal" => motor[s].dir # "zero"
  /\ motor' = [motor EXCEPT ![s].run = "rest", ![s].dir = "zero"]
  /\ UNCHANGED <<program, pc, todo, key, touch, gone, loopVars, leds, state, terminate, rcVars, printed>>

Main ==
  \/ Exec("main")
  \/ MotorThrows("main")
  \/ SensorThrows
  \/ \E d \in Distances : Autonomous(d)
  \/ Avoid
  \/ \E d \in Distances : Turned(d)
  \/ \E value \in Values : RemoteLoop(value)
  \/ \E value \in Values : Explorer(value)
  \/ \E pressed \in BOOLEAN : Look(pressed)
  \/ Enter
  \/ Motors
  \/ LoopEnds
  \/ Destroy
  \/ Exit

Next ==
  \/ Main
  \/ \E t \in {"key", "touch"} : Exec(t) \/ MotorThrows(t)
  \/ KeyPressed
  \/ Touched
  \/ NotTouched
  \/ TouchThrows
  \/ \E d \in Used : Unplug(d)
  \/ \E s \in Sides : MotorEnds(s)

Spec == Init /\ [][Next]_vars

\* Threads that have something to do go on, and motors come to the end of their runs.
FairSpec ==
  /\ Spec
  /\ WF_vars(Main)
  /\ \A t \in {"key", "touch"} : WF_vars(Exec(t) \/ MotorThrows(t))
  /\ \A s \in Sides : WF_vars(MotorEnds(s))

-----------------------------------------------------------------------------
Directions == {"forward", "backward"}
Colors == {"off", "green", "red"}

\* What a thread may have to do.
UsesRemote == program \in {"remote", "explorer", "prints"}

Steps ==
  ({"stop", "reset"} \X Sides) \cup ({"speed"} \X Sides \X Directions)
    \cup ({"run"} \X Sides \X {"forever", "timed", "goal"}) \cup ({"color"} \X Sides \X Colors)
    \cup ({"state"} \X {"idle", "driving", "turning"}) \cup {<<"wait">>, <<"terminate">>}
    \cup {op \in {"call", "print"} \X Buttons \X BOOLEAN : UsesRemote} \cup ({"saved"} \X Values)

TypeOK ==
  /\ program \in Programs
  /\ pc \in {"loop", "avoids", "turned", "looks", "back", "ends", "exits", "ended", "aborted"}
  /\ todo \in [Threads -> Seq(Steps)]
  /\ motor \in [Sides -> [sp : Directions \cup {"zero"}, run : {"rest", "forever", "timed", "goal"},
                          dir : Directions \cup {"zero"}]]
  /\ leds \in [Sides -> Colors]
  /\ state \in {"idle", "driving", "turning"}
  /\ terminate \in BOOLEAN
  /\ gone \subseteq Sides \cup {"ir", "touch"}
  /\ key \in {"off", "waits", "done"} /\ touch \in {"off", "waits", "done"}
  /\ rc_value \in Values /\ rc_state = StateOf(rc_value)
  /\ distance \in Distances \cup {0} /\ start_distance \in Distances \cup {0}
  /\ direction \in {100, -200}
  /\ printed \subseteq Buttons

\* The motors of drive-test are at rest when its main has returned, whichever thread told it to and
\* whatever the others had to do yet: the destructor comes after all that main does.  When the
\* process was terminated instead, they need not be.
RestsAtEnd == pc = "ended" /\ DriveTest => \A s \in Sides : ~ Running(s)

(***************************************************************************)
(* The other threads only ever stop the motors and set _terminate; and the *)
(* last that main does is to reset every motor that still runs.            *)
(***************************************************************************)
OnlyEnds(t) == \A i \in DOMAIN todo[t] : todo[t][i][1] \in {"terminate", "reset", "state"}

OthersOnlyEnd == OnlyEnds("key") /\ OnlyEnds("touch")

Destroyed ==
  pc \in {"exits", "ended"} /\ DriveTest =>
    /\ OnlyEnds("main")
    /\ pc = "ended" => todo["main"] = <<>>
    /\ \A s \in Sides : Running(s) => \E i \in DOMAIN todo["main"] : todo["main"][i] = <<"reset", s>>

\* A process is terminated only if a device was unplugged.
AbortsUnplugged == pc = "aborted" => gone # {}

\* demos/drive-test.cpp: the motors rest when main returns, as they are reset by the last steps of it;
\* as long as nothing is unplugged that is how it ends.
EndsAtRest == TypeOK /\ RestsAtEnd /\ AbortsUnplugged /\ OthersOnlyEnd /\ Destroyed

(***************************************************************************)
(* Between two rounds of the loop a motor that runs for ever does so       *)
(* because of a button that is held, as far as the sensor has told         *)
(* (demos/remote-control.cpp:33 and drive-test.cpp:351); it stops when the *)
(* button is released, in whatever order the buttons are used and also if  *)
(* an obstacle or another thread came in between.  The explorer's LEDs     *)
(* show in which direction (remote-control.cpp:34), and the test program   *)
(* has printed which buttons are held.                                     *)
(***************************************************************************)
HeldBy(buttons, s, dir) ==
  IF program = "explorer" /\ s = "right"
  THEN (IF dir = "forward" THEN "blue_up" ELSE "blue_down") \in buttons
  ELSE (IF dir = "forward" THEN "red_up" ELSE "red_down") \in buttons

Color(s) ==
  IF motor[s].run # "forever" THEN "off" ELSE IF motor[s].dir = "forward" THEN "green" ELSE "red"

RunsOnlyWhileHeld ==
  pc \in {"loop", "looks"} /\ todo["main"] = <<>> =>
    /\ program \in {"explorer", "remote"} =>
         \A s \in Sides :
           motor[s].run = "forever" /\ motor[s].dir # "zero" => HeldBy(rc_state, s, motor[s].dir)
    /\ program = "explorer" => \A s \in Sides : leds[s] = Color(s)
    /\ program = "prints" => printed = rc_state \ {"beacon"}

(***************************************************************************)
(* Why: of the steps that main has to do yet, the calls of the buttons     *)
(* that changed come last, each at most once, and then the new value is    *)
(* saved; what a step does was caused by a button that is held as far as   *)
(* the callbacks were told, or is undone by a later one.                   *)
(***************************************************************************)
Coming == todo["main"]
Saves(i) == Coming[i][1] = "saved"
Tells(i, b) == Coming[i][1] = "call" /\ Coming[i][2] = b
Prints(i, b) == Coming[i][1] = "print" /\ Coming[i][2] = b
SetsSpeed(i, s) == Coming[i][1] = "speed" /\ Coming[i][2] = s
Moves(i, s) == Coming[i][1] \in {"run", "stop"} /\ Coming[i][2] = s
Lights(i, s) == Coming[i][1] = "color" /\ Coming[i][2] = s

CallsInOrder ==
  \A i \in DOMAIN Coming :
    /\ Saves(i) => i = Len(Coming)
    /\ Coming[i][1] = "print" => i = 1
    /\ Coming[i][1] = "call" =>
         /\ Saves(Len(Coming))
         /\ Coming[i][3] <=> Coming[i][2] \in StateOf(Coming[Len(Coming)][2])
         /\ \A j \in DOMAIN Coming :
              j > i => Coming[j][1] \in {"call", "saved"} /\ ~ Tells(j, Coming[i][2])

\* The buttons that are held, as far as the callbacks were told.
Told ==
  {b \in Buttons :
     IF \E i \in DOMAIN Coming : Saves(i) /\ \A j \in DOMAIN Coming : ~ Tells(j, b)
     THEN \E i \in DOMAIN Coming : Saves(i) /\ b \in StateOf(Coming[i][2])
     ELSE b \in rc_state}

\* The speed that main will start side s with, at its step i, is one of dirs.
StartsWith(i, s, dirs) ==
  /\ \A j \in DOMAIN Coming : SetsSpeed(j, s) => Coming[j][3] \in dirs
  /\ motor[s].sp \in dirs \/ \E j \in DOMAIN Coming : j < i /\ SetsSpeed(j, s)

RunsForAButton ==
  program \in {"explorer", "remote"} => \A s \in Sides :
    /\ motor[s].run = "forever" /\ (\A i \in DOMAIN Coming : Coming[i] # <<"stop", s>>) =>
         motor[s].dir = "zero" \/ HeldBy(Told, s, motor[s].dir)
    /\ \A i \in DOMAIN Coming : Coming[i] = <<"run", s, "forever">> =>
         StartsWith(i, s, {"zero"} \cup {dir \in Directions : HeldBy(Told, s, dir)})

\* A side is as the color c says, or will be when all steps that are about it are done.
Becomes(s, c) ==
  /\ Color(s) = c \/ \E i \in DOMAIN Coming : Moves(i, s)
  /\ \A i \in DOMAIN Coming :
       /\ Moves(i, s) => (Coming[i] = <<"run", s, "forever">> <=> c # "off")
       /\ Coming[i] = <<"run", s, "forever">> =>
            StartsWith(i, s, {IF c = "green" THEN "forward" ELSE "backward"})

LightsFollow ==
  program = "explorer" =>
    /\ pc \in {"loop", "looks", "ended", "aborted"}
    /\ \A i \in DOMAIN Coming : Coming[i][1] # "reset"
    /\ \A s \in Sides :
         /\ (\A i \in DOMAIN Coming : ~ Lights(i, s)) => leds[s] = Color(s)
         /\ \A i \in DOMAIN Coming : Moves(i, s) => \E j \in DOMAIN Coming : j > i /\ Lights(j, s)
         /\ \A i \in DOMAIN Coming :
              Lights(i, s) /\ (\A j \in DOMAIN Coming : j > i => ~ Lights(j, s)) => Becomes(s, Coming[i][3])

PrintsFollow ==
  program = "prints" =>
    /\ "beacon" \notin printed /\ \A i \in DOMAIN Coming : ~ Prints(i, "beacon")
    /\ \A b \in Buttons \ {"beacon"} :
         IF \E i \in DOMAIN Coming : Prints(i, b)
         THEN \A i \in DOMAIN Coming : Prints(i, b) => (Coming[i][3] <=> b \in Told)
         ELSE b \in printed <=> b \in Told

Alone == ~ DriveTest => key = "off" /\ touch = "off" /\ todo["key"] = <<>> /\ todo["touch"] = <<>>

FollowsButtons == Alone /\ CallsInOrder /\ RunsForAButton /\ LightsFollow /\ PrintsFollow

\* The motors of drive-test rest when its main has returned, and all that is done for a button ends with it.
IInv == EndsAtRest /\ FollowsButtons

(***************************************************************************)
(* A program that is told to end does: by a key, the touch sensor, the     *)
(* beacon or the infrared sensor (and motor-test always).  But for two     *)
(* cases: as long as there is something in the way on all sides the loop   *)
(* that avoids it does not look at _terminate; and a motor that the panic  *)
(* thread resets between its set_speed_sp and its run_to_rel_pos never     *)
(* comes to its goal, which turn waits for.  An exception is an end, too.  *)
(***************************************************************************)
ToldToEnd == terminate \/ program = "motors"
Avoiding == pc \in {"avoids", "turned"}
Hangs == \E s \in Sides \ gone : motor[s].run = "goal" /\ motor[s].dir = "zero"

EndsWhenTold == (ToldToEnd ~> Over) \/ <>[]Avoiding \/ <>[]Hangs
=============================================================================
