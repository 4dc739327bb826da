---------------------------- MODULE DemosProofs ----------------------------
(***************************************************************************)
(* Proofs about the demos.  Of the programs that move a robot, with        *)
(* whatever distances the sensor may read and whatever is unplugged: the   *)
(* inductive invariant IInv, that the motors rest when main of drive-test  *)
(* has returned, and that they run only while a button of the remote       *)
(* control is held.  Of the menus, with any ports: that the calls nest,    *)
(* and what terminates the program.                                        *)
(***************************************************************************)
EXTENDS Robots, Demo, SequenceTheorems, TLAPS

(***************************************************************************)
(* The steps, and that a thread never has anything else to do.             *)
(***************************************************************************)
LEMMA StepsAre ==
  /\ \A s \in Sides : <<"stop", s>> \in Steps /\ <<"reset", s>> \in Steps
  /\ \A s \in Sides, d \in Directions : <<"speed", s, d>> \in Steps
  /\ \A s \in Sides, r \in {"forever", "timed", "goal"} : <<"run", s, r>> \in Steps
  /\ \A s \in Sides, c \in Colors : <<"color", s, c>> \in Steps
  /\ \A st \in {"idle", "driving", "turning"} : <<"state", st>> \in Steps
  /\ <<"wait">> \in Steps /\ <<"terminate">> \in Steps
  /\ UsesRemote => \A b \in Buttons, v \in BOOLEAN : <<"call", b, v>> \in Steps /\ <<"print", b, v>> \in Steps
  /\ \A v \in Values : <<"saved", v>> \in Steps
BY DEF Steps

LEMMA StepTypes ==
  ASSUME NEW op \in Steps
  PROVE  /\ op[1] \in {"stop", "reset"} => op = <<op[1], op[2]>> /\ op[2] \in Sides
         /\ op[1] = "speed" => op[2] \in Sides /\ op[3] \in Directions
         /\ op[1] = "run" => op[2] \in Sides /\ op[3] \in {"forever", "timed", "goal"}
         /\ op[1] = "color" => op[2] \in Sides /\ op[3] \in Colors
         /\ op[1] = "state" => op[2] \in {"idle", "driving", "turning"}
         /\ op[1] \in {"call", "print"} => UsesRemote /\ op[2] \in Buttons /\ op[3] \in BOOLEAN
         /\ op[1] = "saved" => op[2] \in Values
         /\ op[1] \in {"stop", "reset", "speed", "run", "color", "state", "wait", "terminate", "call", "print",
                       "saved"}
BY DEF Steps

LEMMA StopType == Stop \in Seq(Steps)
BY StepsAre DEF Stop, Sides
LEMMA ResetType == Reset \in Seq(Steps)
BY StepsAre DEF Reset, Sides
LEMMA DriveType ==
  ASSUME NEW d \in Directions
  PROVE  Drive(d) \in Seq(Steps) /\ DriveTimed(d) \in Seq(Steps)
<1>1. Drive(d) \in Seq(Steps)
  BY StepsAre DEF Drive, Sides
<1>2. DriveTimed(d) \in Seq(Steps)
  BY StepsAre DEF DriveTimed, Sides
<1>3. QED
  BY <1>1, <1>2
LEMMA TurnType == Turn \in Seq(Steps)
BY StepsAre, StopType DEF Turn, Sides, Directions
LEMMA DriveBothType == DriveBoth \in Seq(Steps)
BY StepsAre DEF DriveBoth, Sides, Directions
LEMMA BackAwayType == BackAway \in Seq(Steps)
BY StepsAre DEF BackAway, Sides, Directions, Colors
LEMMA RollType ==
  ASSUME NEW s \in Sides, NEW d \in Directions, NEW p \in BOOLEAN
  PROVE  Roll(s, d, p) \in Seq(Steps)
<1>1. CASE p
  <2>1. PICK c \in Colors : c = IF d = "forward" THEN "green" ELSE "red"
    BY DEF Colors
  <2>2. /\ <<"speed", s, d>> \in Steps /\ <<"run", s, "forever">> \in Steps /\ <<"color", s, c>> \in Steps
    BY StepsAre
  <2>3. Roll(s, d, p) = <<<<"speed", s, d>>, <<"run", s, "forever">>, <<"color", s, c>>>>
    BY <1>1, <2>1 DEF Roll
  <2>4. QED
    BY <2>2, <2>3
<1>2. CASE ~ p
  <2>1. "off" \in Colors
    BY DEF Colors
  <2>2. <<"stop", s>> \in Steps /\ <<"color", s, "off">> \in Steps
    BY <2>1, StepsAre
  <2>3. Roll(s, d, p) = <<<<"stop", s>>, <<"color", s, "off">>>>
    BY <1>2 DEF Roll
  <2>4. QED
    BY <2>2, <2>3
<1>3. QED
  BY <1>1, <1>2

LEMMA CallbackType ==
  ASSUME NEW b \in Buttons, NEW p \in BOOLEAN, UsesRemote
  PROVE  Callback(b, p) \in Seq(Steps)
<1>1. RemoteCallback(b, p) \in Seq(Steps)
  BY StepsAre, StopType, DriveType, TurnType DEF RemoteCallback, Directions
<1>2. ExplorerCallback(b, p) \in Seq(Steps)
  BY RollType DEF ExplorerCallback, Sides, Directions
<1>3. PrintCallback(b, p) \in Seq(Steps)
  <2>1. <<"print", b, p>> \in Steps /\ <<"terminate">> \in Steps
    BY StepsAre
  <2>2. <<<<"print", b, p>>>> \in Seq(Steps) /\ <<<<"terminate">>>> \in Seq(Steps) /\ <<>> \in Seq(Steps)
    BY <2>1
  <2>3. QED
    BY <2>2 DEF PrintCallback
<1>4. QED
  BY <1>1, <1>2, <1>3 DEF Callback, UsesRemote

LEMMA CallsType ==
  ASSUME NEW old, NEW new, UsesRemote
  PROVE  Calls(old, new) \in Seq(Steps)
<1>1. ASSUME NEW b \in Buttons PROVE CallOf(b, old, new) \in Seq(Steps)
  <2>1. PICK v \in BOOLEAN : v = (b \in new)
    BY (b \in new) \in BOOLEAN, Zenon
  <2>2. <<"call", b, v>> \in Steps
    BY StepsAre
  <2>3. <<<<"call", b, v>>>> \in Seq(Steps) /\ <<>> \in Seq(Steps)
    BY <2>2
  <2>4. QED
    BY <2>1, <2>3 DEF CallOf
<1>2. QED
  BY <1>1 DEF Calls, Buttons

LEMMA ProcessType ==
  ASSUME NEW value \in Values, UsesRemote
  PROVE  Process(value) \in Seq(Steps)
<1>1. Calls(rc_state, StateOf(value)) \in Seq(Steps) /\ <<"saved", value>> \in Steps
  BY CallsType, StepsAre
<1>2. QED
  BY <1>1 DEF Process

-----------------------------------------------------------------------------
(***************************************************************************)
(* A step of a thread keeps the types, and a step other than those to run  *)
(* a motor never makes one run.                                            *)
(***************************************************************************)
LEMMA DoTypes ==
  ASSUME TypeOK, NEW op \in Steps, op[1] # "call", Do(op)
  PROVE  /\ motor' \in [Sides -> [sp : Directions \cup {"zero"}, run : {"rest", "forever", "timed", "goal"},
                                  dir : Directions \cup {"zero"}]]
         /\ leds' \in [Sides -> Colors]
         /\ state' \in {"idle", "driving", "turning"}
         /\ terminate' \in BOOLEAN
         /\ rc_value' \in Values /\ rc_state' = StateOf(rc_value')
         /\ printed' \subseteq Buttons
<1> DEFINE Motor == [sp : Directions \cup {"zero"}, run : {"rest", "forever", "timed", "goal"},
                     dir : Directions \cup {"zero"}]
<1>1. motor \in [Sides -> Motor]
  BY DEF TypeOK
<1>2. motor' \in [Sides -> Motor]
  <2>1. CASE op[1] = "speed"
    BY <1>1, <2>1, StepTypes DEF Do, Driven
  <2>2. CASE op[1] = "run"
    BY <1>1, <2>2, StepTypes DEF Do, Driven
  <2>3. CASE op[1] \in {"stop", "reset"}
    BY <1>1, <2>3, StepTypes DEF Do, Driven
  <2>4. CASE op[1] \notin {"speed", "run", "stop", "reset"}
    BY <1>1, <2>4 DEF Do, Driven
  <2>5. QED
    BY <2>1, <2>2, <2>3, <2>4
<1>3. leds' \in [Sides -> Colors]
  BY StepTypes DEF Do, TypeOK
<1>4. state' \in {"idle", "driving", "turning"}
  BY StepTypes DEF Do, TypeOK
<1>5. terminate' \in BOOLEAN
  BY DEF Do, TypeOK
<1>6. rc_value' \in Values /\ rc_state' = StateOf(rc_value')
  BY StepTypes DEF Do, TypeOK
<1>7. printed' \subseteq Buttons
  BY StepTypes DEF Do, TypeOK
<1>8. QED
  BY <1>2, <1>3, <1>4, <1>5, <1>6, <1>7

LEMMA OnlyRunsRun ==
  ASSUME TypeOK, NEW op \in Steps, op[1] \notin {"call", "run"}, Do(op), NEW s \in Sides, Running(s)'
  PROVE  Running(s) /\ op # <<"reset", s>>
<1>1. motor \in [Sides -> [sp : Directions \cup {"zero"}, run : {"rest", "forever", "timed", "goal"},
                           dir : Directions \cup {"zero"}]]
  BY DEF TypeOK
<1>2. motor'[s].run # "rest"
  BY DEF Running
<1>3. CASE op[1] = "speed"
  BY <1>1, <1>2, <1>3, StepTypes DEF Do, Driven, Running
<1>4. CASE op[1] \in {"stop", "reset"}
  <2>1. op = <<op[1], op[2]>> /\ op[2] \in Sides
    BY <1>4, StepTypes
  <2>2. motor'[op[2]].run = "rest"
    BY <1>1, <1>4, <2>1 DEF Do, Driven
  <2>3. op[2] # s
    BY <1>2, <2>2
  <2>4. motor'[s] = motor[s]
    BY <1>1, <1>4, <2>1, <2>3 DEF Do, Driven
  <2>5. op # <<"reset", s>>
    BY <2>3
  <2>6. QED
    BY <1>2, <2>4, <2>5 DEF Running
<1>5. CASE op[1] \notin {"speed", "stop", "reset"}
  <2>1. motor' = motor
    BY <1>5 DEF Do, Driven
  <2>2. op # <<"reset", s>>
    BY <1>5
  <2>3. QED
    BY <1>2, <2>1, <2>2 DEF Running
<1>6. QED
  BY <1>3, <1>4, <1>5

-----------------------------------------------------------------------------
LEMMA InitAtRest == Init => EndsAtRest
<1> SUFFICES ASSUME Init PROVE EndsAtRest
  OBVIOUS
<1>1. todo \in [Threads -> Seq(Steps)]
  BY DEF Init
<1>2. TypeOK
  <2>1. motor \in [Sides -> [sp : Directions \cup {"zero"}, run : {"rest", "forever", "timed", "goal"},
                            dir : Directions \cup {"zero"}]]
    BY DEF Init
  <2>2. leds \in [Sides -> Colors]
    BY DEF Init, Colors
  <2>3. rc_value \in Values /\ rc_state = StateOf(rc_value)
    BY DEF Init, Values, StateOf
  <2>4. /\ distance \in Distances \cup {0} /\ start_distance \in Distances \cup {0}
        /\ direction \in {100, -200} /\ printed \subseteq Buttons
    BY DEF Init
  <2>5. key \in {"off", "waits", "done"} /\ touch \in {"off", "waits", "done"}
    BY DEF Init
  <2>6. QED
    BY <1>1, <2>1, <2>2, <2>3, <2>4, <2>5 DEF Init, TypeOK
<1>3. RestsAtEnd /\ AbortsUnplugged /\ OthersOnlyEnd /\ Destroyed
  BY DEF Init, RestsAtEnd, AbortsUnplugged, OthersOnlyEnd, OnlyEnds, Destroyed, Threads
<1>4. QED
  BY <1>2, <1>3 DEF EndsAtRest

\* The first step of a thread, and the rest.
LEMMA HeadAndRest ==
  ASSUME TypeOK, NEW t \in Threads, todo[t] # <<>>
  PROVE  /\ todo[t] \in Seq(Steps) /\ Head(todo[t]) \in Steps /\ Tail(todo[t]) \in Seq(Steps)
         /\ Head(todo[t]) = todo[t][1] /\ 1 \in DOMAIN todo[t]
         /\ \A i \in DOMAIN Tail(todo[t]) : i + 1 \in DOMAIN todo[t] /\ Tail(todo[t])[i] = todo[t][i + 1]
         /\ \A i \in DOMAIN todo[t] : i # 1 => i - 1 \in DOMAIN Tail(todo[t]) /\ Tail(todo[t])[i - 1] = todo[t][i]
<1>1. todo[t] \in Seq(Steps)
  BY DEF TypeOK
<1>2. QED
  BY <1>1

LEMMA ExecAtRest ==
  ASSUME EndsAtRest, NEW t \in Threads, Exec(t)
  PROVE  EndsAtRest'
<1> DEFINE op == Head(todo[t])
           rest == Tail(todo[t])
<1>1. TypeOK /\ AbortsUnplugged /\ OthersOnlyEnd /\ Destroyed
  BY DEF EndsAtRest
<1>2. /\ pc \notin {"ended", "aborted"} /\ todo[t] # <<>>
      /\ IF op[1] = "call"
         THEN /\ todo' = [todo EXCEPT ![t] = Callback(op[2], op[3]) \o rest]
              /\ UNCHANGED shared
         ELSE todo' = [todo EXCEPT ![t] = rest] /\ Do(op)
      /\ UNCHANGED <<program, pc, key, touch, gone, loopVars>>
  BY DEF Exec, Over
<1>3. /\ op \in Steps /\ rest \in Seq(Steps) /\ op = todo[t][1] /\ 1 \in DOMAIN todo[t]
      /\ \A i \in DOMAIN rest : i + 1 \in DOMAIN todo[t] /\ rest[i] = todo[t][i + 1]
      /\ \A i \in DOMAIN todo[t] : i # 1 => i - 1 \in DOMAIN rest /\ rest[i - 1] = todo[t][i]
  BY <1>1, <1>2, HeadAndRest
<1>4. todo \in [Threads -> Seq(Steps)] /\ Steps' = Steps
  BY <1>1, <1>2 DEF TypeOK, Steps, UsesRemote
<1> HIDE DEF op, rest
<1>5. CASE op[1] = "call"
  <2>1. UsesRemote /\ op[2] \in Buttons /\ op[3] \in BOOLEAN
    BY <1>3, <1>5, StepTypes
  <2>2. Callback(op[2], op[3]) \o rest \in Seq(Steps)
    BY <1>3, <2>1, CallbackType
  <2>3. todo' = [todo EXCEPT ![t] = Callback(op[2], op[3]) \o rest] /\ UNCHANGED shared
    BY <1>2, <1>5
  <2>4. todo' \in [Threads -> Seq(Steps)]
    BY <1>4, <2>2, <2>3
  <2>5. TypeOK'
    BY <1>1, <1>2, <1>4, <2>3, <2>4 DEF TypeOK, shared, rcVars, loopVars
  <2>6. t = "main"
    BY <1>1, <1>3, <1>5 DEF OthersOnlyEnd, OnlyEnds, Threads
  <2>7. OthersOnlyEnd'
    BY <1>1, <1>4, <2>3, <2>6 DEF OthersOnlyEnd, OnlyEnds, Threads
  <2>8. ~ (pc \in {"exits", "ended"} /\ DriveTest)
    BY <1>1, <1>3, <1>5, <2>6 DEF Destroyed, OnlyEnds
  <2>9. Destroyed' /\ RestsAtEnd' /\ AbortsUnplugged'
    BY <1>1, <1>2, <2>8 DEF Destroyed, RestsAtEnd, AbortsUnplugged, DriveTest
  <2>10. QED
    BY <2>5, <2>7, <2>9 DEF EndsAtRest
<1>6. CASE op[1] # "call"
  <2>1. todo' = [todo EXCEPT ![t] = rest] /\ Do(op)
    BY <1>2, <1>6
  <2>2. todo' \in [Threads -> Seq(Steps)]
    BY <1>3, <1>4, <2>1
  <2>3. TypeOK'
    BY <1>1, <1>2, <1>3, <1>4, <1>6, <2>1, <2>2, DoTypes DEF TypeOK, loopVars
  <2>4. ASSUME NEW u \in Threads, OnlyEnds(u) PROVE OnlyEnds(u)'
    <3>1. CASE u = t
      BY <1>3, <1>4, <2>1, <2>4, <3>1 DEF OnlyEnds
    <3>2. CASE u # t
      BY <1>4, <2>1, <2>4, <3>2 DEF OnlyEnds
    <3>3. QED
      BY <3>1, <3>2
  <2>5. OthersOnlyEnd'
    BY <1>1, <2>4 DEF OthersOnlyEnd, Threads
  <2>6. RestsAtEnd' /\ AbortsUnplugged'
    BY <1>1, <1>2 DEF RestsAtEnd, AbortsUnplugged
  <2>7. Destroyed'
    <3> SUFFICES ASSUME pc = "exits", DriveTest
        PROVE  /\ OnlyEnds("main")'
               /\ \A s \in Sides : Running(s)' => \E i \in DOMAIN todo'["main"] : todo'["main"][i] = <<"reset", s>>
      BY <1>2 DEF Destroyed, DriveTest
    <3>1. OnlyEnds("main") /\ OnlyEnds(t)
      BY <1>1 DEF Destroyed, OthersOnlyEnd, Threads
    <3>2. OnlyEnds("main")'
      BY <2>4, <3>1 DEF Threads
    <3>3. op[1] \notin {"call", "run"}
      BY <1>3, <3>1 DEF OnlyEnds
    <3>4. ASSUME NEW s \in Sides, Running(s)'
          PROVE  \E i \in DOMAIN todo'["main"] : todo'["main"][i] = <<"reset", s>>
      <4>1. Running(s) /\ op # <<"reset", s>>
        BY <1>1, <1>3, <2>1, <3>3, <3>4, OnlyRunsRun
      <4>2. PICK i \in DOMAIN todo["main"] : todo["main"][i] = <<"reset", s>>
        BY <1>1, <4>1 DEF Destroyed
      <4>3. CASE t = "main"
        <5>1. i # 1
          BY <1>3, <4>1, <4>2, <4>3
        <5>2. i - 1 \in DOMAIN rest /\ rest[i - 1] = <<"reset", s>>
          BY <1>3, <4>2, <4>3, <5>1
        <5>3. todo'["main"] = rest
          BY <1>4, <2>1, <4>3
        <5>4. QED
          BY <5>2, <5>3
      <4>4. CASE t # "main"
        <5>1. todo'["main"] = todo["main"]
          BY <1>4, <2>1, <4>4 DEF Threads
        <5>2. QED
          BY <4>2, <5>1
      <4>5. QED
        BY <4>3, <4>4
    <3>5. QED
      BY <3>2, <3>4
  <2>8. QED
    BY <2>3, <2>5, <2>6, <2>7 DEF EndsAtRest
<1>7. QED
  BY <1>5, <1>6

-----------------------------------------------------------------------------
(***************************************************************************)
(* The main thread is handed its next steps.  In drive-test the last ones  *)
(* are those of the destructor.                                            *)
(***************************************************************************)
Places == {"loop", "avoids", "turned", "looks", "back", "ends", "exits", "ended"}

Ends(steps, place) ==
  /\ \A i \in DOMAIN steps : steps[i][1] \in {"terminate", "reset", "state"}
  /\ place = "ended" => steps = <<>>
  /\ \A s \in Sides : Running(s) => \E i \in DOMAIN steps : steps[i] = <<"reset", s>>

LEMMA ThenAtRest ==
  ASSUME EndsAtRest, NEW steps \in Seq(Steps), NEW place \in Places, Then(steps, place),
         distance' \in Distances \cup {0}, start_distance' \in Distances \cup {0}, direction' \in {100, -200},
         DriveTest /\ place \in {"exits", "ended"} => Ends(steps, place)
  PROVE  EndsAtRest'
<1>1. TypeOK /\ OthersOnlyEnd
  BY DEF EndsAtRest
<1>2. /\ todo' = [todo EXCEPT !["main"] = steps] /\ pc' = place
      /\ UNCHANGED <<program, key, touch, gone, shared>>
  BY DEF Then
<1>3. todo \in [Threads -> Seq(Steps)] /\ Steps' = Steps
  BY <1>1, <1>2 DEF TypeOK, Steps, UsesRemote
<1>4. todo'["main"] = steps /\ todo'["key"] = todo["key"] /\ todo'["touch"] = todo["touch"]
  BY <1>2, <1>3 DEF Threads
<1>5. todo' \in [Threads -> Seq(Steps)]
  BY <1>2, <1>3
<1>6. TypeOK'
  BY <1>1, <1>2, <1>3, <1>5 DEF TypeOK, Places, shared, rcVars
<1>7. OthersOnlyEnd'
  BY <1>1, <1>4 DEF OthersOnlyEnd, OnlyEnds
<1>8. (DriveTest' <=> DriveTest) /\ \A s \in Sides : Running(s)' <=> Running(s)
  BY <1>2 DEF DriveTest, Running, shared
<1>9. Destroyed'
  BY <1>2, <1>4, <1>8 DEF Destroyed, OnlyEnds, Ends
<1>10. RestsAtEnd' /\ AbortsUnplugged'
  BY <1>2, <1>8 DEF RestsAtEnd, AbortsUnplugged, Ends, Places
<1>11. QED
  BY <1>6, <1>7, <1>9, <1>10 DEF EndsAtRest

\* The loop that drives on its own.
LEMMA AutonomousAtRest ==
  ASSUME EndsAtRest, NEW d \in Distances, Autonomous(d) \/ Turned(d)
  PROVE  EndsAtRest'
<1>1. /\ distance \in Distances \cup {0} /\ start_distance \in Distances \cup {0}
      /\ direction \in {100, -200}
  BY DEF EndsAtRest, TypeOK
<1>2. <<>> \in Seq(Steps)
  OBVIOUS
<1>3. <<<<"terminate">>>> \o Reset \in Seq(Steps)
  BY StepsAre, ResetType
<1>4. (IF state # "driving" THEN Drive("forward") ELSE <<>>) \in Seq(Steps)
  BY <1>2, DriveType DEF Directions
<1>5. CASE Autonomous(d)
  <2>1. CASE Then(<<<<"terminate">>>> \o Reset, "ends") /\ UNCHANGED loopVars
    BY <1>1, <1>3, <2>1, ThenAtRest DEF Places, loopVars
  <2>2. CASE Then(IF state # "driving" THEN Drive("forward") ELSE <<>>, "loop") /\ UNCHANGED loopVars
    BY <1>1, <1>4, <2>2, ThenAtRest DEF Places, loopVars
  <2>3. CASE Then(Stop, "avoids") /\ distance' = d /\ start_distance' = d /\ direction' = 100
    BY <2>3, StopType, ThenAtRest DEF Places
  <2>4. QED
    BY <1>5, <2>1, <2>2, <2>3 DEF Autonomous
<1>6. CASE Turned(d)
  <2>1. (IF d < start_distance /\ direction < 0 THEN DriveTimed("backward") ELSE <<>>) \in Seq(Steps)
    BY <1>2, DriveType DEF Directions
  <2>2. /\ Then(IF d < start_distance /\ direction < 0 THEN DriveTimed("backward") ELSE <<>>, "avoids")
        /\ distance' = d /\ start_distance' = start_distance
        /\ direction' = IF d < start_distance /\ direction > 0 THEN -200 ELSE direction
    BY <1>6 DEF Turned
  <2>3. direction' \in {100, -200}
    BY <1>1, <2>2
  <2>4. QED
    BY <1>1, <2>1, <2>2, <2>3, ThenAtRest DEF Places
<1>7. QED
  BY <1>5, <1>6

LEMMA AvoidAtRest ==
  ASSUME EndsAtRest, Avoid
  PROVE  EndsAtRest'
<1>1. CASE Then(Turn, "turned") /\ UNCHANGED loopVars
  BY <1>1, TurnType, ThenAtRest DEF EndsAtRest, TypeOK, Places, loopVars
<1>2. CASE Then(<<>>, "loop") /\ UNCHANGED loopVars
  <2>1. <<>> \in Seq(Steps)
    OBVIOUS
  <2>2. QED
    BY <1>2, <2>1, ThenAtRest DEF EndsAtRest, TypeOK, Places, loopVars
<1>3. QED
  BY <1>1, <1>2 DEF Avoid

\* The loops of the programs that have a remote control, and the program that has not.
LEMMA LoopsAtRest ==
  ASSUME EndsAtRest, NEW value \in Values, NEW pressed \in BOOLEAN,
         RemoteLoop(value) \/ Explorer(value) \/ Look(pressed) \/ Enter \/ Motors
  PROVE  EndsAtRest'
<1>1. /\ distance \in Distances \cup {0} /\ start_distance \in Distances \cup {0}
      /\ direction \in {100, -200}
  BY DEF EndsAtRest, TypeOK
<1>2. <<>> \in Seq(Steps)
  OBVIOUS
<1>3. CASE RemoteLoop(value)
  BY <1>1, <1>3, ProcessType, ThenAtRest DEF RemoteLoop, UsesRemote, Places, loopVars
<1>4. CASE Explorer(value)
  BY <1>1, <1>4, ProcessType, ThenAtRest DEF Explorer, UsesRemote, Places, loopVars
<1>5. CASE Look(pressed)
  <2>1. (IF pressed THEN BackAway ELSE <<>>) \in Seq(Steps)
    BY <1>2, BackAwayType
  <2>2. QED
    BY <1>1, <1>5, <2>1, ThenAtRest DEF Look, Places, loopVars
<1>6. CASE Enter
  BY <1>1, <1>2, <1>6, ThenAtRest DEF Enter, DriveTest, Places, loopVars
<1>7. CASE Motors
  BY <1>1, <1>7, DriveBothType, ThenAtRest DEF Motors, DriveTest, Places, loopVars
<1>8. QED
  BY <1>3, <1>4, <1>5, <1>6, <1>7

\* How main ends: in drive-test, not before the destructor has reset the motors.
LEMMA LastAtRest ==
  ASSUME EndsAtRest, LoopEnds \/ Destroy \/ Exit
  PROVE  EndsAtRest'
<1>1. /\ distance \in Distances \cup {0} /\ start_distance \in Distances \cup {0}
      /\ direction \in {100, -200}
  BY DEF EndsAtRest, TypeOK
<1>2. <<>> \in Seq(Steps)
  OBVIOUS
<1>3. CASE LoopEnds
  <2>1. (IF program = "remote" THEN Reset ELSE <<>>) \in Seq(Steps)
    BY <1>2, ResetType
  <2>2. PICK place \in {"exits", "ends"} : place = IF program = "prints" THEN "exits" ELSE "ends"
    OBVIOUS
  <2>3. Then(IF program = "remote" THEN Reset ELSE <<>>, place) /\ UNCHANGED loopVars
    BY <1>3, <2>2 DEF LoopEnds
  <2>4. ~ (DriveTest /\ place \in {"exits", "ended"})
    BY <2>2 DEF DriveTest
  <2>5. UNCHANGED <<distance, start_distance, direction>> /\ place \in Places
    BY <2>2, <2>3 DEF Places, loopVars
  <2>6. QED
    BY <1>1, <2>1, <2>3, <2>4, <2>5, ThenAtRest
<1>4. CASE Destroy
  <2>1. Ends(Reset, "exits")
    BY DEF Ends, Reset, Sides
  <2>2. QED
    BY <1>1, <1>4, <2>1, ResetType, ThenAtRest DEF Destroy, Places, loopVars
<1>5. CASE Exit
  <2>1. DriveTest => \A s \in Sides : ~ Running(s)
    BY <1>5 DEF Exit, At, EndsAtRest, Destroyed
  <2>2. DriveTest => Ends(<<>>, "ended")
    BY <2>1 DEF Ends
  <2>3. QED
    BY <1>1, <1>2, <1>5, <2>2, ThenAtRest DEF Exit, Places, loopVars
<1>6. QED
  BY <1>3, <1>4, <1>5

\* The other threads are told to end the program.
LEMMA OthersAtRest ==
  ASSUME EndsAtRest, KeyPressed \/ Touched \/ NotTouched
  PROVE  EndsAtRest'
<1>1. TypeOK /\ OthersOnlyEnd /\ Destroyed /\ RestsAtEnd /\ AbortsUnplugged
  BY DEF EndsAtRest
<1>2. UNCHANGED <<program, pc, gone, loopVars, shared>> /\ Steps' = Steps
  BY DEF KeyPressed, Touched, NotTouched, Steps, UsesRemote
<1>3. todo \in [Threads -> Seq(Steps)]
  BY <1>1 DEF TypeOK
<1>4. key' \in {"off", "waits", "done"} /\ touch' \in {"off", "waits", "done"}
  BY <1>1 DEF TypeOK, KeyPressed, Touched, NotTouched
<1>5. /\ <<<<"terminate">>>> \in Seq(Steps)
      /\ <<<<"terminate">>>> \o Reset \in Seq(Steps)
  BY StepsAre, ResetType
<1>6. todo' \in [Threads -> Seq(Steps)] /\ todo'["main"] = todo["main"] /\ OthersOnlyEnd'
  <2>1. CASE KeyPressed
    <3>1. todo' = [todo EXCEPT !["key"] = <<<<"terminate">>>>]
      BY <2>1 DEF KeyPressed
    <3>2. QED
      BY <1>1, <1>3, <1>5, <3>1 DEF Threads, OthersOnlyEnd, OnlyEnds
  <2>2. CASE Touched
    <3>1. todo' = [todo EXCEPT !["touch"] = <<<<"terminate">>>> \o Reset]
      BY <2>2 DEF Touched
    <3>2. \A i \in DOMAIN (<<<<"terminate">>>> \o Reset) :
            (<<<<"terminate">>>> \o Reset)[i][1] \in {"terminate", "reset", "state"}
      BY DEF Reset
    <3>3. QED
      BY <1>1, <1>3, <1>5, <3>1, <3>2 DEF Threads, OthersOnlyEnd, OnlyEnds
  <2>3. CASE NotTouched
    BY <1>1, <1>3, <2>3 DEF NotTouched, OthersOnlyEnd, OnlyEnds
  <2>4. QED
    BY <2>1, <2>2, <2>3
<1>7. TypeOK'
  BY <1>1, <1>2, <1>4, <1>6 DEF TypeOK, loopVars, shared, rcVars
<1>8. Destroyed' /\ RestsAtEnd' /\ AbortsUnplugged'
  BY <1>1, <1>2, <1>6 DEF Destroyed, RestsAtEnd, AbortsUnplugged, OnlyEnds, DriveTest, Running, shared
<1>9. QED
  BY <1>6, <1>7, <1>8 DEF EndsAtRest

LEMMA MotorEndsAtRest ==
  ASSUME EndsAtRest, NEW s \in Sides, MotorEnds(s)
  PROVE  EndsAtRest'
<1>1. TypeOK /\ OthersOnlyEnd /\ Destroyed /\ RestsAtEnd /\ AbortsUnplugged
  BY DEF EndsAtRest
<1>2. motor' = [motor EXCEPT ![s].run = "rest", ![s].dir = "zero"]
  BY DEF MotorEnds
<1>3. UNCHANGED <<program, pc, todo, key, touch, gone, loopVars, leds, state, terminate, rcVars, printed>>
      /\ Steps' = Steps
  BY DEF MotorEnds, Steps, UsesRemote
<1>4. motor \in [Sides -> [sp : Directions \cup {"zero"}, run : {"rest", "forever", "timed", "goal"},
                           dir : Directions \cup {"zero"}]]
  BY <1>1 DEF TypeOK
<1>5. motor' \in [Sides -> [sp : Directions \cup {"zero"}, run : {"rest", "forever", "timed", "goal"},
                            dir : Directions \cup {"zero"}]]
  BY <1>2, <1>4
<1>6. \A u \in Sides : Running(u)' => Running(u)
  BY <1>2, <1>4 DEF Running
<1>7. TypeOK'
  BY <1>1, <1>3, <1>5 DEF TypeOK, loopVars, rcVars
<1>8. OthersOnlyEnd' /\ Destroyed' /\ RestsAtEnd' /\ AbortsUnplugged'
  BY <1>1, <1>3, <1>6 DEF OthersOnlyEnd, Destroyed, RestsAtEnd, AbortsUnplugged, OnlyEnds, DriveTest
<1>9. QED
  BY <1>7, <1>8 DEF EndsAtRest

LEMMA StutterAtRest ==
  ASSUME EndsAtRest, UNCHANGED vars
  PROVE  EndsAtRest'
<1>1. Steps' = Steps
  BY DEF Steps, UsesRemote, vars
<1>2. TypeOK'
  BY <1>1 DEF EndsAtRest, TypeOK, vars, shared, rcVars, loopVars
<1>3. QED
  BY <1>2 DEF EndsAtRest, vars, shared, RestsAtEnd, AbortsUnplugged, OthersOnlyEnd, Destroyed, OnlyEnds, DriveTest,
              Running

-----------------------------------------------------------------------------
(***************************************************************************)
(* What was unplugged is used: the process ends where it is.               *)
(***************************************************************************)
Throws == SensorThrows \/ TouchThrows \/ \E t \in Threads : MotorThrows(t)

LEMMA ThrowsIf == Throws => gone # {} /\ Aborts
<1>1. ASSUME NEW t \in Threads, MotorThrows(t) PROVE gone # {} /\ Aborts
  BY <1>1 DEF MotorThrows, Fails
<1>2. SensorThrows \/ TouchThrows => gone # {} /\ Aborts
  BY DEF SensorThrows, TouchThrows, Reads
<1>3. QED
  BY <1>1, <1>2 DEF Throws

LEMMA AbortsAtRest ==
  ASSUME EndsAtRest, gone # {}, Aborts
  PROVE  EndsAtRest'
<1>1. pc' = "aborted" /\ UNCHANGED <<program, todo, key, touch, gone, loopVars, shared>> /\ Steps' = Steps
  BY DEF Aborts, Steps, UsesRemote
<1>2. TypeOK'
  BY <1>1 DEF EndsAtRest, TypeOK, shared, rcVars, loopVars
<1>3. OthersOnlyEnd'
  BY <1>1 DEF EndsAtRest, OthersOnlyEnd, OnlyEnds
<1>4. Destroyed' /\ RestsAtEnd' /\ AbortsUnplugged'
  BY <1>1 DEF Destroyed, RestsAtEnd, AbortsUnplugged
<1>5. QED
  BY <1>2, <1>3, <1>4 DEF EndsAtRest

LEMMA UnplugAtRest ==
  ASSUME EndsAtRest, NEW d \in Used, Unplug(d)
  PROVE  EndsAtRest'
<1>1. d \in Sides \cup {"ir", "touch"}
  BY DEF Used
<1>2. gone' = gone \cup {d} /\ UNCHANGED <<program, pc, todo, key, touch, loopVars, shared>> /\ Steps' = Steps
  BY DEF Unplug, Steps, UsesRemote
<1>3. TypeOK'
  BY <1>1, <1>2 DEF EndsAtRest, TypeOK, shared, rcVars, loopVars
<1>4. OthersOnlyEnd' /\ Destroyed' /\ RestsAtEnd' /\ AbortsUnplugged'
  BY <1>2 DEF EndsAtRest, OthersOnlyEnd, OnlyEnds, Destroyed, RestsAtEnd, AbortsUnplugged, DriveTest, Running, shared
<1>5. QED
  BY <1>3, <1>4 DEF EndsAtRest

-----------------------------------------------------------------------------
(***************************************************************************)
(* What a step does to one side.                                           *)
(***************************************************************************)
LEMMA SideAfter ==
  ASSUME TypeOK, NEW op \in Steps, op[1] # "call", Do(op), NEW s \in Sides
  PROVE  /\ op \in {<<"stop", s>>, <<"reset", s>>} => motor'[s].run = "rest"
         /\ op = <<"reset", s>> => motor'[s].sp = "zero"
         /\ op # <<"reset", s>> /\ ~ (op[1] = "speed" /\ op[2] = s) => motor'[s].sp = motor[s].sp
         /\ op[1] = "speed" /\ op[2] = s =>
              motor'[s].sp = op[3] /\ motor'[s].run = motor[s].run /\ motor'[s].dir = motor[s].dir
         /\ op[1] = "run" /\ op[2] = s => motor'[s].run = op[3] /\ motor'[s].dir = motor[s].sp
         /\ op[1] \notin {"stop", "reset", "run", "speed"} \/ op[2] # s => motor'[s] = motor[s]
<1>1. motor \in [Sides -> [sp : Directions \cup {"zero"}, run : {"rest", "forever", "timed", "goal"},
                           dir : Directions \cup {"zero"}]]
  BY DEF TypeOK
<1>2. CASE op[1] = "speed"
  BY <1>1, <1>2, StepTypes DEF Do, Driven
<1>3. CASE op[1] = "run"
  BY <1>1, <1>3, StepTypes DEF Do, Driven
<1>4. CASE op[1] = "stop"
  <2>1. op = <<"stop", op[2]>> /\ op[2] \in Sides
    BY <1>4, StepTypes
  <2>2. motor' = [motor EXCEPT ![op[2]].run = "rest", ![op[2]].dir = "zero"]
    BY <1>4 DEF Do, Driven
  <2>3. QED
    BY <1>1, <2>1, <2>2
<1>5. CASE op[1] = "reset"
  <2>1. op = <<"reset", op[2]>> /\ op[2] \in Sides
    BY <1>5, StepTypes
  <2>2. motor' = [motor EXCEPT ![op[2]] = [sp |-> "zero", run |-> "rest", dir |-> "zero"]]
    BY <1>5 DEF Do, Driven
  <2>3. QED
    BY <1>1, <2>1, <2>2
<1>6. CASE op[1] \notin {"speed", "run", "stop", "reset"}
  BY <1>1, <1>6 DEF Do, Driven
<1>7. QED
  BY <1>2, <1>3, <1>4, <1>5, <1>6

LEMMA StatesAreButtons == \A v \in Values : StateOf(v) \subseteq Buttons
BY DEF Values, StateOf, Buttons

-----------------------------------------------------------------------------
(***************************************************************************)
(* Main does its next step, other than a call of a button.                 *)
(***************************************************************************)
MainDoes ==
  /\ Coming # <<>> /\ Head(Coming)[1] # "call"
  /\ todo' = [todo EXCEPT !["main"] = Tail(Coming)] /\ Do(Head(Coming))
  /\ UNCHANGED <<program, pc, key, touch, loopVars>>

LEMMA Shifted ==
  ASSUME TypeOK, MainDoes
  PROVE  /\ Coming \in Seq(Steps) /\ Coming' \in Seq(Steps) /\ Len(Coming') = Len(Coming) - 1
         /\ Coming[1] \in Steps /\ Coming[1] = Head(Coming) /\ 1 \in DOMAIN Coming
         /\ \A i \in DOMAIN Coming' : i + 1 \in DOMAIN Coming /\ Coming'[i] = Coming[i + 1]
         /\ \A i \in DOMAIN Coming : i # 1 => i - 1 \in DOMAIN Coming' /\ Coming'[i - 1] = Coming[i]
         /\ todo'["key"] = todo["key"] /\ todo'["touch"] = todo["touch"]
<1>1. todo \in [Threads -> Seq(Steps)] /\ Coming \in Seq(Steps)
  BY DEF TypeOK, Threads, Coming
<1>2. Coming' = Tail(Coming) /\ todo'["key"] = todo["key"] /\ todo'["touch"] = todo["touch"]
  BY <1>1 DEF MainDoes, Coming, Threads
<1>3. Coming # <<>>
  BY DEF MainDoes
<1>4. QED
  BY <1>1, <1>2, <1>3

LEMMA DoesOrder ==
  ASSUME TypeOK, CallsInOrder, MainDoes
  PROVE  CallsInOrder'
<1>1. /\ Coming \in Seq(Steps) /\ Coming' \in Seq(Steps) /\ Len(Coming') = Len(Coming) - 1
      /\ \A i \in DOMAIN Coming' : i + 1 \in DOMAIN Coming /\ Coming'[i] = Coming[i + 1]
  BY Shifted
<1>2. ASSUME NEW i \in DOMAIN Coming'
      PROVE  /\ Saves(i)' => i = Len(Coming')
             /\ Coming'[i][1] = "print" => i = 1
  BY <1>1, <1>2 DEF CallsInOrder, Saves
<1>3. ASSUME NEW i \in DOMAIN Coming', Coming'[i][1] = "call"
      PROVE  /\ Saves(Len(Coming))'
             /\ Coming'[i][3] <=> Coming'[i][2] \in StateOf(Coming'[Len(Coming')][2])
             /\ \A j \in DOMAIN Coming' :
                  j > i => Coming'[j][1] \in {"call", "saved"} /\ ~ Tells(j, Coming[i][2])'
  <2>1. i + 1 \in DOMAIN Coming /\ Coming[i + 1] = Coming'[i]
    BY <1>1, <1>3
  <2>2. Len(Coming') \in DOMAIN Coming' /\ Coming'[Len(Coming')] = Coming[Len(Coming)]
    BY <1>1, <1>3
  <2>3. Saves(Len(Coming)) /\ (Coming[i + 1][3] <=> Coming[i + 1][2] \in StateOf(Coming[Len(Coming)][2]))
    BY <1>3, <2>1 DEF CallsInOrder
  <2>4. \A j \in DOMAIN Coming' : j > i =>
          Coming[j + 1][1] \in {"call", "saved"} /\ ~ Tells(j + 1, Coming[i + 1][2])
    BY <1>1, <1>3, <2>1 DEF CallsInOrder
  <2>5. QED
    BY <1>1, <2>1, <2>2, <2>3, <2>4 DEF Saves, Tells
<1>4. QED
  BY <1>2, <1>3 DEF CallsInOrder

LEMMA DoesTold ==
  ASSUME TypeOK, CallsInOrder, MainDoes
  PROVE  Told' = Told
<1>1. /\ Coming \in Seq(Steps) /\ Coming' \in Seq(Steps) /\ Len(Coming') = Len(Coming) - 1
      /\ Coming[1] \in Steps /\ Coming[1] = Head(Coming) /\ 1 \in DOMAIN Coming
      /\ \A i \in DOMAIN Coming' : i + 1 \in DOMAIN Coming /\ Coming'[i] = Coming[i + 1]
      /\ \A i \in DOMAIN Coming : i # 1 => i - 1 \in DOMAIN Coming' /\ Coming'[i - 1] = Coming[i]
  BY Shifted
<1>2. CASE Coming[1][1] = "saved"
  <2>1. Len(Coming) = 1
    BY <1>1, <1>2 DEF CallsInOrder, Saves
  <2>2. DOMAIN Coming' = {} /\ DOMAIN Coming = {1}
    BY <1>1, <2>1
  <2>3. rc_state' = StateOf(Coming[1][2]) /\ Coming[1][2] \in Values
    BY <1>1, <1>2, StepTypes DEF MainDoes, Do
  <2>4. Told = {b \in Buttons : b \in StateOf(Coming[1][2])}
    BY <1>2, <2>2 DEF Told, Saves, Tells
  <2>5. Told' = {b \in Buttons : b \in rc_state'}
    BY <2>2 DEF Told
  <2>6. QED
    BY <2>3, <2>4, <2>5
<1>3. CASE Coming[1][1] # "saved"
  <2>1. rc_state' = rc_state /\ Coming[1][1] # "call"
    BY <1>1, <1>3 DEF MainDoes, Do
  <2>2. \A b : (\A i \in DOMAIN Coming : ~ Tells(i, b)) <=> (\A i \in DOMAIN Coming' : ~ Tells(i, b)')
    BY <1>1, <2>1 DEF Tells
  <2>3. \A i \in DOMAIN Coming : Saves(i) =>
          i - 1 \in DOMAIN Coming' /\ Saves(i - 1)' /\ Coming'[i - 1] = Coming[i]
    BY <1>1, <1>3 DEF Saves
  <2>4. \A i \in DOMAIN Coming' : Saves(i)' =>
          i + 1 \in DOMAIN Coming /\ Saves(i + 1) /\ Coming'[i] = Coming[i + 1]
    BY <1>1 DEF Saves
  <2>5. (\E i \in DOMAIN Coming : Saves(i)) <=> (\E i \in DOMAIN Coming' : Saves(i)')
    BY <2>3, <2>4
  <2>6. \A b : (\E i \in DOMAIN Coming : Saves(i) /\ b \in StateOf(Coming[i][2])) <=>
               (\E i \in DOMAIN Coming' : Saves(i)' /\ b \in StateOf(Coming'[i][2]))
    BY <2>3, <2>4
  <2>7. QED
    BY <2>1, <2>2, <2>5, <2>6 DEF Told
<1>4. QED
  BY <1>2, <1>3

\* What main starts a side with stays as it is, until it is started.
LEMMA DoesStarts ==
  ASSUME TypeOK, MainDoes, NEW i \in DOMAIN Coming', NEW s \in Sides, NEW dirs,
         StartsWith(i + 1, s, dirs), Coming[1] # <<"reset", s>>
  PROVE  StartsWith(i, s, dirs)'
<1>1. /\ Coming \in Seq(Steps) /\ Coming' \in Seq(Steps)
      /\ Coming[1] \in Steps /\ Coming[1] = Head(Coming) /\ 1 \in DOMAIN Coming
      /\ \A j \in DOMAIN Coming' : j + 1 \in DOMAIN Coming /\ Coming'[j] = Coming[j + 1]
      /\ \A j \in DOMAIN Coming : j # 1 => j - 1 \in DOMAIN Coming' /\ Coming'[j - 1] = Coming[j]
  BY Shifted
<1>2. Coming[1][1] # "call" /\ Do(Coming[1])
  BY <1>1 DEF MainDoes
<1>3. \A j \in DOMAIN Coming' : SetsSpeed(j, s)' => Coming'[j][3] \in dirs
  BY <1>1 DEF StartsWith, SetsSpeed
<1>4. CASE SetsSpeed(1, s)
  <2>1. motor'[s].sp = Coming[1][3]
    BY <1>1, <1>2, <1>4, SideAfter DEF SetsSpeed
  <2>2. Coming[1][3] \in dirs
    BY <1>1, <1>4 DEF StartsWith
  <2>3. QED
    BY <1>3, <2>1, <2>2 DEF StartsWith, SetsSpeed
<1>5. CASE ~ SetsSpeed(1, s)
  <2>1. motor'[s].sp = motor[s].sp
    BY <1>1, <1>2, <1>5, SideAfter DEF SetsSpeed
  <2>2. CASE motor[s].sp \in dirs
    BY <1>3, <2>1, <2>2 DEF StartsWith, SetsSpeed
  <2>3. CASE \E j \in DOMAIN Coming : j < i + 1 /\ SetsSpeed(j, s)
    <3>1. PICK j \in DOMAIN Coming : j < i + 1 /\ SetsSpeed(j, s)
      BY <2>3
    <3>2. j # 1 /\ j \in Nat /\ i \in Nat
      BY <1>1, <1>5, <3>1
    <3>3. j - 1 \in DOMAIN Coming' /\ Coming'[j - 1] = Coming[j] /\ j - 1 < i
      BY <1>1, <3>1, <3>2
    <3>4. \E k \in DOMAIN Coming' : k < i /\ SetsSpeed(k, s)'
      BY <3>1, <3>3 DEF SetsSpeed
    <3>5. QED
      BY <1>3, <3>4 DEF StartsWith, SetsSpeed
  <2>4. QED
    BY <2>2, <2>3 DEF StartsWith
<1>6. QED
  BY <1>4, <1>5

LEMMA DoesRuns ==
  ASSUME TypeOK, CallsInOrder, RunsForAButton, MainDoes
  PROVE  RunsForAButton'
<1> SUFFICES ASSUME program \in {"explorer", "remote"}, NEW s \in Sides,
                    NEW dirs, dirs = {"zero"} \cup {dir \in Directions : HeldBy(Told, s, dir)}
    PROVE  /\ motor'[s].run = "forever" /\ (\A i \in DOMAIN Coming' : Coming'[i] # <<"stop", s>>) =>
                motor'[s].dir \in dirs
           /\ \A i \in DOMAIN Coming' : Coming'[i] = <<"run", s, "forever">> => StartsWith(i, s, dirs)'
  <2>1. program' = program /\ Told' = Told
    BY DoesTold DEF MainDoes
  <2>2. \A t, d : HeldBy(Told, t, d)' <=> HeldBy(Told, t, d)
    BY <2>1 DEF HeldBy
  <2>3. ASSUME NEW s \in Sides, program \in {"explorer", "remote"}
        PROVE  /\ motor'[s].run = "forever" /\ (\A i \in DOMAIN Coming' : Coming'[i] # <<"stop", s>>) =>
                    motor'[s].dir = "zero" \/ HeldBy(Told, s, motor[s].dir)'
               /\ \A i \in DOMAIN Coming' : Coming'[i] = <<"run", s, "forever">> =>
                    StartsWith(i, s, {"zero"} \cup {dir \in Directions : HeldBy(Told, s, dir)})'
    <3>1. PICK dirs : dirs = {"zero"} \cup {dir \in Directions : HeldBy(Told, s, dir)}
      OBVIOUS
    <3>2. dirs = {"zero"} \cup {dir \in Directions : HeldBy(Told, s, dir)'}
      BY <2>2, <3>1
    <3>3. /\ motor'[s].run = "forever" /\ (\A i \in DOMAIN Coming' : Coming'[i] # <<"stop", s>>) =>
               motor'[s].dir \in dirs
          /\ \A i \in DOMAIN Coming' : Coming'[i] = <<"run", s, "forever">> => StartsWith(i, s, dirs)'
      BY <2>3, <3>1
    <3>4. QED
      BY <3>2, <3>3 DEF StartsWith
  <2>4. QED
    BY <2>1, <2>3 DEF RunsForAButton
<1>1. /\ Coming \in Seq(Steps) /\ Coming' \in Seq(Steps)
      /\ Coming[1] \in Steps /\ Coming[1] = Head(Coming) /\ 1 \in DOMAIN Coming
      /\ \A i \in DOMAIN Coming' : i + 1 \in DOMAIN Coming /\ Coming'[i] = Coming[i + 1]
      /\ \A i \in DOMAIN Coming : i # 1 => i - 1 \in DOMAIN Coming' /\ Coming'[i - 1] = Coming[i]
  BY Shifted
<1>2. Coming[1][1] # "call" /\ Do(Coming[1])
  BY <1>1 DEF MainDoes
<1>3. \A i \in DOMAIN Coming : Coming[i] = <<"run", s, "forever">> => StartsWith(i, s, dirs)
  BY DEF RunsForAButton
<1>4. ASSUME motor'[s].run = "forever", \A i \in DOMAIN Coming' : Coming'[i] # <<"stop", s>>
      PROVE  motor'[s].dir \in dirs
  <2>1. Coming[1] \notin {<<"stop", s>>, <<"reset", s>>}
    BY <1>1, <1>2, <1>4, SideAfter
  <2>2. CASE Coming[1][1] = "run" /\ Coming[1][2] = s
    <3>1. Coming[1] = <<"run", s, "forever">> /\ motor'[s].dir = motor[s].sp
      BY <1>1, <1>2, <1>4, <2>2, SideAfter DEF Steps
    <3>2. StartsWith(1, s, dirs)
      BY <1>1, <1>3, <3>1
    <3>3. \A j \in DOMAIN Coming : ~ (j < 1)
      BY <1>1
    <3>4. motor[s].sp \in dirs
      BY <3>2, <3>3 DEF StartsWith
    <3>5. QED
      BY <3>1, <3>4
  <2>3. CASE ~ (Coming[1][1] = "run" /\ Coming[1][2] = s)
    <3>1. motor'[s].run = motor[s].run /\ motor'[s].dir = motor[s].dir
      BY <1>1, <1>2, <2>1, <2>3, SideAfter, StepTypes
    <3>2. \A i \in DOMAIN Coming : Coming[i] # <<"stop", s>>
      BY <1>1, <1>4, <2>1
    <3>3. motor[s].dir = "zero" \/ HeldBy(Told, s, motor[s].dir)
      BY <1>4, <3>1, <3>2 DEF RunsForAButton
    <3>4. motor[s].dir \in Directions \cup {"zero"}
      BY DEF TypeOK
    <3>5. QED
      BY <3>1, <3>3, <3>4
  <2>4. QED
    BY <2>2, <2>3
<1>5. ASSUME NEW i \in DOMAIN Coming', Coming'[i] = <<"run", s, "forever">>
      PROVE  StartsWith(i, s, dirs)'
  <2>1. StartsWith(i + 1, s, dirs)
    BY <1>1, <1>3, <1>5
  <2>2. CASE Coming[1] # <<"reset", s>>
    BY <2>1, <2>2, DoesStarts
  <2>3. CASE Coming[1] = <<"reset", s>>
    <3>1. motor'[s].sp = "zero"
      BY <1>1, <1>2, <2>3, SideAfter
    <3>2. \A j \in DOMAIN Coming' : SetsSpeed(j, s)' => Coming'[j][3] \in dirs
      BY <1>1, <2>1 DEF StartsWith, SetsSpeed
    <3>3. QED
      BY <3>1, <3>2 DEF StartsWith, SetsSpeed
  <2>4. QED
    BY <2>2, <2>3
<1>6. QED
  BY <1>4, <1>5

LEMMA DoesLights ==
  ASSUME TypeOK, LightsFollow, MainDoes
  PROVE  LightsFollow'
<1> SUFFICES ASSUME program = "explorer"
    PROVE  LightsFollow'
  BY DEF LightsFollow, MainDoes
<1>1. /\ Coming \in Seq(Steps) /\ Coming' \in Seq(Steps)
      /\ Coming[1] \in Steps /\ Coming[1] = Head(Coming) /\ 1 \in DOMAIN Coming
      /\ \A i \in DOMAIN Coming' : i + 1 \in DOMAIN Coming /\ Coming'[i] = Coming[i + 1]
      /\ \A i \in DOMAIN Coming : i # 1 => i - 1 \in DOMAIN Coming' /\ Coming'[i - 1] = Coming[i]
  BY Shifted
<1>2. Coming[1][1] # "call" /\ Do(Coming[1]) /\ program' = program /\ pc' = pc
  BY <1>1 DEF MainDoes
<1>3. \A i \in DOMAIN Coming : Coming[i][1] # "reset"
  BY DEF LightsFollow
<1>4. pc' \in {"loop", "looks", "ended", "aborted"} /\ \A i \in DOMAIN Coming' : Coming'[i][1] # "reset"
  BY <1>1, <1>2, <1>3 DEF LightsFollow
<1>5. ASSUME NEW s \in Sides
      PROVE  /\ (\A i \in DOMAIN Coming' : ~ Lights(i, s)') => leds'[s] = Color(s)'
             /\ \A i \in DOMAIN Coming' : Moves(i, s)' => \E j \in DOMAIN Coming' : j > i /\ Lights(j, s)'
             /\ \A i \in DOMAIN Coming' :
                  Lights(i, s)' /\ (\A j \in DOMAIN Coming' : j > i => ~ Lights(j, s)')
                  => Becomes(s, Coming[i][3])'
  <2>1. /\ \A i \in DOMAIN Coming' : (Moves(i, s)' <=> Moves(i + 1, s)) /\ (Lights(i, s)' <=> Lights(i + 1, s))
        /\ \A i \in DOMAIN Coming : i # 1 => (Moves(i - 1, s)' <=> Moves(i, s)) /\ (Lights(i - 1, s)' <=> Lights(i, s))
    BY <1>1 DEF Moves, Lights
  <2>2. /\ (\A i \in DOMAIN Coming : ~ Lights(i, s)) => leds[s] = Color(s)
        /\ \A i \in DOMAIN Coming : Moves(i, s) => \E j \in DOMAIN Coming : j > i /\ Lights(j, s)
        /\ \A i \in DOMAIN Coming :
             Lights(i, s) /\ (\A j \in DOMAIN Coming : j > i => ~ Lights(j, s)) => Becomes(s, Coming[i][3])
    BY DEF LightsFollow
  <2>3. ~ Moves(1, s) => Color(s)' = Color(s)
    <3>1. ~ Moves(1, s) => motor'[s].run = motor[s].run /\ motor'[s].dir = motor[s].dir
      BY <1>1, <1>2, <1>3, SideAfter, StepTypes DEF Moves
    <3>2. QED
      BY <3>1 DEF Color
  <2>4. ASSUME \A i \in DOMAIN Coming' : ~ Lights(i, s)'
        PROVE  leds'[s] = Color(s)'
    <3>1. \A i \in DOMAIN Coming : i # 1 => ~ Lights(i, s)
      BY <1>1, <2>1, <2>4
    <3>2. DOMAIN Coming \subseteq Nat \ {0}
      BY <1>1
    <3>3. \A i \in DOMAIN Coming : ~ Moves(i, s)
      BY <2>2, <3>1, <3>2
    <3>4. Color(s)' = Color(s)
      BY <1>1, <2>3, <3>3
    <3>5. leds \in [Sides -> Colors]
      BY DEF TypeOK
    <3>6. CASE Lights(1, s)
      <4>1. Becomes(s, Coming[1][3])
        BY <1>1, <2>2, <3>1, <3>2, <3>6
      <4>2. Color(s) = Coming[1][3]
        BY <3>3, <4>1 DEF Becomes
      <4>3. leds'[s] = Coming[1][3]
        BY <1>2, <3>5, <3>6 DEF Do, Lights
      <4>4. QED
        BY <3>4, <4>2, <4>3
    <3>7. CASE ~ Lights(1, s)
      <4>1. leds[s] = Color(s)
        BY <2>2, <3>1, <3>7
      <4>2. leds'[s] = leds[s]
        BY <1>2, <3>5, <3>7 DEF Do, Lights
      <4>3. QED
        BY <3>4, <4>1, <4>2
    <3>8. QED
      BY <3>6, <3>7
  <2>5. ASSUME NEW i \in DOMAIN Coming', Moves(i, s)'
        PROVE  \E j \in DOMAIN Coming' : j > i /\ Lights(j, s)'
    <3>1. i + 1 \in DOMAIN Coming /\ Moves(i + 1, s) /\ i \in Nat
      BY <1>1, <2>1, <2>5
    <3>2. PICK j \in DOMAIN Coming : j > i + 1 /\ Lights(j, s)
      BY <2>2, <3>1
    <3>3. j \in Nat /\ j # 1
      BY <1>1, <3>1, <3>2
    <3>4. j - 1 \in DOMAIN Coming' /\ Lights(j - 1, s)' /\ j - 1 > i
      BY <1>1, <2>1, <3>1, <3>2, <3>3
    <3>5. QED
      BY <3>4
  <2>6. ASSUME NEW i \in DOMAIN Coming', Lights(i, s)', \A j \in DOMAIN Coming' : j > i => ~ Lights(j, s)'
        PROVE  Becomes(s, Coming[i][3])'
    <3>1. i + 1 \in DOMAIN Coming /\ Lights(i + 1, s) /\ i \in Nat /\ Coming'[i] = Coming[i + 1]
      BY <1>1, <2>1, <2>6
    <3>2. ASSUME NEW j \in DOMAIN Coming, j > i + 1 PROVE ~ Lights(j, s)
      <4>1. j \in Nat /\ j # 1
        BY <1>1, <3>1, <3>2
      <4>2. j - 1 \in DOMAIN Coming' /\ j - 1 > i /\ (Lights(j - 1, s)' <=> Lights(j, s))
        BY <1>1, <2>1, <3>1, <3>2, <4>1
      <4>3. QED
        BY <2>6, <4>2
    <3>3. PICK c \in Colors : c = Coming'[i][3]
      BY <1>1, <3>1, StepTypes DEF Lights
    <3>4. Becomes(s, c)
      BY <2>2, <3>1, <3>2, <3>3
    <3>5. PICK dirs : dirs = {IF c = "green" THEN "forward" ELSE "backward"}
      OBVIOUS
    <3>6. Color(s)' = c \/ \E k \in DOMAIN Coming' : Moves(k, s)'
      <4>1. CASE Coming[1] = <<"run", s, "forever">>
        <5>0. Moves(1, s)
          BY <4>1 DEF Moves
        <5>1. c # "off" /\ StartsWith(1, s, dirs)
          BY <1>1, <3>4, <3>5, <4>1, <5>0 DEF Becomes
        <5>2. \A j \in DOMAIN Coming : ~ (j < 1)
          BY <1>1
        <5>3. motor[s].sp \in dirs
          BY <5>1, <5>2 DEF StartsWith
        <5>4. motor'[s].run = "forever" /\ motor'[s].dir = motor[s].sp
          BY <1>1, <1>2, <4>1, SideAfter
        <5>5. QED
          BY <3>5, <5>1, <5>3, <5>4 DEF Color, Colors
      <4>2. CASE Moves(1, s) /\ Coming[1] # <<"run", s, "forever">>
        <5>1. c = "off"
          BY <1>1, <3>4, <4>2 DEF Becomes
        <5>2. motor'[s].run # "forever"
          <6>1. CASE Coming[1][1] = "stop"
            BY <1>1, <1>2, <4>2, <6>1, SideAfter, StepTypes DEF Moves
          <6>2. CASE Coming[1][1] = "run"
            <7>1. Coming[1] = <<"run", s, Coming[1][3]>>
              BY <1>1, <4>2, <6>2 DEF Moves, Steps
            <7>2. Coming[1][3] # "forever"
              BY <4>2, <7>1
            <7>3. motor'[s].run = Coming[1][3]
              BY <1>1, <1>2, <4>2, <6>2, SideAfter DEF Moves
            <7>4. QED
              BY <7>2, <7>3
          <6>3. QED
            BY <4>2, <6>1, <6>2 DEF Moves
        <5>3. Color(s)' = "off"
          BY <5>2 DEF Color
        <5>4. QED
          BY <5>1, <5>3
      <4>3. CASE ~ Moves(1, s)
        <5>1. CASE Color(s) = c
          BY <2>3, <4>3, <5>1
        <5>2. CASE \E k \in DOMAIN Coming : Moves(k, s)
          BY <1>1, <2>1, <4>3, <5>2
        <5>3. QED
          BY <3>4, <5>1, <5>2 DEF Becomes
      <4>4. QED
        BY <4>1, <4>2, <4>3
    <3>7. \A k \in DOMAIN Coming' : Moves(k, s)' => (Coming'[k] = <<"run", s, "forever">> <=> c # "off")
      BY <1>1, <2>1, <3>4 DEF Becomes
    <3>8. ASSUME NEW k \in DOMAIN Coming', Coming'[k] = <<"run", s, "forever">>
          PROVE  StartsWith(k, s, dirs)'
      <4>1. StartsWith(k + 1, s, dirs)
        BY <1>1, <3>4, <3>5, <3>8 DEF Becomes
      <4>2. Coming[1] # <<"reset", s>>
        BY <1>1, <1>3
      <4>3. QED
        BY <4>1, <4>2, DoesStarts
    <3>9. QED
      BY <3>3, <3>5, <3>6, <3>7, <3>8 DEF Becomes
  <2>7. QED
    BY <2>4, <2>5, <2>6
<1>6. QED
  BY <1>4, <1>5 DEF LightsFollow

LEMMA DoesPrints ==
  ASSUME TypeOK, CallsInOrder, PrintsFollow, MainDoes
  PROVE  PrintsFollow'
<1> SUFFICES ASSUME program = "prints"
    PROVE  PrintsFollow'
  BY DEF PrintsFollow, MainDoes
<1>1. /\ Coming \in Seq(Steps) /\ Coming' \in Seq(Steps)
      /\ Coming[1] \in Steps /\ Coming[1] = Head(Coming) /\ 1 \in DOMAIN Coming
      /\ \A i \in DOMAIN Coming' : i + 1 \in DOMAIN Coming /\ Coming'[i] = Coming[i + 1]
  BY Shifted
<1>2. Do(Coming[1]) /\ program' = program /\ Told' = Told
  BY <1>1, DoesTold DEF MainDoes
<1>3. \A i \in DOMAIN Coming' : Coming'[i][1] # "print"
  BY <1>1 DEF CallsInOrder
<1>4. "beacon" \notin printed /\ ~ Prints(1, "beacon")
  BY <1>1 DEF PrintsFollow
<1>5. "beacon" \notin printed'
  BY <1>2, <1>4 DEF Do, Prints
<1>6. ASSUME NEW b \in Buttons \ {"beacon"}
      PROVE  b \in printed' <=> b \in Told
  <2>1. CASE Prints(1, b)
    <3>1. Coming[1][3] <=> b \in Told
      BY <1>1, <2>1 DEF PrintsFollow
    <3>2. b \in printed' <=> Coming[1][3]
      BY <1>2, <2>1 DEF Do, Prints
    <3>3. QED
      BY <3>1, <3>2
  <2>2. CASE ~ Prints(1, b)
    <3>1. \A i \in DOMAIN Coming : ~ Prints(i, b)
      BY <2>2 DEF CallsInOrder, Prints
    <3>2. b \in printed <=> b \in Told
      BY <3>1 DEF PrintsFollow
    <3>3. b \in printed' <=> b \in printed
      BY <1>2, <2>2 DEF Do, Prints
    <3>4. QED
      BY <3>2, <3>3
  <2>3. QED
    BY <2>1, <2>2
<1>7. QED
  BY <1>2, <1>3, <1>5, <1>6 DEF PrintsFollow, Prints

LEMMA DoesFollows ==
  ASSUME TypeOK, FollowsButtons, MainDoes
  PROVE  FollowsButtons'
<1>1. Alone'
  <2>1. todo'["key"] = todo["key"] /\ todo'["touch"] = todo["touch"]
    BY Shifted
  <2>2. UNCHANGED <<program, key, touch>>
    BY DEF MainDoes
  <2>3. QED
    BY <2>1, <2>2 DEF FollowsButtons, Alone, DriveTest
<1>2. QED
  BY <1>1, DoesOrder, DoesRuns, DoesLights, DoesPrints DEF FollowsButtons

-----------------------------------------------------------------------------
(***************************************************************************)
(* What the callbacks of a button consist of.  A button that is released   *)
(* stops what it has started, and one that is pressed starts a side only   *)
(* with the speed that it stands for.                                      *)
(***************************************************************************)
ButtonOf(s, dir) ==
  IF program = "explorer" /\ s = "right"
  THEN (IF dir = "forward" THEN "blue_up" ELSE "blue_down")
  ELSE (IF dir = "forward" THEN "red_up" ELSE "red_down")

LEMMA HeldByButton == \A buttons, s, dir : HeldBy(buttons, s, dir) <=> ButtonOf(s, dir) \in buttons
BY DEF HeldBy, ButtonOf

\* The sequences that are handed over, and their first components.
LEMMA StepsOf ==
  /\ \A i \in DOMAIN Stop : Stop[i] \in {<<"stop", "left">>, <<"stop", "right">>, <<"state", "idle">>}
  /\ \A i \in DOMAIN Reset : Reset[i] \in {<<"reset", "left">>, <<"reset", "right">>, <<"state", "idle">>}
  /\ \A i \in DOMAIN Turn :
       Turn[i][1] \notin {"call", "saved", "print"} /\ \A s : Turn[i] # <<"run", s, "forever">>
  /\ \A i \in DOMAIN DriveBoth : DriveBoth[i][1] \in {"speed", "run", "wait"}
  /\ \A i \in DOMAIN BackAway :
       BackAway[i][1] \in {"stop", "color", "speed", "run"} /\ \A s : BackAway[i] # <<"run", s, "forever">>
<1>1. \A i \in DOMAIN Stop : Stop[i] \in {<<"stop", "left">>, <<"stop", "right">>, <<"state", "idle">>}
  BY DEF Stop
<1>2. \A i \in DOMAIN Reset : Reset[i] \in {<<"reset", "left">>, <<"reset", "right">>, <<"state", "idle">>}
  BY DEF Reset
<1>3. \A i \in DOMAIN Turn :
        Turn[i][1] \notin {"call", "saved", "print"} /\ \A s : Turn[i] # <<"run", s, "forever">>
  <2> DEFINE then == <<<<"state", "turning">>,
                       <<"speed", "left", "forward">>, <<"run", "left", "goal">>,
                       <<"speed", "right", "forward">>, <<"run", "right", "goal">>, <<"wait">>, <<"state", "idle">>>>
  <2>1. \A i \in DOMAIN then :
          then[i][1] \notin {"call", "saved", "print"} /\ \A s : then[i] # <<"run", s, "forever">>
    OBVIOUS
  <2>2. \A i \in DOMAIN (Stop \o then) :
          (Stop \o then)[i][1] \notin {"call", "saved", "print"} /\ \A s : (Stop \o then)[i] # <<"run", s, "forever">>
    BY DEF Stop
  <2>3. Turn = IF state # "idle" THEN Stop \o then ELSE <<>> \o then
    BY DEF Turn
  <2>4. <<>> \o then = then
    OBVIOUS
  <2> HIDE DEF then
  <2>5. QED
    BY <2>1, <2>2, <2>3, <2>4
<1>4. \A i \in DOMAIN DriveBoth : DriveBoth[i][1] \in {"speed", "run", "wait"}
  BY DEF DriveBoth
<1>5. \A i \in DOMAIN BackAway :
        BackAway[i][1] \in {"stop", "color", "speed", "run"} /\ \A s : BackAway[i] # <<"run", s, "forever">>
  BY DEF BackAway
<1>6. QED
  BY <1>1, <1>2, <1>3, <1>4, <1>5

LEMMA StepsOfDrive ==
  ASSUME NEW d \in Directions
  PROVE  /\ \A i \in DOMAIN Drive(d) : Drive(d)[i][1] \in {"speed", "state", "run"}
         /\ \A i \in DOMAIN DriveTimed(d) : DriveTimed(d)[i][1] \in {"speed", "state", "run", "wait"}
         /\ \A i \in DOMAIN Drive(d), s \in Sides : Drive(d)[i] = <<"run", s, "forever">> =>
              /\ \E j \in DOMAIN Drive(d) : j < i /\ Drive(d)[j] = <<"speed", s, d>>
              /\ \A j \in DOMAIN Drive(d) : Drive(d)[j][1] = "speed" => Drive(d)[j][3] = d
<1>1. /\ \A i \in DOMAIN Drive(d) : Drive(d)[i][1] \in {"speed", "state", "run"}
      /\ \A j \in DOMAIN Drive(d) : Drive(d)[j][1] = "speed" => Drive(d)[j][3] = d
  BY DEF Drive
<1>2. \A i \in DOMAIN DriveTimed(d) : DriveTimed(d)[i][1] \in {"speed", "state", "run", "wait"}
  BY DEF DriveTimed
<1>3. ASSUME NEW i \in DOMAIN Drive(d), NEW s \in Sides, Drive(d)[i] = <<"run", s, "forever">>
      PROVE  \E j \in DOMAIN Drive(d) : j < i /\ Drive(d)[j] = <<"speed", s, d>>
  <2>1. i \in {4, 5}
    BY <1>3 DEF Drive
  <2>2. /\ 1 \in DOMAIN Drive(d) /\ Drive(d)[1] = <<"speed", "left", d>>
        /\ 2 \in DOMAIN Drive(d) /\ Drive(d)[2] = <<"speed", "right", d>>
    BY DEF Drive
  <2>3. QED
    BY <2>1, <2>2 DEF Sides
<1>4. QED
  BY <1>1, <1>2, <1>3

LEMMA CallbackSteps ==
  ASSUME NEW b \in Buttons, NEW v \in BOOLEAN, UsesRemote
  PROVE  /\ \A i \in DOMAIN Callback(b, v) : Callback(b, v)[i][1] \notin {"call", "saved"}
         /\ \A i \in DOMAIN Callback(b, v) : Callback(b, v)[i][1] = "print" => i = 1
<1>1. /\ \A i \in DOMAIN RemoteCallback(b, v) : RemoteCallback(b, v)[i][1] \notin {"call", "saved", "print"}
  BY StepsOf, StepsOfDrive DEF RemoteCallback, Directions
<1>2. ASSUME NEW s, NEW d
      PROVE  \A i \in DOMAIN Roll(s, d, v) : Roll(s, d, v)[i][1] \notin {"call", "saved", "print"}
  BY DEF Roll
<1>3. \A i \in DOMAIN ExplorerCallback(b, v) : ExplorerCallback(b, v)[i][1] \notin {"call", "saved", "print"}
  BY <1>2 DEF ExplorerCallback
<1>4. \A i \in DOMAIN PrintCallback(b, v) : i = 1 /\ PrintCallback(b, v)[i][1] \in {"print", "terminate"}
  BY DEF PrintCallback
<1>5. QED
  BY <1>1, <1>3, <1>4 DEF Callback, UsesRemote

LEMMA ReleaseStops ==
  ASSUME program \in {"explorer", "remote"}, NEW s \in Sides, NEW dir, NEW v \in BOOLEAN, ~ v
  PROVE  \E i \in DOMAIN Callback(ButtonOf(s, dir), v) : Callback(ButtonOf(s, dir), v)[i] = <<"stop", s>>
<1>1. CASE program = "remote"
  <2>1. ButtonOf(s, dir) \in {"red_up", "red_down"}
    BY <1>1 DEF ButtonOf
  <2>2. Callback(ButtonOf(s, dir), v) = Stop
    BY <1>1, <2>1 DEF Callback, RemoteCallback
  <2>3. QED
    BY <2>2 DEF Stop, Sides
<1>2. CASE program = "explorer"
  <2>1. PICK d \in Directions : Callback(ButtonOf(s, dir), v) = Roll(s, d, v)
    BY <1>2 DEF ButtonOf, Callback, ExplorerCallback, Sides, Directions
  <2>2. Roll(s, d, v) = <<<<"stop", s>>, <<"color", s, "off">>>>
    BY DEF Roll
  <2>3. QED
    BY <2>1, <2>2
<1>3. QED
  BY <1>1, <1>2

LEMMA PressStarts ==
  ASSUME program \in {"explorer", "remote"}, NEW b \in Buttons, NEW v \in BOOLEAN, NEW s \in Sides,
         NEW i \in DOMAIN Callback(b, v), Callback(b, v)[i] = <<"run", s, "forever">>
  PROVE  /\ v
         /\ \E j \in DOMAIN Callback(b, v) : j < i /\ Callback(b, v)[j][1] = "speed" /\ Callback(b, v)[j][2] = s
         /\ \A j \in DOMAIN Callback(b, v) : Callback(b, v)[j][1] = "speed" /\ Callback(b, v)[j][2] = s =>
              Callback(b, v)[j][3] \in Directions /\ ButtonOf(s, Callback(b, v)[j][3]) = b
<1>1. CASE program = "remote"
  <2>1. Callback(b, v) = RemoteCallback(b, v)
    BY <1>1 DEF Callback
  <2>2. CASE b = "red_up" /\ v /\ state = "idle"
    <3>1. Callback(b, v) = Drive("forward") /\ "forward" \in Directions
      BY <2>1, <2>2 DEF RemoteCallback, Directions
    <3>2. ButtonOf(s, "forward") = b
      BY <1>1, <2>2 DEF ButtonOf
    <3>3. PICK j \in DOMAIN Drive("forward") : j < i /\ Drive("forward")[j] = <<"speed", s, "forward">>
      BY <3>1, StepsOfDrive
    <3>4. j \in DOMAIN Callback(b, v) /\ j < i /\ Callback(b, v)[j][1] = "speed" /\ Callback(b, v)[j][2] = s
      BY <3>1, <3>3
    <3>5. \A k \in DOMAIN Callback(b, v) : Callback(b, v)[k][1] = "speed" => Callback(b, v)[k][3] = "forward"
      BY <3>1, StepsOfDrive
    <3>6. QED
      BY <2>2, <3>1, <3>2, <3>4, <3>5
  <2>3. CASE b = "red_down" /\ v /\ state = "idle"
    <3>1. Callback(b, v) = Drive("backward") /\ "backward" \in Directions
      BY <2>1, <2>3 DEF RemoteCallback, Directions
    <3>2. ButtonOf(s, "backward") = b
      BY <1>1, <2>3 DEF ButtonOf
    <3>3. PICK j \in DOMAIN Drive("backward") : j < i /\ Drive("backward")[j] = <<"speed", s, "backward">>
      BY <3>1, StepsOfDrive
    <3>4. j \in DOMAIN Callback(b, v) /\ j < i /\ Callback(b, v)[j][1] = "speed" /\ Callback(b, v)[j][2] = s
      BY <3>1, <3>3
    <3>5. \A k \in DOMAIN Callback(b, v) : Callback(b, v)[k][1] = "speed" => Callback(b, v)[k][3] = "backward"
      BY <3>1, StepsOfDrive
    <3>6. QED
      BY <2>3, <3>1, <3>2, <3>4, <3>5
  <2>4. CASE ~ (b \in {"red_up", "red_down"} /\ v /\ state = "idle")
    <3>1. Callback(b, v) \in {Stop, Turn, <<<<"terminate">>>>, <<>>}
      BY <2>1, <2>4 DEF RemoteCallback
    <3>2. QED
      BY <3>1, StepsOf
  <2>5. QED
    BY <2>2, <2>3, <2>4
<1>2. CASE program = "explorer"
  <2>1. Callback(b, v) = ExplorerCallback(b, v)
    BY <1>2 DEF Callback
  <2>2. \/ b = "beacon" /\ Callback(b, v) = <<>>
        \/ \E t \in Sides, d \in Directions : b = ButtonOf(t, d) /\ Callback(b, v) = Roll(t, d, v)
    BY <1>2, <2>1 DEF ExplorerCallback, ButtonOf, Sides, Directions, Buttons
  <2>3. PICK t \in Sides, d \in Directions : b = ButtonOf(t, d) /\ Callback(b, v) = Roll(t, d, v)
    BY <2>2
  <2>4. v
    BY <2>3 DEF Roll
  <2>5. PICK c : Roll(t, d, v) = <<<<"speed", t, d>>, <<"run", t, "forever">>, <<"color", t, c>>>>
    BY <2>4 DEF Roll
  <2>6. t = s /\ i = 2
    BY <2>3, <2>5
  <2>7. /\ 1 \in DOMAIN Callback(b, v) /\ 1 < i
        /\ Callback(b, v)[1] = <<"speed", s, d>>
        /\ \A j \in DOMAIN Callback(b, v) : Callback(b, v)[j][1] = "speed" => j = 1
    BY <2>3, <2>5, <2>6
  <2>8. Callback(b, v)[1][1] = "speed" /\ Callback(b, v)[1][2] = s /\ Callback(b, v)[1][3] = d
    BY <2>7
  <2>9. ButtonOf(s, d) = b
    BY <2>3, <2>6
  <2>10. QED
    BY <2>4, <2>7, <2>8, <2>9
<1>3. QED
  BY <1>1, <1>2

-----------------------------------------------------------------------------
(***************************************************************************)
(* Main calls what was registered for a button.                            *)
(***************************************************************************)
Button == Coming[1][2]
Pressed == Coming[1][3]

MainCalls ==
  /\ Coming # <<>> /\ Coming[1][1] = "call"
  /\ todo' = [todo EXCEPT !["main"] = Callback(Button, Pressed) \o Tail(Coming)]
  /\ UNCHANGED <<program, pc, key, touch, loopVars, shared>>

\* Its steps come first, and nothing but calls after it.
LEMMA CalledFirst ==
  ASSUME TypeOK, CallsInOrder, MainCalls,
         NEW c, c = Callback(Button, Pressed)
  PROVE  /\ UsesRemote /\ Button \in Buttons /\ Pressed \in BOOLEAN
         /\ c \in Seq(Steps) /\ Len(c) \in Nat
         /\ Coming \in Seq(Steps) /\ 1 \in DOMAIN Coming
         /\ Coming' \in Seq(Steps) /\ Len(Coming') = Len(c) + Len(Coming) - 1
         /\ \A i \in DOMAIN c : i \in DOMAIN Coming' /\ i <= Len(c) /\ Coming'[i] = c[i]
         /\ \A i \in DOMAIN Coming' : i \notin DOMAIN c =>
              /\ i > Len(c) /\ i - Len(c) + 1 > 1
              /\ i - Len(c) + 1 \in DOMAIN Coming /\ Coming'[i] = Coming[i - Len(c) + 1]
         /\ \A i \in DOMAIN Coming : i # 1 =>
              i - 1 + Len(c) \in DOMAIN Coming' /\ Coming'[i - 1 + Len(c)] = Coming[i]
<1>1. todo \in [Threads -> Seq(Steps)] /\ Coming \in Seq(Steps) /\ Coming # <<>>
  BY DEF TypeOK, Threads, Coming, MainCalls
<1>2. Coming[1] \in Steps /\ 1 \in DOMAIN Coming
  BY <1>1
<1>3. UsesRemote /\ Button \in Buttons /\ Pressed \in BOOLEAN
  BY <1>2, StepTypes DEF MainCalls, Button, Pressed
<1>4. c \in Seq(Steps)
  BY <1>3, CallbackType
<1>5. Coming' = c \o Tail(Coming)
  BY <1>1 DEF MainCalls, Coming, Threads
<1>6. PICK rest \in Seq(Steps) :
        /\ rest = Tail(Coming) /\ Len(rest) = Len(Coming) - 1
        /\ \A i \in DOMAIN rest : i + 1 \in DOMAIN Coming /\ rest[i] = Coming[i + 1]
        /\ \A i \in DOMAIN Coming : i # 1 => i - 1 \in DOMAIN rest /\ rest[i - 1] = Coming[i]
  <2>a. Tail(Coming) \in Seq(Steps)
    BY <1>1
  <2>1. PICK rest \in Seq(Steps) : rest = Tail(Coming)
    BY <2>a
  <2>2. Len(rest) = Len(Coming) - 1
    BY <1>1, <2>1
  <2>3. \A i \in DOMAIN rest : i + 1 \in DOMAIN Coming /\ rest[i] = Coming[i + 1]
    BY <1>1, <2>1
  <2>4. \A i \in DOMAIN Coming : i # 1 => i - 1 \in DOMAIN rest /\ rest[i - 1] = Coming[i]
    BY <1>1, <2>1, <2>2
  <2>5. QED
    BY <2>1, <2>2, <2>3, <2>4
<1>7. /\ Coming' \in Seq(Steps) /\ Len(Coming') = Len(c) + Len(rest)
      /\ \A i \in DOMAIN c : i \in DOMAIN Coming' /\ i <= Len(c) /\ Coming'[i] = c[i]
      /\ \A i \in DOMAIN Coming' : i \notin DOMAIN c =>
           i > Len(c) /\ i - Len(c) \in DOMAIN rest /\ Coming'[i] = rest[i - Len(c)]
      /\ \A i \in DOMAIN rest : i + Len(c) \in DOMAIN Coming' /\ Coming'[i + Len(c)] = rest[i]
  <2>1. PICK all \in Seq(Steps) : all = c \o rest
    <3>1. c \o rest \in Seq(Steps)
      BY <1>4
    <3>2. QED
      BY <3>1, Zenon
  <2>2. Len(all) = Len(c) + Len(rest)
    BY <1>4, <2>1
  <2>3. \A i \in DOMAIN c : i \in DOMAIN all /\ i <= Len(c) /\ all[i] = c[i]
    BY <1>4, <2>1
  <2>4. \A i \in DOMAIN all : i \notin DOMAIN c =>
          i > Len(c) /\ i - Len(c) \in DOMAIN rest /\ all[i] = rest[i - Len(c)]
    BY <1>4, <2>1
  <2>5. \A i \in DOMAIN rest : i + Len(c) \in DOMAIN all /\ all[i + Len(c)] = rest[i]
    BY <1>4, <2>1
  <2>6. Coming' = all
    BY <1>5, <1>6, <2>1
  <2>7. QED
    BY <2>2, <2>3, <2>4, <2>5, <2>6
<1>8. ASSUME NEW i \in DOMAIN Coming', i \notin DOMAIN c
      PROVE  /\ i > Len(c) /\ i - Len(c) + 1 > 1
             /\ i - Len(c) + 1 \in DOMAIN Coming /\ Coming'[i] = Coming[i - Len(c) + 1]
  BY <1>4, <1>6, <1>7, <1>8
<1>9. ASSUME NEW i \in DOMAIN Coming, i # 1
      PROVE  i - 1 + Len(c) \in DOMAIN Coming' /\ Coming'[i - 1 + Len(c)] = Coming[i]
  BY <1>6, <1>7, <1>9
<1>10. QED
  BY <1>1, <1>2, <1>3, <1>4, <1>6, <1>7, <1>8, <1>9

LEMMA OnlyCalls ==
  ASSUME TypeOK, CallsInOrder, MainCalls
  PROVE  /\ \A i \in DOMAIN Coming : Coming[i][1] \in {"call", "saved"} /\ (i # 1 => ~ Tells(i, Button))
         /\ Len(Coming) \in DOMAIN Coming /\ Len(Coming) > 1 /\ Saves(Len(Coming))
         /\ Pressed <=> Button \in StateOf(Coming[Len(Coming)][2])
<1>1. Coming \in Seq(Steps) /\ 1 \in DOMAIN Coming
  BY CalledFirst
<1>2. /\ Saves(Len(Coming))
      /\ Pressed <=> Button \in StateOf(Coming[Len(Coming)][2])
      /\ \A j \in DOMAIN Coming : j > 1 => Coming[j][1] \in {"call", "saved"} /\ ~ Tells(j, Button)
  BY <1>1 DEF CallsInOrder, MainCalls, Button, Pressed
<1>3. Coming[1][1] = "call"
  BY DEF MainCalls
<1>4. Len(Coming) \in DOMAIN Coming /\ Len(Coming) # 1
  BY <1>1, <1>2, <1>3 DEF Saves
<1>5. \A j \in DOMAIN Coming : j # 1 => j > 1
  BY <1>1
<1>6. QED
  BY <1>1, <1>2, <1>3, <1>4, <1>5

LEMMA CallOrder ==
  ASSUME TypeOK, CallsInOrder, MainCalls
  PROVE  CallsInOrder'
<1>1. PICK c : c = Callback(Button, Pressed)
  OBVIOUS
<1>2. /\ c \in Seq(Steps) /\ Len(c) \in Nat /\ Coming \in Seq(Steps) /\ 1 \in DOMAIN Coming
      /\ Coming' \in Seq(Steps) /\ Len(Coming') = Len(c) + Len(Coming) - 1
      /\ \A i \in DOMAIN c : i \in DOMAIN Coming' /\ i <= Len(c) /\ Coming'[i] = c[i]
      /\ \A i \in DOMAIN Coming' : i \notin DOMAIN c =>
           /\ i > Len(c) /\ i - Len(c) + 1 > 1
           /\ i - Len(c) + 1 \in DOMAIN Coming /\ Coming'[i] = Coming[i - Len(c) + 1]
      /\ \A i \in DOMAIN Coming : i # 1 =>
           i - 1 + Len(c) \in DOMAIN Coming' /\ Coming'[i - 1 + Len(c)] = Coming[i]
  BY <1>1, CalledFirst
<1>3. /\ \A i \in DOMAIN c : c[i][1] \notin {"call", "saved"}
      /\ \A i \in DOMAIN c : c[i][1] = "print" => i = 1
  BY <1>1, CalledFirst, CallbackSteps
<1>4. /\ \A i \in DOMAIN Coming : Coming[i][1] \in {"call", "saved"}
      /\ Len(Coming) \in DOMAIN Coming /\ Len(Coming) > 1 /\ Saves(Len(Coming))
  BY OnlyCalls
<1>5. ASSUME NEW i \in DOMAIN Coming'
      PROVE  /\ Saves(i)' => i = Len(Coming')
             /\ Coming'[i][1] = "print" => i = 1
  <2>1. CASE i \in DOMAIN c
    BY <1>2, <1>3, <2>1 DEF Saves
  <2>2. CASE i \notin DOMAIN c
    <3>1. i - Len(c) + 1 \in DOMAIN Coming /\ Coming'[i] = Coming[i - Len(c) + 1] /\ i \in Nat
      BY <1>2, <2>2
    <3>2. Saves(i)' => i - Len(c) + 1 = Len(Coming)
      BY <3>1 DEF CallsInOrder, Saves
    <3>3. Coming'[i][1] # "print"
      BY <1>4, <3>1
    <3>4. QED
      BY <1>2, <3>1, <3>2, <3>3
  <2>3. QED
    BY <2>1, <2>2
<1>6. ASSUME NEW i \in DOMAIN Coming', Coming'[i][1] = "call"
      PROVE  /\ Saves(Len(Coming))'
             /\ Coming'[i][3] <=> Coming'[i][2] \in StateOf(Coming'[Len(Coming')][2])
             /\ \A j \in DOMAIN Coming' :
                  j > i => Coming'[j][1] \in {"call", "saved"} /\ ~ Tells(j, Coming[i][2])'
  <2>1. i \notin DOMAIN c
    BY <1>2, <1>3, <1>6
  <2>2. PICK k \in DOMAIN Coming : k = i - Len(c) + 1 /\ Coming'[i] = Coming[k] /\ i \in Nat /\ i > Len(c)
    BY <1>2, <2>1
  <2>3. Coming'[Len(Coming')] = Coming[Len(Coming)]
    BY <1>2, <1>4
  <2>4. /\ Coming[k][3] <=> Coming[k][2] \in StateOf(Coming[Len(Coming)][2])
        /\ \A j \in DOMAIN Coming : j > k => Coming[j][1] \in {"call", "saved"} /\ ~ Tells(j, Coming[k][2])
    BY <1>6, <2>2 DEF CallsInOrder
  <2>5. ASSUME NEW j \in DOMAIN Coming', j > i
        PROVE  Coming'[j][1] \in {"call", "saved"} /\ ~ Tells(j, Coming[i][2])'
    <3>1. j \in Nat /\ j \notin DOMAIN c
      BY <1>2, <2>2, <2>5
    <3>2. j - Len(c) + 1 \in DOMAIN Coming /\ Coming'[j] = Coming[j - Len(c) + 1]
      BY <1>2, <3>1
    <3>3. j - Len(c) + 1 > k
      BY <1>2, <2>2, <2>5, <3>1
    <3>4. QED
      BY <2>2, <2>4, <3>2, <3>3 DEF Tells
  <2>6. QED
    BY <1>4, <2>2, <2>3, <2>4, <2>5 DEF Saves
<1>7. QED
  BY <1>5, <1>6 DEF CallsInOrder

LEMMA CallTold ==
  ASSUME TypeOK, CallsInOrder, MainCalls
  PROVE  /\ \A x \in Buttons \ {Button} : x \in Told' <=> x \in Told
         /\ Button \in Told' <=> Pressed
<1>1. PICK c : c = Callback(Button, Pressed)
  OBVIOUS
<1>2. /\ c \in Seq(Steps) /\ Len(c) \in Nat /\ Coming \in Seq(Steps) /\ 1 \in DOMAIN Coming
      /\ Button \in Buttons
      /\ \A i \in DOMAIN c : i \in DOMAIN Coming' /\ Coming'[i] = c[i]
      /\ \A i \in DOMAIN Coming' : i \notin DOMAIN c =>
           /\ i - Len(c) + 1 > 1
           /\ i - Len(c) + 1 \in DOMAIN Coming /\ Coming'[i] = Coming[i - Len(c) + 1]
      /\ \A i \in DOMAIN Coming : i # 1 =>
           i - 1 + Len(c) \in DOMAIN Coming' /\ Coming'[i - 1 + Len(c)] = Coming[i]
  BY <1>1, CalledFirst
<1>3. \A i \in DOMAIN c : c[i][1] \notin {"call", "saved"}
  BY <1>1, CalledFirst, CallbackSteps
<1>4. /\ \A i \in DOMAIN Coming : i # 1 => ~ Tells(i, Button)
      /\ Len(Coming) \in DOMAIN Coming /\ Len(Coming) > 1 /\ Saves(Len(Coming))
      /\ Pressed <=> Button \in StateOf(Coming[Len(Coming)][2])
  BY OnlyCalls
<1>5. \A i \in DOMAIN Coming : Saves(i) => i = Len(Coming)
  BY DEF CallsInOrder
<1>6. PICK n \in DOMAIN Coming' : Saves(n)' /\ Coming'[n] = Coming[Len(Coming)]
  <2>1. Len(Coming) - 1 + Len(c) \in DOMAIN Coming' /\ Coming'[Len(Coming) - 1 + Len(c)] = Coming[Len(Coming)]
    BY <1>2, <1>4
  <2>2. QED
    BY <1>4, <2>1 DEF Saves
<1>7. ASSUME NEW i \in DOMAIN Coming', Saves(i)' PROVE Coming'[i] = Coming[Len(Coming)]
  <2>1. i \notin DOMAIN c
    BY <1>2, <1>3, <1>7 DEF Saves
  <2>2. i - Len(c) + 1 \in DOMAIN Coming /\ Coming'[i] = Coming[i - Len(c) + 1]
    BY <1>2, <2>1
  <2>3. Saves(i - Len(c) + 1)
    BY <1>7, <2>2 DEF Saves
  <2>4. QED
    BY <1>5, <2>2, <2>3
<1>8. \A x : (\E i \in DOMAIN Coming' : Tells(i, x)') <=> x # Button /\ \E i \in DOMAIN Coming : Tells(i, x)
  <2>1. ASSUME NEW x, NEW i \in DOMAIN Coming', Tells(i, x)'
        PROVE  x # Button /\ \E k \in DOMAIN Coming : Tells(k, x)
    <3>1. i \notin DOMAIN c
      BY <1>2, <1>3, <2>1 DEF Tells
    <3>2. PICK k \in DOMAIN Coming : k # 1 /\ Coming'[i] = Coming[k]
      BY <1>2, <3>1
    <3>3. Tells(k, x)
      BY <2>1, <3>2 DEF Tells
    <3>4. QED
      BY <1>4, <3>2, <3>3
  <2>2. ASSUME NEW x, x # Button, NEW i \in DOMAIN Coming, Tells(i, x)
        PROVE  \E k \in DOMAIN Coming' : Tells(k, x)'
    <3>1. i # 1
      BY <2>2 DEF Tells, Button
    <3>2. PICK k \in DOMAIN Coming' : Coming'[k] = Coming[i]
      BY <1>2, <3>1
    <3>3. QED
      BY <2>2, <3>2 DEF Tells
  <2>3. QED
    BY <2>1, <2>2
<1>9. rc_state' = rc_state
  BY DEF MainCalls, shared, rcVars
<1>10. PICK new : new = StateOf(Coming[Len(Coming)][2])
  OBVIOUS
<1>11. Told' = {x \in Buttons : IF \A j \in DOMAIN Coming' : ~ Tells(j, x)' THEN x \in new ELSE x \in rc_state}
  BY <1>6, <1>7, <1>9, <1>10 DEF Told
<1>12. Told = {x \in Buttons : IF \A j \in DOMAIN Coming : ~ Tells(j, x) THEN x \in new ELSE x \in rc_state}
  BY <1>4, <1>5, <1>10 DEF Told
<1>13. \A x \in Buttons \ {Button} : x \in Told' <=> x \in Told
  BY <1>8, <1>11, <1>12
<1>14. Button \in Told' <=> Button \in new
  BY <1>2, <1>8, <1>11
<1>15. QED
  BY <1>4, <1>10, <1>13, <1>14

LEMMA CallRuns ==
  ASSUME TypeOK, CallsInOrder, RunsForAButton, MainCalls
  PROVE  RunsForAButton'
<1>1. PICK c : c = Callback(Button, Pressed)
  OBVIOUS
<1>2. /\ Button \in Buttons /\ Pressed \in BOOLEAN
      /\ \A i \in DOMAIN c : i \in DOMAIN Coming' /\ Coming'[i] = c[i]
      /\ \A i \in DOMAIN Coming' : i \notin DOMAIN c =>
           i - Len(c) + 1 \in DOMAIN Coming /\ Coming'[i] = Coming[i - Len(c) + 1]
  BY <1>1, CalledFirst
<1>3. \A i \in DOMAIN Coming : Coming[i][1] \in {"call", "saved"}
  BY OnlyCalls
<1>4. \A i \in DOMAIN Coming' : i \notin DOMAIN c => Coming'[i][1] \in {"call", "saved"}
  BY <1>2, <1>3
<1>5. motor' = motor /\ program' = program
  BY DEF MainCalls, shared
<1>6. \A s, d : HeldBy(Told, s, d)' <=> ButtonOf(s, d) \in Told'
  BY <1>5 DEF HeldBy, ButtonOf
<1>7. (\A x \in Buttons \ {Button} : x \in Told' <=> x \in Told) /\ (Button \in Told' <=> Pressed)
  BY CallTold
<1>8. \A s, d : ButtonOf(s, d) \in Buttons
  BY DEF ButtonOf, Buttons
<1>9. ASSUME program \in {"explorer", "remote"}, NEW s \in Sides,
             motor[s].run = "forever", \A i \in DOMAIN Coming' : Coming'[i] # <<"stop", s>>
      PROVE  motor[s].dir = "zero" \/ ButtonOf(s, motor[s].dir) \in Told'
  <2>1. \A i \in DOMAIN Coming : Coming[i] # <<"stop", s>>
    BY <1>3
  <2>2. motor[s].dir = "zero" \/ ButtonOf(s, motor[s].dir) \in Told
    BY <1>9, <2>1, HeldByButton DEF RunsForAButton
  <2>3. CASE ButtonOf(s, motor[s].dir) = Button
    <3>1. ASSUME ~ Pressed PROVE FALSE
      <4>1. PICK i \in DOMAIN c : c[i] = <<"stop", s>>
        BY <1>1, <1>2, <1>9, <2>3, <3>1, ReleaseStops
      <4>2. QED
        BY <1>2, <1>9, <4>1
    <3>2. QED
      BY <1>7, <2>3, <3>1
  <2>4. CASE ButtonOf(s, motor[s].dir) # Button
    BY <1>7, <1>8, <2>2, <2>4
  <2>5. QED
    BY <2>3, <2>4
<1>10. ASSUME program \in {"explorer", "remote"}, NEW s \in Sides,
              NEW dirs, dirs = {"zero"} \cup {d \in Directions : ButtonOf(s, d) \in Told'},
              NEW i \in DOMAIN Coming', Coming'[i] = <<"run", s, "forever">>
       PROVE  StartsWith(i, s, dirs)'
  <2>1. i \in DOMAIN c /\ c[i] = <<"run", s, "forever">>
    BY <1>2, <1>4, <1>10
  <2>2. /\ Pressed
        /\ \E j \in DOMAIN c : j < i /\ c[j][1] = "speed" /\ c[j][2] = s
        /\ \A j \in DOMAIN c : c[j][1] = "speed" /\ c[j][2] = s =>
             c[j][3] \in Directions /\ ButtonOf(s, c[j][3]) = Button
    BY <1>1, <1>2, <1>10, <2>1, PressStarts
  <2>3. Button \in Told'
    BY <1>7, <2>2
  <2>4. ASSUME NEW j \in DOMAIN Coming', Coming'[j][1] = "speed", Coming'[j][2] = s
        PROVE  Coming'[j][3] \in dirs
    BY <1>2, <1>4, <1>10, <2>2, <2>3, <2>4
  <2>5. \E j \in DOMAIN Coming' : j < i /\ Coming'[j][1] = "speed" /\ Coming'[j][2] = s
    BY <1>2, <2>2
  <2>6. QED
    BY <2>4, <2>5 DEF StartsWith, SetsSpeed
<1>11. ASSUME program \in {"explorer", "remote"}, NEW s \in Sides
       PROVE  \A i \in DOMAIN Coming' : Coming'[i] = <<"run", s, "forever">> =>
                StartsWith(i, s, {"zero"} \cup {d \in Directions : HeldBy(Told, s, d)})'
  <2>1. PICK dirs : dirs = {"zero"} \cup {d \in Directions : ButtonOf(s, d) \in Told'}
    OBVIOUS
  <2>2. dirs = {"zero"} \cup {d \in Directions : HeldBy(Told, s, d)'}
    BY <1>6, <2>1
  <2>3. QED
    BY <1>10, <1>11, <2>1, <2>2 DEF StartsWith
<1>12. QED
  BY <1>5, <1>6, <1>9, <1>11 DEF RunsForAButton

\* The explorer: what is done to a side ends with its color.
LEMMA RollLights ==
  ASSUME program = "explorer", NEW b \in Buttons, NEW v \in BOOLEAN, NEW c, c = Callback(b, v)
  PROVE  \/ c = <<>>
         \/ \E t \in Sides, d \in Directions : \E color \in Colors \ {"off"} :
              /\ d = IF color = "green" THEN "forward" ELSE "backward"
              /\ c = <<<<"speed", t, d>>, <<"run", t, "forever">>, <<"color", t, color>>>>
         \/ \E t \in Sides : c = <<<<"stop", t>>, <<"color", t, "off">>>>
<1>1. c = ExplorerCallback(b, v)
  BY DEF Callback
<1>2. c = <<>> \/ \E t \in Sides, d \in Directions : c = Roll(t, d, v)
  BY <1>1 DEF ExplorerCallback, Sides, Directions, Buttons
<1>3. ASSUME NEW t \in Sides, NEW d \in Directions, c = Roll(t, d, v), v
      PROVE  \E color \in Colors \ {"off"} :
               /\ d = IF color = "green" THEN "forward" ELSE "backward"
               /\ c = <<<<"speed", t, d>>, <<"run", t, "forever">>, <<"color", t, color>>>>
  <2>1. PICK color \in Colors \ {"off"} : color = IF d = "forward" THEN "green" ELSE "red"
    BY DEF Colors
  <2>2. d = IF color = "green" THEN "forward" ELSE "backward"
    BY <2>1 DEF Directions
  <2>3. QED
    BY <1>3, <2>1, <2>2 DEF Roll
<1>4. ASSUME NEW t \in Sides, NEW d \in Directions, c = Roll(t, d, v), ~ v
      PROVE  c = <<<<"stop", t>>, <<"color", t, "off">>>>
  BY <1>4 DEF Roll
<1>5. QED
  BY <1>2, <1>3, <1>4

LEMMA CallLights ==
  ASSUME TypeOK, CallsInOrder, LightsFollow, MainCalls
  PROVE  LightsFollow'
<1> SUFFICES ASSUME program = "explorer"
    PROVE  LightsFollow'
  BY DEF LightsFollow, MainCalls
<1>1. PICK c : c = Callback(Button, Pressed)
  OBVIOUS
<1>2. /\ Button \in Buttons /\ Pressed \in BOOLEAN /\ Coming' \in Seq(Steps) /\ c \in Seq(Steps)
      /\ \A i \in DOMAIN c : i \in DOMAIN Coming' /\ Coming'[i] = c[i]
      /\ \A i \in DOMAIN Coming' : i \notin DOMAIN c =>
           i - Len(c) + 1 \in DOMAIN Coming /\ Coming'[i] = Coming[i - Len(c) + 1]
  BY <1>1, CalledFirst
<1>3. \A i \in DOMAIN Coming : Coming[i][1] \in {"call", "saved"}
  BY OnlyCalls
<1>4. \A i \in DOMAIN Coming' : i \notin DOMAIN c => Coming'[i][1] \in {"call", "saved"}
  BY <1>2, <1>3
<1>5. motor' = motor /\ leds' = leds /\ program' = program /\ pc' = pc
  BY DEF MainCalls, shared
<1>6. \/ c = <<>>
      \/ \E t \in Sides, d \in Directions : \E color \in Colors \ {"off"} :
           /\ d = IF color = "green" THEN "forward" ELSE "backward"
           /\ c = <<<<"speed", t, d>>, <<"run", t, "forever">>, <<"color", t, color>>>>
      \/ \E t \in Sides : c = <<<<"stop", t>>, <<"color", t, "off">>>>
  BY <1>1, <1>2, RollLights
<1>7. pc' \in {"loop", "looks", "ended", "aborted"}
  BY <1>5 DEF LightsFollow
<1>8. \A s \in Sides : leds'[s] = Color(s)'
  BY <1>3, <1>5 DEF LightsFollow, Lights, Color
<1>9. CASE c = <<>>
  <2>1. \A i \in DOMAIN Coming' : Coming'[i][1] \in {"call", "saved"}
    BY <1>4, <1>9
  <2>2. QED
    BY <1>7, <1>8, <2>1 DEF LightsFollow, Lights, Moves
<1>10. ASSUME NEW t \in Sides, NEW d \in Directions, NEW color \in Colors \ {"off"},
              d = IF color = "green" THEN "forward" ELSE "backward",
              c = <<<<"speed", t, d>>, <<"run", t, "forever">>, <<"color", t, color>>>>
       PROVE  LightsFollow'
  <2>1. /\ 1 \in DOMAIN Coming' /\ Coming'[1] = <<"speed", t, d>>
        /\ 2 \in DOMAIN Coming' /\ Coming'[2] = <<"run", t, "forever">>
        /\ 3 \in DOMAIN Coming' /\ Coming'[3] = <<"color", t, color>>
    <3>1. /\ 1 \in DOMAIN c /\ c[1] = <<"speed", t, d>>
          /\ 2 \in DOMAIN c /\ c[2] = <<"run", t, "forever">>
          /\ 3 \in DOMAIN c /\ c[3] = <<"color", t, color>>
      BY <1>10
    <3>2. QED
      BY <1>2, <3>1
  <2>2. \A i \in DOMAIN Coming' : i \notin {1, 2, 3} => Coming'[i][1] \in {"call", "saved"}
    BY <1>4, <1>10
  <2>3. /\ \A i \in DOMAIN Coming' : Coming'[i][1] # "reset"
        /\ \A i \in DOMAIN Coming', s \in Sides : Lights(i, s)' => i = 3 /\ s = t
        /\ \A i \in DOMAIN Coming', s \in Sides : Moves(i, s)' => i = 2 /\ s = t
        /\ \A i \in DOMAIN Coming' : SetsSpeed(i, t)' => i = 1
    BY <2>1, <2>2 DEF Lights, Moves, SetsSpeed
  <2>4. Lights(3, t)' /\ Moves(2, t)' /\ SetsSpeed(1, t)'
    BY <2>1 DEF Lights, Moves, SetsSpeed
  <2>5. \A i \in DOMAIN Coming' : Coming'[i] = <<"run", t, "forever">> => i = 2
    BY <2>1, <2>2
  <2>6. StartsWith(2, t, {IF color = "green" THEN "forward" ELSE "backward"})'
    BY <1>10, <2>1, <2>3, <2>4 DEF StartsWith
  <2>7. Becomes(t, color)'
    BY <2>1, <2>3, <2>4, <2>5, <2>6 DEF Becomes
  <2>8. Coming'[3][3] = color /\ 3 > 2
    BY <2>1
  <2>9. QED
    BY <1>7, <1>8, <2>1, <2>3, <2>4, <2>7, <2>8 DEF LightsFollow
<1>11. ASSUME NEW t \in Sides, c = <<<<"stop", t>>, <<"color", t, "off">>>>
       PROVE  LightsFollow'
  <2>1. /\ 1 \in DOMAIN Coming' /\ Coming'[1] = <<"stop", t>>
        /\ 2 \in DOMAIN Coming' /\ Coming'[2] = <<"color", t, "off">>
    <3>1. /\ 1 \in DOMAIN c /\ c[1] = <<"stop", t>>
          /\ 2 \in DOMAIN c /\ c[2] = <<"color", t, "off">>
      BY <1>11
    <3>2. QED
      BY <1>2, <3>1
  <2>2. \A i \in DOMAIN Coming' : i \notin {1, 2} => Coming'[i][1] \in {"call", "saved"}
    BY <1>4, <1>11
  <2>3. /\ \A i \in DOMAIN Coming' : Coming'[i][1] # "reset"
        /\ \A i \in DOMAIN Coming', s \in Sides : Lights(i, s)' => i = 2 /\ s = t
        /\ \A i \in DOMAIN Coming', s \in Sides : Moves(i, s)' => i = 1 /\ s = t
        /\ \A i \in DOMAIN Coming' : Coming'[i] # <<"run", t, "forever">>
    BY <2>1, <2>2 DEF Lights, Moves
  <2>4. Lights(2, t)' /\ Moves(1, t)'
    BY <2>1 DEF Lights, Moves
  <2>5. Becomes(t, "off")'
    BY <2>1, <2>3, <2>4 DEF Becomes
  <2>6. Coming'[2][3] = "off" /\ 2 > 1
    BY <2>1
  <2>7. QED
    BY <1>7, <1>8, <2>1, <2>3, <2>4, <2>5, <2>6 DEF LightsFollow
<1>12. QED
  BY <1>6, <1>9, <1>10, <1>11

LEMMA CallPrints ==
  ASSUME TypeOK, CallsInOrder, PrintsFollow, MainCalls
  PROVE  PrintsFollow'
<1> SUFFICES ASSUME program = "prints"
    PROVE  PrintsFollow'
  BY DEF PrintsFollow, MainCalls
<1>1. PICK c : c = Callback(Button, Pressed)
  OBVIOUS
<1>2. /\ Button \in Buttons /\ Pressed \in BOOLEAN
      /\ \A i \in DOMAIN c : i \in DOMAIN Coming' /\ Coming'[i] = c[i]
      /\ \A i \in DOMAIN Coming' : i \notin DOMAIN c =>
           i - Len(c) + 1 \in DOMAIN Coming /\ Coming'[i] = Coming[i - Len(c) + 1]
  BY <1>1, CalledFirst
<1>3. \A i \in DOMAIN Coming : Coming[i][1] \in {"call", "saved"}
  BY OnlyCalls
<1>4. printed' = printed /\ program' = program
  BY DEF MainCalls, shared
<1>5. (\A x \in Buttons \ {Button} : x \in Told' <=> x \in Told) /\ (Button \in Told' <=> Pressed)
  BY CallTold
<1>6. \A i \in DOMAIN Coming, x \in Buttons : ~ Prints(i, x)
  BY <1>3 DEF Prints
<1>7. "beacon" \notin printed /\ \A x \in Buttons \ {"beacon"} : x \in printed <=> x \in Told
  BY <1>6 DEF PrintsFollow
<1>8. \A i \in DOMAIN Coming' : i \notin DOMAIN c => \A x \in Buttons : ~ Prints(i, x)'
  BY <1>2, <1>3 DEF Prints
<1>9. c = PrintCallback(Button, Pressed)
  BY <1>1 DEF Callback
<1>10. CASE Button = "beacon"
  <2>1. \A i \in DOMAIN c : c[i] = <<"terminate">>
    BY <1>9, <1>10 DEF PrintCallback
  <2>2. \A i \in DOMAIN c : c[i][1] # "print"
    BY <2>1
  <2>3. \A i \in DOMAIN Coming', x \in Buttons : ~ Prints(i, x)'
    BY <1>2, <1>8, <2>2 DEF Prints
  <2>4. "beacon" \in Buttons
    BY DEF Buttons
  <2>5. QED
    BY <1>4, <1>5, <1>7, <1>10, <2>3, <2>4 DEF PrintsFollow
<1>11. CASE Button # "beacon"
  <2> PICK button \in Buttons : button = Button
    BY <1>2
  <2>1. c = <<<<"print", button, Pressed>>>>
    BY <1>9, <1>11 DEF PrintCallback
  <2>2. PICK op : op = <<"print", button, Pressed>>
    OBVIOUS
  <2>3. op[1] = "print" /\ op[2] = button /\ op[3] = Pressed
    BY <2>2
  <2>4. 1 \in DOMAIN c /\ \A i \in DOMAIN c : i = 1 /\ c[i] = op
    BY <2>1, <2>2
  <2>5. 1 \in DOMAIN Coming' /\ Coming'[1] = op
    BY <1>2, <2>4
  <2>6. Prints(1, button)' /\ (Coming'[1][3] <=> button \in Told')
    <3>1. Coming'[1][1] = "print" /\ Coming'[1][2] = button /\ Coming'[1][3] = Pressed
      BY <2>3, <2>5, Zenon
    <3>2. button \in Told' <=> Pressed
      BY <1>5
    <3>3. QED
      BY <3>1, <3>2, Zenon DEF Prints
  <2>7. ASSUME NEW i \in DOMAIN Coming', NEW x \in Buttons, Prints(i, x)'
        PROVE  x = button /\ i = 1
    <3>1. i \in DOMAIN c
      BY <1>8, <2>7
    <3>2. i = 1
      BY <2>4, <3>1
    <3>3. QED
      BY <2>3, <2>5, <2>7, <3>2 DEF Prints
  <2>8. "beacon" \notin printed' /\ \A i \in DOMAIN Coming' : ~ Prints(i, "beacon")'
    BY <1>4, <1>7, <1>11, <2>7 DEF Buttons
  <2>9. ASSUME NEW x \in Buttons \ {"beacon"}, x # button
        PROVE  /\ \A i \in DOMAIN Coming' : ~ Prints(i, x)'
               /\ x \in printed' <=> x \in Told'
    BY <1>4, <1>5, <1>7, <2>7, <2>9
  <2>10. \A i \in DOMAIN Coming' : Prints(i, button)' => (Coming'[i][3] <=> button \in Told')
    BY <2>6, <2>7, Zenon
  <2>11. QED
    BY <1>4, <2>5, <2>6, <2>8, <2>9, <2>10 DEF PrintsFollow
<1>12. QED
  BY <1>10, <1>11

LEMMA CallFollows ==
  ASSUME TypeOK, FollowsButtons, MainCalls
  PROVE  FollowsButtons'
<1>1. Alone'
  <2>1. todo'["key"] = todo["key"] /\ todo'["touch"] = todo["touch"]
    BY DEF MainCalls, TypeOK, Threads
  <2>2. UNCHANGED <<program, key, touch>>
    BY DEF MainCalls
  <2>3. QED
    BY <2>1, <2>2 DEF FollowsButtons, Alone, DriveTest
<1>2. QED
  BY <1>1, CallOrder, CallRuns, CallLights, CallPrints DEF FollowsButtons

-----------------------------------------------------------------------------
(***************************************************************************)
(* What main is given to do between two rounds of its loop.                *)
(***************************************************************************)
LEMMA Given ==
  ASSUME TypeOK, NEW steps, NEW place, Then(steps, place)
  PROVE  /\ Coming' = steps /\ pc' = place
         /\ todo'["key"] = todo["key"] /\ todo'["touch"] = todo["touch"]
         /\ motor' = motor /\ leds' = leds /\ rc_state' = rc_state /\ printed' = printed
         /\ program' = program /\ key' = key /\ touch' = touch
BY DEF Then, TypeOK, Threads, Coming, shared, rcVars

LEMMA ToldWhenDone ==
  ASSUME TypeOK, Coming = <<>>
  PROVE  Told = rc_state
<1>1. rc_state \subseteq Buttons
  BY StatesAreButtons DEF TypeOK
<1>2. DOMAIN Coming = {}
  OBVIOUS
<1>3. QED
  BY <1>1, <1>2 DEF Told

\* Steps that have nothing to do with the buttons leave what follows from them.
LEMMA PlainFollows ==
  ASSUME TypeOK, FollowsButtons, Coming = <<>>,
         NEW steps \in Seq(Steps), NEW place, Then(steps, place),
         \A i \in DOMAIN steps : steps[i][1] \notin {"call", "saved", "print"},
         program \in {"explorer", "remote"} => \A i \in DOMAIN steps, s \in Sides : steps[i] # <<"run", s, "forever">>,
         LightsFollow'
  PROVE  FollowsButtons'
<1>1. /\ Coming' = steps /\ motor' = motor /\ rc_state' = rc_state /\ printed' = printed /\ program' = program
      /\ todo'["key"] = todo["key"] /\ todo'["touch"] = todo["touch"] /\ key' = key /\ touch' = touch
  BY Given
<1>2. Alone'
  BY <1>1 DEF FollowsButtons, Alone, DriveTest
<1>3. CallsInOrder'
  BY <1>1 DEF CallsInOrder, Saves
<1>4. rc_state \subseteq Buttons /\ Told = rc_state
  BY StatesAreButtons, ToldWhenDone DEF TypeOK
<1>5. Told' = Told
  <2>1. \A i \in DOMAIN Coming' : ~ Saves(i)'
    BY <1>1 DEF Saves
  <2>2. QED
    BY <1>1, <1>4, <2>1 DEF Told
<1>6. RunsForAButton'
  <2> SUFFICES ASSUME program \in {"explorer", "remote"}, NEW s \in Sides
      PROVE  /\ motor'[s].run = "forever" => motor'[s].dir = "zero" \/ HeldBy(Told, s, motor[s].dir)'
             /\ \A i \in DOMAIN Coming' : Coming'[i] # <<"run", s, "forever">>
    BY <1>1 DEF RunsForAButton
  <2>1. motor[s].run = "forever" => motor[s].dir = "zero" \/ HeldBy(Told, s, motor[s].dir)
    BY DEF FollowsButtons, RunsForAButton
  <2>2. QED
    BY <1>1, <1>5, <2>1 DEF HeldBy
<1>7. PrintsFollow'
  <2> SUFFICES ASSUME program = "prints"
      PROVE  PrintsFollow'
    BY <1>1 DEF PrintsFollow
  <2>1. "beacon" \notin printed /\ \A b \in Buttons \ {"beacon"} : b \in printed <=> b \in Told
    BY DEF FollowsButtons, PrintsFollow
  <2>2. \A i \in DOMAIN Coming' : Coming'[i][1] # "print"
    BY <1>1
  <2>3. QED
    BY <1>1, <1>5, <2>1, <2>2 DEF PrintsFollow, Prints
<1>8. QED
  BY <1>2, <1>3, <1>6, <1>7 DEF FollowsButtons

\* The LEDs are as before, when there is nothing to do but the calls of buttons.
LEMMA QuietLights ==
  ASSUME TypeOK, LightsFollow, Coming = <<>>,
         NEW steps \in Seq(Steps), NEW place, Then(steps, place),
         program = "explorer" => /\ place \in {"loop", "looks", "ended"}
                                 /\ \A i \in DOMAIN steps : steps[i][1] \in {"call", "saved"}
  PROVE  LightsFollow'
<1>1. /\ Coming' = steps /\ motor' = motor /\ leds' = leds /\ program' = program /\ pc' = place
  BY Given
<1>2. program = "explorer" => \A s \in Sides : leds[s] = Color(s)
  BY DEF LightsFollow
<1>3. program = "explorer" => \A i \in DOMAIN Coming', s \in Sides :
        Coming'[i][1] # "reset" /\ ~ Lights(i, s)' /\ ~ Moves(i, s)'
  BY <1>1 DEF Lights, Moves
<1>4. QED
  BY <1>1, <1>2, <1>3 DEF LightsFollow, Color

\* Those of BackAway end with the color that says that a side does not run.
LEMMA BackAwayLights ==
  ASSUME TypeOK, Then(BackAway, "loop")
  PROVE  LightsFollow'
<1>1. Coming' = BackAway /\ pc' = "loop" /\ program' = program
  BY Given
<1>2. /\ DOMAIN Coming' = 1 .. 10
      /\ Coming'[1] = <<"stop", "left">> /\ Coming'[2] = <<"stop", "right">>
      /\ Coming'[3] = <<"color", "left", "red">> /\ Coming'[4] = <<"color", "right", "red">>
      /\ Coming'[5] = <<"speed", "left", "backward">> /\ Coming'[6] = <<"run", "left", "timed">>
      /\ Coming'[7] = <<"speed", "right", "backward">> /\ Coming'[8] = <<"run", "right", "timed">>
      /\ Coming'[9] = <<"color", "left", "off">> /\ Coming'[10] = <<"color", "right", "off">>
  BY <1>1 DEF BackAway
<1>3. /\ Lights(9, "left")' /\ Lights(10, "right")' /\ Moves(1, "left")' /\ Moves(2, "right")'
  BY <1>2 DEF Lights, Moves
<1>4. \A i \in DOMAIN Coming' : Coming'[i][1] # "reset" /\ \A s \in Sides : Coming'[i] # <<"run", s, "forever">>
  BY <1>1, StepsOf
<1>5. \A i \in DOMAIN Coming', s \in Sides : Moves(i, s)' => i < 9
  BY <1>2 DEF Moves
<1>6. ASSUME NEW s \in Sides
      PROVE  Becomes(s, "off")'
  BY <1>2, <1>3, <1>4 DEF Becomes, Sides
<1>7. ASSUME NEW s \in Sides, NEW i \in DOMAIN Coming', Lights(i, s)',
             \A j \in DOMAIN Coming' : j > i => ~ Lights(j, s)'
      PROVE  Coming'[i][3] = "off"
  <2>1. i \in {3, 4, 9, 10}
    BY <1>2, <1>7 DEF Lights
  <2>2. i \notin {3, 4}
    <3>1. CASE i = 3
      BY <1>2, <1>3, <1>7, <3>1 DEF Lights
    <3>2. CASE i = 4
      BY <1>2, <1>3, <1>7, <3>2 DEF Lights
    <3>3. QED
      BY <3>1, <3>2
  <2>3. QED
    BY <1>2, <2>1, <2>2
<1>8. ASSUME NEW s \in Sides
      PROVE  \E i \in DOMAIN Coming' : i > 8 /\ Lights(i, s)'
  BY <1>2, <1>3 DEF Sides
<1>9. ASSUME NEW s \in Sides
      PROVE  /\ (\A i \in DOMAIN Coming' : ~ Lights(i, s)') => leds'[s] = Color(s)'
             /\ \A i \in DOMAIN Coming' : Moves(i, s)' => \E j \in DOMAIN Coming' : j > i /\ Lights(j, s)'
             /\ \A i \in DOMAIN Coming' :
                  Lights(i, s)' /\ (\A j \in DOMAIN Coming' : j > i => ~ Lights(j, s)') =>
                    Becomes(s, Coming[i][3])'
  <2>1. \A i \in DOMAIN Coming' : Moves(i, s)' => \E j \in DOMAIN Coming' : j > i /\ Lights(j, s)'
    <3>1. PICK j \in DOMAIN Coming' : j > 8 /\ Lights(j, s)'
      BY <1>8
    <3>2. QED
      BY <1>2, <1>5, <3>1
  <2>2. ASSUME NEW i \in DOMAIN Coming', Lights(i, s)', \A j \in DOMAIN Coming' : j > i => ~ Lights(j, s)'
        PROVE  Becomes(s, Coming[i][3])'
    <3>1. Coming'[i][3] = "off"
      BY <1>7, <2>2
    <3>2. Becomes(s, "off")'
      BY <1>6
    <3>3. QED
      BY <3>1, <3>2, Zenon DEF Becomes
  <2>3. QED
    BY <1>8, <2>1, <2>2
<1>10. QED
  BY <1>1, <1>4, <1>9 DEF LightsFollow

(***************************************************************************)
(* remote_control::process calls every button that changed, once.          *)
(***************************************************************************)
CallsOf(cs, buttons, old, new) ==
  /\ \A i \in DOMAIN cs :
       /\ cs[i][1] = "call" /\ cs[i][2] \in buttons /\ Changed(cs[i][2], old, new)
       /\ cs[i][3] <=> cs[i][2] \in new
  /\ \A i, j \in DOMAIN cs : cs[i][2] = cs[j][2] => i = j
  /\ \A b \in buttons : Changed(b, old, new) => \E i \in DOMAIN cs : cs[i][2] = b

LEMMA OneMoreCall ==
  ASSUME NEW old, NEW new, UsesRemote, NEW buttons \in SUBSET Buttons, NEW b \in Buttons \ buttons,
         NEW cs \in Seq(Steps), CallsOf(cs, buttons, old, new),
         NEW ds, ds = cs \o CallOf(b, old, new)
  PROVE  ds \in Seq(Steps) /\ CallsOf(ds, buttons \cup {b}, old, new)
<1>1. CASE ~ Changed(b, old, new)
  <2>1. ds = cs
    BY <1>1 DEF CallOf
  <2>2. CallsOf(cs, buttons \cup {b}, old, new)
    BY <1>1 DEF CallsOf
  <2>3. QED
    BY <2>1, <2>2
<1>2. CASE Changed(b, old, new)
  <2>1. PICK v \in BOOLEAN : v = (b \in new)
    BY (b \in new) \in BOOLEAN, Zenon
  <2>2. PICK op \in Steps : op = <<"call", b, v>>
    BY StepsAre
  <2>3. op[1] = "call" /\ op[2] = b /\ (op[3] <=> b \in new)
    <3>1. op[1] = "call" /\ op[2] = b /\ op[3] = v
      BY <2>2
    <3>2. QED
      BY <2>1, <3>1, Zenon
  <2>4. CallOf(b, old, new) = <<op>>
    BY <1>2, <2>1, <2>2, Zenon DEF CallOf
  <2>5. ds \in Seq(Steps) /\ ds = cs \o <<op>>
    BY <2>2, <2>4
  <2>6. /\ Len(ds) = Len(cs) + 1 /\ ds[Len(cs) + 1] = op
        /\ \A i \in DOMAIN cs : i \in DOMAIN ds /\ ds[i] = cs[i]
        /\ \A i \in DOMAIN ds : i \notin DOMAIN cs => i = Len(cs) + 1
        /\ Len(cs) + 1 \in DOMAIN ds
    BY <2>2, <2>5
  <2>7. ASSUME NEW i \in DOMAIN ds
        PROVE  /\ ds[i][1] = "call" /\ ds[i][2] \in buttons \cup {b} /\ Changed(ds[i][2], old, new)
               /\ ds[i][3] <=> ds[i][2] \in new
    <3>1. CASE i \in DOMAIN cs
      BY <2>6, <3>1 DEF CallsOf
    <3>2. CASE i \notin DOMAIN cs
      <4>1. ds[i] = op
        BY <2>6, <3>2
      <4>2. QED
        BY <1>2, <2>3, <4>1
    <3>3. QED
      BY <3>1, <3>2
  <2>8. \A i, j \in DOMAIN ds : ds[i][2] = ds[j][2] => i = j
    <3>1. \A i \in DOMAIN ds : i \in DOMAIN cs => ds[i][2] # b
      BY <2>6 DEF CallsOf
    <3>2. \A i \in DOMAIN ds : i \notin DOMAIN cs => ds[i][2] = b /\ i = Len(cs) + 1
      BY <2>3, <2>6
    <3>3. QED
      BY <2>6, <3>1, <3>2 DEF CallsOf
  <2>9. \A x \in buttons \cup {b} : Changed(x, old, new) => \E i \in DOMAIN ds : ds[i][2] = x
    BY <2>3, <2>6 DEF CallsOf
  <2>10. QED
    BY <2>5, <2>7, <2>8, <2>9 DEF CallsOf
<1>3. QED
  BY <1>1, <1>2

LEMMA CallsAre ==
  ASSUME NEW old, NEW new, UsesRemote
  PROVE  Calls(old, new) \in Seq(Steps) /\ CallsOf(Calls(old, new), Buttons, old, new)
<1> DEFINE A == CallOf("red_up", old, new)
           B == A \o CallOf("red_down", old, new)
           C == B \o CallOf("blue_up", old, new)
           D == C \o CallOf("blue_down", old, new)
           E == D \o CallOf("beacon", old, new)
<1>1. CallsOf(<<>>, {}, old, new) /\ <<>> \in Seq(Steps)
  BY DEF CallsOf
<1>2. <<>> \o A = A
  <2>1. A = <<>> \/ \E op : A = <<op>>
    BY DEF CallOf
  <2>2. QED
    BY <2>1
<1>3. A \in Seq(Steps) /\ CallsOf(A, {"red_up"}, old, new)
  <2>1. PICK done \in SUBSET Buttons : done = {}
    BY DEF Buttons
  <2>2. PICK b \in Buttons \ done : b = "red_up"
    BY <2>1 DEF Buttons
  <2>3. done \cup {b} = {"red_up"}
    BY <2>1, <2>2 DEF Buttons
  <2>4. A = <<>> \o CallOf(b, old, new)
    BY <1>2, <2>2
  <2>5. <<>> \in Seq(Steps) /\ CallsOf(<<>>, done, old, new)
    BY <1>1, <2>1
  <2> HIDE DEF A, B, C, D, E
  <2>6. A \in Seq(Steps) /\ CallsOf(A, done \cup {b}, old, new)
    BY <2>4, <2>5, OneMoreCall
  <2>7. QED
    BY <2>3, <2>6, Zenon
<1>4. B \in Seq(Steps) /\ CallsOf(B, {"red_up", "red_down"}, old, new)
  <2>1. PICK done \in SUBSET Buttons : done = {"red_up"}
    BY DEF Buttons
  <2>2. PICK b \in Buttons \ done : b = "red_down"
    BY <2>1 DEF Buttons
  <2>3. done \cup {b} = {"red_up", "red_down"}
    BY <2>1, <2>2 DEF Buttons
  <2>4. B = A \o CallOf(b, old, new)
    BY <2>2
  <2>5. A \in Seq(Steps) /\ CallsOf(A, done, old, new)
    BY <1>3, <2>1
  <2> HIDE DEF A, B, C, D, E
  <2>6. B \in Seq(Steps) /\ CallsOf(B, done \cup {b}, old, new)
    BY <2>4, <2>5, OneMoreCall
  <2>7. QED
    BY <2>3, <2>6, Zenon
<1>5. C \in Seq(Steps) /\ CallsOf(C, {"red_up", "red_down", "blue_up"}, old, new)
  <2>1. PICK done \in SUBSET Buttons : done = {"red_up", "red_down"}
    BY DEF Buttons
  <2>2. PICK b \in Buttons \ done : b = "blue_up"
    BY <2>1 DEF Buttons
  <2>3. done \cup {b} = {"red_up", "red_down", "blue_up"}
    BY <2>1, <2>2 DEF Buttons
  <2>4. C = B \o CallOf(b, old, new)
    BY <2>2
  <2>5. B \in Seq(Steps) /\ CallsOf(B, done, old, new)
    BY <1>4, <2>1
  <2> HIDE DEF A, B, C, D, E
  <2>6. C \in Seq(Steps) /\ CallsOf(C, done \cup {b}, old, new)
    BY <2>4, <2>5, OneMoreCall
  <2>7. QED
    BY <2>3, <2>6, Zenon
<1>6. D \in Seq(Steps) /\ CallsOf(D, {"red_up", "red_down", "blue_up", "blue_down"}, old, new)
  <2>1. PICK done \in SUBSET Buttons : done = {"red_up", "red_down", "blue_up"}
    BY DEF Buttons
  <2>2. PICK b \in Buttons \ done : b = "blue_down"
    BY <2>1 DEF Buttons
  <2>3. done \cup {b} = {"red_up", "red_down", "blue_up", "blue_down"}
    BY <2>1, <2>2 DEF Buttons
  <2>4. D = C \o CallOf(b, old, new)
    BY <2>2
  <2>5. C \in Seq(Steps) /\ CallsOf(C, done, old, new)
    BY <1>5, <2>1
  <2> HIDE DEF A, B, C, D, E
  <2>6. D \in Seq(Steps) /\ CallsOf(D, done \cup {b}, old, new)
    BY <2>4, <2>5, OneMoreCall
  <2>7. QED
    BY <2>3, <2>6, Zenon
<1>7. E \in Seq(Steps) /\ CallsOf(E, Buttons, old, new)
  <2>1. PICK done \in SUBSET Buttons : done = {"red_up", "red_down", "blue_up", "blue_down"}
    BY DEF Buttons
  <2>2. PICK b \in Buttons \ done : b = "beacon"
    BY <2>1 DEF Buttons
  <2>3. done \cup {b} = Buttons
    BY <2>1, <2>2 DEF Buttons
  <2>4. E = D \o CallOf(b, old, new)
    BY <2>2
  <2>5. D \in Seq(Steps) /\ CallsOf(D, done, old, new)
    BY <1>6, <2>1
  <2> HIDE DEF A, B, C, D, E
  <2>6. E \in Seq(Steps) /\ CallsOf(E, done \cup {b}, old, new)
    BY <2>4, <2>5, OneMoreCall
  <2>7. QED
    BY <2>3, <2>6, Zenon
<1>8. Calls(old, new) = E
  BY DEF Calls
<1> HIDE DEF E
<1>9. QED
  BY <1>7, <1>8

LEMMA ProcessFollows ==
  ASSUME TypeOK, FollowsButtons, UsesRemote, Coming = <<>>, NEW value \in Values,
         NEW place \in {"loop", "looks"}, Then(Process(value), place)
  PROVE  FollowsButtons'
<1>1. CASE value = rc_value
  <2>0. <<>> \in Seq(Steps) /\ DOMAIN (<<>>) = {}
    OBVIOUS
  <2>1. PICK steps \in Seq(Steps) : steps = <<>> /\ DOMAIN steps = {}
    BY <2>0, Zenon
  <2>2. Then(steps, place)
    BY <1>1, <2>1 DEF Process
  <2>3. LightsFollow'
    BY <2>1, <2>2, QuietLights DEF FollowsButtons
  <2>4. QED
    BY <2>1, <2>2, <2>3, PlainFollows
<1>2. CASE value # rc_value
  <2> DEFINE new == StateOf(value)
  <2>1. PICK cs \in Seq(Steps) : cs = Calls(rc_state, new) /\ CallsOf(cs, Buttons, rc_state, new)
    BY CallsAre
  <2>2. PICK last \in Steps : last = <<"saved", value>>
    BY StepsAre
  <2>3. last[1] = "saved" /\ last[2] = value
    BY <2>2
  <2>4. PICK steps \in Seq(Steps) : steps = Append(cs, last)
    <3>1. Append(cs, last) \in Seq(Steps)
      OBVIOUS
    <3>2. QED
      BY <3>1, Zenon
  <2>5. /\ Len(steps) = Len(cs) + 1 /\ steps[Len(steps)] = last /\ Len(steps) \in DOMAIN steps
        /\ \A i \in DOMAIN steps : i # Len(steps) => i \in DOMAIN cs /\ steps[i] = cs[i]
        /\ \A i \in DOMAIN cs : i \in DOMAIN steps /\ i # Len(steps) /\ steps[i] = cs[i]
    BY <2>1, <2>2, <2>4
  <2>6. Then(steps, place)
    BY <1>2, <2>1, <2>2, <2>4 DEF Process
  <2>7. /\ Coming' = steps /\ motor' = motor /\ rc_state' = rc_state /\ printed' = printed /\ program' = program
        /\ todo'["key"] = todo["key"] /\ todo'["touch"] = todo["touch"] /\ key' = key /\ touch' = touch
    BY <2>6, Given
  <2>8. \A i \in DOMAIN steps : i # Len(steps) =>
          /\ steps[i][1] = "call" /\ (steps[i][3] <=> steps[i][2] \in new)
          /\ \A j \in DOMAIN steps : j # Len(steps) => (steps[i][2] = steps[j][2] => i = j)
    BY <2>1, <2>5 DEF CallsOf
  <2>9. CallsInOrder'
    <3> SUFFICES ASSUME NEW i \in DOMAIN steps
        PROVE  /\ steps[i][1] = "saved" => i = Len(steps)
               /\ steps[i][1] = "print" => i = 1
               /\ steps[i][1] = "call" =>
                    /\ steps[Len(steps)][1] = "saved"
                    /\ steps[i][3] <=> steps[i][2] \in StateOf(steps[Len(steps)][2])
                    /\ \A j \in DOMAIN steps : j > i =>
                         steps[j][1] \in {"call", "saved"} /\ ~ (steps[j][1] = "call" /\ steps[j][2] = steps[i][2])
      BY <2>7 DEF CallsInOrder, Saves, Tells
    <3>1. CASE i = Len(steps)
      BY <2>3, <2>5, <3>1
    <3>2. CASE i # Len(steps)
      <4>1. \A j \in DOMAIN steps : j > i =>
              steps[j][1] \in {"call", "saved"} /\ ~ (steps[j][1] = "call" /\ steps[j][2] = steps[i][2])
        BY <2>3, <2>5, <2>8, <3>2
      <4>2. QED
        BY <2>3, <2>5, <2>8, <3>2, <4>1
    <3>3. QED
      BY <3>1, <3>2
  <2>10. rc_state \subseteq Buttons /\ Told = rc_state
    BY StatesAreButtons, ToldWhenDone DEF TypeOK
  <2>11. Told' = Told
    <3>1. \A i \in DOMAIN steps : steps[i][1] = "saved" <=> i = Len(steps)
      BY <2>3, <2>5, <2>8
    <3>2. ASSUME NEW b \in Buttons, \A j \in DOMAIN steps : ~ (steps[j][1] = "call" /\ steps[j][2] = b)
          PROVE  b \in new <=> b \in rc_state
      <4>1. ~ \E i \in DOMAIN cs : cs[i][2] = b
        BY <2>5, <2>8, <3>2
      <4>2. ~ Changed(b, rc_state, new)
        BY <2>1, <4>1 DEF CallsOf
      <4>3. QED
        BY <4>2, Zenon DEF Changed
    <3>3. Told' = {b \in Buttons :
            IF \E i \in DOMAIN steps : steps[i][1] = "saved"
                 /\ \A j \in DOMAIN steps : ~ (steps[j][1] = "call" /\ steps[j][2] = b)
            THEN \E i \in DOMAIN steps : steps[i][1] = "saved" /\ b \in StateOf(steps[i][2])
            ELSE b \in rc_state}
      BY <2>7 DEF Told, Saves, Tells
    <3>4. ASSUME NEW b \in Buttons
          PROVE  (IF \E i \in DOMAIN steps : steps[i][1] = "saved"
                       /\ \A j \in DOMAIN steps : ~ (steps[j][1] = "call" /\ steps[j][2] = b)
                  THEN \E i \in DOMAIN steps : steps[i][1] = "saved" /\ b \in StateOf(steps[i][2])
                  ELSE b \in rc_state) <=> b \in rc_state
      <4>1. (\E i \in DOMAIN steps : steps[i][1] = "saved" /\ b \in StateOf(steps[i][2])) <=> b \in new
        BY <2>3, <2>5, <3>1
      <4>2. QED
        BY <3>2, <4>1
    <3>5. QED
      BY <2>10, <3>3, <3>4
  <2>12. \A i \in DOMAIN Coming' : Coming'[i][1] \in {"call", "saved"}
    BY <2>3, <2>5, <2>7, <2>8
  <2>13. RunsForAButton'
    <3> SUFFICES ASSUME program \in {"explorer", "remote"}, NEW s \in Sides
        PROVE  /\ motor'[s].run = "forever" => motor'[s].dir = "zero" \/ HeldBy(Told, s, motor[s].dir)'
               /\ \A i \in DOMAIN Coming' : Coming'[i] # <<"run", s, "forever">>
      BY <2>7 DEF RunsForAButton
    <3>1. motor[s].run = "forever" => motor[s].dir = "zero" \/ HeldBy(Told, s, motor[s].dir)
      BY DEF FollowsButtons, RunsForAButton
    <3>2. QED
      BY <2>7, <2>11, <2>12, <3>1 DEF HeldBy
  <2>14. LightsFollow'
    BY <2>6, <2>7, <2>12, QuietLights DEF FollowsButtons
  <2>15. PrintsFollow'
    <3> SUFFICES ASSUME program = "prints"
        PROVE  PrintsFollow'
      BY <2>7 DEF PrintsFollow
    <3>1. "beacon" \notin printed /\ \A b \in Buttons \ {"beacon"} : b \in printed <=> b \in Told
      BY DEF FollowsButtons, PrintsFollow
    <3>2. \A i \in DOMAIN Coming' : Coming'[i][1] # "print"
      BY <2>12
    <3>3. QED
      BY <2>7, <2>11, <3>1, <3>2 DEF PrintsFollow, Prints
  <2>16. Alone'
    BY <2>7 DEF FollowsButtons, Alone, DriveTest
  <2>17. QED
    BY <2>9, <2>13, <2>14, <2>15, <2>16 DEF FollowsButtons
<1>3. QED
  BY <1>1, <1>2

\* The loops of the programs.
LEMMA LoopFollows ==
  ASSUME TypeOK, FollowsButtons, NEW value \in Values, NEW pressed \in BOOLEAN,
         RemoteLoop(value) \/ Explorer(value) \/ Look(pressed) \/ Enter
  PROVE  FollowsButtons'
<1>1. Coming = <<>>
  BY DEF RemoteLoop, Explorer, Look, Enter, At, Coming
<1>2. <<>> \in Seq(Steps) /\ DOMAIN (<<>>) = {}
  OBVIOUS
<1>3. CASE RemoteLoop(value)
  BY <1>1, <1>3, ProcessFollows DEF RemoteLoop, UsesRemote
<1>4. CASE Explorer(value)
  BY <1>1, <1>4, ProcessFollows DEF Explorer, UsesRemote
<1>5. CASE Look(pressed) /\ pressed
  <2>1. Then(BackAway, "loop")
    BY <1>5 DEF Look
  <2>2. LightsFollow'
    BY <2>1, BackAwayLights
  <2>3. \A i \in DOMAIN BackAway : BackAway[i][1] \notin {"call", "saved", "print"}
    BY StepsOf
  <2>4. QED
    BY <1>1, <2>1, <2>2, <2>3, StepsOf, BackAwayType, PlainFollows
<1>6. CASE Look(pressed) /\ ~ pressed
  <2>1. Then(<<>>, "loop")
    BY <1>6 DEF Look
  <2>2. LightsFollow'
    BY <1>1, <1>2, <2>1, QuietLights DEF FollowsButtons
  <2>3. QED
    BY <1>1, <1>2, <2>1, <2>2, PlainFollows
<1>7. CASE Enter
  <2>1. Then(<<>>, "ended")
    BY <1>7 DEF Enter
  <2>2. LightsFollow'
    BY <1>1, <1>2, <2>1, QuietLights DEF FollowsButtons
  <2>3. QED
    BY <1>1, <1>2, <2>1, <2>2, PlainFollows
<1>8. QED
  BY <1>3, <1>4, <1>5, <1>6, <1>7

\* What has nothing to do with the remote control, and the end.
LEMMA OtherFollows ==
  ASSUME TypeOK, FollowsButtons, NEW d \in Nat,
         Autonomous(d) \/ Avoid \/ Turned(d) \/ Motors \/ LoopEnds \/ Destroy \/ Exit
  PROVE  FollowsButtons'
<1>1. Coming = <<>>
  BY DEF Autonomous, Avoid, Turned, Motors, LoopEnds, Destroy, Exit, At, Coming
<1>2. program # "explorer"
  BY DEF Autonomous, Avoid, Turned, Motors, LoopEnds, Destroy, Exit, At, FollowsButtons, LightsFollow
<1>3. /\ \A i \in DOMAIN (<<>>) : <<>>[i][1] \notin {"call", "saved", "print"}
      /\ \A i \in DOMAIN (<<>>), s \in Sides : <<>>[i] # <<"run", s, "forever">>
      /\ <<>> \in Seq(Steps)
  OBVIOUS
<1>4. /\ \A i \in DOMAIN Reset : Reset[i][1] \notin {"call", "saved", "print"}
      /\ \A i \in DOMAIN Reset, s \in Sides : Reset[i] # <<"run", s, "forever">>
  BY StepsOf
<1>5. ASSUME NEW steps \in Seq(Steps), NEW place, Then(steps, place),
             \A i \in DOMAIN steps : steps[i][1] \notin {"call", "saved", "print"},
             program = "remote" => \A i \in DOMAIN steps, s \in Sides : steps[i] # <<"run", s, "forever">>
      PROVE  FollowsButtons'
  <2>1. LightsFollow'
    BY <1>2, <1>5, Given DEF LightsFollow
  <2>2. QED
    BY <1>1, <1>2, <1>5, <2>1, PlainFollows
<1>6. CASE Autonomous(d)
  <2>1. program # "remote"
    BY <1>6 DEF Autonomous
  <2>2. CASE Then(<<<<"terminate">>>> \o Reset, "ends")
    <3>1. <<<<"terminate">>>> \o Reset \in Seq(Steps)
      BY StepsAre, ResetType
    <3>2. \A i \in DOMAIN (<<<<"terminate">>>> \o Reset) :
            (<<<<"terminate">>>> \o Reset)[i][1] \notin {"call", "saved", "print"}
      BY DEF Reset
    <3>3. QED
      BY <1>5, <2>1, <2>2, <3>1, <3>2
  <2>3. CASE Then(IF state # "driving" THEN Drive("forward") ELSE <<>>, "loop")
    <3>1. \A i \in DOMAIN Drive("forward") : Drive("forward")[i][1] \notin {"call", "saved", "print"}
      BY StepsOfDrive DEF Directions
    <3>2. Drive("forward") \in Seq(Steps)
      BY DriveType DEF Directions
    <3>3. QED
      BY <1>3, <1>5, <2>1, <2>3, <3>1, <3>2
  <2>4. CASE Then(Stop, "avoids")
    <3>1. \A i \in DOMAIN Stop : Stop[i][1] \notin {"call", "saved", "print"}
      BY StepsOf
    <3>2. QED
      BY <1>5, <2>1, <2>4, <3>1, StopType
  <2>5. QED
    BY <1>6, <2>2, <2>3, <2>4 DEF Autonomous
<1>7. CASE Avoid
  <2>1. CASE Then(Turn, "turned")
    BY <1>5, <2>1, StepsOf, TurnType
  <2>2. CASE Then(<<>>, "loop")
    BY <1>3, <1>5, <2>2
  <2>3. QED
    BY <1>7, <2>1, <2>2 DEF Avoid
<1>8. CASE Turned(d)
  <2>1. CASE Then(DriveTimed("backward"), "avoids")
    <3>1. /\ \A i \in DOMAIN DriveTimed("backward") : DriveTimed("backward")[i][1] \notin {"call", "saved", "print"}
          /\ \A i \in DOMAIN DriveTimed("backward"), s \in Sides :
               DriveTimed("backward")[i] # <<"run", s, "forever">>
      BY DEF DriveTimed
    <3>2. DriveTimed("backward") \in Seq(Steps)
      BY DriveType DEF Directions
    <3>3. QED
      BY <1>5, <2>1, <3>1, <3>2
  <2>2. CASE Then(<<>>, "avoids")
    BY <1>3, <1>5, <2>2
  <2>3. QED
    BY <1>8, <2>1, <2>2 DEF Turned
<1>9. CASE Motors
  <2>1. program # "remote" /\ \A i \in DOMAIN DriveBoth : DriveBoth[i][1] \notin {"call", "saved", "print"}
    BY <1>9, StepsOf DEF Motors
  <2>2. Then(DriveBoth, "back") \/ Then(DriveBoth, "exits")
    BY <1>9 DEF Motors
  <2>3. QED
    BY <1>5, <2>1, <2>2, DriveBothType
<1>10. CASE LoopEnds
  <2>1. PICK place : Then(IF program = "remote" THEN Reset ELSE <<>>, place)
    BY <1>10 DEF LoopEnds
  <2>2. QED
    BY <1>3, <1>4, <1>5, <2>1, ResetType
<1>11. CASE Destroy \/ Exit
  BY <1>3, <1>4, <1>5, <1>11, ResetType DEF Destroy, Exit
<1>12. QED
  BY <1>6, <1>7, <1>8, <1>9, <1>10, <1>11

-----------------------------------------------------------------------------
(***************************************************************************)
(* What the other threads and the motors do.                               *)
(***************************************************************************)
LEMMA UntoldFollows ==
  ASSUME TypeOK, Coming' = Coming, rc_state' = rc_state, program' = program
  PROVE  /\ Told' = Told
         /\ CallsInOrder => CallsInOrder'
         /\ printed' = printed /\ PrintsFollow => PrintsFollow'
<1>1. Told' = Told
  BY DEF Told, Saves, Tells
<1>2. CallsInOrder => CallsInOrder'
  BY DEF CallsInOrder, Saves, Tells
<1>3. printed' = printed /\ PrintsFollow => PrintsFollow'
  BY <1>1 DEF PrintsFollow, Prints
<1>4. QED
  BY <1>1, <1>2, <1>3

LEMMA ThreadFollows ==
  ASSUME TypeOK, OthersOnlyEnd, FollowsButtons, NEW t \in {"key", "touch"}, Exec(t)
  PROVE  FollowsButtons'
<1>1. todo \in [Threads -> Seq(Steps)] /\ todo[t] \in Seq(Steps) /\ todo[t] # <<>>
  BY DEF TypeOK, Threads, Exec
<1>2. PICK op \in Steps : op = Head(todo[t]) /\ op = todo[t][1] /\ 1 \in DOMAIN todo[t]
  BY <1>1
<1>3. op[1] \in {"terminate", "reset", "state"}
  BY <1>2 DEF OthersOnlyEnd, OnlyEnds
<1>4. Do(op) /\ todo' = [todo EXCEPT ![t] = Tail(todo[t])] /\ UNCHANGED <<program, pc, key, touch, loopVars>>
  BY <1>2, <1>3 DEF Exec
<1>5. Coming' = Coming
  BY <1>1, <1>4 DEF Coming, Threads
<1>6. DriveTest
  BY <1>1 DEF FollowsButtons, Alone
<1>7. rc_state' = rc_state /\ printed' = printed /\ program' = program
  BY <1>3, <1>4 DEF Do
<1>8. CallsInOrder' /\ PrintsFollow' /\ Told' = Told
  BY <1>5, <1>7, UntoldFollows DEF FollowsButtons
<1>9. Alone' /\ LightsFollow'
  BY <1>6, <1>7 DEF Alone, LightsFollow, DriveTest
<1>10. RunsForAButton'
  <2> SUFFICES ASSUME program = "remote", NEW s \in Sides
      PROVE  /\ motor'[s].run = "forever" /\ (\A i \in DOMAIN Coming : Coming[i] # <<"stop", s>>) =>
                  motor'[s].dir = "zero" \/ HeldBy(Told, s, motor'[s].dir)
             /\ \A i \in DOMAIN Coming : Coming[i] = <<"run", s, "forever">> =>
                  StartsWith(i, s, {"zero"} \cup {dir \in Directions : HeldBy(Told, s, dir)})'
    BY <1>5, <1>6, <1>7, <1>8 DEF RunsForAButton, DriveTest, HeldBy
  <2> DEFINE dirs == {"zero"} \cup {dir \in Directions : HeldBy(Told, s, dir)}
  <2>1. /\ motor[s].run = "forever" /\ (\A i \in DOMAIN Coming : Coming[i] # <<"stop", s>>) =>
             motor[s].dir = "zero" \/ HeldBy(Told, s, motor[s].dir)
        /\ \A i \in DOMAIN Coming : Coming[i] = <<"run", s, "forever">> => StartsWith(i, s, dirs)
    BY DEF FollowsButtons, RunsForAButton
  <2>2. \/ motor'[s].run = motor[s].run /\ motor'[s].dir = motor[s].dir /\ motor'[s].sp = motor[s].sp
        \/ motor'[s].run = "rest" /\ motor'[s].sp = "zero"
    <3>1. CASE op = <<"reset", s>>
      BY <1>4, <3>1, SideAfter
    <3>2. CASE op # <<"reset", s>>
      <4>1. op[1] # "reset" \/ op[2] # s
        BY <3>2, StepTypes
      <4>2. motor'[s] = motor[s]
        BY <1>3, <1>4, <4>1, SideAfter
      <4>3. QED
        BY <4>2
    <3>3. QED
      BY <3>1, <3>2
  <2>3. PICK d : d = dirs
    OBVIOUS
  <2>4. dirs' = d
    BY <1>7, <1>8, <2>3 DEF HeldBy
  <2>5. \A i \in DOMAIN Coming : Coming[i] = <<"run", s, "forever">> => StartsWith(i, s, d)'
    BY <1>5, <2>1, <2>2, <2>3 DEF StartsWith, SetsSpeed
  <2>6. \A i \in DOMAIN Coming : Coming[i] = <<"run", s, "forever">> => StartsWith(i, s, dirs)'
    BY <2>4, <2>5 DEF StartsWith
  <2>7. QED
    BY <2>1, <2>2, <2>6
<1>11. QED
  BY <1>8, <1>9, <1>10 DEF FollowsButtons

\* Nothing that the invariant speaks of but the threads, which drive-test alone has.
LEMMA SameFollows ==
  ASSUME TypeOK, FollowsButtons,
         UNCHANGED <<program, shared>>, pc' \in {pc, "aborted"}, Coming' = Coming,
         DriveTest \/ UNCHANGED <<key, touch, todo>>
  PROVE  FollowsButtons'
<1>1. /\ motor' = motor /\ leds' = leds /\ rc_state' = rc_state /\ printed' = printed /\ program' = program
      /\ pc' \in {pc, "aborted"}
  BY DEF shared, rcVars
<1>2. CallsInOrder' /\ PrintsFollow' /\ Told' = Told
  BY <1>1, UntoldFollows DEF FollowsButtons
<1>3. Alone'
  BY <1>1 DEF FollowsButtons, Alone, DriveTest
<1>4. RunsForAButton'
  BY <1>1, <1>2 DEF FollowsButtons, RunsForAButton, HeldBy, StartsWith, SetsSpeed
<1>5. LightsFollow'
  BY <1>1 DEF FollowsButtons, LightsFollow, Lights, Moves, Becomes, Color, StartsWith, SetsSpeed
<1>6. QED
  BY <1>2, <1>3, <1>4, <1>5 DEF FollowsButtons

LEMMA OthersFollow ==
  ASSUME TypeOK, FollowsButtons,
         KeyPressed \/ Touched \/ NotTouched \/ Aborts \/ (\E d \in Used : Unplug(d)) \/ UNCHANGED vars
  PROVE  FollowsButtons'
<1>1. UNCHANGED <<program, shared>> /\ pc' \in {pc, "aborted"}
  BY DEF KeyPressed, Touched, NotTouched, Aborts, Unplug, vars
<1>2. todo \in [Threads -> Seq(Steps)]
  BY DEF TypeOK
<1>3. Coming' = Coming
  BY <1>2 DEF KeyPressed, Touched, NotTouched, Aborts, Unplug, vars, Coming, Threads
<1>4. DriveTest \/ UNCHANGED <<key, touch, todo>>
  BY DEF FollowsButtons, Alone, KeyPressed, Touched, NotTouched, Aborts, Unplug, vars
<1>5. QED
  BY <1>1, <1>3, <1>4, SameFollows

\* A motor that comes to the end of its run did not run for ever.
LEMMA MotorFollows ==
  ASSUME TypeOK, FollowsButtons, NEW t \in Sides, MotorEnds(t)
  PROVE  FollowsButtons'
<1>1. /\ motor[t].run \in {"timed", "goal"}
      /\ motor' = [motor EXCEPT ![t].run = "rest", ![t].dir = "zero"]
      /\ leds' = leds /\ rc_state' = rc_state /\ printed' = printed /\ program' = program /\ pc' = pc
      /\ todo' = todo /\ key' = key /\ touch' = touch
  BY DEF MotorEnds, rcVars
<1>2. motor \in [Sides -> [sp : Directions \cup {"zero"}, run : {"rest", "forever", "timed", "goal"},
                           dir : Directions \cup {"zero"}]]
  BY DEF TypeOK
<1>3. Coming' = Coming
  BY <1>1 DEF Coming
<1>4. CallsInOrder' /\ PrintsFollow' /\ Told' = Told
  BY <1>1, <1>3, UntoldFollows DEF FollowsButtons
<1>5. Alone'
  BY <1>1 DEF FollowsButtons, Alone, DriveTest
<1>6. /\ motor'[t].run = "rest" /\ motor'[t].sp = motor[t].sp
      /\ \A s \in Sides : s # t => motor'[s] = motor[s]
  BY <1>1, <1>2
<1>7. ASSUME NEW s \in Sides
      PROVE  motor'[s].sp = motor[s].sp /\ Color(s)' = Color(s)
             /\ (motor'[s].run = "forever" => motor'[s] = motor[s])
  <2>1. CASE s = t
    BY <1>1, <1>6, <2>1 DEF Color
  <2>2. CASE s # t
    BY <1>6, <2>2 DEF Color
  <2>3. QED
    BY <2>1, <2>2
<1>8. ASSUME NEW s \in Sides, NEW i, NEW dirs
      PROVE  StartsWith(i, s, dirs)' <=> StartsWith(i, s, dirs)
  BY <1>3, <1>7 DEF StartsWith, SetsSpeed
<1>9. RunsForAButton'
  <2> SUFFICES ASSUME program \in {"explorer", "remote"}, NEW s \in Sides
      PROVE  /\ motor'[s].run = "forever" /\ (\A i \in DOMAIN Coming : Coming[i] # <<"stop", s>>) =>
                  motor'[s].dir = "zero" \/ HeldBy(Told, s, motor'[s].dir)
             /\ \A i \in DOMAIN Coming : Coming[i] = <<"run", s, "forever">> =>
                  StartsWith(i, s, {"zero"} \cup {dir \in Directions : HeldBy(Told, s, dir)})'
    BY <1>1, <1>3, <1>4 DEF RunsForAButton, HeldBy
  <2> DEFINE dirs == {"zero"} \cup {dir \in Directions : HeldBy(Told, s, dir)}
  <2>1. /\ motor[s].run = "forever" /\ (\A i \in DOMAIN Coming : Coming[i] # <<"stop", s>>) =>
             motor[s].dir = "zero" \/ HeldBy(Told, s, motor[s].dir)
        /\ \A i \in DOMAIN Coming : Coming[i] = <<"run", s, "forever">> => StartsWith(i, s, dirs)
    BY DEF FollowsButtons, RunsForAButton
  <2>2. PICK d : d = dirs
    OBVIOUS
  <2>3. dirs' = d
    BY <1>1, <1>4, <2>2 DEF HeldBy
  <2>4. \A i \in DOMAIN Coming : Coming[i] = <<"run", s, "forever">> => StartsWith(i, s, d)'
    BY <1>8, <2>1, <2>2
  <2>5. \A i \in DOMAIN Coming : Coming[i] = <<"run", s, "forever">> => StartsWith(i, s, dirs)'
    BY <2>3, <2>4 DEF StartsWith
  <2>6. QED
    BY <1>7, <2>1, <2>5
<1>10. LightsFollow'
  <2> SUFFICES ASSUME program = "explorer"
      PROVE  LightsFollow'
    BY <1>1 DEF LightsFollow
  <2>1. ASSUME NEW s \in Sides, NEW c
        PROVE  Becomes(s, c) => Becomes(s, c)'
    BY <1>3, <1>7, <1>8 DEF Becomes, Moves
  <2>2. /\ pc \in {"loop", "looks", "ended", "aborted"}
        /\ \A i \in DOMAIN Coming : Coming[i][1] # "reset"
        /\ \A s \in Sides :
             /\ (\A i \in DOMAIN Coming : ~ Lights(i, s)) => leds[s] = Color(s)
             /\ \A i \in DOMAIN Coming : Moves(i, s) => \E j \in DOMAIN Coming : j > i /\ Lights(j, s)
             /\ \A i \in DOMAIN Coming :
                  Lights(i, s) /\ (\A j \in DOMAIN Coming : j > i => ~ Lights(j, s)) => Becomes(s, Coming[i][3])
    BY DEF FollowsButtons, LightsFollow
  <2>3. ASSUME NEW s \in Sides, NEW i \in DOMAIN Coming, Becomes(s, Coming[i][3])
        PROVE  Becomes(s, Coming[i][3])'
    <3>1. PICK c : c = Coming[i][3]
      OBVIOUS
    <3>2. Becomes(s, c)'
      BY <2>1, <2>3, <3>1
    <3>3. QED
      BY <1>3, <3>1, <3>2, Zenon DEF Becomes
  <2>4. \A i, s : (Lights(i, s)' <=> Lights(i, s)) /\ (Moves(i, s)' <=> Moves(i, s))
    BY <1>3 DEF Lights, Moves
  <2>5. QED
    BY <1>1, <1>3, <1>7, <2>2, <2>3, <2>4 DEF LightsFollow
<1>11. QED
  BY <1>4, <1>5, <1>9, <1>10 DEF FollowsButtons

\* Main does its next step.
LEMMA MainFollows ==
  ASSUME TypeOK, FollowsButtons, Exec("main")
  PROVE  FollowsButtons'
<1>1. Coming \in Seq(Steps) /\ Coming # <<>> /\ Head(Coming) = Coming[1]
  BY DEF TypeOK, Threads, Coming, Exec
<1>2. CASE Coming[1][1] = "call"
  <2>1. MainCalls
    BY <1>1, <1>2 DEF Exec, MainCalls, Button, Pressed, Coming
  <2>2. QED
    BY <2>1, CallFollows
<1>3. CASE Coming[1][1] # "call"
  <2>1. MainDoes
    BY <1>1, <1>3 DEF Exec, MainDoes, Coming
  <2>2. QED
    BY <2>1, DoesFollows
<1>4. QED
  BY <1>2, <1>3

LEMMA InitFollows == Init => FollowsButtons
<1> SUFFICES ASSUME Init PROVE FollowsButtons
  OBVIOUS
<1>1. Coming = <<>> /\ DOMAIN Coming = {} /\ rc_state = {} /\ printed = {}
  BY DEF Init, Coming, Threads
<1>2. \A s \in Sides : motor[s].run = "rest" /\ leds[s] = "off"
  BY DEF Init
<1>3. Told = {}
  BY <1>1 DEF Told
<1>4. todo["key"] = <<>> /\ todo["touch"] = <<>>
  BY DEF Init, Threads
<1>5. Alone
  BY <1>4 DEF Init, Alone, DriveTest
<1>6. CallsInOrder /\ RunsForAButton
  BY <1>1, <1>2 DEF CallsInOrder, RunsForAButton
<1>7. LightsFollow
  BY <1>1, <1>2 DEF Init, LightsFollow, Color
<1>8. PrintsFollow
  BY <1>1, <1>3 DEF PrintsFollow
<1>9. QED
  BY <1>5, <1>6, <1>7, <1>8 DEF FollowsButtons

(***************************************************************************)
(* The invariants, and that every step preserves them.                     *)
(***************************************************************************)
LEMMA EndsAtRestKept == EndsAtRest /\ [Next]_vars => EndsAtRest'
<1> SUFFICES ASSUME EndsAtRest, [Next]_vars PROVE EndsAtRest'
  OBVIOUS
<1>1. CASE \E t \in Threads : Exec(t)
  BY <1>1, ExecAtRest
<1>2. CASE \E d \in Distances : Autonomous(d) \/ Turned(d)
  BY <1>2, AutonomousAtRest
<1>3. CASE Avoid
  BY <1>3, AvoidAtRest
<1>4. CASE \E value \in Values, pressed \in BOOLEAN :
             RemoteLoop(value) \/ Explorer(value) \/ Look(pressed) \/ Enter \/ Motors
  BY <1>4, LoopsAtRest
<1>5. CASE LoopEnds \/ Destroy \/ Exit
  BY <1>5, LastAtRest
<1>6. CASE KeyPressed \/ Touched \/ NotTouched
  BY <1>6, OthersAtRest
<1>7. CASE \E s \in Sides : MotorEnds(s)
  BY <1>7, MotorEndsAtRest
<1>8. CASE UNCHANGED vars
  BY <1>8, StutterAtRest
<1>9. CASE Throws
  BY <1>9, ThrowsIf, AbortsAtRest
<1>10. CASE \E d \in Used : Unplug(d)
  BY <1>10, UnplugAtRest
<1>11. 0 \in Values /\ TRUE \in BOOLEAN
  BY DEF Values
<1>12. QED
  BY <1>1, <1>2, <1>3, <1>4, <1>5, <1>6, <1>7, <1>8, <1>9, <1>10, <1>11 DEF Next, Main, Threads, Throws

LEMMA FollowsKept == EndsAtRest /\ FollowsButtons /\ [Next]_vars => FollowsButtons'
<1> SUFFICES ASSUME EndsAtRest, FollowsButtons, [Next]_vars PROVE FollowsButtons'
  OBVIOUS
<1>1. TypeOK /\ OthersOnlyEnd
  BY DEF EndsAtRest
<1>2. CASE Exec("main")
  BY <1>1, <1>2, MainFollows
<1>3. CASE \E t \in {"key", "touch"} : Exec(t)
  BY <1>1, <1>3, ThreadFollows
<1>4. CASE \E d \in Distances : Autonomous(d) \/ Turned(d)
  BY <1>1, <1>4, OtherFollows, RobotsAssumption
<1>5. CASE Avoid \/ Motors \/ LoopEnds \/ Destroy \/ Exit
  BY <1>1, <1>5, OtherFollows
<1>6. CASE \E value \in Values, pressed \in BOOLEAN : RemoteLoop(value) \/ Explorer(value) \/ Look(pressed) \/ Enter
  BY <1>1, <1>6, LoopFollows
<1>7. CASE KeyPressed \/ Touched \/ NotTouched \/ Throws \/ (\E d \in Used : Unplug(d)) \/ UNCHANGED vars
  BY <1>1, <1>7, ThrowsIf, OthersFollow
<1>8. CASE \E s \in Sides : MotorEnds(s)
  BY <1>1, <1>8, MotorFollows
<1>9. 0 \in Values /\ TRUE \in BOOLEAN
  BY DEF Values
<1>10. QED
  BY <1>2, <1>3, <1>4, <1>5, <1>6, <1>7, <1>8, <1>9 DEF Next, Main, Throws, Threads

(***************************************************************************)
(* demos/: whatever the sensors read, whatever comes in between two steps  *)
(* of main and whatever is unplugged, the inductive invariant of the       *)
(* programs that move a robot holds: every motor of drive-test was reset   *)
(* when its main returns (control::~control), an exception ends a program  *)
(* only if it used a device that is gone, and then without a destructor,   *)
(* and the motors do what the buttons that were told have caused           *)
(* (remote_control::process).                                              *)
(***************************************************************************)
THEOREM RobotsInvariant == Spec => []IInv
<1>1. Init => IInv
  BY InitAtRest, InitFollows DEF IInv
<1>2. IInv /\ [Next]_vars => IInv'
  BY EndsAtRestKept, FollowsKept DEF IInv
<1>3. QED
  BY <1>1, <1>2, PTL DEF Spec

(***************************************************************************)
(* Whenever a key or the touch sensor comes in between two steps of main,  *)
(* and whichever thread told the program to end, the motors of drive-test  *)
(* are at rest when its main has returned (drive-test.cpp,                 *)
(* control::~control); and it does not end in another way unless a device  *)
(* was unplugged.                                                          *)
(***************************************************************************)
THEOREM MotorsRestAtEnd == Spec => [](RestsAtEnd /\ AbortsUnplugged)
<1>1. IInv => RestsAtEnd /\ AbortsUnplugged
  BY DEF IInv, EndsAtRest
<1>2. QED
  BY <1>1, RobotsInvariant, PTL

(***************************************************************************)
(* Between two rounds of the loop a motor runs for ever only because of a  *)
(* button that is held, the explorer's LEDs show how it runs, and the test *)
(* program has printed which buttons are (remote-control.cpp:33,           *)
(* drive-test.cpp:351): whatever the order the buttons are used in, and    *)
(* however obstacles and the other threads come in between.                *)
(***************************************************************************)
THEOREM MotorsRunWhileHeld == Spec => []RunsOnlyWhileHeld
<1>1. IInv => RunsOnlyWhileHeld
  <2> SUFFICES ASSUME IInv, Coming = <<>>
      PROVE  /\ program \in {"explorer", "remote"} =>
                  \A s \in Sides :
                    motor[s].run = "forever" /\ motor[s].dir # "zero" => HeldBy(rc_state, s, motor[s].dir)
             /\ program = "explorer" => \A s \in Sides : leds[s] = Color(s)
             /\ program = "prints" => printed = rc_state \ {"beacon"}
    BY DEF RunsOnlyWhileHeld, Coming
  <2>1. TypeOK /\ Told = rc_state /\ DOMAIN Coming = {}
    BY ToldWhenDone DEF IInv, EndsAtRest
  <2>2. rc_state \subseteq Buttons
    BY <2>1, StatesAreButtons DEF TypeOK
  <2>3. RunsForAButton /\ LightsFollow /\ PrintsFollow
    BY DEF IInv, FollowsButtons
  <2>4. program \in {"explorer", "remote"} =>
          \A s \in Sides : motor[s].run = "forever" /\ motor[s].dir # "zero" => HeldBy(rc_state, s, motor[s].dir)
    BY <2>1, <2>3 DEF RunsForAButton
  <2>5. program = "explorer" => \A s \in Sides : leds[s] = Color(s)
    BY <2>1, <2>3 DEF LightsFollow
  <2>6. program = "prints" => printed = rc_state \ {"beacon"}
    <3> SUFFICES ASSUME program = "prints"
        PROVE  printed = rc_state \ {"beacon"}
      OBVIOUS
    <3>1. "beacon" \notin printed /\ \A b \in Buttons \ {"beacon"} : b \in printed <=> b \in rc_state
      BY <2>1, <2>3 DEF PrintsFollow
    <3>2. printed \subseteq Buttons
      BY <2>1 DEF TypeOK
    <3>3. QED
      BY <2>2, <3>1, <3>2
  <2>7. QED
    BY <2>4, <2>5, <2>6
<1>2. QED
  BY <1>1, RobotsInvariant, PTL

-----------------------------------------------------------------------------
(***************************************************************************)
(* Demo: the menus of ev3dev-lang-demo, with any ports and any number of   *)
(* files that may be open.                                                 *)
(***************************************************************************)
\* What leads to what, from which menu.
LEMMA KeysDo ==
  ASSUME NEW m \in MenuNames, NEW k \in DOMAIN Commands(m),
         NEW what, what = Commands(m)[k]
  PROVE  /\ what \notin {"main_menu", "motor_action_dc"}
         /\ what \in {"sensor_menu", "motor_menu"} => m = "main_menu"
         /\ what = "sensor_action" => m = "sensor_menu" /\ k \in InPorts
         /\ what \in {"motor_action", "motor_action_servo"} =>
              m = "motor_menu" /\ k \in OutPorts /\ found[k] \in {"motor", "servo"}
         /\ what = "led_action" => m = "led_menu"
         /\ what \in {"reads", "monitor"} => m = "sensor_action"
         /\ what \in {"writes", "info"} => m = "motor_action"
         /\ what = "asks" => m \in {"motor_action", "motor_action_dc"}
         /\ what \in {"word", "number"} =>
              m \in {"sensor_action", "motor_action", "motor_action_dc", "motor_action_servo"}
         /\ what \in {"off", "on", "flash", "interval", "trigger"} => m = "led_action"
<1>1. CASE m = "main_menu"
  BY <1>1 DEF Commands, main_menu
<1>2. CASE m = "sensor_menu"
  BY <1>2 DEF Commands, sensor_menu, On
<1>3. CASE m = "sensor_action"
  BY <1>3 DEF Commands, sensor_action
<1>4. CASE m = "motor_menu"
  BY <1>4 DEF Commands, motor_menu
<1>5. CASE m = "motor_action"
  BY <1>5 DEF Commands, motor_action
<1>6. CASE m = "motor_action_dc"
  BY <1>6 DEF Commands, motor_action_dc
<1>7. CASE m = "motor_action_servo"
  BY <1>7 DEF Commands, motor_action_servo
<1>8. CASE m = "led_menu"
  BY <1>8 DEF Commands, led_menu, On
<1>9. CASE m = "led_action"
  BY <1>9 DEF Commands, led_action
<1>10. CASE m = "button_menu"
  BY <1>10 DEF Commands, button_menu, On
<1>11. CASE m = "sound_menu"
  BY <1>11 DEF Commands, sound_menu
<1>12. CASE m = "battery_menu"
  BY <1>12 DEF Commands, battery_menu, On
<1>13. CASE m = "lcd_menu"
  BY <1>13 DEF Commands, lcd_menu
<1>14. QED
  BY <1>1, <1>2, <1>3, <1>4, <1>5, <1>6, <1>7, <1>8, <1>9, <1>10, <1>11, <1>12, <1>13 DEF MenuNames

\* The menu that is open on top, and the one it was called by.
LEMMA Frames ==
  ASSUME MenusTypeOK, FramesNest
  PROVE  /\ Len(frames) \in Nat \ {0} /\ Len(frames) \in DOMAIN frames /\ Top = frames[Len(frames)]
         /\ \A i \in DOMAIN frames : frames[i].menu \in MenuNames /\ frames[i].c \in Chosen
         /\ \A i \in DOMAIN frames : i # 1 => i - 1 \in DOMAIN frames /\ frames[i].menu # "main_menu"
         /\ \A i \in DOMAIN frames : frames[i].menu \in {"sensor_menu", "motor_menu"} => i = 2
         /\ Top.menu # "main_menu" =>
              /\ Len(frames) > 1 /\ Len(frames) - 1 \in DOMAIN frames
              /\ Port = frames[Len(frames) - 1].c
              /\ Port \in DOMAIN Commands(frames[Len(frames) - 1].menu)
              /\ Top.menu = Commands(frames[Len(frames) - 1].menu)[Port]
<1>1. frames \in Seq([menu : MenuNames, c : Chosen]) /\ frames # <<>>
  BY DEF MenusTypeOK, FramesNest
<1>2. /\ Len(frames) \in Nat \ {0} /\ Len(frames) \in DOMAIN frames /\ DOMAIN frames = 1 .. Len(frames)
      /\ Top = frames[Len(frames)]
  BY <1>1 DEF Top
<1>3. \A i \in DOMAIN frames : frames[i].menu \in MenuNames /\ frames[i].c \in Chosen
  <2> DEFINE Frame == [menu : MenuNames, c : Chosen]
  <2>1. \A i \in DOMAIN frames : frames[i] \in Frame
    <3>1. frames \in Seq(Frame)
      BY <1>1
    <3> HIDE DEF Frame
    <3>2. QED
      BY <3>1
  <2>2. QED
    BY <2>1
<1>4. /\ frames[1].menu = "main_menu"
      /\ \A i \in 2 .. Len(frames) :
           /\ i - 1 \in DOMAIN frames
           /\ frames[i - 1].c \in DOMAIN Commands(frames[i - 1].menu)
           /\ frames[i].menu = Commands(frames[i - 1].menu)[frames[i - 1].c]
  BY <1>2 DEF FramesNest
<1>5. ASSUME NEW i \in DOMAIN frames, i # 1
      PROVE  /\ i - 1 \in DOMAIN frames /\ frames[i].menu # "main_menu"
             /\ frames[i].menu \in {"sensor_menu", "motor_menu"} => frames[i - 1].menu = "main_menu"
  <2>1. i \in 2 .. Len(frames)
    BY <1>2, <1>5
  <2>2. QED
    BY <1>3, <1>4, <2>1, KeysDo
<1>6. \A i \in DOMAIN frames : frames[i].menu \in {"sensor_menu", "motor_menu"} => i = 2
  <2>1. ASSUME NEW i \in DOMAIN frames, frames[i].menu \in {"sensor_menu", "motor_menu"}
        PROVE  i = 2
    <3>1. i # 1
      BY <1>4, <2>1
    <3>2. i - 1 \in DOMAIN frames /\ frames[i - 1].menu = "main_menu"
      BY <1>5, <2>1, <3>1
    <3>3. i - 1 = 1
      BY <1>5, <3>2
    <3>4. QED
      BY <1>2, <3>3
  <2>2. QED
    BY <2>1
<1>7. Top.menu # "main_menu" =>
        /\ Len(frames) > 1 /\ Len(frames) - 1 \in DOMAIN frames
        /\ Port = frames[Len(frames) - 1].c
        /\ Port \in DOMAIN Commands(frames[Len(frames) - 1].menu)
        /\ Top.menu = Commands(frames[Len(frames) - 1].menu)[Port]
  BY <1>2, <1>4 DEF Port
<1>8. QED
  BY <1>2, <1>3, <1>5, <1>6, <1>7

\* What careful users have chosen is there.
LEMMA PortIsThere ==
  ASSUME DemoAssumption, MenusTypeOK, FramesNest, ThereAsListed, careful
  PROVE  /\ Top.menu \in {"sensor_action", "motor_action", "motor_action_dc", "motor_action_servo"} => ~ Gone(Port)
         /\ Top.menu = "led_action" => ~ LedGone
<1>1. PICK k : k = Port
  OBVIOUS
<1>2. PICK m : m = frames[Len(frames) - 1].menu
  OBVIOUS
<1>3. Top.menu # "main_menu" =>
        /\ Len(frames) - 1 \in DOMAIN frames /\ frames[Len(frames) - 1].c = k
        /\ m \in MenuNames /\ k \in DOMAIN Commands(m) /\ Top.menu = Commands(m)[k]
  BY <1>1, <1>2, Frames
<1>4. PICK what : what = Top.menu
  OBVIOUS
<1>5. ASSUME what # "main_menu"
      PROVE  /\ what # "motor_action_dc"
             /\ what = "sensor_action" => m = "sensor_menu" /\ k \in InPorts
             /\ what \in {"motor_action", "motor_action_servo"} => m = "motor_menu" /\ k \in OutPorts
  <2>1. m \in MenuNames /\ k \in DOMAIN Commands(m) /\ what = Commands(m)[k]
    BY <1>3, <1>4, <1>5
  <2>2. QED
    BY <2>1, KeysDo, ZenonT(40)
<1>6. /\ stale = {}
      /\ Top.menu # "main_menu" /\ m \in {"sensor_menu", "motor_menu"} /\ k \in Ports => found[k] # "none"
      /\ Top.menu # "main_menu" /\ k = "port LED" => led_ports
  BY <1>2, <1>3 DEF ThereAsListed
<1>7. Top.menu \in {"sensor_action", "motor_action", "motor_action_dc", "motor_action_servo"} => ~ Gone(Port)
  BY <1>1, <1>4, <1>5, <1>6 DEF Gone, Ports
<1>8. Top.menu = "led_action" => ~ LedGone
  BY <1>1, <1>6 DEF LedGone
<1>9. QED
  BY <1>7, <1>8

(***************************************************************************)
(* The calls of the menus nest.  Only three actions change the frames.     *)
(***************************************************************************)
LEMMA SameFrames ==
  ASSUME UNCHANGED <<frames, found>>
  PROVE  /\ FramesNest => FramesNest'
         /\ Top' = Top /\ Command' = Command /\ Port' = Port
<1>1. \A m : Commands(m)' = Commands(m)
  BY DEF Commands, motor_menu
<1>2. FramesNest => FramesNest'
  BY <1>1 DEF FramesNest
<1>3. Top' = Top /\ Port' = Port
  BY DEF Top, Port
<1>4. Command' = Command
  BY <1>1, <1>3 DEF Command
<1>5. QED
  BY <1>2, <1>3, <1>4

\* The actions that leave the frames as they are, and the objects of devices.
Quiet ==
  \/ Show \/ ChooseFails \/ Act \/ LedAct \/ Ask \/ (\E answer \in Answers : Prompt(answer))
  \/ MonitorStarts \/ MonitorReads \/ MonitorEnds \/ ThreadReads
  \/ (\E p \in Ports : \E what \in Fits(p) : Plug(p, what))
  \/ InputEnds \/ WantToLeave \/ UNCHANGED menusVars

LEMMA QuietFrames ==
  ASSUME Quiet
  PROVE  UNCHANGED <<frames, found, led_ports>>
<1>1. CASE Show
  BY <1>1 DEF Show, Terminate, outside
<1>2. CASE ChooseFails
  BY <1>2 DEF ChooseFails, outside
<1>3. CASE Act
  BY <1>3 DEF Act, Terminate, Nothing, Info, outside
<1>4. CASE LedAct
  BY <1>4 DEF LedAct, Terminate, Nothing, outside
<1>5. CASE Ask
  BY <1>5 DEF Ask, Terminate, outside
<1>6. CASE \E answer \in Answers : Prompt(answer)
  BY <1>6 DEF Prompt, outside
<1>7. CASE MonitorStarts \/ MonitorReads \/ MonitorEnds \/ ThreadReads
  BY <1>7 DEF MonitorStarts, MonitorReads, MonitorEnds, ThreadReads, Terminate, outside
<1>8. CASE \E p \in Ports : \E what \in Fits(p) : Plug(p, what)
  BY <1>8 DEF Plug
<1>9. CASE InputEnds \/ WantToLeave \/ UNCHANGED menusVars
  BY <1>9 DEF InputEnds, WantToLeave, menusVars, outside
<1>10. QED
  BY <1>1, <1>2, <1>3, <1>4, <1>5, <1>6, <1>7, <1>8, <1>9 DEF Quiet

LEMMA QuietTypes ==
  ASSUME MenusTypeOK, Quiet
  PROVE  MenusTypeOK'
<1>1. UNCHANGED <<frames, found, led_ports>>
  BY QuietFrames
<1>2. /\ frames' \in Seq([menu : MenuNames, c : Chosen])
      /\ found' \in [Ports -> Devices] /\ led_ports' \in BOOLEAN
  BY <1>1 DEF MenusTypeOK
<1> DEFINE Rest ==
      /\ doing \in {"shows", "chooses", "acts", "prompts", "monitors"}
      /\ cin \in {"good", "failed"}
      /\ thread \in {"none", "reads", "has read"}
      /\ plugged \in [Ports -> Devices]
      /\ stale \subseteq Ports
      /\ trigger \in Triggers
      /\ open_fb \in 0 .. MaxFiles
      /\ screen \in {"other", "white", "black"}
      /\ ended \in {"no", "returned", "terminated"}
      /\ careful \in BOOLEAN
      /\ leaving \in BOOLEAN
<1>3. Rest
  BY DEF MenusTypeOK
<1> SUFFICES Rest'
  BY <1>2 DEF MenusTypeOK
<1>4. CASE Show
  BY <1>3, <1>4 DEF Show, Terminate, outside
<1>5. CASE ChooseFails
  BY <1>3, <1>5 DEF ChooseFails, outside
<1>6. CASE Act
  <2>1. /\ doing' \in {doing, "shows"} /\ ended' \in {ended, "terminated"} /\ screen' \in {screen, "white", "black"}
        /\ UNCHANGED <<cin, thread, stale, trigger, open_fb, careful, plugged, leaving>>
    BY <1>6 DEF Act, Terminate, Nothing, Info, outside
  <2>2. QED
    BY <1>3, <2>1
<1>7. CASE LedAct
  <2>1. /\ doing' \in {doing, "shows"} /\ ended' \in {ended, "terminated"} /\ trigger' \in {trigger, "none", "timer"}
        /\ careful' \in {careful, FALSE}
        /\ UNCHANGED <<cin, thread, stale, screen, open_fb, plugged, leaving>>
    BY <1>7 DEF LedAct, Terminate, Nothing, outside
  <2>2. trigger' \in Triggers
    BY <1>3, <2>1 DEF Triggers
  <2>3. QED
    BY <1>3, <2>1, <2>2
<1>8. CASE Ask
  BY <1>3, <1>8 DEF Ask, Terminate, outside
<1>9. CASE \E answer \in Answers : Prompt(answer)
  <2>1. PICK answer \in Answers : Prompt(answer)
    BY <1>9
  <2>2. /\ cin' \in {cin, "failed"} /\ doing' \in {doing, "shows"} /\ ended' \in {ended, "terminated"}
        /\ trigger' \in Triggers \cup {trigger}
        /\ UNCHANGED <<thread, stale, screen, open_fb, plugged, leaving>>
    BY <2>1 DEF Prompt, outside
  <2>3. careful' \in BOOLEAN
    BY <2>1 DEF Prompt
  <2>4. QED
    BY <1>3, <2>2, <2>3
<1>10. CASE MonitorStarts \/ MonitorReads \/ MonitorEnds \/ ThreadReads
  BY <1>3, <1>10 DEF MonitorStarts, MonitorReads, MonitorEnds, ThreadReads, Terminate, outside
<1>11. CASE \E p \in Ports : \E what \in Fits(p) : Plug(p, what)
  <2>0. PICK p \in Ports : \E what \in Fits(p) : Plug(p, what)
    BY <1>11
  <2>1. PICK what \in Fits(p) : Plug(p, what)
    BY <2>0
  <2>2. what \in Devices
    BY DEF Fits, Devices
  <2>3. plugged' = [plugged EXCEPT ![p] = what] /\ stale' \in {stale, stale \cup {p}} /\ careful' = FALSE
        /\ UNCHANGED <<doing, cin, thread, trigger, open_fb, screen, ended, leaving>>
    BY <2>1 DEF Plug
  <2>4. QED
    BY <1>3, <2>2, <2>3
<1>12. CASE InputEnds \/ WantToLeave \/ UNCHANGED menusVars
  BY <1>3, <1>12 DEF InputEnds, WantToLeave, menusVars, outside
<1>13. QED
  BY <1>4, <1>5, <1>6, <1>7, <1>8, <1>9, <1>10, <1>11, <1>12 DEF Quiet

LEMMA QuietNest ==
  ASSUME MenusNest, Quiet
  PROVE  MenusNest'
<1>1. MenusTypeOK /\ FramesNest /\ OneReader /\ KeyIsRead
  BY DEF MenusNest
<1>2. MenusTypeOK' /\ FramesNest' /\ Command' = Command
  BY <1>1, QuietFrames, QuietTypes, SameFrames
<1> DEFINE OneKey ==
      /\ thread # "none" => doing = "monitors" /\ Command = "monitor"
      /\ doing = "prompts" => Command \in Asked
      /\ doing = "monitors" => Command = "monitor"
<1>3. OneKey
  BY <1>1 DEF OneReader, KeyIsRead
<1> DEFINE OneKeyNext ==
      /\ thread' # "none" => doing' = "monitors" /\ Command = "monitor"
      /\ doing' = "prompts" => Command \in Asked
      /\ doing' = "monitors" => Command = "monitor"
<1> SUFFICES OneKeyNext
  BY <1>2 DEF MenusNest, OneReader, KeyIsRead, Asked
<1>4. CASE Show
  BY <1>3, <1>4 DEF Show, Terminate, outside
<1>5. CASE ChooseFails
  BY <1>3, <1>5 DEF ChooseFails, outside
<1>6. CASE Act
  <2>1. doing = "acts" /\ doing' \in {doing, "shows"} /\ thread' = thread
    BY <1>6 DEF Act, Terminate, Nothing, Info, outside
  <2>2. QED
    BY <1>3, <2>1
<1>7. CASE LedAct
  <2>1. doing = "acts" /\ doing' \in {doing, "shows"} /\ thread' = thread
    BY <1>7 DEF LedAct, Terminate, Nothing, outside
  <2>2. QED
    BY <1>3, <2>1
<1>8. CASE Ask
  BY <1>3, <1>8 DEF Ask, Terminate, outside
<1>9. CASE \E answer \in Answers : Prompt(answer)
  <2>1. doing = "prompts" /\ doing' \in {doing, "shows"} /\ thread' = thread
    BY <1>9 DEF Prompt, outside
  <2>2. QED
    BY <1>3, <2>1
<1>10. CASE MonitorStarts \/ MonitorReads \/ MonitorEnds \/ ThreadReads
  BY <1>3, <1>10 DEF MonitorStarts, MonitorReads, MonitorEnds, ThreadReads, Terminate, outside
<1>11. CASE \E p \in Ports : \E what \in Fits(p) : Plug(p, what)
  BY <1>3, <1>11 DEF Plug
<1>12. CASE InputEnds \/ WantToLeave \/ UNCHANGED menusVars
  BY <1>3, <1>12 DEF InputEnds, WantToLeave, menusVars, outside
<1>13. QED
  BY <1>4, <1>5, <1>6, <1>7, <1>8, <1>9, <1>10, <1>11, <1>12 DEF Quiet

LEMMA KeyTypes ==
  ASSUME NEW m \in MenuNames
  PROVE  Keys(m) \subseteq Chosen
<1>1. CASE m \in {"sensor_menu", "motor_menu"}
  BY <1>1 DEF Keys, Chosen, ExitKey, Commands, sensor_menu, motor_menu, On, Ports
<1>2. CASE m \in {"main_menu", "led_menu", "button_menu", "battery_menu", "lcd_menu", "sound_menu"}
  <2>1. CASE m \in {"main_menu", "lcd_menu", "sound_menu"}
    <3>1. CASE m = "main_menu"
      BY <3>1 DEF Keys, Chosen, ExitKey, Commands, main_menu
    <3>2. CASE m \in {"lcd_menu", "sound_menu"}
      BY <3>2 DEF Keys, Chosen, ExitKey, Commands, lcd_menu, sound_menu
    <3>3. QED
      BY <2>1, <3>1, <3>2
  <2>2. CASE m \in {"led_menu", "button_menu", "battery_menu"}
    BY <2>2 DEF Keys, Chosen, ExitKey, Commands, led_menu, button_menu, battery_menu, On
  <2>3. QED
    BY <1>2, <2>1, <2>2
<1>3. CASE m \in {"sensor_action", "motor_action", "motor_action_dc", "motor_action_servo", "led_action"}
  <2>1. CASE m \in {"sensor_action", "led_action"}
    BY <2>1 DEF Keys, Chosen, ExitKey, Commands, sensor_action, led_action
  <2>2. CASE m \in {"motor_action", "motor_action_dc"}
    BY <2>2 DEF Keys, Chosen, ExitKey, Commands, motor_action, motor_action_dc
  <2>3. CASE m = "motor_action_servo"
    BY <2>3 DEF Keys, Chosen, ExitKey, Commands, motor_action_servo
  <2>4. QED
    BY <1>3, <2>1, <2>2, <2>3
<1>4. QED
  BY <1>1, <1>2, <1>3 DEF MenuNames

\* The menus that look for devices are called by the main menu only, and no other looks.
LEMMA WhoLooks ==
  ASSUME MenusTypeOK, FramesNest
  PROVE  /\ PortsOf(Top.menu) # {} => Len(frames) = 2
         /\ Command \in MenuNames =>
              /\ Top.c \in DOMAIN Commands(Top.menu) /\ Command = Commands(Top.menu)[Top.c]
         /\ Command \in MenuNames /\ PortsOf(Command) # {} => Top.menu = "main_menu" /\ Len(frames) = 1
<1>1. /\ Top.menu \in MenuNames /\ Len(frames) \in Nat \ {0}
      /\ Top.menu \in {"sensor_menu", "motor_menu"} => Len(frames) = 2
      /\ Len(frames) # 1 => Top.menu # "main_menu"
  BY Frames
<1>2. \A m : PortsOf(m) # {} => m \in {"sensor_menu", "motor_menu"}
  BY DEF PortsOf
<1>3. Command \in MenuNames =>
        Top.c \in DOMAIN Commands(Top.menu) /\ Command = Commands(Top.menu)[Top.c]
  BY DEF Command, MenuNames
<1>4. Command \in MenuNames /\ PortsOf(Command) # {} => Top.menu = "main_menu"
  <2>1. PICK what : what = Command
    OBVIOUS
  <2>2. PICK m \in MenuNames : m = Top.menu
    BY <1>1
  <2>3. PICK k : k = Top.c
    OBVIOUS
  <2>4. what \in {"sensor_menu", "motor_menu"} /\ what \in MenuNames => m = "main_menu"
    BY <1>3, <2>1, <2>2, <2>3, KeysDo
  <2>5. QED
    BY <1>2, <2>1, <2>2, <2>4
<1>5. QED
  BY <1>1, <1>2, <1>3, <1>4

\* The frames after a key was read.
LEMMA ChooseFrames ==
  ASSUME MenusTypeOK, FramesNest, NEW k \in Keys(Top.menu), Choose(k)
  PROVE  /\ frames' \in Seq([menu : MenuNames, c : Chosen]) /\ FramesNest'
         /\ DOMAIN frames' = DOMAIN frames
         /\ \A i \in DOMAIN frames : i # Len(frames) => frames'[i] = frames[i]
         /\ frames'[Len(frames)].menu = Top.menu /\ frames'[Len(frames)].c = k
<1> DEFINE Frame == [menu : MenuNames, c : Chosen]
<1>1. /\ frames \in Seq(Frame) /\ frames # <<>>
      /\ frames' = [frames EXCEPT ![Len(frames)].c = k] /\ found' = found
  BY DEF MenusTypeOK, FramesNest, Choose
<1>2. Len(frames) \in Nat \ {0} /\ Len(frames) \in DOMAIN frames /\ Top = frames[Len(frames)]
  BY Frames
<1>3. Top \in Frame /\ k \in Chosen
  <2>1. Top \in Frame
    <3>1. frames \in Seq(Frame) /\ Top = frames[Len(frames)] /\ Len(frames) \in DOMAIN frames
      BY <1>1, <1>2
    <3> HIDE DEF Frame
    <3>2. QED
      BY <3>1
  <2>2. Top.menu \in MenuNames
    BY Frames
  <2>3. QED
    BY <2>1, <2>2, KeyTypes
<1>4. PICK new \in Frame : new = [Top EXCEPT !.c = k]
  BY <1>3
<1>5. new.menu = Top.menu /\ new.c = k
  BY <1>3, <1>4
<1>6. frames' = [frames EXCEPT ![Len(frames)] = new]
  BY <1>1, <1>2, <1>4
<1>7. frames' \in Seq(Frame) /\ Len(frames') = Len(frames) /\ DOMAIN frames' = DOMAIN frames
      /\ (\A i \in DOMAIN frames : i # Len(frames) => frames'[i] = frames[i]) /\ frames'[Len(frames)] = new
  <2>1. frames \in Seq(Frame)
    BY <1>1
  <2> HIDE DEF Frame
  <2>2. QED
    BY <1>2, <1>6, <2>1
<1>8. \A m : Commands(m)' = Commands(m)
  BY <1>1 DEF Commands, motor_menu
<1>9. FramesNest'
  <2>1. frames'[1].menu = "main_menu" /\ frames' # <<>>
    BY <1>2, <1>5, <1>7 DEF FramesNest
  <2>2. ASSUME NEW i \in 2 .. Len(frames')
        PROVE  /\ frames'[i - 1].c \in DOMAIN Commands(frames'[i - 1].menu)
               /\ frames'[i].menu = Commands(frames'[i - 1].menu)[frames'[i - 1].c]
    <3>1. i \in 2 .. Len(frames) /\ frames'[i - 1] = frames[i - 1] /\ frames'[i].menu = frames[i].menu
      BY <1>2, <1>5, <1>7
    <3>2. QED
      BY <3>1 DEF FramesNest
  <2>3. QED
    BY <1>8, <2>1, <2>2 DEF FramesNest
<1>10. QED
  BY <1>5, <1>7, <1>9

\* The frames after a menu was left, and the devices that it has looked for.
LEMMA LeaveFrames ==
  ASSUME MenusTypeOK, FramesNest, Leave
  PROVE  /\ frames' \in Seq([menu : MenuNames, c : Chosen]) /\ FramesNest'
         /\ \A i \in DOMAIN frames' : i \in DOMAIN frames /\ frames'[i] = frames[i]
         /\ found' \in [Ports -> Devices]
         /\ found' = found \/ \A i \in DOMAIN frames' : frames'[i].menu = "main_menu"
<1> DEFINE Frame == [menu : MenuNames, c : Chosen]
<1>1. frames \in Seq(Frame) /\ found \in [Ports -> Devices]
  BY DEF MenusTypeOK
<1>2. Len(frames) \in Nat \ {0} /\ frames # <<>> /\ frames[1].menu = "main_menu"
  BY Frames DEF FramesNest
<1>3. /\ frames' \in Seq(Frame) /\ Len(frames') \in Nat \ {0} /\ Len(frames') <= Len(frames)
      /\ Len(frames) = 2 => Len(frames') = 1
      /\ \A i \in DOMAIN frames' : i \in DOMAIN frames /\ frames'[i] = frames[i]
  <2>1. CASE Len(frames) = 1
    <3>1. frames' = frames /\ frames \in Seq(Frame)
      BY <1>1, <2>1 DEF Leave
    <3> HIDE DEF Frame
    <3>2. frames' \in Seq(Frame) /\ Len(frames') = 1
      BY <2>1, <3>1, Zenon
    <3>3. \A i \in DOMAIN frames' : i \in DOMAIN frames /\ frames'[i] = frames[i]
      BY <3>1, Zenon
    <3>4. QED
      BY <2>1, <3>2, <3>3
  <2>2. CASE Len(frames) # 1
    <3>1. frames' = SubSeq(frames, 1, Len(frames) - 1) /\ frames \in Seq(Frame)
      BY <1>1, <2>2 DEF Leave, Front
    <3> HIDE DEF Frame
    <3>2. Len(frames) - 1 \in Nat \ {0} /\ Len(frames) - 1 <= Len(frames)
      BY <1>2, <2>2
    <3>3. frames' \in Seq(Frame) /\ Len(frames') = Len(frames) - 1
          /\ \A i \in 1 .. Len(frames) - 1 : frames'[i] = frames[i]
      <4>1. PICK n \in Nat \ {0} : n = Len(frames) - 1
        BY <3>2
      <4>2. \A i \in 1 .. n : frames[i] \in Frame
        BY <3>1, <3>2, <4>1
      <4>3. /\ SubSeq(frames, 1, n) \in Seq(Frame)
            /\ Len(SubSeq(frames, 1, n)) = IF 1 <= n THEN n - 1 + 1 ELSE 0
            /\ \A i \in 1 .. n - 1 + 1 : SubSeq(frames, 1, n)[i] = frames[1 + i - 1]
        BY <4>2, SubSeqProperties
      <4>4. frames' = SubSeq(frames, 1, n)
        BY <3>1, <4>1
      <4>5. 1 <= n /\ n - 1 + 1 = n /\ \A i \in 1 .. n : 1 + i - 1 = i
        BY <4>1
      <4>6. QED
        BY <4>1, <4>3, <4>4, <4>5
    <3>4. QED
      BY <1>2, <2>2, <3>1, <3>2, <3>3
  <2>3. QED
    BY <2>1, <2>2
<1>4. found' = found \/ (found' = [p \in Ports |-> "none"] /\ Len(frames) = 2)
  BY WhoLooks DEF Leave
<1>5. found' \in [Ports -> Devices]
  BY <1>1, <1>4 DEF Devices
<1>6. frames'[1] = frames[1] /\ frames' # <<>>
  BY <1>2, <1>3
<1>7. found' = found \/ Len(frames') = 1
  BY <1>3, <1>4
<1>8. Len(frames') = 1 => \A i \in DOMAIN frames' : frames'[i].menu = "main_menu"
  BY <1>2, <1>3, <1>6
<1>9. FramesNest'
  <2>1. CASE found' = found
    <3>1. \A m : Commands(m)' = Commands(m)
      BY <2>1 DEF Commands, motor_menu
    <3>2. ASSUME NEW i \in 2 .. Len(frames')
          PROVE  /\ frames'[i - 1].c \in DOMAIN Commands(frames'[i - 1].menu)
                 /\ frames'[i].menu = Commands(frames'[i - 1].menu)[frames'[i - 1].c]
      <4>1. i \in 2 .. Len(frames) /\ frames'[i - 1] = frames[i - 1] /\ frames'[i] = frames[i]
        BY <1>2, <1>3
      <4>2. QED
        BY <4>1 DEF FramesNest
    <3>3. QED
      BY <1>2, <1>6, <3>1, <3>2 DEF FramesNest
  <2>2. CASE Len(frames') = 1
    BY <1>2, <1>6, <2>2 DEF FramesNest
  <2>3. QED
    BY <1>7, <2>1, <2>2
<1>10. QED
  BY <1>3, <1>5, <1>7, <1>8, <1>9

\* The frames after a menu was opened, and what it has found.
LEMMA OpenFrames ==
  ASSUME MenusTypeOK, FramesNest, Open
  PROVE  /\ frames' \in Seq([menu : MenuNames, c : Chosen]) /\ FramesNest'
         /\ \A i \in DOMAIN frames' : \/ i \in DOMAIN frames /\ frames'[i] = frames[i]
                                      \/ frames'[i].c = "nothing"
         /\ found' \in [Ports -> Devices]
         /\ found' = found \/ \A i \in DOMAIN frames' : frames'[i].menu = "main_menu" \/ frames'[i].c = "nothing"
<1> DEFINE Frame == [menu : MenuNames, c : Chosen]
<1>1. frames \in Seq(Frame) /\ found \in [Ports -> Devices] /\ plugged \in [Ports -> Devices]
  BY DEF MenusTypeOK
<1>2. Len(frames) \in Nat \ {0} /\ frames # <<>> /\ frames[1].menu = "main_menu" /\ Top = frames[Len(frames)]
  BY Frames DEF FramesNest
<1>3. PICK what \in MenuNames : what = Command
  BY DEF Open
<1>4. PICK new \in Frame : new = [menu |-> what, c |-> "nothing"]
  BY DEF Chosen
<1>5. new.menu = what /\ new.c = "nothing"
  BY <1>4
<1>6. frames' = frames \/ frames' = Append(frames, new)
  BY <1>3, <1>4 DEF Open
<1>7. found' = found \/ (Top.menu = "main_menu" /\ Len(frames) = 1)
  BY <1>3, WhoLooks DEF Open
<1>8. found' \in [Ports -> Devices]
  <2>1. CASE found' = found
    BY <1>1, <2>1
  <2>2. CASE \E seen : found' = [p \in Ports |-> IF p \in seen THEN plugged[p] ELSE "none"]
    BY <1>1, <2>2 DEF Devices
  <2>3. QED
    BY <2>1, <2>2 DEF Open
<1>9. /\ frames' \in Seq(Frame) /\ Len(frames') \in {Len(frames), Len(frames) + 1}
      /\ \A i \in DOMAIN frames : i \in DOMAIN frames' /\ frames'[i] = frames[i]
      /\ \A i \in DOMAIN frames' : i \in DOMAIN frames \/ (i = Len(frames) + 1 /\ frames'[i] = new)
  <2>1. frames \in Seq(Frame) /\ new \in Frame
    BY <1>1
  <2> HIDE DEF Frame
  <2>2. QED
    BY <1>6, <2>1
<1>10. \A m : found' = found \/ m = "main_menu" => Commands(m)' = Commands(m)
  <2>1. found' = found => \A m : Commands(m)' = Commands(m)
    BY DEF Commands, motor_menu
  <2>2. Commands("main_menu")' = Commands("main_menu")
    BY DEF Commands, main_menu
  <2>3. QED
    BY <2>1, <2>2
<1>11. Top.c \in DOMAIN Commands(Top.menu) /\ what = Commands(Top.menu)[Top.c]
  BY <1>3, WhoLooks
<1>12. ASSUME NEW i \in 2 .. Len(frames')
       PROVE  /\ frames'[i - 1] = frames[i - 1]
              /\ found' = found \/ frames[i - 1].menu = "main_menu"
              /\ frames[i - 1].c \in DOMAIN Commands(frames[i - 1].menu)
              /\ frames'[i].menu = Commands(frames[i - 1].menu)[frames[i - 1].c]
  <2>1. CASE i \in 2 .. Len(frames)
    <3>1. i - 1 \in DOMAIN frames /\ i \in DOMAIN frames
      BY <1>2, <2>1
    <3>2. frames'[i - 1] = frames[i - 1] /\ frames'[i] = frames[i]
      BY <1>9, <3>1
    <3>3. found' = found
      BY <1>2, <1>7, <2>1
    <3>4. QED
      BY <2>1, <3>2, <3>3 DEF FramesNest
  <2>2. CASE i = Len(frames) + 1
    <3>1. i - 1 = Len(frames) /\ i - 1 \in DOMAIN frames
      BY <1>2, <2>2
    <3>2. frames'[i] = new
      BY <1>2, <1>9, <2>2
    <3>3. QED
      BY <1>2, <1>5, <1>7, <1>9, <1>11, <3>1, <3>2
  <2>3. QED
    BY <1>2, <1>9, <2>1, <2>2
<1>13. FramesNest'
  <2>1. frames' # <<>> /\ frames'[1].menu = "main_menu"
    BY <1>2, <1>9
  <2>2. QED
    BY <1>10, <1>12, <2>1 DEF FramesNest
<1>14. \A i \in DOMAIN frames' : (i \in DOMAIN frames /\ frames'[i] = frames[i]) \/ frames'[i].c = "nothing"
  BY <1>5, <1>9
<1>15. found' = found \/ \A i \in DOMAIN frames' : frames'[i].menu = "main_menu" \/ frames'[i].c = "nothing"
  <2>1. CASE found' # found
    <3>1. DOMAIN frames = {1}
      BY <1>2, <1>7, <2>1
    <3>2. QED
      BY <1>2, <1>14, <3>1
  <2>2. QED
    BY <2>1
<1>16. QED
  BY <1>8, <1>9, <1>13, <1>14, <1>15

LEMMA OneMoreFile ==
  ASSUME NEW N \in Nat
  PROVE  0 \in 0 .. N /\ \A n \in 0 .. N : n # N => n + 1 \in 0 .. N
  OBVIOUS

LEMMA MenusKept ==
  ASSUME DemoAssumption, MenusNest,
         (\E k \in Keys(Top.menu) : Choose(k)) \/ Leave \/ Open
  PROVE  MenusNest'
<1>1. MenusTypeOK /\ FramesNest /\ OneReader /\ KeyIsRead
  BY DEF MenusNest
<1>2. CASE \E k \in Keys(Top.menu) : Choose(k)
  <2>1. PICK k \in Keys(Top.menu) : Choose(k)
    BY <1>2
  <2>2. frames' \in Seq([menu : MenuNames, c : Chosen]) /\ FramesNest'
    BY <1>1, <2>1, ChooseFrames
  <2>3. /\ doing = "chooses" /\ doing' = "acts" /\ careful' \in BOOLEAN
        /\ UNCHANGED <<cin, thread, found, stale, trigger, open_fb, screen, ended, plugged, led_ports, leaving>>
    BY <2>1 DEF Choose, outside
  <2>4. MenusTypeOK'
    BY <1>1, <2>2, <2>3 DEF MenusTypeOK
  <2>5. OneReader' /\ KeyIsRead'
    BY <1>1, <2>3 DEF OneReader, KeyIsRead
  <2>6. QED
    BY <2>2, <2>4, <2>5 DEF MenusNest
<1>3. CASE Leave
  <2>1. frames' \in Seq([menu : MenuNames, c : Chosen]) /\ FramesNest' /\ found' \in [Ports -> Devices]
    BY <1>1, <1>3, LeaveFrames
  <2>2. /\ doing = "acts" /\ doing' = "shows" /\ ended' \in {ended, "returned"} /\ stale' \in {stale, {}}
        /\ trigger' \in {trigger, "none"}
        /\ UNCHANGED <<cin, thread, open_fb, screen, careful, plugged, led_ports, leaving>>
    BY <1>3 DEF Leave, outside
  <2>3. MenusTypeOK'
    <3>1. /\ cin \in {"good", "failed"} /\ thread \in {"none", "reads", "has read"} /\ plugged \in [Ports -> Devices]
          /\ stale \subseteq Ports /\ trigger \in Triggers /\ led_ports \in BOOLEAN /\ open_fb \in 0 .. MaxFiles
          /\ screen \in {"other", "white", "black"} /\ ended \in {"no", "returned", "terminated"}
          /\ careful \in BOOLEAN /\ leaving \in BOOLEAN
      BY <1>1 DEF MenusTypeOK
    <3>2. trigger' \in Triggers /\ stale' \subseteq Ports
      BY <2>2, <3>1 DEF Triggers
    <3>3. ended' \in {"no", "returned", "terminated"} /\ doing' \in {"shows", "chooses", "acts", "prompts", "monitors"}
      BY <2>2, <3>1
    <3>4. QED
      BY <2>1, <2>2, <3>1, <3>2, <3>3 DEF MenusTypeOK
  <2>4. OneReader' /\ KeyIsRead'
    BY <1>1, <2>2 DEF OneReader, KeyIsRead
  <2>5. QED
    BY <2>1, <2>3, <2>4 DEF MenusNest
<1>4. CASE Open
  <2>1. frames' \in Seq([menu : MenuNames, c : Chosen]) /\ FramesNest' /\ found' \in [Ports -> Devices]
    BY <1>1, <1>4, OpenFrames
  <2>2. /\ doing = "acts" /\ doing' = "shows" /\ trigger' \in {trigger} \cup Triggers
        /\ UNCHANGED <<cin, thread, stale, screen, ended, careful, plugged, led_ports, leaving>>
    BY <1>4 DEF Open, outside
  <2>3. open_fb' \in 0 .. MaxFiles
    <3>1. open_fb \in 0 .. MaxFiles
      BY <1>1 DEF MenusTypeOK
    <3>2. open_fb' = open_fb \/ (open_fb' = open_fb + 1 /\ open_fb # MaxFiles)
      BY <1>4 DEF Open, OutOfFiles
    <3>3. MaxFiles \in Nat
      BY DEF DemoAssumption
    <3>4. PICK n \in 0 .. MaxFiles : n = open_fb
      BY <3>1
    <3>5. n # MaxFiles => n + 1 \in 0 .. MaxFiles
      BY <3>3, OneMoreFile
    <3>6. QED
      BY <3>2, <3>4, <3>5
  <2>4. MenusTypeOK'
    BY <1>1, <2>1, <2>2, <2>3 DEF MenusTypeOK
  <2>5. OneReader' /\ KeyIsRead'
    BY <1>1, <2>2 DEF OneReader, KeyIsRead
  <2>6. QED
    BY <2>1, <2>4, <2>5 DEF MenusNest
<1>5. QED
  BY <1>2, <1>3, <1>4

(***************************************************************************)
(* What was chosen by careful users stays there.                           *)
(***************************************************************************)
LEMMA ListedStays ==
  ASSUME DemoAssumption, MenusNest, ThereAsListed, [MenusNext]_(menusVars)
  PROVE  ThereAsListed'
<1> SUFFICES ASSUME careful'
    PROVE  ThereAsListed'
  BY DEF ThereAsListed
<1>1. MenusTypeOK /\ FramesNest
  BY DEF MenusNest
<1>2. CASE Quiet
  <2>1. UNCHANGED <<frames, found, led_ports>>
    BY <1>2, QuietFrames
  <2>2. careful /\ stale' = stale
    <3>1. CASE Show \/ ChooseFails \/ Act
      BY <3>1 DEF Show, ChooseFails, Act, Terminate, Nothing, Info
    <3>2. CASE LedAct \/ Ask
      BY <3>2 DEF LedAct, Ask, Terminate, Nothing
    <3>3. CASE \E answer \in Answers : Prompt(answer)
      BY <3>3 DEF Prompt
    <3>4. CASE MonitorStarts \/ MonitorReads \/ MonitorEnds \/ ThreadReads
      BY <3>4 DEF MonitorStarts, MonitorReads, MonitorEnds, ThreadReads, Terminate
    <3>5. CASE \E p \in Ports : \E what \in Fits(p) : Plug(p, what)
      BY <3>5 DEF Plug
    <3>6. CASE InputEnds \/ WantToLeave \/ UNCHANGED menusVars
      BY <3>6 DEF InputEnds, WantToLeave, menusVars
    <3>7. QED
      BY <1>2, <3>1, <3>2, <3>3, <3>4, <3>5, <3>6 DEF Quiet
  <2>3. QED
    BY <2>1, <2>2 DEF ThereAsListed
<1>3. CASE \E k \in Keys(Top.menu) : Choose(k)
  <2>1. PICK k \in Keys(Top.menu) : Choose(k)
    BY <1>3
  <2>2. careful /\ Listed(k) /\ UNCHANGED <<found, stale, led_ports>>
    BY <2>1 DEF Choose, outside
  <2>3. /\ DOMAIN frames' = DOMAIN frames /\ Len(frames) \in DOMAIN frames
        /\ \A i \in DOMAIN frames : i # Len(frames) => frames'[i] = frames[i]
        /\ frames'[Len(frames)].menu = Top.menu /\ frames'[Len(frames)].c = k
    BY <1>1, <2>1, ChooseFrames, Frames
  <2>4. ASSUME NEW i \in DOMAIN frames
        PROVE  /\ frames'[i].menu \in {"sensor_menu", "motor_menu"} /\ frames'[i].c \in Ports =>
                    found[frames'[i].c] # "none"
               /\ frames'[i].c = "port LED" => led_ports
    <3>1. CASE i = Len(frames)
      BY <2>2, <2>3, <3>1 DEF Listed
    <3>2. CASE i # Len(frames)
      BY <2>2, <2>3, <3>2 DEF ThereAsListed
    <3>3. QED
      BY <3>1, <3>2
  <2>5. QED
    BY <2>2, <2>3, <2>4 DEF ThereAsListed
<1>4. CASE Leave
  <2>1. careful /\ stale' \in {stale, {}} /\ led_ports' = led_ports
    BY <1>4 DEF Leave, outside
  <2>2. /\ \A i \in DOMAIN frames' : i \in DOMAIN frames /\ frames'[i] = frames[i]
        /\ found' = found \/ \A i \in DOMAIN frames' : frames'[i].menu = "main_menu"
    BY <1>1, <1>4, LeaveFrames
  <2>3. QED
    BY <2>1, <2>2 DEF ThereAsListed
<1>5. CASE Open
  <2>1. careful /\ stale' = stale /\ led_ports' = led_ports
    BY <1>5 DEF Open, outside
  <2>2. /\ \A i \in DOMAIN frames' : (i \in DOMAIN frames /\ frames'[i] = frames[i]) \/ frames'[i].c = "nothing"
        /\ found' = found \/ \A i \in DOMAIN frames' : frames'[i].menu = "main_menu" \/ frames'[i].c = "nothing"
    BY <1>1, <1>5, OpenFrames
  <2>3. "nothing" \notin Ports
    BY DEF DemoAssumption
  <2>4. QED
    BY <2>1, <2>2, <2>3 DEF ThereAsListed
<1>6. QED
  BY <1>2, <1>3, <1>4, <1>5 DEF MenusNext, Run, Quiet

(***************************************************************************)
(* Nothing that careful users do terminates the program, but for the two   *)
(* causes named.                                                           *)
(***************************************************************************)
LEMMA UserSurvives ==
  ASSUME DemoAssumption, MenusNest, ThereAsListed, CarefulUserSurvives, [MenusNext]_(menusVars)
  PROVE  CarefulUserSurvives'
<1>1. MenusTypeOK /\ FramesNest /\ KeyIsRead
  BY DEF MenusNest
<1>2. CASE ended' # "terminated"
  BY <1>2 DEF CarefulUserSurvives
<1>3. CASE UNCHANGED menusVars
  <2>1. Command' = Command /\ UNCHANGED <<careful, ended, open_fb>>
    BY <1>3, SameFrames DEF menusVars
  <2>2. QED
    BY <2>1 DEF CarefulUserSurvives, OutOfFiles
<1> SUFFICES ASSUME ended' = "terminated", MenusNext, careful'
    PROVE  OutOfFiles' \/ Command' = "battery"
  BY <1>2, <1>3 DEF CarefulUserSurvives
<1>4. Quiet /\ ended = "no"
  <2>1. ended = "no"
    BY DEF MenusNext, Run, Show, Choose, ChooseFails, Leave, Open, Act, LedAct, Ask, Prompt,
           MonitorStarts, MonitorReads, MonitorEnds, ThreadReads, Plug, InputEnds, WantToLeave
  <2>2. ~ Leave /\ ~ Open /\ ~ \E k \in Keys(Top.menu) : Choose(k)
    BY <2>1 DEF Leave, Open, Choose
  <2>3. QED
    BY <2>1, <2>2 DEF MenusNext, Run, Quiet
<1>5. Command' = Command
  BY <1>4, QuietFrames, SameFrames
<1> SUFFICES OutOfFiles' \/ Command = "battery"
  BY <1>5
<1>6. PICK m \in MenuNames : m = Top.menu
  BY <1>1, Frames
<1>7. PICK what : what = Command
  OBVIOUS
<1>8. what # "nothing" =>
        /\ what \in {"reads", "monitor"} => m = "sensor_action"
        /\ what \in {"writes", "info"} => m = "motor_action"
        /\ what = "asks" => m \in {"motor_action", "motor_action_dc"}
        /\ what \in {"word", "number"} =>
             m \in {"sensor_action", "motor_action", "motor_action_dc", "motor_action_servo"}
        /\ what \in {"off", "on", "flash", "interval", "trigger"} => m = "led_action"
  <2>1. PICK k : k = Top.c
    OBVIOUS
  <2>2. what # "nothing" => k \in DOMAIN Commands(m) /\ what = Commands(m)[k]
    BY <1>6, <1>7, <2>1 DEF Command
  <2>3. QED
    BY <2>2, KeysDo
<1>9. careful =>
        /\ m \in {"sensor_action", "motor_action", "motor_action_dc", "motor_action_servo"} => ~ Gone(Port)
        /\ m = "led_action" => ~ LedGone
  BY <1>1, <1>6, PortIsThere
<1>10. open_fb' = open_fb => (OutOfFiles' <=> OutOfFiles)
  BY DEF OutOfFiles
<1>11. CASE Show
  <2>1. careful /\ open_fb' = open_fb /\ MayThrow(Shown)
    BY <1>4, <1>11 DEF Show, Terminate
  <2>2. ASSUME NEW p \in Shown
        PROVE  ~ Gone(p)
    <3>1. CASE m \in {"sensor_menu", "motor_menu"}
      BY <1>6, <2>1, <3>1 DEF Shown, Gone, ThereAsListed
    <3>2. CASE m \in {"sensor_action", "motor_action", "motor_action_dc", "motor_action_servo"}
      BY <1>6, <1>9, <2>1, <3>2 DEF Shown
    <3>3. CASE m \notin {"sensor_menu", "motor_menu", "sensor_action", "motor_action", "motor_action_dc",
                         "motor_action_servo"}
      BY <1>6, <3>3 DEF Shown
    <3>4. QED
      BY <3>1, <3>2, <3>3
  <2>3. QED
    BY <1>10, <2>1, <2>2 DEF MayThrow
<1>12. CASE Act
  <2>1. careful /\ open_fb' = open_fb /\ (Command = "battery" \/ (Command \in {"reads", "writes"} /\ MayThrow({Port})))
    BY <1>4, <1>12 DEF Act, Terminate, Nothing, Info
  <2>2. QED
    BY <1>7, <1>8, <1>9, <1>10, <2>1 DEF MayThrow
<1>13. CASE LedAct
  <2>1. /\ careful /\ open_fb' = open_fb /\ Command \in {"off", "on", "flash"}
        /\ (Port = "port LED" /\ ~ led_ports) \/ OutOfFiles
    BY <1>4, <1>13 DEF LedAct, Terminate, Nothing
  <2>2. QED
    BY <1>7, <1>8, <1>9, <1>10, <2>1 DEF LedGone
<1>14. CASE Ask
  <2>1. /\ careful /\ open_fb' = open_fb
        /\ \/ Command = "asks" /\ MayThrow({Port})
           \/ Command = "trigger" /\ (LedGone \/ OutOfFiles)
    BY <1>4, <1>14 DEF Ask, Terminate
  <2>2. QED
    BY <1>7, <1>8, <1>9, <1>10, <2>1 DEF MayThrow
<1>15. CASE \E answer \in Answers : Prompt(answer)
  <2>1. /\ careful /\ open_fb' = open_fb /\ Command \in Asked /\ Command \notin {"tone", "sounds"}
        /\ Command = "interval" => trigger = "timer"
        /\ ~ CanWrite \/ OutOfFiles
    BY <1>1, <1>4, <1>15 DEF Prompt, KeyIsRead
  <2>2. CanWrite \/ (LedGone /\ Command = "interval")
                   \/ (Gone(Port) /\ Command \in {"word", "asks", "number"})
    <3>1. CASE Command = "interval"
      <4>1. CanWrite <=> ~ LedGone /\ trigger = "timer"
        BY <3>1 DEF CanWrite
      <4>2. QED
        BY <2>1, <3>1, <4>1
    <3>2. CASE Command = "trigger"
      BY <3>2 DEF CanWrite
    <3>3. CASE Command \in {"word", "asks", "number"}
      BY <3>3 DEF CanWrite
    <3>4. QED
      BY <2>1, <3>1, <3>2, <3>3 DEF Asked
  <2>3. QED
    BY <1>7, <1>8, <1>9, <1>10, <2>1, <2>2
<1>16. CASE MonitorStarts \/ MonitorReads \/ MonitorEnds \/ ThreadReads
  <2>1. careful /\ open_fb' = open_fb /\ doing = "monitors" /\ MayThrow({Port})
    BY <1>4, <1>16 DEF MonitorStarts, MonitorReads, MonitorEnds, ThreadReads, Terminate
  <2>2. Command = "monitor"
    BY <1>1, <2>1 DEF KeyIsRead
  <2>3. QED
    BY <1>7, <1>8, <1>9, <1>10, <2>1, <2>2 DEF MayThrow
<1>17. ~ ChooseFails /\ ~ (\E p \in Ports : \E what_ \in Fits(p) : Plug(p, what_))
       /\ ~ InputEnds /\ ~ WantToLeave /\ ~ UNCHANGED menusVars
  BY <1>4 DEF ChooseFails, Plug, InputEnds, WantToLeave, menusVars
<1>18. QED
  BY <1>4, <1>11, <1>12, <1>13, <1>14, <1>15, <1>16, <1>17 DEF Quiet

LEMMA OneFrame ==
  ASSUME NEW S, NEW e \in S
  PROVE  /\ <<e>> \in Seq(S) /\ DOMAIN <<e>> = {1} /\ Len(<<e>>) = 1 /\ <<e>>[1] = e
         /\ <<e>> # <<>> /\ 2 .. Len(<<e>>) = {}
  OBVIOUS

LEMMA DemoInit ==
  ASSUME DemoAssumption, MenusInit
  PROVE  MenusIInv
<1>1. PICK first : first = [menu |-> "main_menu", c |-> "nothing"]
  OBVIOUS
<1>2. first \in [menu : MenuNames, c : Chosen] /\ first.menu = "main_menu" /\ first.c = "nothing"
  BY <1>1 DEF MenuNames, Chosen
<1>3. /\ frames \in Seq([menu : MenuNames, c : Chosen]) /\ DOMAIN frames = {1} /\ frames[1] = first
      /\ frames # <<>> /\ 2 .. Len(frames) = {}
  <2>1. frames = <<first>>
    BY <1>1 DEF MenusInit
  <2>2. QED
    BY <1>2, <2>1, OneFrame
<1>4. plugged \in [Ports -> Devices] /\ found \in [Ports -> Devices]
  BY DEF MenusInit, Devices
<1>5. MenusTypeOK
  <2>1. stale \subseteq Ports /\ trigger \in Triggers
    BY DEF MenusInit, Triggers
  <2>2. open_fb \in 0 .. MaxFiles
    <3>1. MaxFiles \in Nat /\ open_fb = 0
      BY DEF MenusInit, DemoAssumption
    <3>2. QED
      BY <3>1, OneMoreFile
  <2>3. QED
    BY <1>3, <1>4, <2>1, <2>2 DEF MenusInit, MenusTypeOK
<1>6. FramesNest
  BY <1>2, <1>3 DEF FramesNest
<1>7. OneReader /\ KeyIsRead
  BY DEF MenusInit, OneReader, KeyIsRead
<1>8. ThereAsListed
  BY <1>2, <1>3 DEF MenusInit, ThereAsListed
<1>9. CarefulUserSurvives
  BY DEF MenusInit, CarefulUserSurvives
<1>10. QED
  BY <1>5, <1>6, <1>7, <1>8, <1>9 DEF MenusIInv, MenusNest

(***************************************************************************)
(* demos/ev3dev-lang-demo.cpp: whatever is plugged in and out, typed and   *)
(* refused, each menu was called by what its caller has read last, and the *)
(* thread of the monitor is there only while its menu waits for it; and    *)
(* what careful users chose is still there.  For any ports, provided that  *)
(* none is called like a key.                                              *)
(***************************************************************************)
THEOREM DemoInvariant ==
  ASSUME DemoAssumption
  PROVE  MenusSpec => []MenusIInv
<1>1. MenusInit => MenusIInv
  BY DemoInit
<1>2. MenusIInv /\ [MenusNext]_(menusVars) => MenusIInv'
  <2> SUFFICES ASSUME MenusIInv, [MenusNext]_(menusVars) PROVE MenusIInv'
    OBVIOUS
  <2>1. MenusNest /\ ThereAsListed /\ CarefulUserSurvives
    BY DEF MenusIInv
  <2>2. MenusNest'
    <3>1. Quiet \/ (\E k \in Keys(Top.menu) : Choose(k)) \/ Leave \/ Open
      BY DEF MenusNext, Run, Quiet
    <3>2. QED
      BY <2>1, <3>1, QuietNest, MenusKept
  <2>3. ThereAsListed' /\ CarefulUserSurvives'
    BY <2>1, ListedStays, UserSurvives
  <2>4. QED
    BY <2>2, <2>3 DEF MenusIInv
<1>3. QED
  BY <1>1, <1>2, PTL DEF MenusSpec

(***************************************************************************)
(* Nothing terminates the demo of careful users but the battery's menu,    *)
(* and having opened the LCD's until there are no files left               *)
(* (ev3dev.cpp:937, and the frame buffer that lcd::deinit keeps open).     *)
(***************************************************************************)
THEOREM CarefulUsersSurvive ==
  ASSUME DemoAssumption
  PROVE  MenusSpec => []CarefulUserSurvives
<1>1. MenusIInv => CarefulUserSurvives
  BY DEF MenusIInv
<1>2. QED
  BY <1>1, DemoInvariant, PTL
=============================================================================
