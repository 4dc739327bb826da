------------------------------ MODULE Drawing -------------------------------
(***************************************************************************)
(* Moving the plotter once it is homed: commands::go of plotter/driver.cpp *)
(* as called by handle_server_event and by the utilities menu of           *)
(* plotter/main.cpp.  A GoState commands the motors when it is made, then  *)
(* looks every 10 ms whether they have all arrived; a press of ok makes it *)
(* give up, and the motors go on.  The next position is computed from      *)
(* where the motors are when the message or the click is handled, arrived  *)
(* or not.                                                                 *)
(*                                                                         *)
(* Homing results are fixed here: Homing.tla is about where they come      *)
(* from.                                                                   *)
(***************************************************************************)
EXTENDS Positions

CONSTANTS
  Gos,           \* bound: GoStates alive at the same time
  Layouts,       \* homing results: functions from axes to [from, to, rest]
  Coordinates,   \* of G0/G1, in 1/Unit motor steps when the unit is mm
  Unit,          \* 1/Unit of a motor step is the finest a coordinate gets
  InchPerMm,     \* c_stepsToMm over c_stepsToInches, scaled down
  DefaultSpeed,  \* defaultSpeed of calc_speeds, scaled down
  Small,         \* steps of the "+10" and "-10" items, scaled down
  Big,           \* steps of the "+100" and "-100" items, scaled down
  MaxRaw,        \* bound: raw positions the moves that do not clamp ask for
  None

Axes == {"x", "y", "z"}

ASSUME DrawingAssumption ==
  /\ Layouts \subseteq [Axes -> [from : Int, to : Int, rest : Int]]
  /\ Coordinates \subseteq Int
  /\ Unit \in Nat \ {0} /\ InchPerMm \in Nat \ {0}
  /\ DefaultSpeed \in Nat \ {0}
  /\ Small \in Nat /\ Big \in Nat /\ MaxRaw \in Nat
  /\ None \notin Int

VARIABLES
  homed,       \* state::homed_
  position,    \* where the motors are
  position_sp, \* where they have been told to go
  speed_sp,    \* how fast
  goal,        \* x_, y_, z_ of every GoState; None where it has none
  waiting,     \* the GoStates whose step() is scheduled
  relative,    \* gcode_state_.relative_moves
  use_mm,      \* gcode_state_.use_mm
  given_up     \* history: a GoState has ended because of ok

vars == <<homed, position, position_sp, speed_sp, goal, waiting, relative, use_mm, given_up>>

Nowhere == [a \in Axes |-> None]
RawRange == - MaxRaw .. MaxRaw

Init ==
  /\ homed \in Layouts
  /\ position = [a \in Axes |-> homed[a].rest]
  /\ position_sp = position
  /\ speed_sp = [a \in Axes |-> 0]
  /\ goal = [g \in Gos |-> Nowhere]
  /\ waiting = {}
  /\ relative = FALSE
  /\ use_mm = TRUE
  /\ given_up = FALSE

\* Mutant of Go: the tool motor is waited for, and not commanded.
GoWithoutTool(to, speed) ==
  \E g \in Gos \ waiting :
    /\ goal' = [goal EXCEPT ![g] = to]
    /\ position_sp' = [a \in Axes |->
         IF to[a] = None \/ a = "z" THEN position_sp[a] ELSE to[a]]
    /\ speed_sp' = [a \in Axes |-> IF to[a] = None THEN speed_sp[a] ELSE speed[a]]
    /\ waiting' = waiting \cup {g}
    /\ UNCHANGED <<homed, position, relative, use_mm, given_up>>

(***************************************************************************)
(* commands::go to the positions to[a]; an axis with None is not moved and *)
(* is not waited for.                                                      *)
(***************************************************************************)
Go(to, speed) ==
  \E g \in Gos \ waiting :
    /\ goal' = [goal EXCEPT ![g] = to]
    /\ position_sp' = [a \in Axes |-> IF to[a] = None THEN position_sp[a] ELSE to[a]]
    /\ speed_sp' = [a \in Axes |-> IF to[a] = None THEN speed_sp[a] ELSE speed[a]]
    /\ waiting' = waiting \cup {g}
    /\ UNCHANGED <<homed, position, relative, use_mm, given_up>>

\* Mutant of Arrived: one motor is enough.
ArrivedAny(g) == \E a \in Axes : goal[g][a] \in {None, position[a]}

Arrived(g) == \A a \in Axes : goal[g][a] \in {None, position[a]}

(***************************************************************************)
(* GoState::step: after a press of ok it ends without a word; when all its *)
(* motors are where they should be it reports to its caller and ends;      *)
(* otherwise it is scheduled again.                                        *)
(***************************************************************************)
GoStep(g, pressed) ==
  /\ g \in waiting
  /\ IF pressed \/ Arrived(g)
     THEN waiting' = waiting \ {g} /\ goal' = [goal EXCEPT ![g] = Nowhere]
     ELSE UNCHANGED <<waiting, goal>>
  /\ given_up' = (given_up \/ pressed)
  /\ UNCHANGED <<homed, position, position_sp, speed_sp, relative, use_mm>>

(***************************************************************************)
(* handle_server_event: G0/G1 with any of the coordinates.  calc_speeds    *)
(* takes a coordinate that is not given for a zero, in absolute moves too; *)
(* the tool always has its own speed.                                      *)
(***************************************************************************)
Fractions(c) == IF use_mm THEN c ELSE c * InchPerMm

Table(a) == Read(a, homed[a], position[a])

Target(move) ==
  [a \in Axes |->
     IF move[a] = None THEN None
     ELSE Calc(a, homed[a], position[a], relative, Truncated(Fractions(move[a]), Unit))]

CalcSpeeds(move) ==
  LET moved(a) == (IF move[a] = None THEN 0 ELSE Fractions(move[a]))
                  - (IF relative THEN 0 ELSE Unit * Table(a))
      speeds == Speeds(moved("x"), moved("y"), DefaultSpeed)
  IN  [a \in Axes |-> IF a = "z" THEN DefaultSpeed ELSE speeds[a]]

ServerGo(move) == Go(Target(move), CalcSpeeds(move))

(***************************************************************************)
(* handle_server_event: G20, G21, G90, G91.                                *)
(***************************************************************************)
ServerUnits(mm) ==
  /\ use_mm' = mm
  /\ UNCHANGED <<homed, position, position_sp, speed_sp, goal, waiting, relative, given_up>>

ServerPositioning(to_relative) ==
  /\ relative' = to_relative
  /\ UNCHANGED <<homed, position, position_sp, speed_sp, goal, waiting, use_mm, given_up>>

(***************************************************************************)
(* The items of the utilities menu.  "x = 0" and "y = 0"; "x+10" to        *)
(* "y-10", by table positions; "y-100", which takes the position of the x  *)
(* motor; "x+100,y+100" and "x+100,y-100", by raw positions; "Tool up" and *)
(* "Tool down".                                                            *)
(***************************************************************************)
MenuGo(to) == Go(to, [a \in Axes |-> DefaultSpeed])

Only(a, raw) == [Nowhere EXCEPT ![a] = raw]

MenuZero(a) == MenuGo(Only(a, Raw(homed[a], 0)))

Jogs == {<<"x", Small>>, <<"x", Big>>, <<"x", - Small>>, <<"x", - Big>>,
         <<"y", Small>>, <<"y", Big>>, <<"y", - Small>>}

MenuJog(a, by) == MenuGo(Only(a, Raw(homed[a], Table(a) + by)))

MenuYMinusBig ==
  /\ position["x"] - Big \in RawRange
  /\ MenuGo(Only("y", position["x"] - Big))

MenuDiagonal(by) ==
  /\ {position["x"] + Big, position["y"] + by} \subseteq RawRange
  /\ MenuGo([Only("y", position["y"] + by) EXCEPT !["x"] = position["x"] + Big])

MenuToolUp == MenuGo(Only("z", Raw(homed["z"], 0)))

MenuToolDown == MenuGo(Only("z", Raw(homed["z"], 0) + Travel(homed["z"])))

(***************************************************************************)
(* A motor moves towards its setpoint, unless its speed is zero.           *)
(***************************************************************************)
Move(a) ==
  /\ position[a] # position_sp[a]
  /\ speed_sp[a] # 0
  /\ position' = [position EXCEPT ![a] = IF @ < position_sp[a] THEN @ + 1 ELSE @ - 1]
  /\ UNCHANGED <<homed, position_sp, speed_sp, goal, waiting, relative, use_mm, given_up>>

Moves == [Axes -> Coordinates \cup {None}]

Server ==
  \/ \E move \in Moves : ServerGo(move)
  \/ \E mm \in BOOLEAN : ServerUnits(mm)
  \/ \E to_relative \in BOOLEAN : ServerPositioning(to_relative)

Menu ==
  \/ \E a \in {"x", "y"} : MenuZero(a)
  \/ \E jog \in Jogs : MenuJog(jog[1], jog[2])
  \/ MenuYMinusBig
  \/ \E by \in {Big, - Big} : MenuDiagonal(by)
  \/ MenuToolUp
  \/ MenuToolDown

Next ==
  \/ Server
  \/ Menu
  \/ \E g \in Gos, pressed \in BOOLEAN : GoStep(g, pressed)
  \/ \E a \in Axes : Move(a)

Spec == Init /\ [][Next]_vars

(***************************************************************************)
(* A motor gets where it is told to go, and scheduled tasks are run.       *)
(* Nobody has to press ok.                                                 *)
(***************************************************************************)
FairSpec ==
  /\ Spec
  /\ \A a \in Axes : WF_vars(Move(a))
  /\ \A g \in Gos : WF_vars(GoStep(g, FALSE))
-----------------------------------------------------------------------------
TypeOK ==
  /\ homed \in Layouts
  /\ position \in [Axes -> Int]
  /\ position_sp \in [Axes -> Int]
  /\ speed_sp \in [Axes -> Nat]
  /\ goal \in [Gos -> [Axes -> Int \cup {None}]]
  /\ waiting \subseteq Gos
  /\ relative \in BOOLEAN
  /\ use_mm \in BOOLEAN
  /\ given_up \in BOOLEAN

(***************************************************************************)
(* Until ok is pressed, a motor that is not where it was last told to go   *)
(* is waited for by a GoState that will see it arrive, however the moves   *)
(* of the menu and of the server overlap.                                  *)
(***************************************************************************)
MotorsWaitedFor ==
  given_up \/ \A a \in Axes :
    position[a] # position_sp[a] => \E g \in waiting : goal[g][a] = position_sp[a]

(***************************************************************************)
(* So once the last response is sent, the pen rests where it was sent: the *)
(* answer to a G0 or G1 does not come early.                               *)
(***************************************************************************)
AtRestWhenDone == waiting = {} /\ ~given_up => position = position_sp

IInv == TypeOK /\ MotorsWaitedFor

Between(n, axis) ==
  IF axis.from < axis.to THEN axis.from <= n /\ n <= axis.to ELSE axis.to <= n /\ n <= axis.from

(***************************************************************************)
(* A G-code move never sends a motor past an end stop found by homing, in  *)
(* either positioning mode, whichever way the motor turns, and wherever    *)
(* the menu's moves that do not clamp have taken it before.                *)
(***************************************************************************)
GCodeWithinLimits ==
  [][\A move \in Moves : ServerGo(move) =>
       \A a \in Axes : move[a] # None => Between(position_sp'[a], homed[a])]_vars

\* Axis a is sent n steps along the table, or as far as it goes.
SentAlong(a, n) ==
  Read(a, homed[a], position_sp'[a]) = StdClamp(Table(a) + n, 0, Travel(homed[a]))

(***************************************************************************)
(* A relative G-code move of x or y, and a jog of the utilities menu, asks *)
(* for exactly as many table steps as requested, in that direction, on     *)
(* tables homed to either side, unless an end stop is nearer.              *)
(***************************************************************************)
StepsAsAsked ==
  [][/\ \A move \in Moves : relative /\ ServerGo(move) =>
          \A a \in {"x", "y"} : move[a] # None =>
            SentAlong(a, Truncated(Fractions(move[a]), Unit))
     /\ \A jog \in Jogs : MenuJog(jog[1], jog[2]) => SentAlong(jog[1], jog[2])]_vars

(***************************************************************************)
(* With one move at a time, as a client that waits for the response sends  *)
(* them, every move ends and is answered, if calc_speeds gives a speed to  *)
(* each motor that has to move.                                            *)
(***************************************************************************)
Movable(g) ==
  \A a \in Axes : goal[g][a] \notin {None, position[a]} => speed_sp[a] # 0

MovesEnd == \A g \in Gos : g \in waiting /\ Movable(g) ~> g \notin waiting
=============================================================================
