---------------------------- MODULE DrawingProofs ---------------------------
(***************************************************************************)
(* Proofs about Drawing: who waits for a motor, and where the moves that   *)
(* use positions on the table send it.                                     *)
(***************************************************************************)
EXTENDS Drawing, FiniteSetTheorems, TLAPS

(***************************************************************************)
(* Positions: what to_raw, to_norm and clamp return.                       *)
(***************************************************************************)
Ends == [from : Int, to : Int, rest : Int]

\* to_raw of any position on the table lies between the two end stops.
LEMMA RawBetween ==
  ASSUME NEW axis \in Ends, NEW val \in Int
  PROVE  Raw(axis, val) \in Int /\ Between(Raw(axis, val), axis)
BY DEF Ends, Raw, ToRaw, StdClamp, Between

\* The travel of an axis is not negative.
LEMMA TravelNat ==
  ASSUME NEW axis \in Ends
  PROVE  Travel(axis) \in Nat
BY DEF Ends, Travel, Abs

\* to_norm returns a position on the table.
LEMMA ReadOnTable ==
  ASSUME NEW axis \in Ends, NEW raw \in Int, NEW a \in Axes
  PROVE  Read(a, axis, raw) \in 0..Travel(axis)
BY DEF Ends, Read, ToNorm, StdClamp, Travel, Abs

\* A limit of zero and one above it clamp the same whatever their order.
LEMMA DetailClampIsStdClamp ==
  ASSUME NEW n \in Int, NEW top \in Nat
  PROVE  DetailClamp(n, 0, top) = StdClamp(n, 0, top)
         /\ DetailClamp(n, 0, top) \in Int
<1>1. CASE n < 0
  BY <1>1 DEF DetailClamp, StdClamp
<1>2. CASE n >= 0
  BY <1>2 DEF DetailClamp, StdClamp
<1> QED BY <1>1, <1>2

\* A position on the table that to_raw is asked for is read back by to_norm.
LEMMA ReadOfRaw ==
  ASSUME NEW axis \in Ends, NEW val \in Int, NEW a \in {"x", "y"}
  PROVE  Read(a, axis, Raw(axis, val)) = StdClamp(val, 0, Travel(axis))
<1>1. Read(a, axis, Raw(axis, val)) = ToNorm(axis.from, axis.to, Raw(axis, val))
  BY DEF Read
<1>2. PICK from \in Int, to \in Int : from = axis.from /\ to = axis.to
  BY DEF Ends
<1>3. ToNorm(from, to, ToRaw(from, to, val)) = StdClamp(val, 0, Abs(from - to))
  <2>1. CASE from < to
    BY <2>1 DEF ToNorm, ToRaw, StdClamp, Abs
  <2>2. CASE from >= to
    BY <2>2 DEF ToNorm, ToRaw, StdClamp, Abs
  <2> QED BY <2>1, <2>2
<1> QED BY <1>1, <1>2, <1>3 DEF Raw, Travel

\* Clamping to the table twice is clamping once.
LEMMA ClampTwice ==
  ASSUME NEW n \in Int, NEW top \in Nat
  PROVE  StdClamp(StdClamp(n, 0, top), 0, top) = StdClamp(n, 0, top)
BY DEF StdClamp

\* A coordinate gives a position between the end stops.
LEMMA CalcBetween ==
  ASSUME NEW axis \in Ends, NEW raw \in Int, NEW a \in Axes,
         NEW rel \in BOOLEAN, NEW steps \in Int
  PROVE  Calc(a, axis, raw, rel, steps) \in Int
         /\ Between(Calc(a, axis, raw, rel, steps), axis)
<1> DEFINE read == Read(a, axis, raw)
<1>1. read \in Int
  BY ReadOnTable, TravelNat
<1>2. Advanced(a, axis, raw, steps) \in Int
  BY <1>1, TravelNat, DetailClampIsStdClamp DEF Advanced
<1>3. Calc(a, axis, raw, rel, steps)
        = Raw(axis, IF rel THEN Advanced(a, axis, raw, steps) ELSE steps)
  BY DEF Calc
<1> HIDE DEF read
<1> QED BY <1>2, <1>3, RawBetween

\* Truncating a number of fractions gives a whole number of steps.
LEMMA TruncatedInt ==
  ASSUME NEW n \in Int, NEW unit \in Nat \ {0}
  PROVE  Truncated(n, unit) \in Int
BY DEF Truncated

\* calc_speeds returns speeds that are not negative.
LEMMA SpeedsNat ==
  ASSUME NEW x \in Int, NEW y \in Int, NEW s \in Nat, NEW a \in {"x", "y"}
  PROVE  Speeds(x, y, s)[a] \in Nat
<1>1. ASSUME NEW num \in Int, NEW den \in Int, NEW bound \in Nat
      PROVE  RoundedRoot(num, den, bound) \in Nat
  <2> DEFINE S == {n \in 1..bound : (2 * n - 1) * (2 * n - 1) * den <= 4 * num}
  <2>1. IsFiniteSet(1..bound)
    BY FS_Interval
  <2>2. IsFiniteSet(S)
    BY <2>1, FS_Subset
  <2>3. Cardinality(S) \in Nat
    BY <2>2, FS_CardinalityType
  <2> QED BY <2>3 DEF RoundedRoot
<1> DEFINE xx == x * x
           yy == y * y
           b == s * Abs(y)
           x_speed == RoundedRoot(s * s * yy, xx + yy, b)
           y_speed == RoundedRoot(s * s * yy * yy, xx * (xx + yy), b)
<1>2. xx \in Int /\ yy \in Int /\ s * s \in Int
  OBVIOUS
<1>3. b \in Nat
  <2>1. Abs(y) \in Nat
    BY DEF Abs
  <2> QED BY <2>1
<1> HIDE DEF xx, yy, b
<1>4. s * s * yy \in Int /\ xx + yy \in Int
  BY <1>2
<1>5. s * s * yy * yy \in Int /\ xx * (xx + yy) \in Int
  BY <1>2, <1>4
<1>6. x_speed \in Nat
  BY <1>1, <1>3, <1>4
<1>7. y_speed \in Nat
  BY <1>1, <1>3, <1>5
<1>8. Speeds(x, y, s) = IF x = 0 /\ y = 0 THEN [x |-> 0, y |-> 0]
                        ELSE IF x = 0 THEN [x |-> 0, y |-> s]
                        ELSE IF y = 0 THEN [x |-> s, y |-> 0]
                        ELSE [x |-> x_speed, y |-> y_speed]
  BY DEF Speeds, xx, yy, b
<1> HIDE DEF x_speed, y_speed
<1> QED BY <1>6, <1>7, <1>8

-----------------------------------------------------------------------------
(***************************************************************************)
(* The invariant.                                                          *)
(***************************************************************************)
Targets == [Axes -> Int \cup {None}]
SpeedSettings == [Axes -> Nat]

LEMMA HomedEnds ==
  ASSUME TypeOK, NEW a \in Axes
  PROVE  homed[a] \in Ends /\ position[a] \in Int
BY DrawingAssumption DEF TypeOK, Ends

\* Whatever go is called with, the motors it moves are waited for.
LEMMA GoKeepsIInv ==
  ASSUME IInv, NEW to \in Targets, NEW speed \in SpeedSettings, Go(to, speed)
  PROVE  IInv'
<1> USE DEF Targets, SpeedSettings
<1>1. PICK g \in Gos \ waiting :
        /\ goal' = [goal EXCEPT ![g] = to]
        /\ position_sp' = [a \in Axes |-> IF to[a] = None THEN position_sp[a] ELSE to[a]]
        /\ speed_sp' = [a \in Axes |-> IF to[a] = None THEN speed_sp[a] ELSE speed[a]]
        /\ waiting' = waiting \cup {g}
        /\ UNCHANGED <<homed, position, relative, use_mm, given_up>>
  BY DEF Go
<1>2. TypeOK'
  <2>1. position_sp' \in [Axes -> Int]
    BY <1>1 DEF IInv, TypeOK
  <2>2. speed_sp' \in [Axes -> Nat]
    BY <1>1 DEF IInv, TypeOK
  <2>3. goal' \in [Gos -> [Axes -> Int \cup {None}]]
    BY <1>1 DEF IInv, TypeOK
  <2> QED BY <1>1, <2>1, <2>2, <2>3 DEF IInv, TypeOK
<1>3. MotorsWaitedFor'
  <2> SUFFICES ASSUME ~given_up, NEW a \in Axes, position[a] # position_sp'[a]
               PROVE  \E h \in waiting' : goal'[h][a] = position_sp'[a]
    BY <1>1 DEF MotorsWaitedFor
  <2>1. CASE to[a] = None
    <3>1. position_sp'[a] = position_sp[a]
      BY <1>1, <2>1
    <3>2. PICK h \in waiting : goal[h][a] = position_sp[a]
      BY <3>1 DEF IInv, MotorsWaitedFor
    <3>3. h # g /\ h \in Gos /\ goal'[h] = goal[h]
      BY <1>1 DEF IInv, TypeOK
    <3> QED BY <1>1, <3>1, <3>2, <3>3
  <2>2. CASE to[a] # None
    <3>1. goal'[g] = to /\ g \in waiting'
      BY <1>1 DEF IInv, TypeOK
    <3>2. position_sp'[a] = to[a]
      BY <1>1, <2>2
    <3> QED BY <3>1, <3>2
  <2> QED BY <2>1, <2>2
<1> QED BY <1>2, <1>3 DEF IInv

\* A coordinate of a command is a whole number of motor steps.
LEMMA StepsInt ==
  ASSUME TypeOK, NEW c \in Coordinates
  PROVE  Fractions(c) \in Int /\ Truncated(Fractions(c), Unit) \in Int
<1>1. Fractions(c) \in Int
  BY DrawingAssumption DEF Fractions, TypeOK
<1> QED BY <1>1, TruncatedInt, DrawingAssumption

LEMMA TargetType ==
  ASSUME TypeOK, NEW move \in Moves
  PROVE  Target(move) \in Targets
<1> SUFFICES ASSUME NEW a \in Axes, move[a] # None
             PROVE  Calc(a, homed[a], position[a], relative,
                         Truncated(Fractions(move[a]), Unit)) \in Int
  BY DEF Target, Targets
<1>1. move[a] \in Coordinates
  BY DEF Moves
<1> QED BY <1>1, StepsInt, HomedEnds, CalcBetween DEF TypeOK

LEMMA CalcSpeedsType ==
  ASSUME TypeOK, NEW move \in Moves
  PROVE  CalcSpeeds(move) \in SpeedSettings
<1> DEFINE moved(a) == (IF move[a] = None THEN 0 ELSE Fractions(move[a]))
                       - (IF relative THEN 0 ELSE Unit * Table(a))
<1>1. ASSUME NEW a \in Axes
      PROVE  moved(a) \in Int
  <2>1. Table(a) \in Int
    BY HomedEnds, ReadOnTable, TravelNat DEF Table
  <2>2. Unit * Table(a) \in Int
    BY <2>1, DrawingAssumption
  <2>3. move[a] # None => Fractions(move[a]) \in Int
    BY StepsInt DEF Moves
  <2> QED BY <2>2, <2>3
<1>2. moved("x") \in Int /\ moved("y") \in Int /\ DefaultSpeed \in Nat
  BY <1>1, DrawingAssumption DEF Axes
<1> HIDE DEF moved
<1>3. CalcSpeeds(move) =
        [a \in Axes |-> IF a = "z" THEN DefaultSpeed
                        ELSE Speeds(moved("x"), moved("y"), DefaultSpeed)[a]]
  BY DEF CalcSpeeds, moved
<1>4. ASSUME NEW a \in Axes
      PROVE  CalcSpeeds(move)[a] \in Nat
  <2>1. CASE a = "z"
    BY <1>2, <1>3, <2>1
  <2>2. CASE a \in {"x", "y"}
    BY <1>2, <1>3, <2>2, SpeedsNat
  <2> QED BY <2>1, <2>2 DEF Axes
<1> QED BY <1>3, <1>4 DEF SpeedSettings

\* The moves of the menu: each moves the motors of some axes at one speed.
LEMMA MenuGoes ==
  ASSUME TypeOK, Menu
  PROVE  \E to \in Targets : MenuGo(to)
<1> USE DEF Targets, Nowhere, Only
<1>1. ASSUME NEW a \in Axes, NEW n \in Int
      PROVE  Only(a, n) \in Targets
  OBVIOUS
<1>2. "x" \in Axes /\ "y" \in Axes /\ "z" \in Axes /\ Small \in Int /\ Big \in Int
  BY DrawingAssumption DEF Axes
<1>3. ASSUME NEW a \in Axes, NEW n \in Int
      PROVE  Raw(homed[a], n) \in Int
  BY HomedEnds, RawBetween
<1>4. ASSUME NEW a \in Axes
      PROVE  Table(a) \in Int
  BY HomedEnds, ReadOnTable, TravelNat DEF Table
<1>5. CASE \E a \in {"x", "y"} : MenuZero(a)
  BY <1>1, <1>2, <1>3, <1>5 DEF MenuZero
<1>6. CASE \E jog \in Jogs : MenuJog(jog[1], jog[2])
  <2>1. PICK jog \in Jogs : MenuJog(jog[1], jog[2])
    BY <1>6
  <2>2. jog[1] \in Axes /\ jog[2] \in Int
    BY <1>2 DEF Jogs
  <2>3. Raw(homed[jog[1]], Table(jog[1]) + jog[2]) \in Int
    BY <1>3, <1>4, <2>2
  <2> QED BY <1>1, <2>1, <2>2, <2>3 DEF MenuJog
<1>7. CASE MenuYMinusBig
  BY <1>1, <1>2, <1>7, HomedEnds DEF MenuYMinusBig
<1>8. CASE \E by \in {Big, - Big} : MenuDiagonal(by)
  <2>1. PICK by \in {Big, - Big} : MenuDiagonal(by)
    BY <1>8
  <2>2. position["y"] + by \in Int /\ position["x"] + Big \in Int
    BY <1>2, HomedEnds
  <2>3. [Only("y", position["y"] + by) EXCEPT !["x"] = position["x"] + Big] \in Targets
    BY <1>2, <2>2
  <2> QED BY <2>1, <2>3 DEF MenuDiagonal
<1>9. CASE MenuToolUp
  BY <1>1, <1>2, <1>3, <1>9 DEF MenuToolUp
<1>10. CASE MenuToolDown
  <2>1. Raw(homed["z"], 0) + Travel(homed["z"]) \in Int
    BY <1>2, <1>3, HomedEnds, TravelNat
  <2> QED BY <1>1, <1>2, <1>10, <2>1 DEF MenuToolDown
<1> QED BY <1>5, <1>6, <1>7, <1>8, <1>9, <1>10 DEF Menu

LEMMA InitEstablishesIInv == Init => IInv
<1> SUFFICES ASSUME Init PROVE IInv
  OBVIOUS
<1>1. ASSUME NEW a \in Axes
      PROVE  homed[a].from \in Int
  BY DrawingAssumption DEF Init
<1>2. TypeOK
  BY <1>1, DrawingAssumption DEF Init, TypeOK, Nowhere
<1>3. MotorsWaitedFor
  BY DEF Init, MotorsWaitedFor
<1> QED BY <1>2, <1>3 DEF IInv

LEMMA NextKeepsIInv == IInv /\ [Next]_vars => IInv'
<1> SUFFICES ASSUME IInv, [Next]_vars PROVE IInv'
  OBVIOUS
<1>1. TypeOK
  BY DEF IInv
<1>2. ASSUME NEW move \in Moves, ServerGo(move)
      PROVE  IInv'
  BY <1>1, <1>2, TargetType, CalcSpeedsType, GoKeepsIInv DEF ServerGo
<1>3. ASSUME NEW mm \in BOOLEAN, ServerUnits(mm)
      PROVE  IInv'
  BY <1>3 DEF ServerUnits, IInv, TypeOK, MotorsWaitedFor
<1>4. ASSUME NEW to_relative \in BOOLEAN, ServerPositioning(to_relative)
      PROVE  IInv'
  BY <1>4 DEF ServerPositioning, IInv, TypeOK, MotorsWaitedFor
<1>5. CASE Menu
  <2>1. PICK to \in Targets : MenuGo(to)
    BY <1>1, <1>5, MenuGoes
  <2>2. [a \in Axes |-> DefaultSpeed] \in SpeedSettings
    BY DrawingAssumption DEF SpeedSettings
  <2> QED BY <2>1, <2>2, GoKeepsIInv DEF MenuGo
<1>6. ASSUME NEW g \in Gos, NEW pressed \in BOOLEAN, GoStep(g, pressed)
      PROVE  IInv'
  <2>1. TypeOK'
    BY <1>1, <1>6 DEF GoStep, TypeOK, Nowhere
  <2>2. MotorsWaitedFor'
    <3> SUFFICES ASSUME ~given_up', NEW a \in Axes, position[a] # position_sp[a]
                 PROVE  \E h \in waiting' : goal'[h][a] = position_sp[a]
      BY <1>6 DEF GoStep, MotorsWaitedFor
    <3>1. ~given_up /\ ~pressed
      BY <1>6 DEF GoStep
    <3>2. PICK h \in waiting : goal[h][a] = position_sp[a]
      BY <3>1 DEF IInv, MotorsWaitedFor
    <3>3. CASE Arrived(g)
      <4>1. position_sp[a] # None
        BY <1>1, DrawingAssumption DEF TypeOK
      <4>2. h # g
        BY <3>2, <3>3, <4>1 DEF Arrived
      <4>3. h \in waiting' /\ goal'[h] = goal[h]
        BY <1>1, <1>6, <3>3, <4>2 DEF GoStep, TypeOK
      <4> QED BY <3>2, <4>3
    <3>4. CASE ~ Arrived(g)
      BY <1>6, <3>1, <3>2, <3>4 DEF GoStep
    <3> QED BY <3>3, <3>4
  <2> QED BY <2>1, <2>2 DEF IInv
<1>7. ASSUME NEW a \in Axes, Move(a)
      PROVE  IInv'
  <2>1. TypeOK'
    BY <1>1, <1>7 DEF Move, TypeOK
  <2>2. MotorsWaitedFor'
    <3> SUFFICES ASSUME ~given_up, NEW b \in Axes, position'[b] # position_sp[b]
                 PROVE  \E h \in waiting : goal[h][b] = position_sp[b]
      BY <1>7 DEF Move, MotorsWaitedFor
    <3>1. position[b] # position_sp[b]
      BY <1>1, <1>7 DEF Move, TypeOK
    <3> QED BY <3>1 DEF IInv, MotorsWaitedFor
  <2> QED BY <2>1, <2>2 DEF IInv
<1>8. CASE UNCHANGED vars
  BY <1>8 DEF vars, IInv, TypeOK, MotorsWaitedFor
<1> QED BY <1>2, <1>3, <1>4, <1>5, <1>6, <1>7, <1>8 DEF Next, Server

(***************************************************************************)
(* However the moves of the menu and of the server overlap, a motor that   *)
(* is on its way is waited for by a GoState that will see it arrive, until *)
(* somebody presses ok.                                                    *)
(***************************************************************************)
THEOREM DrawingInvariant == Spec => []IInv
BY InitEstablishesIInv, NextKeepsIInv, PTL DEF Spec

(***************************************************************************)
(* When no GoState is left and ok was never pressed, the motors rest where *)
(* they were told to go.                                                   *)
(***************************************************************************)
THEOREM PenRestsWhenDone == Spec => []AtRestWhenDone
<1>1. IInv => AtRestWhenDone
  <2> SUFFICES ASSUME IInv, waiting = {}, ~given_up
               PROVE  position = position_sp
    BY DEF AtRestWhenDone
  <2>1. \A a \in Axes : position[a] = position_sp[a]
    BY DEF IInv, MotorsWaitedFor
  <2> QED BY <2>1 DEF IInv, TypeOK
<1> QED BY <1>1, DrawingInvariant, PTL
-----------------------------------------------------------------------------
(***************************************************************************)
(* Where the moves go.                                                     *)
(***************************************************************************)
\* What commands::go leaves in the setpoints.
LEMMA GoSetpoint ==
  ASSUME NEW to, NEW speed, Go(to, speed), NEW a \in Axes, to[a] # None
  PROVE  position_sp'[a] = to[a]
BY DEF Go

LEMMA ServerGoSetpoint ==
  ASSUME TypeOK, NEW move \in Moves, ServerGo(move), NEW a \in Axes, move[a] # None
  PROVE  position_sp'[a] = Calc(a, homed[a], position[a], relative,
                                Truncated(Fractions(move[a]), Unit))
<1> DEFINE steps == Truncated(Fractions(move[a]), Unit)
<1>1. Target(move)[a] = Calc(a, homed[a], position[a], relative, steps)
  BY DEF Target
<1>2. steps \in Int
  BY StepsInt DEF Moves
<1> HIDE DEF steps
<1>3. Target(move)[a] \in Int
  BY <1>1, <1>2, HomedEnds, CalcBetween DEF TypeOK
<1>4. Target(move)[a] # None
  BY <1>3, DrawingAssumption
<1> QED BY <1>1, <1>4, GoSetpoint DEF ServerGo, steps

(***************************************************************************)
(* G-code moves stay between the end stops, on any table.                  *)
(***************************************************************************)
THEOREM GCodeStaysWithinLimits == Spec => GCodeWithinLimits
<1>1. ASSUME TypeOK, NEW move \in Moves, ServerGo(move), NEW a \in Axes, move[a] # None
      PROVE  Between(position_sp'[a], homed[a])
  <2>1. Truncated(Fractions(move[a]), Unit) \in Int
    BY <1>1, StepsInt DEF Moves
  <2>2. homed[a] \in Ends /\ position[a] \in Int /\ relative \in BOOLEAN
    BY <1>1, HomedEnds DEF TypeOK
  <2>3. position_sp'[a] = Calc(a, homed[a], position[a], relative,
                               Truncated(Fractions(move[a]), Unit))
    BY <1>1, ServerGoSetpoint
  <2> QED BY <2>1, <2>2, <2>3, CalcBetween
<1> DEFINE P == \A move \in Moves : ServerGo(move) =>
                  \A a \in Axes : move[a] # None => Between(position_sp'[a], homed[a])
<1>2. IInv => P
  BY <1>1 DEF IInv
<1>3. IInv /\ [Next]_vars => [P]_vars
  BY <1>2
<1>4. Spec => [][P]_vars
  BY <1>3, DrawingInvariant, PTL DEF Spec
<1> QED BY <1>4 DEF GCodeWithinLimits

(***************************************************************************)
(* Relative G-code moves and jogs of x and y go as many table steps as     *)
(* asked for, or to the end stop, on any table.                            *)
(***************************************************************************)
THEOREM MovesGoAsAsked == Spec => StepsAsAsked
<1>1. ASSUME TypeOK, NEW a \in {"x", "y"}, NEW n \in Int,
             position_sp'[a] = Raw(homed[a], Table(a) + n)
      PROVE  SentAlong(a, n)
  <2>1. a \in Axes /\ homed[a] \in Ends /\ position[a] \in Int
    BY <1>1, HomedEnds DEF Axes
  <2>2. Table(a) \in Int
    BY <2>1, ReadOnTable, TravelNat DEF Table
  <2> QED BY <1>1, <2>1, <2>2, ReadOfRaw DEF SentAlong
<1>2. ASSUME TypeOK, relative, NEW move \in Moves, ServerGo(move),
             NEW a \in {"x", "y"}, move[a] # None
      PROVE  SentAlong(a, Truncated(Fractions(move[a]), Unit))
  <2> DEFINE n == Truncated(Fractions(move[a]), Unit)
             sum == Table(a) + n
             top == Travel(homed[a])
  <2>1. a \in Axes /\ homed[a] \in Ends /\ position[a] \in Int
    BY <1>2, HomedEnds DEF Axes
  <2>2. n \in Int
    BY <1>2, StepsInt DEF Moves, Axes
  <2>3. sum \in Int /\ top \in Nat
    BY <2>1, <2>2, ReadOnTable, TravelNat DEF Table
  <2>4. position_sp'[a] = Raw(homed[a], Advanced(a, homed[a], position[a], n))
    BY <1>2, <2>1, ServerGoSetpoint DEF Calc
  <2>5. Advanced(a, homed[a], position[a], n) = DetailClamp(sum, 0, top)
    BY DEF Advanced, Table
  <2> HIDE DEF n, sum, top
  <2>6. Advanced(a, homed[a], position[a], n) = StdClamp(sum, 0, top)
        /\ StdClamp(sum, 0, top) \in Int
    BY <2>3, <2>5, DetailClampIsStdClamp
  <2>7. Read(a, homed[a], position_sp'[a]) = StdClamp(StdClamp(sum, 0, top), 0, top)
    BY <2>1, <2>4, <2>6, ReadOfRaw DEF top
  <2>8. Read(a, homed[a], position_sp'[a]) = StdClamp(sum, 0, top)
    BY <2>3, <2>7, ClampTwice
  <2> QED BY <2>8 DEF SentAlong, n, sum, top
<1>3. ASSUME TypeOK, NEW jog \in Jogs, MenuJog(jog[1], jog[2])
      PROVE  SentAlong(jog[1], jog[2])
  <2>1. jog[1] \in {"x", "y"} /\ jog[2] \in Int
    BY DrawingAssumption DEF Jogs
  <2>2. PICK a \in {"x", "y"}, n \in Int : a = jog[1] /\ n = jog[2]
    BY <2>1
  <2> DEFINE to == Only(a, Raw(homed[a], Table(a) + n))
  <2>3. a \in Axes /\ Table(a) \in Int
    <3>1. a \in Axes
      BY DEF Axes
    <3>2. homed[a] \in Ends /\ position[a] \in Int
      BY <1>3, <3>1, HomedEnds
    <3> QED BY <3>1, <3>2, ReadOnTable, TravelNat DEF Table
  <2>4. to[a] = Raw(homed[a], Table(a) + n) /\ to[a] \in Int
    BY <1>3, <2>3, HomedEnds, RawBetween DEF Only, Nowhere
  <2>5. Go(to, [b \in Axes |-> DefaultSpeed])
    BY <1>3, <2>2 DEF MenuJog, MenuGo
  <2> HIDE DEF to
  <2>6. position_sp'[a] = to[a]
    BY <2>3, <2>4, <2>5, GoSetpoint, DrawingAssumption
  <2> QED BY <1>1, <1>3, <2>2, <2>4, <2>6
<1> DEFINE P == /\ \A move \in Moves : relative /\ ServerGo(move) =>
                     \A a \in {"x", "y"} : move[a] # None =>
                       SentAlong(a, Truncated(Fractions(move[a]), Unit))
                /\ \A jog \in Jogs : MenuJog(jog[1], jog[2]) => SentAlong(jog[1], jog[2])
<1>4. IInv => P
  BY <1>2, <1>3 DEF IInv
<1>5. IInv /\ [Next]_vars => [P]_vars
  BY <1>4
<1>6. Spec => [][P]_vars
  BY <1>5, DrawingInvariant, PTL DEF Spec
<1> QED BY <1>6 DEF StepsAsAsked
=============================================================================
