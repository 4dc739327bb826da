----------------------------- MODULE MCDrawing ------------------------------
(***************************************************************************)
(* Small instances of Drawing for TLC.                                     *)
(***************************************************************************)
EXTENDS Drawing, TLC

CONSTANTS g1, g2

OneGo == {g1}
TwoGos == {g1, g2}

Axis(from, to, rest) == [from |-> from, to |-> to, rest |-> rest]

\* The x motor counts down from left to right, the others count up.
Reversed == [x |-> Axis(1, -1, -2), y |-> Axis(0, 1, 1), z |-> Axis(0, 1, 1)]

\* A table so short that the margins homing leaves at its ends cross.
Crossed == [x |-> Axis(0, 0, -1), y |-> Axis(1, 0, 1), z |-> Axis(0, 1, 1)]

Plain == {Reversed}
Tables == {Reversed, Crossed}

One == {3}
Signed == {-3, 2}
Whole == {0, 1}

AnyGo == Permutations(TwoGos)

\* The table of driver_test.cpp, "calculate_speeds() for relative speeds".
ASSUME SpeedsAsTested ==
  /\ Speeds(0, 0, 200) = [x |-> 0, y |-> 0]
  /\ Speeds(123, 0, 200) = [x |-> 200, y |-> 0]
  /\ Speeds(0, -123, 200) = [x |-> 0, y |-> 200]
  /\ Speeds(1, 1, 200) = [x |-> 141, y |-> 141]
  /\ Speeds(-1, -1, 200) = [x |-> 141, y |-> 141]
  /\ Speeds(6, -1, 200) = [x |-> 33, y |-> 5]
=============================================================================
