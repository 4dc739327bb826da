----------------------------- MODULE Positions ------------------------------
(***************************************************************************)
(* namespace pos of plotter/driver.cpp: motor positions (raw_pos) against  *)
(* positions on the table (normalized_pos), which count from the first end *)
(* stop towards the second one whichever way the motor turns.  An axis is  *)
(* a record of raw positions: from is x_min, y_min or tool_up_pos, to is   *)
(* x_max, y_max or tool_down_pos, rest is where the motor stalled and was  *)
(* left, a margin away from to.                                            *)
(*                                                                         *)
(* The positions are C++ ints; a few thousand motor steps is all there is, *)
(* so their width is left out.                                             *)
(***************************************************************************)
EXTENDS Integers, FiniteSets

Abs(n) == IF n < 0 THEN - n ELSE n

(***************************************************************************)
(* std::clamp, defined for lo <= hi.                                       *)
(***************************************************************************)
StdClamp(val, lo, hi) == IF val < lo THEN lo ELSE IF hi < val THEN hi ELSE val

(***************************************************************************)
(* pos::detail::clamp accepts its limits in either order.                  *)
(***************************************************************************)
DetailClamp(min, max, val) ==
  IF min < max THEN StdClamp(val, min, max) ELSE StdClamp(val, max, min)

\* Mutant of ToRaw: the direction of the axis is not looked at.
ToRawOneWay(min, max, val) ==
  IF min < max THEN StdClamp(min + val, min, max) ELSE StdClamp(min + val, max, min)

\* Mutant of ToRaw: the result is not clamped.
ToRawFree(min, max, val) == IF min < max THEN min + val ELSE min - val

ToRaw(min, max, val) ==
  IF min < max THEN StdClamp(min + val, min, max) ELSE StdClamp(min - val, max, min)

ToNorm(min, max, val) ==
  IF min < max THEN StdClamp(val - min, 0, max - min) ELSE StdClamp(min - val, 0, min - max)

(***************************************************************************)
(* pos::x, pos::y, pos::z; pos::x_travel, pos::y_travel, pos::z_travel.    *)
(***************************************************************************)
Raw(axis, val) == ToRaw(axis.from, axis.to, val)

Travel(axis) == Abs(axis.from - axis.to)

(***************************************************************************)
(* pos::read_x, pos::read_y count from the end stop pos::x, pos::y count   *)
(* from; pos::read_z counts from the other one.                            *)
(***************************************************************************)
Read(a, axis, raw) ==
  IF a = "z" THEN ToNorm(axis.to, axis.from, raw) ELSE ToNorm(axis.from, axis.to, raw)

(***************************************************************************)
(* pos::advanced_x, pos::advanced_y, pos::advanced_z for normalized_pos:   *)
(* the value and the limits are passed to detail::clamp in another order   *)
(* than it declares them.                                                  *)
(***************************************************************************)
Advanced(a, axis, raw, by) == DetailClamp(Read(a, axis, raw) + by, 0, Travel(axis))

(***************************************************************************)
(* calc_x, calc_y, calc_z of main.cpp.  A coordinate divided by its scale  *)
(* is a number of 1/unit motor steps; static_cast<int> drops the fraction. *)
(***************************************************************************)
Truncated(n, unit) == IF n >= 0 THEN n \div unit ELSE - ((- n) \div unit)

Calc(a, axis, raw, relative, steps) ==
  Raw(axis, IF relative THEN Advanced(a, axis, raw, steps) ELSE steps)

(***************************************************************************)
(* std::round of the square root of num / den, which bound is not below.   *)
(***************************************************************************)
RoundedRoot(num, den, bound) ==
  Cardinality({n \in 1..bound : (2 * n - 1) * (2 * n - 1) * den <= 4 * num})

(***************************************************************************)
(* pos::calc_speeds, for a move of x and y (in any unit).  Both speeds are *)
(* s/sqrt(1 + (x/y)^2), that of y times y/x.                               *)
(***************************************************************************)
Speeds(x, y, s) ==
  LET xx == x * x
      yy == y * y
      x_speed == RoundedRoot(s * s * yy, xx + yy, s * Abs(y))
      y_speed == RoundedRoot(s * s * yy * yy, xx * (xx + yy), s * Abs(y))
  IN  IF x = 0 /\ y = 0 THEN [x |-> 0, y |-> 0]
      ELSE IF x = 0 THEN [x |-> 0, y |-> s]
      ELSE IF y = 0 THEN [x |-> s, y |-> 0]
      ELSE [x |-> x_speed, y |-> y_speed]
=============================================================================
