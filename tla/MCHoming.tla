------------------------------ MODULE MCHoming ------------------------------
(***************************************************************************)
(* Small instances of Homing for TLC: homings are model values.            *)
(***************************************************************************)
EXTENDS Homing, TLC

CONSTANTS m1, s1

OneMenu   == {m1}
OneServer == {s1}
=============================================================================
