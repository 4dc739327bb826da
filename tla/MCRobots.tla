------------------------------ MODULE MCRobots ------------------------------
(* An instance of Robots for TLC: no distance, two that are near, one that   *)
(* is still too near to go on, and one that is free; the limits of the code  *)
(* (0, 20 and 40) lie between them or on them.                               *)
EXTENDS Robots

MCDistances == {0, 10, 19, 20, 40, 41}
=============================================================================
