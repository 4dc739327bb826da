------------------------------- MODULE MCDemo -------------------------------
(* An instance of Demo for TLC: an input port, an output port, and as many   *)
(* files as it takes to run out of them.                                     *)
EXTENDS Demo
=============================================================================
