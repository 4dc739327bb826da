--------------------------- MODULE RemoteControl ----------------------------
(***************************************************************************)
(* remote_control (ev3dev.cpp): what a value of the infrared sensor says   *)
(* of the buttons of the remote control, and the callbacks a change of it  *)
(* leads to.  The sensor knows the pairs below and no other: a button that *)
(* is held while a third one is pressed may be reported as released.       *)
(***************************************************************************)
EXTENDS Sequences, Naturals

Buttons == {"red_up", "red_down", "blue_up", "blue_down", "beacon"}

Values == 0 .. 11

\* remote_control::_state, as the set of its bits.
StateOf(value) ==
  CASE value = 1 -> {"red_up"}
    [] value = 2 -> {"red_down"}
    [] value = 3 -> {"blue_up"}
    [] value = 4 -> {"blue_down"}
    [] value = 5 -> {"red_up", "blue_up"}
    [] value = 6 -> {"red_up", "blue_down"}
    [] value = 7 -> {"red_down", "blue_up"}
    [] value = 8 -> {"red_down", "blue_down"}
    [] value = 9 -> {"beacon"}
    [] value = 10 -> {"red_up", "red_down"}
    [] value = 11 -> {"blue_up", "blue_down"}
    [] OTHER -> {}

\* Mutant of Changed: only presses are told.
ChangedToPressed(b, old, new) == b \in new \ old

Changed(b, old, new) == (b \in new) # (b \in old)

CallOf(b, old, new) == IF Changed(b, old, new) THEN <<<<"call", b, b \in new>>>> ELSE <<>>

\* The callbacks of the buttons that changed, in the order of the buttons.
Calls(old, new) ==
  CallOf("red_up", old, new) \o CallOf("red_down", old, new) \o CallOf("blue_up", old, new) \o
  CallOf("blue_down", old, new) \o CallOf("beacon", old, new)
=============================================================================
