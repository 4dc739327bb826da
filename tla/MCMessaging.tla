---------------------------- MODULE MCMessaging -----------------------------
(***************************************************************************)
(* Small instances of Messaging for TLC.                                   *)
(***************************************************************************)
EXTENDS Messaging, TLC

CONSTANTS c1, c2

TwoClients == {c1, c2}

\* One line of each client may have a response that is too long, and one not.
SomeLong == {[from |-> c1, n |-> 1], [from |-> c2, n |-> 2]}

AllFaults == {"exit", "crash", "kill", "ok"}
=============================================================================
