------------------------------ MODULE MCDevices -----------------------------
(***************************************************************************)
(* Small instances of Devices for TLC.                                     *)
(***************************************************************************)
EXTENDS Devices, TLC

CONSTANTS o1, d1, d2, address, driver_name, speed

OneObject == {o1}
TwoDirs == {d1, d2}
Address == {address}
AddressAndDriver == {address, driver_name}
Speed == {speed}
AnyDir == Permutations(TwoDirs)
=============================================================================
