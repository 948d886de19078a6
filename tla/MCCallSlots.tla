----------------------------- MODULE MCCallSlots -----------------------------
(***************************************************************************)
(* CallSlots for TLC.  The .cfg files give the constants their values.      *)
(***************************************************************************)
EXTENDS CallSlots, TLC

CONSTANTS o1, o2, i1, i2   \* calls to dial and calls that come in

=============================================================================
