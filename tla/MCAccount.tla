------------------------------ MODULE MCAccount ------------------------------
(* Instances of Account for TLC.                                            *)
EXTENDS Account, TLC

MCSubIds == 1..2
MCTrouble == [presence |-> 1, mwi |-> 0, publish |-> 1, message |-> 2]

=============================================================================
