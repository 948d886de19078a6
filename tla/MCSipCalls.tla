----------------------------- MODULE MCSipCalls ------------------------------
(***************************************************************************)
(* SipCalls for TLC.  The .cfg files give the constants their values.       *)
(***************************************************************************)
EXTENDS SipCalls, TLC

CONSTANTS o1, i1   \* an outgoing and an incoming call

=============================================================================
