----------------------------- MODULE CallPromise -----------------------------
(***************************************************************************)
(* What `SipHandle` promises of the calls its client places: a call that    *)
(* was asked for is settled at most once.  It comes up at most once, and a  *)
(* call that is over is never heard of again.  This is what the client's    *)
(* own bookkeeping relies on: the slot of a call is made by CallConnected   *)
(* and freed by the one CallEnded or CallFailed that follows.               *)
(***************************************************************************)
CONSTANT Calls

VARIABLE promise   \* call -> how far it has come

Progress == {"idle", "pending", "up", "over"}

Init == promise = [c \in Calls |-> "idle"]

Ask(c) ==
    /\ promise[c] = "idle"
    /\ promise' = [promise EXCEPT ![c] = "pending"]

ComesUp(c) ==
    /\ promise[c] = "pending"
    /\ promise' = [promise EXCEPT ![c] = "up"]

(* Several calls may end at once: the transport they share fails.           *)
End(S) ==
    /\ S # {}
    /\ promise' = [c \in Calls |-> IF c \in S THEN "over" ELSE promise[c]]

Next ==
    \/ \E c \in Calls: Ask(c) \/ ComesUp(c)
    \/ \E S \in SUBSET Calls: End(S)

Spec == Init /\ [][Next]_promise

=============================================================================
