-------------------------------- MODULE Zrtp --------------------------------
(***************************************************************************)
(* The ZRTP handshake of one call: `ZrtpEngine` with the retransmission of *)
(* `ZrtpRuntime` at each of its two ends.  The end that sent the INVITE is *)
(* the Initiator, the other the Responder.                                 *)
(*                                                                         *)
(* Every start of the media makes a new engine, with a new hash chain and  *)
(* a new key pair.  An engine is named by its end and a number; a hash     *)
(* chain value, a MAC or a Diffie-Hellman share is what it gives away: the *)
(* engine it was made by and, for `hvi` and the keys, the two engines it   *)
(* binds.  A check of one of them compares those names.                    *)
(*                                                                         *)
(* The messages travel by UDP: `wire` holds what may still arrive.  A      *)
(* message stays there when it is delivered, so that it may come again, or *)
(* late, and leaves it when it is lost.                                     *)
(***************************************************************************)
EXTENDS Integers

CONSTANTS
    MaxStarts,    \* bound: engines made at each end
    MaxAttempts,  \* MAX_ATTEMPTS, the times a message is sent again
    MaxLosses     \* bound: messages lost

ASSUME ZrtpAssumption ==
    MaxStarts \in Nat /\ MaxAttempts \in Nat /\ MaxLosses \in Nat

VARIABLES
    hs,      \* end -> its ZrtpEngine and ZrtpRuntime
    wire,    \* messages that may arrive
    losses   \* messages lost so far

zvars == <<hs, wire, losses>>

-----------------------------------------------------------------------------
Ends == {"caller", "callee"}
Peer(e) == IF e = "caller" THEN "callee" ELSE "caller"
Initiator == "caller"
Responder == "callee"

(* Off: there is no engine.  Discovery and CommitReceived are never seen:  *)
(* the handler that enters them leaves them.                               *)
HandshakeState ==
    {"Off", "HelloSent", "HelloReceived", "CommitSent", "DhPart1Sent", "DhPart2Sent",
     "Confirm1Sent", "Confirm2Sent", "Secure", "Failed"}

(* The Initiator's and the Responder's engine that something binds.        *)
Pair   == Nat \X Nat
NoPair == <<0, 0>>

(* `id` is the sender's engine; `binds` is the `hvi` of a Commit and the   *)
(* MAC key of a Confirm.  A Conf2Ack says nothing.                         *)
Message ==
    [type: {"Hello", "Commit", "DhPart1", "DhPart2", "Confirm1", "Confirm2", "Conf2Ack"},
     from: Ends, id: Nat, binds: Pair]
NoMessage == [type |-> "none", from |-> "caller", id |-> 0, binds |-> NoPair]

Hello(e, id)       == [type |-> "Hello", from |-> e, id |-> id, binds |-> NoPair]
Commit(pair)       == [type |-> "Commit", from |-> Initiator, id |-> pair[1], binds |-> pair]
DhPart1(id)        == [type |-> "DhPart1", from |-> Responder, id |-> id, binds |-> NoPair]
DhPart2(id)        == [type |-> "DhPart2", from |-> Initiator, id |-> id, binds |-> NoPair]
Confirm1(pair)     == [type |-> "Confirm1", from |-> Responder, id |-> pair[2], binds |-> pair]
Confirm2(pair)     == [type |-> "Confirm2", from |-> Initiator, id |-> pair[1], binds |-> pair]
Conf2Ack           == [type |-> "Conf2Ack", from |-> Responder, id |-> 0, binds |-> NoPair]

(* `id` numbers the engine, `peer` is the remote_hello, `commit` the       *)
(* Commit sent or held, `key` what finish_key_agreement derived: the SAS   *)
(* and all the keys.  `pending` and `tries` are pending_resend.            *)
Engine ==
    [phase: HandshakeState, id: Nat, peer: Nat, commit: Pair, key: Pair,
     pending: Message \cup {NoMessage}, tries: Nat]
NoEngine(id) ==
    [phase |-> "Off", id |-> id, peer |-> 0, commit |-> NoPair, key |-> NoPair,
     pending |-> NoMessage, tries |-> 0]

Running(e) == hs[e].phase # "Off"

-----------------------------------------------------------------------------
(* Sending.  A message that is sent is sent again until the next one is,   *)
(* or until SecureOn: so a Conf2Ack, with which SecureOn comes, never is.  *)
Send(e, eng, m) ==
    /\ hs' = [hs EXCEPT ![e] = [eng EXCEPT !.pending = m, !.tries = 0]]
    /\ wire' = wire \cup {m}
    /\ UNCHANGED losses

Become(e, eng) ==
    /\ hs' = [hs EXCEPT ![e] = eng]
    /\ UNCHANGED <<wire, losses>>

(* An Err of the engine is swallowed: the last message is still sent.      *)
Fail(e) == Become(e, [hs[e] EXCEPT !.phase = "Failed"])

(* SecureOn.                                                               *)
Secured(eng) == [eng EXCEPT !.phase = "Secure", !.pending = NoMessage, !.tries = 0]

-----------------------------------------------------------------------------
(* The engine of an end.                                                   *)

Start(e) ==
    /\ ~Running(e) /\ hs[e].id < MaxStarts
    /\ LET id == hs[e].id + 1
       IN  Send(e, [NoEngine(id) EXCEPT !.phase = "HelloSent"], Hello(e, id))

(* The task that owns the engine ends.                                     *)
Stop(e) == Running(e) /\ Become(e, NoEngine(hs[e].id))

(* Each handler takes its message in one state of one role; anything else  *)
(* is ignored.                                                             *)
Takes(e, m, role, type, phase) ==
    e = role /\ m \in wire /\ m.from = Peer(e) /\ m.type = type /\ hs[e].phase = phase

OnHello(e, m) ==
    /\ Takes(e, m, e, "Hello", "HelloSent")
    /\ LET held == [hs[e] EXCEPT !.phase = "HelloReceived", !.peer = m.id]
           pair == <<held.id, m.id>>
       IN  IF e = Initiator
           THEN Send(e, [held EXCEPT !.phase = "CommitSent", !.commit = pair], Commit(pair))
           ELSE Become(e, held)

(* One hash takes a Commit's h2 to the h3 of the Hello of the same engine. *)
OnCommit(e, m) ==
    /\ Takes(e, m, Responder, "Commit", "HelloReceived")
    /\ IF m.id = hs[e].peer
       THEN Send(e, [hs[e] EXCEPT !.phase = "DhPart1Sent", !.commit = m.binds],
                 DhPart1(hs[e].id))
       ELSE Fail(e)

(* The Initiator derives the keys before it sends its DHPart2.             *)
OnDhPart1(e, m) ==
    /\ Takes(e, m, Initiator, "DhPart1", "CommitSent")
    /\ IF m.id = hs[e].peer
       THEN Send(e, [hs[e] EXCEPT !.phase = "DhPart2Sent", !.key = <<hs[e].id, m.id>>],
                 DhPart2(hs[e].id))
       ELSE Fail(e)

(* The DHPart2 must be of the engine that sent the Commit, and the one its *)
(* hvi was computed for, together with our own Hello.                      *)
GoodDhPart2NoHvi(eng, m) == m.id = eng.commit[1]    \* mutant: the hvi is not compared
GoodDhPart2(eng, m) == m.id = eng.commit[1] /\ eng.commit = <<m.id, eng.id>>

OnDhPart2(e, m) ==
    /\ Takes(e, m, Responder, "DhPart2", "DhPart1Sent")
    /\ IF GoodDhPart2(hs[e], m)
       THEN LET pair == <<m.id, hs[e].id>>
            IN  Send(e, [hs[e] EXCEPT !.phase = "Confirm1Sent", !.key = pair], Confirm1(pair))
       ELSE Fail(e)

(* The MAC of a Confirm is made with the keys, and its H0 leads to the H1  *)
(* of the peer's DHPart.                                                   *)
GoodConfirm1Any(eng, m) == TRUE    \* mutant: the MAC is not verified
GoodConfirm1(eng, m) == m.binds = eng.key /\ m.id = eng.key[2]
GoodConfirm2(eng, m) == m.binds = eng.key /\ m.id = eng.key[1]

OnConfirm1(e, m) ==
    /\ Takes(e, m, Initiator, "Confirm1", "DhPart2Sent")
    /\ IF GoodConfirm1(hs[e], m)
       THEN Send(e, [hs[e] EXCEPT !.phase = "Confirm2Sent"], Confirm2(hs[e].key))
       ELSE Fail(e)

OnConfirm2Quiet(e, m) ==    \* mutant: no Conf2Ack is sent
    /\ Takes(e, m, Responder, "Confirm2", "Confirm1Sent")
    /\ Become(e, IF GoodConfirm2(hs[e], m) THEN Secured(hs[e])
                 ELSE [hs[e] EXCEPT !.phase = "Failed"])

OnConfirm2(e, m) ==
    /\ Takes(e, m, Responder, "Confirm2", "Confirm1Sent")
    /\ IF GoodConfirm2(hs[e], m)
       THEN /\ hs' = [hs EXCEPT ![e] = Secured(hs[e])]
            /\ wire' = wire \cup {Conf2Ack}
            /\ UNCHANGED losses
       ELSE Fail(e)

OnConf2Ack(e, m) ==
    /\ Takes(e, m, Initiator, "Conf2Ack", "Confirm2Sent")
    /\ Become(e, Secured(hs[e]))

(* ZrtpEngine::receive, of a message that is not ignored.                  *)
Receive(e, m) ==
    \/ OnHello(e, m)
    \/ OnCommit(e, m)
    \/ OnDhPart1(e, m)
    \/ OnDhPart2(e, m)
    \/ OnConfirm1(e, m)
    \/ OnConfirm2(e, m)
    \/ OnConf2Ack(e, m)

(* ZrtpRuntime::tick once next_resend_at is past.                          *)
Tick(e) ==
    /\ hs[e].pending # NoMessage
    /\ IF hs[e].tries >= MaxAttempts
       THEN Become(e, [hs[e] EXCEPT !.pending = NoMessage, !.tries = 0])
       ELSE /\ hs' = [hs EXCEPT ![e].tries = @ + 1]
            /\ wire' = wire \cup {hs[e].pending}
            /\ UNCHANGED losses

(* The network loses a message.                                            *)
Lose(m) ==
    /\ losses < MaxLosses
    /\ losses' = losses + 1
    /\ wire' = wire \ {m}
    /\ UNCHANGED hs

-----------------------------------------------------------------------------
ZInit ==
    /\ hs = [e \in Ends |-> NoEngine(0)]
    /\ wire = {}
    /\ losses = 0

Handshake(e) == Tick(e) \/ \E m \in wire : Receive(e, m)

ZNext ==
    \/ \E e \in Ends : Start(e) \/ Stop(e) \/ Handshake(e)
    \/ \E m \in wire : Lose(m)

ZSpec == ZInit /\ [][ZNext]_zvars

-----------------------------------------------------------------------------
(* Properties *)

(* The values the state may have: `hs` is one engine for each end and only *)
(* messages the engines write are on the wire.                             *)
ZTypeOK ==
    /\ hs \in [Ends -> Engine]
    /\ wire \subseteq Message
    /\ losses \in 0..MaxLosses

(* The two users compare their SAS: when the callee's keys are for the     *)
(* engine the caller has now, the caller has derived the very same keys,   *)
(* whatever Hellos and Commits of earlier engines were still about (the    *)
(* checks of hash chain and hvi in on_commit, on_dhpart1 and on_dhpart2).  *)
KeysAgree ==
    LET key == hs["callee"].key
    IN  key # NoPair /\ key[1] = hs["caller"].id /\ Running("caller")
            => hs["caller"].key = key

(* An end that says Secure is not alone: the engine it has keys with has   *)
(* the same keys, and knows that the call is to be encrypted (the Confirm  *)
(* checks of on_confirm1 and on_confirm2).                                 *)
SecureIsShared ==
    /\ LET key == hs["caller"].key
       IN  hs["caller"].phase = "Secure" /\ key[2] = hs["callee"].id /\ Running("callee")
               => hs["callee"].key = key
    /\ LET key == hs["callee"].key
       IN  hs["callee"].phase = "Secure" /\ key[1] = hs["caller"].id /\ Running("caller")
               => hs["caller"].key = key /\ hs["caller"].phase \in {"Confirm2Sent", "Secure"}

(* Two engines that are both running become Secure, unless a message is    *)
(* lost or one of them is stopped or made anew: the messages of `receive`  *)
(* lead on whatever their order and however often they come.               *)
BothFresh == \A e \in Ends : Running(e) /\ hs[e].id = 1
SecureUnlessLost ==
    BothFresh ~> \/ \A e \in Ends : hs[e].phase = "Secure"
                 \/ losses > 0
                 \/ ~BothFresh

=============================================================================
