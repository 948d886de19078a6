----------------------------- MODULE ZrtpProofs -----------------------------
(***************************************************************************)
(* Proofs about the ZRTP handshake, for any number of engines, repetitions *)
(* and losses: the type invariant, that the keys two engines derive agree, *)
(* and that an end that says Secure is not alone.                          *)
(*                                                                         *)
(* `Agreed` relates the caller's engine i and the callee's engine r to     *)
(* whatever may still arrive.  A message of an engine that is no longer    *)
(* there has a smaller number, so it constrains nobody; a message of the   *)
(* present engine says how far that engine has got.                        *)
(***************************************************************************)
EXTENDS Zrtp, TLAPS

(* What may arrive now or once it is sent again.                           *)
Sent == wire \cup {hs["caller"].pending, hs["callee"].pending}

Confirmed == {"Confirm2Sent", "Secure"}

(* How an engine's fields go together.                                     *)
CallerOk(i) ==
    /\ i.phase # "Off" => i.id > 0
    /\ i.phase \in {"Off", "HelloSent"} => i.commit = NoPair
    /\ i.phase \in {"Off", "HelloSent", "CommitSent"} => i.key = NoPair
    /\ i.phase = "CommitSent" => i.commit = <<i.id, i.peer>>
    /\ i.phase \in {"DhPart2Sent"} \cup Confirmed => i.key = <<i.id, i.peer>>
    /\ i.key # NoPair => i.key = <<i.id, i.peer>> /\ i.commit = i.key

CalleeOk(r) ==
    /\ r.phase # "Off" => r.id > 0
    /\ r.phase \in {"Off", "HelloSent", "HelloReceived", "DhPart1Sent"} => r.key = NoPair
    /\ r.phase \in {"Off", "HelloSent", "HelloReceived"} => r.commit = NoPair

(* What a message that may arrive says of the engines there are.           *)
GoodMsg(m, i, r) ==
    /\ m.type = "Hello" /\ m.from = "caller" => m.id <= i.id
    /\ m.type = "Hello" /\ m.from = "callee" => m.id <= r.id
    /\ m.type = "Commit" =>
           /\ m.id <= i.id /\ m.binds[1] = m.id
           /\ m.id = i.id /\ i.phase # "Off" => m.binds = i.commit
    /\ m.type = "DhPart2" =>
           /\ m.id <= i.id
           /\ m.id = i.id /\ i.phase # "Off" => i.key # NoPair
    /\ m.type = "Confirm1" =>
           /\ m.id <= r.id /\ m.binds[2] = m.id
           /\ m.id = r.id /\ r.phase # "Off" => r.key = m.binds
    /\ m.type = "Confirm2" =>
           /\ m.id <= i.id
           /\ m.id = i.id /\ i.phase # "Off" => i.phase \in Confirmed

(* What each engine knows of the other.                                    *)
Across(i, r) ==
    /\ i.peer <= r.id
    /\ r.commit[1] <= i.id /\ r.key[1] <= i.id
    /\ r.commit # NoPair /\ r.commit[1] = i.id /\ i.phase # "Off" => i.commit = r.commit
    /\ r.key # NoPair /\ r.key[1] = i.id /\ i.phase # "Off" => i.key = r.key
    /\ i.phase \in Confirmed /\ i.key[2] = r.id /\ r.phase # "Off" => r.key = i.key
    /\ r.phase = "Secure" /\ r.key[1] = i.id /\ i.phase # "Off" => i.phase \in Confirmed

Agreed(i, r, S) ==
    /\ CallerOk(i)
    /\ CalleeOk(r)
    /\ Across(i, r)
    /\ \A m \in S : GoodMsg(m, i, r)

ZInv == ZTypeOK /\ Agreed(hs["caller"], hs["callee"], Sent)

-----------------------------------------------------------------------------
(* Two engines of which one changes: what the other and the messages need  *)
(* of the change, whatever the handler.                                    *)

(* A caller that keeps its engine and its key, or has had none before, and *)
(* goes on without leaving Confirmed, breaks no message and nothing the    *)
(* callee knows.                                                           *)
LEMMA CallerGoesOn ==
    ASSUME NEW i \in Engine, NEW j \in Engine, NEW r \in Engine, NEW S \in SUBSET (Message \cup {NoMessage}),
           Agreed(i, r, S), CallerOk(j),
           i.phase # "Off", j.phase # "Off", j.id = i.id, j.peer <= r.id,
           i.commit # NoPair => j.commit = i.commit,
           i.key # NoPair => j.key = i.key,
           i.phase \in Confirmed => j.phase \in Confirmed,
           j.phase \in Confirmed /\ j.key[2] = r.id /\ r.phase # "Off" => r.key = j.key
    PROVE  Agreed(j, r, S)
<1>1. Across(j, r)
  BY DEF Agreed, Across, CallerOk, CalleeOk, Engine, NoPair, Pair, Confirmed
<1>2. ASSUME NEW m \in S PROVE GoodMsg(m, j, r)
  <2>1. GoodMsg(m, i, r) /\ m \in Message \cup {NoMessage}
    BY <1>2 DEF Agreed
  <2>2. m.type = "Commit" /\ m.id = j.id => m.binds = j.commit
    BY <2>1 DEF GoodMsg, Agreed, CallerOk, Engine, NoPair, Pair, Message, NoMessage
  <2> QED
    BY <2>1, <2>2 DEF GoodMsg, Engine, Pair, NoPair
<1> QED
  BY <1>1, <1>2 DEF Agreed

(* The same of a callee.                                                   *)
LEMMA CalleeGoesOn ==
    ASSUME NEW i \in Engine, NEW r \in Engine, NEW s \in Engine, NEW S \in SUBSET (Message \cup {NoMessage}),
           Agreed(i, r, S), CalleeOk(s),
           r.phase # "Off", s.phase # "Off", s.id = r.id,
           r.key # NoPair => s.key = r.key,
           s.commit[1] <= i.id, s.key[1] <= i.id,
           s.commit # NoPair /\ s.commit[1] = i.id /\ i.phase # "Off" => i.commit = s.commit,
           s.key # NoPair /\ s.key[1] = i.id /\ i.phase # "Off" => i.key = s.key,
           s.phase = "Secure" /\ s.key[1] = i.id /\ i.phase # "Off" => i.phase \in Confirmed
    PROVE  Agreed(i, s, S)
<1>1. Across(i, s)
  BY DEF Agreed, Across, CallerOk, CalleeOk, Engine, NoPair, Pair, Confirmed
<1>2. ASSUME NEW m \in S PROVE GoodMsg(m, i, s)
  <2>1. GoodMsg(m, i, r) /\ m \in Message \cup {NoMessage}
    BY <1>2 DEF Agreed
  <2>2. m.type = "Confirm1" /\ m.id = s.id => s.key = m.binds
    BY <2>1 DEF GoodMsg, Agreed, CalleeOk, Engine, NoPair, Pair, Message, NoMessage
  <2> QED
    BY <2>1, <2>2 DEF GoodMsg, Engine, Pair, NoPair
<1> QED
  BY <1>1, <1>2 DEF Agreed

(* An end whose engine is dropped, or new: nothing is said of it yet.      *)
LEMMA CallerAnew ==
    ASSUME NEW i \in Engine, NEW j \in Engine, NEW r \in Engine, NEW S \in SUBSET (Message \cup {NoMessage}),
           Agreed(i, r, S), j.commit = NoPair, j.key = NoPair, j.peer = 0,
           \/ j.phase = "Off" /\ j.id = i.id
           \/ j.phase = "HelloSent" /\ j.id = i.id + 1
    PROVE  Agreed(j, r, S)
<1>1. CallerOk(j) /\ Across(j, r)
  BY DEF Agreed, Across, CallerOk, CalleeOk, Engine, NoPair, Pair, Confirmed
<1>2. ASSUME NEW m \in S PROVE GoodMsg(m, j, r)
  <2>1. GoodMsg(m, i, r) /\ m \in Message \cup {NoMessage}
    BY <1>2 DEF Agreed
  <2> QED
    BY <2>1 DEF GoodMsg, Engine, Message, NoMessage
<1> QED
  BY <1>1, <1>2 DEF Agreed

LEMMA CalleeAnew ==
    ASSUME NEW i \in Engine, NEW r \in Engine, NEW s \in Engine, NEW S \in SUBSET (Message \cup {NoMessage}),
           Agreed(i, r, S), s.commit = NoPair, s.key = NoPair,
           \/ s.phase = "Off" /\ s.id = r.id
           \/ s.phase = "HelloSent" /\ s.id = r.id + 1
    PROVE  Agreed(i, s, S)
<1>1. CalleeOk(s) /\ Across(i, s)
  BY DEF Agreed, Across, CallerOk, CalleeOk, Engine, NoPair, Pair, Confirmed
<1>2. ASSUME NEW m \in S PROVE GoodMsg(m, i, s)
  <2>1. GoodMsg(m, i, r) /\ m \in Message \cup {NoMessage}
    BY <1>2 DEF Agreed
  <2> QED
    BY <2>1 DEF GoodMsg, Engine, Message, NoMessage
<1> QED
  BY <1>1, <1>2 DEF Agreed

(* One message more, and any fewer.                                        *)
LEMMA MoreSent ==
    ASSUME NEW i, NEW r, NEW S, NEW T, NEW x,
           Agreed(i, r, S), T \subseteq S \cup {x, NoMessage}, GoodMsg(x, i, r)
    PROVE  Agreed(i, r, T)
<1>1. GoodMsg(NoMessage, i, r)
  BY DEF GoodMsg, NoMessage
<1> QED
  BY <1>1 DEF Agreed

-----------------------------------------------------------------------------
(* What sending, and becoming, do to the state.                            *)

LEMMA PeerFacts == \A e \in Ends : Peer(e) \in Ends /\ Peer(e) # e /\ Peer(Peer(e)) = e
BY DEF Ends, Peer

LEMMA SendStep ==
    ASSUME ZTypeOK, NEW e \in Ends, NEW eng \in Engine, NEW m \in Message, Send(e, eng, m)
    PROVE  /\ ZTypeOK'
           /\ hs'[e] = [eng EXCEPT !.pending = m, !.tries = 0] /\ hs'[e] \in Engine
           /\ hs'[Peer(e)] = hs[Peer(e)]
           /\ Sent' \subseteq Sent \cup {m, NoMessage}
<1>1. [eng EXCEPT !.pending = m, !.tries = 0] \in Engine
  BY DEF Engine
<1>2. hs' = [hs EXCEPT ![e] = [eng EXCEPT !.pending = m, !.tries = 0]] /\ hs \in [Ends -> Engine]
  BY DEF Send, ZTypeOK
<1>3. hs'[e] = [eng EXCEPT !.pending = m, !.tries = 0] /\ hs' \in [Ends -> Engine]
  BY <1>1, <1>2
<1>4. hs'[Peer(e)] = hs[Peer(e)]
  BY <1>2, PeerFacts
<1>5. wire' = wire \cup {m} /\ losses' = losses
  BY DEF Send
<1>6. ZTypeOK'
  BY <1>3, <1>5 DEF ZTypeOK
<1>7. hs'[e].pending = m
  BY <1>3 DEF Engine
<1>8. \A d \in Ends : d = e \/ d = Peer(e)
  BY DEF Ends, Peer
<1>9. Sent' \subseteq Sent \cup {m, NoMessage}
  BY <1>4, <1>5, <1>7, <1>8 DEF Sent, Ends
<1> QED
  BY <1>1, <1>3, <1>4, <1>6, <1>9

LEMMA BecomeStep ==
    ASSUME ZTypeOK, NEW e \in Ends, NEW eng \in Engine, Become(e, eng),
           eng.pending \in {hs[e].pending, NoMessage}
    PROVE  /\ ZTypeOK'
           /\ hs'[e] = eng
           /\ hs'[Peer(e)] = hs[Peer(e)]
           /\ Sent' \subseteq Sent \cup {NoMessage}
<1>1. hs' = [hs EXCEPT ![e] = eng] /\ hs \in [Ends -> Engine]
  BY DEF Become, ZTypeOK
<1>2. hs'[e] = eng /\ hs' \in [Ends -> Engine]
  BY <1>1
<1>3. hs'[Peer(e)] = hs[Peer(e)]
  BY <1>1, PeerFacts
<1>4. wire' = wire /\ losses' = losses
  BY DEF Become
<1>5. ZTypeOK'
  BY <1>2, <1>4 DEF ZTypeOK
<1>6. \A d \in Ends : d = e \/ d = Peer(e)
  BY DEF Ends, Peer
<1>7. Sent' \subseteq Sent \cup {NoMessage}
  BY <1>2, <1>3, <1>4, <1>6 DEF Sent, Ends
<1> QED
  BY <1>2, <1>3, <1>5, <1>7

LEMMA SentType == ZTypeOK => Sent \in SUBSET (Message \cup {NoMessage})
BY DEF ZTypeOK, Sent, Engine, Ends

(* The engines made by the constructors.                                   *)
LEMMA MessageTypes ==
    /\ \A e \in Ends, id \in Nat : Hello(e, id) \in Message
    /\ \A p \in Pair : Commit(p) \in Message /\ Confirm1(p) \in Message /\ Confirm2(p) \in Message
    /\ \A id \in Nat : DhPart1(id) \in Message /\ DhPart2(id) \in Message
    /\ Conf2Ack \in Message
BY DEF Message, Hello, Commit, DhPart1, DhPart2, Confirm1, Confirm2, Conf2Ack, Ends, Pair, NoPair, Initiator, Responder

LEMMA NewEngineType == \A id \in Nat : NoEngine(id) \in Engine
BY DEF NoEngine, Engine, HandshakeState, Pair, NoPair

-----------------------------------------------------------------------------
(* One lemma for each action.                                              *)

LEMMA StartStep == ASSUME ZInv, NEW e \in Ends, Start(e) PROVE ZInv'
<1> DEFINE n == hs[e].id + 1
           fresh == [NoEngine(n) EXCEPT !.phase = "HelloSent"]
<1>1. ZTypeOK /\ hs[e] \in Engine /\ hs[Peer(e)] \in Engine /\ n \in Nat
  BY PeerFacts DEF ZInv, ZTypeOK, Engine
<1>2. fresh \in Engine
  BY <1>1 DEF NoEngine, Engine, HandshakeState, Pair, NoPair
<1>3. Hello(e, n) \in Message /\ Send(e, fresh, Hello(e, n))
  BY <1>1, MessageTypes DEF Start
<1>4. /\ ZTypeOK'
      /\ hs'[e] = [fresh EXCEPT !.pending = Hello(e, n), !.tries = 0] /\ hs'[e] \in Engine
      /\ hs'[Peer(e)] = hs[Peer(e)]
      /\ Sent' \subseteq Sent \cup {Hello(e, n), NoMessage}
  BY <1>1, <1>2, <1>3, SendStep
<1>5. /\ hs'[e].phase = "HelloSent" /\ hs'[e].id = n /\ hs'[e].peer = 0
      /\ hs'[e].commit = NoPair /\ hs'[e].key = NoPair
  BY <1>4 DEF NoEngine
<1>6. Agreed(hs["caller"], hs["callee"], Sent) /\ Sent \in SUBSET (Message \cup {NoMessage})
  BY <1>1, SentType DEF ZInv
<1>7. Agreed(hs'["caller"], hs'["callee"], Sent)
  <2>1. CASE e = "caller"
    BY <1>1, <1>4, <1>5, <1>6, <2>1, CallerAnew DEF Peer
  <2>2. CASE e = "callee"
    BY <1>1, <1>4, <1>5, <1>6, <2>2, CalleeAnew DEF Peer
  <2> QED
    BY <2>1, <2>2 DEF Ends
<1>8. GoodMsg(Hello(e, n), hs'["caller"], hs'["callee"])
  BY <1>1, <1>5 DEF GoodMsg, Hello, Ends
<1>9. Agreed(hs'["caller"], hs'["callee"], Sent')
  BY <1>4, <1>7, <1>8, MoreSent
<1> QED
  BY <1>4, <1>9 DEF ZInv

LEMMA StopStep == ASSUME ZInv, NEW e \in Ends, Stop(e) PROVE ZInv'
<1>1. ZTypeOK /\ hs[e] \in Engine /\ hs[Peer(e)] \in Engine
  BY PeerFacts DEF ZInv, ZTypeOK
<1> DEFINE gone == NoEngine(hs[e].id)
<1>2. /\ gone \in Engine /\ gone.pending = NoMessage /\ gone.phase = "Off" /\ gone.id = hs[e].id
      /\ gone.peer = 0 /\ gone.commit = NoPair /\ gone.key = NoPair
  BY <1>1, NewEngineType DEF Engine, NoEngine
<1> HIDE DEF gone
<1>3. Become(e, gone)
  BY DEF Stop, gone
<1>4. ZTypeOK' /\ hs'[e] = gone /\ hs'[Peer(e)] = hs[Peer(e)] /\ Sent' \subseteq Sent \cup {NoMessage}
  BY <1>1, <1>2, <1>3, BecomeStep
<1>5. Agreed(hs["caller"], hs["callee"], Sent) /\ Sent \in SUBSET (Message \cup {NoMessage})
  BY <1>1, SentType DEF ZInv
<1>6. Agreed(hs'["caller"], hs'["callee"], Sent)
  <2>1. CASE e = "caller"
    BY <1>1, <1>2, <1>4, <1>5, <2>1, CallerAnew DEF Peer
  <2>2. CASE e = "callee"
    BY <1>1, <1>2, <1>4, <1>5, <2>2, CalleeAnew DEF Peer
  <2> QED
    BY <2>1, <2>2 DEF Ends
<1>7. GoodMsg(NoMessage, hs'["caller"], hs'["callee"])
  BY DEF GoodMsg, NoMessage
<1>8. Agreed(hs'["caller"], hs'["callee"], Sent')
  BY <1>4, <1>6, <1>7, MoreSent
<1> QED
  BY <1>4, <1>8 DEF ZInv

(* A check that failed.                                                    *)
LEMMA FailStep == ASSUME ZInv, NEW e \in Ends, Fail(e), hs[e].phase \notin {"Off"} \cup Confirmed PROVE ZInv'
<1>1. ZTypeOK /\ hs[e] \in Engine /\ hs[Peer(e)] \in Engine
  BY PeerFacts DEF ZInv, ZTypeOK
<1> DEFINE failed == [hs[e] EXCEPT !.phase = "Failed"]
<1>2. /\ failed \in Engine /\ failed.pending = hs[e].pending /\ failed.phase = "Failed"
      /\ failed.id = hs[e].id /\ failed.peer = hs[e].peer
      /\ failed.commit = hs[e].commit /\ failed.key = hs[e].key
  BY <1>1 DEF Engine, HandshakeState
<1> HIDE DEF failed
<1>3. Become(e, failed)
  BY DEF Fail, failed
<1>4. ZTypeOK' /\ hs'[e] = failed /\ hs'[Peer(e)] = hs[Peer(e)] /\ Sent' \subseteq Sent \cup {NoMessage}
  BY <1>1, <1>2, <1>3, BecomeStep
<1>5. Agreed(hs["caller"], hs["callee"], Sent) /\ Sent \in SUBSET (Message \cup {NoMessage})
  BY <1>1, SentType DEF ZInv
<1>6. Agreed(hs'["caller"], hs'["callee"], Sent)
  <2>1. CASE e = "caller"
    <3>1. CallerOk(failed) /\ failed.peer <= hs["callee"].id
      BY <1>2, <1>5, <2>1 DEF Agreed, Across, CallerOk, Confirmed
    <3>2. hs["caller"].phase \notin {"Off"} \cup Confirmed /\ failed.phase \notin {"Off"} \cup Confirmed
      BY <1>2, <2>1 DEF Confirmed
    <3>3. hs["caller"] \in Engine /\ hs["callee"] \in Engine
      BY <1>1, <2>1 DEF Peer
    <3>4. Agreed(failed, hs["callee"], Sent)
      BY <1>2, <1>5, <2>1, <3>1, <3>2, <3>3, CallerGoesOn
    <3>5. hs'["caller"] = failed /\ hs'["callee"] = hs["callee"]
      BY <1>4, <2>1 DEF Peer
    <3> QED
      BY <3>4, <3>5
  <2>2. CASE e = "callee"
    <3>1. CalleeOk(failed)
      BY <1>2, <1>5, <2>2 DEF Agreed, CalleeOk
    <3>2. hs["callee"].phase # "Off" /\ failed.phase = "Failed"
      BY <1>2, <2>2
    <3>3. hs["caller"] \in Engine /\ hs["callee"] \in Engine
      BY <1>1, <2>2 DEF Peer
    <3>4. /\ failed.commit[1] <= hs["caller"].id /\ failed.key[1] <= hs["caller"].id
          /\ failed.commit # NoPair /\ failed.commit[1] = hs["caller"].id /\ hs["caller"].phase # "Off"
                 => hs["caller"].commit = failed.commit
          /\ failed.key # NoPair /\ failed.key[1] = hs["caller"].id /\ hs["caller"].phase # "Off"
                 => hs["caller"].key = failed.key
      BY <1>2, <1>5, <2>2 DEF Agreed, Across
    <3>5. Agreed(hs["caller"], failed, Sent)
      BY <1>2, <1>5, <2>2, <3>1, <3>2, <3>3, <3>4, CalleeGoesOn
    <3>6. hs'["callee"] = failed /\ hs'["caller"] = hs["caller"]
      BY <1>4, <2>2 DEF Peer
    <3> QED
      BY <3>5, <3>6
  <2> QED
    BY <2>1, <2>2 DEF Ends
<1>7. GoodMsg(NoMessage, hs'["caller"], hs'["callee"])
  BY DEF GoodMsg, NoMessage
<1>8. Agreed(hs'["caller"], hs'["callee"], Sent')
  BY <1>4, <1>6, <1>7, MoreSent
<1> QED
  BY <1>4, <1>8 DEF ZInv

(* A handler of the caller that sends.                                     *)
LEMMA CallerSends ==
    ASSUME ZInv, NEW j \in Engine, NEW m \in Message, Send("caller", j, m), CallerOk(j),
           hs["caller"].phase # "Off", j.phase # "Off", j.id = hs["caller"].id,
           j.peer <= hs["callee"].id,
           hs["caller"].commit # NoPair => j.commit = hs["caller"].commit,
           hs["caller"].key # NoPair => j.key = hs["caller"].key,
           hs["caller"].phase \in Confirmed => j.phase \in Confirmed,
           j.phase \in Confirmed /\ j.key[2] = hs["callee"].id /\ hs["callee"].phase # "Off"
               => hs["callee"].key = j.key,
           GoodMsg(m, j, hs["callee"])
    PROVE  ZInv'
<1>1. ZTypeOK /\ "caller" \in Ends /\ hs["caller"] \in Engine /\ hs["callee"] \in Engine
  BY DEF ZInv, ZTypeOK, Ends
<1> DEFINE k == [j EXCEPT !.pending = m, !.tries = 0]
<1>2. /\ ZTypeOK' /\ hs'["caller"] = k /\ k \in Engine /\ hs'["callee"] = hs["callee"]
      /\ Sent' \subseteq Sent \cup {m, NoMessage}
  <2>1. /\ ZTypeOK'
        /\ hs'["caller"] = k /\ hs'["caller"] \in Engine
        /\ hs'[Peer("caller")] = hs[Peer("caller")]
        /\ Sent' \subseteq Sent \cup {m, NoMessage}
    BY <1>1, SendStep
  <2>2. Peer("caller") = "callee"
    BY DEF Peer
  <2> HIDE DEF k
  <2> QED
    BY <2>1, <2>2
<1>3. /\ k.phase = j.phase /\ k.id = j.id /\ k.peer = j.peer
      /\ k.commit = j.commit /\ k.key = j.key
  BY DEF Engine
<1> HIDE DEF k
<1>4. Agreed(hs["caller"], hs["callee"], Sent) /\ Sent \in SUBSET (Message \cup {NoMessage})
  BY <1>1, SentType DEF ZInv
<1>5. CallerOk(k) /\ GoodMsg(m, k, hs["callee"])
  BY <1>3 DEF CallerOk, GoodMsg
<1>6. Agreed(k, hs["callee"], Sent)
  BY <1>1, <1>2, <1>3, <1>4, <1>5, CallerGoesOn
<1>7. Agreed(k, hs["callee"], Sent')
  BY <1>2, <1>5, <1>6, MoreSent
<1> QED
  BY <1>2, <1>7 DEF ZInv

(* A handler of the callee that sends.                                     *)
LEMMA CalleeSends ==
    ASSUME ZInv, NEW s \in Engine, NEW m \in Message, Send("callee", s, m), CalleeOk(s),
           hs["callee"].phase # "Off", s.phase # "Off", s.id = hs["callee"].id,
           hs["callee"].key # NoPair => s.key = hs["callee"].key,
           s.commit[1] <= hs["caller"].id, s.key[1] <= hs["caller"].id,
           s.commit # NoPair /\ s.commit[1] = hs["caller"].id /\ hs["caller"].phase # "Off"
               => hs["caller"].commit = s.commit,
           s.key # NoPair /\ s.key[1] = hs["caller"].id /\ hs["caller"].phase # "Off"
               => hs["caller"].key = s.key,
           s.phase # "Secure", GoodMsg(m, hs["caller"], s)
    PROVE  ZInv'
<1>1. ZTypeOK /\ "callee" \in Ends /\ hs["caller"] \in Engine /\ hs["callee"] \in Engine
  BY DEF ZInv, ZTypeOK, Ends
<1> DEFINE k == [s EXCEPT !.pending = m, !.tries = 0]
<1>2. /\ ZTypeOK' /\ hs'["callee"] = k /\ k \in Engine /\ hs'["caller"] = hs["caller"]
      /\ Sent' \subseteq Sent \cup {m, NoMessage}
  <2>1. /\ ZTypeOK'
        /\ hs'["callee"] = k /\ hs'["callee"] \in Engine
        /\ hs'[Peer("callee")] = hs[Peer("callee")]
        /\ Sent' \subseteq Sent \cup {m, NoMessage}
    BY <1>1, SendStep
  <2>2. Peer("callee") = "caller"
    BY DEF Peer
  <2> HIDE DEF k
  <2> QED
    BY <2>1, <2>2
<1>3. /\ k.phase = s.phase /\ k.id = s.id /\ k.commit = s.commit /\ k.key = s.key
  BY DEF Engine
<1> HIDE DEF k
<1>4. Agreed(hs["caller"], hs["callee"], Sent) /\ Sent \in SUBSET (Message \cup {NoMessage})
  BY <1>1, SentType DEF ZInv
<1>5. CalleeOk(k) /\ GoodMsg(m, hs["caller"], k)
  BY <1>3 DEF CalleeOk, GoodMsg
<1>6. Agreed(hs["caller"], k, Sent)
  BY <1>1, <1>2, <1>3, <1>4, <1>5, CalleeGoesOn
<1>7. Agreed(hs["caller"], k, Sent')
  BY <1>2, <1>5, <1>6, MoreSent
<1> QED
  BY <1>2, <1>7 DEF ZInv

(* A message on the wire is a good one.                                    *)
LEMMA Delivered ==
    ASSUME ZInv, NEW e \in Ends, NEW m \in wire
    PROVE  /\ ZTypeOK /\ m \in Message /\ GoodMsg(m, hs["caller"], hs["callee"])
           /\ hs["caller"] \in Engine /\ hs["callee"] \in Engine
           /\ CallerOk(hs["caller"]) /\ CalleeOk(hs["callee"])
           /\ Across(hs["caller"], hs["callee"])
BY DEF ZInv, ZTypeOK, Agreed, Sent, Ends

LEMMA HelloStep == ASSUME ZInv, NEW e \in Ends, NEW m \in wire, OnHello(e, m) PROVE ZInv'
<1> DEFINE i == hs["caller"]
           r == hs["callee"]
           held == [hs[e] EXCEPT !.phase = "HelloReceived", !.peer = m.id]
           pair == <<held.id, m.id>>
<1>1. /\ ZTypeOK /\ m \in Message /\ GoodMsg(m, i, r) /\ i \in Engine /\ r \in Engine
      /\ CallerOk(i) /\ CalleeOk(r) /\ Across(i, r)
  BY Delivered
<1>2. m.type = "Hello" /\ m.from = Peer(e) /\ hs[e].phase = "HelloSent" /\ m.id \in Nat
  BY <1>1 DEF OnHello, Takes, Message
<1>3. CASE e = "caller"
  <2> DEFINE j == [held EXCEPT !.phase = "CommitSent", !.commit = pair]
  <2>1. held.id = i.id /\ pair = <<i.id, m.id>> /\ pair \in Pair /\ m.id <= r.id
    BY <1>1, <1>2, <1>3 DEF Engine, Pair, GoodMsg, Peer
  <2>2. /\ j \in Engine /\ j.phase = "CommitSent" /\ j.id = i.id /\ j.peer = m.id
        /\ j.commit = <<i.id, m.id>> /\ j.key = i.key
    BY <1>1, <1>2, <1>3, <2>1 DEF Engine, HandshakeState
  <2>3. Send("caller", j, Commit(pair)) /\ Commit(pair) \in Message
    BY <1>3, <2>1, MessageTypes DEF OnHello, Initiator
  <2>4. CallerOk(j) /\ i.phase # "Off" /\ i.commit = NoPair /\ i.key = NoPair
    BY <1>1, <1>2, <1>3, <2>2 DEF CallerOk, Confirmed
  <2>5. GoodMsg(Commit(pair), j, r)
    BY <1>1, <2>1, <2>2 DEF GoodMsg, Commit, Engine
  <2> HIDE DEF j, held, pair
  <2> QED
    BY <1>1, <1>2, <1>3, <2>1, <2>2, <2>3, <2>4, <2>5, CallerSends DEF Confirmed
<1>4. CASE e = "callee"
  <2>1. /\ held \in Engine /\ held.phase = "HelloReceived" /\ held.id = r.id
        /\ held.commit = r.commit /\ held.key = r.key /\ held.pending = r.pending
    BY <1>1, <1>2, <1>4 DEF Engine, HandshakeState
  <2>2. Become("callee", held)
    BY <1>4 DEF OnHello, Initiator
  <2> HIDE DEF held
  <2>3. /\ ZTypeOK' /\ hs'["callee"] = held /\ hs'["caller"] = i /\ Sent' \subseteq Sent \cup {NoMessage}
    BY <1>1, <1>4, <2>1, <2>2, BecomeStep DEF Peer
  <2>4. CalleeOk(held)
    BY <1>1, <1>2, <1>4, <2>1 DEF CalleeOk
  <2>5. Agreed(i, held, Sent)
    BY <1>1, <1>2, <1>4, <2>1, <2>4, SentType, CalleeGoesOn DEF ZInv, Across
  <2>6. GoodMsg(NoMessage, i, held)
    BY DEF GoodMsg, NoMessage
  <2> QED
    BY <2>3, <2>5, <2>6, MoreSent DEF ZInv
<1> QED
  BY <1>3, <1>4 DEF Ends

LEMMA CommitStep == ASSUME ZInv, NEW e \in Ends, NEW m \in wire, OnCommit(e, m) PROVE ZInv'
<1> DEFINE i == hs["caller"]
           r == hs["callee"]
           s == [r EXCEPT !.phase = "DhPart1Sent", !.commit = m.binds]
<1>1. /\ ZTypeOK /\ m \in Message /\ GoodMsg(m, i, r) /\ i \in Engine /\ r \in Engine
      /\ CallerOk(i) /\ CalleeOk(r) /\ Across(i, r)
  BY Delivered
<1>2. e = "callee" /\ m.type = "Commit" /\ r.phase = "HelloReceived" /\ m.binds \in Pair
  BY <1>1 DEF OnCommit, Takes, Responder, Message
<1>3. CASE m.id = hs[e].peer
  <2>1. /\ s \in Engine /\ s.phase = "DhPart1Sent" /\ s.id = r.id
        /\ s.commit = m.binds /\ s.key = r.key
    BY <1>1, <1>2 DEF Engine, HandshakeState
  <2>2. Send("callee", s, DhPart1(r.id)) /\ DhPart1(r.id) \in Message
    BY <1>1, <1>2, <1>3, MessageTypes DEF OnCommit, Engine
  <2> HIDE DEF s
  <2>3. CalleeOk(s) /\ r.phase # "Off" /\ r.key = NoPair
    BY <1>1, <1>2, <2>1 DEF CalleeOk
  <2>4. /\ s.commit[1] <= i.id
        /\ s.commit[1] = i.id /\ i.phase # "Off" => i.commit = s.commit
        /\ s.key[1] <= i.id
    BY <1>1, <1>2, <2>1 DEF GoodMsg, Across
  <2>5. GoodMsg(DhPart1(r.id), i, s)
    BY DEF GoodMsg, DhPart1
  <2> QED
    BY <1>1, <2>1, <2>2, <2>3, <2>4, <2>5, CalleeSends
<1>4. CASE m.id # hs[e].peer
  <2>1. Fail(e)
    BY <1>4 DEF OnCommit
  <2> QED
    BY <1>2, <2>1, FailStep DEF Confirmed
<1> QED
  BY <1>3, <1>4

LEMMA DhPart1Step == ASSUME ZInv, NEW e \in Ends, NEW m \in wire, OnDhPart1(e, m) PROVE ZInv'
<1> DEFINE i == hs["caller"]
           r == hs["callee"]
           pair == <<i.id, m.id>>
           j == [i EXCEPT !.phase = "DhPart2Sent", !.key = pair]
<1>1. /\ ZTypeOK /\ m \in Message /\ GoodMsg(m, i, r) /\ i \in Engine /\ r \in Engine
      /\ CallerOk(i) /\ CalleeOk(r) /\ Across(i, r)
  BY Delivered
<1>2. e = "caller" /\ m.type = "DhPart1" /\ i.phase = "CommitSent" /\ pair \in Pair
  BY <1>1 DEF OnDhPart1, Takes, Initiator, Message, Pair, Engine
<1>3. CASE m.id = hs[e].peer
  <2>1. /\ j \in Engine /\ j.phase = "DhPart2Sent" /\ j.id = i.id /\ j.peer = i.peer
        /\ j.commit = i.commit /\ j.key = <<i.id, i.peer>>
    BY <1>1, <1>2, <1>3 DEF Engine, HandshakeState
  <2>2. Send("caller", j, DhPart2(i.id)) /\ DhPart2(i.id) \in Message
    BY <1>1, <1>2, <1>3, MessageTypes DEF OnDhPart1, Engine
  <2> HIDE DEF j
  <2>3. CallerOk(j) /\ i.key = NoPair /\ j.key # NoPair
    BY <1>1, <1>2, <2>1 DEF CallerOk, Confirmed, NoPair, Engine
  <2>4. GoodMsg(DhPart2(i.id), j, r)
    BY <1>1, <2>1, <2>3 DEF GoodMsg, DhPart2, Engine
  <2> QED
    BY <1>1, <1>2, <2>1, <2>2, <2>3, <2>4, CallerSends DEF Across, Confirmed
<1>4. CASE m.id # hs[e].peer
  <2>1. Fail(e)
    BY <1>4 DEF OnDhPart1
  <2> QED
    BY <1>2, <2>1, FailStep DEF Confirmed
<1> QED
  BY <1>3, <1>4

LEMMA DhPart2Step == ASSUME ZInv, NEW e \in Ends, NEW m \in wire, OnDhPart2(e, m) PROVE ZInv'
<1> DEFINE i == hs["caller"]
           r == hs["callee"]
           pair == <<m.id, r.id>>
           s == [r EXCEPT !.phase = "Confirm1Sent", !.key = pair]
<1>1. /\ ZTypeOK /\ m \in Message /\ GoodMsg(m, i, r) /\ i \in Engine /\ r \in Engine
      /\ CallerOk(i) /\ CalleeOk(r) /\ Across(i, r)
  BY Delivered
<1>2. e = "callee" /\ m.type = "DhPart2" /\ r.phase = "DhPart1Sent" /\ pair \in Pair
  BY <1>1 DEF OnDhPart2, Takes, Responder, Message, Pair, Engine
<1>3. CASE GoodDhPart2(hs[e], m)
  <2>1. /\ s \in Engine /\ s.phase = "Confirm1Sent" /\ s.id = r.id
        /\ s.commit = r.commit /\ s.key = pair
    BY <1>1, <1>2 DEF Engine, HandshakeState
  <2>2. Send("callee", s, Confirm1(pair)) /\ Confirm1(pair) \in Message
    BY <1>1, <1>2, <1>3, MessageTypes DEF OnDhPart2
  <2>3. r.commit = pair /\ r.id > 0 /\ r.key = NoPair /\ m.id <= i.id
    BY <1>1, <1>2, <1>3 DEF GoodDhPart2, CalleeOk, GoodMsg
  <2> HIDE DEF s
  <2>4. CalleeOk(s)
    BY <1>1, <2>1, <2>3 DEF CalleeOk
  <2>5. m.id = i.id /\ i.phase # "Off" => i.key = pair
    BY <1>1, <1>2, <2>3 DEF GoodMsg, Across, CallerOk, Engine, NoPair
  <2>6. GoodMsg(Confirm1(pair), i, s)
    BY <1>1, <2>1 DEF GoodMsg, Confirm1, Engine
  <2>7. s.commit[1] <= i.id /\ s.key[1] = m.id
    BY <1>1, <2>1, <2>3
  <2>8. s.commit # NoPair /\ s.commit[1] = i.id /\ i.phase # "Off" => i.commit = s.commit
    BY <1>1, <2>1 DEF Across
  <2> QED
    BY <1>1, <1>2, <2>1, <2>2, <2>3, <2>4, <2>5, <2>6, <2>7, <2>8, CalleeSends
<1>4. CASE ~GoodDhPart2(hs[e], m)
  <2>1. Fail(e)
    BY <1>4 DEF OnDhPart2
  <2> QED
    BY <1>2, <2>1, FailStep DEF Confirmed
<1> QED
  BY <1>3, <1>4

LEMMA Confirm1Step == ASSUME ZInv, NEW e \in Ends, NEW m \in wire, OnConfirm1(e, m) PROVE ZInv'
<1> DEFINE i == hs["caller"]
           r == hs["callee"]
           j == [i EXCEPT !.phase = "Confirm2Sent"]
<1>1. /\ ZTypeOK /\ m \in Message /\ GoodMsg(m, i, r) /\ i \in Engine /\ r \in Engine
      /\ CallerOk(i) /\ CalleeOk(r) /\ Across(i, r)
  BY Delivered
<1>2. e = "caller" /\ m.type = "Confirm1" /\ i.phase = "DhPart2Sent" /\ i.key \in Pair
  BY <1>1 DEF OnConfirm1, Takes, Initiator, Engine
<1>3. CASE GoodConfirm1(hs[e], m)
  <2>1. /\ j \in Engine /\ j.phase = "Confirm2Sent" /\ j.id = i.id /\ j.peer = i.peer
        /\ j.commit = i.commit /\ j.key = i.key
    BY <1>1, <1>2 DEF Engine, HandshakeState
  <2>2. Send("caller", j, Confirm2(i.key)) /\ Confirm2(i.key) \in Message
    BY <1>1, <1>2, <1>3, MessageTypes DEF OnConfirm1
  <2> HIDE DEF j
  <2>3. CallerOk(j) /\ i.key[1] = i.id
    BY <1>1, <1>2, <2>1 DEF CallerOk, Confirmed
  <2>4. j.key[2] = r.id /\ r.phase # "Off" => r.key = j.key
    BY <1>1, <1>2, <1>3, <2>1 DEF GoodConfirm1, GoodMsg
  <2>5. GoodMsg(Confirm2(i.key), j, r)
    BY <1>1, <2>1, <2>3 DEF GoodMsg, Confirm2, Engine, Confirmed
  <2> QED
    BY <1>1, <1>2, <2>1, <2>2, <2>3, <2>4, <2>5, CallerSends DEF Across, Confirmed
<1>4. CASE ~GoodConfirm1(hs[e], m)
  <2>1. Fail(e)
    BY <1>4 DEF OnConfirm1
  <2> QED
    BY <1>2, <2>1, FailStep DEF Confirmed
<1> QED
  BY <1>3, <1>4

LEMMA Confirm2Step == ASSUME ZInv, NEW e \in Ends, NEW m \in wire, OnConfirm2(e, m) PROVE ZInv'
<1> DEFINE i == hs["caller"]
           r == hs["callee"]
           s == Secured(r)
<1>1. /\ ZTypeOK /\ m \in Message /\ GoodMsg(m, i, r) /\ i \in Engine /\ r \in Engine
      /\ CallerOk(i) /\ CalleeOk(r) /\ Across(i, r)
  BY Delivered
<1>2. e = "callee" /\ m.type = "Confirm2" /\ r.phase = "Confirm1Sent"
  BY <1>1 DEF OnConfirm2, Takes, Responder
<1>3. CASE GoodConfirm2(hs[e], m)
  <2>1. /\ s \in Engine /\ s.phase = "Secure" /\ s.id = r.id /\ s.pending = NoMessage
        /\ s.commit = r.commit /\ s.key = r.key
    BY <1>1, <1>2 DEF Secured, Engine, HandshakeState
  <2>2. hs' = [hs EXCEPT !["callee"] = s] /\ wire' = wire \cup {Conf2Ack} /\ losses' = losses
    BY <1>2, <1>3 DEF OnConfirm2
  <2>3. hs'["callee"] = s /\ hs'["caller"] = i /\ hs' \in [Ends -> Engine]
    BY <1>1, <2>1, <2>2 DEF ZTypeOK, Ends
  <2>4. ZTypeOK'
    BY <1>1, <2>2, <2>3, MessageTypes DEF ZTypeOK
  <2>5. Sent' \subseteq Sent \cup {Conf2Ack, NoMessage}
    BY <2>1, <2>2, <2>3 DEF Sent
  <2> HIDE DEF s
  <2>6. CalleeOk(s)
    BY <1>1, <1>2, <2>1 DEF CalleeOk
  <2>7. s.key[1] = i.id /\ i.phase # "Off" => i.phase \in Confirmed
    BY <1>1, <1>2, <1>3, <2>1 DEF GoodConfirm2, GoodMsg
  <2>8. Agreed(i, s, Sent)
    BY <1>1, <1>2, <2>1, <2>6, <2>7, SentType, CalleeGoesOn DEF ZInv, Across
  <2>9. GoodMsg(Conf2Ack, i, s)
    BY DEF GoodMsg, Conf2Ack
  <2> QED
    BY <2>3, <2>4, <2>5, <2>8, <2>9, MoreSent DEF ZInv
<1>4. CASE ~GoodConfirm2(hs[e], m)
  <2>1. Fail(e)
    BY <1>4 DEF OnConfirm2
  <2> QED
    BY <1>2, <2>1, FailStep DEF Confirmed
<1> QED
  BY <1>3, <1>4

LEMMA Conf2AckStep == ASSUME ZInv, NEW e \in Ends, NEW m \in wire, OnConf2Ack(e, m) PROVE ZInv'
<1> DEFINE i == hs["caller"]
           r == hs["callee"]
           j == Secured(i)
<1>1. /\ ZTypeOK /\ m \in Message /\ GoodMsg(m, i, r) /\ i \in Engine /\ r \in Engine
      /\ CallerOk(i) /\ CalleeOk(r) /\ Across(i, r)
  BY Delivered
<1>2. e = "caller" /\ i.phase = "Confirm2Sent"
  BY <1>1 DEF OnConf2Ack, Takes, Initiator
<1>3. /\ j \in Engine /\ j.phase = "Secure" /\ j.id = i.id /\ j.peer = i.peer /\ j.pending = NoMessage
      /\ j.commit = i.commit /\ j.key = i.key
  BY <1>1, <1>2 DEF Secured, Engine, HandshakeState
<1>4. Become("caller", j)
  BY <1>2 DEF OnConf2Ack
<1> HIDE DEF j
<1>5. ZTypeOK' /\ hs'["caller"] = j /\ hs'["callee"] = r /\ Sent' \subseteq Sent \cup {NoMessage}
  BY <1>1, <1>2, <1>3, <1>4, BecomeStep DEF Peer
<1>6. CallerOk(j)
  BY <1>1, <1>2, <1>3 DEF CallerOk, Confirmed
<1>7. Agreed(j, r, Sent)
  BY <1>1, <1>2, <1>3, <1>6, SentType, CallerGoesOn DEF ZInv, Across, Confirmed
<1>8. GoodMsg(NoMessage, j, r)
  BY DEF GoodMsg, NoMessage
<1> QED
  BY <1>5, <1>7, <1>8, MoreSent DEF ZInv

LEMMA TickStep == ASSUME ZInv, NEW e \in Ends, Tick(e) PROVE ZInv'
<1>1. ZTypeOK /\ hs[e] \in Engine /\ hs \in [Ends -> Engine] /\ hs["caller"] \in Engine /\ hs["callee"] \in Engine
  BY DEF ZInv, ZTypeOK, Ends
<1>2. /\ hs' \in [Ends -> Engine] /\ hs'[Peer(e)] = hs[Peer(e)]
      /\ hs'[e].phase = hs[e].phase /\ hs'[e].id = hs[e].id /\ hs'[e].peer = hs[e].peer
      /\ hs'[e].commit = hs[e].commit /\ hs'[e].key = hs[e].key
      /\ hs'[e].pending \in {hs[e].pending, NoMessage}
      /\ wire' \subseteq wire \cup {hs[e].pending} /\ wire' \subseteq Message /\ losses' = losses
  <2>1. CASE hs[e].tries >= MaxAttempts
    <3> DEFINE eng == [hs[e] EXCEPT !.pending = NoMessage, !.tries = 0]
    <3>1. hs' = [hs EXCEPT ![e] = eng] /\ wire' = wire /\ losses' = losses
      BY <2>1 DEF Tick, Become
    <3>2. /\ eng \in Engine /\ eng.phase = hs[e].phase /\ eng.id = hs[e].id /\ eng.peer = hs[e].peer
          /\ eng.commit = hs[e].commit /\ eng.key = hs[e].key /\ eng.pending = NoMessage
      BY <1>1 DEF Engine
    <3> HIDE DEF eng
    <3> QED
      BY <1>1, <3>1, <3>2, PeerFacts DEF ZTypeOK
  <2>2. CASE ~(hs[e].tries >= MaxAttempts)
    <3> DEFINE eng == [hs[e] EXCEPT !.tries = hs[e].tries + 1]
    <3>1. hs' = [hs EXCEPT ![e] = eng] /\ wire' = wire \cup {hs[e].pending} /\ losses' = losses
      BY <1>1, <2>2 DEF Tick, Engine
    <3>2. /\ eng \in Engine /\ eng.phase = hs[e].phase /\ eng.id = hs[e].id /\ eng.peer = hs[e].peer
          /\ eng.commit = hs[e].commit /\ eng.key = hs[e].key /\ eng.pending = hs[e].pending
          /\ hs[e].pending \in Message
      BY <1>1 DEF Engine, Tick
    <3> HIDE DEF eng
    <3> QED
      BY <1>1, <3>1, <3>2, PeerFacts DEF ZTypeOK
  <2> QED
    BY <2>1, <2>2
<1>3. \A d \in Ends : /\ hs'[d].phase = hs[d].phase /\ hs'[d].id = hs[d].id /\ hs'[d].peer = hs[d].peer
                      /\ hs'[d].commit = hs[d].commit /\ hs'[d].key = hs[d].key
  BY <1>2 DEF Ends, Peer
<1>4. Sent' \subseteq Sent \cup {NoMessage}
  BY <1>2 DEF Sent, Ends, Peer
<1>5. Agreed(hs'["caller"], hs'["callee"], Sent)
  BY <1>3 DEF ZInv, Agreed, CallerOk, CalleeOk, Across, GoodMsg, Ends
<1>6. GoodMsg(NoMessage, hs'["caller"], hs'["callee"])
  BY DEF GoodMsg, NoMessage
<1>7. ZTypeOK'
  BY <1>1, <1>2 DEF ZTypeOK
<1> QED
  BY <1>4, <1>5, <1>6, <1>7, MoreSent DEF ZInv

LEMMA LoseStep == ASSUME ZInv, NEW m \in wire, Lose(m) PROVE ZInv'
<1>1. hs' = hs /\ wire' = wire \ {m} /\ losses' = losses + 1 /\ losses < MaxLosses
  BY DEF Lose
<1>2. ZTypeOK'
  BY <1>1, ZrtpAssumption DEF ZInv, ZTypeOK
<1>3. Sent' \subseteq Sent
  BY <1>1 DEF Sent
<1> QED
  BY <1>1, <1>2, <1>3 DEF ZInv, Agreed

LEMMA HandshakeStep == ASSUME ZInv, NEW e \in Ends, Handshake(e) PROVE ZInv'
<1>1. CASE Tick(e)
  BY <1>1, TickStep
<1>2. CASE \E m \in wire : Receive(e, m)
  <2> PICK m \in wire : Receive(e, m)
    BY <1>2
  <2> QED
    BY HelloStep, CommitStep, DhPart1Step, DhPart2Step, Confirm1Step, Confirm2Step, Conf2AckStep DEF Receive
<1> QED
  BY <1>1, <1>2 DEF Handshake

-----------------------------------------------------------------------------
(* The theorems.                                                           *)

LEMMA ZInitial == ZInit => ZInv
<1> SUFFICES ASSUME ZInit PROVE ZInv
  OBVIOUS
<1>1. NoEngine(0) \in Engine
  BY NewEngineType
<1>2. ZTypeOK
  BY <1>1, ZrtpAssumption DEF ZInit, ZTypeOK
<1>3. hs["caller"] = NoEngine(0) /\ hs["callee"] = NoEngine(0) /\ wire = {}
  BY DEF ZInit, Ends
<1>4. Sent = {NoMessage}
  BY <1>3 DEF Sent, NoEngine
<1>5. CallerOk(NoEngine(0)) /\ CalleeOk(NoEngine(0)) /\ Across(NoEngine(0), NoEngine(0))
  BY DEF CallerOk, CalleeOk, Across, NoEngine, NoPair, Confirmed
<1>6. GoodMsg(NoMessage, NoEngine(0), NoEngine(0))
  BY DEF GoodMsg, NoMessage
<1> QED
  BY <1>2, <1>3, <1>4, <1>5, <1>6 DEF ZInv, Agreed

LEMMA ZStep == ZInv /\ [ZNext]_zvars => ZInv'
<1> SUFFICES ASSUME ZInv, [ZNext]_zvars PROVE ZInv'
  OBVIOUS
<1>1. CASE \E e \in Ends : Start(e) \/ Stop(e) \/ Handshake(e)
  BY <1>1, StartStep, StopStep, HandshakeStep
<1>2. CASE \E m \in wire : Lose(m)
  BY <1>2, LoseStep
<1>3. CASE UNCHANGED zvars
  BY <1>3 DEF zvars, ZInv, ZTypeOK, Sent
<1> QED
  BY <1>1, <1>2, <1>3 DEF ZNext

LEMMA ZInvImplies == ZInv => ZTypeOK /\ KeysAgree /\ SecureIsShared
<1> SUFFICES ASSUME ZInv PROVE ZTypeOK /\ KeysAgree /\ SecureIsShared
  OBVIOUS
<1>1. /\ hs["caller"] \in Engine /\ hs["callee"] \in Engine
      /\ CallerOk(hs["caller"]) /\ CalleeOk(hs["callee"]) /\ Across(hs["caller"], hs["callee"])
  BY DEF ZInv, ZTypeOK, Agreed, Ends
<1>2. KeysAgree
  BY <1>1 DEF KeysAgree, Across, Running
<1>3. SecureIsShared
  BY <1>1 DEF SecureIsShared, Across, CallerOk, Running, Confirmed, NoPair, Engine
<1> QED
  BY <1>2, <1>3 DEF ZInv

(* Every engine and every message stays well formed, whatever Hellos,      *)
(* Commits and Confirms `receive` is given and however engines come and go.*)
THEOREM ZrtpTypes == ZSpec => []ZTypeOK
BY ZInitial, ZStep, ZInvImplies, PTL DEF ZSpec

(* The keys, and the SAS, agree: what on_dhpart2 derives for the caller's  *)
(* present engine is what that engine has derived in on_dhpart1.           *)
THEOREM KeysOfAHandshakeAgree == ZSpec => []KeysAgree
BY ZInitial, ZStep, ZInvImplies, PTL DEF ZSpec

(* An end that says Secure shares its keys with the engine they bind, and  *)
(* a callee that says Secure has a caller that has sent its Confirm2       *)
(* (on_confirm1, on_confirm2, on_conf2ack).                                *)
THEOREM NobodyIsSecureAlone == ZSpec => []SecureIsShared
BY ZInitial, ZStep, ZInvImplies, PTL DEF ZSpec

=============================================================================
