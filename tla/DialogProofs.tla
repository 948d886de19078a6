---------------------------- MODULE DialogProofs -----------------------------
(***************************************************************************)
(* Theorems about one call of SipCalls at a time: what a step does to the   *)
(* dialog, the requests, the answers and the client's view of a call, and   *)
(* the promises about them that follow.                                     *)
(***************************************************************************)
EXTENDS SipCallsProofs

-----------------------------------------------------------------------------
(* The state of one call, and a step that leaves it alone *)

Open(e)    == {r \in open: r.call = e}
Unacked(e) == {n \in Nat: <<e, n>> \in unacked}
Sent(e)    == {chan[e][i]: i \in DOMAIN chan[e]}

DialogSame(e) == dialogs'[e] = dialogs[e]
ClientSame(e) == view'[e] = view[e] /\ connects'[e] = connects[e]
TasksSame(e) ==
    /\ e \in offering' <=> e \in offering
    /\ e \in connecting' <=> e \in connecting
    /\ answering'[e] = answering[e]
RequestsSame(e) == Open(e)' = Open(e) /\ Unacked(e)' = Unacked(e)
FinalsSame(e) == finals'[e] = finals[e]
ChanSame(e) == chan'[e] = chan[e]
FarEndSame(e) == (e \in peerUp' <=> e \in peerUp) /\ inv'[e] = inv[e]

Still(e) ==
    /\ DialogSame(e) /\ ClientSame(e) /\ TasksSame(e) /\ RequestsSame(e)
    /\ FinalsSame(e) /\ ChanSame(e) /\ FarEndSame(e)

(* A refresh of this call among those of the tick.                          *)
Refreshes(e) ==
    /\ Due(e)
    /\ dialogs'[e] = Refreshed(dialogs[e])
    /\ Open(e)' = Open(e) \cup {RequestOf(e, "refresh", Refreshed(dialogs[e]))}
    /\ Unacked(e)' = Unacked(e)
    /\ ClientSame(e) /\ TasksSame(e) /\ FinalsSame(e) /\ ChanSame(e) /\ FarEndSame(e)

(* The far end acts on this call.                                           *)
PeerStep(e) ==
    /\ \/ \E r \in Open(e): PeerRings(r) \/ PeerAnswers(r)
       \/ e \in InCalls /\ (PeerInvites(e) \/ PeerCancels(e))
       \/ \E f \in finals[e]: PeerGetsFinal(e, f)
       \/ PeerReinvites(e) \/ PeerHangsUp(e)
    /\ UNCHANGED Ours

Steps(e) ==
    \/ Command(e) \/ TaskDone(e) \/ Deliver(e)
    \/ Refreshes(e) \/ TransportFails \/ PeerStep(e)

(* The types of what one call sees.                                         *)
LocalType(e) ==
    /\ dialogs[e] \in Dialog \cup {NoDialog}
    /\ view[e] \in View
    /\ answering[e] \in Nat /\ connects[e] \in Nat
    /\ Open(e) \subseteq Request /\ Unacked(e) \subseteq Nat
    /\ Sent(e) \subseteq Message
    /\ finals[e] \subseteq {"answer", "decline"}
    /\ inv[e] \in {"none", "sent", "cancelled", "asking", "done"}
    /\ e \in offering => e \in OutCalls

LEMMA LocalTypes ==
    ASSUME TypeOK, NEW e \in Calls
    PROVE  LocalType(e)
  <1>1. Sent(e) \subseteq Message
    <2>1. chan[e] \in Seq(Message)
      BY DEF TypeOK
    <2> QED
      BY <2>1 DEF Sent
  <1> QED
    BY <1>1 DEF TypeOK, LocalType, Open, Unacked

LEMMA UnchangedIsStill ==
    ASSUME NEW e \in Calls, UNCHANGED vars
    PROVE  Still(e)
  BY DEF vars, tasks, client, wire, farEnd, faults, Still, DialogSame, ClientSame,
         TasksSame, RequestsSame, FinalsSame, ChanSame, FarEndSame, Open, Unacked

LEMMA SentByOthers ==
    ASSUME NEW c, NEW e, e # c
    PROVE  \A kind, d: RequestOf(c, kind, d).call # e
  BY DEF RequestOf

LEMMA CommandApart ==
    ASSUME TypeOK, NEW c \in Calls, NEW e \in Calls, e # c, Command(c)
    PROVE  Still(e)
  <1> USE DEF Still, DialogSame, ClientSame, TasksSame, RequestsSame, FinalsSame,
              ChanSame, FarEndSame, tasks, client, wire, farEnd, faults
  <1>1. CASE InitiateCall(c)
    BY <1>1 DEF InitiateCall, Tell, TypeOK, Open, Unacked
  <1>2. CASE AcceptCall(c)
    BY <1>2 DEF AcceptCall, Decline, Erase, Tell, TypeOK, Open, Unacked
  <1>3. CASE RejectCall(c)
    BY <1>3 DEF RejectCall, Decline, Erase, Tell, TypeOK, Open, Unacked
  <1>4. ASSUME NEW d, NEW kind,
               UNCHANGED <<offering, answering, connecting, connects, unacked, finals,
                           chan, peerUp, inv>>,
               Put(c, d), Send(RequestOf(c, kind, d)),
               UNCHANGED view \/ \E v: Tell(c, v)
        PROVE  Still(e)
    <2>1. dialogs'[e] = dialogs[e] /\ view'[e] = view[e]
      BY <1>4 DEF Put, Tell, TypeOK
    <2>2. Open(e)' = Open(e)
      BY <1>4, SentByOthers DEF Send, Open
    <2> QED
      BY <1>4, <2>1, <2>2 DEF Unacked
  <1>5. CASE HangUp(c)
    BY <1>4, <1>5 DEF HangUp
  <1>6. ASSUME NEW kind, SendReinvite(c, kind) PROVE Still(e)
    BY <1>4, <1>6 DEF SendReinvite
  <1>7. ASSUME NEW kind, SendInDialog(c, kind) PROVE Still(e)
    BY <1>4, <1>7 DEF SendInDialog
  <1> QED
    BY <1>1, <1>2, <1>3, <1>5, <1>6, <1>7 DEF Command, SendDtmfInfo, Transfer

LEMMA TaskApart ==
    ASSUME TypeOK, NEW c \in Calls, NEW e \in Calls, e # c, TaskDone(c)
    PROVE  Still(e)
  <1> USE DEF Still, DialogSame, ClientSame, TasksSame, RequestsSame, FinalsSame,
              ChanSame, FarEndSame, tasks, client, wire, farEnd, faults
  <1>1. CASE OutgoingOfferReady(c)
    <2>1. dialogs'[e] = dialogs[e] /\ view'[e] = view[e]
      BY <1>1 DEF OutgoingOfferReady, Put, Tell, TypeOK
    <2>2. Open(e)' = Open(e)
      <3>1. \/ open' = open
            \/ open' = open \cup {RequestOf(c, "INVITE", NewOutgoing)}
        BY <1>1 DEF OutgoingOfferReady, Send
      <3> QED
        BY <3>1, SentByOthers DEF Open
    <2> QED
      BY <1>1, <2>1, <2>2 DEF OutgoingOfferReady, Unacked
  <1>2. CASE IncomingAnswerReady(c)
    BY <1>2 DEF IncomingAnswerReady, Put, Tell, TypeOK, Open, Unacked
  <1>3. CASE OutgoingConnected(c)
    BY <1>3 DEF OutgoingConnected, Put, Tell, TypeOK, Open, Unacked
  <1> QED
    BY <1>1, <1>2, <1>3 DEF TaskDone

(* What is handled of c changes nothing of any other call.                  *)
HandledStill(e) ==
    /\ dialogs'[e] = dialogs[e] /\ view'[e] = view[e]
    /\ e \in connecting' <=> e \in connecting
    /\ Open(e)' = Open(e) /\ Unacked(e)' = Unacked(e)
    /\ finals'[e] = finals[e]

LEMMA DispatchApart ==
    ASSUME TypeOK, NEW c \in Calls, NEW e \in Calls, e # c, NEW m, Dispatch(c, m)
    PROVE  HandledStill(e)
  <1> USE DEF HandledStill
  <1>1. CASE OnInvite(c, m)
    BY <1>1 DEF OnInvite, Put, Tell, TypeOK, Open, Unacked
  <1>2. CASE Ends(c)
    BY <1>2 DEF Ends, Erase, Tell, TypeOK, Open, Unacked
  <1>3. CASE OnAck(c)
    BY <1>3 DEF OnAck, Put, TypeOK, Open, Unacked
  <1>4. CASE OnRinging(c)
    BY <1>4 DEF OnRinging, Put, Tell, TypeOK, Open, Unacked
  <1>5. ASSUME NEW n, Ack(c, n) PROVE Unacked(e)' = Unacked(e)
    BY <1>5 DEF Ack, Unacked
  <1>6. ASSUME NEW kind, NEW d, NEW r, r.call = c, open' = open \cup {r}
        PROVE  Open(e)' = Open(e)
    BY <1>6 DEF Open
  <1>7. CASE OnConnected(c, m)
    <2>1. CASE Mismatched(c, m)
      <3>1. dialogs'[e] = dialogs[e] /\ view'[e] = view[e]
        BY <2>1 DEF Mismatched, Erase, Tell, TypeOK
      <3>2. Open(e)' = Open(e)
        BY <2>1, SentByOthers DEF Mismatched, Send, Open
      <3> QED
        BY <1>5, <1>7, <2>1, <3>1, <3>2 DEF OnConnected, Mismatched
    <2>2. CASE ~Mismatched(c, m)
      BY <1>5, <1>7, <2>2 DEF OnConnected, Put, TypeOK, Open
    <2> QED
      BY <2>1, <2>2
  <1>8. CASE OnSessionRefreshAck(c, m)
    BY <1>5, <1>8 DEF OnSessionRefreshAck, Put, TypeOK, Open
  <1>9. CASE OnReinviteAck(c, m)
    BY <1>5, <1>9 DEF OnReinviteAck, Put, TypeOK, Open
  <1>10. CASE UNCHANGED Handled
    BY <1>10 DEF Handled, Open, Unacked
  <1>11. ASSUME NEW d, NEW r, r.call = c, Put(c, d), Send(r),
                UNCHANGED <<connecting, view, unacked, finals>>
         PROVE  HandledStill(e)
    BY <1>11 DEF Put, Send, TypeOK, Open, Unacked
  <1>12. CASE OnIntervalTooSmall(c)
    BY <1>11, <1>12 DEF OnIntervalTooSmall, RequestOf
  <1>13. CASE OnChallenge(c, m)
    BY <1>2, <1>11, <1>13 DEF OnChallenge, RequestOf
  <1> QED
    BY <1>1, <1>2, <1>3, <1>4, <1>7, <1>8, <1>9, <1>10, <1>12, <1>13
    DEF Dispatch, OnResponse, OnDialogResponse, OnInviteOk

LEMMA DeliverApart ==
    ASSUME TypeOK, NEW c \in Calls, NEW e \in Calls, e # c, Deliver(c)
    PROVE  Still(e)
  <1>1. PICK i \in DOMAIN chan[c]: Receive(c, i)
    BY DEF Deliver
  <1>2. HandledStill(e)
    BY <1>1, DispatchApart DEF Receive
  <1>3. chan'[e] = chan[e]
    BY <1>1 DEF Receive, TypeOK
  <1> QED
    BY <1>1, <1>2, <1>3
    DEF Receive, HandledStill, Still, DialogSame, ClientSame, TasksSame, RequestsSame,
        FinalsSame, ChanSame, FarEndSame, farEnd

LEMMA RefreshApart ==
    ASSUME TypeOK, NEW e \in Calls, RefreshSessionTimers
    PROVE  Still(e) \/ Refreshes(e)
  <1> USE DEF Still, DialogSame, ClientSame, TasksSame, RequestsSame, FinalsSame,
              ChanSame, FarEndSame, tasks, client, farEnd
  <1>1. PICK due \in SUBSET {c \in Calls: Due(c) /\ dialogs[c].cseq < MaxCSeq}:
          /\ dialogs' = [c \in Calls |->
                IF c \in due THEN Refreshed(dialogs[c]) ELSE dialogs[c]]
          /\ open' = open \cup
                {RequestOf(c, "refresh", Refreshed(dialogs[c])): c \in due}
    BY DEF RefreshSessionTimers
  <1>2. UNCHANGED <<tasks, client, unacked, finals, chan, farEnd, faults>>
    BY DEF RefreshSessionTimers
  <1>3. \A c, d: RequestOf(c, "refresh", d).call = c
    BY DEF RequestOf
  <1>4. CASE e \in due
    <2>1. dialogs'[e] = Refreshed(dialogs[e]) /\ Due(e)
      BY <1>1, <1>4
    <2>2. Open(e)' = Open(e) \cup {RequestOf(e, "refresh", Refreshed(dialogs[e]))}
      BY <1>1, <1>3, <1>4 DEF Open
    <2> QED
      BY <1>2, <2>1, <2>2 DEF Refreshes, Unacked
  <1>5. CASE e \notin due
    <2>1. dialogs'[e] = dialogs[e]
      BY <1>1, <1>5
    <2>2. Open(e)' = Open(e)
      BY <1>1, <1>3, <1>5 DEF Open
    <2> QED
      BY <1>2, <2>1, <2>2 DEF Unacked
  <1> QED
    BY <1>4, <1>5

LEMMA PeerApart ==
    ASSUME TypeOK, NEW e \in Calls, PeerActs
    PROVE  Still(e) \/ PeerStep(e)
  <1> USE DEF Still, DialogSame, ClientSame, TasksSame, RequestsSame, FinalsSame,
              ChanSame, FarEndSame, tasks, client, Ours, wire
  <1> SUFFICES ASSUME ~PeerStep(e) PROVE Still(e)
    OBVIOUS
  <1>1. UNCHANGED Ours
    BY DEF PeerActs
  <1>2. ASSUME NEW c \in Calls, c # e, NEW ms, Post(c, ms) PROVE chan'[e] = chan[e]
    BY <1>2 DEF Post, TypeOK
  <1>3. ASSUME NEW r \in open, PeerRings(r) \/ PeerAnswers(r) PROVE Still(e)
    <2>1. r.call # e /\ r.call \in Calls
      <3>1. r.call # e
        BY <1>1, <1>3 DEF PeerStep, Open
      <3> QED
        BY <3>1 DEF TypeOK, Request
    <2>2. chan'[e] = chan[e]
      <3>1. ASSUME PeerRings(r) PROVE \E ms: Post(r.call, ms)
        BY <3>1 DEF PeerRings
      <3>2. ASSUME PeerAccepts(r) PROVE \E ms: Post(r.call, ms)
        BY <3>2, Zenon DEF PeerAccepts
      <3>3. ASSUME PeerRefuses(r) PROVE \E ms: Post(r.call, ms)
        <4>1. CASE r.kind = "INVITE"
          BY <3>3, <4>1, ZenonT(40) DEF PeerRefuses
        <4>2. CASE r.kind # "INVITE"
          BY <3>3, <4>2 DEF PeerRefuses
        <4> QED
          BY <4>1, <4>2
      <3>4. ASSUME PeerTakesBye(r) \/ PeerTakesOther(r) PROVE \E ms: Post(r.call, ms)
        BY <3>4, Zenon DEF PeerTakesBye, PeerTakesOther
      <3>5. \E ms: Post(r.call, ms)
        BY <1>3, <3>1, <3>2, <3>3, <3>4 DEF PeerAnswers
      <3> QED
        BY <1>2, <2>1, <3>5
    <2>3. UNCHANGED <<finals, inv>>
      BY <1>3
      DEF PeerRings, PeerAnswers, PeerAccepts, PeerRefuses, PeerTakesBye, PeerTakesOther,
          farEnd
    <2>4. \/ peerUp' = peerUp \/ peerUp' = peerUp \cup {r.call}
          \/ peerUp' = peerUp \ {r.call}
      BY <1>3
      DEF PeerRings, PeerAnswers, PeerAccepts, PeerRefuses, PeerTakesBye, PeerTakesOther,
          farEnd
    <2>5. \/ unacked' = unacked \/ unacked' = unacked \cup {<<r.call, r.cseq>>}
      BY <1>3
      DEF PeerRings, PeerAnswers, PeerAccepts, PeerRefuses, PeerTakesBye, PeerTakesOther
    <2>6. Open(e)' = Open(e)
      <3>1. \/ open' = open \ {r}
            \/ open' = (open \ {r}) \cup {[r EXCEPT !.rang = TRUE]}
        BY <1>3
        DEF PeerRings, PeerAnswers, PeerAccepts, PeerRefuses, PeerTakesBye, PeerTakesOther
      <3>2. [r EXCEPT !.rang = TRUE].call = r.call
        BY DEF TypeOK, Request
      <3> QED
        BY <2>1, <3>1, <3>2 DEF Open
    <2> QED
      BY <1>1, <2>1, <2>2, <2>3, <2>4, <2>5, <2>6 DEF Unacked
  <1>4. ASSUME NEW c \in InCalls, PeerInvites(c) \/ PeerCancels(c) PROVE Still(e)
    <2>1. c # e /\ c \in Calls
      BY <1>1, <1>4 DEF PeerStep, Calls
    <2>2. chan'[e] = chan[e]
      BY <1>2, <1>4, <2>1 DEF PeerInvites, PeerCancels
    <2>3. inv'[e] = inv[e] /\ UNCHANGED <<wire, peerUp>>
      BY <1>4, <2>1 DEF PeerInvites, PeerCancels, TypeOK
    <2> QED
      BY <1>1, <2>2, <2>3 DEF Open, Unacked
  <1>5. ASSUME NEW c \in Calls, NEW f \in finals[c], PeerGetsFinal(c, f) PROVE Still(e)
    <2>1. c # e
      BY <1>1, <1>5 DEF PeerStep
    <2>2. chan'[e] = chan[e]
      BY <1>2, <1>5, <2>1 DEF PeerGetsFinal
    <2>3. /\ inv'[e] = inv[e] /\ finals'[e] = finals[e]
          /\ e \in peerUp' <=> e \in peerUp
          /\ UNCHANGED <<open, unacked>>
      BY <1>5, <2>1 DEF PeerGetsFinal, TypeOK
    <2> QED
      BY <1>1, <2>2, <2>3 DEF Open, Unacked
  <1>6. ASSUME NEW c \in Calls, PeerReinvites(c) \/ PeerHangsUp(c) PROVE Still(e)
    <2>1. c # e
      BY <1>1, <1>6 DEF PeerStep
    <2>2. chan'[e] = chan[e]
      BY <1>2, <1>6, <2>1 DEF PeerReinvites, PeerHangsUp
    <2>3. inv'[e] = inv[e] /\ (e \in peerUp' <=> e \in peerUp) /\ UNCHANGED wire
      BY <1>6, <2>1 DEF PeerReinvites, PeerHangsUp, TypeOK
    <2> QED
      BY <1>1, <2>2, <2>3 DEF Open, Unacked
  <1> QED
    BY <1>3, <1>4, <1>5, <1>6 DEF PeerActs

LEMMA OneCallAtATime ==
    ASSUME TypeOK, NEW e \in Calls, [Next]_vars
    PROVE  Still(e) \/ Steps(e)
  <1>1. ASSUME NEW c \in Calls, Command(c) \/ TaskDone(c) \/ Deliver(c)
        PROVE  Still(e) \/ Steps(e)
    <2>1. CASE c = e
      BY <1>1, <2>1 DEF Steps
    <2>2. CASE c # e
      BY <1>1, <2>2, CommandApart, TaskApart, DeliverApart
    <2> QED
      BY <2>1, <2>2
  <1> QED
    BY <1>1, RefreshApart, PeerApart, UnchangedIsStill DEF Next, Steps

-----------------------------------------------------------------------------
(* The wire of one call: what is delivered, and what is sent to us *)

LEMMA AppendedElements ==
    ASSUME NEW S, NEW s \in Seq(S), NEW t \in Seq(S)
    PROVE  /\ Len(s \o t) = Len(s) + Len(t)
           /\ \A j \in 1..Len(s): (s \o t)[j] = s[j]
           /\ \A j \in 1..Len(t): (s \o t)[Len(s) + j] = t[j]
  OBVIOUS

LEMMA RemovedElements ==
    ASSUME NEW S, NEW s \in Seq(S), NEW i \in DOMAIN s
    PROVE  /\ Len(RemoveAt(s, i)) = Len(s) - 1
           /\ \A j \in 1..(Len(s) - 1):
                 RemoveAt(s, i)[j] = IF j < i THEN s[j] ELSE s[j + 1]
  <1> DEFINE a == SubSeq(s, 1, i - 1)
             b == SubSeq(s, i + 1, Len(s))
  <1>1. i \in 1..Len(s) /\ Len(s) \in Nat
    OBVIOUS
  <1>2. a \in Seq(S) /\ b \in Seq(S)
    OBVIOUS
  <1>3. Len(a) = i - 1 /\ Len(b) = Len(s) - i
    BY <1>1
  <1>4. /\ \A j \in 1..(i - 1): a[j] = s[j]
        /\ \A j \in 1..(Len(s) - i): b[j] = s[j + i]
    BY <1>1
  <1> HIDE DEF a, b
  <1>5. /\ Len(a \o b) = Len(a) + Len(b)
        /\ \A j \in 1..Len(a): (a \o b)[j] = a[j]
        /\ \A j \in 1..Len(b): (a \o b)[Len(a) + j] = b[j]
    BY <1>2, AppendedElements
  <1>6. ASSUME NEW j \in 1..(Len(s) - 1)
        PROVE  (a \o b)[j] = IF j < i THEN s[j] ELSE s[j + 1]
    <2>1. CASE j < i
      <3>1. j \in 1..(i - 1)
        BY <1>1, <2>1
      <3> QED
        BY <1>3, <1>4, <1>5, <2>1, <3>1
    <2>2. CASE ~(j < i)
      <3> DEFINE k == j - (i - 1)
      <3>1. k \in 1..(Len(s) - i) /\ (i - 1) + k = j /\ k + i = j + 1
        BY <1>1, <2>2
      <3> HIDE DEF k
      <3>2. (a \o b)[(i - 1) + k] = b[k]
        BY <1>3, <1>5, <3>1
      <3>3. b[k] = s[k + i]
        BY <1>4, <3>1
      <3> QED
        BY <2>2, <3>1, <3>2, <3>3
    <2> QED
      BY <2>1, <2>2
  <1>7. Len(a \o b) = Len(s) - 1
    BY <1>1, <1>3, <1>5
  <1> QED
    BY <1>6, <1>7 DEF RemoveAt, a, b

(* An initial INVITE is on the wire to us, and once at most.                *)
Invited(e) == \E m \in Sent(e): m.type = "INVITE"

LoneIn(e, K) == \A i, j \in DOMAIN chan[e]: chan[e][i] \in K /\ chan[e][j] \in K => i = j
Initial == {m \in Message: m.type = "INVITE"}
Lone(e) == LoneIn(e, Initial)

(* A message is taken off the wire and handled; a copy may stay.            *)
Takes(e, m) ==
    /\ m \in Sent(e) /\ m \in Message
    /\ Dispatch(e, m)
    /\ Sent(e)' \subseteq Sent(e)
    /\ Sent(e) \subseteq Sent(e)' \cup {m}
    /\ Sent(e)' \subseteq Message
    /\ \A K: MaxDups = 0 /\ LoneIn(e, K) =>
                LoneIn(e, K)' /\ (m \in K => K \cap Sent(e)' = {})
    /\ UNCHANGED <<offering, answering, connects, farEnd, deaths>>

LEMMA DeliverTakes ==
    ASSUME TypeOK, NEW e \in Calls, Deliver(e)
    PROVE  \E m: Takes(e, m)
  <1>1. PICK i \in DOMAIN chan[e]: Receive(e, i)
    BY DEF Deliver
  <1> DEFINE s == chan[e]
             m == s[i]
  <1>2. s \in Seq(Message) /\ m \in Message /\ i \in 1..Len(s)
    BY DEF TypeOK
  <1>3. m \in Sent(e)
    BY DEF Sent
  <1>4. chan'[e] = s \/ chan'[e] = RemoveAt(s, i)
    BY <1>1 DEF Receive, TypeOK
  <1>5. Sent(e)' \subseteq Sent(e) /\ Sent(e) \subseteq Sent(e)' \cup {m}
    <2>1. CASE chan'[e] = s
      BY <2>1 DEF Sent
    <2>2. CASE chan'[e] = RemoveAt(s, i)
      <3> DEFINE t == RemoveAt(s, i)
      <3>1. t \in Seq(Message) /\ Len(t) = Len(s) - 1
            /\ \A j \in 1..(Len(s) - 1): t[j] = IF j < i THEN s[j] ELSE s[j + 1]
        BY <1>2, RemoveAtType, RemovedElements
      <3> HIDE DEF t
      <3>2. DOMAIN t = 1..(Len(s) - 1) /\ DOMAIN s = 1..Len(s) /\ Len(s) \in Nat
        BY <1>2, <3>1
      <3>3. ASSUME NEW j \in DOMAIN t PROVE t[j] \in Sent(e)
        <4>1. t[j] = s[j] \/ t[j] = s[j + 1]
          BY <3>1, <3>2
        <4>2. j \in DOMAIN s /\ j + 1 \in DOMAIN s
          BY <3>2
        <4> QED
          BY <4>1, <4>2 DEF Sent
      <3>4. ASSUME NEW j \in DOMAIN s, j # i PROVE \E k \in DOMAIN t: s[j] = t[k]
        <4>1. CASE j < i
          <5>1. j \in DOMAIN t /\ t[j] = s[j]
            BY <1>2, <3>1, <3>2, <3>4, <4>1
          <5> QED
            BY <5>1
        <4>2. CASE ~(j < i)
          <5>1. j - 1 \in DOMAIN t /\ t[j - 1] = s[j]
            BY <1>2, <3>1, <3>2, <3>4, <4>2
          <5> QED
            BY <5>1
        <4> QED
          BY <4>1, <4>2
      <3>5. Sent(e)' = {t[j]: j \in DOMAIN t}
        BY <2>2 DEF Sent, t
      <3> QED
        BY <3>3, <3>4, <3>5 DEF Sent
    <2> QED
      BY <1>4, <2>1, <2>2
  <1>6. ASSUME MaxDups = 0, NEW K, LoneIn(e, K)
        PROVE  LoneIn(e, K)' /\ (m \in K => K \cap Sent(e)' = {})
    <2> DEFINE t == RemoveAt(s, i)
               was(j) == IF j < i THEN j ELSE j + 1
    <2>1. chan'[e] = t
      BY <1>1, <1>6 DEF Receive, TypeOK
    <2>2. t \in Seq(Message) /\ Len(t) = Len(s) - 1
          /\ \A j \in 1..(Len(s) - 1): t[j] = IF j < i THEN s[j] ELSE s[j + 1]
      BY <1>2, RemoveAtType, RemovedElements
    <2> HIDE DEF t
    <2>3. DOMAIN t = 1..(Len(s) - 1) /\ DOMAIN s = 1..Len(s) /\ Len(s) \in Nat
      BY <1>2, <2>2
    <2>4. ASSUME NEW j \in DOMAIN t
          PROVE  t[j] = s[was(j)] /\ was(j) \in DOMAIN s /\ was(j) # i
      BY <1>2, <2>2, <2>3
    <2>5. ASSUME NEW j \in DOMAIN t, NEW k \in DOMAIN t, was(j) = was(k)
          PROVE  j = k
      BY <1>2, <2>3, <2>5
    <2> HIDE DEF was
    <2>6. LoneIn(e, K)'
      BY <1>6, <2>1, <2>4, <2>5 DEF LoneIn
    <2>7. m \in K => K \cap Sent(e)' = {}
      BY <1>2, <1>6, <2>1, <2>3, <2>4 DEF LoneIn, Sent
    <2> QED
      BY <2>6, <2>7
  <1>7. Sent(e)' \subseteq Message
    BY <1>5, LocalTypes DEF LocalType
  <1>8. Takes(e, m)
    BY <1>1, <1>2, <1>3, <1>5, <1>6, <1>7 DEF Takes, Receive
  <1> QED
    BY <1>8

LEMMA LoneTaken ==
    ASSUME NEW e, NEW m \in Message, Sent(e)' \subseteq Message, MaxDups = 0, Lone(e),
           \A K: MaxDups = 0 /\ LoneIn(e, K) =>
                LoneIn(e, K)' /\ (m \in K => K \cap Sent(e)' = {})
    PROVE  Lone(e)' /\ (m.type = "INVITE" => ~Invited(e)')
  BY DEF Lone, Initial, Invited

LEMMA PostSends ==
    ASSUME TypeOK, NEW e \in Calls, NEW ms \in Seq(Message), Post(e, ms)
    PROVE  Sent(e)' = Sent(e) \cup {ms[i]: i \in DOMAIN ms}
  <1> DEFINE s == chan[e]
             t == s \o ms
             new == {ms[i]: i \in DOMAIN ms}
  <1>1. s \in Seq(Message) /\ chan'[e] = t
    BY DEF TypeOK, Post
  <1>2. /\ t \in Seq(Message) /\ Len(t) = Len(s) + Len(ms)
        /\ \A j \in 1..Len(s): t[j] = s[j]
        /\ \A j \in 1..Len(ms): t[Len(s) + j] = ms[j]
    BY <1>1, AppendedElements
  <1>3. Len(s) \in Nat /\ Len(ms) \in Nat /\ DOMAIN s = 1..Len(s)
        /\ DOMAIN ms = 1..Len(ms)
    BY <1>1
  <1>4. Sent(e)' = {t[j]: j \in DOMAIN t} /\ Sent(e) = {s[j]: j \in DOMAIN s}
    BY <1>1 DEF Sent
  <1> HIDE DEF t, s
  <1>5. DOMAIN t = 1..(Len(s) + Len(ms))
    BY <1>2
  <1>6. ASSUME NEW j \in DOMAIN t PROVE t[j] \in Sent(e) \cup new
    <2>1. CASE j \in 1..Len(s)
      BY <1>2, <1>3, <1>4, <2>1
    <2>2. CASE j \notin 1..Len(s)
      <3>1. j - Len(s) \in 1..Len(ms) /\ Len(s) + (j - Len(s)) = j
        BY <1>3, <1>5, <2>2
      <3>2. t[j] = ms[j - Len(s)]
        BY <1>2, <3>1
      <3> QED
        BY <1>3, <3>1, <3>2
    <2> QED
      BY <2>1, <2>2
  <1>7. ASSUME NEW j \in DOMAIN s PROVE s[j] \in Sent(e)'
    <2>1. j \in DOMAIN t /\ t[j] = s[j]
      BY <1>2, <1>3, <1>5
    <2> QED
      BY <1>4, <2>1
  <1>8. ASSUME NEW j \in DOMAIN ms PROVE ms[j] \in Sent(e)'
    <2>1. Len(s) + j \in DOMAIN t /\ t[Len(s) + j] = ms[j]
      BY <1>2, <1>3, <1>5
    <2> QED
      BY <1>4, <2>1
  <1>9. ASSUME NEW x \in Sent(e)' PROVE x \in Sent(e) \cup new
    BY <1>4, <1>6
  <1>10. ASSUME NEW x \in Sent(e) \cup new PROVE x \in Sent(e)'
    BY <1>4, <1>7, <1>8
  <1> HIDE DEF new
  <1>11. Sent(e)' = Sent(e) \cup new
    BY <1>9, <1>10
  <1> QED
    BY <1>11 DEF new

LEMMA PostLone ==
    ASSUME TypeOK, NEW e \in Calls, NEW ms \in Seq(Message), Post(e, ms),
           NEW K, LoneIn(e, K),
           \/ \A i \in DOMAIN ms: ms[i] \notin K
           \/ K \cap Sent(e) = {} /\ Len(ms) = 1
    PROVE  LoneIn(e, K)'
  <1> DEFINE s == chan[e]
             t == s \o ms
  <1>1. s \in Seq(Message) /\ chan'[e] = t
    BY DEF TypeOK, Post
  <1>2. /\ t \in Seq(Message) /\ Len(t) = Len(s) + Len(ms)
        /\ \A j \in 1..Len(s): t[j] = s[j]
        /\ \A j \in 1..Len(ms): t[Len(s) + j] = ms[j]
    BY <1>1, AppendedElements
  <1>3. Len(s) \in Nat /\ Len(ms) \in Nat /\ DOMAIN s = 1..Len(s)
        /\ DOMAIN ms = 1..Len(ms)
    BY <1>1
  <1> HIDE DEF t
  <1>4. DOMAIN t = 1..(Len(s) + Len(ms))
    BY <1>2
  <1>5. ASSUME NEW j \in DOMAIN t, t[j] \in K
        PROVE  \/ j \in DOMAIN s /\ s[j] \in K
               \/ j = Len(s) + 1 /\ Len(ms) = 1 /\ K \cap Sent(e) = {}
    <2>1. CASE j \in 1..Len(s)
      BY <1>2, <1>3, <1>5, <2>1
    <2>2. CASE j \notin 1..Len(s)
      <3>1. j - Len(s) \in 1..Len(ms) /\ Len(s) + (j - Len(s)) = j
        BY <1>3, <1>4, <2>2
      <3>2. t[j] = ms[j - Len(s)]
        BY <1>2, <3>1
      <3>3. K \cap Sent(e) = {} /\ Len(ms) = 1
        BY <1>3, <1>5, <3>1, <3>2
      <3> QED
        BY <1>3, <3>1, <3>3
    <2> QED
      BY <2>1, <2>2
  <1>6. ASSUME NEW j \in DOMAIN s, s[j] \in K PROVE K \cap Sent(e) # {}
    BY <1>6 DEF Sent
  <1> QED
    BY <1>1, <1>5, <1>6 DEF LoneIn

(* What the far end adds to the wire of this call.                          *)
Says(e, ms) ==
    /\ ms \subseteq Message /\ Sent(e)' = Sent(e) \cup ms
    /\ \A K: LoneIn(e, K) /\ ms \cap K = {} => LoneIn(e, K)'
    /\ \A K: LoneIn(e, K) /\ K \cap Sent(e) = {} /\ (\A m, n \in ms: m = n) => LoneIn(e, K)'

LEMMA OneSaid ==
    ASSUME TypeOK, NEW e \in Calls, NEW m \in Message, Post(e, <<m>>)
    PROVE  Says(e, {m})
  <1>1. <<m>> \in Seq(Message) /\ {<<m>>[i]: i \in DOMAIN <<m>>} = {m} /\ Len(<<m>>) = 1
        /\ \A i \in DOMAIN <<m>>: <<m>>[i] = m
    OBVIOUS
  <1> QED
    BY <1>1, PostSends, PostLone DEF Says

LEMMA TwoSaid ==
    ASSUME TypeOK, NEW e \in Calls, NEW m \in Message, NEW n \in Message,
           m # n, Post(e, <<m, n>>)
    PROVE  Says(e, {m, n})
  <1>1. <<m, n>> \in Seq(Message) /\ {<<m, n>>[i]: i \in DOMAIN <<m, n>>} = {m, n}
        /\ \A i \in DOMAIN <<m, n>>: <<m, n>>[i] \in {m, n}
    OBVIOUS
  <1> QED
    BY <1>1, PostSends, PostLone DEF Says

LEMMA LoneSaid ==
    ASSUME NEW e, NEW ms, Sent(e) \subseteq Message, Says(e, ms), Lone(e),
           \/ \A m \in ms: m.type # "INVITE"
           \/ ~Invited(e) /\ \A m, n \in ms: m = n
    PROVE  Lone(e)'
  <1>1. CASE \A m \in ms: m.type # "INVITE"
    <2>1. ms \cap Initial = {}
      BY <1>1 DEF Initial
    <2> QED
      BY <2>1 DEF Says, Lone
  <1>2. CASE ~Invited(e) /\ \A m, n \in ms: m = n
    <2>1. Initial \cap Sent(e) = {}
      BY <1>2 DEF Initial, Invited
    <2> QED
      BY <1>2, <2>1 DEF Says, Lone
  <1> QED
    BY <1>1, <1>2

(* The far end on a request of ours: it rings, accepts an INVITE, refuses,  *)
(* takes the BYE, or takes another request.                                 *)
Rings(e, r) ==
    /\ r.kind = "INVITE" /\ ~r.rang
    /\ Open(e)' = (Open(e) \ {r}) \cup {[r EXCEPT !.rang = TRUE]}
    /\ Says(e, {Reply(r, 180, "good", "none")})
    /\ Unacked(e)' = Unacked(e) /\ FarEndSame(e)

Accepts(e, r) ==
    /\ r.kind \in InviteKinds
    /\ r.kind # "INVITE" => e \in peerUp
    /\ e \in peerUp'
    /\ Open(e)' = Open(e) \ {r}
    /\ Unacked(e)' = Unacked(e) \cup {r.cseq}
    /\ \E ok \in {"good", "bad"}, t \in Refreshers \cup {"none"}:
          /\ Says(e, {Reply(r, 200, ok, t)})
          /\ t = "none" \/ r.kind \in {"INVITE", "refresh"}
          /\ t \in Refreshers \/ r.kind \in {"hold", "resume"}
    /\ inv'[e] = inv[e]

Refuses(e, r) ==
    /\ Open(e)' = Open(e) \ {r}
    /\ \E s \in {401, 422, 486}, ok \in {"good", "bad", "absent"}:
          /\ Says(e, {Reply(r, s, ok, "none")})
          /\ s = 486 \/ r.kind = "INVITE"
    /\ r.kind # "INVITE" =>
          e \notin peerUp \/ r.kind = "REFER" \/ (RefusesInDialog /\ r.kind # "BYE")
    /\ Unacked(e)' = Unacked(e) /\ FarEndSame(e)

TakesBye(e, r) ==
    /\ r.kind = "BYE"
    /\ Open(e)' = Open(e) \ {r}
    /\ e \notin peerUp'
    /\ Says(e, {Reply(r, 200, "good", "none")})
    /\ Unacked(e)' = Unacked(e) /\ inv'[e] = inv[e]

TakesOther(e, r) ==
    /\ r.kind \in {"INFO", "REFER"}
    /\ Open(e)' = Open(e) \ {r}
    /\ Says(e, {Reply(r, 200, "good", "none")})
    /\ Unacked(e)' = Unacked(e) /\ FarEndSame(e)

(* The far end on its own requests.                                         *)
Invites(e) ==
    /\ inv[e] = "none" /\ inv'[e] = "sent"
    /\ \E body \in {"sendrecv", "bad"}, t \in Refreshers:
          Says(e, {ReqMsg("INVITE", body, t)})
    /\ e \in peerUp' <=> e \in peerUp

Cancels(e) ==
    /\ inv[e] = "sent" /\ inv'[e] = "cancelled"
    /\ Says(e, {Bare("CANCEL")})
    /\ e \in peerUp' <=> e \in peerUp

GetsFinal(e, f) ==
    /\ f \in finals[e] /\ finals'[e] = finals[e] \ {f}
    /\ inv'[e] = "done"
    /\ e \in peerUp' <=> (e \in peerUp \/ (f = "answer" /\ inv[e] = "sent"))
    /\ Says(e, IF f = "answer" /\ inv[e] = "cancelled"
               THEN {Bare("ACK"), Bare("BYE")} ELSE {Bare("ACK")})
    /\ RequestsSame(e)

Reinvites(e) ==
    /\ e \in peerUp /\ e \in peerUp'
    /\ inv[e] \in {"none", "done"} /\ inv'[e] = "asking"
    /\ MaxPeerReqs > 0 /\ peerReqs' > 0
    /\ \E body \in {"sendrecv", "sendonly"}:
          Says(e, {ReqMsg("reINVITE", body, "none")})

HangsUp(e) ==
    /\ e \in peerUp /\ e \notin peerUp'
    /\ Says(e, {Bare("BYE")})
    /\ inv'[e] = inv[e]

OursSame(e) == DialogSame(e) /\ ClientSame(e) /\ TasksSame(e)

FarEndActs(e) ==
    /\ OursSame(e)
    /\ \/ \E r \in Open(e) \cap Request:
             /\ FinalsSame(e)
             /\ \/ Rings(e, r)
                \/ Reached(r) /\ (\/ Accepts(e, r) \/ Refuses(e, r)
                                  \/ TakesBye(e, r) \/ TakesOther(e, r))
       \/ e \in InCalls /\ RequestsSame(e) /\ FinalsSame(e)
                        /\ (Invites(e) \/ Cancels(e))
       \/ \E f \in {"answer", "decline"}: GetsFinal(e, f)
       \/ RequestsSame(e) /\ FinalsSame(e) /\ (Reinvites(e) \/ HangsUp(e))

LEMMA RepliesAre ==
    ASSUME NEW r \in Request, NEW s \in {180, 200, 401, 422, 486},
           NEW ok \in {"good", "bad", "absent"}, NEW t \in Refreshers \cup {"none"}
    PROVE  Reply(r, s, ok, t) \in Message
  <1>1. t \in Refresher
    BY RefreshersAssumption DEF Refresher
  <1> QED
    BY <1>1, MessageType

LEMMA PeerOnRequest ==
    ASSUME TypeOK, NEW e \in Calls, NEW r \in Open(e), PeerRings(r) \/ PeerAnswers(r)
    PROVE  /\ r \in Request /\ FinalsSame(e)
           /\ \/ Rings(e, r)
              \/ Reached(r) /\ (\/ Accepts(e, r) \/ Refuses(e, r)
                                \/ TakesBye(e, r) \/ TakesOther(e, r))
  <1>1. r \in Request /\ r.call = e /\ r \in open /\ r.cseq \in Nat
    BY DEF Open, TypeOK, Request
  <1>2. ASSUME open' = open \ {r} PROVE Open(e)' = Open(e) \ {r}
    BY <1>2 DEF Open
  <1>3. ASSUME UNCHANGED unacked PROVE Unacked(e)' = Unacked(e)
    BY <1>3 DEF Unacked
  <1>4. ASSUME NEW s \in {180, 200, 401, 422, 486}, NEW ok \in {"good", "bad", "absent"},
               NEW t \in Refreshers \cup {"none"}, Post(e, <<Reply(r, s, ok, t)>>)
        PROVE  Says(e, {Reply(r, s, ok, t)})
    <2>1. Reply(r, s, ok, t) \in Message
      BY <1>1, RepliesAre
    <2> HIDE DEF Reply
    <2> QED
      BY <1>4, <2>1, OneSaid
  <1>5. CASE PeerRings(r)
    <2>1. Says(e, {Reply(r, 180, "good", "none")})
      BY <1>1, <1>4, <1>5 DEF PeerRings
    <2>2. [r EXCEPT !.rang = TRUE].call = e
      BY <1>1 DEF Request
    <2>3. Open(e)' = (Open(e) \ {r}) \cup {[r EXCEPT !.rang = TRUE]}
      BY <1>5, <2>2 DEF PeerRings, Open
    <2> QED
      BY <1>1, <1>3, <1>5, <2>1, <2>3 DEF PeerRings, Rings, FarEndSame, FinalsSame, farEnd
  <1>6. CASE Reached(r) /\ PeerAccepts(r)
    <2>1. PICK ok \in {"good", "bad"}, t \in Refreshers \cup {"none"}:
            /\ Post(e, <<Reply(r, 200, ok, t)>>)
            /\ t = "none" \/ r.kind \in {"INVITE", "refresh"}
            /\ t \in Refreshers \/ r.kind \in {"hold", "resume"}
      <3>1. PICK ok \in IF r.kind = "INVITE" THEN {"good", "bad"} ELSE {"good"},
                 t \in IF r.kind \in {"INVITE", "refresh"} THEN Refreshers ELSE {"none"}:
                    Post(r.call, <<Reply(r, 200, ok, t)>>)
        BY <1>6 DEF PeerAccepts
      <3>2. r.kind \in InviteKinds
        BY <1>6 DEF PeerAccepts, InviteKinds
      <3> QED
        BY <1>1, <3>1, <3>2 DEF InviteKinds
    <2>2. Says(e, {Reply(r, 200, ok, t)})
      BY <1>4, <2>1
    <2>3. Unacked(e)' = Unacked(e) \cup {r.cseq}
      BY <1>1, <1>6 DEF PeerAccepts, Unacked
    <2>4. /\ r.kind \in InviteKinds
          /\ r.kind # "INVITE" => e \in peerUp
          /\ e \in peerUp'
          /\ Open(e)' = Open(e) \ {r}
          /\ inv'[e] = inv[e]
      BY <1>1, <1>2, <1>6 DEF PeerAccepts, InviteKinds
    <2>5. Accepts(e, r)
      BY <2>1, <2>2, <2>3, <2>4 DEF Accepts
    <2> QED
      BY <1>1, <1>5, <1>6, <2>5 DEF PeerAccepts, PeerAnswers, FinalsSame
  <1>7. CASE Reached(r) /\ PeerRefuses(r)
    <2>1. PICK s \in {401, 422, 486}, ok \in {"good", "bad", "absent"}:
            Post(e, <<Reply(r, s, ok, "none")>>) /\ (s = 486 \/ r.kind = "INVITE")
      BY <1>1, <1>7 DEF PeerRefuses
    <2>2. Says(e, {Reply(r, s, ok, "none")})
      BY <1>4, <2>1
    <2>3. /\ Open(e)' = Open(e) \ {r}
          /\ r.kind # "INVITE" =>
                e \notin peerUp \/ r.kind = "REFER" \/ (RefusesInDialog /\ r.kind # "BYE")
      BY <1>1, <1>2, <1>7 DEF PeerRefuses
    <2>4. Unacked(e)' = Unacked(e) /\ FarEndSame(e)
      BY <1>3, <1>7 DEF PeerRefuses, FarEndSame, farEnd
    <2>5. Refuses(e, r)
      BY <2>1, <2>2, <2>3, <2>4 DEF Refuses
    <2> QED
      BY <1>1, <1>7, <2>5 DEF PeerRefuses, FinalsSame
  <1>8. CASE Reached(r) /\ PeerTakesBye(r)
    <2>1. Says(e, {Reply(r, 200, "good", "none")})
      BY <1>1, <1>4, <1>8 DEF PeerTakesBye
    <2> QED
      BY <1>1, <1>2, <1>3, <1>8, <2>1 DEF PeerTakesBye, PeerAnswers, TakesBye, FinalsSame
  <1>9. CASE Reached(r) /\ PeerTakesOther(r)
    <2>1. Says(e, {Reply(r, 200, "good", "none")})
      BY <1>1, <1>4, <1>9 DEF PeerTakesOther
    <2> QED
      BY <1>1, <1>2, <1>3, <1>9, <2>1
      DEF PeerTakesOther, PeerAnswers, TakesOther, FinalsSame, FarEndSame, farEnd
  <1> QED
    BY <1>5, <1>6, <1>7, <1>8, <1>9 DEF PeerAnswers

LEMMA BareIs ==
    /\ Bare("ACK") \in Message /\ Bare("BYE") \in Message /\ Bare("CANCEL") \in Message
    /\ Bare("ACK").type = "ACK" /\ Bare("BYE").type = "BYE" /\ Bare("CANCEL").type = "CANCEL"
  BY MessageType DEF Bare, ReqMsg

LEMMA PeerOnItsOwn ==
    ASSUME TypeOK, NEW e \in Calls
    PROVE  /\ e \in InCalls /\ PeerInvites(e) =>
                 Invites(e) /\ RequestsSame(e) /\ FinalsSame(e)
           /\ e \in InCalls /\ PeerCancels(e) =>
                 Cancels(e) /\ RequestsSame(e) /\ FinalsSame(e)
           /\ PeerReinvites(e) => Reinvites(e) /\ RequestsSame(e) /\ FinalsSame(e)
           /\ PeerHangsUp(e) => HangsUp(e) /\ RequestsSame(e) /\ FinalsSame(e)
  <1>1. UNCHANGED wire => RequestsSame(e) /\ FinalsSame(e)
    BY DEF wire, RequestsSame, FinalsSame, Open, Unacked
  <1>2. ASSUME PeerInvites(e)
        PROVE  Invites(e) /\ RequestsSame(e) /\ FinalsSame(e)
    <2>1. PICK body \in {"sendrecv", "bad"}, t \in Refreshers:
            Post(e, <<ReqMsg("INVITE", body, t)>>)
      BY <1>2 DEF PeerInvites
    <2>2. ReqMsg("INVITE", body, t) \in Message
      <3>1. t \in Refresher
        BY RefreshersAssumption DEF Refresher
      <3> QED
        BY <3>1, MessageType
    <2>3. Says(e, {ReqMsg("INVITE", body, t)})
      BY <2>1, <2>2, OneSaid
    <2>4. inv[e] = "none" /\ inv'[e] = "sent" /\ UNCHANGED <<wire, peerUp>>
      BY <1>2 DEF PeerInvites, TypeOK
    <2> QED
      BY <1>1, <2>3, <2>4 DEF Invites
  <1>3. ASSUME PeerCancels(e)
        PROVE  Cancels(e) /\ RequestsSame(e) /\ FinalsSame(e)
    <2>1. Says(e, {Bare("CANCEL")})
      BY <1>3, BareIs, OneSaid DEF PeerCancels
    <2>2. inv[e] = "sent" /\ inv'[e] = "cancelled" /\ UNCHANGED <<wire, peerUp>>
      BY <1>3 DEF PeerCancels, TypeOK
    <2> QED
      BY <1>1, <2>1, <2>2 DEF Cancels
  <1>4. ASSUME PeerReinvites(e)
        PROVE  Reinvites(e) /\ RequestsSame(e) /\ FinalsSame(e)
    <2>1. PICK body \in {"sendrecv", "sendonly"}:
            Post(e, <<ReqMsg("reINVITE", body, "none")>>)
      BY <1>4 DEF PeerReinvites
    <2>2. ReqMsg("reINVITE", body, "none") \in Message
      BY MessageType DEF Refresher
    <2>3. Says(e, {ReqMsg("reINVITE", body, "none")})
      BY <2>1, <2>2, OneSaid
    <2>4. /\ inv[e] \in {"none", "done"} /\ inv'[e] = "asking" /\ e \in peerUp
          /\ UNCHANGED <<wire, peerUp>>
      BY <1>4 DEF PeerReinvites, TypeOK
    <2>5. MaxPeerReqs > 0 /\ peerReqs' > 0
      BY <1>4, BoundsAssumption DEF PeerReinvites, TypeOK
    <2> QED
      BY <1>1, <2>3, <2>4, <2>5 DEF Reinvites
  <1>5. ASSUME PeerHangsUp(e)
        PROVE  HangsUp(e) /\ RequestsSame(e) /\ FinalsSame(e)
    <2>1. Says(e, {Bare("BYE")})
      BY <1>5, BareIs, OneSaid DEF PeerHangsUp
    <2> QED
      BY <1>1, <1>5, <2>1 DEF PeerHangsUp, HangsUp
  <1> QED
    BY <1>2, <1>3, <1>4, <1>5

LEMMA PeerOnFinal ==
    ASSUME TypeOK, NEW e \in Calls, NEW f \in finals[e], PeerGetsFinal(e, f)
    PROVE  GetsFinal(e, f) /\ f \in {"answer", "decline"}
  <1>1. /\ f \in {"answer", "decline"}
        /\ finals'[e] = finals[e] \ {f} /\ inv'[e] = "done"
        /\ e \in peerUp' <=> (e \in peerUp \/ (f = "answer" /\ inv[e] = "sent"))
        /\ RequestsSame(e)
    BY DEF TypeOK, PeerGetsFinal, RequestsSame, Open, Unacked
  <1>2. Says(e, IF f = "answer" /\ inv[e] = "cancelled"
                THEN {Bare("ACK"), Bare("BYE")} ELSE {Bare("ACK")})
    BY BareIs, OneSaid, TwoSaid DEF PeerGetsFinal
  <1> QED
    BY <1>1, <1>2 DEF GetsFinal

LEMMA FarEndStep ==
    ASSUME TypeOK, NEW e \in Calls, PeerStep(e)
    PROVE  FarEndActs(e)
  <1>1. OursSame(e)
    BY DEF PeerStep, OursSame, Ours, tasks, client, DialogSame, ClientSame, TasksSame
  <1>2. ASSUME NEW r \in Open(e), PeerRings(r) \/ PeerAnswers(r) PROVE FarEndActs(e)
    BY <1>1, <1>2, PeerOnRequest DEF FarEndActs
  <1>3. ASSUME NEW f \in finals[e], PeerGetsFinal(e, f) PROVE FarEndActs(e)
    BY <1>1, <1>3, PeerOnFinal DEF FarEndActs
  <1> QED
    BY <1>1, <1>2, <1>3, PeerOnItsOwn DEF PeerStep, FarEndActs

-----------------------------------------------------------------------------
(* What our own steps do to the state of one call *)

(* The dialog becomes d, the client's view v.                               *)
Becomes(e, d, v) == dialogs'[e] = d /\ view'[e] = v
Asks(e, r) == Open(e)' = Open(e) \cup {r}

Dials(e) ==
    /\ e \in OutCalls /\ view[e] = "idle"
    /\ \/ Becomes(e, dialogs[e], "over") /\ (e \in offering' <=> e \in offering)
       \/ Becomes(e, dialogs[e], "asked") /\ e \in offering'
    /\ Open(e)' = Open(e) /\ FinalsSame(e) /\ answering'[e] = answering[e]

Declines(e) ==
    /\ view[e] = "incoming" /\ Live(e)
    /\ Becomes(e, NoDialog, "over") \/ Becomes(e, NoDialog, "closed")
    /\ finals'[e] = finals[e] \cup {"decline"}
    /\ Open(e)' = Open(e) /\ answering'[e] = answering[e]
    /\ e \in offering' <=> e \in offering

TakesUp(e) ==
    /\ view[e] = "incoming" /\ Live(e)
    /\ Becomes(e, dialogs[e], "accepting")
    /\ answering'[e] = answering[e] + 1
    /\ Open(e)' = Open(e) /\ FinalsSame(e)
    /\ e \in offering' <=> e \in offering

Quits(e) ==
    /\ MayHangUp(e)
    /\ Becomes(e, Closing(dialogs[e]), "closed")
    /\ Asks(e, RequestOf(e, "BYE", Closing(dialogs[e])))
    /\ FinalsSame(e) /\ answering'[e] = answering[e]
    /\ e \in offering' <=> e \in offering

InDialogKind == {"hold", "resume", "INFO", "REFER"}
Asked(d, kind) == IF kind \in {"hold", "resume"} THEN Reinvite(d, kind) ELSE Bump(d)

Requests(e) ==
    /\ MayAsk(e)
    /\ \E kind \in InDialogKind:
          /\ kind \in {"hold", "resume"} =>
                dialogs[e].media /\ (OneAtATime => dialogs[e].holdPending = "none")
          /\ kind = "resume" => dialogs[e].sdp = "sendonly"
          /\ Becomes(e, Asked(dialogs[e], kind), view[e])
          /\ Asks(e, RequestOf(e, kind, Asked(dialogs[e], kind)))
    /\ FinalsSame(e) /\ answering'[e] = answering[e]
    /\ e \in offering' <=> e \in offering

Commands(e) ==
    /\ ChanSame(e) /\ FarEndSame(e)
    /\ connects'[e] = connects[e] /\ (e \in connecting' <=> e \in connecting)
    /\ Unacked(e)' = Unacked(e)
    /\ Dials(e) \/ Declines(e) \/ TakesUp(e) \/ Quits(e) \/ Requests(e)

LEMMA CommandStep ==
    ASSUME TypeOK, NEW e \in Calls, Command(e)
    PROVE  Commands(e)
  <1> USE DEF Commands, ChanSame, FarEndSame, FinalsSame, Becomes, Asks, tasks, client,
              wire, farEnd, faults
  <1>1. ASSUME InitiateCall(e), e \in OutCalls PROVE Commands(e)
    BY <1>1 DEF InitiateCall, Dials, Tell, TypeOK, Open, Unacked
  <1>2. CASE AcceptCall(e)
    <2>1. CASE Decline(e) /\ Tell(e, "over") /\ UNCHANGED answering
      BY <1>2, <2>1 DEF AcceptCall, Declines, Decline, Erase, Tell, TypeOK, Open, Unacked
    <2>2. CASE ~(Decline(e) /\ Tell(e, "over") /\ UNCHANGED answering)
      BY <1>2, <2>2 DEF AcceptCall, TakesUp, Tell, TypeOK, Open, Unacked
    <2> QED
      BY <2>1, <2>2
  <1>3. CASE RejectCall(e)
    BY <1>3 DEF RejectCall, Declines, Decline, Erase, Tell, TypeOK, Open, Unacked
  <1>4. ASSUME NEW d, NEW kind, Put(e, d), Send(RequestOf(e, kind, d))
        PROVE  dialogs'[e] = d /\ Asks(e, RequestOf(e, kind, d))
    <2>1. RequestOf(e, kind, d).call = e
      BY DEF RequestOf
    <2> HIDE DEF RequestOf
    <2> QED
      BY <1>4, <2>1 DEF Put, Send, TypeOK, Open
  <1>5. CASE HangUp(e)
    <2>1. dialogs'[e] = Closing(dialogs[e])
          /\ Asks(e, RequestOf(e, "BYE", Closing(dialogs[e])))
      BY <1>4, <1>5 DEF HangUp
    <2>2. view'[e] = "closed"
      BY <1>5 DEF HangUp, Tell, TypeOK
    <2> QED
      BY <1>5, <2>1, <2>2 DEF HangUp, Quits, Unacked
  <1>6. ASSUME NEW kind \in {"hold", "resume"}, SendReinvite(e, kind) PROVE Commands(e)
    <2> DEFINE d == Reinvite(dialogs[e], kind)
    <2>1. dialogs'[e] = d /\ Asks(e, RequestOf(e, kind, d))
      BY <1>4, <1>6 DEF SendReinvite
    <2>2. kind \in InDialogKind /\ d = Asked(dialogs[e], kind)
      BY DEF InDialogKind, Asked
    <2>3. /\ MayAsk(e) /\ dialogs[e].media
          /\ kind = "resume" => dialogs[e].sdp = "sendonly"
          /\ OneAtATime => dialogs[e].holdPending = "none"
          /\ UNCHANGED <<tasks, client, unacked, finals, chan, farEnd, faults>>
      BY <1>6 DEF SendReinvite
    <2>4. view'[e] = view[e]
      BY <2>3
    <2> HIDE DEF d
    <2>5. Requests(e)
      BY <2>1, <2>2, <2>3, <2>4 DEF Requests
    <2> QED
      BY <2>3, <2>5 DEF Unacked
  <1>7. ASSUME NEW kind \in {"INFO", "REFER"}, SendInDialog(e, kind) PROVE Commands(e)
    <2> DEFINE d == Bump(dialogs[e])
    <2>1. dialogs'[e] = d /\ Asks(e, RequestOf(e, kind, d))
      BY <1>4, <1>7 DEF SendInDialog
    <2>2. kind \in InDialogKind /\ d = Asked(dialogs[e], kind)
          /\ kind \notin {"hold", "resume"}
      BY DEF InDialogKind, Asked
    <2>3. MayAsk(e)
          /\ UNCHANGED <<tasks, client, unacked, finals, chan, farEnd, faults>>
      BY <1>7 DEF SendInDialog
    <2>4. view'[e] = view[e]
      BY <2>3
    <2> HIDE DEF d
    <2>5. Requests(e)
      BY <2>1, <2>2, <2>3, <2>4 DEF Requests
    <2> QED
      BY <2>3, <2>5 DEF Unacked
  <1> QED
    BY <1>1, <1>2, <1>3, <1>5, <1>6, <1>7 DEF Command, SendDtmfInfo, Transfer

OfferReady(e) ==
    /\ e \in offering /\ e \notin offering'
    /\ \/ Becomes(e, dialogs[e], "over") /\ Open(e)' = Open(e)
       \/ /\ Becomes(e, NewOutgoing, view[e])
          /\ Asks(e, RequestOf(e, "INVITE", NewOutgoing))
    /\ connects'[e] = connects[e] /\ (e \in connecting' <=> e \in connecting)
    /\ answering'[e] = answering[e] /\ FinalsSame(e)

AnswerReady(e) ==
    /\ answering[e] > 0 /\ answering'[e] = answering[e] - 1
    /\ IF Live(e)
       THEN /\ Becomes(e, Answered(dialogs[e]), "connected")
            /\ finals'[e] = finals[e] \cup {"answer"}
       ELSE Becomes(e, dialogs[e], view[e]) /\ FinalsSame(e)
    /\ Open(e)' = Open(e) /\ connects'[e] = connects[e]
    /\ e \in offering' <=> e \in offering
    /\ e \in connecting' <=> e \in connecting

ChecksDone(e) ==
    /\ e \in connecting /\ e \notin connecting'
    /\ IF Live(e)
       THEN /\ Becomes(e, [dialogs[e] EXCEPT !.media = TRUE], "connected")
            /\ connects'[e] = connects[e] + 1
       ELSE Becomes(e, dialogs[e], view[e]) /\ connects'[e] = connects[e]
    /\ Open(e)' = Open(e) /\ FinalsSame(e) /\ answering'[e] = answering[e]
    /\ e \in offering' <=> e \in offering

Finishes(e) ==
    /\ ChanSame(e) /\ FarEndSame(e) /\ Unacked(e)' = Unacked(e)
    /\ OfferReady(e) \/ AnswerReady(e) \/ ChecksDone(e)

LEMMA TaskStep ==
    ASSUME TypeOK, NEW e \in Calls, TaskDone(e)
    PROVE  Finishes(e)
  <1> USE DEF Finishes, ChanSame, FarEndSame, FinalsSame, Becomes, Asks, wire, farEnd,
              faults
  <1>1. CASE OutgoingOfferReady(e)
    <2> DEFINE r == RequestOf(e, "INVITE", NewOutgoing)
    <2>1. r.call = e
      BY DEF RequestOf
    <2>2. \/ Tell(e, "over") /\ UNCHANGED <<dialogs, open>>
          \/ Put(e, NewOutgoing) /\ Send(r) /\ UNCHANGED view
      BY <1>1 DEF OutgoingOfferReady
    <2> HIDE DEF r
    <2>3. \/ Becomes(e, dialogs[e], "over") /\ Open(e)' = Open(e)
          \/ Becomes(e, NewOutgoing, view[e]) /\ Asks(e, r)
      BY <2>1, <2>2 DEF Tell, Put, Send, TypeOK, Open
    <2> QED
      BY <1>1, <2>3 DEF OutgoingOfferReady, OfferReady, Unacked, r
  <1>2. CASE IncomingAnswerReady(e)
    BY <1>2 DEF IncomingAnswerReady, AnswerReady, Put, Tell, TypeOK, Open, Unacked
  <1>3. CASE OutgoingConnected(e)
    BY <1>3 DEF OutgoingConnected, ChecksDone, Put, Tell, TypeOK, Open, Unacked
  <1> QED
    BY <1>1, <1>2, <1>3 DEF TaskDone

(* What a delivered message does to the call it is for.                     *)
NothingElse(e) ==
    /\ Open(e)' = Open(e) /\ Unacked(e)' = Unacked(e) /\ FinalsSame(e)
    /\ e \in connecting' <=> e \in connecting

Reinvited(d, m) == [d EXCEPT !.held = (m.body = "sendonly"), !.armed = @ \/ d.timer]

GetsInvite(e, m) ==
    /\ m.type \in {"INVITE", "reINVITE"}
    /\ IF Live(e) /\ dialogs[e].state = "Confirmed"
       THEN /\ Becomes(e, Reinvited(dialogs[e], m), view[e])
            /\ finals'[e] = finals[e] \cup {"answer"}
       ELSE /\ Becomes(e, NewIncoming(m.body # "bad", m.timer), "incoming")
            /\ FinalsSame(e)
    /\ Open(e)' = Open(e) /\ Unacked(e)' = Unacked(e)
    /\ e \in connecting' <=> e \in connecting

IsOver(e, m) ==
    /\ \/ m.type \in {"BYE", "CANCEL"}
       \/ /\ m.type = "response" /\ Live(e) /\ m.method # "REFER"
          /\ m.status >= 300 \/ (m.status = 200 /\ m.method = "BYE")
    /\ Becomes(e, NoDialog, "over")
    /\ NothingElse(e)

GetsAck(e, m) ==
    /\ m.type = "ACK"
    /\ Becomes(e, IF Live(e) /\ dialogs[e].state = "Calling"
                  THEN [dialogs[e] EXCEPT !.state = "Confirmed"] ELSE dialogs[e], view[e])
    /\ NothingElse(e)

IsIgnored(e, m) ==
    /\ m.type = "response"
    /\ \/ m.method = "REFER" \/ ~Live(e) \/ (m.status = 200 /\ m.method = "INFO")
       \/ dialogs[e].state = "Terminating" /\ m.status = 200 /\ m.method = "INVITE"
    /\ Becomes(e, dialogs[e], view[e])
    /\ NothingElse(e)

IsRinging(e, m) ==
    /\ m.type = "response" /\ Live(e) /\ m.status = 180
    /\ Becomes(e, [dialogs[e] EXCEPT !.state = "Ringing"],
               IF view[e] = "asked" THEN "ringing" ELSE view[e])
    /\ NothingElse(e)

(* A 200 to an INVITE, first to the classification by the dialog's state.   *)
IsOk(e, m) ==
    /\ m.type = "response" /\ Live(e) /\ m.status = 200 /\ m.method = "INVITE"
    /\ Unacked(e)' = Unacked(e) \ {m.cseq} /\ FinalsSame(e)

Connects(e, m) ==
    /\ IsOk(e, m) /\ dialogs[e].state \in {"Calling", "Ringing"}
    /\ Becomes(e, Accepted(dialogs[e], m.timer), view[e])
    /\ e \in connecting' <=> (dialogs[e].offer \/ e \in connecting)
    /\ Open(e)' = Open(e)

ConnectsNot(e, m) ==
    /\ IsOk(e, m) /\ dialogs[e].state \in {"Calling", "Ringing"}
    /\ Becomes(e, NoDialog, "over")
    /\ Asks(e, RequestOf(e, "BYE", Closing(Accepted(dialogs[e], m.timer))))
    /\ e \in connecting' <=> e \in connecting

Confirms(e, m) ==
    /\ IsOk(e, m) /\ dialogs[e].state = "Confirmed"
    /\ \/ /\ dialogs[e].refreshPending
          /\ Becomes(e, WithTimer([dialogs[e] EXCEPT !.refreshPending = FALSE], m.timer),
                     view[e])
       \/ ~dialogs[e].refreshPending /\ Becomes(e, TakeHold(dialogs[e]), view[e])
    /\ Open(e)' = Open(e)
    /\ e \in connecting' <=> e \in connecting

(* The INVITE again, with credentials or a longer interval.                 *)
Again(e, m) ==
    /\ m.type = "response" /\ Live(e) /\ m.method = "INVITE"
    /\ dialogs[e].state = "Calling"
    /\ \E d, r:
          /\ \/ /\ m.status = 401 /\ ~dialogs[e].authRetried
                /\ d = [Bump(dialogs[e]) EXCEPT !.authRetried = TRUE]
                /\ r = [RequestOf(e, "INVITE", d) EXCEPT !.auth = TRUE]
             \/ /\ m.status = 422 /\ ~dialogs[e].sessionExpiresRetried
                /\ d = [Bump(dialogs[e]) EXCEPT !.sessionExpiresRetried = TRUE]
                /\ r = [RequestOf(e, "INVITE", d) EXCEPT !.raised = TRUE]
          /\ Becomes(e, d, view[e]) /\ Asks(e, r)
    /\ Unacked(e)' = Unacked(e) /\ FinalsSame(e)
    /\ e \in connecting' <=> e \in connecting

Reacts(e, m) ==
    \/ GetsInvite(e, m) \/ IsOver(e, m) \/ GetsAck(e, m) \/ IsIgnored(e, m)
    \/ IsRinging(e, m) \/ Connects(e, m) \/ ConnectsNot(e, m) \/ Confirms(e, m)
    \/ Again(e, m)

LEMMA HandlerStep ==
    ASSUME TypeOK, NEW e \in Calls, NEW m \in Message, Dispatch(e, m)
    PROVE  Reacts(e, m)
  <1> USE DEF Becomes, NothingElse, FinalsSame
  <1>1. CASE m.type \in {"INVITE", "reINVITE"} /\ OnInvite(e, m)
    <2>1. GetsInvite(e, m)
      BY <1>1 DEF OnInvite, GetsInvite, Reinvited, Put, Tell, TypeOK, Open, Unacked
    <2> QED
      BY <2>1 DEF Reacts
  <1>2. ASSUME Ends(e)
        PROVE  Becomes(e, NoDialog, "over") /\ NothingElse(e)
    BY <1>2 DEF Ends, Erase, Tell, TypeOK, Open, Unacked
  <1>3. ASSUME UNCHANGED Handled
        PROVE  Becomes(e, dialogs[e], view[e]) /\ NothingElse(e)
    BY <1>3 DEF Handled, Open, Unacked
  <1>4. CASE m.type \in {"BYE", "CANCEL"} /\ Ends(e)
    BY <1>2, <1>4 DEF IsOver, Reacts
  <1>5. CASE m.type = "ACK" /\ OnAck(e)
    <2>1. GetsAck(e, m)
      BY <1>5 DEF OnAck, GetsAck, Put, TypeOK, Open, Unacked
    <2> QED
      BY <2>1 DEF Reacts
  <1>6. CASE m.type = "response" /\ (m.method = "REFER" \/ ~Live(e))
    <2>1. UNCHANGED Handled
      BY <1>6 DEF Dispatch, OnResponse
    <2> QED
      BY <1>3, <1>6, <2>1 DEF IsIgnored, Reacts
  <1>7. ASSUME m.type = "response", Live(e), m.method # "REFER", OnDialogResponse(e, m)
        PROVE  Reacts(e, m)
    <2>0. m.cseq \in Nat /\ m.status \in {180, 200, 401, 422, 486}
      BY <1>7 DEF Message
    <2>1. CASE m.status = 180 /\ OnRinging(e)
      <3>1. IsRinging(e, m)
        BY <1>7, <2>1 DEF OnRinging, IsRinging, Put, Tell, TypeOK, Open, Unacked
      <3> QED
        BY <3>1 DEF Reacts
    <2>2. CASE m.status = 200 /\ m.method = "INVITE" /\ OnInviteOk(e, m)
      <3>1. ASSUME Ack(e, m.cseq) PROVE Unacked(e)' = Unacked(e) \ {m.cseq}
        BY <3>1 DEF Ack, Unacked
      <3>2. CASE dialogs[e].state \in {"Calling", "Ringing"} /\ OnConnected(e, m)
        <4>1. Unacked(e)' = Unacked(e) \ {m.cseq} /\ FinalsSame(e)
          BY <3>1, <3>2 DEF OnConnected
        <4>2. CASE Mismatched(e, m)
          <5> DEFINE r == RequestOf(e, "BYE", Closing(Accepted(dialogs[e], m.timer)))
          <5>1. r.call = e
            BY DEF RequestOf
          <5>2. Erase(e) /\ Send(r) /\ Tell(e, "over") /\ UNCHANGED connecting
            BY <4>2 DEF Mismatched
          <5> HIDE DEF r
          <5>3. Becomes(e, NoDialog, "over") /\ Asks(e, r)
            BY <5>1, <5>2 DEF Erase, Send, Tell, TypeOK, Open, Asks
          <5> QED
            BY <1>7, <2>2, <3>2, <4>1, <5>2, <5>3 DEF ConnectsNot, IsOk, Reacts, r
        <4>3. CASE ~Mismatched(e, m)
          <5> DEFINE d == Accepted(dialogs[e], m.timer)
          <5>1. /\ Put(e, d)
                /\ connecting' = IF dialogs[e].offer
                                 THEN connecting \cup {e} ELSE connecting
                /\ UNCHANGED <<view, open>>
            BY <3>2, <4>3 DEF OnConnected
          <5> HIDE DEF d
          <5>2. Becomes(e, d, view[e]) /\ Open(e)' = Open(e)
            BY <5>1 DEF Put, TypeOK, Open
          <5> QED
            BY <1>7, <2>2, <3>2, <4>1, <5>1, <5>2 DEF Connects, IsOk, Reacts, d
        <4> QED
          BY <4>2, <4>3
      <3>3. ASSUME dialogs[e].state = "Confirmed", NEW d, Put(e, d), Ack(e, m.cseq),
                   UNCHANGED <<connecting, view, open, finals>>
            PROVE  /\ IsOk(e, m) /\ Becomes(e, d, view[e]) /\ Open(e)' = Open(e)
                   /\ e \in connecting' <=> e \in connecting
        BY <1>7, <2>2, <3>1, <3>3 DEF IsOk, Put, TypeOK, Open
      <3>4. CASE dialogs[e].state = "Confirmed" /\ dialogs[e].refreshPending
                 /\ OnSessionRefreshAck(e, m)
        BY <3>3, <3>4 DEF OnSessionRefreshAck, Confirms, Reacts
      <3>5. CASE dialogs[e].state = "Confirmed" /\ ~dialogs[e].refreshPending
                 /\ OnReinviteAck(e, m)
        BY <3>3, <3>5 DEF OnReinviteAck, Confirms, Reacts
      <3>6. CASE dialogs[e].state = "Terminating" /\ UNCHANGED Handled
        BY <1>3, <1>7, <2>2, <3>6 DEF IsIgnored, Reacts
      <3> QED
        BY <2>2, <3>2, <3>4, <3>5, <3>6 DEF OnInviteOk
    <2>3. CASE m.status = 200 /\ m.method = "BYE" /\ Ends(e)
      BY <1>2, <1>7, <2>3 DEF IsOver, Reacts
    <2>4. CASE m.status = 200 /\ m.method = "INFO" /\ UNCHANGED Handled
      BY <1>3, <1>7, <2>4 DEF IsIgnored, Reacts
    <2>5. ASSUME NEW d, NEW r, r.call = e, Put(e, d), Send(r),
                 UNCHANGED <<connecting, view, unacked, finals>>
          PROVE  /\ Becomes(e, d, view[e]) /\ Asks(e, r)
                 /\ Unacked(e)' = Unacked(e) /\ FinalsSame(e)
                 /\ e \in connecting' <=> e \in connecting
      BY <2>5 DEF Put, Send, TypeOK, Open, Unacked, Asks
    <2>6. CASE Challenged(dialogs[e], m) /\ OnChallenge(e, m)
      <3>1. CASE m.ok = "bad"
        <4>1. Ends(e)
          BY <2>6, <3>1 DEF OnChallenge
        <4>2. m.status >= 300
          BY <2>6 DEF Challenged
        <4> QED
          BY <1>2, <1>7, <4>1, <4>2 DEF IsOver, Reacts
      <3>2. CASE m.ok # "bad"
        <4> DEFINE d == [Bump(dialogs[e]) EXCEPT !.authRetried = TRUE]
                   r == [RequestOf(e, "INVITE", d) EXCEPT !.auth = TRUE]
        <4>1. r.call = e
          BY DEF RequestOf
        <4>2. Put(e, d) /\ Send(r) /\ UNCHANGED <<connecting, view, unacked, finals>>
          BY <2>6, <3>2, Zenon DEF OnChallenge
        <4>3. m.status = 401 /\ ~dialogs[e].authRetried /\ m.method = "INVITE"
              /\ dialogs[e].state = "Calling"
          BY <2>6 DEF Challenged
        <4>4. /\ d = [Bump(dialogs[e]) EXCEPT !.authRetried = TRUE]
              /\ r = [RequestOf(e, "INVITE", d) EXCEPT !.auth = TRUE]
          OBVIOUS
        <4> HIDE DEF d, r
        <4>5. /\ Becomes(e, d, view[e]) /\ Asks(e, r)
              /\ Unacked(e)' = Unacked(e) /\ FinalsSame(e)
              /\ e \in connecting' <=> e \in connecting
          BY <2>5, <4>1, <4>2
        <4>6. Again(e, m)
          BY <1>7, <4>3, <4>4, <4>5, Zenon DEF Again
        <4> QED
          BY <4>6 DEF Reacts
      <3> QED
        BY <3>1, <3>2
    <2>7. CASE TooSmall(dialogs[e], m) /\ OnIntervalTooSmall(e)
      <3> DEFINE d == [Bump(dialogs[e]) EXCEPT !.sessionExpiresRetried = TRUE]
                 r == [RequestOf(e, "INVITE", d) EXCEPT !.raised = TRUE]
      <3>1. r.call = e
        BY DEF RequestOf
      <3>2. Put(e, d) /\ Send(r) /\ UNCHANGED <<connecting, view, unacked, finals>>
        BY <2>7, Zenon DEF OnIntervalTooSmall
      <3>3. m.status = 422 /\ ~dialogs[e].sessionExpiresRetried /\ m.method = "INVITE"
            /\ dialogs[e].state = "Calling"
        BY <2>7 DEF TooSmall
      <3>4. /\ d = [Bump(dialogs[e]) EXCEPT !.sessionExpiresRetried = TRUE]
            /\ r = [RequestOf(e, "INVITE", d) EXCEPT !.raised = TRUE]
        OBVIOUS
      <3> HIDE DEF d, r
      <3>5. /\ Becomes(e, d, view[e]) /\ Asks(e, r)
            /\ Unacked(e)' = Unacked(e) /\ FinalsSame(e)
            /\ e \in connecting' <=> e \in connecting
        BY <2>5, <3>1, <3>2
      <3>6. Again(e, m)
        BY <1>7, <3>3, <3>4, <3>5, Zenon DEF Again
      <3> QED
        BY <3>6 DEF Reacts
    <2>8. CASE m.status >= 300 /\ Ends(e)
      BY <1>2, <1>7, <2>8 DEF IsOver, Reacts
    <2> QED
      BY <1>7, <2>1, <2>2, <2>3, <2>4, <2>6, <2>7, <2>8 DEF OnDialogResponse
  <1> QED
    BY <1>1, <1>4, <1>5, <1>6, <1>7 DEF Dispatch, OnResponse

Delivers(e) ==
    /\ \E m \in Message:
          /\ m \in Sent(e)
          /\ Sent(e)' \subseteq Sent(e)
          /\ Sent(e) \subseteq Sent(e)' \cup {m}
          /\ Sent(e)' \subseteq Message
          /\ \A K: MaxDups = 0 /\ LoneIn(e, K) =>
                      LoneIn(e, K)' /\ (m \in K => K \cap Sent(e)' = {})
          /\ Reacts(e, m)
    /\ e \in offering' <=> e \in offering
    /\ answering'[e] = answering[e] /\ connects'[e] = connects[e]
    /\ FarEndSame(e)

Fails(e) ==
    /\ Becomes(e, NoDialog, IF Live(e) THEN "over" ELSE view[e])
    /\ e \notin offering' /\ e \notin connecting' /\ answering'[e] = 0
    /\ deaths' > 0
    /\ connects'[e] = connects[e]
    /\ RequestsSame(e) /\ FinalsSame(e) /\ ChanSame(e) /\ FarEndSame(e)

(* Every step, as this call sees it.                                        *)
Moves(e) ==
    \/ Still(e) \/ Commands(e) \/ Finishes(e) \/ Delivers(e)
    \/ Refreshes(e) \/ Fails(e) \/ FarEndActs(e)

LEMMA EveryStep ==
    ASSUME TypeOK, NEW e \in Calls, [Next]_vars
    PROVE  Moves(e)
  <1>1. CASE Deliver(e)
    <2>1. PICK m: Takes(e, m)
      BY <1>1, DeliverTakes
    <2>2. Reacts(e, m)
      BY <2>1, HandlerStep DEF Takes
    <2>3. Delivers(e)
      BY <2>1, <2>2 DEF Delivers, Takes, FarEndSame, farEnd
    <2> QED
      BY <2>3 DEF Moves
  <1>2. CASE TransportFails
    <2>1. Fails(e)
      BY <1>2
      DEF TransportFails, Fails, Becomes, TypeOK, RequestsSame, FinalsSame, ChanSame,
          FarEndSame, farEnd, wire, Open, Unacked
    <2> QED
      BY <2>1 DEF Moves
  <1> QED
    BY <1>1, <1>2, OneCallAtATime, CommandStep, TaskStep, FarEndStep DEF Steps, Moves

-----------------------------------------------------------------------------
(* The calls the client places keep the promise, from a far end that asks   *)
(* for no re-INVITE to a client that hangs up only what is connected.       *)

Blank(e) ==
    /\ ~Live(e) /\ Open(e) = {} /\ Unacked(e) = {} /\ Sent(e) = {}
    /\ finals[e] = {} /\ e \notin peerUp /\ e \notin connecting /\ connects[e] = 0

Unplaced(e) == view[e] = "idle" \/ e \in offering

NoInvite(e) == \A m \in Sent(e): m.type \notin {"INVITE", "reINVITE"}

Placed(e) ==
    /\ Unplaced(e) => Blank(e)
    /\ e \in offering => view[e] = "asked"
    /\ NoInvite(e)
    /\ answering[e] = 0 /\ view[e] \notin {"incoming", "accepting"}
    /\ Live(e) /\ connects[e] = 0 => view[e] \in {"asked", "ringing"}
    /\ view[e] = "connected" => connects[e] > 0

(* How the client's view of a placed call may move.                         *)
ViewMoves(e) ==
    \/ view'[e] = view[e]
    \/ view'[e] \in {"closed", "over"}
    \/ view[e] = "idle" /\ view'[e] = "asked"
    \/ view[e] = "asked" /\ view'[e] = "ringing"
    \/ view[e] \in {"asked", "ringing"} /\ view'[e] = "connected"

(* The far end invites once, and no other message of it is an INVITE.       *)
LEMMA FarEndSays ==
    ASSUME NEW e, FarEndActs(e)
    PROVE  \E ms: /\ Says(e, ms)
                  /\ \/ \A m \in ms: m.type \notin {"INVITE", "reINVITE"}
                     \/ /\ e \in InCalls /\ Invites(e)
                        /\ \A m \in ms: m.type = "INVITE"
                        /\ \A m, n \in ms: m = n
                     \/ Reinvites(e) /\ \A m \in ms: m.type = "reINVITE"
  <1> DEFINE Quiet(ms) == \A m \in ms: m.type \notin {"INVITE", "reINVITE"}
  <1>1. ASSUME NEW r, NEW s, NEW ok, NEW t, Says(e, {Reply(r, s, ok, t)})
        PROVE  \E ms: Says(e, ms) /\ Quiet(ms)
    <2>1. Reply(r, s, ok, t).type = "response"
      BY DEF Reply
    <2> HIDE DEF Reply
    <2> QED
      BY <1>1, <2>1
  <1>2. ASSUME NEW r \in Open(e),
               Rings(e, r) \/ Accepts(e, r) \/ Refuses(e, r) \/ TakesBye(e, r)
                  \/ TakesOther(e, r)
        PROVE  \E ms: Says(e, ms) /\ Quiet(ms)
    <2>1. CASE Rings(e, r)
      BY <1>1, <2>1 DEF Rings
    <2>2. CASE Accepts(e, r)
      BY <1>1, <2>2 DEF Accepts
    <2>3. CASE Refuses(e, r)
      BY <1>1, <2>3 DEF Refuses
    <2>4. CASE TakesBye(e, r)
      BY <1>1, <2>4 DEF TakesBye
    <2>5. CASE TakesOther(e, r)
      BY <1>1, <2>5 DEF TakesOther
    <2> QED
      BY <1>2, <2>1, <2>2, <2>3, <2>4, <2>5
  <1>3. ASSUME NEW f, GetsFinal(e, f)
        PROVE  \E ms: Says(e, ms) /\ Quiet(ms)
    BY <1>3, BareIs DEF GetsFinal
  <1>4. ASSUME HangsUp(e) \/ Cancels(e)
        PROVE  \E ms: Says(e, ms) /\ Quiet(ms)
    BY <1>4, BareIs DEF HangsUp, Cancels
  <1>5. ASSUME Invites(e)
        PROVE  \E ms: /\ Says(e, ms) /\ \A m \in ms: m.type = "INVITE"
                      /\ \A m, n \in ms: m = n
    <2>1. PICK body \in {"sendrecv", "bad"}, t \in Refreshers:
            Says(e, {ReqMsg("INVITE", body, t)})
      BY <1>5 DEF Invites
    <2>2. ReqMsg("INVITE", body, t).type = "INVITE"
      BY DEF ReqMsg
    <2> HIDE DEF ReqMsg
    <2> QED
      BY <2>1, <2>2
  <1>6. ASSUME Reinvites(e)
        PROVE  \E ms: Says(e, ms) /\ \A m \in ms: m.type = "reINVITE"
    <2>1. PICK body \in {"sendrecv", "sendonly"}:
            Says(e, {ReqMsg("reINVITE", body, "none")})
      BY <1>6 DEF Reinvites
    <2>2. ReqMsg("reINVITE", body, "none").type = "reINVITE"
      BY DEF ReqMsg
    <2> HIDE DEF ReqMsg
    <2> QED
      BY <2>1, <2>2
  <1> QED
    BY <1>2, <1>3, <1>4, <1>5, <1>6 DEF FarEndActs

LEMMA NeverInvites ==
    ASSUME MaxPeerReqs = 0 \/ peerReqs' = 0, NEW e \in OutCalls, FarEndActs(e)
    PROVE  /\ Sent(e) \subseteq Sent(e)'
           /\ \A m \in Sent(e)' \ Sent(e): m.type \notin {"INVITE", "reINVITE"}
  <1>1. e \notin InCalls /\ ~Reinvites(e)
    BY CallsAssumption DEF Reinvites
  <1> QED
    BY <1>1, FarEndSays DEF Says

LEMMA BlankIsLeftAlone ==
    ASSUME NEW e \in OutCalls, Blank(e), FarEndActs(e)
    PROVE  FALSE
  BY CallsAssumption DEF Blank, FarEndActs, GetsFinal, Reinvites, HangsUp

LEMMA PlacedMoves ==
    ASSUME MaxPeerReqs = 0, EarlyHangUp = FALSE, NEW e \in OutCalls, LocalType(e),
           OneToken(e), Placed(e), Moves(e)
    PROVE  Placed(e)' /\ ViewMoves(e)
  <1> USE DEF Placed, Unplaced, Blank, Live, ViewMoves
  <1>1. CASE Still(e)
    BY <1>1
    DEF Still, DialogSame, ClientSame, TasksSame, RequestsSame, FinalsSame, ChanSame,
        FarEndSame, NoInvite, Sent
  <1>2. CASE Commands(e)
    <2>1. Sent(e)' = Sent(e) /\ NoInvite(e)' /\ (e \in peerUp' <=> e \in peerUp)
      BY <1>2 DEF Commands, ChanSame, Sent, NoInvite, FarEndSame
    <2>2. CASE Dials(e)
      BY <1>2, <2>1, <2>2 DEF Commands, Dials, Becomes, FinalsSame
    <2>3. CASE Quits(e)
      BY <1>2, <2>1, <2>3 DEF Commands, Quits, Becomes, FinalsSame, MayHangUp
    <2>4. CASE Requests(e)
      BY <1>2, <2>1, <2>4 DEF Commands, Requests, Becomes, FinalsSame, MayAsk
    <2> QED
      BY <1>2, <2>2, <2>3, <2>4 DEF Commands, Declines, TakesUp
  <1>3. CASE Finishes(e)
    <2>1. Sent(e)' = Sent(e) /\ NoInvite(e)' /\ (e \in peerUp' <=> e \in peerUp)
      BY <1>3 DEF Finishes, ChanSame, Sent, NoInvite, FarEndSame
    <2>2. CASE OfferReady(e)
      BY <1>3, <2>1, <2>2 DEF Finishes, OfferReady, Becomes, FinalsSame
    <2>3. CASE ChecksDone(e)
      BY <1>3, <2>1, <2>3 DEF Finishes, ChecksDone, Becomes, FinalsSame, OneToken, LocalType
    <2> QED
      BY <1>3, <2>2, <2>3 DEF Finishes, AnswerReady, LocalType
  <1>4. CASE Delivers(e)
    <2>1. PICK m \in Message:
            /\ m \in Sent(e) /\ Sent(e)' \subseteq Sent(e) /\ Reacts(e, m)
      BY <1>4 DEF Delivers
    <2>2. ~Unplaced(e) /\ NoInvite(e)' /\ m.type \notin {"INVITE", "reINVITE"}
      BY <2>1 DEF NoInvite
    <2>3. answering'[e] = answering[e] /\ connects'[e] = connects[e]
          /\ (e \in offering' <=> e \in offering)
      BY <1>4 DEF Delivers
    <2>4. view'[e] \in {view[e], "over"} \/ (view[e] = "asked" /\ view'[e] = "ringing")
      BY <2>1, <2>2
      DEF Reacts, GetsInvite, IsOver, GetsAck, IsIgnored, IsRinging, Connects, ConnectsNot,
          Confirms, Again, Becomes
    <2>5. Live(e)' => Live(e) /\ view'[e] \in {view[e], "ringing"}
      BY <2>1, <2>2
      DEF Reacts, GetsInvite, IsOver, GetsAck, IsIgnored, IsRinging, Connects, ConnectsNot,
          Confirms, Again, Becomes, IsOk
    <2> QED
      BY <2>2, <2>3, <2>4, <2>5
  <1>5. CASE Refreshes(e)
    BY <1>5
    DEF Refreshes, Due, ClientSame, TasksSame, FinalsSame, ChanSame, FarEndSame, NoInvite, Sent
  <1>6. CASE Fails(e)
    BY <1>6
    DEF Fails, Becomes, RequestsSame, FinalsSame, ChanSame, FarEndSame, NoInvite, Sent
  <1>7. CASE FarEndActs(e)
    <2>1. ~Unplaced(e)
      BY <1>7, BlankIsLeftAlone
    <2>2. NoInvite(e)'
      BY <1>7, NeverInvites DEF NoInvite
    <2> QED
      BY <1>7, <2>1, <2>2 DEF FarEndActs, OursSame, DialogSame, ClientSame, TasksSame
  <1> QED
    BY <1>1, <1>2, <1>3, <1>4, <1>5, <1>6, <1>7 DEF Moves

PlacedCalls == \A e \in OutCalls: Placed(e)

LEMMA InitPlaced == Init => PlacedCalls
  BY DEF Init, PlacedCalls, Placed, Unplaced, Blank, Live, NoInvite, Sent, Open, Unacked,
         Calls

LEMMA NextPlaced ==
    ASSUME MaxPeerReqs = 0, EarlyHangUp = FALSE, TypeOK, CallsTracked, PlacedCalls,
           [Next]_vars
    PROVE  PlacedCalls' /\ \A e \in OutCalls: ViewMoves(e)
  <1> SUFFICES ASSUME NEW e \in OutCalls PROVE Placed(e)' /\ ViewMoves(e)
    BY DEF PlacedCalls
  <1>1. e \in Calls
    BY DEF Calls
  <1> QED
    BY <1>1, EveryStep, LocalTypes, PlacedMoves DEF PlacedCalls, CallsTracked, Tracked

LEMMA PromiseMoves ==
    /\ \A v \in View: PromiseOf(v) \in {"idle", "pending", "up", "over"}
    /\ \A v \in View: PromiseOf(v) = "idle" <=> v = "idle"
    /\ \A v \in {"asked", "ringing"}: PromiseOf(v) = "pending"
    /\ PromiseOf("connected") = "up"
    /\ PromiseOf("closed") = "over" /\ PromiseOf("over") = "over"
  BY DEF PromiseOf, View

PromiseStep == [Promise!Next]_([c \in OutCalls |-> PromiseOf(view[c])])

(* A step that moves the view of one placed call at most.                   *)
LEMMA OneCallMoves ==
    ASSUME TypeOK, NEW c \in Calls, c \in OutCalls => ViewMoves(c),
           \A e \in OutCalls \ {c}: view'[e] = view[e], TypeOK'
    PROVE  PromiseStep
  <1> USE DEF PromiseStep
  <1> DEFINE p == [e \in OutCalls |-> PromiseOf(view[e])]
             q == [e \in OutCalls |-> PromiseOf(view'[e])]
  <1>1. \A e \in OutCalls: view[e] \in View /\ view'[e] \in View
    BY DEF TypeOK, Calls
  <1>2. CASE c \notin OutCalls
    <2>1. p' = p
      BY <1>2
    <2> QED
      BY <2>1
  <1>3. CASE c \in OutCalls
    <2>0. p[c] = PromiseOf(view[c]) /\ p'[c] = PromiseOf(view'[c])
      BY <1>3
    <2>1. \A e \in OutCalls \ {c}: p'[e] = p[e]
      OBVIOUS
    <2>2. DOMAIN p = OutCalls /\ DOMAIN p' = OutCalls /\ p = [e \in OutCalls |-> p[e]]
          /\ p' = [e \in OutCalls |-> p'[e]]
      OBVIOUS
    <2>3. \/ p'[c] = p[c]
          \/ p'[c] = "over"
          \/ p[c] = "idle" /\ p'[c] = "pending"
          \/ p[c] = "pending" /\ p'[c] = "up"
      BY <1>1, <1>3, <2>0, PromiseMoves, Zenon DEF ViewMoves
    <2>4. Promise!Ask(c) <=> p[c] = "idle" /\ p' = [p EXCEPT ![c] = "pending"]
      BY DEF Promise!Ask
    <2>5. Promise!ComesUp(c) <=> p[c] = "pending" /\ p' = [p EXCEPT ![c] = "up"]
      BY DEF Promise!ComesUp
    <2>6. Promise!End({c}) <=> p' = [e \in OutCalls |-> IF e \in {c} THEN "over" ELSE p[e]]
      BY DEF Promise!End
    <2>7. Promise!Ask(c) \/ Promise!ComesUp(c) \/ Promise!End({c}) => Promise!Next
      BY <1>3 DEF Promise!Next
    <2> HIDE DEF p
    <2>8. CASE p'[c] = p[c]
      <3>1. p' = p
        BY <2>1, <2>2, <2>8
      <3> QED
        BY <3>1 DEF p
    <2>9. CASE p'[c] = "over"
      <3>1. p' = [e \in OutCalls |-> IF e \in {c} THEN "over" ELSE p[e]]
        BY <2>1, <2>2, <2>9
      <3> QED
        BY <2>6, <2>7, <3>1
    <2>10. CASE p[c] = "idle" /\ p'[c] = "pending"
      <3>1. p' = [p EXCEPT ![c] = "pending"]
        BY <2>1, <2>2, <2>10
      <3> QED
        BY <2>4, <2>7, <2>10, <3>1
    <2>11. CASE p[c] = "pending" /\ p'[c] = "up"
      <3>1. p' = [p EXCEPT ![c] = "up"]
        BY <2>1, <2>2, <2>11
      <3> QED
        BY <2>5, <2>7, <2>11, <3>1
    <2> QED
      BY <2>3, <2>8, <2>9, <2>10, <2>11
  <1> QED
    BY <1>2, <1>3

LEMMA AllCallsFail ==
    ASSUME TypeOK, TransportFails
    PROVE  PromiseStep
  <1> USE DEF PromiseStep
  <1> DEFINE p == [e \in OutCalls |-> PromiseOf(view[e])]
             S == {e \in OutCalls: Live(e)}
  <1>1. \A e \in OutCalls: view'[e] = IF e \in S THEN "over" ELSE view[e]
    BY DEF TransportFails, Calls
  <1>2. p' = [e \in OutCalls |-> IF e \in S THEN "over" ELSE p[e]]
    BY <1>1, PromiseMoves, Zenon
  <1>3. CASE S = {}
    <2>1. p' = p
      BY <1>2, <1>3
    <2> QED
      BY <2>1
  <1>4. CASE S # {}
    <2>1. Promise!End(S) <=>
            S # {} /\ p' = [e \in OutCalls |-> IF e \in S THEN "over" ELSE p[e]]
      BY DEF Promise!End
    <2> HIDE DEF p
    <2>2. Promise!End(S)
      BY <1>2, <1>4, <2>1
    <2>3. S \in SUBSET OutCalls
      OBVIOUS
    <2> HIDE DEF S
    <2> QED
      BY <2>2, <2>3 DEF Promise!Next
  <1> QED
    BY <1>3, <1>4

LEMMA StepPromised ==
    ASSUME MaxPeerReqs = 0, EarlyHangUp = FALSE, TypeOK, CallsTracked, PlacedCalls,
           [Next]_vars
    PROVE  PromiseStep
  <1> USE DEF PromiseStep
  <1>1. TypeOK' /\ \A e \in OutCalls: ViewMoves(e)
    BY NextType, NextPlaced
  <1>2. ASSUME NEW c \in Calls, Command(c) \/ TaskDone(c) \/ Deliver(c)
        PROVE  PromiseStep
    <2>1. \A e \in OutCalls \ {c}: view'[e] = view[e]
      BY <1>2, CommandApart, TaskApart, DeliverApart DEF Still, ClientSame, Calls
    <2> QED
      BY <1>1, <2>1, OneCallMoves
  <1>3. CASE UNCHANGED view
    BY <1>3
  <1>4. UNCHANGED vars \/ RefreshSessionTimers \/ PeerActs => UNCHANGED view
    BY DEF vars, RefreshSessionTimers, PeerActs, Ours, client
  <1> QED
    BY <1>2, <1>3, <1>4, AllCallsFail DEF Next

(* The client is promised of a call it places that it comes up at most once *)
(* and that nothing is heard of it once it is over: the events of any number*)
(* of calls refine CallPromise, whatever is duplicated, reordered or fails. *)
THEOREM CallsKeepThePromise ==
    ASSUME MaxPeerReqs = 0, EarlyHangUp = FALSE
    PROVE  Spec => PromiseKept
  <1>1. Init => Promise!Init
    BY DEF Init, Promise!Init, PromiseOf, Calls
  <1>2. TypeOK /\ CallsTracked /\ PlacedCalls /\ [Next]_vars => PlacedCalls'
    BY NextPlaced
  <1>3. TypeOK /\ CallsTracked /\ PlacedCalls /\ [Next]_vars
          => [Promise!Next]_([c \in OutCalls |-> PromiseOf(view[c])])
    BY StepPromised DEF PromiseStep
  <1>4. Spec => []PlacedCalls
    BY <1>2, InitPlaced, TypeCorrect, Tracking, PTL DEF Spec
  <1>5. Spec => [][Promise!Next]_([c \in OutCalls |-> PromiseOf(view[c])])
    BY <1>3, <1>4, TypeCorrect, Tracking, PTL DEF Spec
  <1>6. Spec => Promise!Init
    BY <1>1, PTL DEF Spec
  <1>7. Promise!Init /\ [][Promise!Next]_([c \in OutCalls |-> PromiseOf(view[c])])
        => PromiseKept
    BY PTL DEF PromiseKept, Promise!Spec
  <1> QED
    BY <1>5, <1>6, <1>7, PTL

-----------------------------------------------------------------------------
(* A CSeq identifies a request.                                             *)

(* What the handlers do to the number, the state and the role of a dialog.  *)
LEMMA Numbers ==
    ASSUME NEW d \in Dialog
    PROVE  /\ d.cseq \in Nat
           /\ Bump(d).cseq = d.cseq + 1 /\ Bump(d).state = d.state
           /\ Closing(d).cseq = d.cseq + 1 /\ Closing(d).state = "Terminating"
           /\ Refreshed(d).cseq = d.cseq + 1 /\ Refreshed(d).state = d.state
           /\ \A k: Asked(d, k).cseq = d.cseq + 1 /\ Asked(d, k).state = d.state
           /\ \A t: WithTimer(d, t).cseq = d.cseq /\ WithTimer(d, t).state = d.state
           /\ \A t: Accepted(d, t).cseq = d.cseq /\ Accepted(d, t).state = "Confirmed"
           /\ TakeHold(d).cseq = d.cseq /\ TakeHold(d).state = d.state
           /\ Answered(d).cseq = d.cseq /\ Answered(d).state = "Confirmed"
           /\ \A m: Reinvited(d, m).cseq = d.cseq /\ Reinvited(d, m).state = d.state
           /\ [d EXCEPT !.media = TRUE].cseq = d.cseq
           /\ [d EXCEPT !.media = TRUE].state = d.state
           /\ \A s: [d EXCEPT !.state = s].cseq = d.cseq
           /\ \A s: [d EXCEPT !.state = s].state = s
           /\ \A b: [d EXCEPT !.refreshPending = b].cseq = d.cseq
           /\ \A b: [d EXCEPT !.refreshPending = b].state = d.state
  <1>1. d.cseq \in Nat
    BY DEF Dialog
  <1>2. \A t: WithTimer(d, t).cseq = d.cseq /\ WithTimer(d, t).state = d.state
    BY DEF WithTimer, Dialog
  <1>3. ASSUME NEW t
        PROVE  Accepted(d, t).cseq = d.cseq /\ Accepted(d, t).state = "Confirmed"
    BY DEF Accepted, WithTimer, Dialog
  <1>4. ASSUME NEW k
        PROVE  Asked(d, k).cseq = d.cseq + 1 /\ Asked(d, k).state = d.state
    BY DEF Asked, Reinvite, Bump, Dialog
  <1>5. ASSUME NEW m
        PROVE  Reinvited(d, m).cseq = d.cseq /\ Reinvited(d, m).state = d.state
    BY DEF Reinvited, Dialog
  <1>6. /\ Bump(d).cseq = d.cseq + 1 /\ Bump(d).state = d.state
        /\ Closing(d).cseq = d.cseq + 1 /\ Closing(d).state = "Terminating"
        /\ Refreshed(d).cseq = d.cseq + 1 /\ Refreshed(d).state = d.state
    BY DEF Bump, Closing, Refreshed, Dialog
  <1>7. /\ TakeHold(d).cseq = d.cseq /\ TakeHold(d).state = d.state
        /\ Answered(d).cseq = d.cseq /\ Answered(d).state = "Confirmed"
    BY DEF TakeHold, Answered, Dialog
  <1>8. /\ [d EXCEPT !.media = TRUE].cseq = d.cseq
        /\ [d EXCEPT !.media = TRUE].state = d.state
        /\ \A s: [d EXCEPT !.state = s].cseq = d.cseq
        /\ \A s: [d EXCEPT !.state = s].state = s
        /\ \A b: [d EXCEPT !.refreshPending = b].cseq = d.cseq
        /\ \A b: [d EXCEPT !.refreshPending = b].state = d.state
    BY DEF Dialog
  <1> QED
    BY <1>1, <1>2, <1>3, <1>4, <1>5, <1>6, <1>7, <1>8

LEMMA RequestIs ==
    ASSUME NEW e, NEW kind, NEW d
    PROVE  /\ RequestOf(e, kind, d).cseq = d.cseq
           /\ RequestOf(e, kind, d).kind = kind
           /\ [RequestOf(e, kind, d) EXCEPT !.auth = TRUE].cseq = d.cseq
           /\ [RequestOf(e, kind, d) EXCEPT !.auth = TRUE].kind = kind
           /\ [RequestOf(e, kind, d) EXCEPT !.raised = TRUE].cseq = d.cseq
           /\ [RequestOf(e, kind, d) EXCEPT !.raised = TRUE].kind = kind
  BY DEF RequestOf

(* The dialog of a call exists once: what creates it has not been used.     *)
Fresh(e) ==
    IF e \in OutCalls THEN Unplaced(e) ELSE inv[e] = "none" \/ Invited(e)

(* Initial INVITEs come once, and re-INVITEs not at all.                    *)
OneInvite(e) ==
    /\ \A m \in Sent(e): m.type # "reINVITE"
    /\ e \in OutCalls => ~Invited(e)
    /\ e \in InCalls => Lone(e) /\ (inv[e] = "none" => ~Invited(e))

Distinct(e) == \A r, s \in Open(e): r.cseq = s.cseq => r = s
Ahead(e) == Live(e) => \A r \in Open(e): r.cseq <= dialogs[e].cseq

Numbered(e) ==
    /\ Fresh(e) => ~Live(e) /\ Open(e) = {}
    /\ OneInvite(e)
    /\ Distinct(e) /\ Ahead(e)

(* The requests of a step that adds none, or one with the next number.      *)
LEMMA SameNumbers ==
    ASSUME NEW e, Distinct(e), Ahead(e), Open(e)' \subseteq Open(e),
           Live(e)' => Live(e) /\ dialogs'[e].cseq = dialogs[e].cseq
    PROVE  Distinct(e)' /\ Ahead(e)'
  BY DEF Distinct, Ahead

LEMMA NextNumber ==
    ASSUME NEW e, LocalType(e), Distinct(e), Ahead(e), Live(e), NEW r,
           Asks(e, r), r.cseq = dialogs[e].cseq + 1,
           Live(e)' => dialogs'[e].cseq = dialogs[e].cseq + 1
    PROVE  Distinct(e)' /\ Ahead(e)'
  <1>1. dialogs[e].cseq \in Nat /\ \A q \in Open(e): q.cseq \in Nat
    BY DEF LocalType, Live, Dialog, Request
  <1> QED
    BY <1>1 DEF Distinct, Ahead, Asks

LEMMA OneInviteMoves ==
    ASSUME MaxPeerReqs = 0, InCalls = {} \/ MaxDups = 0, NEW e \in Calls,
           LocalType(e), OneInvite(e), Moves(e)
    PROVE  OneInvite(e)' /\ (Fresh(e)' => Fresh(e))
  <1>0. e \in OutCalls <=> e \notin InCalls
    BY CallsAssumption DEF Calls
  <1>1. ASSUME Sent(e)' = Sent(e), inv'[e] = inv[e], chan'[e] = chan[e],
               Unplaced(e)' => Unplaced(e)
        PROVE  OneInvite(e)' /\ (Fresh(e)' => Fresh(e))
    BY <1>1 DEF OneInvite, Fresh, Invited, Lone, LoneIn
  <1>2. ChanSame(e) => Sent(e)' = Sent(e)
    BY DEF ChanSame, Sent
  <1>3. ASSUME ChanSame(e), FarEndSame(e), Unplaced(e)' => Unplaced(e)
        PROVE  OneInvite(e)' /\ (Fresh(e)' => Fresh(e))
    BY <1>1, <1>2, <1>3 DEF ChanSame, FarEndSame
  <1>4. CASE Still(e) \/ Refreshes(e)
    BY <1>3, <1>4
    DEF Still, Refreshes, ClientSame, TasksSame, Unplaced, OneInvite, Fresh, Invited
  <1>5. CASE Commands(e)
    <2>1. Unplaced(e)' => Unplaced(e)
      BY <1>5
      DEF Commands, Unplaced, Dials, Declines, TakesUp, Quits, Requests, Becomes, MayHangUp,
          MayAsk
    <2> QED
      BY <1>3, <1>5, <2>1 DEF Commands, OneInvite, Fresh, Invited
  <1>6. CASE Finishes(e)
    <2>1. Unplaced(e)' => Unplaced(e)
      BY <1>6 DEF Finishes, Unplaced, OfferReady, AnswerReady, ChecksDone, Becomes
    <2> QED
      BY <1>3, <1>6, <2>1 DEF Finishes, OneInvite, Fresh, Invited
  <1>7. CASE Fails(e)
    <2>1. Unplaced(e)' => Unplaced(e)
      BY <1>7 DEF Fails, Unplaced, Becomes
    <2> QED
      BY <1>3, <1>7, <2>1 DEF Fails, OneInvite, Fresh, Invited
  <1>8. CASE Delivers(e)
    <2>1. PICK m \in Message:
            /\ m \in Sent(e) /\ Sent(e)' \subseteq Sent(e)
            /\ MaxDups = 0 /\ Lone(e) => Lone(e)' /\ (m.type = "INVITE" => ~Invited(e)')
            /\ Reacts(e, m)
      BY <1>8, LoneTaken DEF Delivers
    <2>2. (e \in offering' <=> e \in offering) /\ inv'[e] = inv[e]
      BY <1>8 DEF Delivers, FarEndSame
    <2>3. e \in InCalls => MaxDups = 0
      OBVIOUS
    <2>4. Invited(e)' => Invited(e)
      BY <2>1 DEF Invited
    <2>5. e \in InCalls => Lone(e)'
      BY <2>1, <2>3 DEF OneInvite
    <2>6. Unplaced(e)' => Unplaced(e)
      BY <2>1, <2>2
      DEF Unplaced, Reacts, GetsInvite, IsOver, GetsAck, IsIgnored, IsRinging, Connects,
          ConnectsNot, Confirms, Again, Becomes
    <2> QED
      BY <1>0, <2>1, <2>2, <2>4, <2>5, <2>6 DEF OneInvite, Fresh
  <1>9. CASE FarEndActs(e)
    <2>1. PICK ms: /\ Says(e, ms)
                   /\ \/ \A m \in ms: m.type \notin {"INVITE", "reINVITE"}
                      \/ /\ e \in InCalls /\ Invites(e) /\ \A m, n \in ms: m = n
                         /\ \A m \in ms: m.type = "INVITE"
      <3>1. ~Reinvites(e)
        BY DEF Reinvites
      <3> QED
        BY <1>9, <3>1, FarEndSays
    <2>2. Unplaced(e)' => Unplaced(e)
      BY <1>9 DEF FarEndActs, OursSame, ClientSame, TasksSame, Unplaced
    <2>3. inv'[e] = "none" => inv[e] = "none"
      BY <1>9
      DEF FarEndActs, Rings, Accepts, Refuses, TakesBye, TakesOther, FarEndSame, Invites,
          Cancels, GetsFinal, Reinvites, HangsUp
    <2>4. CASE \A m \in ms: m.type \notin {"INVITE", "reINVITE"}
      <3>1. (Invited(e)' => Invited(e)) /\ (Lone(e) => Lone(e)')
            /\ \A m \in Sent(e)': m \in Sent(e) \/ m.type # "reINVITE"
        BY <2>1, <2>4, LoneSaid DEF Says, Invited, LocalType
      <3> QED
        BY <1>0, <2>2, <2>3, <3>1 DEF OneInvite, Fresh
    <2>5. CASE /\ e \in InCalls /\ Invites(e) /\ \A m, n \in ms: m = n
               /\ \A m \in ms: m.type = "INVITE"
      <3>1. inv[e] = "none" /\ inv'[e] # "none"
        BY <2>5 DEF Invites
      <3>2. Lone(e)' /\ \A m \in Sent(e)': m \in Sent(e) \/ m.type # "reINVITE"
        BY <2>1, <2>5, <3>1, LoneSaid DEF OneInvite, Says, LocalType
      <3> QED
        BY <1>0, <2>5, <3>1, <3>2 DEF OneInvite, Fresh
    <2> QED
      BY <2>1, <2>4, <2>5
  <1> QED
    BY <1>4, <1>5, <1>6, <1>7, <1>8, <1>9 DEF Moves

(* A delivered message: no request, or one more with the next number.       *)
LEMMA NumberedDelivery ==
    ASSUME MaxPeerReqs = 0, InCalls = {} \/ MaxDups = 0, NEW e \in Calls,
           LocalType(e), Numbered(e), Delivers(e)
    PROVE  Numbered(e)'
  <1> DEFINE Kept == /\ Distinct(e)' /\ Ahead(e)'
                     /\ Fresh(e)' => ~Live(e)' /\ Open(e)' = {}
  <1>0. OneInvite(e)' /\ (Fresh(e)' => Fresh(e))
    BY OneInviteMoves DEF Numbered, Moves
  <1>1. PICK m \in Message:
          /\ m \in Sent(e) /\ Reacts(e, m)
          /\ MaxDups = 0 /\ Lone(e) => (m.type = "INVITE" => ~Invited(e)')
    BY LoneTaken DEF Delivers
  <1>2. m.type # "reINVITE" /\ (m.type = "INVITE" => Invited(e) /\ Fresh(e))
    BY <1>1 DEF Numbered, OneInvite, Invited, Fresh
  <1>3. Live(e) => dialogs[e] \in Dialog
    BY DEF LocalType, Live
  <1>4. ASSUME GetsInvite(e, m) PROVE Kept
    <2>1. m.type = "INVITE" /\ ~Live(e) /\ Open(e)' = {}
      BY <1>2, <1>4 DEF GetsInvite, Numbered
    <2>2. ~Fresh(e)'
      <3>1. e \in InCalls /\ e \notin OutCalls /\ MaxDups = 0
        BY <1>2, <2>1 DEF Numbered, OneInvite, Calls
      <3>2. ~Invited(e)' /\ inv[e] # "none" /\ inv'[e] = inv[e]
        BY <1>1, <1>2, <2>1, <3>1 DEF Numbered, OneInvite, Delivers, FarEndSame
      <3> QED
        BY <3>1, <3>2 DEF Fresh
    <2> QED
      BY <2>1, <2>2 DEF Distinct, Ahead
  <1>5. ASSUME Open(e)' = Open(e), Live(e)' => Live(e) /\ dialogs'[e].cseq = dialogs[e].cseq
        PROVE  Kept
    <2>1. Distinct(e) /\ Ahead(e) /\ (Fresh(e) => ~Live(e) /\ Open(e) = {})
      BY DEF Numbered
    <2>2. Distinct(e)' /\ Ahead(e)'
      BY <1>5, <2>1, SameNumbers
    <2> QED
      BY <1>0, <1>5, <2>1, <2>2
  <1>6. ASSUME IsOver(e, m) PROVE Kept
    BY <1>5, <1>6 DEF IsOver, Becomes, NothingElse, Live
  <1>7. ASSUME GetsAck(e, m) PROVE Kept
    BY <1>3, <1>5, <1>7, Numbers DEF GetsAck, Becomes, NothingElse, Live
  <1>8. ASSUME IsIgnored(e, m) PROVE Kept
    BY <1>5, <1>8 DEF IsIgnored, Becomes, NothingElse, Live
  <1>9. ASSUME IsRinging(e, m) PROVE Kept
    BY <1>3, <1>5, <1>9, Numbers DEF IsRinging, Becomes, NothingElse, Live
  <1>10. ASSUME Connects(e, m) PROVE Kept
    BY <1>3, <1>5, <1>10, Numbers DEF Connects, IsOk, Becomes, Live
  <1>11. ASSUME Confirms(e, m) PROVE Kept
    <2>1. dialogs[e] \in Dialog /\ m.timer \in Refresher
      BY <1>3, <1>11, MessageFields DEF Confirms, IsOk
    <2> DEFINE d == [dialogs[e] EXCEPT !.refreshPending = FALSE]
    <2>2. d \in Dialog
      BY <2>1 DEF Dialog
    <2>3. /\ TakeHold(dialogs[e]).cseq = dialogs[e].cseq
          /\ d.cseq = dialogs[e].cseq
      BY <2>1, Numbers
    <2>4. Live(e) /\ Open(e)' = Open(e)
          /\ dialogs'[e] \in {WithTimer(d, m.timer), TakeHold(dialogs[e])}
      BY <1>11 DEF Confirms, IsOk, Becomes
    <2> HIDE DEF d
    <2>5. WithTimer(d, m.timer).cseq = d.cseq
      BY <2>2, Numbers
    <2> QED
      BY <1>5, <2>3, <2>4, <2>5
  <1>12. ASSUME Live(e), NEW r, Asks(e, r), r.cseq = dialogs[e].cseq + 1,
                Live(e)' => dialogs'[e].cseq = dialogs[e].cseq + 1
         PROVE  Kept
    BY <1>0, <1>12, NextNumber DEF Numbered
  <1>13. ASSUME ConnectsNot(e, m) PROVE Kept
    <2> DEFINE d == Accepted(dialogs[e], m.timer)
    <2>1. Live(e) /\ dialogs[e] \in Dialog /\ m.timer \in Refresher
      BY <1>3, <1>13, MessageFields DEF ConnectsNot, IsOk
    <2>2. d \in Dialog
      BY <2>1, DialogUpdates
    <2>3. d.cseq = dialogs[e].cseq
      BY <2>1, Numbers
    <2>4. Asks(e, RequestOf(e, "BYE", Closing(d))) /\ ~Live(e)'
      BY <1>13 DEF ConnectsNot, Becomes, Live
    <2> HIDE DEF d
    <2>5. RequestOf(e, "BYE", Closing(d)).cseq = dialogs[e].cseq + 1
      BY <2>2, <2>3, Numbers, RequestIs
    <2> HIDE DEF RequestOf
    <2> QED
      BY <1>12, <2>1, <2>4, <2>5
  <1>14. ASSUME Again(e, m) PROVE Kept
    <2>1. Live(e) /\ dialogs[e] \in Dialog /\ Bump(dialogs[e]) \in Dialog
          /\ Bump(dialogs[e]).cseq = dialogs[e].cseq + 1
      BY <1>3, <1>14, DialogUpdates, Numbers DEF Again
    <2>2. PICK d, r:
            /\ \/ /\ d = [Bump(dialogs[e]) EXCEPT !.authRetried = TRUE]
                  /\ r = [RequestOf(e, "INVITE", d) EXCEPT !.auth = TRUE]
               \/ /\ d = [Bump(dialogs[e]) EXCEPT !.sessionExpiresRetried = TRUE]
                  /\ r = [RequestOf(e, "INVITE", d) EXCEPT !.raised = TRUE]
            /\ Becomes(e, d, view[e]) /\ Asks(e, r)
      BY <1>14 DEF Again
    <2>3. d.cseq = dialogs[e].cseq + 1
      BY <2>1, <2>2 DEF Dialog
    <2>4. r.cseq = d.cseq
      BY <2>2 DEF RequestOf
    <2>5. dialogs'[e] = d /\ Asks(e, r)
      BY <2>2 DEF Becomes
    <2> QED
      BY <1>12, <2>1, <2>3, <2>4, <2>5
  <1>15. Kept
    <2> HIDE DEF Kept
    <2> QED
      BY <1>1, <1>4, <1>6, <1>7, <1>8, <1>9, <1>10, <1>11, <1>13, <1>14 DEF Reacts
  <1> QED
    BY <1>0, <1>15 DEF Numbered

LEMMA NumberedMoves ==
    ASSUME MaxPeerReqs = 0, InCalls = {} \/ MaxDups = 0, NEW e \in Calls,
           LocalType(e), OneToken(e), Numbered(e), Moves(e)
    PROVE  Numbered(e)'
  <1>1. /\ OneInvite(e)' /\ (Fresh(e)' => Fresh(e))
        /\ Distinct(e) /\ Ahead(e) /\ (Fresh(e) => ~Live(e) /\ Open(e) = {})
    BY OneInviteMoves DEF Numbered
  <1>2. Live(e) => dialogs[e] \in Dialog
    BY DEF LocalType, Live
  <1>3. ASSUME Open(e)' = Open(e), Live(e)' => Live(e) /\ dialogs'[e].cseq = dialogs[e].cseq
        PROVE  Numbered(e)'
    BY <1>1, <1>3, SameNumbers DEF Numbered
  <1>4. ASSUME Live(e), NEW r, Asks(e, r), r.cseq = dialogs[e].cseq + 1,
               Live(e)' => dialogs'[e].cseq = dialogs[e].cseq + 1
        PROVE  Numbered(e)'
    BY <1>1, <1>4, NextNumber DEF Numbered
  <1>5. CASE Still(e)
    BY <1>3, <1>5 DEF Still, DialogSame, RequestsSame, Live
  <1>6. CASE Commands(e)
    <2>1. CASE Dials(e) \/ Declines(e) \/ TakesUp(e)
      BY <1>3, <2>1 DEF Dials, Declines, TakesUp, Becomes, Live
    <2>2. CASE Quits(e)
      <3>1. Live(e) /\ dialogs'[e].cseq = dialogs[e].cseq + 1
            /\ Closing(dialogs[e]).cseq = dialogs[e].cseq + 1
        BY <1>2, <2>2, Numbers DEF Quits, MayHangUp, Becomes
      <3>2. Asks(e, RequestOf(e, "BYE", Closing(dialogs[e])))
        BY <2>2 DEF Quits
      <3> QED
        BY <1>4, <3>1, <3>2, RequestIs
    <2>3. CASE Requests(e)
      <3>1. PICK kind: /\ Becomes(e, Asked(dialogs[e], kind), view[e])
                       /\ Asks(e, RequestOf(e, kind, Asked(dialogs[e], kind)))
        BY <2>3 DEF Requests
      <3>2. Live(e) /\ Asked(dialogs[e], kind).cseq = dialogs[e].cseq + 1
        BY <1>2, <2>3, Numbers DEF Requests, MayAsk
      <3> QED
        BY <1>4, <3>1, <3>2, RequestIs DEF Becomes
    <2> QED
      BY <1>6, <2>1, <2>2, <2>3 DEF Commands
  <1>7. CASE Finishes(e)
    <2>1. CASE OfferReady(e)
      <3>1. e \in OutCalls /\ Fresh(e)
        BY <2>1 DEF OfferReady, LocalType, Fresh, Unplaced
      <3>2. view[e] # "idle"
        BY <2>1, <3>1 DEF OfferReady, OneToken
      <3>3. ~Fresh(e)'
        BY <2>1, <3>1, <3>2 DEF OfferReady, Becomes, Fresh, Unplaced
      <3>4. CASE Open(e)' = Open(e) /\ Becomes(e, dialogs[e], "over")
        BY <1>3, <3>4 DEF Becomes, Live
      <3>5. CASE /\ Becomes(e, NewOutgoing, view[e])
                 /\ Asks(e, RequestOf(e, "INVITE", NewOutgoing))
        <4>1. Open(e)' = {RequestOf(e, "INVITE", NewOutgoing)}
          BY <1>1, <3>1, <3>5 DEF Asks
        <4>2. RequestOf(e, "INVITE", NewOutgoing).cseq = 1 /\ dialogs'[e].cseq = 1
          BY <3>5 DEF RequestOf, NewOutgoing, Becomes
        <4> HIDE DEF RequestOf
        <4> QED
          BY <1>1, <3>3, <4>1, <4>2 DEF Numbered, Distinct, Ahead
      <3> QED
        BY <2>1, <3>4, <3>5 DEF OfferReady
    <2>2. CASE AnswerReady(e)
      BY <1>2, <1>3, <2>2, Numbers DEF AnswerReady, Becomes, Live
    <2>3. CASE ChecksDone(e)
      <3>1. Live(e)' => Live(e)
            /\ dialogs'[e] \in {dialogs[e], [dialogs[e] EXCEPT !.media = TRUE]}
        BY <2>3 DEF ChecksDone, Becomes, Live
      <3>2. Live(e) => [dialogs[e] EXCEPT !.media = TRUE].cseq = dialogs[e].cseq
        BY <1>2, Numbers
      <3>3. Open(e)' = Open(e)
        BY <2>3 DEF ChecksDone
      <3> QED
        BY <1>3, <3>1, <3>2, <3>3
    <2> QED
      BY <1>7, <2>1, <2>2, <2>3 DEF Finishes
  <1>8. CASE Delivers(e)
    BY <1>8, NumberedDelivery
  <1>9. CASE Refreshes(e)
    <2>1. Live(e) /\ dialogs'[e].cseq = dialogs[e].cseq + 1
          /\ Refreshed(dialogs[e]).cseq = dialogs[e].cseq + 1
      BY <1>2, <1>9, Numbers DEF Refreshes, Due
    <2>2. Asks(e, RequestOf(e, "refresh", Refreshed(dialogs[e])))
      BY <1>9 DEF Refreshes, Asks
    <2> QED
      BY <1>4, <2>1, <2>2, RequestIs
  <1>10. CASE Fails(e)
    BY <1>3, <1>10 DEF Fails, Becomes, Live, RequestsSame
  <1>11. CASE FarEndActs(e)
    <2>1. dialogs'[e] = dialogs[e]
      BY <1>11 DEF FarEndActs, OursSame, DialogSame
    <2>2. Open(e)' \subseteq Open(e)
            \/ \E r \in Open(e): Open(e)' = (Open(e) \ {r}) \cup {[r EXCEPT !.rang = TRUE]}
      BY <1>11
      DEF FarEndActs, Rings, Accepts, Refuses, TakesBye, TakesOther, RequestsSame, GetsFinal
    <2>3. CASE Open(e)' \subseteq Open(e)
      BY <1>1, <2>1, <2>3, SameNumbers DEF Numbered, Live
    <2>4. ASSUME NEW r \in Open(e), Open(e)' = (Open(e) \ {r}) \cup {[r EXCEPT !.rang = TRUE]}
          PROVE  Numbered(e)'
      <3>1. [r EXCEPT !.rang = TRUE].cseq = r.cseq
        BY DEF LocalType, Request
      <3> QED
        BY <1>1, <2>1, <2>4, <3>1 DEF Numbered, Distinct, Ahead, Live
    <2> QED
      BY <2>2, <2>3, <2>4
  <1> QED
    BY <1>5, <1>6, <1>7, <1>8, <1>9, <1>10, <1>11 DEF Moves

CallsNumbered == \A e \in Calls: Numbered(e)

LEMMA InitNumbered == Init => CallsNumbered
  BY DEF Init, CallsNumbered, Numbered, Fresh, Unplaced, OneInvite, Invited, Lone, LoneIn, Sent,
         Distinct, Ahead, Live, Open

LEMMA NextNumbered ==
    ASSUME MaxPeerReqs = 0, InCalls = {} \/ MaxDups = 0, TypeOK, CallsTracked,
           CallsNumbered, [Next]_vars
    PROVE  CallsNumbered'
  BY EveryStep, LocalTypes, NumberedMoves DEF CallsNumbered, CallsTracked, Tracked

(* Two requests of a dialog that wait for an answer never share a CSeq: an  *)
(* answer carries nothing else to tell them apart.  Every path that sends   *)
(* takes next_local_cseq, with any number of calls, holds, refreshes and    *)
(* retries; a far end that repeats its INVITE makes a second dialog, so the *)
(* wire must not copy it.                                                   *)
THEOREM EveryRequestHasItsCSeq ==
    ASSUME MaxPeerReqs = 0, InCalls = {} \/ MaxDups = 0
    PROVE  Spec => []CSeqIdentifiesRequest
  <1>1. TypeOK /\ CallsTracked /\ CallsNumbered /\ [Next]_vars => CallsNumbered'
    BY NextNumbered
  <1>2. TypeOK /\ CallsNumbered => CSeqIdentifiesRequest
    <2> SUFFICES ASSUME TypeOK, CallsNumbered, NEW r \in open, NEW s \in open,
                        r.call = s.call, r.cseq = s.cseq
                 PROVE  r = s
      BY DEF CSeqIdentifiesRequest
    <2>1. r.call \in Calls /\ r \in Open(r.call) /\ s \in Open(r.call)
      BY DEF TypeOK, Request, Open
    <2> QED
      BY <2>1 DEF CallsNumbered, Numbered, Distinct
  <1> QED
    BY <1>1, <1>2, InitNumbered, TypeCorrect, Tracking, PTL DEF Spec

-----------------------------------------------------------------------------
(* The answers to our INVITEs are ACKed.                                    *)

(* The calls of the far end have no offer of ours, so no task runs checks.  *)
Unoffered(e) == e \in InCalls => ~HasOffer(e) /\ e \notin connecting

(* Every update of a dialog but that of an answer keeps whether it has an   *)
(* offer, and that one takes it.                                            *)
LEMMA OfferUpdates ==
    ASSUME NEW d \in Dialog
    PROVE  /\ \A k \in InDialogKind: Asked(d, k).offer = d.offer
           /\ \A m: Reinvited(d, m).offer = d.offer
           /\ \A b: [d EXCEPT !.media = b].offer = d.offer
           /\ \A s: [d EXCEPT !.state = s].offer = d.offer
           /\ [Bump(d) EXCEPT !.authRetried = TRUE].offer = d.offer
           /\ [Bump(d) EXCEPT !.sessionExpiresRetried = TRUE].offer = d.offer
           /\ \A t \in Refresher:
                 WithTimer([d EXCEPT !.refreshPending = FALSE], t).offer = d.offer
  <1>1. \A k \in InDialogKind: Asked(d, k).offer = d.offer
    BY OfferKept DEF Asked, InDialogKind
  <1>2. [d EXCEPT !.refreshPending = FALSE] \in Dialog
        /\ [d EXCEPT !.refreshPending = FALSE].offer = d.offer
    BY DEF Dialog
  <1>3. \A t \in Refresher: WithTimer([d EXCEPT !.refreshPending = FALSE], t).offer = d.offer
    BY <1>2, OfferKept
  <1>4. /\ \A m: Reinvited(d, m).offer = d.offer
        /\ \A b: [d EXCEPT !.media = b].offer = d.offer
        /\ \A s: [d EXCEPT !.state = s].offer = d.offer
        /\ [Bump(d) EXCEPT !.authRetried = TRUE].offer = d.offer
        /\ [Bump(d) EXCEPT !.sessionExpiresRetried = TRUE].offer = d.offer
    BY DEF Reinvited, Bump, Dialog
  <1> QED
    BY <1>1, <1>3, <1>4

LEMMA UnofferedMoves ==
    ASSUME NEW e \in InCalls, LocalType(e), Unoffered(e), Moves(e)
    PROVE  Unoffered(e)'
  <1> DEFINE d == dialogs[e]
  <1>1. ~HasOffer(e) /\ e \notin connecting /\ e \notin offering /\ e \notin OutCalls
    BY CallsAssumption DEF Unoffered, LocalType
  <1>2. Live(e) => d \in Dialog /\ d.offer = FALSE
    BY <1>1 DEF LocalType, Live, HasOffer, Dialog
  <1>3. ASSUME e \in connecting' <=> e \in connecting,
               Live(e)' => dialogs'[e].offer = FALSE
        PROVE  Unoffered(e)'
    BY <1>1, <1>3 DEF Unoffered, HasOffer
  <1>4. ASSUME e \in connecting' <=> e \in connecting,
               dialogs'[e] = dialogs[e] \/ dialogs'[e] = NoDialog
        PROVE  Unoffered(e)'
    BY <1>2, <1>3, <1>4 DEF Live
  <1>5. CASE Still(e) \/ Fails(e) \/ FarEndActs(e)
    <2>1. CASE Fails(e)
      BY <2>1 DEF Fails, Becomes, Unoffered, HasOffer, Live
    <2> QED
      BY <1>4, <1>5, <2>1 DEF Still, FarEndActs, OursSame, TasksSame, DialogSame
  <1>6. CASE Commands(e)
    <2>1. CASE Declines(e) \/ TakesUp(e)
      BY <1>4, <1>6, <2>1 DEF Commands, Declines, TakesUp, Becomes
    <2>2. CASE Quits(e)
      BY <1>2, <1>3, <1>6, <2>2, OfferKept DEF Commands, Quits, Becomes, MayHangUp
    <2>3. CASE Requests(e)
      <3>1. PICK kind \in InDialogKind: Becomes(e, Asked(d, kind), view[e])
        BY <2>3 DEF Requests
      <3>2. Asked(d, kind).offer = FALSE
        BY <1>2, <2>3, OfferUpdates DEF Requests, MayAsk
      <3> QED
        BY <1>3, <1>6, <3>1, <3>2 DEF Commands, Becomes
    <2> QED
      BY <1>1, <1>6, <2>1, <2>2, <2>3 DEF Commands, Dials
  <1>7. CASE Finishes(e)
    <2>1. CASE AnswerReady(e)
      BY <1>2, <1>3, <1>4, <2>1, OfferKept DEF AnswerReady, Becomes, Live
    <2> QED
      BY <1>1, <1>7, <2>1 DEF Finishes, OfferReady, ChecksDone
  <1>8. CASE Refreshes(e)
    <2>1. Refreshed(d).offer = FALSE
      BY <1>2, <1>8, OfferKept DEF Refreshes, Due
    <2> QED
      BY <1>3, <1>8, <2>1 DEF Refreshes, TasksSame
  <1>9. CASE Delivers(e)
    <2>1. PICK m \in Message: Reacts(e, m)
      BY <1>9 DEF Delivers
    <2>2. CASE GetsInvite(e, m)
      <3>1. NewIncoming(m.body # "bad", m.timer).offer = FALSE
        BY DEF NewIncoming, NewOutgoing
      <3>2. Live(e) => Reinvited(d, m).offer = FALSE
        BY <1>2, OfferUpdates
      <3> QED
        BY <1>3, <2>2, <3>1, <3>2 DEF GetsInvite, Becomes
    <2>3. CASE IsOver(e, m) \/ IsIgnored(e, m)
      BY <1>4, <2>3 DEF IsOver, IsIgnored, Becomes, NothingElse
    <2>4. CASE GetsAck(e, m)
      <3>1. Live(e) => [d EXCEPT !.state = "Confirmed"].offer = FALSE
        BY <1>2, OfferUpdates
      <3>2. /\ e \in connecting' <=> e \in connecting
            /\ \/ dialogs'[e] = d
               \/ Live(e) /\ dialogs'[e] = [d EXCEPT !.state = "Confirmed"]
        BY <2>4 DEF GetsAck, Becomes, NothingElse
      <3> QED
        BY <1>3, <1>4, <3>1, <3>2
    <2>5. CASE IsRinging(e, m)
      <3>1. Live(e) => [d EXCEPT !.state = "Ringing"].offer = FALSE
        BY <1>2, OfferUpdates
      <3>2. /\ e \in connecting' <=> e \in connecting
            /\ Live(e) /\ dialogs'[e] = [d EXCEPT !.state = "Ringing"]
        BY <2>5 DEF IsRinging, Becomes, NothingElse
      <3> QED
        BY <1>3, <3>1, <3>2
    <2>6. CASE Connects(e, m)
      <3>1. Live(e) /\ m.timer \in Refresher
        BY <2>6, MessageFields DEF Connects, IsOk
      <3>2. Accepted(d, m.timer).offer = FALSE
        BY <1>2, <3>1, OfferKept
      <3> QED
        BY <1>2, <1>3, <2>6, <3>1, <3>2 DEF Connects, Becomes
    <2>7. CASE ConnectsNot(e, m)
      BY <1>4, <2>7 DEF ConnectsNot, Becomes
    <2>8. CASE Confirms(e, m)
      <3>1. Live(e) /\ m.timer \in Refresher
        BY <2>8, MessageFields DEF Confirms, IsOk
      <3>2. WithTimer([d EXCEPT !.refreshPending = FALSE], m.timer).offer = FALSE
        BY <1>2, <3>1, OfferUpdates
      <3>3. TakeHold(d).offer = FALSE
        BY <1>2, <3>1, OfferKept
      <3> QED
        BY <1>3, <2>8, <3>2, <3>3 DEF Confirms, Becomes
    <2>9. CASE Again(e, m)
      <3>1. /\ Live(e) /\ (e \in connecting' <=> e \in connecting)
            /\ \/ dialogs'[e] = [Bump(d) EXCEPT !.authRetried = TRUE]
               \/ dialogs'[e] = [Bump(d) EXCEPT !.sessionExpiresRetried = TRUE]
        BY <2>9 DEF Again, Becomes
      <3>2. /\ [Bump(d) EXCEPT !.authRetried = TRUE].offer = FALSE
            /\ [Bump(d) EXCEPT !.sessionExpiresRetried = TRUE].offer = FALSE
        BY <1>2, <3>1, OfferUpdates
      <3> QED
        BY <1>3, <3>1, <3>2
    <2> QED
      BY <2>1, <2>2, <2>3, <2>4, <2>5, <2>6, <2>7, <2>8, <2>9 DEF Reacts
  <1> QED
    BY <1>5, <1>6, <1>7, <1>8, <1>9 DEF Moves

(* The 200 with this CSeq is still on its way to us.                        *)
OkSent(e, n) ==
    \E m \in Sent(e): m.type = "response" /\ m.method = "INVITE" /\ m.status = 200
                      /\ m.cseq = n

(* While the client has not hung up, no answer is past an ACK it still      *)
(* waits for; and one task at most resolves an answer, of a call accepted.  *)
Acked(e) ==
    /\ Fresh(e) => ~Live(e) /\ Unacked(e) = {} /\ answering[e] = 0
    /\ Live(e) /\ answering[e] > 0 => view[e] = "accepting" /\ answering[e] = 1
    /\ Live(e) /\ view[e] # "closed" =>
          /\ dialogs[e].state # "Terminating"
          /\ \A n \in Unacked(e): OkSent(e, n)

LEMMA StillSent ==
    ASSUME NEW e, NEW n, OkSent(e, n), Sent(e) \subseteq Sent(e)'
    PROVE  OkSent(e, n)'
  BY DEF OkSent

(* A delivered message leaves no 2xx behind.                                *)
LEMMA AckedDelivery ==
    ASSUME MaxPeerReqs = 0, InCalls = {} \/ MaxDups = 0, NEW e \in Calls,
           LocalType(e), Acked(e), OneInvite(e), Delivers(e)
    PROVE  Acked(e)'
  <1> DEFINE d == dialogs[e]
             Sound == Live(e)' /\ view'[e] # "closed" =>
                        /\ dialogs'[e].state # "Terminating"
                        /\ \A n \in Unacked(e)': OkSent(e, n)'
             Kept == /\ Fresh(e)' => ~Live(e)' /\ Unacked(e)' = {}
                     /\ Live(e)' /\ answering[e] > 0 => view'[e] = "accepting"
                     /\ Live(e)' => Live(e) \/ answering[e] = 0
                     /\ Sound
  <1>0. OneInvite(e)' /\ (Fresh(e)' => Fresh(e)) /\ answering'[e] = answering[e]
    BY OneInviteMoves DEF Moves, Delivers
  <1>1. PICK m \in Message:
          /\ m \in Sent(e) /\ Reacts(e, m)
          /\ Sent(e) \subseteq Sent(e)' \cup {m}
          /\ MaxDups = 0 /\ Lone(e) => (m.type = "INVITE" => ~Invited(e)')
    BY LoneTaken DEF Delivers
  <1>2. m.type # "reINVITE" /\ (m.type = "INVITE" => Invited(e) /\ Fresh(e))
    BY <1>1 DEF OneInvite, Invited, Fresh
  <1>3. Live(e) => d \in Dialog
    BY DEF LocalType, Live
  <1>4. ASSUME NEW n, OkSent(e, n)
        PROVE  \/ OkSent(e, n)'
               \/ /\ m.type = "response" /\ m.method = "INVITE" /\ m.status = 200
                  /\ m.cseq = n
    BY <1>1, <1>4 DEF OkSent
  <1>5. ASSUME GetsInvite(e, m) PROVE Kept
    <2>1. m.type = "INVITE" /\ ~Live(e) /\ Unacked(e)' = {} /\ answering[e] = 0
      BY <1>2, <1>5 DEF GetsInvite, Acked
    <2>2. ~Fresh(e)'
      <3>1. e \in InCalls /\ e \notin OutCalls /\ MaxDups = 0
        BY <1>2, <2>1 DEF OneInvite, Calls
      <3>2. ~Invited(e)' /\ inv[e] # "none" /\ inv'[e] = inv[e]
        BY <1>1, <1>2, <2>1, <3>1 DEF OneInvite, Delivers, FarEndSame
      <3> QED
        BY <3>1, <3>2 DEF Fresh
    <2>3. dialogs'[e].state = "Calling"
      BY <1>5, <2>1 DEF GetsInvite, Becomes, NewIncoming, NewOutgoing
    <2> QED
      BY <2>1, <2>2, <2>3
  <1>6. ASSUME Live(e)' => Live(e) /\ view'[e] \in {view[e], "ringing"},
               view'[e] = "ringing" => view[e] \in {"asked", "ringing"},
               Unacked(e)' = Unacked(e),
               Live(e)' => dialogs'[e].state \in {d.state, "Confirmed", "Ringing"},
               ~(/\ m.type = "response" /\ m.method = "INVITE" /\ m.status = 200
                 /\ d.state # "Terminating" /\ Live(e)')
        PROVE  Kept
    <2>1. ASSUME Live(e)', view'[e] # "closed", NEW n \in Unacked(e)'
          PROVE  OkSent(e, n)'
      BY <1>4, <1>6, <2>1 DEF Acked
    <2>2. Sound
      BY <1>6, <2>1 DEF Acked
    <2>3. Live(e)' /\ answering[e] > 0 => view'[e] = "accepting"
      BY <1>6 DEF Acked
    <2>4. Fresh(e)' => ~Live(e)' /\ Unacked(e)' = {}
      BY <1>0, <1>6 DEF Acked
    <2> HIDE DEF Sound
    <2> QED
      BY <1>6, <2>2, <2>3, <2>4
  <1>7. ASSUME IsOver(e, m) PROVE Kept
    BY <1>0, <1>7 DEF IsOver, Becomes, NothingElse, Live, Acked
  <1>8. ASSUME GetsAck(e, m) PROVE Kept
    <2>1. Live(e) => [d EXCEPT !.state = "Confirmed"].state = "Confirmed"
      BY <1>3, Numbers
    <2>2. /\ view'[e] = view[e] /\ Unacked(e)' = Unacked(e) /\ m.type = "ACK"
          /\ \/ dialogs'[e] = d
             \/ Live(e) /\ dialogs'[e] = [d EXCEPT !.state = "Confirmed"]
      BY <1>8 DEF GetsAck, Becomes, NothingElse
    <2> QED
      BY <1>6, <2>1, <2>2 DEF Live
  <1>9. ASSUME IsIgnored(e, m) PROVE Kept
    <2>1. /\ view'[e] = view[e] /\ Unacked(e)' = Unacked(e) /\ dialogs'[e] = d
          /\ \/ m.method = "REFER" \/ ~Live(e) \/ m.method = "INFO"
             \/ d.state = "Terminating"
      BY <1>9 DEF IsIgnored, Becomes, NothingElse
    <2> QED
      BY <1>6, <2>1 DEF Live
  <1>10. ASSUME IsRinging(e, m) PROVE Kept
    <2>1. Live(e) => [d EXCEPT !.state = "Ringing"].state = "Ringing"
      BY <1>3, Numbers
    <2>2. /\ view'[e] = (IF view[e] = "asked" THEN "ringing" ELSE view[e])
          /\ Unacked(e)' = Unacked(e) /\ m.status = 180
          /\ Live(e) /\ dialogs'[e] = [d EXCEPT !.state = "Ringing"]
      BY <1>10 DEF IsRinging, Becomes, NothingElse
    <2> QED
      BY <1>6, <2>1, <2>2
  <1>11. ASSUME IsOk(e, m), view'[e] = view[e],
                Live(e)' => dialogs'[e].state \in {d.state, "Confirmed"}
         PROVE  Kept
    <2>1. Live(e) /\ Unacked(e)' = Unacked(e) \ {m.cseq}
      BY <1>11 DEF IsOk
    <2>2. ASSUME Live(e)', view'[e] # "closed", NEW n \in Unacked(e)'
          PROVE  OkSent(e, n)'
      BY <1>4, <1>11, <2>1, <2>2 DEF Acked
    <2>3. Sound
      BY <1>11, <2>1, <2>2 DEF Acked
    <2> HIDE DEF Sound
    <2> QED
      BY <1>0, <1>11, <2>1, <2>3 DEF Acked
  <1>12. ASSUME Connects(e, m) PROVE Kept
    <2>1. Live(e) /\ IsOk(e, m) /\ dialogs'[e] = Accepted(d, m.timer) /\ view'[e] = view[e]
      BY <1>12 DEF Connects, IsOk, Becomes
    <2>2. Accepted(d, m.timer).state = "Confirmed"
      BY <1>3, <2>1, Numbers
    <2> QED
      BY <1>11, <2>1, <2>2
  <1>13. ASSUME ConnectsNot(e, m) PROVE Kept
    BY <1>0, <1>13 DEF ConnectsNot, IsOk, Becomes, Live, Acked
  <1>14. ASSUME Confirms(e, m) PROVE Kept
    <2> DEFINE f == [d EXCEPT !.refreshPending = FALSE]
    <2>1. Live(e) /\ IsOk(e, m) /\ view'[e] = view[e]
          /\ dialogs'[e] \in {WithTimer(f, m.timer), TakeHold(d)}
      BY <1>14 DEF Confirms, IsOk, Becomes
    <2>2. f \in Dialog /\ f.state = d.state
      BY <1>3, <2>1 DEF Dialog
    <2> HIDE DEF f
    <2>3. WithTimer(f, m.timer).state = d.state
      BY <2>2, Numbers
    <2>4. TakeHold(d).state = d.state
      BY <1>3, <2>1, Numbers
    <2> QED
      BY <1>11, <2>1, <2>3, <2>4
  <1>15. ASSUME Again(e, m) PROVE Kept
    <2>1. /\ Live(e) /\ view'[e] = view[e] /\ Unacked(e)' = Unacked(e)
          /\ \/ m.status = 401 /\ dialogs'[e] = [Bump(d) EXCEPT !.authRetried = TRUE]
             \/ m.status = 422 /\ dialogs'[e] = [Bump(d) EXCEPT !.sessionExpiresRetried = TRUE]
      BY <1>15 DEF Again, Becomes
    <2>2. /\ [Bump(d) EXCEPT !.authRetried = TRUE].state = d.state
          /\ [Bump(d) EXCEPT !.sessionExpiresRetried = TRUE].state = d.state
      BY <1>3, <2>1 DEF Bump, Dialog
    <2>3. dialogs'[e].state = d.state
      BY <2>1, <2>2
    <2>4. m.status # 200
      BY <2>1
    <2>5. /\ Live(e)' => Live(e) /\ view'[e] \in {view[e], "ringing"}
          /\ view'[e] = "ringing" => view[e] \in {"asked", "ringing"}
      BY <2>1
    <2> HIDE DEF Kept
    <2> QED
      BY <1>6, <2>1, <2>3, <2>4, <2>5
  <1>16. Kept
    <2> HIDE DEF Kept
    <2> QED
      BY <1>1, <1>5, <1>7, <1>8, <1>9, <1>10, <1>12, <1>13, <1>14, <1>15 DEF Reacts
  <1> QED
    BY <1>0, <1>16 DEF Acked, LocalType

LEMMA AckedMoves ==
    ASSUME MaxPeerReqs = 0, InCalls = {} \/ MaxDups = 0, EarlyHangUp = FALSE,
           NEW e \in Calls, LocalType(e), OneToken(e), Numbered(e), Unoffered(e),
           e \in OutCalls => Placed(e), Acked(e), Moves(e)
    PROVE  Acked(e)'
  <1> DEFINE d == dialogs[e]
  <1>1. OneInvite(e)' /\ (Fresh(e)' => Fresh(e))
    BY OneInviteMoves DEF Numbered
  <1>2. Live(e) => d \in Dialog
    BY DEF LocalType, Live
  <1>3. e \in OutCalls <=> e \notin InCalls
    BY CallsAssumption DEF Calls
  <1>4. ASSUME Sent(e) \subseteq Sent(e)',
               Unacked(e)' = Unacked(e) \/ \E n \in Unacked(e)': OkSent(e, n)'
                                             /\ Unacked(e)' = Unacked(e) \cup {n},
               answering'[e] = answering[e],
               Live(e)' => Live(e) /\ view'[e] \in {view[e], "closed", "connected"}
                             /\ (view'[e] = "connected" => view[e] # "closed"),
               Live(e)' /\ view'[e] # "closed" => dialogs'[e].state # "Terminating",
               Fresh(e)' => Unacked(e)' = {},
               Live(e)' => view'[e] = view[e] \/ answering[e] = 0
        PROVE  Acked(e)'
    <2>1. ASSUME Live(e)', view'[e] # "closed", NEW n \in Unacked(e)'
          PROVE  OkSent(e, n)'
      BY <1>4, <2>1, StillSent DEF Acked
    <2> QED
      BY <1>1, <1>4, <2>1 DEF Acked
  <1>5. ChanSame(e) => Sent(e)' = Sent(e)
    BY DEF ChanSame, Sent
  <1>6. CASE Still(e)
    BY <1>1, <1>4, <1>5, <1>6
    DEF Still, DialogSame, ClientSame, TasksSame, RequestsSame, Live, Acked
  <1>7. CASE Commands(e)
    <2>1. ChanSame(e) /\ Unacked(e)' = Unacked(e)
      BY <1>7 DEF Commands
    <2>2. CASE Dials(e)
      <3>1. ~Live(e) /\ dialogs'[e] = dialogs[e]
        BY <2>2 DEF Dials, Acked, Fresh, Unplaced, Becomes
      <3> QED
        BY <1>1, <2>1, <2>2, <3>1 DEF Acked, Dials, Live
    <2>3. CASE Declines(e)
      BY <1>1, <2>1, <2>3 DEF Declines, Becomes, Live, Acked
    <2>4. CASE TakesUp(e)
      <3>1. view[e] = "incoming" /\ Live(e) /\ answering[e] = 0
        BY <2>4 DEF TakesUp, Acked, LocalType
      <3>2. dialogs'[e] = d /\ view'[e] = "accepting" /\ answering'[e] = 1
        BY <2>4, <3>1 DEF TakesUp, Becomes
      <3> QED
        BY <1>1, <1>5, <2>1, <3>1, <3>2 DEF Acked, Live, OkSent
    <2>5. CASE Quits(e)
      <3>1. view[e] = "connected" /\ view'[e] = "closed" /\ answering'[e] = answering[e]
            /\ Live(e)
        BY <2>5 DEF Quits, MayHangUp, Becomes
      <3> QED
        BY <1>1, <2>1, <3>1 DEF Acked, LocalType
    <2>6. CASE Requests(e)
      <3>1. PICK kind: Becomes(e, Asked(d, kind), view[e])
        BY <2>6 DEF Requests
      <3>2. Live(e) /\ answering'[e] = answering[e] /\ Asked(d, kind).state = d.state
        BY <1>2, <2>6, Numbers DEF Requests, MayAsk
      <3> QED
        BY <1>1, <1>4, <1>5, <2>1, <3>1, <3>2 DEF Becomes, Acked
    <2> QED
      BY <1>7, <2>2, <2>3, <2>4, <2>5, <2>6 DEF Commands
  <1>8. CASE Finishes(e)
    <2>1. ChanSame(e) /\ Unacked(e)' = Unacked(e)
      BY <1>8 DEF Finishes
    <2>2. CASE OfferReady(e)
      <3>1. /\ e \in OutCalls /\ Fresh(e) /\ view[e] # "idle"
            /\ ~Live(e) /\ Unacked(e) = {} /\ answering[e] = 0
        BY <2>2 DEF OfferReady, LocalType, Fresh, Unplaced, OneToken, Acked
      <3>2. ~Fresh(e)'
        BY <2>2, <3>1 DEF OfferReady, Becomes, Fresh, Unplaced
      <3>3. /\ answering'[e] = 0
            /\ dialogs'[e] = d \/ dialogs'[e].state = "Calling"
        BY <2>2, <3>1 DEF OfferReady, Becomes, NewOutgoing
      <3> QED
        BY <2>1, <3>1, <3>2, <3>3 DEF Acked, Live
    <2>3. CASE AnswerReady(e)
      <3>1. Live(e) => Answered(d).state = "Confirmed"
        BY <1>2, Numbers
      <3>2. ~Fresh(e)
        BY <2>3 DEF AnswerReady, Acked
      <3>3. CASE Live(e)
        <4>1. /\ view[e] = "accepting" /\ answering'[e] = 0 /\ view'[e] = "connected"
              /\ dialogs'[e] = Answered(d)
          BY <2>3, <3>3 DEF AnswerReady, Acked, Becomes
        <4> QED
          BY <1>1, <1>5, <2>1, <3>1, <3>2, <3>3, <4>1 DEF Acked, OkSent
      <3>4. CASE ~Live(e)
        BY <1>1, <2>3, <3>2, <3>4 DEF AnswerReady, Becomes, Acked, Live
      <3> QED
        BY <3>3, <3>4
    <2>4. CASE ChecksDone(e)
      <3>1. e \in OutCalls
        BY <1>3, <2>4 DEF ChecksDone, Unoffered
      <3>2. connects[e] = 0 /\ answering[e] = 0 /\ answering'[e] = 0
        BY <2>4, <3>1 DEF ChecksDone, OneToken, Placed
      <3>3. CASE Live(e)
        <4>1. view[e] \in {"asked", "ringing"}
          BY <3>1, <3>2, <3>3 DEF Placed
        <4>2. view'[e] = "connected" /\ dialogs'[e] = [d EXCEPT !.media = TRUE]
          BY <2>4, <3>3 DEF ChecksDone, Becomes
        <4>3. [d EXCEPT !.media = TRUE].state = d.state
          BY <1>2, <3>3, Numbers
        <4> QED
          BY <1>1, <1>4, <1>5, <2>1, <3>2, <3>3, <4>1, <4>2, <4>3 DEF Acked
      <3>4. CASE ~Live(e)
        BY <1>1, <2>1, <2>4, <3>2, <3>4 DEF ChecksDone, Becomes, Acked, Live
      <3> QED
        BY <3>3, <3>4
    <2> QED
      BY <1>8, <2>2, <2>3, <2>4 DEF Finishes
  <1>9. CASE Delivers(e)
    BY <1>9, AckedDelivery DEF Numbered
  <1>10. CASE Refreshes(e)
    <2>1. Live(e) /\ Refreshed(d).state = d.state /\ dialogs'[e] = Refreshed(d)
      BY <1>2, <1>10, Numbers DEF Refreshes, Due
    <2> QED
      BY <1>1, <1>4, <1>5, <1>10, <2>1 DEF Refreshes, ClientSame, TasksSame, Acked
  <1>11. CASE Fails(e)
    BY <1>1, <1>11 DEF Fails, Becomes, Live, RequestsSame, Acked
  <1>12. CASE FarEndActs(e)
    <2>1. /\ dialogs'[e] = d /\ view'[e] = view[e] /\ answering'[e] = answering[e]
      BY <1>12 DEF FarEndActs, OursSame, DialogSame, ClientSame, TasksSame
    <2>2. Sent(e) \subseteq Sent(e)'
      BY <1>12, FarEndSays DEF Says
    <2>3. CASE Unacked(e)' = Unacked(e)
      BY <1>1, <1>4, <2>1, <2>2, <2>3 DEF Live, Acked
    <2>4. ASSUME NEW r \in Open(e), Accepts(e, r) PROVE Acked(e)'
      <3>1. PICK ok, t: Says(e, {Reply(r, 200, ok, t)})
        BY <2>4 DEF Accepts
      <3>2. /\ Reply(r, 200, ok, t).type = "response"
            /\ Reply(r, 200, ok, t).method = "INVITE"
            /\ Reply(r, 200, ok, t).status = 200
            /\ Reply(r, 200, ok, t).cseq = r.cseq
        BY <2>4 DEF Reply, Accepts, MethodOf
      <3>3. Reply(r, 200, ok, t) \in Sent(e)'
        BY <3>1 DEF Says
      <3>4. OkSent(e, r.cseq)'
        BY <3>2, <3>3 DEF OkSent
      <3>5. Unacked(e)' = Unacked(e) \cup {r.cseq}
        BY <2>4 DEF Accepts
      <3>6. ~Fresh(e)'
        BY <1>1, <2>4 DEF Numbered
      <3> QED
        BY <1>4, <2>1, <2>2, <3>4, <3>5, <3>6 DEF Live, Acked
    <2> QED
      BY <1>12, <2>3, <2>4
      DEF FarEndActs, Rings, Refuses, TakesBye, TakesOther, RequestsSame, GetsFinal
  <1> QED
    BY <1>6, <1>7, <1>8, <1>9, <1>10, <1>11, <1>12 DEF Moves

CallsAcked == \A e \in Calls: Unoffered(e) /\ Acked(e)

LEMMA InitAcked == Init => CallsAcked
  BY DEF Init, CallsAcked, Unoffered, Acked, HasOffer, Live, Unacked

LEMMA NextAcked ==
    ASSUME MaxPeerReqs = 0, InCalls = {} \/ MaxDups = 0, EarlyHangUp = FALSE, TypeOK,
           CallsTracked, PlacedCalls, CallsNumbered, CallsAcked, [Next]_vars
    PROVE  CallsAcked'
  <1> SUFFICES ASSUME NEW e \in Calls PROVE Unoffered(e)' /\ Acked(e)'
    BY DEF CallsAcked
  <1>1. /\ Moves(e) /\ LocalType(e) /\ OneToken(e) /\ Numbered(e) /\ Unoffered(e)
        /\ Acked(e) /\ (e \in OutCalls => Placed(e))
    BY EveryStep, LocalTypes DEF CallsTracked, Tracked, PlacedCalls, CallsNumbered, CallsAcked
  <1>2. Unoffered(e)'
    BY <1>1, UnofferedMoves DEF Unoffered
  <1> QED
    BY <1>1, <1>2, AckedMoves

(* No 2xx to an INVITE or re-INVITE is swallowed while the call is up: it   *)
(* has been ACKed or is still on its way, whichever of the three kinds      *)
(* on_response takes it for; holds, refreshes and retries may overlap, and  *)
(* be answered out of order and repeatedly.                                 *)
THEOREM EveryAnswerAcked ==
    ASSUME MaxPeerReqs = 0, InCalls = {} \/ MaxDups = 0, EarlyHangUp = FALSE
    PROVE  Spec => []AnswersAcked
  <1>1. TypeOK /\ CallsTracked /\ PlacedCalls /\ [Next]_vars => PlacedCalls'
    BY NextPlaced
  <1>2. TypeOK /\ CallsTracked /\ CallsNumbered /\ [Next]_vars => CallsNumbered'
    BY NextNumbered
  <1>3. TypeOK /\ CallsTracked /\ PlacedCalls /\ CallsNumbered /\ CallsAcked /\ [Next]_vars
        => CallsAcked'
    BY NextAcked
  <1>4. TypeOK /\ CallsTracked /\ CallsAcked => AnswersAcked
    <2> SUFFICES ASSUME TypeOK, CallsTracked, CallsAcked, NEW u \in unacked,
                        view[u[1]] = "connected"
                 PROVE  \E i \in DOMAIN chan[u[1]]:
                            /\ chan[u[1]][i].type = "response"
                            /\ chan[u[1]][i].method = "INVITE"
                            /\ chan[u[1]][i].cseq = u[2]
      BY DEF AnswersAcked
    <2>0. PICK c \in Calls, n \in Nat: u = <<c, n>>
      BY DEF TypeOK
    <2>1. u[1] \in Calls /\ u[2] \in Unacked(u[1])
      BY <2>0 DEF Unacked
    <2>2. Live(u[1])
      BY <2>1 DEF CallsTracked, Tracked, LimboFree
    <2>3. OkSent(u[1], u[2])
      BY <2>1, <2>2 DEF CallsAcked, Acked
    <2> QED
      BY <2>3 DEF OkSent, Sent
  <1> QED
    BY <1>1, <1>2, <1>3, <1>4, InitPlaced, InitNumbered, InitAcked, TypeCorrect, Tracking,
       PTL DEF Spec

=============================================================================
