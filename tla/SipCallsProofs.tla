--------------------------- MODULE SipCallsProofs ----------------------------
(***************************************************************************)
(* Theorems about SipCalls, for any number of calls and any values of the  *)
(* bounds and switches.                                                     *)
(***************************************************************************)
EXTENDS SipCalls, SequenceTheorems, TLAPS

-----------------------------------------------------------------------------
(* What the handlers make of a dialog is a dialog. *)

LEMMA NewDialogs ==
    /\ NewOutgoing \in Dialog
    /\ \A codec \in BOOLEAN, t \in Refresher: NewIncoming(codec, t) \in Dialog
  <1>1. NewOutgoing \in Dialog
    BY DEF NewOutgoing, Dialog, DialogState, Refresher
  <1>2. ASSUME NEW codec \in BOOLEAN, NEW t \in Refresher
        PROVE  NewIncoming(codec, t) \in Dialog
    BY DEF NewIncoming, NewOutgoing, Dialog, DialogState, Refresher
  <1> QED
    BY <1>1, <1>2

LEMMA TimerUpdate ==
    ASSUME NEW d \in Dialog, NEW t \in Refresher
    PROVE  WithTimer(d, t) \in Dialog
  <1>1. ASSUME NEW ours \in BOOLEAN, NEW armed \in BOOLEAN
        PROVE  [d EXCEPT !.timer = TRUE, !.refresher = ours, !.armed = armed]
                  \in Dialog
    BY DEF Dialog
  <1>2. (t # "uas") \in BOOLEAN /\ (d.armed \/ t # "uas") \in BOOLEAN
    OBVIOUS
  <1>3. [d EXCEPT !.timer = TRUE, !.refresher = (t # "uas"),
                  !.armed = @ \/ (t # "uas")] \in Dialog
    BY <1>1, <1>2, Zenon
  <1>4. CASE t = "none"
    BY <1>4 DEF WithTimer
  <1>5. CASE t # "none"
    BY <1>3, <1>5, Zenon DEF WithTimer
  <1> QED
    BY <1>4, <1>5

LEMMA AnsweredUpdate ==
    ASSUME NEW d \in Dialog
    PROVE  Answered(d) \in Dialog
  <1> DEFINE timed == SessionTimers /\ d.incomingTimer # "none"
             ours == timed /\ d.incomingTimer = "uas"
             theirs == IF timed THEN ours ELSE d.refresher
             kept == IF SessionTimers THEN "none" ELSE d.incomingTimer
  <1>1. ASSUME NEW a \in BOOLEAN, NEW b \in BOOLEAN, NEW e \in BOOLEAN,
               NEW t \in Refresher
        PROVE  [d EXCEPT !.state = "Confirmed", !.media = TRUE,
                         !.sdp = "sendrecv", !.timer = a, !.refresher = b,
                         !.armed = e, !.incomingTimer = t] \in Dialog
    BY DEF Dialog, DialogState
  <1>2. d.refresher \in BOOLEAN /\ d.incomingTimer \in Refresher
    BY DEF Dialog
  <1>3. (d.timer \/ timed) \in BOOLEAN /\ (d.armed \/ ours) \in BOOLEAN
    OBVIOUS
  <1>4. theirs \in BOOLEAN
    BY <1>2, Zenon
  <1>5. kept \in Refresher
    BY <1>2 DEF Refresher
  <1>6. [d EXCEPT !.state = "Confirmed", !.media = TRUE, !.sdp = "sendrecv",
                  !.timer = d.timer \/ timed, !.refresher = theirs,
                  !.armed = d.armed \/ ours, !.incomingTimer = kept] \in Dialog
    <2> HIDE DEF timed, ours, theirs, kept
    <2> QED
      BY <1>1, <1>3, <1>4, <1>5, Zenon
  <1> QED
    BY <1>6, Zenon DEF Answered

LEMMA DialogUpdates ==
    ASSUME NEW d \in Dialog
    PROVE  /\ Bump(d) \in Dialog
           /\ Closing(d) \in Dialog
           /\ \A k \in {"hold", "resume"}: Reinvite(d, k) \in Dialog
           /\ \A t \in Refresher: Accepted(d, t) \in Dialog
           /\ TakeHold(d) \in Dialog
           /\ Refreshed(d) \in Dialog
  <1>1. Bump(d) \in Dialog
    BY DEF Bump, Dialog
  <1>2. Closing(d) \in Dialog
    BY <1>1 DEF Closing, Dialog, DialogState
  <1>3. ASSUME NEW k \in {"hold", "resume"} PROVE Reinvite(d, k) \in Dialog
    BY <1>1 DEF Reinvite, Dialog
  <1>4. ASSUME NEW t \in Refresher PROVE Accepted(d, t) \in Dialog
    <2>1. [d EXCEPT !.state = "Confirmed", !.offer = FALSE] \in Dialog
      BY DEF Dialog, DialogState
    <2> QED
      BY <2>1, TimerUpdate DEF Accepted
  <1>5. TakeHold(d) \in Dialog
    <2>1. ASSUME NEW h \in BOOLEAN
          PROVE  [d EXCEPT !.held = h, !.holdPending = "none"] \in Dialog
      BY DEF Dialog
    <2>2. (d.holdPending # "resume") \in BOOLEAN
      OBVIOUS
    <2> QED
      BY <2>1, <2>2, Zenon DEF TakeHold
  <1>6. Refreshed(d) \in Dialog
    BY <1>1 DEF Refreshed, Dialog
  <1> QED
    BY <1>1, <1>2, <1>3, <1>4, <1>5, <1>6

-----------------------------------------------------------------------------
(* What is sent is a request or a message. *)

LEMMA RequestType ==
    ASSUME NEW c \in Calls, NEW kind \in RequestKind, NEW d \in Dialog
    PROVE  /\ RequestOf(c, kind, d) \in Request
           /\ [RequestOf(c, kind, d) EXCEPT !.auth = TRUE] \in Request
           /\ [RequestOf(c, kind, d) EXCEPT !.raised = TRUE] \in Request
  <1>1. d.cseq \in Nat
    BY DEF Dialog
  <1> QED
    BY <1>1 DEF RequestOf, Request

LEMMA MessageType ==
    /\ \A m \in {"INVITE", "reINVITE", "BYE", "CANCEL", "ACK"},
          b \in {"sendrecv", "sendonly", "bad"}, t \in Refresher:
             ReqMsg(m, b, t) \in Message
    /\ \A m \in {"BYE", "CANCEL", "ACK"}: Bare(m) \in Message
    /\ \A r \in Request, s \in {180, 200, 401, 422, 486},
          ok \in {"good", "bad", "absent"}, t \in Refresher:
             Reply(r, s, ok, t) \in Message
  <1>1. ASSUME NEW m \in {"INVITE", "reINVITE", "BYE", "CANCEL", "ACK"},
               NEW b \in {"sendrecv", "sendonly", "bad"}, NEW t \in Refresher
        PROVE  ReqMsg(m, b, t) \in Message
    BY DEF ReqMsg, Message
  <1>2. ASSUME NEW m \in {"BYE", "CANCEL", "ACK"}
        PROVE  Bare(m) \in Message
    BY <1>1 DEF Bare, Refresher
  <1>3. ASSUME NEW r \in Request, NEW s \in {180, 200, 401, 422, 486},
               NEW ok \in {"good", "bad", "absent"}, NEW t \in Refresher
        PROVE  Reply(r, s, ok, t) \in Message
    <2>1. MethodOf(r.kind) \in {"INVITE", "BYE", "INFO", "REFER"} /\ r.cseq \in Nat
      BY DEF Request, RequestKind, InviteKinds, MethodOf
    <2> QED
      BY <2>1 DEF Reply, Message
  <1> QED
    BY <1>1, <1>2, <1>3

LEMMA MessageFields ==
    ASSUME NEW m \in Message
    PROVE  /\ m.timer \in Refresher
           /\ m.type = "response" => m.cseq \in Nat
  BY DEF Message

LEMMA RemoveAtType ==
    ASSUME NEW S, NEW s \in Seq(S), NEW i \in DOMAIN s
    PROVE  RemoveAt(s, i) \in Seq(S)
  <1>1. SubSeq(s, 1, i - 1) \in Seq(S) /\ SubSeq(s, i + 1, Len(s)) \in Seq(S)
    OBVIOUS
  <1> QED
    BY <1>1 DEF RemoveAt

-----------------------------------------------------------------------------
(* Type correctness, one lemma per group of actions *)

LEMMA LiveDialog ==
    ASSUME TypeOK, NEW c \in Calls, Live(c)
    PROVE  dialogs[c] \in Dialog
  BY DEF TypeOK, Live

LEMMA InitType == Init => TypeOK
  BY DEF Init, TypeOK, View, Request

LEMMA CommandType ==
    ASSUME TypeOK, NEW c \in Calls, Command(c)
    PROVE  TypeOK'
  <1>1. CASE c \in OutCalls /\ InitiateCall(c)
    BY <1>1 DEF InitiateCall, Tell, TypeOK, View, wire, farEnd, faults
  <1>2. CASE AcceptCall(c)
    <2>1. CASE Decline(c) /\ Tell(c, "over") /\ UNCHANGED answering
      BY <1>2, <2>1
      DEF AcceptCall, Decline, Erase, Tell, TypeOK, View, farEnd, faults
    <2>2. CASE /\ answering' = [answering EXCEPT ![c] = @ + 1]
               /\ Tell(c, "accepting")
               /\ UNCHANGED <<dialogs, finals>>
      BY <1>2, <2>2 DEF AcceptCall, Tell, TypeOK, View, farEnd, faults
    <2> QED
      BY <1>2, <2>1, <2>2 DEF AcceptCall
  <1>3. CASE RejectCall(c)
    BY <1>3 DEF RejectCall, Decline, Erase, Tell, TypeOK, View, tasks, farEnd,
                faults
  <1>4. CASE HangUp(c)
    <2>1. Closing(dialogs[c]) \in Dialog
      BY <1>4, LiveDialog, DialogUpdates DEF HangUp, MayHangUp
    <2>2. RequestOf(c, "BYE", Closing(dialogs[c])) \in Request
      BY <2>1, RequestType DEF RequestKind
    <2> QED
      BY <1>4, <2>1, <2>2
      DEF HangUp, Put, Send, Tell, TypeOK, View, tasks, farEnd, faults
  <1>5. ASSUME NEW kind \in {"hold", "resume"}, SendReinvite(c, kind)
        PROVE  TypeOK'
    <2>1. Reinvite(dialogs[c], kind) \in Dialog
      BY <1>5, LiveDialog, DialogUpdates DEF SendReinvite, MayAsk
    <2>2. RequestOf(c, kind, Reinvite(dialogs[c], kind)) \in Request
      BY <2>1, RequestType DEF RequestKind
    <2> QED
      BY <1>5, <2>1, <2>2
      DEF SendReinvite, Put, Send, TypeOK, tasks, client, farEnd, faults
  <1>6. ASSUME NEW kind \in {"INFO", "REFER"}, SendInDialog(c, kind)
        PROVE  TypeOK'
    <2>1. Bump(dialogs[c]) \in Dialog
      BY <1>6, LiveDialog, DialogUpdates DEF SendInDialog, MayAsk
    <2>2. RequestOf(c, kind, Bump(dialogs[c])) \in Request
      BY <2>1, RequestType DEF RequestKind
    <2> QED
      BY <1>6, <2>1, <2>2
      DEF SendInDialog, Put, Send, TypeOK, tasks, client, farEnd, faults
  <1> QED
    BY <1>1, <1>2, <1>3, <1>4, <1>5, <1>6 DEF Command, SendDtmfInfo, Transfer

LEMMA TaskDoneType ==
    ASSUME TypeOK, NEW c \in Calls, TaskDone(c)
    PROVE  TypeOK'
  <1>1. CASE OutgoingOfferReady(c)
    <2>1. RequestOf(c, "INVITE", NewOutgoing) \in Request
      BY RequestType, NewDialogs DEF RequestKind
    <2> QED
      BY <1>1, <2>1, NewDialogs, ZenonT(30)
      DEF OutgoingOfferReady, Put, Send, Tell, TypeOK, View, farEnd, faults
  <1>2. CASE IncomingAnswerReady(c)
    <2>1. Live(c) => Answered(dialogs[c]) \in Dialog
      BY LiveDialog, AnsweredUpdate
    <2>2. answering' \in [Calls -> Nat]
      BY <1>2 DEF IncomingAnswerReady, TypeOK
    <2>3. dialogs' \in [Calls -> Dialog \cup {NoDialog}]
      BY <1>2, <2>1 DEF IncomingAnswerReady, Put, TypeOK
    <2>4. view' \in [Calls -> View]
      BY <1>2 DEF IncomingAnswerReady, Tell, TypeOK, View
    <2>5. finals' \in [Calls -> SUBSET {"answer", "decline"}]
      <3>1. finals' = [finals EXCEPT ![c] = @ \cup {"answer"}]
            \/ finals' = finals
        BY <1>2, Zenon DEF IncomingAnswerReady
      <3>2. finals \in [Calls -> SUBSET {"answer", "decline"}]
        BY DEF TypeOK
      <3> QED
        BY <3>1, <3>2
    <2>6. UNCHANGED <<offering, connecting, connects, open, unacked, chan,
                      peerUp, inv, peerReqs, dups, deaths>>
      BY <1>2, Zenon DEF IncomingAnswerReady, farEnd, faults
    <2> QED
      BY <2>2, <2>3, <2>4, <2>5, <2>6 DEF TypeOK
  <1>3. CASE OutgoingConnected(c)
    <2>1. Live(c) => [dialogs[c] EXCEPT !.media = TRUE] \in Dialog
      BY LiveDialog DEF Dialog
    <2>2. dialogs' \in [Calls -> Dialog \cup {NoDialog}]
      BY <1>3, <2>1 DEF OutgoingConnected, Put, TypeOK
    <2>3. view' \in [Calls -> View] /\ connects' \in [Calls -> Nat]
      <3>1. \/ /\ view' = [view EXCEPT ![c] = "connected"]
               /\ connects' = [connects EXCEPT ![c] = @ + 1]
            \/ view' = view /\ connects' = connects
        BY <1>3 DEF OutgoingConnected, Tell
      <3>2. view \in [Calls -> View] /\ connects \in [Calls -> Nat]
        BY DEF TypeOK
      <3> QED
        BY <3>1, <3>2 DEF View
    <2>4. connecting' \subseteq Calls
      BY <1>3 DEF OutgoingConnected, TypeOK
    <2>5. UNCHANGED <<offering, answering, open, unacked, finals, chan,
                      peerUp, inv, peerReqs, dups, deaths>>
      BY <1>3, Zenon DEF OutgoingConnected, wire, farEnd, faults
    <2> QED
      BY <2>2, <2>3, <2>4, <2>5 DEF TypeOK
  <1> QED
    BY <1>1, <1>2, <1>3 DEF TaskDone

LEMMA TimeType ==
    ASSUME TypeOK, RefreshSessionTimers \/ TransportFails
    PROVE  TypeOK'
  <1>1. CASE RefreshSessionTimers
    <2>1. PICK due \in SUBSET {c \in Calls: Due(c) /\ dialogs[c].cseq < MaxCSeq}:
            /\ dialogs' = [c \in Calls |->
                  IF c \in due THEN Refreshed(dialogs[c]) ELSE dialogs[c]]
            /\ open' = open \cup
                  {RequestOf(c, "refresh", Refreshed(dialogs[c])): c \in due}
      BY <1>1 DEF RefreshSessionTimers
    <2>2. \A c \in due: Refreshed(dialogs[c]) \in Dialog
      BY LiveDialog, DialogUpdates DEF Due
    <2>3. \A c \in due: RequestOf(c, "refresh", Refreshed(dialogs[c])) \in Request
      BY <2>2, RequestType DEF RequestKind
    <2>4. dialogs' \in [Calls -> Dialog \cup {NoDialog}]
      BY <2>1, <2>2 DEF TypeOK
    <2>5. open' \subseteq Request
      BY <2>1, <2>3 DEF TypeOK
    <2> QED
      BY <1>1, <2>4, <2>5
      DEF RefreshSessionTimers, TypeOK, tasks, client, farEnd, faults
  <1>2. CASE TransportFails
    BY <1>2 DEF TransportFails, TypeOK, View, wire, farEnd
  <1> QED
    BY <1>1, <1>2

-----------------------------------------------------------------------------
(* A message handled: what `Handled` names keeps its type. *)

HandledType ==
    /\ dialogs \in [Calls -> Dialog \cup {NoDialog}]
    /\ connecting \subseteq Calls
    /\ view \in [Calls -> View]
    /\ open \subseteq Request
    /\ unacked \subseteq Calls \X Nat
    /\ finals \in [Calls -> SUBSET {"answer", "decline"}]

LEMMA EndsType ==
    ASSUME HandledType, NEW c \in Calls, Ends(c)
    PROVE  HandledType'
  BY DEF HandledType, Ends, Erase, Tell, View

LEMMA InviteType ==
    ASSUME HandledType, NEW c \in Calls, NEW m \in Message, OnInvite(c, m)
    PROVE  HandledType'
  <1>1. CASE Live(c) /\ dialogs[c].state = "Confirmed"
    <2> DEFINE h == (m.body = "sendonly")
               a == dialogs[c].armed \/ dialogs[c].timer
    <2>1. dialogs[c] \in Dialog
      BY <1>1 DEF HandledType, Live
    <2>2. ASSUME NEW x \in BOOLEAN, NEW y \in BOOLEAN
          PROVE  [dialogs[c] EXCEPT !.held = x, !.armed = y] \in Dialog
      BY <2>1 DEF Dialog
    <2>3. h \in BOOLEAN /\ a \in BOOLEAN
      OBVIOUS
    <2>4. [dialogs[c] EXCEPT !.held = h, !.armed = a] \in Dialog
      <3> HIDE DEF h, a
      <3> QED
        BY <2>2, <2>3, Zenon
    <2>5. dialogs' = [dialogs EXCEPT ![c] =
                         [dialogs[c] EXCEPT !.held = h, !.armed = a]]
      BY <1>1, Zenon DEF OnInvite, Put
    <2>6. dialogs' \in [Calls -> Dialog \cup {NoDialog}]
      <3> HIDE DEF h, a
      <3> QED
        BY <2>4, <2>5 DEF HandledType
    <2>7. finals' \in [Calls -> SUBSET {"answer", "decline"}]
          /\ UNCHANGED <<connecting, view, open, unacked>>
      BY <1>1 DEF OnInvite, HandledType
    <2> QED
      BY <2>6, <2>7 DEF HandledType
  <1>2. CASE ~(Live(c) /\ dialogs[c].state = "Confirmed")
    <2>1. (m.body # "bad") \in BOOLEAN /\ m.timer \in Refresher
      BY MessageFields
    <2>2. NewIncoming(m.body # "bad", m.timer) \in Dialog
      BY <2>1, NewDialogs, Zenon
    <2>3. dialogs' \in [Calls -> Dialog \cup {NoDialog}]
      BY <1>2, <2>2 DEF OnInvite, Put, HandledType
    <2> QED
      BY <1>2, <2>3 DEF OnInvite, Tell, View, HandledType
  <1> QED
    BY <1>1, <1>2

LEMMA AckType ==
    ASSUME HandledType, NEW c \in Calls, OnAck(c)
    PROVE  HandledType'
  <1>1. Live(c) => [dialogs[c] EXCEPT !.state = "Confirmed"] \in Dialog
    BY DEF HandledType, Live, Dialog, DialogState
  <1> QED
    BY <1>1 DEF OnAck, Put, HandledType

LEMMA RingingType ==
    ASSUME HandledType, NEW c \in Calls, Live(c), OnRinging(c)
    PROVE  HandledType'
  <1>1. [dialogs[c] EXCEPT !.state = "Ringing"] \in Dialog
    BY DEF HandledType, Live, Dialog, DialogState
  <1>2. view' \in [Calls -> View]
    BY DEF OnRinging, Tell, HandledType, View
  <1> QED
    BY <1>1, <1>2 DEF OnRinging, Put, HandledType

LEMMA InviteOkType ==
    ASSUME HandledType, NEW c \in Calls, Live(c),
           NEW r \in Message, r.type = "response", OnInviteOk(c, r)
    PROVE  HandledType'
  <1>1. dialogs[c] \in Dialog /\ r.timer \in Refresher /\ r.cseq \in Nat
    BY MessageFields DEF HandledType, Live
  <1>2. CASE OnConnected(c, r)
    <2>1. Accepted(dialogs[c], r.timer) \in Dialog
      BY <1>1, DialogUpdates
    <2>2. CASE Mismatched(c, r)
      <3>1. Closing(Accepted(dialogs[c], r.timer)) \in Dialog
        BY <2>1, DialogUpdates
      <3>2. RequestOf(c, "BYE", Closing(Accepted(dialogs[c], r.timer)))
                \in Request
        BY <3>1, RequestType DEF RequestKind
      <3> QED
        BY <1>2, <2>2, <3>2
        DEF OnConnected, Mismatched, Erase, Send, Tell, Ack, View, HandledType
    <2>3. CASE /\ Put(c, Accepted(dialogs[c], r.timer))
               /\ connecting' = IF dialogs[c].offer
                                THEN connecting \cup {c} ELSE connecting
               /\ UNCHANGED <<view, open>>
      BY <1>2, <2>1, <2>3 DEF OnConnected, Put, Ack, HandledType
    <2> QED
      BY <1>2, <2>2, <2>3 DEF OnConnected
  <1>3. CASE OnSessionRefreshAck(c, r)
    <2>1. [dialogs[c] EXCEPT !.refreshPending = FALSE] \in Dialog
      BY <1>1 DEF Dialog
    <2>2. WithTimer([dialogs[c] EXCEPT !.refreshPending = FALSE], r.timer)
              \in Dialog
      BY <1>1, <2>1, TimerUpdate
    <2> QED
      BY <1>3, <2>2 DEF OnSessionRefreshAck, Put, Ack, HandledType
  <1>4. CASE OnReinviteAck(c, r)
    BY <1>1, <1>4, DialogUpdates DEF OnReinviteAck, Put, Ack, HandledType
  <1>5. CASE UNCHANGED Handled
    BY <1>5 DEF Handled, HandledType
  <1> QED
    BY <1>2, <1>3, <1>4, <1>5 DEF OnInviteOk

LEMMA ResponseType ==
    ASSUME HandledType, NEW c \in Calls,
           NEW r \in Message, r.type = "response", OnResponse(c, r)
    PROVE  HandledType'
  <1>1. CASE UNCHANGED Handled
    BY <1>1 DEF Handled, HandledType
  <1>2. CASE Live(c) /\ OnDialogResponse(c, r)
    <2>1. dialogs[c] \in Dialog
      BY <1>2 DEF HandledType, Live
    <2>2. Bump(dialogs[c]) \in Dialog
      BY <2>1, DialogUpdates
    <2>3. CASE OnChallenge(c, r)
      <3> DEFINE d == [Bump(dialogs[c]) EXCEPT !.authRetried = TRUE]
      <3>1. d \in Dialog
        BY <2>2 DEF Dialog
      <3>2. [RequestOf(c, "INVITE", d) EXCEPT !.auth = TRUE] \in Request
        BY <3>1, RequestType DEF RequestKind
      <3>3. CASE Ends(c)
        BY <3>3, EndsType
      <3>4. CASE ~Ends(c)
        <4>1. /\ Put(c, d)
              /\ Send([RequestOf(c, "INVITE", d) EXCEPT !.auth = TRUE])
              /\ UNCHANGED <<connecting, view, unacked, finals>>
          BY <2>3, <3>4, Zenon DEF OnChallenge
        <4> HIDE DEF d
        <4> QED
          BY <3>1, <3>2, <4>1 DEF Put, Send, HandledType
      <3> QED
        BY <3>3, <3>4
    <2>4. CASE OnIntervalTooSmall(c)
      <3> DEFINE d == [Bump(dialogs[c]) EXCEPT !.sessionExpiresRetried = TRUE]
      <3>1. d \in Dialog
        BY <2>2 DEF Dialog
      <3>2. [RequestOf(c, "INVITE", d) EXCEPT !.raised = TRUE] \in Request
        BY <3>1, RequestType DEF RequestKind
      <3>3. /\ Put(c, d)
            /\ Send([RequestOf(c, "INVITE", d) EXCEPT !.raised = TRUE])
            /\ UNCHANGED <<connecting, view, unacked, finals>>
        BY <2>4, Zenon DEF OnIntervalTooSmall
      <3> HIDE DEF d
      <3> QED
        BY <3>1, <3>2, <3>3 DEF Put, Send, HandledType
    <2> QED
      BY <1>1, <1>2, <2>3, <2>4, RingingType, InviteOkType, EndsType
      DEF OnDialogResponse
  <1> QED
    BY <1>1, <1>2 DEF OnResponse

LEMMA DispatchType ==
    ASSUME HandledType, NEW c \in Calls, NEW m \in Message, Dispatch(c, m)
    PROVE  HandledType'
  BY InviteType, EndsType, AckType, ResponseType DEF Dispatch

LEMMA DeliverType ==
    ASSUME TypeOK, NEW c \in Calls, Deliver(c)
    PROVE  TypeOK'
  <1>1. PICK i \in DOMAIN chan[c]: Receive(c, i)
    BY DEF Deliver
  <1>2. chan[c] \in Seq(Message) /\ chan[c][i] \in Message
    BY DEF TypeOK
  <1>3. HandledType
    BY DEF TypeOK, HandledType
  <1>4. HandledType'
    BY <1>1, <1>2, <1>3, DispatchType DEF Receive
  <1>5. chan' \in [Calls -> Seq(Message)] /\ dups' \in Nat
    <2>1. RemoveAt(chan[c], i) \in Seq(Message)
      BY <1>2, RemoveAtType
    <2>2. chan \in [Calls -> Seq(Message)] /\ dups \in Nat
      BY DEF TypeOK
    <2>3. \/ chan' = [chan EXCEPT ![c] = RemoveAt(@, i)] /\ dups' = dups
          \/ dups' = dups + 1 /\ chan' = chan
      BY <1>1, Zenon DEF Receive
    <2> QED
      BY <2>1, <2>2, <2>3
  <1>6. UNCHANGED <<offering, answering, connects, peerUp, inv, peerReqs, deaths>>
    BY <1>1, Zenon DEF Receive, farEnd
  <1> QED
    BY <1>4, <1>5, <1>6 DEF HandledType, TypeOK

-----------------------------------------------------------------------------
(* The far end *)

LEMMA PostType ==
    ASSUME chan \in [Calls -> Seq(Message)], NEW c \in Calls,
           NEW ms \in Seq(Message), Post(c, ms)
    PROVE  chan' \in [Calls -> Seq(Message)]
  <1>1. chan[c] \o ms \in Seq(Message)
    OBVIOUS
  <1> QED
    BY <1>1 DEF Post

FarEndType ==
    /\ open \subseteq Request
    /\ unacked \subseteq Calls \X Nat
    /\ finals \in [Calls -> SUBSET {"answer", "decline"}]
    /\ chan \in [Calls -> Seq(Message)]
    /\ peerUp \subseteq Calls
    /\ inv \in [Calls -> {"none", "sent", "cancelled", "asking", "done"}]
    /\ peerReqs \in Nat

LEMMA PeerAnswerType ==
    ASSUME FarEndType, NEW r \in open, PeerRings(r) \/ PeerAnswers(r)
    PROVE  FarEndType'
  <1>1. r \in Request /\ r.call \in Calls /\ r.cseq \in Nat
    BY DEF FarEndType, Request
  <1>2. ASSUME NEW s \in {180, 200, 401, 422, 486},
               NEW ok \in {"good", "bad", "absent"}, NEW t \in Refresher,
               Post(r.call, <<Reply(r, s, ok, t)>>)
        PROVE  chan' \in [Calls -> Seq(Message)]
    <2>1. <<Reply(r, s, ok, t)>> \in Seq(Message)
      BY <1>1, MessageType
    <2>2. chan \in [Calls -> Seq(Message)]
      BY DEF FarEndType
    <2> DEFINE ms == <<Reply(r, s, ok, t)>>
    <2>3. ms \in Seq(Message) /\ Post(r.call, ms)
      BY <1>2, <2>1
    <2> HIDE DEF ms
    <2> QED
      BY <1>1, <2>2, <2>3, PostType
  <1>3. Refreshers \subseteq Refresher /\ "none" \in Refresher
    BY RefreshersAssumption DEF Refresher
  <1>4. CASE PeerRings(r)
    <2>1. [r EXCEPT !.rang = TRUE] \in Request
      BY <1>1 DEF Request
    <2>2. chan' \in [Calls -> Seq(Message)]
      BY <1>2, <1>3, <1>4 DEF PeerRings
    <2> QED
      BY <1>4, <2>1, <2>2 DEF PeerRings, FarEndType, farEnd
  <1>5. CASE PeerAccepts(r)
    <2>1. chan' \in [Calls -> Seq(Message)]
      <3>1. PICK ok \in {"good", "bad"}, t \in Refresher:
                Post(r.call, <<Reply(r, 200, ok, t)>>)
        BY <1>3, <1>5 DEF PeerAccepts
      <3> QED
        BY <1>2, <3>1
    <2>2. peerUp' \subseteq Calls /\ open' \subseteq Request
      BY <1>1, <1>5 DEF PeerAccepts, FarEndType
    <2>3. unacked' \subseteq Calls \X Nat
      BY <1>1, <1>5 DEF PeerAccepts, FarEndType
    <2>4. UNCHANGED <<finals, inv, peerReqs>>
      BY <1>5 DEF PeerAccepts
    <2> QED
      BY <2>1, <2>2, <2>3, <2>4 DEF FarEndType
  <1>6. CASE PeerRefuses(r)
    <2>1. PICK s \in {401, 422, 486}, ok \in {"good", "bad", "absent"}:
              Post(r.call, <<Reply(r, s, ok, "none")>>)
      BY <1>6 DEF PeerRefuses
    <2>2. chan' \in [Calls -> Seq(Message)]
      BY <1>2, <1>3, <2>1
    <2> QED
      BY <1>6, <2>2 DEF PeerRefuses, FarEndType, farEnd
  <1>7. CASE PeerTakesBye(r)
    <2>1. chan' \in [Calls -> Seq(Message)]
      BY <1>2, <1>3, <1>7 DEF PeerTakesBye
    <2> QED
      BY <1>7, <2>1 DEF PeerTakesBye, FarEndType
  <1>8. CASE PeerTakesOther(r)
    <2>1. chan' \in [Calls -> Seq(Message)]
      BY <1>2, <1>3, <1>8 DEF PeerTakesOther
    <2> QED
      BY <1>8, <2>1 DEF PeerTakesOther, FarEndType, farEnd
  <1> QED
    BY <1>4, <1>5, <1>6, <1>7, <1>8 DEF PeerAnswers

LEMMA PeerAsksType ==
    ASSUME FarEndType, NEW c \in Calls,
           \/ PeerInvites(c) \/ PeerCancels(c)
           \/ \E f \in finals[c]: PeerGetsFinal(c, f)
           \/ PeerReinvites(c) \/ PeerHangsUp(c)
    PROVE  FarEndType'
  <1>1. \E ms \in Seq(Message): Post(c, ms)
    <2>1. ASSUME NEW m \in {"ACK", "BYE", "CANCEL"}
          PROVE  <<Bare(m)>> \in Seq(Message)
      BY MessageType
    <2>2. <<Bare("ACK"), Bare("BYE")>> \in Seq(Message)
      BY MessageType
    <2>3. ASSUME NEW m \in {"INVITE", "reINVITE"},
                 NEW b \in {"sendrecv", "sendonly", "bad"},
                 NEW t \in Refreshers \cup {"none"}
          PROVE  <<ReqMsg(m, b, t)>> \in Seq(Message)
      BY MessageType, RefreshersAssumption DEF Refresher
    <2>4. CASE PeerInvites(c)
      BY <2>3, <2>4 DEF PeerInvites
    <2>5. CASE PeerCancels(c)
      BY <2>1, <2>5 DEF PeerCancels
    <2>6. ASSUME NEW f \in finals[c], PeerGetsFinal(c, f)
          PROVE  \E ms \in Seq(Message): Post(c, ms)
      BY <2>1, <2>2, <2>6 DEF PeerGetsFinal
    <2>7. CASE PeerReinvites(c)
      BY <2>3, <2>7 DEF PeerReinvites
    <2>8. CASE PeerHangsUp(c)
      BY <2>1, <2>8 DEF PeerHangsUp
    <2> QED
      BY <2>4, <2>5, <2>6, <2>7, <2>8
  <1>2. chan' \in [Calls -> Seq(Message)]
    BY <1>1, PostType DEF FarEndType
  <1>3. CASE PeerInvites(c)
    BY <1>2, <1>3 DEF PeerInvites, FarEndType, wire
  <1>4. CASE PeerCancels(c)
    BY <1>2, <1>4 DEF PeerCancels, FarEndType, wire
  <1>5. ASSUME NEW f \in finals[c], PeerGetsFinal(c, f)
        PROVE  FarEndType'
    BY <1>2, <1>5 DEF PeerGetsFinal, FarEndType
  <1>6. CASE PeerReinvites(c)
    BY <1>2, <1>6 DEF PeerReinvites, FarEndType, wire
  <1>7. CASE PeerHangsUp(c)
    BY <1>2, <1>7 DEF PeerHangsUp, FarEndType, wire
  <1> QED
    BY <1>3, <1>4, <1>5, <1>6, <1>7

LEMMA PeerType ==
    ASSUME TypeOK, PeerActs
    PROVE  TypeOK'
  <1>1. FarEndType
    BY DEF TypeOK, FarEndType
  <1>2. InCalls \subseteq Calls
    BY DEF Calls
  <1>3. FarEndType'
    BY <1>1, <1>2, PeerAnswerType, PeerAsksType DEF PeerActs
  <1>4. UNCHANGED <<dialogs, offering, answering, connecting, view, connects,
                    dups, deaths>>
    BY DEF PeerActs, Ours, tasks, client, faults
  <1> QED
    BY <1>3, <1>4 DEF TypeOK, FarEndType

-----------------------------------------------------------------------------

LEMMA NextType == TypeOK /\ [Next]_vars => TypeOK'
  <1> SUFFICES ASSUME TypeOK, [Next]_vars PROVE TypeOK'
    OBVIOUS
  <1>1. CASE Next
    BY <1>1, CommandType, TaskDoneType, DeliverType, TimeType, PeerType DEF Next
  <1>2. CASE UNCHANGED vars
    BY <1>2 DEF TypeOK, vars, tasks, client, farEnd, wire, faults
  <1> QED
    BY <1>1, <1>2

(* Every reachable state has its type: in particular the CSeq of a dialog,  *)
(* the requests that wait for an answer and the messages on their way are   *)
(* those of calls this side or the far end made.                            *)
THEOREM TypeCorrect == Spec => []TypeOK
  BY InitType, NextType, PTL DEF Spec

-----------------------------------------------------------------------------
(* No call in limbo, and one CallConnected: one invariant for both.         *)

LimboFree(e) ==
    /\ view[e] \in {"ringing", "incoming", "accepting", "connected"} => Live(e)
    /\ view[e] = "asked" => e \in offering \/ Live(e) \/ deaths > 0

(* The offer of a placed call is one token: it is made by the client's      *)
(* MakeCall, and passes from the task that resolves it to the dialog, from  *)
(* there to the task that runs the ICE checks, and from there into the      *)
(* CallConnected.                                                           *)
HasOffer(e) == Live(e) /\ dialogs[e].offer

OneToken(e) ==
    /\ e \in OutCalls /\ view[e] = "idle" => e \notin offering
    /\ e \in OutCalls /\ view[e] = "idle" => ~HasOffer(e)
    /\ e \in OutCalls /\ view[e] = "idle" => e \notin connecting
    /\ e \in OutCalls /\ view[e] = "idle" => connects[e] = 0
    /\ e \in offering => ~HasOffer(e) /\ e \notin connecting /\ connects[e] = 0
    /\ HasOffer(e) => e \notin connecting /\ connects[e] = 0
    /\ e \in connecting => connects[e] = 0
    /\ connects[e] <= 1

Tracked(e) == LimboFree(e) /\ OneToken(e)

CallsTracked == \A e \in Calls: Tracked(e)

(* No handler but the one that takes the offer changes whether there is one.*)
LEMMA OfferKept ==
    ASSUME NEW d \in Dialog
    PROVE  /\ d # NoDialog
           /\ Bump(d).offer = d.offer
           /\ Closing(d).offer = d.offer
           /\ \A k \in {"hold", "resume"}: Reinvite(d, k).offer = d.offer
           /\ \A t \in Refresher: WithTimer(d, t).offer = d.offer
           /\ \A t \in Refresher: Accepted(d, t).offer = FALSE
           /\ TakeHold(d).offer = d.offer
           /\ Refreshed(d).offer = d.offer
           /\ Answered(d).offer = d.offer
  <1>1. d # NoDialog
    BY NoDialogAssumption
  <1>2. Bump(d).offer = d.offer
    BY DEF Bump, Dialog
  <1>3. Closing(d).offer = d.offer
    BY DEF Closing, Bump, Dialog
  <1>4. \A k \in {"hold", "resume"}: Reinvite(d, k).offer = d.offer
    BY DEF Reinvite, Bump, Dialog
  <1>5. ASSUME NEW e \in Dialog, NEW t \in Refresher
        PROVE  WithTimer(e, t).offer = e.offer
    BY DEF WithTimer, Dialog
  <1>6. \A t \in Refresher: Accepted(d, t).offer = FALSE
    <2>1. [d EXCEPT !.state = "Confirmed", !.offer = FALSE] \in Dialog
      BY DEF Dialog, DialogState
    <2>2. [d EXCEPT !.state = "Confirmed", !.offer = FALSE].offer = FALSE
      BY DEF Dialog
    <2> QED
      BY <1>5, <2>1, <2>2 DEF Accepted
  <1>7. TakeHold(d).offer = d.offer
    BY DEF TakeHold, Dialog
  <1>8. Refreshed(d).offer = d.offer
    BY DEF Refreshed, Bump, Dialog
  <1>9. Answered(d).offer = d.offer
    BY DEF Answered, Dialog
  <1> QED
    BY <1>1, <1>2, <1>3, <1>4, <1>5, <1>6, <1>7, <1>8, <1>9

(* An action that replaces the dialog of c by one of the same offer, and    *)
(* may tell the client of it, disturbs nothing.                             *)
LEMMA SameOffer ==
    ASSUME TypeOK, CallsTracked, NEW c \in Calls, Live(c),
           NEW d \in Dialog, d.offer = dialogs[c].offer, Put(c, d),
           NEW v \in View \ {"idle"}, Tell(c, v) \/ UNCHANGED view,
           UNCHANGED <<offering, connecting, connects, deaths>>
    PROVE  CallsTracked'
  <1> SUFFICES ASSUME NEW e \in Calls PROVE Tracked(e)'
    BY DEF CallsTracked
  <1>1. /\ Tracked(e)
        /\ dialogs \in [Calls -> Dialog \cup {NoDialog}]
        /\ view \in [Calls -> View]
    BY DEF CallsTracked, TypeOK
  <1>2. CASE e = c
    <2>1. Live(e)' /\ (HasOffer(e)' <=> HasOffer(e))
      BY <1>1, <1>2, OfferKept, ZenonT(30) DEF Put, Live, HasOffer
    <2>2. view'[e] = view[e] \/ view'[e] = v
      BY <1>1, <1>2 DEF Tell
    <2> QED
      BY <1>1, <2>1, <2>2 DEF Tracked, LimboFree, OneToken
  <1>3. CASE e # c
    <2>1. view'[e] = view[e] /\ dialogs'[e] = dialogs[e]
      BY <1>1, <1>3 DEF Put, Tell
    <2> QED
      BY <1>1, <2>1 DEF Tracked, LimboFree, OneToken, HasOffer, Live
  <1> QED
    BY <1>2, <1>3

(* Nor does one that takes the dialog of c away, or replaces it by one with *)
(* no offer, as long as the client is told.                                 *)
LEMMA NoOffer ==
    ASSUME TypeOK, CallsTracked, NEW c \in Calls, NEW d \in Dialog \cup {NoDialog},
           d # NoDialog => d.offer = FALSE, Put(c, d),
           NEW v \in View \ {"idle", "asked"}, Tell(c, v),
           v \in {"closed", "over"} \/ d # NoDialog,
           UNCHANGED <<offering, connecting, connects, deaths>>
    PROVE  CallsTracked'
  <1> SUFFICES ASSUME NEW e \in Calls PROVE Tracked(e)'
    BY DEF CallsTracked
  <1>1. /\ Tracked(e)
        /\ dialogs \in [Calls -> Dialog \cup {NoDialog}]
        /\ view \in [Calls -> View]
    BY DEF CallsTracked, TypeOK
  <1>2. CASE e = c
    <2>1. view'[e] = v /\ dialogs'[e] = d
      BY <1>1, <1>2 DEF Put, Tell
    <2>2. ~HasOffer(e)'
      BY <2>1 DEF HasOffer, Live
    <2>3. LimboFree(e)'
      BY <2>1 DEF LimboFree, Live, View
    <2>4. OneToken(e)'
      BY <1>1, <2>1, <2>2 DEF Tracked, OneToken, View
    <2> QED
      BY <2>3, <2>4 DEF Tracked
  <1>3. CASE e # c
    <2>1. view'[e] = view[e] /\ dialogs'[e] = dialogs[e]
      BY <1>1, <1>3 DEF Put, Tell
    <2> QED
      BY <1>1, <2>1 DEF Tracked, LimboFree, OneToken, HasOffer, Live
  <1> QED
    BY <1>2, <1>3

LEMMA CommandTracked ==
    ASSUME TypeOK, CallsTracked, NEW c \in Calls, Command(c)
    PROVE  CallsTracked'
  <1>1. CASE c \in OutCalls /\ InitiateCall(c)
    <2> SUFFICES ASSUME NEW e \in Calls PROVE Tracked(e)'
      BY DEF CallsTracked
    <2>1. Tracked(e) /\ view \in [Calls -> View]
      BY DEF CallsTracked, TypeOK
    <2>2. UNCHANGED <<dialogs, connecting, connects, deaths>>
      BY <1>1 DEF InitiateCall, faults
    <2>3. CASE Tell(c, "over") /\ UNCHANGED offering
      BY <1>1, <2>1, <2>2, <2>3
      DEF Tell, Tracked, LimboFree, OneToken, HasOffer, Live
    <2>4. CASE Tell(c, "asked") /\ offering' = offering \cup {c}
      <3>1. CASE e = c
        BY <1>1, <2>1, <2>2, <2>4, <3>1
        DEF InitiateCall, Tell, Tracked, LimboFree, OneToken, HasOffer, Live
      <3>2. CASE e # c
        BY <2>1, <2>2, <2>4, <3>2
        DEF Tell, Tracked, LimboFree, OneToken, HasOffer, Live
      <3> QED
        BY <3>1, <3>2
    <2> QED
      BY <1>1, <2>3, <2>4 DEF InitiateCall
  <1>2. CASE AcceptCall(c)
    <2>1. Live(c) /\ UNCHANGED <<offering, connecting, connects, deaths>>
      BY <1>2 DEF AcceptCall, faults
    <2>2. CASE Decline(c) /\ Tell(c, "over")
      BY <2>1, <2>2, NoOffer DEF Decline, Erase, Put, View
    <2>3. CASE Tell(c, "accepting") /\ UNCHANGED dialogs
      <3>1. Put(c, dialogs[c])
        BY <2>3 DEF Put, TypeOK
      <3> QED
        BY <2>1, <2>3, <3>1, LiveDialog, SameOffer DEF View
    <2> QED
      BY <1>2, <2>2, <2>3, Zenon DEF AcceptCall
  <1>3. CASE RejectCall(c)
    BY <1>3, NoOffer DEF RejectCall, Decline, Erase, Put, View, tasks, faults
  <1>4. CASE HangUp(c)
    <2>1. Live(c) /\ Closing(dialogs[c]) \in Dialog
      BY <1>4, LiveDialog, DialogUpdates DEF HangUp, MayHangUp
    <2>2. UNCHANGED <<offering, connecting, connects, deaths>>
      BY <1>4 DEF HangUp, tasks, faults
    <2>3. Put(c, Closing(dialogs[c])) /\ Tell(c, "closed")
      BY <1>4 DEF HangUp
    <2> QED
      BY <2>1, <2>2, <2>3, LiveDialog, OfferKept, SameOffer DEF View
  <1>5. ASSUME NEW kind \in {"hold", "resume"}, SendReinvite(c, kind)
        PROVE  CallsTracked'
    <2>1. Live(c) /\ Reinvite(dialogs[c], kind) \in Dialog
      BY <1>5, LiveDialog, DialogUpdates DEF SendReinvite, MayAsk
    <2>2. UNCHANGED <<offering, connecting, view, connects, deaths>>
      BY <1>5 DEF SendReinvite, tasks, client, faults
    <2>3. Put(c, Reinvite(dialogs[c], kind))
      BY <1>5 DEF SendReinvite
    <2>4. Reinvite(dialogs[c], kind).offer = dialogs[c].offer
      BY <2>1, LiveDialog, OfferKept
    <2>5. "over" \in View \ {"idle"}
      BY DEF View
    <2> QED
      BY <2>1, <2>2, <2>3, <2>4, <2>5, SameOffer
  <1>6. ASSUME NEW kind \in {"INFO", "REFER"}, SendInDialog(c, kind)
        PROVE  CallsTracked'
    <2>1. Live(c) /\ Bump(dialogs[c]) \in Dialog
      BY <1>6, LiveDialog, DialogUpdates DEF SendInDialog, MayAsk
    <2>2. UNCHANGED <<offering, connecting, view, connects, deaths>>
      BY <1>6 DEF SendInDialog, tasks, client, faults
    <2>3. Put(c, Bump(dialogs[c]))
      BY <1>6 DEF SendInDialog
    <2>4. Bump(dialogs[c]).offer = dialogs[c].offer
      BY <2>1, LiveDialog, OfferKept
    <2>5. "over" \in View \ {"idle"}
      BY DEF View
    <2> QED
      BY <2>1, <2>2, <2>3, <2>4, <2>5, SameOffer
  <1> QED
    BY <1>1, <1>2, <1>3, <1>4, <1>5, <1>6 DEF Command, SendDtmfInfo, Transfer

LEMMA TaskDoneTracked ==
    ASSUME TypeOK, CallsTracked, NEW c \in Calls, TaskDone(c)
    PROVE  CallsTracked'
  <1>1. CASE OutgoingOfferReady(c)
    <2> SUFFICES ASSUME NEW e \in Calls PROVE Tracked(e)'
      BY DEF CallsTracked
    <2>1. /\ Tracked(e) /\ Tracked(c)
          /\ dialogs \in [Calls -> Dialog \cup {NoDialog}]
          /\ view \in [Calls -> View] /\ offering \subseteq OutCalls
      BY DEF CallsTracked, TypeOK
    <2>2. UNCHANGED <<connecting, connects, deaths>>
      BY <1>1 DEF OutgoingOfferReady, faults
    <2>3. c \in offering /\ offering' = offering \ {c}
      BY <1>1 DEF OutgoingOfferReady
    <2>4. CASE Tell(c, "over") /\ UNCHANGED dialogs
      BY <2>1, <2>2, <2>3, <2>4
      DEF Tell, Tracked, LimboFree, OneToken, HasOffer, Live
    <2>5. CASE Put(c, NewOutgoing) /\ UNCHANGED view
      <3>1. NewOutgoing # NoDialog /\ NewOutgoing.offer
        BY NewDialogs, OfferKept DEF NewOutgoing
      <3>2. CASE e = c
        <4>1. dialogs'[e] = NewOutgoing
          BY <2>1, <2>5, <3>2 DEF Put
        <4>2. Live(e)' /\ HasOffer(e)'
          BY <3>1, <4>1 DEF HasOffer, Live
        <4>3. e \notin connecting /\ connects[e] = 0
              /\ (e \in OutCalls => view[e] # "idle")
          BY <2>1, <2>3, <3>2 DEF Tracked, OneToken
        <4> QED
          BY <2>1, <2>2, <2>3, <2>5, <3>2, <4>2, <4>3
          DEF Tracked, LimboFree, OneToken
      <3>3. CASE e # c
        <4>1. dialogs'[e] = dialogs[e]
          BY <2>1, <2>5, <3>3 DEF Put
        <4> QED
          BY <2>1, <2>2, <2>3, <2>5, <3>3, <4>1
          DEF Tracked, LimboFree, OneToken, HasOffer, Live
      <3> QED
        BY <3>2, <3>3
    <2> QED
      BY <1>1, <2>4, <2>5 DEF OutgoingOfferReady
  <1>2. CASE IncomingAnswerReady(c)
    <2>1. UNCHANGED <<offering, connecting, connects, deaths>>
      BY <1>2 DEF IncomingAnswerReady, faults
    <2>2. CASE Live(c)
      <3>1. Put(c, Answered(dialogs[c])) /\ Tell(c, "connected")
        BY <1>2, <2>2 DEF IncomingAnswerReady
      <3> QED
        BY <2>1, <2>2, <3>1, LiveDialog, AnsweredUpdate, OfferKept, SameOffer
        DEF View
    <2>3. CASE ~Live(c)
      <3>1. UNCHANGED <<dialogs, view>>
        BY <1>2, <2>3 DEF IncomingAnswerReady
      <3> QED
        BY <2>1, <3>1
        DEF CallsTracked, Tracked, LimboFree, OneToken, HasOffer, Live
    <2> QED
      BY <2>2, <2>3
  <1>3. CASE OutgoingConnected(c)
    <2> SUFFICES ASSUME NEW e \in Calls PROVE Tracked(e)'
      BY DEF CallsTracked
    <2>1. /\ Tracked(e) /\ Tracked(c)
          /\ dialogs \in [Calls -> Dialog \cup {NoDialog}]
          /\ view \in [Calls -> View] /\ connects \in [Calls -> Nat]
      BY DEF CallsTracked, TypeOK
    <2>2. UNCHANGED <<offering, deaths>> /\ c \in connecting
          /\ connecting' = connecting \ {c}
      BY <1>3 DEF OutgoingConnected, faults
    <2>3. CASE ~Live(c)
      <3>1. UNCHANGED <<dialogs, view, connects>>
        BY <1>3, <2>3 DEF OutgoingConnected
      <3> QED
        BY <2>1, <2>2, <3>1
        DEF Tracked, LimboFree, OneToken, HasOffer, Live
    <2>4. CASE Live(c)
      <3> DEFINE d == [dialogs[c] EXCEPT !.media = TRUE]
      <3>1. Put(c, d) /\ Tell(c, "connected")
            /\ connects' = [connects EXCEPT ![c] = @ + 1]
        BY <1>3, <2>4, Zenon DEF OutgoingConnected
      <3>2. d \in Dialog /\ d.offer = dialogs[c].offer /\ d # NoDialog
        BY <2>4, LiveDialog, NoDialogAssumption, ZenonT(30) DEF Dialog
      <3> HIDE DEF d
      <3>3. CASE e = c
        <4>1. view'[e] = "connected" /\ dialogs'[e] = d
              /\ connects'[e] = connects[e] + 1
          BY <2>1, <3>1, <3>3 DEF Put, Tell
        <4>2. connects[e] = 0 /\ ~HasOffer(e) /\ e \notin offering
          BY <2>1, <2>2, <3>3 DEF Tracked, OneToken
        <4>3. Live(e)' /\ ~HasOffer(e)'
          BY <2>4, <3>2, <3>3, <4>1, <4>2 DEF HasOffer, Live
        <4> QED
          BY <2>2, <3>3, <4>1, <4>2, <4>3 DEF Tracked, LimboFree, OneToken
      <3>4. CASE e # c
        <4>1. view'[e] = view[e] /\ dialogs'[e] = dialogs[e]
              /\ connects'[e] = connects[e]
          BY <2>1, <3>1, <3>4 DEF Put, Tell
        <4> QED
          BY <2>1, <2>2, <3>4, <4>1
          DEF Tracked, LimboFree, OneToken, HasOffer, Live
      <3> QED
        BY <3>3, <3>4
    <2> QED
      BY <2>3, <2>4
  <1> QED
    BY <1>1, <1>2, <1>3 DEF TaskDone

(* Messages.  The parts of the state a message leaves alone are `aside`.    *)
Aside == <<offering, connects, deaths>>

LEMMA EndsTracked ==
    ASSUME TypeOK, CallsTracked, NEW c \in Calls, Ends(c), UNCHANGED Aside
    PROVE  CallsTracked'
  BY NoOffer DEF Ends, Erase, Put, View, Aside

LEMMA HandlerTracked ==
    ASSUME TypeOK, CallsTracked, NEW c \in Calls, NEW m \in Message,
           OnInvite(c, m) \/ OnAck(c) \/ UNCHANGED Handled, UNCHANGED Aside
    PROVE  CallsTracked'
  <1> "over" \in View \ {"idle"} /\ "incoming" \in View \ {"idle", "asked"}
    BY DEF View
  <1>1. CASE UNCHANGED Handled
    BY <1>1 DEF Handled, Aside, CallsTracked, Tracked, LimboFree, OneToken,
                HasOffer, Live
  <1>2. CASE OnAck(c)
    <2>1. UNCHANGED <<connecting, view, open, unacked, finals>>
      BY <1>2 DEF OnAck
    <2>2. CASE Live(c) /\ dialogs[c].state = "Calling"
      <3> DEFINE d == [dialogs[c] EXCEPT !.state = "Confirmed"]
      <3>1. d \in Dialog /\ d.offer = dialogs[c].offer
        BY <2>2, LiveDialog DEF Dialog, DialogState
      <3>2. Put(c, d)
        BY <1>2, <2>2 DEF OnAck
      <3> HIDE DEF d
      <3> QED
        BY <2>1, <2>2, <3>1, <3>2, SameOffer DEF Aside
    <2>3. CASE ~(Live(c) /\ dialogs[c].state = "Calling")
      <3>1. UNCHANGED dialogs
        BY <1>2, <2>3 DEF OnAck
      <3> QED
        BY <2>1, <3>1 DEF Aside, CallsTracked, Tracked, LimboFree, OneToken,
                          HasOffer, Live
    <2> QED
      BY <2>2, <2>3
  <1>3. CASE OnInvite(c, m)
    <2>1. CASE Live(c) /\ dialogs[c].state = "Confirmed"
      <3> DEFINE h == (m.body = "sendonly")
                 a == dialogs[c].armed \/ dialogs[c].timer
                 d == [dialogs[c] EXCEPT !.held = h, !.armed = a]
      <3>1. dialogs[c] \in Dialog
        BY <2>1, LiveDialog
      <3>2. ASSUME NEW x \in BOOLEAN, NEW y \in BOOLEAN
            PROVE  /\ [dialogs[c] EXCEPT !.held = x, !.armed = y] \in Dialog
                   /\ [dialogs[c] EXCEPT !.held = x, !.armed = y].offer
                         = dialogs[c].offer
        BY <3>1 DEF Dialog
      <3>3. h \in BOOLEAN /\ a \in BOOLEAN
        OBVIOUS
      <3>4. d \in Dialog /\ d.offer = dialogs[c].offer
        <4> HIDE DEF h, a
        <4> QED
          BY <3>2, <3>3, Zenon
      <3>5. Put(c, d)
        BY <1>3, <2>1, Zenon DEF OnInvite
      <3>6. UNCHANGED <<connecting, view>>
        BY <1>3, <2>1 DEF OnInvite
      <3> HIDE DEF d
      <3> QED
        BY <2>1, <3>4, <3>5, <3>6, SameOffer DEF Aside
    <2>2. CASE ~(Live(c) /\ dialogs[c].state = "Confirmed")
      <3> DEFINE d == NewIncoming(m.body # "bad", m.timer)
      <3>1. (m.body # "bad") \in BOOLEAN /\ m.timer \in Refresher
        BY MessageFields
      <3>2. d \in Dialog /\ d.offer = FALSE
        <4>1. d \in Dialog
          BY <3>1, NewDialogs, Zenon
        <4>2. d.offer = FALSE
          BY DEF NewIncoming, NewOutgoing
        <4> QED
          BY <4>1, <4>2
      <3>3. Put(c, d) /\ Tell(c, "incoming") /\ UNCHANGED connecting
        BY <1>3, <2>2, Zenon DEF OnInvite
      <3>4. d # NoDialog
        BY <3>2, OfferKept
      <3> HIDE DEF d
      <3> QED
        BY <3>2, <3>3, <3>4, NoOffer DEF Aside
    <2> QED
      BY <2>1, <2>2
  <1> QED
    BY <1>1, <1>2, <1>3

LEMMA InviteOkTracked ==
    ASSUME TypeOK, CallsTracked, NEW c \in Calls, Live(c),
           NEW r \in Message, r.type = "response", OnInviteOk(c, r),
           UNCHANGED Aside
    PROVE  CallsTracked'
  <1> "over" \in View \ {"idle", "asked"}
    BY DEF View
  <1>1. dialogs[c] \in Dialog /\ r.timer \in Refresher
    BY LiveDialog, MessageFields
  <1>2. CASE OnConnected(c, r)
    <2>1. CASE Mismatched(c, r)
      BY <1>2, <2>1, NoOffer DEF Mismatched, Erase, Put, Aside
    <2>2. CASE ~Mismatched(c, r)
      <3> DEFINE d == Accepted(dialogs[c], r.timer)
      <3>1. /\ Put(c, d)
            /\ connecting' = IF dialogs[c].offer
                             THEN connecting \cup {c} ELSE connecting
            /\ view' = view
        BY <1>2, <2>2, Zenon DEF OnConnected
      <3>2. d # NoDialog /\ d.offer = FALSE
        BY <1>1, DialogUpdates, OfferKept
      <3> HIDE DEF d
      <3> SUFFICES ASSUME NEW e \in Calls PROVE Tracked(e)'
        BY DEF CallsTracked
      <3>3. Tracked(e) /\ dialogs \in [Calls -> Dialog \cup {NoDialog}]
        BY DEF CallsTracked, TypeOK
      <3>4. CASE e = c
        <4>1. dialogs'[e] = d
          BY <3>1, <3>3, <3>4 DEF Put
        <4>2. Live(e)' /\ ~HasOffer(e)'
          BY <3>2, <4>1 DEF Live, HasOffer
        <4>3. HasOffer(e) <=> dialogs[e].offer
          BY <3>4 DEF HasOffer
        <4> QED
          BY <3>1, <3>3, <3>4, <4>2, <4>3
          DEF Aside, Tracked, LimboFree, OneToken
      <3>5. CASE e # c
        <4>1. dialogs'[e] = dialogs[e] /\ (e \in connecting' <=> e \in connecting)
          BY <3>1, <3>3, <3>5 DEF Put
        <4> QED
          BY <3>1, <3>3, <4>1
          DEF Aside, Tracked, LimboFree, OneToken, HasOffer, Live
      <3> QED
        BY <3>4, <3>5
    <2> QED
      BY <2>1, <2>2
  <1>3. CASE OnSessionRefreshAck(c, r)
    <2> DEFINE b == [dialogs[c] EXCEPT !.refreshPending = FALSE]
    <2>1. b \in Dialog /\ b.offer = dialogs[c].offer
      BY <1>1 DEF Dialog
    <2>2. Put(c, WithTimer(b, r.timer)) /\ UNCHANGED <<connecting, view>>
      BY <1>3 DEF OnSessionRefreshAck
    <2> HIDE DEF b
    <2>3. WithTimer(b, r.timer) \in Dialog
          /\ WithTimer(b, r.timer).offer = dialogs[c].offer
      BY <1>1, <2>1, TimerUpdate, OfferKept
    <2> QED
      BY <2>2, <2>3, SameOffer DEF Aside
  <1>4. CASE OnReinviteAck(c, r)
    <2>1. Put(c, TakeHold(dialogs[c])) /\ UNCHANGED <<connecting, view>>
      BY <1>4 DEF OnReinviteAck
    <2>2. TakeHold(dialogs[c]) \in Dialog
          /\ TakeHold(dialogs[c]).offer = dialogs[c].offer
      BY <1>1, DialogUpdates, OfferKept
    <2> QED
      BY <2>1, <2>2, SameOffer DEF Aside
  <1>5. CASE UNCHANGED Handled
    BY <1>5, HandlerTracked
  <1> QED
    BY <1>2, <1>3, <1>4, <1>5 DEF OnInviteOk

LEMMA ResponseTracked ==
    ASSUME TypeOK, CallsTracked, NEW c \in Calls,
           NEW r \in Message, r.type = "response", OnResponse(c, r),
           UNCHANGED Aside
    PROVE  CallsTracked'
  <1> "over" \in View \ {"idle"} /\ "ringing" \in View \ {"idle"}
    BY DEF View
  <1>1. CASE UNCHANGED Handled
    BY <1>1, HandlerTracked
  <1>2. CASE Live(c) /\ OnDialogResponse(c, r)
    <2>1. dialogs[c] \in Dialog /\ Bump(dialogs[c]) \in Dialog
          /\ Bump(dialogs[c]).offer = dialogs[c].offer
      BY <1>2, LiveDialog, DialogUpdates, OfferKept
    <2>2. CASE OnRinging(c)
      <3> DEFINE d == [dialogs[c] EXCEPT !.state = "Ringing"]
      <3>1. d \in Dialog /\ d.offer = dialogs[c].offer
        BY <2>1 DEF Dialog, DialogState
      <3>2. Put(c, d) /\ UNCHANGED connecting
            /\ (Tell(c, "ringing") \/ UNCHANGED view)
        BY <2>2, Zenon DEF OnRinging
      <3> HIDE DEF d
      <3> QED
        BY <1>2, <3>1, <3>2, SameOffer DEF Aside
    <2>3. CASE OnChallenge(c, r)
      <3> DEFINE d == [Bump(dialogs[c]) EXCEPT !.authRetried = TRUE]
      <3>1. d \in Dialog /\ d.offer = dialogs[c].offer
        BY <2>1 DEF Dialog
      <3>2. CASE ~Ends(c)
        <4>1. Put(c, d) /\ UNCHANGED <<connecting, view>>
          BY <2>3, <3>2, Zenon DEF OnChallenge
        <4> HIDE DEF d
        <4> QED
          BY <1>2, <3>1, <4>1, SameOffer DEF Aside
      <3> QED
        BY <3>2, EndsTracked
    <2>4. CASE OnIntervalTooSmall(c)
      <3> DEFINE d == [Bump(dialogs[c]) EXCEPT !.sessionExpiresRetried = TRUE]
      <3>1. d \in Dialog /\ d.offer = dialogs[c].offer
        BY <2>1 DEF Dialog
      <3>2. Put(c, d) /\ UNCHANGED <<connecting, view>>
        BY <2>4, Zenon DEF OnIntervalTooSmall
      <3> HIDE DEF d
      <3> QED
        BY <1>2, <3>1, <3>2, SameOffer DEF Aside
    <2> QED
      BY <1>1, <1>2, <2>2, <2>3, <2>4, InviteOkTracked, EndsTracked
      DEF OnDialogResponse
  <1> QED
    BY <1>1, <1>2 DEF OnResponse

LEMMA DeliverTracked ==
    ASSUME TypeOK, CallsTracked, NEW c \in Calls, Deliver(c)
    PROVE  CallsTracked'
  <1>1. PICK i \in DOMAIN chan[c]: Receive(c, i)
    BY DEF Deliver
  <1>2. chan[c][i] \in Message
    BY DEF TypeOK
  <1>3. Dispatch(c, chan[c][i]) /\ UNCHANGED Aside
    BY <1>1 DEF Receive, Aside
  <1> QED
    BY <1>2, <1>3, HandlerTracked, EndsTracked, ResponseTracked DEF Dispatch

LEMMA TimeTracked ==
    ASSUME TypeOK, CallsTracked, RefreshSessionTimers \/ TransportFails
    PROVE  CallsTracked'
  <1> SUFFICES ASSUME NEW e \in Calls PROVE Tracked(e)'
    BY DEF CallsTracked
  <1>1. Tracked(e)
    BY DEF CallsTracked
  <1>2. CASE RefreshSessionTimers
    <2>1. PICK due \in SUBSET {c \in Calls: Due(c) /\ dialogs[c].cseq < MaxCSeq}:
            dialogs' = [c \in Calls |->
                IF c \in due THEN Refreshed(dialogs[c]) ELSE dialogs[c]]
      BY <1>2 DEF RefreshSessionTimers
    <2>2. UNCHANGED <<offering, connecting, view, connects, deaths>>
      BY <1>2 DEF RefreshSessionTimers, tasks, client, faults
    <2>3. CASE e \in due
      <3>1. Live(e) /\ Refreshed(dialogs[e]) # NoDialog
            /\ Refreshed(dialogs[e]).offer = dialogs[e].offer
        BY <2>3, LiveDialog, DialogUpdates, OfferKept DEF Due
      <3>2. dialogs'[e] = Refreshed(dialogs[e])
        BY <2>1, <2>3
      <3>3. Live(e)' /\ (HasOffer(e)' <=> HasOffer(e))
        BY <3>1, <3>2 DEF HasOffer, Live
      <3> QED
        BY <1>1, <2>2, <3>1, <3>3 DEF Tracked, LimboFree, OneToken
    <2>4. CASE e \notin due
      <3>1. dialogs'[e] = dialogs[e]
        BY <2>1, <2>4
      <3> QED
        BY <1>1, <2>2, <3>1 DEF Tracked, LimboFree, OneToken, HasOffer, Live
    <2> QED
      BY <2>3, <2>4
  <1>3. CASE TransportFails
    <2>1. ~Live(e)' /\ e \notin offering' /\ e \notin connecting'
      BY <1>3 DEF TransportFails, Live
    <2>2. deaths' > 0
      BY <1>3 DEF TransportFails, TypeOK
    <2>3. view'[e] = (IF Live(e) THEN "over" ELSE view[e]) /\ connects' = connects
      BY <1>3 DEF TransportFails
    <2>4. LimboFree(e)'
      BY <1>1, <2>1, <2>2, <2>3 DEF Tracked, LimboFree
    <2>5. OneToken(e)'
      BY <1>1, <2>1, <2>3 DEF Tracked, OneToken, HasOffer
    <2> QED
      BY <2>4, <2>5 DEF Tracked
  <1> QED
    BY <1>2, <1>3

LEMMA PeerTracked ==
    ASSUME CallsTracked,
           UNCHANGED <<dialogs, offering, connecting, view, connects, deaths>>
    PROVE  CallsTracked'
  BY DEF CallsTracked, Tracked, LimboFree, OneToken, HasOffer, Live

LEMMA InitTracked == Init => CallsTracked
  <1> SUFFICES ASSUME Init, NEW e \in Calls PROVE Tracked(e)
    BY DEF CallsTracked
  <1> QED
    BY DEF Init, Tracked, LimboFree, OneToken, HasOffer, Live

LEMMA NextTracked == TypeOK /\ CallsTracked /\ [Next]_vars => CallsTracked'
  <1> SUFFICES ASSUME TypeOK, CallsTracked, [Next]_vars PROVE CallsTracked'
    OBVIOUS
  <1>1. CASE PeerActs
    BY <1>1, PeerTracked DEF PeerActs, Ours, tasks, client, faults
  <1>2. CASE UNCHANGED vars
    BY <1>2, PeerTracked DEF vars, tasks, client, faults
  <1> QED
    BY <1>1, <1>2, CommandTracked, TaskDoneTracked, DeliverTracked, TimeTracked
    DEF Next

THEOREM Tracking == Spec => []CallsTracked
  BY TypeCorrect, InitTracked, NextTracked, PTL DEF Spec

(* The client never waits for, or shows, a call the stack has forgotten:    *)
(* whatever ends a dialog (a failure, a BYE, a CANCEL, the transport) tells *)
(* it, with any number of calls, duplicates, reordering and failures.       *)
THEOREM NoCallInLimbo == Spec => []NoLimbo
  <1>1. CallsTracked => NoLimbo
    BY DEF CallsTracked, Tracked, LimboFree, NoLimbo
  <1> QED
    BY <1>1, Tracking, PTL

(* on_outgoing_connected reports a placed call connected once at most: its  *)
(* offer is a token that one task, one dialog or one event holds.           *)
THEOREM ConnectedOnce == Spec => []OneConnect
  <1>1. CallsTracked => OneConnect
    BY DEF CallsTracked, Tracked, OneToken, OneConnect
  <1> QED
    BY <1>1, Tracking, PTL

=============================================================================
