------------------------------- MODULE SipCalls -------------------------------
(***************************************************************************)
(* The call handling of one SIP account: `SipStack` of crates/sip-core.    *)
(*                                                                         *)
(* `SipStack::run` is one task that takes one thing at a time: a command   *)
(* of its client, a datagram, the result of a background call-setup task,  *)
(* or a timer tick.  Each of those is an action here, and an action is the *)
(* whole handler.  What runs concurrently with it is modelled too: the     *)
(* background tasks, the client that only knows what it has been told,     *)
(* the wire, which may copy and reorder messages, and the far end.         *)
(*                                                                         *)
(* Data is abstracted to what the handlers branch on: an SDP body is its   *)
(* direction or "bad" (no common codec); a Session-Expires header is its   *)
(* refresher parameter; the time of `session_refresh_at` is whether it is  *)
(* set, and a set deadline may have passed at any tick.                    *)
(***************************************************************************)
EXTENDS Integers, Sequences, FiniteSets, SequencesExt

CONSTANTS
    OutCalls,        \* Call-IDs this side creates (MakeCall)
    InCalls,         \* Call-IDs the far end creates (its initial INVITE)
    NoDialog,        \* not a dialog: no entry in `dialogs`
    IceCalls,        \* calls that have ICE at both ends
    Refreshers,      \* what Session-Expires of the far end may say
    SessionTimers,   \* account.session_timers_enabled
    EarlyHangUp,     \* the client hangs up calls that never connected
    RefusesInDialog, \* the far end may refuse requests of a live call
    OneAtATime,      \* a hold, a resume or a refresh waits for the last one
    Reorder,         \* the wire may deliver a message before an older one
    MaxCSeq,         \* bound: the client stops asking at this local_cseq
    MaxPeerReqs,     \* bound: re-INVITEs the far end sends
    MaxDups,         \* bound: messages the wire delivers twice
    MaxDeaths        \* bound: times the transport fails

Calls == OutCalls \cup InCalls

ASSUME CallsAssumption == OutCalls \cap InCalls = {}
ASSUME IceAssumption == IceCalls \subseteq Calls
ASSUME RefreshersAssumption == Refreshers \subseteq {"none", "uac", "uas"}
ASSUME SwitchesAssumption ==
    /\ SessionTimers \in BOOLEAN
    /\ EarlyHangUp \in BOOLEAN
    /\ RefusesInDialog \in BOOLEAN
    /\ OneAtATime \in BOOLEAN
    /\ Reorder \in BOOLEAN
ASSUME BoundsAssumption ==
    /\ MaxCSeq \in Nat
    /\ MaxPeerReqs \in Nat
    /\ MaxDups \in Nat
    /\ MaxDeaths \in Nat

VARIABLES
    dialogs,      \* SipStack::dialogs, by Call-ID
    offering,     \* calls whose offer is being resolved by a task
    answering,    \* call -> answers being resolved by tasks
    connecting,   \* calls whose ICE checks are being run by a task
    view,         \* call -> what the client last did or was last told
    connects,     \* call -> CallConnected sent by on_outgoing_connected
    open,         \* requests sent that the far end has not answered finally
    unacked,      \* 2xx to an INVITE the far end has had no ACK for
    finals,       \* call -> our final answers on their way to the far end
    chan,         \* call -> messages on their way to us
    peerUp,       \* calls the far end considers established
    inv,          \* call -> the far end's own last INVITE or re-INVITE
    peerReqs,     \* counts against MaxPeerReqs
    dups,         \* counts against MaxDups
    deaths        \* counts against MaxDeaths

tasks   == <<offering, answering, connecting>>
client  == <<view, connects>>
farEnd  == <<peerUp, inv, peerReqs>>
wire    == <<open, unacked, finals>>
faults  == <<dups, deaths>>
vars    == <<dialogs, tasks, client, wire, chan, farEnd, faults>>

-----------------------------------------------------------------------------
(* Values *)

DialogState == {"Calling", "Ringing", "Confirmed", "Terminating", "Terminated"}

Refresher == {"none", "uac", "uas"}

(* The fields of `Dialog` that some handler reads.  `sdp` is the direction *)
(* of local_sdp, `remote` whether remote_sdp has a codec in common, `armed` *)
(* whether session_refresh_at is set.                                       *)
Dialog ==
    [state: DialogState, uac: BOOLEAN, cseq: Nat,
     authRetried: BOOLEAN, sessionExpiresRetried: BOOLEAN,
     offer: BOOLEAN, media: BOOLEAN, remote: BOOLEAN,
     sdp: {"none", "sendrecv", "sendonly"},
     held: BOOLEAN, holdPending: {"none", "hold", "resume"},
     refreshPending: BOOLEAN,
     timer: BOOLEAN, refresher: BOOLEAN, armed: BOOLEAN,
     incomingTimer: Refresher]

ASSUME NoDialogAssumption == NoDialog \notin Dialog

NewOutgoing ==
    [state |-> "Calling", uac |-> TRUE, cseq |-> 1,
     authRetried |-> FALSE, sessionExpiresRetried |-> FALSE,
     offer |-> TRUE, media |-> FALSE, remote |-> FALSE,
     sdp |-> "sendrecv", held |-> FALSE, holdPending |-> "none",
     refreshPending |-> FALSE,
     timer |-> FALSE, refresher |-> FALSE, armed |-> FALSE,
     incomingTimer |-> "none"]

NewIncoming(codec, timer) ==
    [NewOutgoing EXCEPT !.uac = FALSE, !.cseq = 0, !.offer = FALSE,
                        !.remote = codec, !.sdp = "none",
                        !.incomingTimer = timer]

(* What the client knows of a call. "asked": MakeCall or AcceptCall sent.   *)
(* "closed": the client itself rejected, redirected or hung up. "over": it  *)
(* was told CallEnded or CallFailed.                                        *)
View == {"idle", "asked", "ringing", "incoming", "accepting", "connected",
         "closed", "over"}

RequestKind == {"INVITE", "hold", "resume", "refresh", "BYE", "INFO", "REFER"}
InviteKinds == {"INVITE", "hold", "resume", "refresh"}
MethodOf(kind) == IF kind \in InviteKinds THEN "INVITE" ELSE kind

(* `auth`: carries credentials; `raised`: carries a Session-Expires raised  *)
(* to the Min-SE of a 422; `rang`: the far end has sent its 180.            *)
Request == [call: Calls, kind: RequestKind, cseq: Nat,
            auth: BOOLEAN, raised: BOOLEAN, rang: BOOLEAN]

ReqMsg(m, body, timer) == [type |-> m, body |-> body, timer |-> timer]
Bare(m) == ReqMsg(m, "bad", "none")
Reply(r, status, ok, timer) ==
    [type |-> "response", method |-> MethodOf(r.kind), cseq |-> r.cseq,
     status |-> status, ok |-> ok, timer |-> timer]

Message ==
    [type: {"INVITE", "reINVITE", "BYE", "CANCEL", "ACK"},
     body: {"sendrecv", "sendonly", "bad"}, timer: Refresher]
    \cup
    [type: {"response"}, method: {"INVITE", "BYE", "INFO", "REFER"}, cseq: Nat,
     status: {180, 200, 401, 422, 486}, ok: {"good", "bad", "absent"},
     timer: Refresher]

TypeOK ==
    /\ dialogs \in [Calls -> Dialog \cup {NoDialog}]
    /\ offering \subseteq OutCalls
    /\ answering \in [Calls -> Nat]
    /\ connecting \subseteq Calls
    /\ view \in [Calls -> View]
    /\ connects \in [Calls -> Nat]
    /\ open \subseteq Request
    /\ unacked \subseteq Calls \X Nat
    /\ finals \in [Calls -> SUBSET {"answer", "decline"}]
    /\ chan \in [Calls -> Seq(Message)]
    /\ peerUp \subseteq Calls
    /\ inv \in [Calls -> {"none", "sent", "cancelled", "asking", "done"}]
    /\ peerReqs \in Nat
    /\ dups \in Nat
    /\ deaths \in Nat

Init ==
    /\ dialogs = [c \in Calls |-> NoDialog]
    /\ offering = {}
    /\ answering = [c \in Calls |-> 0]
    /\ connecting = {}
    /\ view = [c \in Calls |-> "idle"]
    /\ connects = [c \in Calls |-> 0]
    /\ open = {}
    /\ unacked = {}
    /\ finals = [c \in Calls |-> {}]
    /\ chan = [c \in Calls |-> <<>>]
    /\ peerUp = {}
    /\ inv = [c \in Calls |-> "none"]
    /\ peerReqs = 0
    /\ dups = 0
    /\ deaths = 0

-----------------------------------------------------------------------------
(* What the handlers are built from *)

Live(c) == dialogs[c] # NoDialog

Put(c, d) == dialogs' = [dialogs EXCEPT ![c] = d]
Erase(c) == dialogs' = [dialogs EXCEPT ![c] = NoDialog]
Tell(c, v) == view' = [view EXCEPT ![c] = v]

(* next_local_cseq *)
Bump(d) == [d EXCEPT !.cseq = @ + 1]

(* The request whose CSeq is the dialog's present local_cseq. *)
RequestOf(c, kind, d) ==
    [call |-> c, kind |-> kind, cseq |-> d.cseq,
     auth |-> FALSE, raised |-> FALSE, rang |-> FALSE]

Send(r) == open' = open \cup {r}
Ack(c, n) == unacked' = unacked \ {<<c, n>>}

(* Mutant: an answer that names no refresher takes the role from us.        *)
WithTimerOrNone(d, timer) ==
    [d EXCEPT !.timer = @ \/ timer # "none", !.refresher = (timer = "uac"),
              !.armed = @ \/ timer = "uac"]

(* Folding a Session-Expires of a 2xx into our dialog, as the UAC of it. *)
WithTimer(d, timer) ==
    IF timer = "none" THEN d
    ELSE [d EXCEPT !.timer = TRUE, !.refresher = (timer # "uas"),
                   !.armed = @ \/ (timer # "uas")]

-----------------------------------------------------------------------------
(* Commands of the client (handle_command).  A command for a call that has  *)
(* no dialog, or whose dialog is not in the state the handler asks for,     *)
(* returns at once: a stutter, left out.                                    *)

(* initiate_call: no RTP port, or a task that resolves the offer.  The      *)
(* dialog does not exist yet.                                               *)
InitiateCall(c) ==
    /\ view[c] = "idle"
    /\ \/ Tell(c, "over") /\ UNCHANGED offering
       \/ Tell(c, "asked") /\ offering' = offering \cup {c}
    /\ UNCHANGED <<dialogs, answering, connecting, connects, wire,
                   chan, farEnd, faults>>

(* reject_call and redirect_call: a final answer (486, 302), dialog gone.   *)
Decline(c) ==
    /\ Erase(c)
    /\ finals' = [finals EXCEPT ![c] = @ \cup {"decline"}]

(* accept_call: no codec (488 to the client, 486 on the wire), no RTP port, *)
(* or a task that resolves the answer.                                      *)
AcceptCall(c) ==
    /\ view[c] = "incoming"
    /\ Live(c)
    /\ \/ Decline(c) /\ Tell(c, "over") /\ UNCHANGED answering
       \/ /\ dialogs[c].remote
          /\ answering' = [answering EXCEPT ![c] = @ + 1]
          /\ Tell(c, "accepting")
          /\ UNCHANGED <<dialogs, finals>>
    /\ UNCHANGED <<offering, connecting, connects, open, unacked,
                   chan, farEnd, faults>>

RejectCall(c) ==
    /\ view[c] = "incoming"
    /\ Live(c)
    /\ Decline(c)
    /\ Tell(c, "closed")
    /\ UNCHANGED <<tasks, connects, open, unacked, chan, farEnd,
                   faults>>

MayHangUp(c) ==
    /\ \/ view[c] = "connected"
       \/ EarlyHangUp /\ view[c] \in {"ringing", "accepting"}
    /\ Live(c)

Closing(d) == [Bump(d) EXCEPT !.state = "Terminating"]

(* Mutant: the dialog is dropped, and no BYE sent.                          *)
HangUpSilently(c) ==
    /\ MayHangUp(c)
    /\ Erase(c)
    /\ Tell(c, "closed")
    /\ UNCHANGED <<tasks, connects, open, unacked, finals, chan, farEnd, faults>>

(* hang_up: a BYE whatever the state; the dialog stays until the answer.    *)
HangUp(c) ==
    /\ MayHangUp(c)
    /\ Put(c, Closing(dialogs[c]))
    /\ Send(RequestOf(c, "BYE", Closing(dialogs[c])))
    /\ Tell(c, "closed")
    /\ UNCHANGED <<tasks, connects, unacked, finals, chan, farEnd,
                   faults>>

(* Mutant: a hold offers a direction that is never read back.               *)
ReinviteInactive(d, kind) ==
    [Bump(d) EXCEPT !.holdPending = kind,
                    !.sdp = IF kind = "hold" THEN "inactive" ELSE "sendrecv"]

(* send_reinvite: hold_pending is overwritten, whatever is outstanding.  The *)
(* client resumes only a call it has put on hold.                           *)
Reinvite(d, kind) ==
    [Bump(d) EXCEPT !.holdPending = kind,
                    !.sdp = IF kind = "hold" THEN "sendonly" ELSE "sendrecv"]

MayAsk(c) ==
    /\ view[c] = "connected"
    /\ Live(c)
    /\ dialogs[c].state = "Confirmed"
    /\ dialogs[c].cseq < MaxCSeq

SendReinvite(c, kind) ==
    /\ MayAsk(c)
    /\ dialogs[c].media
    /\ kind = "resume" => dialogs[c].sdp = "sendonly"
    /\ OneAtATime => dialogs[c].holdPending = "none"
    /\ LET d == Reinvite(dialogs[c], kind)
       IN  Put(c, d) /\ Send(RequestOf(c, kind, d))
    /\ UNCHANGED <<tasks, client, unacked, finals, chan, farEnd, faults>>

SendInDialog(c, kind) ==
    /\ MayAsk(c)
    /\ LET d == Bump(dialogs[c])
       IN  Put(c, d) /\ Send(RequestOf(c, kind, d))
    /\ UNCHANGED <<tasks, client, unacked, finals, chan, farEnd, faults>>

SendDtmfInfo(c) == SendInDialog(c, "INFO")

(* blind_transfer, and attended_transfer, which also reads the dialog of    *)
(* the consultation call and changes nothing in it.                         *)
Transfer(c) == SendInDialog(c, "REFER")

Command(c) ==
    \/ c \in OutCalls /\ InitiateCall(c)
    \/ AcceptCall(c)
    \/ RejectCall(c)
    \/ HangUp(c)
    \/ \E kind \in {"hold", "resume"}: SendReinvite(c, kind)
    \/ SendDtmfInfo(c)
    \/ Transfer(c)

-----------------------------------------------------------------------------
(* Results of background tasks (handle_stack_event) *)

(* on_outgoing_offer_ready: the dialog is inserted once the INVITE is out;  *)
(* a send error or an unresolvable target ends the call with no dialog.     *)
OutgoingOfferReady(c) ==
    /\ c \in offering
    /\ offering' = offering \ {c}
    /\ \/ Tell(c, "over") /\ UNCHANGED <<dialogs, open>>
       \/ /\ Put(c, NewOutgoing)
          /\ Send(RequestOf(c, "INVITE", NewOutgoing))
          /\ UNCHANGED view
    /\ UNCHANGED <<answering, connecting, connects, unacked,
                   finals, chan, farEnd, faults>>

(* on_incoming_answer_ready: what becomes of the dialog.  The state it was  *)
(* in is not looked at.                                                     *)
Answered(d) ==
    LET timed == SessionTimers /\ d.incomingTimer # "none"
        ours  == timed /\ d.incomingTimer = "uas"
    IN  [d EXCEPT !.state = "Confirmed", !.media = TRUE, !.sdp = "sendrecv",
                  !.timer = @ \/ timed,
                  !.refresher = IF timed THEN ours ELSE @,
                  !.armed = @ \/ ours,
                  !.incomingTimer = IF SessionTimers THEN "none" ELSE @]

(* Mutants: the 200 goes out though the dialog is gone; the client is not   *)
(* told that the call is up.                                                *)
AnswersTheGone(c) ==
    /\ answering[c] > 0
    /\ answering' = [answering EXCEPT ![c] = @ - 1]
    /\ finals' = [finals EXCEPT ![c] = @ \cup {"answer"}]
    /\ UNCHANGED <<dialogs, view, offering, connecting, connects, open, unacked,
                   chan, farEnd, faults>>

AnswersUntold(c) ==
    /\ answering[c] > 0
    /\ answering' = [answering EXCEPT ![c] = @ - 1]
    /\ IF Live(c)
       THEN /\ Put(c, Answered(dialogs[c]))
            /\ finals' = [finals EXCEPT ![c] = @ \cup {"answer"}]
       ELSE UNCHANGED <<dialogs, finals>>
    /\ UNCHANGED <<offering, connecting, client, open, unacked, chan, farEnd,
                   faults>>

IncomingAnswerReady(c) ==
    /\ answering[c] > 0
    /\ answering' = [answering EXCEPT ![c] = @ - 1]
    /\ IF Live(c)
       THEN /\ Put(c, Answered(dialogs[c]))
            /\ finals' = [finals EXCEPT ![c] = @ \cup {"answer"}]
            /\ Tell(c, "connected")
       ELSE UNCHANGED <<dialogs, finals, view>>
    /\ UNCHANGED <<offering, connecting, connects, open, unacked,
                   chan, farEnd, faults>>

(* Mutant: CallConnected though the dialog is gone.                         *)
ConnectsTheGone(c) ==
    /\ c \in connecting
    /\ connecting' = connecting \ {c}
    /\ IF Live(c) THEN Put(c, [dialogs[c] EXCEPT !.media = TRUE])
       ELSE UNCHANGED dialogs
    /\ Tell(c, "connected")
    /\ connects' = [connects EXCEPT ![c] = @ + 1]
    /\ UNCHANGED <<offering, answering, wire, chan, farEnd, faults>>

(* on_outgoing_connected *)
OutgoingConnected(c) ==
    /\ c \in connecting
    /\ connecting' = connecting \ {c}
    /\ IF Live(c)
       THEN /\ Put(c, [dialogs[c] EXCEPT !.media = TRUE])
            /\ Tell(c, "connected")
            /\ connects' = [connects EXCEPT ![c] = @ + 1]
       ELSE UNCHANGED <<dialogs, view, connects>>
    /\ UNCHANGED <<offering, answering, wire, chan, farEnd, faults>>

TaskDone(c) ==
    \/ OutgoingOfferReady(c)
    \/ IncomingAnswerReady(c)
    \/ OutgoingConnected(c)

-----------------------------------------------------------------------------
(* Messages (dispatch).  An INVITE with a To tag is a "reINVITE" only to    *)
(* the far end: on_invite looks at nothing but the state of the dialog.     *)

Handled == <<dialogs, connecting, view, open, unacked, finals>>

OnInvite(c, m) ==
    IF Live(c) /\ dialogs[c].state = "Confirmed"
    THEN /\ Put(c, [dialogs[c] EXCEPT !.held = (m.body = "sendonly"),
                                      !.armed = @ \/ dialogs[c].timer])
         /\ finals' = [finals EXCEPT ![c] = @ \cup {"answer"}]
         /\ UNCHANGED <<connecting, view, open, unacked>>
    ELSE /\ Put(c, NewIncoming(m.body # "bad", m.timer))
         /\ Tell(c, "incoming")
         /\ UNCHANGED <<connecting, open, unacked, finals>>

(* Mutants: the client is not told; the dialog is kept.                     *)
EndsUntold(c) == Erase(c) /\ UNCHANGED <<connecting, view, open, unacked, finals>>

EndsKeepingDialog(c) ==
    /\ Tell(c, "over")
    /\ UNCHANGED <<dialogs, connecting, open, unacked, finals>>

(* on_bye, on_cancel, a 200 to our BYE, a final failure: the dialog goes    *)
(* and the client is told.                                                  *)
Ends(c) ==
    /\ Erase(c)
    /\ Tell(c, "over")
    /\ UNCHANGED <<connecting, open, unacked, finals>>

OnAck(c) ==
    /\ IF Live(c) /\ dialogs[c].state = "Calling"
       THEN Put(c, [dialogs[c] EXCEPT !.state = "Confirmed"])
       ELSE UNCHANGED dialogs
    /\ UNCHANGED <<connecting, view, open, unacked, finals>>

(* on_response: a 180 sets Ringing, whatever the state was.                 *)
OnRinging(c) ==
    /\ Put(c, [dialogs[c] EXCEPT !.state = "Ringing"])
    /\ IF view[c] = "asked" THEN Tell(c, "ringing") ELSE UNCHANGED view
    /\ UNCHANGED <<connecting, open, unacked, finals>>

(* Mutant: the offer is copied out of the dialog, not taken.                *)
AcceptedKeepingOffer(d, timer) ==
    WithTimer([d EXCEPT !.state = "Confirmed"], timer)

Accepted(d, timer) ==
    WithTimer([d EXCEPT !.state = "Confirmed", !.offer = FALSE], timer)

(* Mutant: no BYE for a call that the far end considers connected.          *)
MismatchedSilently(c, r) ==
    /\ Erase(c)
    /\ Tell(c, "over")
    /\ UNCHANGED <<connecting, open>>

(* No codec in common with an answer that is already ACKed.                 *)
Mismatched(c, r) ==
    /\ Erase(c)
    /\ Send(RequestOf(c, "BYE", Closing(Accepted(dialogs[c], r.timer))))
    /\ Tell(c, "over")
    /\ UNCHANGED connecting

(* handle_connected: the ACK, then the offer is taken and its ICE checks    *)
(* start on a task.                                                         *)
OnConnected(c, r) ==
    /\ Ack(c, r.cseq)
    /\ \/ r.ok # "good" /\ Mismatched(c, r)
       \/ /\ r.ok = "good"
          /\ Put(c, Accepted(dialogs[c], r.timer))
          /\ connecting' = IF dialogs[c].offer
                           THEN connecting \cup {c} ELSE connecting
          /\ UNCHANGED <<view, open>>
    /\ UNCHANGED finals

(* Mutant: no ACK for the answer to a refresh.                              *)
UnackedRefresh(c, r) ==
    /\ Put(c, WithTimer([dialogs[c] EXCEPT !.refreshPending = FALSE], r.timer))
    /\ UNCHANGED <<connecting, view, open, unacked, finals>>

OnSessionRefreshAck(c, r) ==
    /\ Ack(c, r.cseq)
    /\ Put(c, WithTimer([dialogs[c] EXCEPT !.refreshPending = FALSE], r.timer))
    /\ UNCHANGED <<connecting, view, open, finals>>

(* Mutant: an answer nobody remembers a question for is read as a resume's. *)
TakeHoldAsked(d) ==
    [d EXCEPT !.held = (d.holdPending = "hold"), !.holdPending = "none"]

(* hold_pending.take().unwrap_or(true) *)
TakeHold(d) ==
    [d EXCEPT !.held = (d.holdPending # "resume"), !.holdPending = "none"]

OnReinviteAck(c, r) ==
    /\ Ack(c, r.cseq)
    /\ Put(c, TakeHold(dialogs[c]))
    /\ UNCHANGED <<connecting, view, open, finals>>

Challenged(d, r) ==
    /\ r.status = 401 /\ r.method = "INVITE" /\ r.ok # "absent"
    /\ d.state = "Calling" /\ ~d.authRetried

(* Mutant: the challenge is noted, and nothing sent.                        *)
ChallengeUnanswered(c, r) ==
    IF r.ok = "bad"
    THEN Ends(c)
    ELSE /\ Put(c, [dialogs[c] EXCEPT !.authRetried = TRUE])
         /\ UNCHANGED <<connecting, view, open, unacked, finals>>

(* handle_invite_challenged: an unusable challenge ends the call.           *)
OnChallenge(c, r) ==
    IF r.ok = "bad"
    THEN Ends(c)
    ELSE LET d == [Bump(dialogs[c]) EXCEPT !.authRetried = TRUE]
         IN  /\ Put(c, d)
             /\ Send([RequestOf(c, "INVITE", d) EXCEPT !.auth = TRUE])
             /\ UNCHANGED <<connecting, view, unacked, finals>>

TooSmall(d, r) ==
    /\ r.status = 422 /\ r.method = "INVITE" /\ r.ok = "good"
    /\ d.state = "Calling" /\ ~d.sessionExpiresRetried

(* handle_session_interval_too_small *)
OnIntervalTooSmall(c) ==
    LET d == [Bump(dialogs[c]) EXCEPT !.sessionExpiresRetried = TRUE]
    IN  /\ Put(c, d)
        /\ Send([RequestOf(c, "INVITE", d) EXCEPT !.raised = TRUE])
        /\ UNCHANGED <<connecting, view, unacked, finals>>

(* Mutant: hold and resume are looked at before the refresh.                *)
HoldBeforeRefresh(c, r) ==
    \/ dialogs[c].state \in {"Calling", "Ringing"} /\ OnConnected(c, r)
    \/ dialogs[c].state = "Confirmed" /\ OnReinviteAck(c, r)
    \/ dialogs[c].state = "Terminating" /\ UNCHANGED Handled

(* The classification of a 200 to an INVITE. *)
OnInviteOk(c, r) ==
    \/ dialogs[c].state \in {"Calling", "Ringing"} /\ OnConnected(c, r)
    \/ /\ dialogs[c].state = "Confirmed" /\ dialogs[c].refreshPending
       /\ OnSessionRefreshAck(c, r)
    \/ /\ dialogs[c].state = "Confirmed" /\ ~dialogs[c].refreshPending
       /\ OnReinviteAck(c, r)
    \/ dialogs[c].state = "Terminating" /\ UNCHANGED Handled

OnDialogResponse(c, r) ==
    \/ r.status = 180 /\ OnRinging(c)
    \/ r.status = 200 /\ r.method = "INVITE" /\ OnInviteOk(c, r)
    \/ r.status = 200 /\ r.method = "BYE" /\ Ends(c)
    \/ r.status = 200 /\ r.method = "INFO" /\ UNCHANGED Handled
    \/ Challenged(dialogs[c], r) /\ OnChallenge(c, r)
    \/ TooSmall(dialogs[c], r) /\ OnIntervalTooSmall(c)
    \/ /\ r.status >= 300
       /\ ~Challenged(dialogs[c], r) /\ ~TooSmall(dialogs[c], r)
       /\ Ends(c)

(* The answer to a REFER is reported to the client and touches no dialog.   *)
OnResponse(c, r) ==
    IF r.method = "REFER" \/ ~Live(c)
    THEN UNCHANGED Handled
    ELSE OnDialogResponse(c, r)

Dispatch(c, m) ==
    \/ m.type \in {"INVITE", "reINVITE"} /\ OnInvite(c, m)
    \/ m.type \in {"BYE", "CANCEL"} /\ Ends(c)
    \/ m.type = "ACK" /\ OnAck(c)
    \/ m.type = "response" /\ OnResponse(c, m)

(* transport.recv(): the oldest message, or any if the wire reorders.  The  *)
(* wire may keep a copy for later.                                          *)
Receive(c, i) ==
    /\ Dispatch(c, chan[c][i])
    /\ \/ chan' = [chan EXCEPT ![c] = RemoveAt(@, i)] /\ UNCHANGED dups
       \/ dups < MaxDups /\ dups' = dups + 1 /\ UNCHANGED chan
    /\ UNCHANGED <<offering, answering, connects, farEnd, deaths>>

Deliver(c) ==
    \E i \in DOMAIN chan[c]: (i = 1 \/ Reorder) /\ Receive(c, i)

-----------------------------------------------------------------------------
(* Time and the transport *)

Due(c) ==
    /\ Live(c)
    /\ dialogs[c].state = "Confirmed"
    /\ dialogs[c].refresher
    /\ dialogs[c].armed
    /\ dialogs[c].timer
    /\ dialogs[c].sdp # "none"
    /\ OneAtATime => ~dialogs[c].refreshPending

Refreshed(d) == [Bump(d) EXCEPT !.refreshPending = TRUE]

(* refresh_session_timers: every dialog whose deadline has passed.  The     *)
(* deadline is not moved here, only by an answer.                           *)
RefreshSessionTimers ==
    /\ \E due \in SUBSET {c \in Calls: Due(c) /\ dialogs[c].cseq < MaxCSeq}:
        /\ due # {}
        /\ dialogs' = [c \in Calls |->
              IF c \in due THEN Refreshed(dialogs[c]) ELSE dialogs[c]]
        /\ open' = open \cup
              {RequestOf(c, "refresh", Refreshed(dialogs[c])): c \in due}
    /\ UNCHANGED <<tasks, client, unacked, finals, chan, farEnd, faults>>

(* The recv error branch of run(), and the fresh SipStack that spawn()      *)
(* builds: every dialog fails, and the results of tasks have no receiver.   *)
TransportFails ==
    /\ deaths < MaxDeaths
    /\ deaths' = deaths + 1
    /\ view' = [c \in Calls |-> IF Live(c) THEN "over" ELSE view[c]]
    /\ dialogs' = [c \in Calls |-> NoDialog]
    /\ offering' = {}
    /\ answering' = [c \in Calls |-> 0]
    /\ connecting' = {}
    /\ UNCHANGED <<connects, wire, chan, farEnd, dups>>

-----------------------------------------------------------------------------
(* The far end, by RFC 3261: one final answer per request, an ACK for each  *)
(* of our finals, in-dialog requests only in an established dialog.         *)

Post(c, ms) == chan' = [chan EXCEPT ![c] = @ \o ms]
Ours == <<dialogs, tasks, client, faults>>

(* What the far end has received of what we sent: unless the wire reorders, *)
(* a request of a dialog comes after our final answer and earlier requests. *)
Reached(r) ==
    \/ Reorder
    \/ /\ finals[r.call] = {}
       /\ \A q \in open: q.call = r.call /\ q.kind # "INVITE" => r.cseq <= q.cseq

PeerRings(r) ==
    /\ r.kind = "INVITE" /\ ~r.rang
    /\ open' = (open \ {r}) \cup {[r EXCEPT !.rang = TRUE]}
    /\ Post(r.call, <<Reply(r, 180, "good", "none")>>)
    /\ UNCHANGED <<unacked, finals, farEnd>>

PeerAccepts(r) ==
    /\ \/ r.kind = "INVITE" /\ peerUp' = peerUp \cup {r.call}
       \/ /\ r.kind \in {"hold", "resume", "refresh"} /\ r.call \in peerUp
          /\ UNCHANGED peerUp
    /\ open' = open \ {r}
    /\ unacked' = unacked \cup {<<r.call, r.cseq>>}
    /\ \E ok \in IF r.kind = "INVITE" THEN {"good", "bad"} ELSE {"good"},
          t \in IF r.kind \in {"INVITE", "refresh"} THEN Refreshers ELSE {"none"}:
            Post(r.call, <<Reply(r, 200, ok, t)>>)
    /\ UNCHANGED <<finals, inv, peerReqs>>

PeerRefuses(r) ==
    /\ open' = open \ {r}
    /\ \/ /\ r.kind = "INVITE"
          /\ \E a \in {<<401, "good">>, <<401, "bad">>, <<401, "absent">>,
                       <<422, "good">>, <<422, "absent">>, <<486, "good">>}:
                Post(r.call, <<Reply(r, a[1], a[2], "none")>>)
       \/ /\ r.kind # "INVITE"
          /\ \/ r.call \notin peerUp
             \/ r.kind = "REFER"
             \/ RefusesInDialog /\ r.kind # "BYE"
          /\ Post(r.call, <<Reply(r, 486, "good", "none")>>)
    /\ UNCHANGED <<unacked, finals, farEnd>>

PeerTakesBye(r) ==
    /\ r.kind = "BYE"
    /\ open' = open \ {r}
    /\ peerUp' = peerUp \ {r.call}
    /\ Post(r.call, <<Reply(r, 200, "good", "none")>>)
    /\ UNCHANGED <<unacked, finals, inv, peerReqs>>

PeerTakesOther(r) ==
    /\ r.kind \in {"INFO", "REFER"} /\ r.call \in peerUp
    /\ open' = open \ {r}
    /\ Post(r.call, <<Reply(r, 200, "good", "none")>>)
    /\ UNCHANGED <<unacked, finals, farEnd>>

PeerAnswers(r) ==
    /\ Reached(r)
    /\ PeerAccepts(r) \/ PeerRefuses(r) \/ PeerTakesBye(r) \/ PeerTakesOther(r)

PeerInvites(c) ==
    /\ inv[c] = "none"
    /\ inv' = [inv EXCEPT ![c] = "sent"]
    /\ \E body \in {"sendrecv", "bad"}, t \in Refreshers:
            Post(c, <<ReqMsg("INVITE", body, t)>>)
    /\ UNCHANGED <<wire, peerUp, peerReqs>>

PeerCancels(c) ==
    /\ inv[c] = "sent"
    /\ inv' = [inv EXCEPT ![c] = "cancelled"]
    /\ Post(c, <<Bare("CANCEL")>>)
    /\ UNCHANGED <<wire, peerUp, peerReqs>>

(* A 200 that crosses the CANCEL is ACKed and hung up at once.              *)
PeerGetsFinal(c, f) ==
    /\ finals' = [finals EXCEPT ![c] = @ \ {f}]
    /\ inv' = [inv EXCEPT ![c] = "done"]
    /\ peerUp' = IF f = "answer" /\ inv[c] = "sent"
                 THEN peerUp \cup {c} ELSE peerUp
    /\ Post(c, IF f = "answer" /\ inv[c] = "cancelled"
               THEN <<Bare("ACK"), Bare("BYE")>> ELSE <<Bare("ACK")>>)
    /\ UNCHANGED <<open, unacked, peerReqs>>

PeerReinvites(c) ==
    /\ c \in peerUp
    /\ inv[c] \in {"none", "done"}
    /\ inv' = [inv EXCEPT ![c] = "asking"]
    /\ peerReqs < MaxPeerReqs
    /\ peerReqs' = peerReqs + 1
    /\ \E body \in {"sendrecv", "sendonly"}:
            Post(c, <<ReqMsg("reINVITE", body, "none")>>)
    /\ UNCHANGED <<wire, peerUp>>

PeerHangsUp(c) ==
    /\ c \in peerUp
    /\ peerUp' = peerUp \ {c}
    /\ Post(c, <<Bare("BYE")>>)
    /\ UNCHANGED <<wire, inv, peerReqs>>

PeerActs ==
    /\ \/ \E r \in open: PeerRings(r) \/ PeerAnswers(r)
       \/ \E c \in InCalls: PeerInvites(c) \/ PeerCancels(c)
       \/ \E c \in Calls: \E f \in finals[c]: PeerGetsFinal(c, f)
       \/ \E c \in Calls: PeerReinvites(c) \/ PeerHangsUp(c)
    /\ UNCHANGED Ours

-----------------------------------------------------------------------------

Next ==
    \/ \E c \in Calls: Command(c) \/ TaskDone(c) \/ Deliver(c)
    \/ RefreshSessionTimers
    \/ TransportFails
    \/ PeerActs

Spec == Init /\ [][Next]_vars

-----------------------------------------------------------------------------
(* Fairness.  `run` polls all its branches in turn, so results and messages *)
(* are handled; the far end takes what we send, and answers it finally.     *)
(* Nothing obliges the client, the refresh tick, a re-INVITE of the far end *)
(* or a failure.                                                            *)

(* The waits of a background task that have a timeout: STUN, TURN and the   *)
(* gathering of candidates.  The connectivity checks (nat::ice::connect)    *)
(* have none: a caller runs them when it has the answer, a callee before it *)
(* makes one.                                                               *)
TaskEnds(c) ==
    \/ OutgoingOfferReady(c)
    \/ c \notin IceCalls /\ (IncomingAnswerReady(c) \/ OutgoingConnected(c))

PeerSettles(c) ==
    /\ \/ \E r \in open: r.call = c /\ PeerAnswers(r)
       \/ \E f \in finals[c]: PeerGetsFinal(c, f)
    /\ UNCHANGED Ours

Fairness ==
    \A c \in Calls:
        WF_vars(TaskEnds(c)) /\ WF_vars(Deliver(c)) /\ WF_vars(PeerSettles(c))

FairSpec == Spec /\ Fairness

-----------------------------------------------------------------------------
(* Safety *)

(* The client never waits for, or shows, a call the stack has forgotten.    *)
(* Every path that removes a dialog (a failure, a BYE, a CANCEL, a dead     *)
(* transport, a failed offer) must tell the client.  A transport that dies  *)
(* while an offer is still being resolved is the one exception: there is no *)
(* dialog yet for run's error branch to fail.                               *)
NoLimbo ==
    \A c \in Calls:
        /\ view[c] \in {"ringing", "incoming", "accepting", "connected"} => Live(c)
        /\ view[c] = "asked" => c \in offering \/ Live(c) \/ deaths > 0

(* The client is told that a call it placed connected once at most, whatever*)
(* is retransmitted, reordered or repeated: on_outgoing_connected would     *)
(* hand out the same ports and keys twice, and the client open a second     *)
(* slot.  What keeps it is that the offer is taken out of the dialog.       *)
OneConnect == \A c \in Calls: connects[c] <= 1

(* What a placed call is to the abstract specification.                     *)
PromiseOf(v) ==
    CASE v = "idle" -> "idle"
      [] v \in {"asked", "ringing", "incoming", "accepting"} -> "pending"
      [] v = "connected" -> "up"
      [] v \in {"closed", "over"} -> "over"

Promise == INSTANCE CallPromise
    WITH Calls <- OutCalls, promise <- [c \in OutCalls |-> PromiseOf(view[c])]

(* The events of a placed call keep the promise: it comes up at most once,  *)
(* and nothing is said of it once it is over, although results of tasks and *)
(* copies of messages still arrive.                                         *)
PromiseKept == Promise!Spec

(* A final answer carries nothing but the Call-ID and CSeq of its request.  *)
(* Two requests of a dialog that wait for an answer never share a CSeq:     *)
(* next_local_cseq is taken by every path that sends, the retry after a 401 *)
(* or 422 and the BYE that crosses a re-INVITE too.                         *)
CSeqIdentifiesRequest ==
    \A r, s \in open: r.call = s.call /\ r.cseq = s.cseq => r = s

(* No 2xx to an INVITE or re-INVITE is swallowed while the call is up: it   *)
(* has been ACKed or is still on its way, whichever of the three kinds      *)
(* on_response takes it for.  A far end that gets no ACK ends the call.     *)
AnswersAcked ==
    \A u \in unacked:
        LET c == u[1] IN
        view[c] = "connected" =>
            \E i \in DOMAIN chan[c]:
                /\ chan[c][i].type = "response"
                /\ chan[c][i].method = "INVITE"
                /\ chan[c][i].cseq = u[2]

(* Once no hold or resume is outstanding, is_held says what the SDP last    *)
(* offered says: the answer to a refresh was not taken for one to a hold or *)
(* a resume, nor one of those for the other.                                *)
HoldAgrees ==
    \A c \in Calls:
        Live(c) /\ dialogs[c].state = "Confirmed"
                /\ dialogs[c].holdPending = "none" =>
            (dialogs[c].held <=> dialogs[c].sdp = "sendonly")

(* A placed call that was put on hold is known to be once an answer was     *)
(* taken for the hold's, whatever is repeated, overtakes, is refreshed or   *)
(* asked before the last answer has come: hold_pending mistakes answers in  *)
(* one direction only, and a user who is told a call is live is heard.  A   *)
(* re-INVITE of the far end writes is_held too, and is left out.            *)
HoldIsKnown ==
    \A c \in OutCalls:
        /\ Live(c) /\ peerReqs = 0
        /\ dialogs[c].sdp = "sendonly" /\ dialogs[c].holdPending # "hold"
        => dialogs[c].held

(* A far end that holds the call to be established is not left alone: we    *)
(* have the dialog too, or what ends it is on its way in one direction or   *)
(* the other (a BYE of ours, an answer or a message of theirs).             *)
NoOrphan ==
    \A c \in peerUp:
        \/ Live(c)
        \/ \E r \in open: r.call = c /\ r.kind = "BYE"
        \/ chan[c] # <<>>
        \/ finals[c] # {}
        \/ deaths > 0

(* A 200 to an INVITE goes out only for a call the client accepted and has  *)
(* not been told is over, or that is up: the answer a task still resolves   *)
(* when the CANCEL comes must go nowhere, and a re-INVITE that crosses our  *)
(* BYE must not be answered for the client.                                 *)
AnswersOnlyAccepted ==
    [][\A c \in Calls:
         "answer" \in finals'[c] \ finals[c] =>
             view[c] \in {"accepting", "connected"}]_vars

(* Both ends agree on who refreshes the session: with every Session-Expires *)
(* naming one and the same role, the dialog of the call's own role refreshes*)
(* and the other does not, though the role is computed anew from each answer*)
(* to a refresh, which may name none, be repeated or come out of order.     *)
RefresherFollowsRoles ==
    \A c \in Calls:
        Live(c) /\ dialogs[c].timer =>
            dialogs[c].refresher =
                ((IF dialogs[c].uac THEN "uac" ELSE "uas") \in Refreshers)

-----------------------------------------------------------------------------
(* Liveness *)

(* A call the client placed or accepted is settled, over challenges,        *)
(* refusals, bad answers and CANCELs: it comes up or is over.               *)
DialResolves ==
    \A c \in Calls:
        view[c] \in {"asked", "ringing", "accepting"}
            ~> view[c] \in {"connected", "over"}

(* A dialog the client hung up goes away, whatever crossed the BYE.         *)
HangUpResolves == \A c \in Calls: view[c] = "closed" ~> ~Live(c)

=============================================================================
