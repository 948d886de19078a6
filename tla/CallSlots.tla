------------------------------ MODULE CallSlots ------------------------------
(***************************************************************************)
(* The calls of the client: `CallsState` of crates/ui, the actions of its  *)
(* user (call_actions.rs), its reaction to the events of the SIP stack     *)
(* (event_handling.rs) and the media engine it starts and stops (media.rs).*)
(*                                                                         *)
(* The client is one thread.  Once a frame it handles the events that have *)
(* come, then timeouts, hotkeys and clicks.  Events wait in queues in      *)
(* between, so the user acts on what the stack has long left behind.  Each *)
(* event and each action of the user is one action here.                   *)
(*                                                                         *)
(* The stack is what SipCalls says its client sees of it.  A command takes *)
(* effect at once: what the stack does before a command reaches it, the    *)
(* client cannot tell from what it did before the command was given.  Each *)
(* call has an event queue of its own, as if of an account of its own:     *)
(* more orders than one account produces.                                  *)
(***************************************************************************)
EXTENDS Integers, Sequences, FiniteSets, SequencesExt

CONSTANTS
    OutCalls,      \* calls the user may dial
    InCalls,       \* calls that may come in
    NoCall,        \* no call
    MaxAsks,       \* bound: re-INVITEs and REFERs the user causes
    MaxFailures    \* bound: times no media engine can be started

Calls == OutCalls \cup InCalls

ASSUME CallsAssumption == OutCalls \cap InCalls = {} /\ NoCall \notin Calls
ASSUME BoundsAssumption == MaxAsks \in Nat /\ MaxFailures \in Nat

VARIABLES
    calls,            \* the slots
    focused,          \* focused_call, counted from 1; 0 is None
    media,            \* calls the media engine serves; {} is None
    sockets,          \* calls whose RTP port is bound by an engine's tasks
    pendingOutbound,  \* whom remote_uri of pending_outbound names
    pendingCall,      \* pending_call
    pendingAccept,    \* pending_accept
    attended,         \* attended_transfer_original, from 1; 0 is None
    inConference,     \* in_conference
    history,          \* call -> records of it in the call history
    crossed,          \* a call connected over the focus, or as the third
    mistaken,         \* dialled calls another call's event was taken for
    stack,            \* call -> what the stack has of it
    events,           \* call -> events on their way to the client
    asks,             \* counts against MaxAsks
    failures          \* counts against MaxFailures

audio    == <<focused, media, sockets, failures>>
pendings == <<pendingOutbound, pendingCall, pendingAccept>>
past == <<crossed, mistaken>>
vars == <<calls, audio, pendings, attended, inConference, history, past,
          stack, events, asks>>

-----------------------------------------------------------------------------
(* Values *)

(* The fields of `CallSlot` that matter.  `uri` is the call whose callee or *)
(* caller remote_uri names, `id` the call of call_id.                       *)
Slot == [id: Calls, uri: Calls, held: BOOLEAN]

(* `dir`: the direction last offered; `reinvites`, `refers`: requests the   *)
(* far end has not answered; `holdPending`: as in SipCalls.                 *)
StackCall ==
    [st: {"none", "trying", "ringing", "answering", "up", "closing",
          "declined", "busy", "gone"},
     dir: {"sendrecv", "sendonly"}, reinvites: Nat, refers: Nat,
     holdPending: {"none", "hold", "resume"}]

Event == {"IncomingCall", "CallConnected", "CallEnded", "CallHeld",
          "CallResumed", "TransferAccepted", "TransferFailed"}

TypeOK ==
    /\ calls \in Seq(Slot)
    /\ focused \in 0..Len(calls)
    /\ media \subseteq Calls
    /\ sockets \subseteq Calls
    /\ pendingOutbound \in OutCalls \cup {NoCall}
    /\ pendingCall \in InCalls \cup {NoCall}
    /\ pendingAccept \in InCalls \cup {NoCall}
    /\ attended \in 0..Len(calls)
    /\ inConference \in BOOLEAN
    /\ history \in [Calls -> Nat]
    /\ crossed \in BOOLEAN
    /\ mistaken \subseteq OutCalls
    /\ stack \in [Calls -> StackCall]
    /\ events \in [Calls -> Seq(Event)]
    /\ asks \in Nat
    /\ failures \in Nat

Init ==
    /\ calls = <<>>
    /\ focused = 0
    /\ media = {}
    /\ sockets = {}
    /\ pendingOutbound = NoCall
    /\ pendingCall = NoCall
    /\ pendingAccept = NoCall
    /\ attended = 0
    /\ inConference = FALSE
    /\ history = [c \in Calls |-> 0]
    /\ crossed = FALSE
    /\ mistaken = {}
    /\ stack = [c \in Calls |-> [st |-> "none", dir |-> "sendrecv",
                                 reinvites |-> 0, refers |-> 0,
                                 holdPending |-> "none"]]
    /\ events = [c \in Calls |-> <<>>]
    /\ asks = 0
    /\ failures = 0

-----------------------------------------------------------------------------
(* What a command does to the stack's call *)

Becomes(s, from, to) == IF s.st = from THEN [s EXCEPT !.st = to] ELSE s

(* hang_up, reject_call and redirect_call, accept_call *)
HungUp(s) ==
    IF s.st = "up"
    THEN [s EXCEPT !.st = "closing", !.reinvites = 0, !.holdPending = "none"]
    ELSE s
Declined(s) == Becomes(s, "ringing", "declined")
Accepted(s) == Becomes(s, "ringing", "answering")

(* hold_call and resume_call: hold_pending is overwritten.                  *)
Reinvited(s, kind) ==
    IF s.st = "up"
    THEN [s EXCEPT !.dir = IF kind = "hold" THEN "sendonly" ELSE "sendrecv",
                   !.holdPending = kind, !.reinvites = @ + 1]
    ELSE s

Referred(s) == IF s.st = "up" THEN [s EXCEPT !.refers = @ + 1] ELSE s

-----------------------------------------------------------------------------
(* The media engine *)

Id(i) == calls[i].id
Push(c, uri) == Append(calls, [id |-> c, uri |-> uri, held |-> FALSE])
WithHeld(i, held) == [calls EXCEPT ![i].held = held]
Record(c) == history' = [history EXCEPT ![c] = @ + 1]

(* The sockets left once stop_focused_media has stopped the engine.         *)
Freed == sockets \ media

KeepAudio(m, k, f) == media' = m /\ sockets' = k /\ focused' = f

(* MediaEngine::start fails if the port is bound, or for reasons of its own.*)
EngineFails(bound) ==
    \/ bound /\ UNCHANGED failures
    \/ failures < MaxFailures /\ failures' = failures + 1

(* start_media for slot i, the slot of call c, when the client has engine   *)
(* m, sockets k are bound and the focus is f.  An engine it finds there is  *)
(* overwritten, not stopped: its receive task goes on, and keeps the port.  *)
StartMedia(i, c, m, k, f) ==
    \/ c \notin k /\ KeepAudio({c}, k \cup {c}, i) /\ UNCHANGED failures
    \/ EngineFails(c \in k) /\ KeepAudio(m, k, f)

(* Mutant: the focus is not shifted to the slot that moves up.              *)
RemoveCallUnshifted(i) ==
    LET rest  == RemoveAt(calls, i)
        stops == inConference \/ focused = i
        m == IF stops THEN {} ELSE media
        k == IF stops THEN Freed ELSE sockets
        f == IF stops THEN 0 ELSE focused
    IN  /\ calls' = rest
        /\ inConference' = FALSE
        /\ attended' = 0
        /\ IF inConference /\ rest # <<>>
           THEN StartMedia(1, rest[1].id, m, k, f)
           ELSE KeepAudio(m, k, f) /\ UNCHANGED failures

(* remove_call *)
RemoveCall(i) ==
    LET rest  == RemoveAt(calls, i)
        stops == inConference \/ focused = i
        m == IF stops THEN {} ELSE media
        k == IF stops THEN Freed ELSE sockets
        f == IF stops THEN 0 ELSE IF focused > i THEN focused - 1 ELSE focused
    IN  /\ calls' = rest
        /\ inConference' = FALSE
        /\ attended' = 0
        /\ IF inConference /\ rest # <<>>
           THEN StartMedia(1, rest[1].id, m, k, f)
           ELSE KeepAudio(m, k, f) /\ UNCHANGED failures

-----------------------------------------------------------------------------
(* The user *)

(* The Call-ID a MakeCall will create.                                      *)
NextCall == CHOOSE c \in OutCalls: stack[c].st = "none"

MayDial ==
    /\ pendingCall = NoCall /\ pendingOutbound = NoCall
    /\ \E c \in OutCalls: stack[c].st = "none"

(* do_call, from the idle screen or a list: the client does not learn the   *)
(* Call-ID.  The screen is idle though an accept may be pending.            *)
Dial ==
    /\ calls = <<>>
    /\ MayDial
    /\ pendingOutbound' = NextCall
    /\ stack' = [stack EXCEPT ![NextCall].st = "trying"]
    /\ UNCHANGED <<calls, audio, pendingCall, pendingAccept, attended,
                   inConference, history, events, asks>>

(* do_attended_transfer_dial *)
AttendedTransferDial ==
    /\ focused # 0
    /\ Len(calls) = 1
    /\ MayDial
    /\ asks < MaxAsks /\ asks' = asks + 1
    /\ stack' = [stack EXCEPT ![Id(focused)] = Reinvited(@, "hold"),
                              ![NextCall].st = "trying"]
    /\ calls' = WithHeld(focused, TRUE)
    /\ KeepAudio({}, Freed, 0)
    /\ attended' = focused
    /\ pendingOutbound' = NextCall
    /\ UNCHANGED <<failures, pendingCall, pendingAccept, inConference, history,
                   events>>

(* do_complete_attended_transfer; its button is among the controls of the   *)
(* focused call.  The stack wants both dialogs.                             *)
CompleteAttendedTransfer ==
    /\ attended # 0 /\ Len(calls) = 2 /\ focused # 0
    /\ asks < MaxAsks /\ asks' = asks + 1
    /\ stack' = IF stack[Id(3 - attended)].st = "up"
                THEN [stack EXCEPT ![Id(attended)] = Referred(@)]
                ELSE stack
    /\ UNCHANGED <<calls, audio, pendings, attended, inConference, history,
                   events>>

(* do_transfer, of the focused call *)
BlindTransfer ==
    /\ focused # 0
    /\ asks < MaxAsks /\ asks' = asks + 1
    /\ stack' = [stack EXCEPT ![Id(focused)] = Referred(@)]
    /\ UNCHANGED <<calls, audio, pendings, attended, inConference, history,
                   events>>

(* do_accept: the button, a hotkey, a notification or auto answer.          *)
Accept ==
    /\ pendingAccept = NoCall /\ pendingCall # NoCall
    /\ pendingCall' = NoCall
    /\ pendingAccept' = pendingCall
    /\ stack' = [stack EXCEPT ![pendingCall] = Accepted(@)]
    /\ UNCHANGED <<calls, audio, pendingOutbound, attended, inConference,
                   history, events, asks>>

(* do_reject, do_redirect_pending_call, and the no-answer forward of        *)
(* check_pending_call_timeout: all record the call and let it go.           *)
Reject ==
    /\ pendingCall # NoCall
    /\ pendingCall' = NoCall
    /\ Record(pendingCall)
    /\ stack' = [stack EXCEPT ![pendingCall] = Declined(@)]
    /\ UNCHANGED <<calls, audio, pendingOutbound, pendingAccept, attended,
                   inConference, events, asks>>

(* Mutant: a call the user ends is not recorded.                            *)
HangUpUnrecorded(i) ==
    /\ stack' = [stack EXCEPT ![Id(i)] = HungUp(@)]
    /\ RemoveCall(i)
    /\ UNCHANGED <<pendings, history, events, asks>>

(* do_hangup: the slot is gone before the far end has heard of it.          *)
HangUp(i) ==
    /\ stack' = [stack EXCEPT ![Id(i)] = HungUp(@)]
    /\ RemoveCall(i)
    /\ Record(calls[i].uri)
    /\ UNCHANGED <<pendings, events, asks>>

(* Mutant: the call on hold keeps the engine.                               *)
HoldSlotKeepingMedia(i) ==
    /\ focused = i /\ ~inConference
    /\ asks < MaxAsks /\ asks' = asks + 1
    /\ stack' = [stack EXCEPT ![Id(i)] = Reinvited(@, "hold")]
    /\ calls' = WithHeld(i, TRUE)
    /\ KeepAudio(media, sockets, 0)
    /\ UNCHANGED <<failures, pendings, attended, inConference, history, events>>

(* do_hold_slot: offered for the focused call, outside a conference.        *)
HoldSlot(i) ==
    /\ focused = i /\ ~inConference
    /\ asks < MaxAsks /\ asks' = asks + 1
    /\ stack' = [stack EXCEPT ![Id(i)] = Reinvited(@, "hold")]
    /\ calls' = WithHeld(i, TRUE)
    /\ KeepAudio({}, Freed, 0)
    /\ UNCHANGED <<failures, pendings, attended, inConference, history, events>>

Resume(i, s) == [s EXCEPT ![Id(i)] = Reinvited(@, "resume")]
Hold(i, s) == [s EXCEPT ![Id(i)] = Reinvited(@, "hold")]

(* Mutant: the call that had the focus is not put on hold.                  *)
SwapToWithoutHold(i) ==
    /\ focused # i /\ ~inConference
    /\ asks < MaxAsks /\ asks' = asks + 1
    /\ stack' = Resume(i, stack)
    /\ calls' = [calls EXCEPT ![i].held = FALSE]
    /\ IF focused = 0
       THEN StartMedia(i, Id(i), media, sockets, 0)
       ELSE StartMedia(i, Id(i), {}, Freed, 0)
    /\ UNCHANGED <<pendings, attended, inConference, history, events>>

(* do_swap_to: offered for every other slot, outside a conference.          *)
SwapTo(i) ==
    /\ focused # i /\ ~inConference
    /\ asks < MaxAsks /\ asks' = asks + 1
    /\ IF focused = 0
       THEN /\ stack' = Resume(i, stack)
            /\ calls' = WithHeld(i, FALSE)
            /\ StartMedia(i, Id(i), media, sockets, 0)
       ELSE /\ stack' = Resume(i, Hold(focused, stack))
            /\ calls' = [calls EXCEPT ![focused].held = TRUE, ![i].held = FALSE]
            /\ StartMedia(i, Id(i), {}, Freed, 0)
    /\ UNCHANGED <<pendings, attended, inConference, history, events>>

(* Every leg the client takes to be on hold is resumed.                     *)
UnheldLegs(s) ==
    [c \in Calls |->
        IF \E i \in 1..2: Id(i) = c /\ calls[i].held
        THEN Reinvited(s[c], "resume") ELSE s[c]]

(* start_conference: needs no answer to the resumes, only time.  If its     *)
(* engine cannot be started the old one is gone all the same.               *)
StartConference ==
    /\ Len(calls) = 2 /\ ~inConference
    /\ asks < MaxAsks /\ asks' = asks + 1
    /\ stack' = UnheldLegs(stack)
    /\ LET both == {Id(1), Id(2)} IN
       \/ /\ both \cap Freed = {}
          /\ KeepAudio(both, Freed \cup both, 1)
          /\ calls' = [i \in 1..2 |-> [calls[i] EXCEPT !.held = FALSE]]
          /\ inConference' = TRUE
          /\ attended' = 0
          /\ UNCHANGED failures
       \/ /\ EngineFails(both \cap Freed # {})
          /\ KeepAudio({}, Freed, focused)
          /\ UNCHANGED <<calls, inConference, attended>>
    /\ UNCHANGED <<pendings, history, events>>

UserActs ==
    \/ Dial
    \/ AttendedTransferDial
    \/ CompleteAttendedTransfer
    \/ BlindTransfer
    \/ Accept
    \/ Reject
    \/ \E i \in DOMAIN calls: HangUp(i) \/ HoldSlot(i) \/ SwapTo(i)
    \/ StartConference

-----------------------------------------------------------------------------
(* Events (handle_sip_event).  `c` is the call of the event.                *)

Occupied == Len(calls) + (IF pendingAccept = NoCall THEN 0 ELSE 1)

(* Blocklist, DND, forwarding, single call mode and the control-button deny *)
(* may refuse any call, and record it; a call beyond capacity is not        *)
(* recorded.                                                                *)
OnIncomingCall(c) ==
    /\ \/ /\ stack' = [stack EXCEPT ![c] = Declined(@)]
          /\ Record(c)
          /\ UNCHANGED pendingCall
       \/ /\ Occupied >= 2 \/ pendingCall # NoCall
          /\ stack' = [stack EXCEPT ![c] = Becomes(@, "ringing", "busy")]
          /\ UNCHANGED <<pendingCall, history>>
       \/ /\ Occupied < 2 /\ pendingCall = NoCall
          /\ pendingCall' = c
          /\ UNCHANGED <<stack, history>>
    /\ UNCHANGED <<calls, audio, pendingOutbound, pendingAccept, attended,
                   inConference>>

(* CallConnected of the accepted call: the focused call is held only now.   *)
OnAcceptedConnected(c) ==
    /\ pendingAccept' = NoCall
    /\ IF focused = 0
       THEN /\ calls' = Push(c, c)
            /\ UNCHANGED stack
            /\ StartMedia(Len(calls) + 1, c, media, sockets, 0)
       ELSE /\ calls' = Append(WithHeld(focused, TRUE),
                               [id |-> c, uri |-> c, held |-> FALSE])
            /\ stack' = Hold(focused, stack)
            /\ StartMedia(Len(calls) + 1, c, {}, Freed, 0)
    /\ UNCHANGED <<pendingOutbound, pendingCall>>

(* CallConnected of any other call is taken for the dialled one.  Nothing   *)
(* is held or stopped for it.                                               *)
OnDialledConnected(c) ==
    /\ pendingOutbound' = NoCall
    /\ calls' = Push(c, pendingOutbound)
    /\ StartMedia(Len(calls) + 1, c, media, sockets, focused)
    /\ UNCHANGED <<stack, pendingCall, pendingAccept>>

OnCallConnected(c) ==
    /\ \/ pendingAccept = c /\ OnAcceptedConnected(c)
       \/ pendingAccept # c /\ pendingOutbound # NoCall /\ OnDialledConnected(c)
       \/ /\ pendingAccept # c /\ pendingOutbound = NoCall
          /\ UNCHANGED <<calls, audio, pendings, stack>>
    /\ UNCHANGED <<attended, inConference, history>>

SlotsOf(c) == {i \in DOMAIN calls: Id(i) = c}

(* Mutant: the screen keeps ringing.                                        *)
EndsPendingCallRinging(c) ==
    /\ pendingCall = c
    /\ Record(c)
    /\ UNCHANGED <<calls, audio, pendings, attended, inConference>>

EndsPendingCall(c) ==
    /\ pendingCall = c
    /\ pendingCall' = NoCall
    /\ Record(c)
    /\ UNCHANGED <<calls, audio, pendingOutbound, pendingAccept, attended,
                   inConference>>

(* Mutant: an accept that failed stays pending.                             *)
EndsPendingAcceptStuck(c) ==
    /\ pendingCall # c /\ pendingAccept = c
    /\ Record(c)
    /\ UNCHANGED <<calls, audio, pendings, attended, inConference>>

EndsPendingAccept(c) ==
    /\ pendingCall # c /\ pendingAccept = c
    /\ pendingAccept' = NoCall
    /\ Record(c)
    /\ UNCHANGED <<calls, audio, pendingOutbound, pendingCall, attended,
                   inConference>>

(* Mutant: the first slot is removed, whichever call ended.                 *)
EndsFirstSlot(c) ==
    /\ pendingCall # c /\ pendingAccept # c /\ SlotsOf(c) # {}
    /\ RemoveCall(1)
    /\ Record(calls[1].uri)
    /\ UNCHANGED pendings

EndsSlot(c) ==
    /\ pendingCall # c /\ pendingAccept # c
    /\ \E i \in SlotsOf(c): RemoveCall(i) /\ Record(calls[i].uri)
    /\ UNCHANGED pendings

(* Whatever call is left is taken for the dialled one.                      *)
EndsPendingOutbound(c) ==
    /\ pendingCall # c /\ pendingAccept # c /\ SlotsOf(c) = {}
    /\ IF pendingOutbound = NoCall
       THEN UNCHANGED <<pendingOutbound, history>>
       ELSE pendingOutbound' = NoCall /\ Record(pendingOutbound)
    /\ UNCHANGED <<calls, audio, pendingCall, pendingAccept, attended,
                   inConference>>

(* on_call_terminated, for CallEnded and CallFailed *)
OnCallEnded(c) ==
    /\ \/ EndsPendingCall(c)
       \/ EndsPendingAccept(c)
       \/ EndsSlot(c)
       \/ EndsPendingOutbound(c)
    /\ UNCHANGED stack

(* CallHeld and CallResumed *)
OnHeld(c, held) ==
    /\ calls' = [i \in DOMAIN calls |->
                    IF Id(i) = c THEN [calls[i] EXCEPT !.held = held] ELSE calls[i]]
    /\ UNCHANGED <<audio, pendings, attended, inConference, history, stack>>

(* Both slots go through do_hangup, the later one first.                    *)
HangUpBoth(records) ==
    /\ stack' = [d \in Calls |-> IF SlotsOf(d) # {} THEN HungUp(stack[d]) ELSE stack[d]]
    /\ calls' = <<>>
    /\ inConference' = FALSE
    /\ KeepAudio({}, Freed, 0)
    /\ history' = IF records
                  THEN [d \in Calls |->
                          history[d] + Cardinality({i \in DOMAIN calls: calls[i].uri = d})]
                  ELSE history
    /\ UNCHANGED <<failures, pendings>>

KeepBoth == UNCHANGED <<calls, audio, pendings, inConference, history, stack>>

(* Mutant: the two calls are not recorded.                                  *)
OnTransferAcceptedUnrecorded ==
    /\ attended' = 0
    /\ IF attended # 0 /\ Len(calls) = 2 THEN HangUpBoth(FALSE) ELSE KeepBoth

(* TransferAccepted: both legs of an attended transfer are hung up.         *)
OnTransferAccepted ==
    /\ attended' = 0
    /\ IF attended # 0 /\ Len(calls) = 2 THEN HangUpBoth(TRUE) ELSE KeepBoth

OnTransferFailed ==
    /\ attended' = 0
    /\ KeepBoth

React(c, event) ==
    \/ event = "IncomingCall" /\ OnIncomingCall(c)
    \/ event = "CallConnected" /\ OnCallConnected(c)
    \/ event = "CallEnded" /\ OnCallEnded(c)
    \/ event = "CallHeld" /\ OnHeld(c, TRUE)
    \/ event = "CallResumed" /\ OnHeld(c, FALSE)
    \/ event = "TransferAccepted" /\ OnTransferAccepted
    \/ event = "TransferFailed" /\ OnTransferFailed

(* A call connects that the client does not keep apart from the others: a   *)
(* dialled one over a call in focus, or any as the third.                   *)
Crosses(c, event) ==
    /\ event = "CallConnected"
    /\ \/ pendingAccept # c /\ pendingOutbound # NoCall /\ focused # 0
       \/ Len(calls) = 2

(* pending_outbound carries no Call-ID: an event that finds nothing else is *)
(* taken for one of the dialled call, also when it is another's.            *)
Mistakes(c, event) ==
    IF /\ pendingAccept # c /\ pendingOutbound \notin {c, NoCall}
       /\ \/ event = "CallConnected"
          \/ event = "CallEnded" /\ pendingCall # c /\ SlotsOf(c) = {}
    THEN {pendingOutbound} ELSE {}

HandleEvent(c) ==
    /\ events[c] # <<>>
    /\ React(c, Head(events[c]))
    /\ crossed' = (crossed \/ Crosses(c, Head(events[c])))
    /\ mistaken' = mistaken \cup Mistakes(c, Head(events[c]))
    /\ events' = [events EXCEPT ![c] = Tail(@)]
    /\ UNCHANGED asks

-----------------------------------------------------------------------------
(* The stack (SipCalls, as its client sees it) *)

Client == <<calls, audio, pendings, attended, inConference, history, past,
            asks>>

Emit(c, es) == events' = [events EXCEPT ![c] = @ \o es]
Over(s) == [s EXCEPT !.st = "gone", !.reinvites = 0, !.holdPending = "none"]

StackRings(c) ==
    /\ c \in InCalls
    /\ stack[c].st = "none"
    /\ stack' = [stack EXCEPT ![c].st = "ringing"]
    /\ Emit(c, <<"IncomingCall">>)

StackConnects(c) ==
    /\ stack[c].st \in {"trying", "answering"}
    /\ stack' = [stack EXCEPT ![c].st = "up"]
    /\ Emit(c, <<"CallConnected">>)

(* A refusal, a BYE, a CANCEL, a refused re-INVITE, the answer to our BYE,  *)
(* a failed answer or a dead transport; a CANCEL that crosses our refusal   *)
(* is reported too.                                                         *)
StackEnds(c) ==
    /\ stack[c].st \notin {"none", "gone"}
    /\ stack' = [stack EXCEPT ![c] = Over(@)]
    /\ Emit(c, <<"CallEnded">>)

(* Mutant: an answer nobody remembers a question for is read as a resume's. *)
StackReinvitedUnasked(c) ==
    /\ stack[c].reinvites > 0
    /\ stack' = [stack EXCEPT ![c].reinvites = @ - 1, ![c].holdPending = "none"]
    /\ Emit(c, <<IF stack[c].holdPending = "hold"
                 THEN "CallHeld" ELSE "CallResumed">>)

(* A 200 to a re-INVITE; hold_pending.take().unwrap_or(true).               *)
StackReinvited(c) ==
    /\ stack[c].reinvites > 0
    /\ stack' = [stack EXCEPT ![c].reinvites = @ - 1, ![c].holdPending = "none"]
    /\ Emit(c, <<IF stack[c].holdPending = "resume"
                 THEN "CallResumed" ELSE "CallHeld">>)

(* An answer to a REFER, whatever has become of the dialog.                 *)
StackReferred(c) ==
    /\ stack[c].refers > 0
    /\ stack' = [stack EXCEPT ![c].refers = @ - 1]
    /\ \E e \in {"TransferAccepted", "TransferFailed"}: Emit(c, <<e>>)

(* The far end and the stack settle a call, and answer what was asked.      *)
StackSettles(c) ==
    /\ \/ StackConnects(c)
       \/ stack[c].st \in {"trying", "answering", "closing"} /\ StackEnds(c)
       \/ StackReinvited(c)
       \/ StackReferred(c)
    /\ UNCHANGED Client

StackActs(c) ==
    /\ \/ StackRings(c)
       \/ StackConnects(c)
       \/ StackEnds(c)
       \/ StackReinvited(c)
       \/ StackReferred(c)
    /\ UNCHANGED Client

-----------------------------------------------------------------------------

Next ==
    \/ UserActs /\ UNCHANGED past
    \/ \E c \in Calls: HandleEvent(c)
    \/ \E c \in Calls: StackActs(c)

Spec == Init /\ [][Next]_vars

(* The client drains its queues every frame; the stack and the far end      *)
(* settle what was asked (SipCalls: DialResolves, HangUpResolves).  The     *)
(* user and a far end that rings or talks are obliged to nothing.           *)
Fairness ==
    \A c \in Calls: WF_vars(HandleEvent(c)) /\ WF_vars(StackSettles(c))

FairSpec == Spec /\ Fairness

-----------------------------------------------------------------------------
(* Safety *)

InSlot(c) == \E i \in DOMAIN calls: Id(i) = c
Queued(c, event) == \E i \in DOMAIN events[c]: events[c][i] = event

(* Every call the stack has is one the user can see and end: dialled calls  *)
(* are pending_outbound, ringing ones pending_call or announced, accepted   *)
(* ones pending_accept, and connected ones have a slot that names them, or  *)
(* will have when CallConnected is handled.  The client matches most events *)
(* by Call-ID, but those of the dialled call by elimination: a dialled call *)
(* may be lost, but only when the end or the connection of another call was *)
(* taken for its own.                                                       *)
NoCallLost ==
    \A c \in Calls \ mistaken:
        CASE stack[c].st = "trying" -> pendingOutbound = c
          [] stack[c].st = "ringing" -> pendingCall = c \/ Queued(c, "IncomingCall")
          [] stack[c].st = "answering" -> pendingAccept = c
          [] stack[c].st = "up" ->
                \/ \E i \in SlotsOf(c): calls[i].uri = c
                \/ Queued(c, "CallConnected") /\ c \in {pendingOutbound, pendingAccept}
          [] OTHER -> TRUE

(* What event_handling.rs:383-385 says of on_call_terminated, and app.rs of *)
(* pending_outbound: a call is dialled until an event of its own says that  *)
(* it connected or failed.                                                  *)
DialledIsPending ==
    \A c \in OutCalls: stack[c].st = "trying" => pendingOutbound = c

(* Nothing the user sees is dead: a slot or a pending call that the stack   *)
(* has no call for will be removed by an event on its way, so neither of    *)
(* the two slots nor the one pending accept is blocked for good.            *)
NoDeadCall ==
    \A c \in Calls:
        InSlot(c) \/ c \in {pendingOutbound, pendingCall, pendingAccept} =>
            \/ stack[c].st \in {"trying", "ringing", "answering", "up"}
            \/ Queued(c, "CallEnded")

(* The microphone is heard by the focused call, or both legs of the         *)
(* conference, and by nobody else: every switch stops the engine before the *)
(* next is started, and leaves no task behind that holds an RTP port.  Only *)
(* a call that connects where it crosses another breaks this, and only a    *)
(* conference that could not be started leaves a focused call mute.         *)
AudioFollowsFocus ==
    ~crossed =>
        /\ sockets = media
        /\ \/ media = IF focused = 0 THEN {}
                      ELSE IF inConference THEN {Id(i): i \in DOMAIN calls}
                      ELSE {Id(focused)}
           \/ media = {} /\ failures > 0

(* The call that has not the focus has been put on hold, through dials,     *)
(* accepts, swaps, a conference that loses a leg and a consultation; a call *)
(* that could not be given an engine, and one that crossed another, are the *)
(* exceptions.                                                              *)
OthersOnHold ==
    ~crossed /\ ~inConference =>
        \A i \in DOMAIN calls:
            i # focused /\ stack[Id(i)].st = "up" =>
                stack[Id(i)].dir = "sendonly" \/ failures > 0

(* What app.rs:107-110 says of focused_call: no engine runs but its own.    *)
OneEngine == sockets = media

(* Room for a call is asked for when it rings or is dialled, not when it is *)
(* accepted or connects.  So app.rs:102-105, which has two slots at most,   *)
(* is off by one: three calls, those on their way in or out counted.        *)
AtMostThree ==
    Len(calls) + Cardinality({pendingOutbound, pendingCall, pendingAccept}
                                 \ {NoCall}) <= 3

(* All answers to the holds and resumes of c have come and been handled.    *)
Settled(c) ==
    /\ stack[c].reinvites = 0
    /\ ~Queued(c, "CallHeld") /\ ~Queued(c, "CallResumed")

(* A call that was put on hold is shown as held when all is answered, in    *)
(* whatever order the answers of earlier holds and resumes were handled:    *)
(* else neither a swap nor a merge would know that it must be resumed.      *)
HeldIsShown ==
    \A i \in DOMAIN calls:
        /\ stack[Id(i)].st = "up" /\ stack[Id(i)].dir = "sendonly"
        /\ Settled(Id(i))
        => calls[i].held

(* A call is recorded in the history once at most, and a dialled call has   *)
(* its record when it is over and no slot names it, whoever ended it, in    *)
(* whatever order the end and the client's own hang-up came, and whatever   *)
(* was taken for its end.                                                   *)
RecordedOnce ==
    \A c \in Calls:
        /\ history[c] <= 1
        /\ c \in OutCalls /\ stack[c].st = "gone" /\ events[c] = <<>> =>
            history[c] = 1 \/ \E i \in DOMAIN calls: calls[i].uri = c

(* An accept that is asked for, or that fails, disturbs no other call: who  *)
(* is on hold, heard and focused stays as it was.  Only CallConnected moves *)
(* the audio.                                                               *)
AcceptDisturbsNothing ==
    [][pendingAccept' # pendingAccept /\ Len(calls') = Len(calls) =>
        /\ UNCHANGED <<calls, focused, media>>
        /\ \A c \in Calls: stack'[c].dir = stack[c].dir]_vars

(* What the user is shown of a placed call.                                 *)
ShownAs(c) ==
    IF history[c] > 0 THEN "over"
    ELSE IF \E i \in DOMAIN calls: calls[i].uri = c THEN "up"
    ELSE IF pendingOutbound = c THEN "pending"
    ELSE "idle"

Shown == INSTANCE CallPromise
    WITH Calls <- OutCalls, promise <- [c \in OutCalls |-> ShownAs(c)]

(* What the stack promises of a placed call (SipCalls!PromiseKept) is what  *)
(* the user sees of it: dialled, connected once, then over for good.        *)
ShownPromise == Shown!Spec

-----------------------------------------------------------------------------
(* Liveness *)

Unsettled(c) ==
    \/ c \in {pendingOutbound, pendingAccept}
    \/ InSlot(c) /\ stack[c].st = "gone"

(* A dial or an accept is settled, for until then do_accept and the dialler *)
(* refuse every other; and a call that is over leaves its slot.             *)
CallsSettle == \A c \in Calls: Unsettled(c) ~> ~Unsettled(c)

=============================================================================
