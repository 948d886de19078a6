# A verification development of DeeLip

DeeLip is a SIP softphone: an `egui` client (`crates/ui`) over a SIP stack
(`crates/sip-core`), a media engine (`crates/media-engine`), NAT helpers
(`crates/nat`), stores (`crates/config`) and an updater (`crates/updater`). This
directory holds TLA+ modules translated from that code, the TLC configurations
that check them on small instances, and proofs that TLAPS checks for every
value of the constants.

`PROJECT.json` lists components, runs, the mutant of every property, the source
lines of every definition, the findings, the hazards and the theorems.

## Inventory

| Component | State it keeps | Operations | Interacts with | What is hard | What makes it correct |
|---|---|---|---|---|---|
| Call dialogs (`sip-core/src/call`) | `dialogs: HashMap<Call-ID, Dialog>` | `SipCommand`s, requests and responses of the far end, results of background tasks, refresh tick | run loop, transport, NAT tasks, client (events) | commands and answers cross; answers do not say what they answer; NAT waits run concurrently | no call is forgotten or heard of again; the far end is not left alone; hold and refresh agree with the SDP |
| Run loop and reconnect (`client/`) | `reregister_at`, retry delay, permanent failure, `cmd_rx` | `select!` over tick, registration, datagram, command, task result; rebuild after a transport error | everything of the account | the death of a transport in any state; registration blocks the loop | every open call fails; commands survive; retries resume |
| Registration | Call-ID, CSeq, challenge, expiry | `register_once`, 401/403/404 handling | shares `recv` with the calls | messages received while waiting; late answers | registered again; permanent failures stop; told truly |
| Presence/MWI subscriptions | maps by Call-ID, `refresh_after`, `auth_retried` | subscribe, unsubscribe, refresh tick, NOTIFY, 401 | client, run loop | refresh, retry and NOTIFY cross; the stack dies | what is shown catches up with the contact |
| Publication | ETag, `refresh_after` | publish, refresh, 401/412 | run loop, client (DND) | overlapping publishes | one publication, and it says what the client shows |
| MESSAGE | `pending_messages` | send, 401 retry, receive | client | duplicate challenge, reconnect | each message reported once, and sent only if it was |
| Call media negotiation (`media_setup.rs`, `wire/sdp`) | `CallMedia` of a dialog | offer, answer, conclusion | call dialogs, NAT | each end decides on its own | the two ends agree |
| ZRTP engine | `HandshakeState`, hash chain, keys | Hello, Commit, DHPart1/2, Confirm1/2, Conf2ACK | `ZrtpRuntime` (retransmission), receive task | UDP; messages of engines that were stopped | both ends have the same keys, and neither is secure alone |
| Media engine | tasks, SRTP contexts, DTMF, recording | start, stop, conference, mute, record | client, ZRTP, DTLS | tasks run while they are stopped and started; keys change under way | what is sent is heard as what it is; a stopped engine frees its port |
| Video engine | RTP sender, `fragments`, `current_ts` | send, receive, flush on stall | client | packets late and lost | the decoder gets one frame, in order |
| Client call slots (`ui`) | `CallsState`: slots (two are meant, three can be), focus, the pending calls | dial, accept, reject, redirect, hang up, hold, swap, conference, transfer | one `SipHandle` and event channel per account, media engine | optimistic changes, events about calls it has dropped | slots match the stack's calls; media runs for the focused call only |
| NAT (`nat`) | none kept | STUN, TURN, ICE | background tasks of calls | time: all waits but that of the ICE checks have a timeout | it ends |
| Wire formats, SRV/DNS, digest | none kept | parse, build, select | stack | malformed input | what is built parses back |
| Stores and configuration | SQLite, JSON | load, save, query | client | - | - |
| Views, platform, updater | presentation; phases of an update check | - | - | - | - |

## Modules

| Module | What it is |
|---|---|
| `SipCalls` | the call handling of `SipStack`, the client as far as it knows its calls, the wire and the far end |
| `CallPromise` | what the events of a placed call promise the client (abstract) |
| `CallSlots` | the calls of the client: `CallsState`, the user's actions, the reaction to events, the media engine |
| `Account` | an account apart from its calls: connecting, registering, presence, publication, messages |
| `Zrtp` | the handshake of two ZRTP engines over UDP |
| `Negotiation` | offer, answer and conclusion as functions (no state) |
| `VideoStream` | the packets of a video stream, from the camera to the decoder |
| `MediaSession` | the media of one call at both ends; composes `Negotiation`, `Zrtp` and `VideoStream` |
| `MCSipCalls`, `MCCallSlots`, `MCAccount`, `MCMedia` | instances for TLC |
| `SipCallsProofs` | types of `SipCalls`; no call in limbo, none connected twice |
| `DialogProofs` | one call at a time: `SipCalls` implements `CallPromise`; CSeqs and ACKs |
| `SessionProofs` | what both ends of a call agree on: the refresher, hold, that the call exists |
| `CallSlotsProofs` | everything `slots` checks, that there is room for three calls, and that accepting disturbs no other call |
| `AccountProofs`, `PublicationProofs` | registration and messages; presence publication |
| `ZrtpProofs` | the handshake alone |
| `MediaProofs` | the session implements the handshake; negotiation, engines, voice and video |

`SipCalls` and `CallSlots` meet in `CallPromise`: the one keeps it, the other
relies on it. `MediaSession` begins where a call of `SipCalls` connects, and
what its `shown` does to an engine is what `CallSlots` does to `media`.

### SipCalls

`SipStack::run` is one task that takes one thing at a time, so an action is one
whole handler.

* `dialogs` is `SipStack::dialogs`. A dialog has the fields of `Dialog` that a
  handler branches on. Its SDP is a direction, its remote SDP whether a codec is
  shared, a `Session-Expires` is its refresher parameter, and
  `session_refresh_at` is whether it is set: a deadline may have passed at any
  tick.
* `offering`, `answering`, `connecting` are the background tasks that will send
  `OutgoingOfferReady`, `IncomingAnswerReady`, `OutgoingConnected`. `answering`
  counts, because an accept of a replaced dialog starts a second task.
* `view` is what the client last did or was told: a history of commands and
  `SipEvent`s that guards the commands, so that only commands a client can give
  are given. `connects` counts `CallConnected` of placed calls.
* `open`, `unacked`, `finals` are what the far end has had of us; `chan` is what
  is on its way to us. `Reorder` and `MaxDups` let the wire reorder and copy.
* `peerUp` and `inv` are the far end, which follows RFC 3261: one final answer to
  each request, an ACK for each of our finals. It is external, and everything it
  may answer (180, 200 with or without a common codec, 401 usable or not, 422
  with or without Min-SE, 486) is enumerated.

Left out: 100 and other provisional answers (`Act::Nothing`); CallHeld,
CallResumed, RemoteHeld as events (they report `held`); the video leg; ports and
keys; transport errors of a single `send`, which the code ignores except for
the first INVITE, where `OutgoingOfferReady` has them. A command for a call that
is gone returns at once and is a stutter. 407 is a 401.

### CallSlots

The client (`DeelipApp`) is one thread: a frame drains the event queues, then
handles timeouts, hotkeys and clicks. So one event (`HandleEvent`) or one thing
the user does (`UserActs`) is one action, and between them the stack goes on.

* `calls`, `focused`, `pendingOutbound`, `pendingCall`, `pendingAccept`,
  `attended`, `inConference` are the fields of `CallsState`; indices count from 1
  and 0 is `None`. A slot is `call_id`, `remote_uri` (the call whose far end it
  names) and `is_held`. `pendingOutbound` is whom `remote_uri` names: the code
  has no Call-ID there, and no handler compares it.
* `media` is the engine, as the calls it serves; `sockets` the calls whose RTP
  port a receive task holds. They differ only after an engine was overwritten
  instead of stopped. `StartMedia` fails when the port is bound, and
  `MaxFailures` times for other reasons (no device, no codec).
* `history` counts the records of each call. Two variables are history, read by
  properties only: `crossed` is true once a call has connected as the dialled
  one while another had the focus, or as the third (`Crosses`); `mistaken` are the
  dialled calls for which another call's event was taken (`Mistakes`). No guard
  keeps the user from anything: whatever the views offer may cross whatever is
  pending.
* `stack` and `events` stand for `SipCalls` as its client sees it: the state of
  each call, the direction last offered, unanswered re-INVITEs and REFERs, and
  `holdPending`. A command takes effect at once, for what the stack did before
  the command came cannot be told from what it did before the command was given.
  Each call has a queue of its own. Calls of different accounts are like that;
  for calls of one account it allows orders that do not happen.

The user is offered what the views offer: `HoldSlot` for the focused call,
`SwapTo` for another, `CompleteAttendedTransfer` among the controls of the
focused call, `Dial` on the idle screen. Blocklist, DND, forwarding and the
other reasons to decline are one choice in `OnIncomingCall`. Room is asked for
where the code asks: `Occupied` when a call rings, the views' `MayDial` and
attended dial when one is placed, and nowhere in `Accept`.

Left out: video, recording, mute and DTMF, which follow the focused call; the
exit of the program; several calls on the wire with one Call-ID.

`CallPromise` is used from both sides: `SipCalls!PromiseKept` says that the
stack's events keep it, and `ShownPromise` that the screen does. The client
needs the one for the other: the slot of a call is made by the one
`CallConnected` and freed by the one `CallEnded`.

### Account

`run` takes one branch of its `select!` at a time. `register_once` is the
exception: it waits inside its branch, so `reg` tells how far it is, nothing
else of the stack acts meanwhile (`Listening`), and what arrives is discarded.

* `conn`, `broken`, `gen` are `SipStack::spawn`: a stack that is up, one whose
  transport is dead (`run` learns it by the next `recv`), and the sleep and the
  candidate transports before the next one. `gen` names a stack's Call-ID of
  registration. `StackDies` empties all that the code loses; `cmds` is `cmd_rx`
  and survives.
* `subs` is `subscriptions` and `mwi_subscriptions`, by Call-ID, with
  `auth_retried` and whether `refresh_after` is past; `pub` is
  `presence_publish`; `msg` is `pending_messages` together with what became of
  each message.
* `view` is the client as far as it shows these things. It drains its queue of
  events at once, and what it does about them waits in `cmds`.
* `server`, `reqs`, `chan` are external: a registrar and presence agent that
  keeps RFC 3261, 3265 and 3903, challenges or does not, refuses, answers
  provisionally, and may answer in any order.
* Time is whether a deadline may have passed. `unheard` is a history variable:
  texts, or publications, of which the wire or a registration swallowed
  something, or which overlapped.

Left out: the delays and their doubling, keepalives, `allow_ip_rewrite`, header
texts.

### Zrtp

One action per handler of `ZrtpEngine::receive`, and `Start`, `Stop`, `Tick`
(`ZrtpRuntime`) and `Lose`. An engine is named by its end and a number, and a
hash, MAC, DH share or key by the engines it binds, so that a check of the code
is a comparison of names; that an attacker cannot make them is cryptography and
assumed. A message stays on the wire when it is delivered, so it may come twice,
late, or after its engine is gone. The cache of retained secrets is written but
never enters the keys (`rs1_id` and `rs2_id` are zero), and is left out.

### Negotiation

`Offer`, `Answer` and `Conclude` are `initiate_call`, `accept_call` and
`handle_connected` with `build_offer`, `build_answer`, `parse_sdp_forcing`,
`parse_video_section` and `resolve_call_media`. A description is its sections; a
port, address, key, certificate or ICE agent is named by its end and leg. What
servers and sockets decide is `luck`. `ParseAudio` takes `c=` and ICE from the
last section that has them and keys from the first, as the parser does.

Two DeeLip ends never have an ICE connection. The callee runs its checks before
it makes the answer (`try_answer_with_ice`), the caller starts its own when it
has the answer, and the checks need both. So an answer is made only where nothing
is waited for (`AwaitsNoChecks`: the offer has no ICE, or gathering failed), and
has no ICE; the call that waits is `IceCalls` of `SipCalls`. The callee of a far
end that checks before it is answered would get further; it is not in
`MediaSession`, which has DeeLip at both ends.

### MediaSession

Two DeeLip ends. `engine` is `MediaEngine`: its two tasks, the key of each, the
key on its way from the receive task to the send task, the DTLS task and the
`stop` channel; `lingers` are the ports a DTLS task still holds; `video` the
running video engines. `shown` is the client's side: `Hold` stops the engine at
once, `Resume` starts another, `Merge` starts one for two legs, without ZRTP and
DTLS. The call of the session may be either leg (`leg`): the second sends and
receives without comfort noise, whatever was negotiated (engine.rs:459). `air` is
one voice frame: who may decrypt it and what is in it.

Left out: the failures of `VideoEngine::start`, mute, DTMF, gain, device switch,
mixing and recording; encoder errors; and the other call of a conference, which
is a session of its own.

### VideoStream

`Film` is a tick of the video `send_loop` (`fragment_nal_units` and one RTP
packet for each fragment), `Arrive` and `Stall` what `recv_loop` does with a
packet and without one, `Reassembled` is `reassemble_nal_units` in the order of
the 16-bit sequence numbers. A frame is one NAL unit; the decoder is a library.

### Runs

| Run | Instance | What it shows |
|---|---|---|
| `sip_out` | one placed call, reordering, one copy, one dead transport, in-dialog refusals, CSeq up to 3 | `NoLimbo`, `OneConnect`, `AnswersAcked`, `HoldIsKnown`, `RefresherFollowsRoles`; `SipCalls` implements `CallPromise` |
| `sip_in` | one received call, one re-INVITE of the far end, CSeq up to 2, FIFO wire, fairness | `TypeOK`, `NoOrphan`, `AnswersOnlyAccepted`, `DialResolves`, `HangUpResolves` |
| `sip_hold` | one placed call, reordering, CSeq up to 4, one request of each kind at a time, fairness | `HoldAgrees`, `NoOrphan` (also after an answer without a common codec), `DialResolves` |
| `sip_repeated_ok` | as `sip_hold`, FIFO, one copy | `HoldAgrees` fails |
| `sip_refused` | a far end that refuses a hold | `NoOrphan` fails |
| `sip_refresher` | a callee that refreshes | `RefresherFollowsRoles` fails |
| `slots` | two calls to dial, one that comes in, two re-INVITEs or REFERs, one engine failure | `TypeOK`, `NoCallLost`, `NoDeadCall`, `AudioFollowsFocus`, `OthersOnHold`, `HeldIsShown`, `RecordedOnce`; the screen implements `CallPromise` |
| `slots_settle` | as `slots`, one re-INVITE or REFER, no failure, fairness | `CallsSettle` |
| `slots_late` | as `slots_settle`, without fairness | `DialledIsPending` fails |
| `slots_crossing` | the same | `OneEngine` fails |
| `account` | one contact, one mailbox, one message, two subscriptions at a time, one dead transport, fairness | `TypeOK`, `ToldRegistered`, `MessageToldTruly`, `PublishedFollowsDnd`, `PresenceCatchesUp`, `RegistersAgain`, `MessageSettles` |
| `media` | some 70 pairs of accounts, three engines in a session, one loss, one retransmission, two video frames, fairness | `TypeOK`, `OfferAnswerAgree`, `Intelligible`, `SecurePaired`, `RestartsBind`, `KeysAgree`, `SecureIsShared`, `OneFrameAtATime`, `MismatchSilences`, `SecureUnlessLost` |

*Bounds of the calls.* A dialog never looks at another, so one call shows every
interleaving of its own commands, tasks, messages and of the failure they share;
the proofs cover any number. `MaxCSeq` stops the client from asking for holds,
transfers and refreshes (never from hanging up): INVITE, its one retry for 401 and
its one for 422 take it to 3; a hold, a resume and a refresh of an unchallenged
call to 4. One copy suffices to deliver any one message twice; the copy stays in
the channel, so it may arrive at any later time. The far end of a placed call
sends no re-INVITE in these runs: over a wire that reorders, one that overtakes
its 200 reaches a dialog that is not `Confirmed` and is taken for a new incoming
call, and the dial becomes something else.

*Bounds of the client.* Three calls fill the two slots that are meant to be, with
one to spare that may get a third, and meet each other in every pending state; a
call does not come back once over. Two `asks` suffice for a hold that crosses a
swap, a consultation and its completion, and a merge with a leg on hold; one
failure for every place where an engine is started. The run of liveness is
smaller, for its behaviours are counted and not its states: the events that settle
a call are the same with one ask as with two. Queues need no bound: a call has few
events.

*Bounds of the account.* Subscriptions, publication and messages share nothing
but registration and the transport, so each instance uses one of them
(`config.uses`). Two Call-IDs are a subscription and the one that replaces it
after `Registered`. `MaxTrouble` bounds what goes wrong or is asked for, apart
from the stages that always are there (a challenge and its retry): one for
presence and publication (a loss, a copy, a refusal, a dead transport, a change
by the user or of the contact, or a re-registration), two for a message, so that
a copy meets a dead transport; none for the mailbox, whose handlers are those of
presence. One candidate list of three transports is what Auto has.

*Bounds of the media.* The two accounts of a scenario differ in one respect at a
time (keying, codecs, comfort noise, video, ICE, TURN), each in all
combinations, because no handler looks at two of them together except where
`NetworkScenarios` combines them. Three engines in a session are one restart by
either end, which is all that a handshake can tell apart: a message is of this
engine or of an earlier one. One loss and one retransmission suffice to lose any
one message with or without recovery; the proofs cover any number of each. Four
sequence numbers instead of 65536 make them wrap within the second frame.

*Deadlock* is not checked: when every call is over, nothing is left to do.

*Fairness.* `select!` polls every branch, so `Deliver(c)` is weakly fair. So are
the background tasks whose waits have a timeout (`TaskEnds`): STUN, TURN and
gathering. The connectivity checks of `nat::ice::connect` have none, and their
cancel channel is never used, so nothing is assumed of a call in `IceCalls`. The
runs have none: what they show of liveness is of calls without connectivity
checks, and a call that has them may never be settled (below). The far end answers
what it received (`PeerSettles`); there is no INVITE timeout in the stack, so
nothing would resolve without it. No fairness is assumed of the client, of the
refresh tick of `SipCalls` or of failures. `sip_in` and `sip_hold` copy and lose
nothing: a SIP far end retransmits what matters, and a dead transport is in
`sip_out`. In `slots_settle` the client drains its queues every frame
(`HandleEvent(c)`), and the stack settles dials, accepts, hang-ups, re-INVITEs and
REFERs (`StackSettles(c)`). That it settles dials is `DialResolves`, of placed
calls in `sip_hold` and of accepted ones in `sip_in`, and that it settles hang-ups
is `HangUpResolves`, in `sip_in`; calls with ICE checks, and a dial whose transport dies while its offer
is made, are outside of that and of `CallsSettle`. Neither the user nor a far end
that rings or talks has to do anything. In `account` the branches of `run` are
weakly fair, and so are the wire and the server for each Call-ID and method,
because the loop takes whatever arrives; a new transport is strongly fair
(`Reconnect`): `spawn` tries for ever, and tries the candidates anew each time. In
`media` the receive tasks handle packets and their interval (`ZrtpStep`) and each
task sees the stop channel (`SeeStop`), because each is a task with a `select!` of
its own; the network and both users owe nothing.

*Switches.* All of them are of `SipCalls`; `CallSlots` has none. `OneAtATime` (a
hold, resume or refresh waits for the last one) is not in the code: it separates
the question of ordering, in `sip_hold`, from the request that overwrites
`hold_pending`. What holds of overlapping requests is `HoldIsKnown`. `EarlyHangUp`
lets the client hang up before the call is connected, which the handle allows and
the shipped client, whose only callers of `hang_up` act on connected slots, does
not do. With it `PromiseKept` fails: `on_outgoing_connected`
(response/connected.rs:166) only asks whether there is a dialog, and one that
waits for the answer to its BYE is still there. `RefusesInDialog` lets the far end
refuse a request of a live call. `IceCalls` are the calls whose connectivity
checks may go on for ever.

### What the properties leave open

* `NoLimbo` excepts a call whose offer was being resolved when the transport died:
  the error branch of `run` fails dialogs, and it has none.
* `HoldAgrees` is of confirmed dialogs whose requests do not overlap. A resume sent
  before the hold is answered overwrites `hold_pending`, and the call is reported
  held after it was resumed; that a call on hold is known to be is `HoldIsKnown`.
* `DialResolves` is of calls without connectivity checks: `nat::ice::connect` has no
  timeout, and the callee awaits it before the answer that the caller's checks wait
  for, though docs/crates/sip-core.md:24-25 calls the wait "bounded by multi-second
  timeouts". With `IceCalls = {i1}` in `sip_in`, the accept of the call is never
  settled.
* `NoCallLost` excepts the dialled calls another call's event was taken for
  (`mistaken`, finding 4).
* `AudioFollowsFocus` and `OthersOnHold` end once a call has connected across
  another (`crossed`): one that was dialled (finding 5), or a third. Two slots are
  the limit of app.rs:102-105, but a call that rings while a consultation is
  dialled may be accepted, by the user or by auto-answer, when that has connected:
  `do_accept` does not ask for room. There are never more than three
  (`RoomForThree`). Both allow a mute call or one that was not held after an
  engine could not be started.
* `HeldIsShown` is of calls whose answers have all been handled. Before that,
  `start_conference` may trust a `CallResumed` that is older than the last hold, and
  mix in a leg that is on hold (media.rs:223-238); no property forbids it.
* A blind transfer started with a consultation open takes both calls down when it is
  accepted, for `TransferAccepted` does not say which transfer it is of
  (event_handling.rs:246-268). `BlindTransfer` may do so, and no property forbids it.
* Nothing says that the sections of a description are told apart. `ParseAudio` reads
  all lines, as the code does: with a TURN relay for one of two legs, the far end's
  audio goes to the address of the video leg.
* `PublishedFollowsDnd` speaks of the first stack, of publications that did not
  overlap, and of none that was lost or refused: two that overlap share an ETag,
  and the first of a new stack has the DND setting the account was started with.
* `MessageSettles` counts a message as settled when the stack died with it, or
  when its answer was lost: the sender then never hears of it.
* `SecureUnlessLost` is all the code gives: a lost Conf2Ack is not sent again, so
  the caller stays in the clear while the callee encrypts; and an end that
  restarts alone finds a peer that is `Secure` and ignores its Hello.
  `Intelligible` therefore speaks of calls without ZRTP and DTLS, and of ends
  that agree about comfort noise; and it excepts comfort noise that reaches the
  second leg of a conference, which decodes it as voice.
* `RestartsBind` leaves out calls with DTLS: `stop` neither aborts nor awaits the
  handshake task, which holds the port.
* `OneFrameAtATime` leaves out packets whose sequence number wrapped within their
  frame, which are put together in the wrong order, and says nothing of a lost
  middle fragment, which is not noticed.

### Findings

1. `sip_repeated_ok`: a 200 to an INVITE that comes a second time is taken for
   the answer to a hold, and the call is reported held.
2. `sip_refused`: a refused re-INVITE or INFO removes a live dialog without BYE.
3. `sip_refresher`: the refresher is recomputed from the answer as if this side
   had placed the call.
4. `slots_late`: `on_call_terminated` takes any call it does not know for the
   dialled one. Hang up, dial again before the BYE is answered, and the dial is
   dropped from the screen while it goes on in the stack.
5. `slots_crossing`: a dialled call that connects neither holds the focused call
   nor stops its engine, and the overwritten engine goes on.

## Proofs

Every safety property that a passing run checks is a theorem, with one exception:
an invariant or a step property of `Spec` for every value of the constants, so for
any number of calls, contacts, messages, CSeqs, engines, losses and copies. The
exception is `HoldAgrees`, which needs `OneAtATime`, a condition no code enforces;
what holds without it is the theorem `HoldsAreKnown`. Three theorems state
properties no run checks: `EveryRequestHasItsCSeq`, `AcceptsAreQuiet` and
`RoomForThree`. Liveness under
fairness is beyond the prover and stays with TLC (`DialResolves`,
`HangUpResolves`, `CallsSettle`, `PresenceCatchesUp`, `RegistersAgain`,
`MessageSettles`, `MismatchSilences`, `SecureUnlessLost`).

The assumptions are those named in the modules: the kinds of the constants,
disjoint call sets, a `NoDialog` that is not a dialog, finite sets of contacts
and messages (`FiniteAssumption`), accounts that are accounts
(`ScenariosAssumption`). TLC evaluates them on every run.

Some theorems have a hypothesis about a switch or a bound. Each is met by the run
that checks the property, and each is needed: without it TLC finds a
counterexample, which is the code's behaviour.

| Theorem | Hypothesis | What happens without it |
|---|---|---|
| `CallsKeepThePromise` | no request of the far end inside the call; `EarlyHangUp` off | a re-INVITE of a dialog that is not `Confirmed` is treated as a new incoming call; a call hung up early connects |
| `EveryRequestHasItsCSeq` | no request of the far end; no copies where calls come in | as above; a copied INVITE makes a second dialog, which counts from the start again |
| `EveryAnswerAcked` | the same, and `EarlyHangUp` off | a 200 that crosses the hang-up is not acknowledged |
| `RefresherIsTheNamedRole` | every Session-Expires names one role, not `uas` where calls come in; no re-INVITE to placed calls | finding 3 |
| `NobodyIsLeftAlone` | `EarlyHangUp` and `RefusesInDialog` off; a FIFO wire for calls that come in; for placed calls no request of the far end and no copies | finding 2; a copied 401 ends a call whose retry is answered; a BYE overtakes what it ends |
| `OnlyAcceptedIsAnswered` | no copies, `EarlyHangUp` off, no re-INVITE to placed calls | a re-INVITE that comes while ICE checks are running is answered before the client hears of the call |

The rest have none; those of `CallSlotsProofs` none at all. What the exceptions of
their properties name (`crossed`, `mistaken`, failures of an engine) is part of the
property, is reached in the run, and is what the findings show.

### SipCallsProofs

* `TypeCorrect`: `Spec => []TypeOK`. Lemmas say that what each helper makes of a
  dialog is a dialog, what is sent is a request or a message, and then one lemma
  per group of actions. `HandledType` and `FarEndType` are the parts of `TypeOK`
  that a message and the far end can disturb.
* `NoCallInLimbo` and `ConnectedOnce`, both from `Tracking`:
  `Spec => []CallsTracked`. `OneConnect` is not inductive: nothing in a count
  says that a second `OutgoingConnected` cannot come. `OneToken` adds why: the
  offer of a placed call is a token, held by the client (not dialled yet), by the
  task that resolves it, by the dialog (`pending_offer`), by the task that runs
  the ICE checks, or spent in a `CallConnected`; no two of those at once.

### DialogProofs

A dialog never looks at another, so `Moves` says once what a step does to one
call: a command (`Commands`), the end of a task (`Finishes`), a message
(`Reacts`), the far end (`FarEndActs`), or nothing but the failure it shares.
Every later theorem about `SipCalls` is a case split over these, and not over the
handlers again.

* `CallsKeepThePromise`: `Spec => PromiseKept`, step simulation of
  `CallPromise`. `Placed` ties the client's view to the state of the dialog and
  to what is on its way, so that each event finds the view it may follow.
* `EveryRequestHasItsCSeq`, by `Numbered`: requests that wait have different
  CSeqs, none beyond the dialog's, and there is one INVITE at most in front of a
  dialog.
* `EveryAnswerAcked`, by `Acked`: a 200 that was sent and is neither on its way
  nor acknowledged belongs to a dialog that is over.

### SessionProofs

* `RefresherIsTheNamedRole`, by `Roled`: what a dialog, and every message that
  may yet set it, says of the refresher is the role of that end.
* `NobodyIsLeftAlone`, by `NobodyAlone`, which is `Courted` for placed and
  `Hosted` for received calls: the far end is up only if our dialog is, or we are
  still dialling with the request it answers, or the BYE, the refusal or the
  failure that ends it is on its way to it or to us.
* `OnlyAcceptedIsAnswered`, by `AskedFor`: before the client accepts, no dialog
  of the call is `Confirmed` and no task answers.
* `HoldsAreKnown`, by `Told`: a dialog whose last offer was `sendonly` has its
  hold pending or is held. The answers carry no name, but an answer that takes the
  flag of a hold, or finds none, leaves "held" behind, and a resume that overwrites
  the flag has offered `sendrecv`; so answers are mistaken in one direction only.
  Only a re-INVITE of the far end writes `is_held` otherwise (`peerReqs = 0`).

### CallSlotsProofs

* `TypeCorrect`: with `Announced`, that an incoming call rings or waits in its
  queue once.
* `AcceptsAreQuiet` is a step property, from the types alone.
* `FocusIsHeard`, from `InFocus`: until a call crosses another there are two slots
  at most (`LessThanThree`), and engine, sockets and focus go together
  (`AudioInOrder`).
* `NothingShownIsDead`, from `LifeInv`: every call has one place (a slot,
  ringing, accepted, dialled or none), and `Legal` says which states of the stack
  and which queues of events go with the place. A dialled call that another's event
  was taken for has lost its place, and is legal without one.
* `HoldsAreShown`, from `HoldsHeard`: what the events still in the queue will make
  of a slot's `is_held` is what the stack has offered, when it has offered
  `sendonly`.
* `OthersAreOnHold`, from `InOrder`, which adds to `InFocus` that who is not
  focused was asked to hold.
* `RoomForThree`, from `RoomInv`: each of the dial, the ringing call and the
  accepted one that is there lowers the number of slots there may be.
* `ShownAsPromised`: step simulation of `CallPromise` by the screen. It depends on
  names, the dial and the records, not on whose event it was (`Fared`), so it holds
  for the calls in `mistaken` too.
* `EveryCallIsShown`, from `Kept`: a slot bears its call's name, and a dialled call
  without a place is not coming up, but for those in `mistaken`.
* `RecordsAreTrue`, from `Books`: a name is in one place at most, and is recorded
  when it leaves it.

### AccountProofs and PublicationProofs

* `TypeCorrect`: with the budget that keeps the numbers of stacks and Call-IDs in
  range, and `Finite`, without which a fresh Call-ID need not exist.
* `RegisteredTruly`, from `Told`: every 200 on its way was accepted
  (`AcceptedBound`), and a stack that is down has left nobody in the belief that
  it is registered.
* `TextsToldTruly`, from `Texts`: a message waits in the queue once and only
  before it is sent, is told of exactly when it is settled, and every 200 on its
  way was earned.
* `PublicationFollows`, from `Follows`: while nothing went wrong, the
  publication is in one of the five states of `Cycle`, with one request or one
  answer under way or none, and the last command in the queue says what the
  client shows.

### ZrtpProofs

`ZrtpTypes`, `KeysOfAHandshakeAgree`, `NobodyIsSecureAlone`, from
`ZInv == ZTypeOK /\ Agreed`. The two properties compare the engines of now, and
are not inductive: what keeps them is what the messages bind. `Agreed` says it of
every message that is on the wire or may be sent again (`Sent`): one of an
earlier engine has a smaller number and binds nobody; one of the present engine
shows how far that engine has come. `CallerGoesOn`, `CalleeGoesOn` and `MoreSent`
say how `Agreed` survives the progress of one end; each handler is then a lemma
of its own.

### MediaProofs

* `SessionRunsZrtp`: `Spec => ZSpec`: every step of the session is one of the
  handshake or leaves it alone, so `SessionKeysAgree` and
  `SessionNobodySecureAlone` hold for all account settings and any number of
  holds, resumes and merges.
* `TheEndsAgree`, from `Negotiated` (what was described and concluded stays what
  it was made) and `SidesAgree`, which is about functions only: `Chosen` and
  `ChosenAgain` say what `PickCodec` chooses and that the end that offered
  chooses it again; `Parsed` that whatever section a key or role is read from is
  of the same end; `Offered`, `Answered` and `Concluded` what the three functions
  return, for any codec lists and any luck.
* `RestartsAlwaysBind`, `KeysPairUp`, from `EnginesFit`: who owns each key in an
  engine or its queue (`OwnerKnown`), that only a DTLS handshake holds a port or
  stops tasks (`DtlsAlone`), that an engine without a handshake keeps the keys of
  its call (`KeysKept`). `HandshakeBounds` carries the numbers of engines over
  from the handshake.
* `NothingIsGarbled`, from `VoiceFits`: a frame on its way is what its sender's
  call makes of it (`FrameOf`). With `TheEndsAgree`'s `Settled` and `KeysKept`,
  both ends decrypt and decode alike, and expect silence alike unless the engine
  serves the call as its second leg (`EndsUnderstand`).
* `FramesAreNotMixed`, from `StreamFits`: packets of one engine and timestamp
  whose number did not wrap have one difference of number and part, and
  `CameraKnown`: a camera is of the caller's newest engine, whose number no packet
  has yet.
* `MediaTypes` puts the parts together.

## Plan

Done: `SipCalls`, `CallSlots`, `Account`, `Zrtp`, `Negotiation`, `MediaSession`,
`VideoStream`, and proofs of every safety property of theirs but `HoldAgrees`.
Next, properties and proofs that reach further: `NoOrphan` for placed calls with
re-INVITEs of the far end; `AudioFollowsFocus` after a crossing, up to the engine
that was overwritten; publications that overlap; a far end that runs its ICE checks
before it is answered.

Not modelled, and not planned: drawing, tray, hotkeys, ringtones (presentation);
sample processing and codecs (numeric); SQL stores (one user, one transaction at
a time); SIP parsing and formatting beyond what a property needs, SRV selection,
digest; ICE, TURN and the DTLS handshake itself (libraries); the exit of the
program, recording, mute, gain and DTMF, which follow the focused call; the
updater.
