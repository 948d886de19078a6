------------------------------- MODULE Account -------------------------------
(***************************************************************************)
(* Everything one SIP account does that is not a call: it connects, it     *)
(* registers and registers again, it follows the presence of contacts and  *)
(* the state of a mailbox, it publishes its own presence and it sends and  *)
(* receives text messages.                                                 *)
(*                                                                         *)
(* The stack is the task that `SipStack::spawn` starts: while it is up, it *)
(* takes one branch of the `select!` of `run` at a time; when its          *)
(* transport dies, a new stack is made and only the command queue survives.*)
(* The client sits behind two queues; it is taken to empty `event_rx` at   *)
(* once, and what it does about an event waits in `cmds` for the stack.     *)
(* The server answers requests in any order; answers and NOTIFYs are told  *)
(* apart by Call-ID only, never by CSeq: so do the handlers.               *)
(*                                                                         *)
(* Time is abstract: a deadline is whether it may have passed.  Back-off   *)
(* delays, keep-alives, header texts and the addresses are left out.       *)
(***************************************************************************)
EXTENDS Integers, Sequences, FiniteSets, SequencesExt

CONSTANTS
    Contacts,     \* contacts whose presence the account may watch
    Mailbox,      \* account.mailbox
    Messages,     \* text messages the user sends
    SubIds,       \* Call-IDs of SUBSCRIBE dialogs
    MaxBreaks,    \* bound: times the transport dies
    MaxTrouble    \* bound: of everything `spent` counts, for each use

Targets == Contacts \cup {Mailbox}

ASSUME MailboxAssumption == Mailbox \notin Contacts
ASSUME FiniteAssumption == IsFiniteSet(Contacts) /\ IsFiniteSet(SubIds)
ASSUME BoundsAssumption ==
    /\ MaxBreaks \in Nat
    /\ MaxTrouble \in [{"presence", "mwi", "publish", "message"} -> Nat]

VARIABLES
    config,     \* what the account is set up for; fixed
    conn,       \* SipStack::spawn: the stack, or how far the next one is
    broken,     \* the transport is dead; sends and receives fail
    gen,        \* number of this stack: names reg_call_id
    reg,        \* how far register_once is
    regState,   \* of this stack: never, registered, or permanently_failed
    subs,       \* subscriptions and mwi_subscriptions, by Call-ID
    pub,        \* presence_publish
    msg,        \* text message -> how far it is; pending_messages
    cmds,       \* cmd_rx
    view,       \* what the client shows and is set to
    results,    \* text message -> MessageSendResult events, for checking
    reqs,       \* requests on their way to the server
    chan,       \* messages on their way to us
    server,     \* what the server holds
    unheard,    \* texts, and PUBLISH, of which something was lost or overlapped
    spent       \* what has been used of MaxTrouble, by kind

stack  == <<conn, broken, gen, reg, regState, subs, pub>>
client == <<cmds, view>>
wire   == <<reqs, chan>>
vars   == <<config, stack, msg, client, results, wire, server, unheard, spent>>

-----------------------------------------------------------------------------
(* Values *)

Uses == {"presence", "mwi", "publish", "message"}

Candidates == <<"udp", "tcp", "tls">>
Up      == [phase |-> "up", cand |-> 0]
Waiting == [phase |-> "waiting", cand |-> 0]
Trying(n) == [phase |-> "trying", cand |-> n]

NoSub == [target |-> "none"]
Subscription == [target: Targets, authRetried: BOOLEAN, due: BOOLEAN]
NewSubscription(t) == [target |-> t, authRetried |-> FALSE, due |-> TRUE]

(* ETags and Call-IDs are numbers; ETag 0 is none.                          *)
NoPub == [etag |-> 0]
Publish ==
    [call: Nat, etag: Nat, authRetried: BOOLEAN, available: BOOLEAN, due: BOOLEAN]

Presence == {"open", "closed"}

Register(auth)         == [kind |-> "REGISTER", gen |-> gen, auth |-> auth]
Subscribe(i, t, on, a) == [kind |-> "SUBSCRIBE", sub |-> i, target |-> t,
                           on |-> on, auth |-> a]
PublishReq(call, etag, avail, auth) ==
    [kind |-> "PUBLISH", call |-> call, etag |-> etag, available |-> avail, auth |-> auth]
TextMessage(m, auth)   == [kind |-> "MESSAGE", msg |-> m, auth |-> auth]

Request ==
    [kind: {"REGISTER"}, gen: Nat, auth: BOOLEAN]
    \cup [kind: {"SUBSCRIBE"}, sub: SubIds, target: Targets, on: BOOLEAN, auth: BOOLEAN]
    \cup [kind: {"PUBLISH"}, call: Nat, etag: Nat, available: BOOLEAN, auth: BOOLEAN]
    \cup [kind: {"MESSAGE"}, msg: Messages, auth: BOOLEAN]

Status == {100, 200, 401, 403, 412, 500}

(* What an answer has of its request is what its Call-ID and method tell.  *)
Incoming ==
    [type: {"REGISTER", "PUBLISH"}, id: Nat, status: Status, etag: Nat]
    \cup [type: {"SUBSCRIBE"}, id: SubIds, status: Status, etag: {0}]
    \cup [type: {"MESSAGE"}, id: Messages, status: Status, etag: {0}]
    \cup [type: {"NOTIFY"}, id: SubIds, state: Presence, terminated: BOOLEAN]
    \cup [type: {"text"}]

CallIdOf(r) == CASE r.kind = "SUBSCRIBE" -> r.sub
                 [] r.kind = "MESSAGE" -> r.msg
                 [] r.kind = "PUBLISH" -> r.call
                 [] r.kind = "REGISTER" -> r.gen
Answer(r, status, etag) ==
    [type |-> r.kind, id |-> CallIdOf(r), status |-> status, etag |-> etag]
Notify(i, state, terminated) ==
    [type |-> "NOTIFY", id |-> i, state |-> state, terminated |-> terminated]
Text == [type |-> "text"]

Command ==
    [cmd: {"SubscribePresence", "SubscribeMwi", "UnsubscribePresence"}, target: Targets]
    \cup [cmd: {"PublishPresence"}, available: BOOLEAN]
    \cup [cmd: {"SendMessage"}, msg: Messages]

Configs ==
    [local: BOOLEAN, auto: BOOLEAN, uses: Uses, dnd: BOOLEAN, challenged: BOOLEAN]

TypeOK ==
    /\ config \in Configs
    /\ conn \in {Up, Waiting} \cup {Trying(n): n \in 1..Len(Candidates)}
    /\ broken \in BOOLEAN
    /\ gen \in 1..MaxBreaks + 1
    /\ reg \in {"idle", "first", "second"}
    /\ regState \in {"never", "registered", "failed", "permanent"}
    /\ subs \in [SubIds -> Subscription \cup {NoSub}]
    /\ pub \in Publish \cup {NoPub}
    /\ msg \in [Messages -> {"idle", "queued", "pending", "retried", "ok",
                             "failed", "forgotten"}]
    /\ cmds \in Seq(Command)
    /\ view \in [regOk: BOOLEAN, dnd: BOOLEAN, watch: SUBSET Contacts,
                 presence: [Targets -> Presence \cup {"unknown", "none"}]]
    /\ results \in [Messages -> 0..2]
    /\ reqs \subseteq Request
    /\ chan \subseteq Incoming
    /\ server \in [bound: SUBSET (1..MaxBreaks + 1), active: SUBSET SubIds,
                   published: SUBSET [etag: Nat, available: BOOLEAN],
                   delivered: SUBSET Messages, actual: [Targets -> Presence]]
    /\ unheard \subseteq Messages \cup {"PUBLISH"}
    /\ spent \in [{"regs", "asks", "refusals", "faults", "breaks"}
                 -> 0..MaxTrouble[config.uses]]

(* An account that has just been spawned: its first connection succeeded,  *)
(* and run starts with Registered at once if it has no registrar.          *)
InitConfigs ==
    {c \in Configs:
        /\ c.local => ~c.auto /\ c.uses # "publish"
        /\ c.dnd => c.uses = "publish"
        /\ c.auto => c.uses = "message"
        /\ c.local => ~c.challenged}

SubscribeCommand(t) ==
    [cmd |-> IF t = Mailbox THEN "SubscribeMwi" ELSE "SubscribePresence", target |-> t]

(* subscribe_account_contacts, subscribe_account_mwi                        *)
Followable(watch) == watch \cup IF config.uses = "mwi" THEN {Mailbox} ELSE {}
SubscribeAll(watch) ==
    LET ts == SetToSeq(Followable(watch)) IN [n \in DOMAIN ts |-> SubscribeCommand(ts[n])]

Init ==
    /\ config \in InitConfigs
    /\ conn = Up
    /\ broken = FALSE
    /\ gen = 1
    /\ reg = "idle"
    /\ regState = "never"
    /\ subs = [i \in SubIds |-> NoSub]
    /\ pub = NoPub
    /\ msg = [m \in Messages |-> "idle"]
    /\ \E watch \in SUBSET (IF config.uses = "presence" THEN Contacts ELSE {}):
          view = [regOk |-> config.local, dnd |-> config.dnd, watch |-> watch,
                  presence |-> [t \in Targets |-> "none"]]
    /\ cmds = IF config.local THEN SubscribeAll(view.watch) ELSE <<>>
    /\ results = [m \in Messages |-> 0]
    /\ reqs = {}
    /\ chan = {}
    /\ server = [bound |-> {}, active |-> {}, published |-> {}, delivered |-> {},
                 actual |-> [t \in Targets |-> "closed"]]
    /\ unheard = {}
    /\ spent = [regs |-> 0, asks |-> 0, refusals |-> 0, faults |-> 0, breaks |-> 0]

-----------------------------------------------------------------------------
(* Everything a run has a bounded number of: re-registrations, changes the  *)
(* user or a watched target makes, refusals, faults of the wire, dead       *)
(* transports.                                                              *)
Left == spent.regs + spent.asks + spent.refusals + spent.faults + spent.breaks
        < MaxTrouble[config.uses]
Spend(kind) == Left /\ spent' = [spent EXCEPT ![kind] = @ + 1]

(* The transport.  send_to fails on a dead transport, and on the 0.0.0.0:0 *)
(* a local account has for a server.                                        *)

Running == conn = Up
Listening == Running /\ reg = "idle"
CanSend == ~broken /\ ~config.local

(* handle_sip_event: every Registered event subscribes everything again.    *)
HearRegistered ==
    /\ view' = [view EXCEPT !.regOk = TRUE]
    /\ cmds' = cmds \o SubscribeAll(view.watch)
HearRegistrationFailed ==
    /\ view' = [view EXCEPT !.regOk = FALSE]
    /\ UNCHANGED cmds
Show(t, p) == view' = [view EXCEPT !.presence[t] = p]
HearSubscribeFailed(t) == IF t = Mailbox THEN UNCHANGED view ELSE Show(t, "unknown")

(* A message is received; the wire may deliver it once more.                *)
Take(m) ==
    /\ m \in chan
    /\ \/ chan' = chan \ {m} /\ spent' = spent
       \/ chan' = chan /\ Spend("faults")

(* The wire loses a request or a message, or delays it for good.            *)
Unheard(kind, id) ==
    unheard' = unheard \cup CASE kind = "MESSAGE" -> {id}
                              [] kind = "PUBLISH" -> {kind}
                              [] OTHER -> {}

LoseRequest ==
    /\ Spend("faults")
    /\ \E r \in reqs: reqs' = reqs \ {r} /\ Unheard(r.kind, CallIdOf(r))
    /\ UNCHANGED <<config, stack, msg, client, results, chan, server>>

Break ==
    /\ Running /\ ~broken
    /\ spent.breaks < MaxBreaks /\ Spend("breaks")
    /\ broken' = TRUE
    /\ UNCHANGED <<config, conn, gen, reg, regState, subs, pub, msg, client,
                   results, wire, server, unheard>>

(* run receives the error of a dead transport: the stack is gone, and with *)
(* it everything in it but the queue of commands.                           *)
StackDies ==
    /\ Listening /\ broken
    /\ conn' = Waiting
    /\ regState' = "never"
    /\ subs' = [i \in SubIds |-> NoSub]
    /\ pub' = NoPub
    /\ msg' = [m \in Messages |->
                  IF msg[m] \in {"pending", "retried"} THEN "forgotten" ELSE msg[m]]
    /\ HearRegistrationFailed
    /\ UNCHANGED <<config, broken, gen, reg, results, wire, server, unheard, spent>>

(* spawn has slept and makes the next stack.                                *)
WakeUp ==
    /\ conn = Waiting
    /\ conn' = Trying(1)
    /\ UNCHANGED <<config, broken, gen, reg, regState, subs, pub, msg, client,
                   results, wire, server, unheard, spent>>

(* Mutant: looks for a candidate after the last.                            *)
CandidateAfterLast ==
    /\ conn.phase = "trying"
    /\ conn' = IF config.auto /\ conn.cand <= Len(Candidates)
                 THEN Trying(conn.cand + 1) ELSE Waiting
    /\ UNCHANGED <<config, broken, gen, reg, regState, subs, pub, msg, client, results,
                   wire, server, unheard, spent>>

(* connect_transport_concrete fails, or the probe REGISTER of               *)
(* connect_transport_auto is not answered in time: Auto goes on to the next *)
(* candidate; without one, spawn sleeps again.                              *)
CandidateFails ==
    /\ conn.phase = "trying"
    /\ conn' = IF config.auto /\ conn.cand < Len(Candidates)
                 THEN Trying(conn.cand + 1) ELSE Waiting
    /\ UNCHANGED <<config, broken, gen, reg, regState, subs, pub, msg, client,
                   results, wire, server, unheard, spent>>

(* The transport is there, and for Auto any answer to the probe has come:   *)
(* SipStack::new makes an empty stack with a Call-ID of its own.            *)
Reconnect ==
    /\ conn.phase = "trying"
    /\ conn' = Up
    /\ broken' = FALSE
    /\ gen' = gen + 1
    /\ IF config.local THEN HearRegistered ELSE UNCHANGED client
    /\ UNCHANGED <<config, reg, regState, subs, pub, msg, results, wire,
                   server, unheard, spent>>

-----------------------------------------------------------------------------
(* Publication of the account's own presence *)

(* publish_own_presence: nothing changes if the request cannot be sent.     *)
(* The first has a Call-ID nobody has heard of.                             *)
PublishesUnderway ==
    {r.call: r \in {r \in reqs: r.kind = "PUBLISH"}}
    \cup {m.id: m \in {m \in chan: m.type = "PUBLISH"}}
FreshCall == CHOOSE n \in 1..Cardinality(PublishesUnderway) + 1: n \notin PublishesUnderway

(* Mutant: without the ETag of the last publication.                        *)
PublishAnew(available) ==
    IF CanSend
      THEN /\ reqs' = reqs \cup {PublishReq(FreshCall, 0, available, FALSE)}
           /\ pub' = [call |-> FreshCall, etag |-> 0, authRetried |-> FALSE,
                      available |-> available, due |-> FALSE]
           /\ UNCHANGED unheard
      ELSE UNCHANGED <<reqs, pub, unheard>>

PublishOwnPresence(available) ==
    LET call == IF pub = NoPub THEN FreshCall ELSE pub.call
        etag == IF pub = NoPub THEN 0 ELSE pub.etag IN
    IF CanSend
      THEN /\ reqs' = reqs \cup {PublishReq(call, etag, available, FALSE)}
           /\ pub' = [call |-> call, etag |-> etag, authRetried |-> FALSE,
                      available |-> available, due |-> FALSE]
           /\ unheard' = IF PublishesUnderway = {} THEN unheard
                                                   ELSE unheard \cup {"PUBLISH"}
      ELSE UNCHANGED <<reqs, pub, unheard>>

(* An answer to a PUBLISH, whichever: a challenge is answered once with the *)
(* presence of now; a provisional answer drops the publication like a       *)
(* refusal does.                                                            *)
OnPublishResponse(m) ==
    /\ Listening /\ m.type = "PUBLISH"
    /\ Take(m)
    /\ CASE pub = NoPub -> UNCHANGED <<pub, reqs>>
         [] pub # NoPub /\ m.id # pub.call -> UNCHANGED <<pub, reqs>>
         [] pub # NoPub /\ m.id = pub.call /\ m.status = 200 ->
              /\ pub' = [pub EXCEPT !.etag = m.etag, !.authRetried = FALSE]
              /\ UNCHANGED reqs
         [] pub # NoPub /\ m.id = pub.call /\ m.status = 401 /\ ~pub.authRetried ->
              /\ pub' = [pub EXCEPT !.authRetried = TRUE]
              /\ reqs' = IF CanSend
                           THEN reqs \cup {PublishReq(pub.call, pub.etag, pub.available, TRUE)}
                           ELSE reqs
         [] OTHER -> pub' = NoPub /\ UNCHANGED reqs
    /\ UNCHANGED <<config, conn, broken, gen, reg, regState, subs, msg, client,
                   results, server, unheard>>

(* Nine tenths of an hour, or of what the server granted, are over; nothing *)
(* of the last PUBLISH is under way any more.                                *)
PublishExpires ==
    /\ Running /\ pub # NoPub /\ ~pub.due
    /\ PublishesUnderway = {}
    /\ pub' = [pub EXCEPT !.due = TRUE]
    /\ UNCHANGED <<config, conn, broken, gen, reg, regState, subs, msg, client,
                   results, wire, server, unheard, spent>>

-----------------------------------------------------------------------------
(* Registration *)

(* register_once runs inside the loop: from "first" or "second" until it is *)
(* "idle" again, nothing else of the stack runs.                            *)
RegistrationEnds(state) ==
    /\ reg' = "idle"
    /\ regState' = state
    /\ IF state = "registered" THEN HearRegistered ELSE HearRegistrationFailed

SendRegister(auth, stage) ==
    IF CanSend
      THEN /\ reqs' = reqs \cup {Register(auth)}
           /\ reg' = stage
           /\ UNCHANGED <<regState, client>>
      ELSE /\ RegistrationEnds("failed")
           /\ UNCHANGED reqs

(* Mutant: a registration that failed is not tried again.                   *)
RegisterDueOnce ==
    /\ Listening
    /\ ~config.local /\ regState = "never"
    /\ spent' = spent
    /\ SendRegister(FALSE, "first")
    /\ UNCHANGED <<config, conn, broken, gen, subs, pub, msg, results, chan, server, unheard>>

RegisterDue ==
    /\ Listening
    /\ ~config.local /\ regState # "permanent"
    /\ \/ regState # "registered" /\ spent' = spent
       \/ regState = "registered" /\ Spend("regs")
    /\ SendRegister(FALSE, "first")
    /\ UNCHANGED <<config, conn, broken, gen, subs, pub, msg, results,
                   chan, server, unheard>>

(* Mutant: whatever Call-ID the answer has.                                 *)
AnyAnswer(m) == m.type = "REGISTER" /\ m.status >= 200

OwnAnswer(m) == m.type = "REGISTER" /\ m.id = gen /\ m.status >= 200

(* recv_reg_response takes the first final answer with its Call-ID, to      *)
(* whichever of its REGISTERs.  The first publication follows a success.    *)
RegisterAnswered(m) ==
    /\ Running /\ reg # "idle" /\ OwnAnswer(m)
    /\ Take(m)
    /\ CASE m.status = 200 ->
              /\ RegistrationEnds("registered")
              /\ IF config.uses = "publish" /\ pub = NoPub
                   THEN PublishOwnPresence(~config.dnd)
                   ELSE UNCHANGED <<reqs, pub, unheard>>
         [] m.status = 401 /\ reg = "first" ->
              SendRegister(TRUE, "second") /\ UNCHANGED <<pub, unheard>>
         [] m.status = 403 ->
              /\ RegistrationEnds("permanent")
              /\ UNCHANGED <<reqs, pub, unheard>>
         [] OTHER ->
              /\ RegistrationEnds("failed")
              /\ UNCHANGED <<reqs, pub, unheard>>
    /\ UNCHANGED <<config, conn, broken, gen, subs, msg, results, server>>

(* Whatever else arrives meanwhile is dropped and never answered.           *)
RegisterDiscards(m) ==
    /\ Running /\ reg # "idle" /\ ~OwnAnswer(m)
    /\ m \in chan
    /\ chan' = chan \ {m}
    /\ Unheard(m.type, IF m.type = "text" THEN 0 ELSE m.id)
    /\ UNCHANGED <<config, stack, msg, client, results, reqs, server, spent>>

(* No answer in time, or the transport fails meanwhile, which run does not  *)
(* take for the end of the stack.  An answer that is only late is a fault.  *)
RegisterTimesOut ==
    /\ Running /\ reg # "idle"
    /\ \/ broken /\ spent' = spent
       \/ /\ {Register(auth): auth \in BOOLEAN} \cap reqs = {}
          /\ \A m \in chan: ~OwnAnswer(m)
          /\ spent' = spent
       \/ Spend("faults")
    /\ RegistrationEnds("failed")
    /\ UNCHANGED <<config, conn, broken, gen, subs, pub, msg, results,
                   wire, server, unheard>>

-----------------------------------------------------------------------------
(* Subscriptions.  Presence and message-summary have handlers and maps of   *)
(* their own, that differ in the events only.                               *)

(* new_call_id: a Call-ID nobody has heard of, or whose dialog is long over. *)
Known(i) ==
    \/ subs[i] # NoSub \/ i \in server.active
    \/ \E r \in reqs: r.kind = "SUBSCRIBE" /\ r.sub = i
    \/ \E m \in chan: m.type \in {"SUBSCRIBE", "NOTIFY"} /\ m.id = i
FreshIds == {i \in SubIds: ~Known(i)}

(* subscribe_presence, subscribe_mwi.                                       *)
SubscribeTo(t) ==
    /\ FreshIds # {}
    /\ LET i == CHOOSE i \in FreshIds: TRUE IN
       IF CanSend
         THEN /\ subs' = [subs EXCEPT ![i] = NewSubscription(t)]
              /\ reqs' = reqs \cup {Subscribe(i, t, TRUE, FALSE)}
              /\ UNCHANGED view
         ELSE /\ HearSubscribeFailed(t)
              /\ UNCHANGED <<subs, reqs>>

(* unsubscribe_presence: every subscription of the target goes at once, and *)
(* a challenge to its SUBSCRIBE will find nothing.                          *)
UnsubscribeFrom(t) ==
    LET gone == {i \in SubIds: subs[i].target = t} IN
    /\ subs' = [i \in SubIds |-> IF i \in gone THEN NoSub ELSE subs[i]]
    /\ reqs' = IF CanSend THEN reqs \cup {Subscribe(i, t, FALSE, FALSE): i \in gone}
                          ELSE reqs
    /\ UNCHANGED view

SubscriptionFails(i) ==
    /\ subs' = [subs EXCEPT ![i] = NoSub]
    /\ HearSubscribeFailed(subs[i].target)

(* on_presence_subscribe_response, on_mwi_subscribe_response, behind the    *)
(* test of on_response that the Call-ID is of a subscription.  A challenge  *)
(* is answered once; a refusal ends the subscription.                       *)
OnSubscribeResponse(m) ==
    /\ Listening /\ m.type = "SUBSCRIBE"
    /\ Take(m)
    /\ LET i == m.id
           s == subs[i] IN
       CASE s = NoSub \/ m.status = 100 -> UNCHANGED <<subs, reqs, view>>
         [] s # NoSub /\ m.status = 200 ->
              /\ subs' = [subs EXCEPT ![i].due = FALSE, ![i].authRetried = FALSE]
              /\ UNCHANGED <<reqs, view>>
         [] s # NoSub /\ m.status = 401 /\ ~s.authRetried ->
              /\ subs' = [subs EXCEPT ![i].authRetried = TRUE]
              /\ reqs' = IF CanSend THEN reqs \cup {Subscribe(i, s.target, TRUE, TRUE)}
                                    ELSE reqs
              /\ UNCHANGED view
         [] OTHER -> SubscriptionFails(i) /\ UNCHANGED reqs
    /\ UNCHANGED <<config, conn, broken, gen, reg, regState, pub, msg, cmds,
                   results, server, unheard>>

(* on_notify: the state of a known subscription is passed on; one that the  *)
(* server terminates is dropped, and nobody is told.  Every NOTIFY is       *)
(* answered 200, one of an unknown Call-ID too.                             *)
OnNotify(m) ==
    /\ Listening /\ m.type = "NOTIFY"
    /\ Take(m)
    /\ LET i == m.id
           t == subs[i].target IN
       IF subs[i] = NoSub
         THEN UNCHANGED <<subs, view>>
         ELSE /\ Show(t, m.state)
              /\ subs' = IF m.terminated THEN [subs EXCEPT ![i] = NoSub] ELSE subs
    /\ UNCHANGED <<config, conn, broken, gen, reg, regState, pub, msg, cmds,
                   results, reqs, server, unheard>>

(* Nine tenths of what the server granted are over: more than a round trip. *)
SubscriptionExpires(i) ==
    /\ Running
    /\ subs[i] # NoSub /\ ~subs[i].due
    /\ \A r \in reqs: r.kind = "SUBSCRIBE" => r.sub # i
    /\ subs' = [subs EXCEPT ![i].due = TRUE]
    /\ UNCHANGED <<config, conn, broken, gen, reg, regState, pub, msg, client,
                   results, wire, server, unheard, spent>>

(* Mutant: leaves subscriptions alone that have answered a challenge.       *)
TickUnchallenged ==
    LET due == {i \in SubIds: subs[i] # NoSub /\ subs[i].due /\ ~subs[i].authRetried} IN
    /\ Listening
    /\ due # {}
    /\ reqs' = IF CanSend
                 THEN reqs \cup {Subscribe(i, subs[i].target, TRUE, FALSE): i \in due}
                 ELSE reqs
    /\ UNCHANGED <<config, conn, broken, gen, reg, regState, subs, pub, msg, client,
                   results, chan, server, unheard, spent>>

(* presence_tick: every subscription past due is sent again, and stays past *)
(* due until a 200 comes; so does the publication.  Session timers are in   *)
(* SipCalls.                                                                *)
Tick ==
    LET due == {i \in SubIds: subs[i] # NoSub /\ subs[i].due}
        publishes == pub # NoPub /\ pub.due
        refreshes == {Subscribe(i, subs[i].target, TRUE, FALSE): i \in due}
                     \cup IF publishes THEN {PublishReq(pub.call, pub.etag, pub.available, FALSE)}
                                       ELSE {} IN
    /\ Listening
    /\ due # {} \/ publishes
    /\ subs' = [i \in SubIds |->
                  IF i \in due THEN [subs[i] EXCEPT !.authRetried = FALSE] ELSE subs[i]]
    /\ reqs' = IF CanSend THEN reqs \cup refreshes ELSE reqs
    /\ pub' = IF publishes /\ CanSend
                THEN [pub EXCEPT !.authRetried = FALSE, !.due = FALSE] ELSE pub
    /\ UNCHANGED <<config, conn, broken, gen, reg, regState, msg, client,
                   results, chan, server, unheard, spent>>

-----------------------------------------------------------------------------
(* Text messages *)

(* Mutant: the entry of pending_messages stays.                             *)
SettleAndKeep(m, ok) ==
    /\ UNCHANGED msg
    /\ results' = [results EXCEPT ![m] = IF @ = 2 THEN 2 ELSE @ + 1]

Settle(m, ok) ==
    /\ msg' = [msg EXCEPT ![m] = IF ok THEN "ok" ELSE "failed"]
    /\ results' = [results EXCEPT ![m] = IF @ = 2 THEN 2 ELSE @ + 1]

(* Mutant: a message that cannot be sent is dropped.                        *)
SendMessageOrDrop(m) ==
    IF CanSend
      THEN /\ msg' = [msg EXCEPT ![m] = "pending"]
           /\ reqs' = reqs \cup {TextMessage(m, FALSE)}
           /\ UNCHANGED results
      ELSE UNCHANGED <<msg, results, reqs>>

(* send_message *)
SendMessage(m) ==
    IF CanSend
      THEN /\ msg' = [msg EXCEPT ![m] = "pending"]
           /\ reqs' = reqs \cup {TextMessage(m, FALSE)}
           /\ UNCHANGED results
      ELSE Settle(m, FALSE) /\ UNCHANGED reqs

(* on_message_response: what is not in pending_messages is ignored.         *)
OnMessageResponse(m) ==
    /\ Listening /\ m.type = "MESSAGE"
    /\ Take(m)
    /\ LET id == m.id IN
       CASE msg[id] \notin {"pending", "retried"} \/ m.status = 100 ->
              UNCHANGED <<msg, results, reqs>>
         [] msg[id] \in {"pending", "retried"} /\ m.status = 200 ->
              Settle(id, TRUE) /\ UNCHANGED reqs
         [] msg[id] = "pending" /\ m.status = 401 ->
              /\ msg' = [msg EXCEPT ![id] = "retried"]
              /\ reqs' = IF CanSend THEN reqs \cup {TextMessage(id, TRUE)} ELSE reqs
              /\ unheard' = IF CanSend THEN unheard ELSE unheard \cup {id}
              /\ UNCHANGED results
         [] OTHER -> Settle(id, FALSE) /\ UNCHANGED reqs
    /\ (m.status # 401 \/ msg[m.id] # "pending") => UNCHANGED unheard
    /\ UNCHANGED <<config, conn, broken, gen, reg, regState, subs, pub, client, server>>

(* on_message: answered and shown, a copy too.                              *)
OnMessage ==
    /\ Listening
    /\ Take(Text)
    /\ UNCHANGED <<config, stack, msg, cmds, view, results, reqs, server, unheard>>

(* An answer to a REGISTER that run itself receives is ignored.             *)
OnLateRegister(m) ==
    /\ Listening /\ m.type = "REGISTER"
    /\ Take(m)
    /\ UNCHANGED <<config, stack, msg, client, results, reqs, server, unheard>>

(* dispatch *)
Receive ==
    \/ \E m \in chan: \/ OnPublishResponse(m) \/ OnSubscribeResponse(m)
                      \/ OnMessageResponse(m) \/ OnNotify(m) \/ OnLateRegister(m)
    \/ OnMessage

-----------------------------------------------------------------------------
(* handle_command *)

HandleCommand ==
    /\ Listening
    /\ cmds # <<>>
    /\ cmds' = Tail(cmds)
    /\ LET c == Head(cmds) IN
       \/ /\ c.cmd \in {"SubscribePresence", "SubscribeMwi"}
          /\ SubscribeTo(c.target)
          /\ UNCHANGED <<pub, msg, results, unheard>>
       \/ /\ c.cmd = "UnsubscribePresence"
          /\ UnsubscribeFrom(c.target)
          /\ UNCHANGED <<pub, msg, results, unheard>>
       \/ /\ c.cmd = "PublishPresence"
          /\ PublishOwnPresence(c.available)
          /\ UNCHANGED <<subs, msg, results, view>>
       \/ /\ c.cmd = "SendMessage"
          /\ SendMessage(c.msg)
          /\ UNCHANGED <<subs, pub, unheard, view>>
    /\ UNCHANGED <<config, conn, broken, gen, reg, regState, chan, server, spent>>

-----------------------------------------------------------------------------
(* The client *)

AccountTargets == Followable(view.watch)

(* The contact dialog: a contact is no longer watched, or is again.         *)
UnsubscribeContactPresence ==
    /\ Spend("asks")
    /\ \E c \in view.watch:
        /\ view' = [view EXCEPT !.watch = @ \ {c}, !.presence[c] = "none"]
        /\ cmds' = Append(cmds, [cmd |-> "UnsubscribePresence", target |-> c])
    /\ UNCHANGED <<config, stack, msg, results, wire, server, unheard>>

SubscribeContactPresence ==
    /\ Spend("asks") /\ config.uses = "presence"
    /\ \E c \in Contacts \ view.watch:
        /\ view' = [view EXCEPT !.watch = @ \cup {c}]
        /\ cmds' = Append(cmds, SubscribeCommand(c))
    /\ UNCHANGED <<config, stack, msg, results, wire, server, unheard>>

(* toggle_dnd                                                               *)
ToggleDnd ==
    /\ config.uses = "publish" /\ Spend("asks")
    /\ view' = [view EXCEPT !.dnd = ~@]
    /\ cmds' = Append(cmds, [cmd |-> "PublishPresence", available |-> view.dnd])
    /\ UNCHANGED <<config, stack, msg, results, wire, server, unheard>>

(* do_send_message                                                          *)
DoSendMessage ==
    /\ config.uses = "message"
    /\ \E m \in Messages:
        /\ msg[m] = "idle"
        /\ msg' = [msg EXCEPT ![m] = "queued"]
        /\ cmds' = Append(cmds, [cmd |-> "SendMessage", msg |-> m])
    /\ UNCHANGED <<config, stack, view, results, wire, server, unheard, spent>>

-----------------------------------------------------------------------------
(* The server.  It challenges what carries no credentials, if it is one     *)
(* that does, and may refuse some requests.                                *)

Replies(r, answers) == reqs' = reqs \ {r} /\ chan' = chan \cup answers

Challenges(r) ==
    /\ config.challenged /\ ~r.auth
    /\ Replies(r, {Answer(r, 401, 0)})
    /\ UNCHANGED <<server, spent>>

Refuses(r) ==
    /\ Spend("refusals")
    /\ \E status \in {401, 403, 500}: Replies(r, {Answer(r, status, 0)})
    /\ server' = IF r.kind = "SUBSCRIBE" THEN [server EXCEPT !.active = @ \ {r.sub}]
                                         ELSE server

(* A provisional answer, before the final one.                              *)
Trying100(r) ==
    /\ Spend("refusals")
    /\ chan' = chan \cup {Answer(r, 100, 0)}
    /\ UNCHANGED <<reqs, server>>

AcceptsRegister(r) ==
    /\ r.kind = "REGISTER"
    /\ Replies(r, {Answer(r, 200, 0)})
    /\ server' = [server EXCEPT !.bound = @ \cup {r.gen}]
    /\ UNCHANGED spent

AcceptsSubscribe(r) ==
    /\ r.kind = "SUBSCRIBE"
    /\ Replies(r, {Answer(r, 200, 0), Notify(r.sub, server.actual[r.target], ~r.on)})
    /\ server' = [server EXCEPT !.active = IF r.on THEN @ \cup {r.sub} ELSE @ \ {r.sub}]
    /\ UNCHANGED spent

(* SIP-ETag: one nobody has heard of.                                       *)
TagsInUse ==
    {p.etag: p \in server.published \cup {pub}}
    \cup {r.etag: r \in {r \in reqs: r.kind = "PUBLISH"}}
    \cup {m.etag: m \in {m \in chan: m.type = "PUBLISH"}}
FreshTag == CHOOSE n \in 1..Cardinality(TagsInUse) + 1: n \notin TagsInUse

(* RFC 3903: a PUBLISH with If-Match replaces that publication, one without *)
(* makes another; an If-Match the server does not hold is 412.              *)
AcceptsPublish(r) ==
    LET old == {p \in server.published: p.etag = r.etag}
        new == [etag |-> FreshTag, available |-> r.available] IN
    /\ r.kind = "PUBLISH"
    /\ IF r.etag # 0 /\ old = {}
         THEN Replies(r, {Answer(r, 412, 0)}) /\ UNCHANGED server
         ELSE /\ Replies(r, {Answer(r, 200, new.etag)})
              /\ server' = [server EXCEPT !.published = (@ \ old) \cup {new}]
    /\ spent' = spent

AcceptsMessage(r) ==
    /\ r.kind = "MESSAGE"
    /\ Replies(r, {Answer(r, 200, 0)})
    /\ server' = [server EXCEPT !.delivered = @ \cup {r.msg}]
    /\ UNCHANGED spent

Accepts(r) ==
    /\ r.auth \/ ~config.challenged
    /\ AcceptsRegister(r) \/ AcceptsSubscribe(r) \/ AcceptsPublish(r) \/ AcceptsMessage(r)

Serve(r) ==
    /\ r \in reqs
    /\ Challenges(r) \/ Refuses(r) \/ Trying100(r) \/ Accepts(r)
    /\ UNCHANGED <<config, stack, msg, client, results, unheard>>

(* What a target is changes, and its watchers are notified.                 *)
TargetChanges ==
    /\ Spend("asks")
    /\ \E t \in AccountTargets, p \in Presence:
        /\ server.actual[t] # p
        /\ server' = [server EXCEPT !.actual[t] = p]
        /\ chan' = chan \cup {Notify(i, p, FALSE): i \in
                                {i \in server.active: subs[i].target = t}}
    /\ UNCHANGED <<config, stack, msg, client, results, reqs, unheard>>

ServerTerminates ==
    /\ Spend("refusals")
    /\ \E i \in server.active:
        /\ subs[i] # NoSub
        /\ server' = [server EXCEPT !.active = @ \ {i}]
        /\ chan' = chan \cup {Notify(i, server.actual[subs[i].target], TRUE)}
    /\ UNCHANGED <<config, stack, msg, client, results, reqs, unheard>>

(* A subscription nobody refreshes any more runs out.                       *)
ServerForgets ==
    /\ \E i \in server.active:
        /\ subs[i] = NoSub
        /\ server' = [server EXCEPT !.active = @ \ {i}]
    /\ UNCHANGED <<config, stack, msg, client, results, wire, unheard, spent>>

PeerSendsText ==
    /\ config.uses = "message" /\ ~config.local
    /\ Spend("asks")
    /\ chan' = chan \cup {Text}
    /\ UNCHANGED <<config, stack, msg, client, results, reqs, server, unheard>>

-----------------------------------------------------------------------------

RegisterStep ==
    \/ RegisterDue \/ RegisterTimesOut
    \/ \E m \in chan: RegisterAnswered(m) \/ RegisterDiscards(m)
StackStep == Tick \/ HandleCommand \/ Receive \/ StackDies
ConnectStep == WakeUp \/ CandidateFails \/ Reconnect
TimeStep == PublishExpires \/ \E i \in SubIds: SubscriptionExpires(i)
UserStep ==
    \/ UnsubscribeContactPresence \/ SubscribeContactPresence
    \/ ToggleDnd \/ DoSendMessage
ServerStep ==
    \/ \E r \in reqs: Serve(r)
    \/ TargetChanges \/ ServerTerminates \/ ServerForgets \/ PeerSendsText

Next ==
    \/ RegisterStep \/ StackStep \/ ConnectStep \/ TimeStep
    \/ UserStep \/ ServerStep \/ LoseRequest \/ Break

(* The loop serves every branch that stays ready, the wire delivers what it *)
(* holds, the server answers, and a transport can be had sooner or later.   *)
ReceiveFor(type, i) ==
    \E m \in chan: /\ m.type = type /\ m.id = i
                   /\ OnSubscribeResponse(m) \/ OnNotify(m)
ServeSub(i, auth) ==
    \E r \in reqs: r.kind = "SUBSCRIBE" /\ r.sub = i /\ r.auth = auth /\ Serve(r)
ServeOther == \E r \in reqs: r.kind # "SUBSCRIBE" /\ Serve(r)
ReceiveOther ==
    \/ \E m \in chan: OnPublishResponse(m) \/ OnMessageResponse(m) \/ OnLateRegister(m)
    \/ OnMessage

Fairness ==
    /\ WF_vars(RegisterStep)
    /\ WF_vars(Tick)
    /\ WF_vars(HandleCommand)
    /\ WF_vars(StackDies)
    /\ WF_vars(ReceiveOther)
    /\ WF_vars(ServeOther)
    /\ \A type \in {"SUBSCRIBE", "NOTIFY"}, i \in SubIds: WF_vars(ReceiveFor(type, i))
    /\ \A i \in SubIds: WF_vars(SubscriptionExpires(i))
    /\ \A i \in SubIds, auth \in BOOLEAN: WF_vars(ServeSub(i, auth))
    /\ WF_vars(WakeUp)
    /\ SF_vars(Reconnect)

Spec == Init /\ [][Next]_vars /\ Fairness

-----------------------------------------------------------------------------
(* Properties *)

(* A stack that takes itself for registered, and a client that shows the    *)
(* account as registered, are right: a REGISTER of this very stack was      *)
(* accepted, not one of the stack before, and no answer to anything else    *)
(* was taken for it (register_once, recv_reg_response).                     *)
ToldRegistered ==
    regState = "registered" \/ (view.regOk /\ ~config.local) => gen \in server.bound

(* The client is told of a text message at most once, and that it was sent  *)
(* only if the server has it: challenges, copies and late answers notwith-  *)
(* standing (message_method.rs).                                            *)
MessageToldTruly ==
    \A m \in Messages:
        /\ results[m] <= 1
        /\ msg[m] = "ok" => m \in server.delivered

(* When all is quiet on the first stack, and neither the server refused     *)
(* nor the wire lost, copied or mixed up publications, the server holds one *)
(* publication, the stack knows its ETag, and it says what the client shows *)
(* (toggle_dnd, publish_own_presence, on_publish_response).                 *)
PublishedFollowsDnd ==
    (/\ gen = 1 /\ pub # NoPub /\ cmds = <<>> /\ PublishesUnderway = {}
     /\ spent.refusals = 0 /\ spent.faults = 0 /\ "PUBLISH" \notin unheard /\ ~broken)
        => server.published = {[etag |-> pub.etag, available |-> ~view.dnd]}

(* Whatever is lost, late or copied, and whichever stack it takes: what the *)
(* client shows of a contact it follows becomes and stays what the contact  *)
(* is; and unless the client was told of a failure, or the server ended the *)
(* subscription, it does follow what the user watches.                      *)
Followed(t) ==
    \/ \E i \in SubIds: subs[i].target = t
    \/ /\ t \in view.watch /\ view.regOk
       /\ view.presence[t] # "unknown" /\ spent.refusals = 0 /\ ~config.local
PresenceCatchesUp ==
    \A t \in Targets: <>[](Followed(t) => view.presence[t] = server.actual[t])

(* An account that is not registered becomes so, over every timeout,        *)
(* refusal and dead transport, unless the registrar refuses it for good.    *)
RegistersAgain == ~view.regOk ~> view.regOk \/ regState = "permanent"

(* A text message the user sent is settled: its command outlives the stack, *)
(* and its sender hears of it unless the stack died with it or the wire or  *)
(* a registration in progress swallowed the answer.                         *)
MessageSettles ==
    \A m \in Messages:
        msg[m] = "queued" ~> msg[m] \in {"ok", "failed", "forgotten"} \/ m \in unheard

=============================================================================
