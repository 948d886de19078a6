-------------------------- MODULE PublicationProofs --------------------------
(***************************************************************************)
(* What the server holds of the account's own presence, as long as nothing *)
(* of it is refused, lost, copied or mixed up: at every moment one PUBLISH *)
(* or one answer is under way, or none, and what the stack and the server  *)
(* hold is then as far apart as that one message makes them.               *)
(***************************************************************************)
EXTENDS AccountProofs

-----------------------------------------------------------------------------
(* While all went well, it went well before. *)

Good ==
    /\ gen = 1 /\ ~broken
    /\ spent.refusals = 0 /\ spent.faults = 0
    /\ "PUBLISH" \notin unheard

Onward ==
    /\ \/ gen' = gen /\ (broken' = broken \/ broken' = TRUE)
       \/ gen' = gen + 1
    /\ \/ spent' = spent \/ Spend("regs") \/ Spend("asks") \/ Spend("refusals")
       \/ Spend("faults") \/ Spend("breaks")
    /\ unheard \subseteq unheard'

LEMMA GoodBefore ==
    ASSUME Shape, Onward, Good'
    PROVE  Good /\ spent'.refusals = spent.refusals /\ spent'.faults = spent.faults
  <1> DEFINE K == {"regs", "asks", "refusals", "faults", "breaks"}
  <1>1. gen = 1 /\ ~broken
    BY DEF Good, Onward, Shape, StackShape
  <1>2. spent \in [K -> Nat]
    BY DEF Shape, Spending, Budget
  <1>3. \A k \in K: spent'[k] = spent[k] \/ spent'[k] = spent[k] + 1
    BY <1>2 DEF Onward, Spend
  <1>4. /\ spent.refusals = 0 /\ spent.faults = 0
        /\ spent'.refusals = 0 /\ spent'.faults = 0
    BY <1>2, <1>3 DEF Good
  <1> QED
    BY <1>1, <1>4 DEF Good, Onward

LEMMA TakesOnward ==
    ASSUME NEW m, Take(m)
    PROVE  spent' = spent \/ Spend("faults")
  BY DEF Take

LEMMA MissesMore ==
    ASSUME NEW kind, NEW id, Unheard(kind, id)
    PROVE  unheard \subseteq unheard'
  BY DEF Unheard

LEMMA StepsOnward ==
    ASSUME [Next]_vars
    PROVE  Onward
  <1> USE DEF stack, client, wire
  <1>1. CASE RegisterStep
    <2>1. CASE RegisterDue \/ RegisterTimesOut
      BY <2>1 DEF RegisterDue, RegisterTimesOut, Onward
    <2>2. ASSUME NEW m \in chan, RegisterAnswered(m) PROVE Onward
      <3>1. spent' = spent \/ Spend("faults")
        BY <2>2, TakesOnward DEF RegisterAnswered
      <3>2. unheard \subseteq unheard'
        BY <2>2 DEF RegisterAnswered, PublishOwnPresence
      <3> QED
        BY <2>2, <3>1, <3>2 DEF RegisterAnswered, Onward
    <2>3. ASSUME NEW m \in chan, RegisterDiscards(m) PROVE Onward
      BY <2>3, MissesMore DEF RegisterDiscards, Onward
    <2> QED
      BY <1>1, <2>1, <2>2, <2>3 DEF RegisterStep
  <1>2. CASE Tick \/ StackDies \/ TimeStep
    BY <1>2 DEF Tick, StackDies, TimeStep, PublishExpires, SubscriptionExpires, Onward
  <1>3. CASE HandleCommand
    <2>1. unheard \subseteq unheard'
      BY <1>3 DEF HandleCommand, PublishOwnPresence
    <2> QED
      BY <1>3, <2>1 DEF HandleCommand, Onward
  <1>4. CASE Receive
    <2>1. CASE OnMessage
      BY <2>1, TakesOnward DEF OnMessage, Onward
    <2>2. ASSUME NEW m \in chan,
                 \/ OnPublishResponse(m) \/ OnSubscribeResponse(m)
                 \/ OnNotify(m) \/ OnLateRegister(m)
          PROVE  Onward
      BY <2>2, TakesOnward
      DEF OnPublishResponse, OnSubscribeResponse, OnNotify, OnLateRegister, Onward
    <2>3. ASSUME NEW m \in chan, OnMessageResponse(m) PROVE Onward
      <3>1. unheard \subseteq unheard'
        <4>1. CASE m.status # 401 \/ msg[m.id] # "pending"
          BY <2>3, <4>1, Zenon DEF OnMessageResponse
        <4>2. CASE ~(m.status # 401 \/ msg[m.id] # "pending")
          <5>1. /\ m.status = 401 /\ m.status # 200 /\ m.status # 100
                /\ msg[m.id] = "pending"
                /\ msg[m.id] \in {"pending", "retried"}
            BY <4>2
          <5>2. unheard' = IF CanSend THEN unheard ELSE unheard \cup {m.id}
            BY <2>3, <5>1, Zenon DEF OnMessageResponse
          <5> QED
            BY <5>2
        <4> QED
          BY <4>1, <4>2
      <3> QED
        BY <2>3, <3>1, TakesOnward DEF OnMessageResponse, Onward
    <2> QED
      BY <1>4, <2>1, <2>2, <2>3 DEF Receive
  <1>5. CASE ConnectStep
    BY <1>5 DEF ConnectStep, WakeUp, CandidateFails, Reconnect, Onward
  <1>6. CASE UserStep
    BY <1>6 DEF UserStep, UnsubscribeContactPresence, SubscribeContactPresence,
                ToggleDnd, DoSendMessage, Onward
  <1>7. CASE ServerStep
    <2>1. ASSUME NEW r \in reqs, Serve(r) PROVE Onward
      <3>1. spent' = spent \/ Spend("refusals")
        BY <2>1 DEF Serve, Challenges, Refuses, Trying100, Accepts, AcceptsRegister,
                    AcceptsSubscribe, AcceptsPublish, AcceptsMessage
      <3> QED
        BY <2>1, <3>1 DEF Serve, Onward
    <2>2. CASE TargetChanges \/ ServerTerminates \/ ServerForgets \/ PeerSendsText
      BY <2>2 DEF TargetChanges, ServerTerminates, ServerForgets, PeerSendsText, Onward
    <2> QED
      BY <1>7, <2>1, <2>2 DEF ServerStep
  <1>8. CASE LoseRequest
    BY <1>8, MissesMore DEF LoseRequest, Onward
  <1>9. CASE Break
    BY <1>9 DEF Break, Onward
  <1>10. CASE UNCHANGED vars
    BY <1>10 DEF vars, Onward
  <1> QED
    BY <1>1, <1>2, <1>3, <1>4, <1>5, <1>6, <1>7, <1>8, <1>9, <1>10
    DEF Next, StackStep

-----------------------------------------------------------------------------
(* The life of a publication *)

PubReqs    == {r \in reqs: r.kind = "PUBLISH"}
PubAnswers == {m \in chan: m.type = "PUBLISH"}

(* What the server holds is the last publication it accepted, whatever that *)
(* said, and the stack knows its ETag.                                      *)
Held ==
    IF pub.etag = 0 THEN server.published = {}
    ELSE \E b \in BOOLEAN: server.published = {[etag |-> pub.etag, available |-> b]}

Unpublished ==
    pub = NoPub /\ PubReqs = {} /\ PubAnswers = {} /\ server.published = {}
Published ==
    /\ pub # NoPub /\ PubReqs = {} /\ PubAnswers = {}
    /\ pub.etag # 0 /\ ~pub.authRetried
    /\ server.published = {[etag |-> pub.etag, available |-> pub.available]}
Asked ==
    /\ pub # NoPub /\ ~pub.due /\ PubAnswers = {} /\ Held
    /\ PubReqs = {PublishReq(pub.call, pub.etag, pub.available, pub.authRetried)}
Challenged ==
    /\ pub # NoPub /\ ~pub.due /\ PubReqs = {} /\ Held /\ ~pub.authRetried
    /\ \E m \in PubAnswers: PubAnswers = {m} /\ m.id = pub.call /\ m.status = 401
Granted ==
    /\ pub # NoPub /\ ~pub.due /\ PubReqs = {}
    /\ \E m \in PubAnswers:
          /\ PubAnswers = {m} /\ m.id = pub.call /\ m.status = 200 /\ m.etag # 0
          /\ server.published = {[etag |-> m.etag, available |-> pub.available]}
Cycle == Good => Unpublished \/ Published \/ Asked \/ Challenged \/ Granted

(* What the publication says when the commands that wait are done is what   *)
(* the client shows.                                                        *)
Says(c) == c.cmd = "PublishPresence"
Wanted == IF pub = NoPub THEN ~config.dnd ELSE pub.available
LastSays ==
    Good =>
        /\ (\A n \in DOMAIN cmds: ~Says(cmds[n])) => Wanted # view.dnd
        /\ \A n \in DOMAIN cmds:
              Says(cmds[n]) /\ (\A k \in DOMAIN cmds: k > n => ~Says(cmds[k]))
                 => cmds[n].available # view.dnd

(* Only an account with a registrar publishes.                              *)
PublishersOnly ==
    /\ config \in InitConfigs
    /\ pub # NoPub \/ (\E n \in DOMAIN cmds: Says(cmds[n])) => config.uses = "publish"

Follows == PublishersOnly /\ Cycle /\ LastSays

LEMMA PublicationIsSome == \A p \in Publish: p # NoPub
  <1> SUFFICES ASSUME NEW p \in Publish, p = NoPub PROVE FALSE
    OBVIOUS
  <1>1. "call" \in DOMAIN p
    BY DEF Publish
  <1>2. DOMAIN p = {"etag"}
    BY DEF NoPub
  <1> QED
    BY <1>1, <1>2

LEMMA NothingUnderway ==
    PublishesUnderway = {} <=> PubReqs = {} /\ PubAnswers = {}
  BY DEF PublishesUnderway, PubReqs, PubAnswers

LEMMA CycleApart ==
    ASSUME Cycle, Good' => Good, UNCHANGED pub,
           PubReqs' = PubReqs, PubAnswers' = PubAnswers,
           server'.published = server.published
    PROVE  Cycle'
  <1>1. Held' <=> Held
    BY DEF Held
  <1>2. Unpublished => Unpublished'
    BY DEF Unpublished
  <1>3. Published => Published'
    BY DEF Published
  <1>4. Asked => Asked'
    BY <1>1 DEF Asked, PublishReq
  <1>5. Challenged => Challenged'
    BY <1>1 DEF Challenged
  <1>6. Granted => Granted'
    BY DEF Granted
  <1> QED
    BY <1>2, <1>3, <1>4, <1>5, <1>6 DEF Cycle

(* A PUBLISH of now while nothing is under way starts the next round.       *)
LEMMA CyclePublishes ==
    ASSUME Shape, Cycle, Good, Good', ~config.local, NEW available \in BOOLEAN,
           PublishOwnPresence(available), PubAnswers' = PubAnswers, UNCHANGED server
    PROVE  Asked' /\ pub' # NoPub /\ pub'.available = available
  <1> DEFINE call == IF pub = NoPub THEN FreshCall ELSE pub.call
             etag == IF pub = NoPub THEN 0 ELSE pub.etag
             r == PublishReq(call, etag, available, FALSE)
  <1>1. CanSend
    BY DEF CanSend, Good
  <1>2. /\ reqs' = reqs \cup {r}
        /\ pub' = [call |-> call, etag |-> etag, authRetried |-> FALSE,
                   available |-> available, due |-> FALSE]
        /\ unheard' = IF PublishesUnderway = {} THEN unheard
                                                ELSE unheard \cup {"PUBLISH"}
    BY <1>1 DEF PublishOwnPresence
  <1>3. PubReqs = {} /\ PubAnswers = {}
    BY <1>2, NothingUnderway DEF Good
  <1>4. Unpublished \/ Published
    BY <1>3 DEF Cycle, Asked, Challenged, Granted
  <1>5. /\ pub'.call = call /\ pub'.etag = etag /\ pub'.authRetried = FALSE
        /\ pub'.available = available /\ pub'.due = FALSE
    BY <1>2
  <1>6. PubReqs' = {PublishReq(pub'.call, pub'.etag, pub'.available, pub'.authRetried)}
    <2>1. r.kind = "PUBLISH"
      BY DEF PublishReq
    <2>2. PubReqs' = {r}
      BY <1>2, <1>3, <2>1 DEF PubReqs
    <2> QED
      BY <1>5, <2>2
  <1>7. pub' # NoPub
    <2>1. call \in Nat /\ etag \in Nat
      BY FreshNames DEF Finite, Shape, RequestShape, ChanShape, ServerShape,
                        PubShape, Publish
    <2>2. pub' \in Publish
      BY <1>2, <2>1 DEF Publish
    <2> QED
      BY <2>2, PublicationIsSome
  <1>8. Held'
    <2>1. CASE Unpublished
      BY <1>5, <2>1 DEF Unpublished, Held
    <2>2. CASE Published
      <3>1. pub.available \in BOOLEAN
        BY <2>2 DEF Published, Shape, PubShape, Publish
      <3> QED
        BY <1>5, <2>2, <3>1 DEF Published, Held
    <2> QED
      BY <1>4, <2>1, <2>2
  <1> QED
    BY <1>3, <1>5, <1>6, <1>7, <1>8 DEF Asked

-----------------------------------------------------------------------------
(* The last word in the queue *)

LEMMA SaysSame ==
    ASSUME LastSays, Good' => Good, UNCHANGED cmds, view'.dnd = view.dnd,
           Good' => Wanted' = Wanted
    PROVE  LastSays'
  BY DEF LastSays

LEMMA SaysGrow ==
    ASSUME Shape, LastSays, Good' => Good, view'.dnd = view.dnd,
           Good' => Wanted' = Wanted,
           NEW s \in Seq(Command), \A n \in DOMAIN s: ~Says(s[n]), cmds' = cmds \o s
    PROVE  /\ LastSays'
           /\ (\E n \in DOMAIN cmds': Says(cmds'[n])) => \E n \in DOMAIN cmds: Says(cmds[n])
  <1>1. /\ cmds \in Seq(Command)
        /\ Len(cmds) \in Nat /\ Len(s) \in Nat
        /\ DOMAIN cmds = 1..Len(cmds) /\ DOMAIN s = 1..Len(s)
    BY LenProperties DEF Shape, ClientShape
  <1>2. /\ cmds' \in Seq(Command) /\ Len(cmds') = Len(cmds) + Len(s)
        /\ \A n \in 1..Len(cmds) + Len(s):
              cmds'[n] = IF n <= Len(cmds) THEN cmds[n] ELSE s[n - Len(cmds)]
    BY <1>1, ConcatProperties
  <1>3. DOMAIN cmds' = 1..Len(cmds) + Len(s)
    BY <1>2, LenProperties
  <1>4. \A n \in DOMAIN cmds: n \in DOMAIN cmds' /\ cmds'[n] = cmds[n]
    BY <1>1, <1>2, <1>3
  <1>5. ASSUME NEW n \in DOMAIN cmds', Says(cmds'[n])
        PROVE  n \in DOMAIN cmds /\ cmds'[n] = cmds[n]
    <2>1. CASE n <= Len(cmds)
      BY <1>1, <1>2, <1>3, <2>1
    <2>2. CASE ~(n <= Len(cmds))
      <3>1. cmds'[n] = s[n - Len(cmds)] /\ n - Len(cmds) \in 1..Len(s)
        BY <1>1, <1>2, <1>3, <2>2
      <3> QED
        BY <1>1, <1>5, <3>1
    <2> QED
      BY <2>1, <2>2
  <1>6. LastSays'
    <2> SUFFICES ASSUME Good'
                 PROVE  /\ (\A n \in DOMAIN cmds': ~Says(cmds'[n])) => Wanted' # view'.dnd
                        /\ \A n \in DOMAIN cmds':
                              Says(cmds'[n]) /\ (\A k \in DOMAIN cmds': k > n => ~Says(cmds'[k]))
                                 => cmds'[n].available # view'.dnd
      BY DEF LastSays
    <2>1. ASSUME \A n \in DOMAIN cmds': ~Says(cmds'[n]) PROVE Wanted' # view'.dnd
      BY <1>4, <2>1 DEF LastSays
    <2>2. ASSUME NEW n \in DOMAIN cmds', Says(cmds'[n]),
                 \A k \in DOMAIN cmds': k > n => ~Says(cmds'[k])
          PROVE  cmds'[n].available # view'.dnd
      <3>1. n \in DOMAIN cmds /\ cmds'[n] = cmds[n]
        BY <1>5, <2>2
      <3>2. \A k \in DOMAIN cmds: k > n => ~Says(cmds[k])
        BY <1>4, <2>2
      <3> QED
        BY <2>2, <3>1, <3>2 DEF LastSays
    <2> QED
      BY <2>1, <2>2
  <1> QED
    BY <1>5, <1>6

LEMMA SaysTaken ==
    ASSUME Shape, LastSays, Good' => Good, view'.dnd = view.dnd,
           cmds # <<>>, cmds' = Tail(cmds),
           Good' => Wanted' = IF Says(Head(cmds)) THEN Head(cmds).available ELSE Wanted
    PROVE  /\ LastSays'
           /\ (\E n \in DOMAIN cmds': Says(cmds'[n])) => \E n \in DOMAIN cmds: Says(cmds[n])
  <1>1. /\ cmds \in Seq(Command)
        /\ Len(cmds) \in Nat /\ DOMAIN cmds = 1..Len(cmds) /\ Len(cmds) # 0
    BY LenProperties, EmptySeq DEF Shape, ClientShape
  <1>2. /\ cmds' \in Seq(Command) /\ Len(cmds') = Len(cmds) - 1
        /\ \A n \in 1..Len(cmds'): cmds'[n] = cmds[n + 1]
    BY <1>1, HeadTailProperties
  <1>3. DOMAIN cmds' = 1..Len(cmds) - 1
    BY <1>1, <1>2, LenProperties
  <1>4. \A n \in DOMAIN cmds': n + 1 \in DOMAIN cmds /\ cmds'[n] = cmds[n + 1]
    BY <1>1, <1>2, <1>3
  <1>5. Head(cmds) = cmds[1] /\ 1 \in DOMAIN cmds
    BY <1>1
  <1>6. \A k \in DOMAIN cmds: k # 1 => k - 1 \in DOMAIN cmds' /\ cmds'[k - 1] = cmds[k]
    <2> SUFFICES ASSUME NEW k \in DOMAIN cmds, k # 1
                 PROVE  k - 1 \in DOMAIN cmds' /\ cmds'[k - 1] = cmds[k]
      OBVIOUS
    <2>1. k - 1 \in 1..Len(cmds) - 1
      BY <1>1
    <2>2. cmds'[k - 1] = cmds[k - 1 + 1] /\ k - 1 + 1 = k
      BY <1>1, <1>3, <1>4, <2>1
    <2> QED
      BY <1>3, <2>1, <2>2
  <1>7. LastSays'
    <2> SUFFICES ASSUME Good'
                 PROVE  /\ (\A n \in DOMAIN cmds': ~Says(cmds'[n])) => Wanted' # view'.dnd
                        /\ \A n \in DOMAIN cmds':
                              Says(cmds'[n]) /\ (\A k \in DOMAIN cmds': k > n => ~Says(cmds'[k]))
                                 => cmds'[n].available # view'.dnd
      BY DEF LastSays
    <2>1. ASSUME \A n \in DOMAIN cmds': ~Says(cmds'[n]) PROVE Wanted' # view'.dnd
      <3>1. \A k \in DOMAIN cmds: k # 1 => ~Says(cmds[k])
        BY <1>6, <2>1
      <3>2. CASE Says(cmds[1])
        <4>1. \A k \in DOMAIN cmds: k > 1 => ~Says(cmds[k])
          BY <3>1
        <4> QED
          BY <1>5, <3>2, <4>1 DEF LastSays
      <3>3. CASE ~Says(cmds[1])
        BY <1>5, <3>1, <3>3 DEF LastSays
      <3> QED
        BY <3>2, <3>3
    <2>2. ASSUME NEW n \in DOMAIN cmds', Says(cmds'[n]),
                 \A k \in DOMAIN cmds': k > n => ~Says(cmds'[k])
          PROVE  cmds'[n].available # view'.dnd
      <3>1. n + 1 \in DOMAIN cmds /\ cmds'[n] = cmds[n + 1]
        BY <1>4
      <3>2. ASSUME NEW k \in DOMAIN cmds, k > n + 1 PROVE ~Says(cmds[k])
        <4>1. k # 1 /\ k - 1 > n
          BY <1>1, <1>3, <3>2
        <4> QED
          BY <1>6, <2>2, <4>1
      <3> QED
        BY <2>2, <3>1, <3>2 DEF LastSays
    <2> QED
      BY <2>1, <2>2
  <1> QED
    BY <1>4, <1>7

-----------------------------------------------------------------------------
(* Steps that publish nothing and hear nothing of a publication *)

PublicationApart ==
    /\ UNCHANGED <<config, pub>>
    /\ PubReqs' = PubReqs /\ PubAnswers' = PubAnswers
    /\ server'.published = server.published

Quiet ==
    /\ view'.dnd = view.dnd
    /\ \/ UNCHANGED cmds
       \/ \E s \in Seq(Command): (\A n \in DOMAIN s: ~Says(s[n])) /\ cmds' = cmds \o s

LEMMA QuietSays ==
    ASSUME Shape, LastSays, Good' => Good, Quiet, Good' => Wanted' = Wanted
    PROVE  /\ LastSays'
           /\ (\E n \in DOMAIN cmds': Says(cmds'[n])) => \E n \in DOMAIN cmds: Says(cmds[n])
  <1>1. CASE UNCHANGED cmds
    BY <1>1, SaysSame DEF Quiet
  <1>2. ASSUME NEW s \in Seq(Command), \A n \in DOMAIN s: ~Says(s[n]), cmds' = cmds \o s
        PROVE  /\ LastSays'
               /\ (\E n \in DOMAIN cmds': Says(cmds'[n]))
                     => \E n \in DOMAIN cmds: Says(cmds[n])
    BY <1>2, SaysGrow DEF Quiet
  <1> QED
    BY <1>1, <1>2 DEF Quiet

LEMMA QuietFollows ==
    ASSUME Shape, Follows, Onward, PublicationApart, Quiet
    PROVE  Follows'
  <1>1. Good' => Good
    BY GoodBefore
  <1>2. Wanted' = Wanted
    BY DEF Wanted, PublicationApart
  <1>3. /\ LastSays'
        /\ (\E n \in DOMAIN cmds': Says(cmds'[n])) => \E n \in DOMAIN cmds: Says(cmds[n])
    BY <1>1, <1>2, QuietSays DEF Follows
  <1>4. Cycle'
    BY <1>1, CycleApart DEF Follows, PublicationApart
  <1>5. PublishersOnly'
    <2>1. (config \in InitConfigs)'
      BY DEF Follows, PublishersOnly, PublicationApart, InitConfigs
    <2> QED
      BY <1>3, <2>1 DEF Follows, PublishersOnly, PublicationApart
  <1> QED
    BY <1>3, <1>4, <1>5 DEF Follows

(* From the first trouble on, there is nothing to keep.                     *)
LEMMA TroubleFollows ==
    ASSUME Follows, UNCHANGED config, ~Good',
           pub' # NoPub => pub # NoPub \/ config.uses = "publish",
           (\E n \in DOMAIN cmds': Says(cmds'[n]))
              => (\E n \in DOMAIN cmds: Says(cmds[n])) \/ config.uses = "publish"
    PROVE  Follows'
  <1>1. (config \in InitConfigs)'
    BY DEF Follows, PublishersOnly, InitConfigs
  <1>2. PublishersOnly'
    BY <1>1 DEF Follows, PublishersOnly
  <1> QED
    BY <1>2 DEF Follows, Cycle, LastSays

LEMMA PublishersAreRemote ==
    ASSUME PublishersOnly, config.uses = "publish"
    PROVE  ~config.local
  BY DEF PublishersOnly, InitConfigs

LEMMA HearsQuietly ==
    ASSUME Shape, HearRegistered \/ HearRegistrationFailed
    PROVE  Quiet
  <1>1. CASE HearRegistered
    <2>1. /\ SubscribeAll(view.watch) \in Seq(Command)
          /\ \A n \in DOMAIN SubscribeAll(view.watch):
                SubscribeAll(view.watch)[n].cmd \in {"SubscribePresence", "SubscribeMwi"}
      BY SubscribeCommands DEF Shape, ClientShape, ViewShape
    <2>2. \A n \in DOMAIN SubscribeAll(view.watch): ~Says(SubscribeAll(view.watch)[n])
      BY <2>1 DEF Says
    <2>3. view'.dnd = view.dnd /\ cmds' = cmds \o SubscribeAll(view.watch)
      BY <1>1 DEF HearRegistered, Shape, ClientShape, ViewShape
    <2> QED
      BY <2>1, <2>2, <2>3 DEF Quiet
  <1>2. CASE HearRegistrationFailed
    <2>1. view'.dnd = view.dnd /\ UNCHANGED cmds
      BY <1>2 DEF HearRegistrationFailed, Shape, ClientShape, ViewShape
    <2> QED
      BY <2>1 DEF Quiet
  <1> QED
    BY <1>1, <1>2

LEMMA ShowsQuietly ==
    ASSUME Shape, NEW t, NEW p, Show(t, p)
    PROVE  view'.dnd = view.dnd
  BY DEF Show, Shape, ClientShape, ViewShape

LEMMA AppendsQuietly ==
    ASSUME Shape, NEW c \in Command, ~Says(c), cmds' = Append(cmds, c),
           view'.dnd = view.dnd
    PROVE  Quiet
  <1>1. <<c>> \in Seq(Command) /\ \A n \in DOMAIN <<c>>: ~Says(<<c>>[n])
    OBVIOUS
  <1>2. cmds' = cmds \o <<c>>
    BY AppendIsConcat DEF Shape, ClientShape
  <1> QED
    BY <1>1, <1>2 DEF Quiet

LEMMA TakesOther ==
    ASSUME NEW m, m.type # "PUBLISH", Take(m)
    PROVE  PubAnswers' = PubAnswers
  BY DEF Take, PubAnswers

-----------------------------------------------------------------------------
(* Step by step *)

LEMMA RegisterFollows ==
    ASSUME Shape, Follows, Onward, RegisterStep
    PROVE  Follows'
  <1> USE DEF wire, stack, client
  <1>1. ASSUME NEW auth, NEW stage, SendRegister(auth, stage)
        PROVE  Quiet /\ PubReqs' = PubReqs
    <2>1. CASE CanSend
      BY <1>1, <2>1 DEF SendRegister, Register, PubReqs, Quiet
    <2>2. CASE ~CanSend
      <3>1. UNCHANGED reqs /\ (HearRegistered \/ HearRegistrationFailed)
        BY <1>1, <2>2 DEF SendRegister, RegistrationEnds
      <3> QED
        BY <3>1, HearsQuietly DEF PubReqs
    <2> QED
      BY <2>1, <2>2
  <1>2. ASSUME NEW state, RegistrationEnds(state) PROVE Quiet
    BY <1>2, HearsQuietly DEF RegistrationEnds
  <1>3. CASE RegisterDue
    <2>1. /\ UNCHANGED <<config, pub, chan, server>>
          /\ SendRegister(FALSE, "first")
      BY <1>3 DEF RegisterDue
    <2> QED
      BY <1>1, <2>1, QuietFollows DEF PublicationApart, PubAnswers
  <1>4. CASE RegisterTimesOut
    <2>1. /\ UNCHANGED <<config, pub, reqs, chan, server>>
          /\ RegistrationEnds("failed")
      BY <1>4 DEF RegisterTimesOut
    <2> QED
      BY <1>2, <2>1, QuietFollows DEF PublicationApart, PubReqs, PubAnswers
  <1>5. ASSUME NEW m \in chan, RegisterAnswered(m) PROVE Follows'
    <2>1. UNCHANGED <<config, server>> /\ PubAnswers' = PubAnswers
      BY <1>5, TakesOther DEF RegisterAnswered, OwnAnswer
    <2>2. CASE UNCHANGED <<reqs, pub>> /\ \E state: RegistrationEnds(state)
      BY <1>2, <2>1, <2>2, QuietFollows DEF PublicationApart, PubReqs
    <2>3. CASE UNCHANGED pub /\ SendRegister(TRUE, "second")
      BY <1>1, <2>1, <2>3, QuietFollows DEF PublicationApart
    <2>4. CASE /\ RegistrationEnds("registered")
               /\ config.uses = "publish" /\ pub = NoPub
               /\ PublishOwnPresence(~config.dnd)
      <3>1. Quiet
        BY <1>2, <2>4
      <3>2. (\E n \in DOMAIN cmds': Says(cmds'[n]))
               => (\E n \in DOMAIN cmds: Says(cmds[n])) \/ config.uses = "publish"
        BY <2>4
      <3>3. CASE ~Good'
        BY <2>1, <2>4, <3>2, <3>3, TroubleFollows
      <3>4. CASE Good'
        <4>1. Good /\ ~config.local
          BY <2>4, <3>4, GoodBefore, PublishersAreRemote DEF Follows
        <4>2. (~config.dnd) \in BOOLEAN
          OBVIOUS
        <4>3. Asked' /\ pub' # NoPub /\ pub'.available = ~config.dnd
          BY <2>1, <2>4, <3>4, <4>1, <4>2, CyclePublishes DEF Follows
        <4>4. Wanted' = Wanted
          BY <2>4, <4>3 DEF Wanted
        <4>5. LastSays'
          BY <3>1, <4>1, <4>4, QuietSays DEF Follows
        <4>6. PublishersOnly'
          BY <2>1, <2>4 DEF Follows, PublishersOnly, InitConfigs
        <4> QED
          BY <4>3, <4>5, <4>6 DEF Follows, Cycle
      <3> QED
        BY <3>3, <3>4
    <2> QED
      BY <1>5, <2>2, <2>3, <2>4, ZenonT(30) DEF RegisterAnswered
  <1>6. ASSUME NEW m \in chan, RegisterDiscards(m) PROVE Follows'
    <2>1. /\ UNCHANGED <<config, pub, cmds, view, reqs, server>>
          /\ chan' = chan \ {m}
          /\ Unheard(m.type, IF m.type = "text" THEN 0 ELSE m.id)
      BY <1>6 DEF RegisterDiscards
    <2>2. CASE m.type = "PUBLISH"
      <3>1. "PUBLISH" \in unheard'
        BY <2>1, <2>2 DEF Unheard
      <3> QED
        BY <2>1, <3>1, TroubleFollows DEF Good
    <2>3. CASE m.type # "PUBLISH"
      <3>1. PubAnswers' = PubAnswers
        BY <2>1, <2>3 DEF PubAnswers
      <3> QED
        BY <2>1, <3>1, QuietFollows DEF PublicationApart, Quiet, PubReqs
    <2> QED
      BY <2>2, <2>3
  <1> QED
    BY <1>3, <1>4, <1>5, <1>6 DEF RegisterStep

LEMMA TransportFollows ==
    ASSUME Shape, Follows, Onward, Break \/ StackDies \/ ConnectStep
    PROVE  Follows'
  <1> USE DEF wire, stack, client
  <1>1. CASE Break \/ WakeUp \/ CandidateFails
    BY <1>1, QuietFollows
    DEF Break, WakeUp, CandidateFails, PublicationApart, Quiet, PubReqs, PubAnswers
  <1>2. CASE StackDies
    <2>1. /\ UNCHANGED <<config, cmds, broken>> /\ broken /\ pub' = NoPub
      BY <1>2 DEF StackDies, HearRegistrationFailed
    <2> QED
      BY <2>1, TroubleFollows DEF Good
  <1>3. CASE Reconnect
    <2>1. /\ UNCHANGED <<config, pub, reqs, chan, server>>
          /\ HearRegistered \/ UNCHANGED <<cmds, view>>
      BY <1>3 DEF Reconnect
    <2>2. Quiet
      BY <2>1, HearsQuietly DEF Quiet
    <2> QED
      BY <2>1, <2>2, QuietFollows DEF PublicationApart, PubReqs, PubAnswers
  <1> QED
    BY <1>1, <1>2, <1>3 DEF ConnectStep

LEMMA TimeFollows ==
    ASSUME Shape, Follows, Onward, TimeStep
    PROVE  Follows'
  <1> USE DEF wire, stack, client
  <1>1. ASSUME NEW i \in SubIds, SubscriptionExpires(i) PROVE Follows'
    BY <1>1, QuietFollows
    DEF SubscriptionExpires, PublicationApart, Quiet, PubReqs, PubAnswers
  <1>2. CASE PublishExpires
    <2>1. /\ UNCHANGED <<config, cmds, view, reqs, chan, server>>
          /\ pub # NoPub /\ PubReqs = {} /\ PubAnswers = {}
          /\ pub' = [pub EXCEPT !.due = TRUE]
      BY <1>2, NothingUnderway DEF PublishExpires
    <2>2. pub \in Publish
      BY <2>1 DEF Shape, PubShape
    <2>3. /\ pub' \in Publish
          /\ pub'.etag = pub.etag /\ pub'.authRetried = pub.authRetried
          /\ pub'.available = pub.available
      BY <2>1, <2>2 DEF Publish
    <2>4. pub' # NoPub
      BY <2>3, PublicationIsSome
    <2>5. CASE ~Good'
      BY <2>1, <2>5, TroubleFollows
    <2>6. CASE Good'
      <3>1. Published
        BY <2>1, <2>6, GoodBefore
        DEF Follows, Cycle, Unpublished, Asked, Challenged, Granted
      <3>2. Published'
        BY <2>1, <2>3, <2>4, <3>1 DEF Published, PubReqs, PubAnswers
      <3>3. LastSays'
        BY <2>1, <2>3, <2>4, SaysSame, GoodBefore DEF Follows, Wanted
      <3>4. PublishersOnly'
        BY <2>1 DEF Follows, PublishersOnly, InitConfigs
      <3> QED
        BY <3>2, <3>3, <3>4 DEF Follows, Cycle
    <2> QED
      BY <2>5, <2>6
  <1> QED
    BY <1>1, <1>2 DEF TimeStep

LEMMA TickFollows ==
    ASSUME Shape, Follows, Onward, Tick
    PROVE  Follows'
  <1> USE DEF wire, stack, client
  <1> DEFINE due == {i \in SubIds: subs[i] # NoSub /\ subs[i].due}
             asked == {Subscribe(i, subs[i].target, TRUE, FALSE): i \in due}
             r == PublishReq(pub.call, pub.etag, pub.available, FALSE)
  <1>1. UNCHANGED <<config, cmds, view, chan, server>>
    BY DEF Tick
  <1>2. \A q \in asked: q.kind # "PUBLISH"
    BY DEF Subscribe
  <1>3. CASE ~(pub # NoPub /\ pub.due)
    <2>1. UNCHANGED pub /\ (reqs' = reqs \/ reqs' = reqs \cup asked)
      BY <1>3 DEF Tick
    <2>2. PubReqs' = PubReqs
      BY <1>2, <2>1 DEF PubReqs
    <2> QED
      BY <1>1, <2>1, <2>2, QuietFollows DEF PublicationApart, Quiet, PubAnswers
  <1>4. CASE pub # NoPub /\ pub.due
    <2>1. CASE ~Good'
      BY <1>1, <1>4, <2>1, TroubleFollows
    <2>2. CASE Good'
      <3>1. Good /\ CanSend
        BY <1>4, <2>2, GoodBefore, PublishersAreRemote
        DEF Follows, PublishersOnly, CanSend, Good
      <3>2. Published
        BY <1>4, <3>1 DEF Follows, Cycle, Unpublished, Asked, Challenged, Granted
      <3>3. /\ reqs' = reqs \cup (asked \cup {r})
            /\ pub' = [pub EXCEPT !.authRetried = FALSE, !.due = FALSE]
        BY <1>4, <3>1 DEF Tick
      <3>4. pub \in Publish
        BY <1>4 DEF Shape, PubShape
      <3>5. /\ pub' \in Publish
            /\ pub'.etag = pub.etag /\ pub'.call = pub.call
            /\ pub'.available = pub.available
            /\ pub'.authRetried = FALSE /\ pub'.due = FALSE
        BY <3>3, <3>4 DEF Publish
      <3>6. pub' # NoPub
        BY <3>5, PublicationIsSome
      <3>7. PubReqs' = {r}
        <4>1. r.kind = "PUBLISH"
          BY DEF PublishReq
        <4>2. PubReqs = {}
          BY <3>2 DEF Published
        <4>3. PubReqs' = {q \in reqs \cup (asked \cup {r}): q.kind = "PUBLISH"}
          BY <3>3 DEF PubReqs
        <4> HIDE DEF asked, r
        <4> QED
          BY <1>2, <4>1, <4>2, <4>3 DEF PubReqs
      <3>8. r = PublishReq(pub'.call, pub'.etag, pub'.available, pub'.authRetried)
        BY <3>5
      <3>9. Held'
        BY <1>1, <3>2, <3>4, <3>5 DEF Published, Held, Publish
      <3>10. Asked'
        BY <1>1, <3>2, <3>5, <3>6, <3>7, <3>8, <3>9 DEF Asked, Published, PubAnswers
      <3>11. LastSays'
        BY <1>1, <1>4, <3>1, <3>5, <3>6, SaysSame DEF Follows, Wanted
      <3>12. PublishersOnly'
        BY <1>1, <1>4 DEF Follows, PublishersOnly, InitConfigs
      <3> QED
        BY <3>10, <3>11, <3>12 DEF Follows, Cycle
    <2> QED
      BY <2>1, <2>2
  <1> QED
    BY <1>3, <1>4

LEMMA CommandFollows ==
    ASSUME Shape, Follows, Onward, HandleCommand
    PROVE  Follows'
  <1> USE DEF wire, stack, client
  <1> DEFINE c == Head(cmds)
  <1>1. cmds # <<>> /\ cmds' = Tail(cmds) /\ UNCHANGED <<config, chan, server>>
    BY DEF HandleCommand
  <1>2. c \in Command
    BY <1>1, HeadTailProperties DEF Shape, ClientShape
  <1>3. view'.dnd = view.dnd
    <2>1. UNCHANGED view \/ \E t, p: Show(t, p)
      BY DEF HandleCommand, SubscribeTo, HearSubscribeFailed, UnsubscribeFrom
    <2> QED
      BY <2>1, ShowsQuietly
  <1>4. CASE ~Says(c)
    <2>1. UNCHANGED pub /\ PubReqs' = PubReqs
      <3>1. ASSUME SubscribeTo(c.target) PROVE PubReqs' = PubReqs
        <4>1. PICK i: reqs' = reqs \cup {Subscribe(i, c.target, TRUE, FALSE)} \/ reqs' = reqs
          BY <3>1 DEF SubscribeTo
        <4> QED
          BY <4>1 DEF Subscribe, PubReqs
      <3>2. ASSUME UnsubscribeFrom(c.target) PROVE PubReqs' = PubReqs
        <4> DEFINE S == {Subscribe(i, c.target, FALSE, FALSE):
                            i \in {i \in SubIds: subs[i].target = c.target}}
        <4>1. \A q \in S: q.kind # "PUBLISH"
          BY DEF Subscribe
        <4>2. reqs' = reqs \cup S \/ reqs' = reqs
          BY <3>2 DEF UnsubscribeFrom
        <4> HIDE DEF S
        <4> QED
          BY <4>1, <4>2 DEF PubReqs
      <3>3. ASSUME SendMessage(c.msg) PROVE PubReqs' = PubReqs
        <4>1. TextMessage(c.msg, FALSE).kind # "PUBLISH"
          BY DEF TextMessage
        <4>2. reqs' = reqs \cup {TextMessage(c.msg, FALSE)} \/ reqs' = reqs
          BY <3>3 DEF SendMessage
        <4> QED
          BY <4>1, <4>2 DEF PubReqs
      <3> QED
        BY <1>4, <3>1, <3>2, <3>3 DEF HandleCommand, Says
    <2>2. Good' => Good
      BY GoodBefore
    <2>3. Wanted' = Wanted
      BY <1>1, <2>1 DEF Wanted
    <2>4. /\ LastSays'
          /\ (\E n \in DOMAIN cmds': Says(cmds'[n])) => \E n \in DOMAIN cmds: Says(cmds[n])
      BY <1>1, <1>3, <1>4, <2>2, <2>3, SaysTaken DEF Follows
    <2>5. Cycle'
      BY <1>1, <2>1, <2>2, CycleApart DEF Follows, PubAnswers
    <2>6. PublishersOnly'
      BY <1>1, <2>1, <2>4 DEF Follows, PublishersOnly, InitConfigs
    <2> QED
      BY <2>4, <2>5, <2>6 DEF Follows
  <1>5. CASE Says(c)
    <2>1. PublishOwnPresence(c.available) /\ c.available \in BOOLEAN
      BY <1>2, <1>5 DEF HandleCommand, Says, Command
    <2>2. config.uses = "publish"
      <3>1. cmds \in Seq(Command) /\ Len(cmds) # 0
        BY <1>1, EmptySeq DEF Shape, ClientShape
      <3>2. c = cmds[1] /\ 1 \in DOMAIN cmds
        BY <3>1, LenProperties
      <3> QED
        BY <1>5, <3>2 DEF Follows, PublishersOnly
    <2>3. CASE ~Good'
      BY <1>1, <2>2, <2>3, TroubleFollows
    <2>4. CASE Good'
      <3>1. Good /\ ~config.local
        BY <2>2, <2>4, GoodBefore, PublishersAreRemote DEF Follows
      <3>2. Asked' /\ pub' # NoPub /\ pub'.available = c.available
        BY <1>1, <2>1, <2>4, <3>1, CyclePublishes DEF Follows, PubAnswers
      <3>3. Wanted' = c.available
        BY <3>2 DEF Wanted
      <3>4. LastSays'
        BY <1>1, <1>3, <1>5, <3>1, <3>3, SaysTaken DEF Follows
      <3>5. PublishersOnly'
        BY <1>1, <2>2 DEF Follows, PublishersOnly, InitConfigs
      <3> QED
        BY <3>2, <3>4, <3>5 DEF Follows, Cycle
    <2> QED
      BY <2>3, <2>4
  <1> QED
    BY <1>4, <1>5

LEMMA AnswerFollows ==
    ASSUME Shape, Follows, Onward, NEW m \in chan, OnPublishResponse(m)
    PROVE  Follows'
  <1> USE DEF wire, stack, client
  <1>1. /\ m.type = "PUBLISH" /\ m \in PubAnswers /\ Take(m)
        /\ UNCHANGED <<config, cmds, view, server>>
    BY DEF OnPublishResponse, PubAnswers
  <1>2. pub' # NoPub => pub # NoPub
    BY DEF OnPublishResponse
  <1>3. CASE ~Good'
    BY <1>1, <1>2, <1>3, TroubleFollows
  <1>4. CASE Good'
    <2>1. Good /\ spent'.faults = spent.faults
      BY <1>4, GoodBefore
    <2>2. chan' = chan \ {m}
      <3>1. spent \in [{"regs", "asks", "refusals", "faults", "breaks"} -> Nat]
        BY DEF Shape, Spending, Budget
      <3>2. ~Spend("faults")
        BY <2>1, <3>1 DEF Spend
      <3> QED
        BY <1>1, <3>2 DEF Take
    <2>3. Challenged \/ Granted
      BY <1>1, <2>1 DEF Follows, Cycle, Unpublished, Published, Asked
    <2>4. /\ pub # NoPub /\ ~pub.due /\ pub \in Publish
          /\ PubReqs = {} /\ PubAnswers = {m} /\ m.id = pub.call
      <3>1. /\ pub # NoPub /\ ~pub.due /\ PubReqs = {}
            /\ \E a \in PubAnswers: PubAnswers = {a} /\ a.id = pub.call
        BY <2>3 DEF Challenged, Granted
      <3> QED
        BY <1>1, <3>1 DEF Shape, PubShape
    <2>5. PubAnswers' = {}
      BY <2>2, <2>4 DEF PubAnswers
    <2>6. ASSUME pub' \in Publish, pub'.available = pub.available, Published' \/ Asked'
          PROVE  Follows'
      <3>1. LastSays'
        <4>1. pub' # NoPub
          BY <2>6, PublicationIsSome
        <4> QED
          BY <1>1, <2>1, <2>4, <2>6, <4>1, SaysSame DEF Follows, Wanted
      <3>2. PublishersOnly'
        BY <1>1, <1>2 DEF Follows, PublishersOnly, InitConfigs
      <3> QED
        BY <2>6, <3>1, <3>2 DEF Follows, Cycle
    <2>7. CASE Challenged
      <3>1. m.status = 401 /\ ~pub.authRetried
        BY <2>4, <2>7 DEF Challenged
      <3>2. CanSend
        BY <2>1, <2>4, PublishersAreRemote DEF Follows, PublishersOnly, CanSend, Good
      <3>3. /\ pub' = [pub EXCEPT !.authRetried = TRUE]
            /\ reqs' = reqs \cup {PublishReq(pub.call, pub.etag, pub.available, TRUE)}
        <4>1. /\ m.status # 200 /\ m.id = pub.call /\ pub # NoPub
              /\ pub.authRetried = FALSE
          BY <2>4, <3>1
        <4> QED
          BY <3>1, <3>2, <4>1, Zenon DEF OnPublishResponse
      <3>4. /\ pub' \in Publish
            /\ pub'.call = pub.call /\ pub'.etag = pub.etag /\ pub'.due = pub.due
            /\ pub'.available = pub.available /\ pub'.authRetried = TRUE
        BY <2>4, <3>3 DEF Publish
      <3>5. PubReqs' = {PublishReq(pub.call, pub.etag, pub.available, TRUE)}
        <4> DEFINE r == PublishReq(pub.call, pub.etag, pub.available, TRUE)
        <4>1. r.kind = "PUBLISH"
          BY DEF PublishReq
        <4> HIDE DEF r
        <4> QED
          BY <2>4, <3>3, <4>1 DEF PubReqs, r
      <3>6. Held'
        BY <1>1, <2>7, <3>4 DEF Challenged, Held
      <3>7. Asked'
        <4>1. pub' # NoPub
          BY <3>4, PublicationIsSome
        <4>2. PubReqs' = {PublishReq(pub'.call, pub'.etag, pub'.available, pub'.authRetried)}
          BY <3>4, <3>5
        <4> QED
          BY <2>4, <2>5, <3>4, <3>6, <4>1, <4>2 DEF Asked
      <3> QED
        BY <2>6, <3>4, <3>7
    <2>8. CASE Granted
      <3>1. /\ m.status = 200 /\ m.etag # 0
            /\ server.published = {[etag |-> m.etag, available |-> pub.available]}
        BY <2>4, <2>8 DEF Granted
      <3>2. m.etag \in Nat
        BY <1>1 DEF Shape, ChanShape, Incoming
      <3>3. pub' = [pub EXCEPT !.etag = m.etag, !.authRetried = FALSE] /\ UNCHANGED reqs
        BY <2>4, <3>1 DEF OnPublishResponse
      <3>4. /\ pub' \in Publish /\ pub'.etag = m.etag /\ pub'.authRetried = FALSE
            /\ pub'.available = pub.available
        BY <2>4, <3>2, <3>3 DEF Publish
      <3>5. PubReqs' = {}
        BY <2>4, <3>3 DEF PubReqs
      <3>6. Published'
        <4>1. pub' # NoPub
          BY <3>4, PublicationIsSome
        <4>2. server'.published = {[etag |-> pub'.etag, available |-> pub'.available]}
          BY <1>1, <3>1, <3>4
        <4> QED
          BY <2>5, <3>1, <3>4, <3>5, <4>1, <4>2 DEF Published
      <3> QED
        BY <2>6, <3>4, <3>6
    <2> QED
      BY <2>3, <2>7, <2>8
  <1> QED
    BY <1>3, <1>4

LEMMA ReceiveFollows ==
    ASSUME Shape, Follows, Onward, Receive
    PROVE  Follows'
  <1> USE DEF wire, stack, client
  <1>1. CASE OnMessage
    <2>1. /\ UNCHANGED <<config, pub, cmds, view, reqs, server>>
          /\ PubAnswers' = PubAnswers
      BY <1>1, TakesOther DEF OnMessage, Text
    <2> QED
      BY <2>1, QuietFollows DEF PublicationApart, Quiet, PubReqs
  <1>2. ASSUME NEW m \in chan, OnPublishResponse(m) PROVE Follows'
    BY <1>2, AnswerFollows
  <1>3. ASSUME NEW m \in chan, OnLateRegister(m) \/ OnNotify(m) PROVE Follows'
    <2>1. /\ UNCHANGED <<config, pub, cmds, reqs, server>>
          /\ PubAnswers' = PubAnswers
          /\ UNCHANGED view \/ \E t, p: Show(t, p)
      BY <1>3, TakesOther DEF OnLateRegister, OnNotify
    <2>2. view'.dnd = view.dnd
      BY <2>1, ShowsQuietly
    <2> QED
      BY <2>1, <2>2, QuietFollows DEF PublicationApart, Quiet, PubReqs
  <1>4. ASSUME NEW m \in chan, OnSubscribeResponse(m) PROVE Follows'
    <2>1. /\ UNCHANGED <<config, pub, cmds, server>>
          /\ PubAnswers' = PubAnswers
      BY <1>4, TakesOther DEF OnSubscribeResponse
    <2>2. UNCHANGED view \/ \E t, p: Show(t, p)
      BY <1>4 DEF OnSubscribeResponse, SubscriptionFails, HearSubscribeFailed
    <2>3. view'.dnd = view.dnd
      BY <2>2, ShowsQuietly
    <2>4. PubReqs' = PubReqs
      <3> DEFINE r == Subscribe(m.id, subs[m.id].target, TRUE, TRUE)
      <3>1. r.kind # "PUBLISH"
        BY DEF Subscribe
      <3>2. reqs' = reqs \/ reqs' = reqs \cup {r}
        BY <1>4 DEF OnSubscribeResponse
      <3> HIDE DEF r
      <3> QED
        BY <3>1, <3>2 DEF PubReqs
    <2> QED
      BY <2>1, <2>3, <2>4, QuietFollows DEF PublicationApart, Quiet
  <1>5. ASSUME NEW m \in chan, OnMessageResponse(m) PROVE Follows'
    <2>1. /\ UNCHANGED <<config, pub, cmds, view, server>>
          /\ PubAnswers' = PubAnswers
      BY <1>5, TakesOther DEF OnMessageResponse
    <2>2. PubReqs' = PubReqs
      <3> DEFINE r == TextMessage(m.id, TRUE)
      <3>1. r.kind # "PUBLISH"
        BY DEF TextMessage
      <3>2. reqs' = reqs \/ reqs' = reqs \cup {r}
        BY <1>5 DEF OnMessageResponse
      <3> HIDE DEF r
      <3> QED
        BY <3>1, <3>2 DEF PubReqs
    <2> QED
      BY <2>1, <2>2, QuietFollows DEF PublicationApart, Quiet
  <1> QED
    BY <1>1, <1>2, <1>3, <1>4, <1>5 DEF Receive

LEMMA UserFollows ==
    ASSUME Shape, Follows, Onward, UserStep
    PROVE  Follows'
  <1> USE DEF wire, stack, client
  <1>1. UNCHANGED <<config, pub, reqs, chan, server>>
    BY DEF UserStep, UnsubscribeContactPresence, SubscribeContactPresence, ToggleDnd,
           DoSendMessage
  <1>2. PublicationApart
    BY <1>1 DEF PublicationApart, PubReqs, PubAnswers
  <1>3. CASE UnsubscribeContactPresence
    <2>1. PICK t \in view.watch:
             /\ view' = [view EXCEPT !.watch = @ \ {t}, !.presence[t] = "none"]
             /\ cmds' = Append(cmds, [cmd |-> "UnsubscribePresence", target |-> t])
      BY <1>3 DEF UnsubscribeContactPresence
    <2>2. /\ [cmd |-> "UnsubscribePresence", target |-> t] \in Command
          /\ ~Says([cmd |-> "UnsubscribePresence", target |-> t])
      BY DEF Shape, ClientShape, ViewShape, Targets, Command, Says
    <2>3. view'.dnd = view.dnd
      BY <2>1 DEF Shape, ClientShape, ViewShape
    <2> QED
      BY <1>2, <2>1, <2>2, <2>3, AppendsQuietly, QuietFollows
  <1>4. CASE SubscribeContactPresence
    <2>1. PICK t \in Contacts: /\ view' = [view EXCEPT !.watch = @ \cup {t}]
                               /\ cmds' = Append(cmds, SubscribeCommand(t))
      BY <1>4 DEF SubscribeContactPresence
    <2>2. SubscribeCommand(t) \in Command /\ ~Says(SubscribeCommand(t))
      BY DEF SubscribeCommand, Command, Targets, Says
    <2>3. view'.dnd = view.dnd
      BY <2>1 DEF Shape, ClientShape, ViewShape
    <2> QED
      BY <1>2, <2>1, <2>2, <2>3, AppendsQuietly, QuietFollows
  <1>5. CASE DoSendMessage
    <2>1. PICK m \in Messages: /\ UNCHANGED view
                               /\ cmds' = Append(cmds, [cmd |-> "SendMessage", msg |-> m])
      BY <1>5 DEF DoSendMessage
    <2>2. /\ [cmd |-> "SendMessage", msg |-> m] \in Command
          /\ ~Says([cmd |-> "SendMessage", msg |-> m])
      BY DEF Command, Says
    <2> QED
      BY <1>2, <2>1, <2>2, AppendsQuietly, QuietFollows
  <1>6. CASE ToggleDnd
    <2> DEFINE c == [cmd |-> "PublishPresence", available |-> view.dnd]
    <2>1. config.uses = "publish" /\ cmds' = Append(cmds, c)
      BY <1>6 DEF ToggleDnd
    <2>2. view.dnd \in BOOLEAN /\ view'.dnd = ~view.dnd
      BY <1>6 DEF ToggleDnd, Shape, ClientShape, ViewShape
    <2>3. c \in Command /\ Says(c)
      BY <2>2 DEF Command, Says
    <2>4. /\ cmds \in Seq(Command) /\ Len(cmds) \in Nat
          /\ cmds' \in Seq(Command) /\ Len(cmds') = Len(cmds) + 1
          /\ cmds'[Len(cmds) + 1] = c
      BY <2>1, <2>3, LenProperties, AppendProperties DEF Shape, ClientShape
    <2>5. DOMAIN cmds' = 1..Len(cmds) + 1
      BY <2>4, LenProperties
    <2>6. Len(cmds) + 1 \in DOMAIN cmds' /\ Says(cmds'[Len(cmds) + 1])
      BY <2>3, <2>4, <2>5
    <2>7. ASSUME NEW n \in DOMAIN cmds',
                 \A k \in DOMAIN cmds': k > n => ~Says(cmds'[k])
          PROVE  cmds'[n].available # view'.dnd
      <3>1. n = Len(cmds) + 1
        BY <2>4, <2>5, <2>6, <2>7
      <3> QED
        BY <2>2, <2>4, <3>1
    <2>8. LastSays'
      BY <2>6, <2>7 DEF LastSays
    <2>9. Cycle'
      BY <1>2, GoodBefore, CycleApart DEF Follows, PublicationApart
    <2>10. PublishersOnly'
      BY <1>1, <2>1 DEF Follows, PublishersOnly, InitConfigs
    <2> QED
      BY <2>8, <2>9, <2>10 DEF Follows
  <1> QED
    BY <1>3, <1>4, <1>5, <1>6 DEF UserStep

LEMMA LossFollows ==
    ASSUME Shape, Follows, Onward, LoseRequest
    PROVE  Follows'
  <1> USE DEF wire, stack, client
  <1>1. UNCHANGED <<config, pub, cmds, view, chan, server>>
    BY DEF LoseRequest
  <1>2. PICK r \in reqs: reqs' = reqs \ {r} /\ Unheard(r.kind, CallIdOf(r))
    BY DEF LoseRequest
  <1>3. CASE r.kind = "PUBLISH"
    <2>1. "PUBLISH" \in unheard'
      BY <1>2, <1>3 DEF Unheard
    <2> QED
      BY <1>1, <2>1, TroubleFollows DEF Good
  <1>4. CASE r.kind # "PUBLISH"
    <2>1. PubReqs' = PubReqs
      BY <1>2, <1>4 DEF PubReqs
    <2> QED
      BY <1>1, <2>1, QuietFollows DEF PublicationApart, Quiet, PubAnswers
  <1> QED
    BY <1>3, <1>4

LEMMA ServedFollows ==
    ASSUME Shape, Follows, Onward, NEW r \in reqs, r.kind = "PUBLISH", Serve(r)
    PROVE  Follows'
  <1> USE DEF wire, stack, client
  <1>1. UNCHANGED <<config, pub, cmds, view>>
    BY DEF Serve
  <1>2. CASE ~Good'
    BY <1>1, <1>2, TroubleFollows
  <1>3. CASE Good'
    <2>1. Good /\ spent'.refusals = spent.refusals
      BY <1>3, GoodBefore
    <2>2. ~Spend("refusals")
      <3>1. spent \in [{"regs", "asks", "refusals", "faults", "breaks"} -> Nat]
        BY DEF Shape, Spending, Budget
      <3> QED
        BY <2>1, <3>1 DEF Spend
    <2>3. r \in PubReqs
      BY DEF PubReqs
    <2>4. Asked
      BY <2>1, <2>3 DEF Follows, Cycle, Unpublished, Published, Challenged, Granted
    <2>5. /\ pub # NoPub /\ ~pub.due /\ PubAnswers = {} /\ PubReqs = {r} /\ Held
          /\ r = PublishReq(pub.call, pub.etag, pub.available, pub.authRetried)
      BY <2>3, <2>4 DEF Asked
    <2>6. pub \in Publish
      BY <2>5 DEF Shape, PubShape
    <2>7. /\ r.call = pub.call /\ r.etag = pub.etag
          /\ r.available = pub.available /\ r.auth = pub.authRetried
      BY <2>5 DEF PublishReq
    <2>8. ASSUME NEW status, NEW etag, Replies(r, {Answer(r, status, etag)})
          PROVE  /\ PubReqs' = {} /\ PubAnswers' = {Answer(r, status, etag)}
                 /\ Answer(r, status, etag).id = pub.call
                 /\ Answer(r, status, etag).status = status
                 /\ Answer(r, status, etag).etag = etag
      <3> DEFINE m == Answer(r, status, etag)
      <3>1. CallIdOf(r) = r.call
        BY DEF CallIdOf
      <3>2. /\ m.type = "PUBLISH" /\ m.id = pub.call
            /\ m.status = status /\ m.etag = etag
        BY <2>7, <3>1 DEF Answer
      <3>3. reqs' = reqs \ {r} /\ chan' = chan \cup {m}
        BY <2>8 DEF Replies
      <3> HIDE DEF m
      <3>4. PubReqs' = {} /\ PubAnswers' = {m}
        BY <2>5, <3>2, <3>3 DEF PubReqs, PubAnswers
      <3> QED
        BY <3>2, <3>4 DEF m
    <2>9. LastSays' /\ PublishersOnly'
      <3>1. LastSays'
        BY <1>1, <2>1, SaysSame DEF Follows, Wanted
      <3>2. PublishersOnly'
        BY <1>1 DEF Follows, PublishersOnly, InitConfigs
      <3> QED
        BY <3>1, <3>2
    <2>10. CASE Challenges(r)
      <3>1. Replies(r, {Answer(r, 401, 0)}) /\ UNCHANGED server /\ ~pub.authRetried
        BY <2>7, <2>10 DEF Challenges
      <3>2. Challenged'
        BY <1>1, <2>5, <2>8, <3>1 DEF Challenged, Held
      <3> QED
        BY <2>9, <3>2 DEF Follows, Cycle
    <2>11. CASE AcceptsPublish(r)
      <3> DEFINE old == {p \in server.published: p.etag = r.etag}
                 new == [etag |-> FreshTag, available |-> r.available]
      <3>1. (r.etag = 0 \/ old # {}) /\ server.published \ old = {}
        <4>1. CASE pub.etag = 0
          BY <2>5, <2>7, <4>1 DEF Held
        <4>2. CASE pub.etag # 0
          <5>1. PICK b \in BOOLEAN: server.published = {[etag |-> pub.etag, available |-> b]}
            BY <2>5, <4>2 DEF Held
          <5>2. old = server.published
            BY <2>7, <5>1
          <5> QED
            BY <5>1, <5>2
        <4> QED
          BY <4>1, <4>2
      <3>2. /\ Replies(r, {Answer(r, 200, FreshTag)})
            /\ server' = [server EXCEPT !.published = (@ \ old) \cup {new}]
        BY <2>11, <3>1 DEF AcceptsPublish
      <3>3. server'.published = {new}
        BY <3>1, <3>2 DEF Shape, ServerShape
      <3>4. FreshTag # 0
        BY FreshNames DEF Finite, Shape, RequestShape, ChanShape, ServerShape
      <3>5. Granted'
        BY <1>1, <2>5, <2>7, <2>8, <3>2, <3>3, <3>4 DEF Granted
      <3> QED
        BY <2>9, <3>5 DEF Follows, Cycle
    <2> QED
      BY <2>2, <2>10, <2>11
      DEF Serve, Refuses, Trying100, Accepts, AcceptsRegister, AcceptsSubscribe,
          AcceptsMessage
  <1> QED
    BY <1>2, <1>3

LEMMA ServerFollows ==
    ASSUME Shape, Follows, Onward, ServerStep
    PROVE  Follows'
  <1> USE DEF wire, stack, client
  <1>1. CASE TargetChanges \/ ServerTerminates \/ ServerForgets \/ PeerSendsText
    <2>1. UNCHANGED <<config, pub, cmds, view, reqs>>
      BY <1>1 DEF TargetChanges, ServerTerminates, ServerForgets, PeerSendsText
    <2>2. server'.published = server.published
      BY <1>1 DEF TargetChanges, ServerTerminates, ServerForgets, PeerSendsText,
                  Shape, ServerShape
    <2>3. chan \subseteq chan' /\ \A m \in chan' \ chan: m.type # "PUBLISH"
      BY <1>1 DEF TargetChanges, ServerTerminates, ServerForgets, PeerSendsText,
                  Notify, Text
    <2>4. PubAnswers' = PubAnswers
      BY <2>3 DEF PubAnswers
    <2> QED
      BY <2>1, <2>2, <2>4, QuietFollows DEF PublicationApart, Quiet, PubReqs
  <1>2. ASSUME NEW r \in reqs, r.kind # "PUBLISH", Serve(r) PROVE Follows'
    <2>1. UNCHANGED <<config, pub, cmds, view>> /\ (reqs' = reqs \/ reqs' = reqs \ {r})
      BY <1>2 DEF Serve, Challenges, Refuses, Trying100, Accepts, AcceptsRegister,
                  AcceptsSubscribe, AcceptsPublish, AcceptsMessage, Replies
    <2>2. server'.published = server.published
      BY <1>2 DEF Serve, Challenges, Refuses, Trying100, Accepts, AcceptsRegister,
                  AcceptsSubscribe, AcceptsPublish, AcceptsMessage, Shape, ServerShape
    <2>3. \A m \in chan' \ chan:
             m.type = "NOTIFY" \/ \E status, etag: m = Answer(r, status, etag)
      BY <1>2 DEF Serve, Challenges, Refuses, Trying100, Accepts, AcceptsRegister,
                  AcceptsSubscribe, AcceptsPublish, AcceptsMessage, Replies, Notify
    <2>4. \A m \in chan' \ chan: m.type # "PUBLISH"
      BY <1>2, <2>3 DEF Answer
    <2>5. chan \subseteq chan'
      BY <1>2 DEF Serve, Challenges, Refuses, Trying100, Accepts, AcceptsRegister,
                  AcceptsSubscribe, AcceptsPublish, AcceptsMessage, Replies
    <2>6. PubReqs' = PubReqs /\ PubAnswers' = PubAnswers
      BY <1>2, <2>1, <2>4, <2>5 DEF PubReqs, PubAnswers
    <2> QED
      BY <2>1, <2>2, <2>6, QuietFollows DEF PublicationApart, Quiet
  <1> QED
    BY <1>1, <1>2, ServedFollows DEF ServerStep

-----------------------------------------------------------------------------
LEMMA InitFollows == Init => Follows
  <1> SUFFICES ASSUME Init PROVE Follows
    OBVIOUS
  <1>1. /\ config \in InitConfigs /\ pub = NoPub /\ reqs = {} /\ chan = {}
        /\ server.published = {} /\ view.dnd = config.dnd
        /\ cmds = IF config.local THEN SubscribeAll(view.watch) ELSE <<>>
    BY DEF Init
  <1>2. Shape
    BY InitTyped, ShapeIsTyped
  <1>3. \A n \in DOMAIN cmds: ~Says(cmds[n])
    <2>1. \A n \in DOMAIN SubscribeAll(view.watch):
             SubscribeAll(view.watch)[n].cmd \in {"SubscribePresence", "SubscribeMwi"}
      BY <1>2, SubscribeCommands DEF Shape, ClientShape, ViewShape
    <2> QED
      BY <1>1, <2>1 DEF Says
  <1>4. (~config.dnd) # view.dnd
    BY <1>1, <1>2 DEF Shape, StackShape, Configs
  <1>5. Cycle
    BY <1>1 DEF Cycle, Unpublished, PubReqs, PubAnswers
  <1>6. LastSays
    BY <1>1, <1>3, <1>4 DEF LastSays, Wanted
  <1> QED
    BY <1>1, <1>3, <1>5, <1>6 DEF Follows, PublishersOnly

LEMMA NextFollows == Typed /\ Follows /\ [Next]_vars => Follows'
  <1> SUFFICES ASSUME Shape, Follows, [Next]_vars PROVE Follows'
    BY ShapeIsTyped
  <1>1. Onward
    BY StepsOnward
  <1>2. CASE RegisterStep
    BY <1>1, <1>2, RegisterFollows
  <1>3. CASE StackStep
    BY <1>1, <1>3, TickFollows, CommandFollows, ReceiveFollows, TransportFollows
    DEF StackStep
  <1>4. CASE ConnectStep \/ Break
    BY <1>1, <1>4, TransportFollows
  <1>5. CASE TimeStep
    BY <1>1, <1>5, TimeFollows
  <1>6. CASE UserStep
    BY <1>1, <1>6, UserFollows
  <1>7. CASE ServerStep \/ LoseRequest
    BY <1>1, <1>7, ServerFollows, LossFollows
  <1>8. CASE UNCHANGED vars
    BY <1>1, <1>8, QuietFollows
    DEF vars, stack, client, wire, PublicationApart, Quiet, PubReqs, PubAnswers
  <1> QED
    BY <1>2, <1>3, <1>4, <1>5, <1>6, <1>7, <1>8 DEF Next

(* As long as the server refuses nothing and the wire loses, copies and     *)
(* mixes up nothing of a publication, the server holds, whenever no PUBLISH *)
(* is under way and no command waits, exactly one publication, under the    *)
(* ETag the stack knows, and it says what the client shows: over every      *)
(* order of DND toggles, refreshes, challenges and registrations            *)
(* (toggle_dnd, publish_own_presence, presence_tick, on_publish_response).  *)
THEOREM PublicationFollows == Spec => []PublishedFollowsDnd
  <1>1. Typed /\ Follows => PublishedFollowsDnd
    <2> SUFFICES ASSUME Shape, Follows, gen = 1, pub # NoPub, cmds = <<>>,
                        PublishesUnderway = {},
                        spent.refusals = 0, spent.faults = 0,
                        "PUBLISH" \notin unheard, ~broken
                 PROVE  server.published = {[etag |-> pub.etag, available |-> ~view.dnd]}
      BY ShapeIsTyped DEF PublishedFollowsDnd
    <2>1. Good
      BY DEF Good
    <2>2. Published
      BY <2>1, NothingUnderway
      DEF Follows, Cycle, Unpublished, Asked, Challenged, Granted
    <2>3. pub.available # view.dnd
      BY <2>1 DEF Follows, LastSays, Wanted
    <2>4. pub.available \in BOOLEAN /\ view.dnd \in BOOLEAN
      BY DEF Shape, PubShape, Publish, ClientShape, ViewShape
    <2>5. pub.available = ~view.dnd
      BY <2>3, <2>4
    <2> QED
      BY <2>2, <2>5 DEF Published
  <1> QED
    BY <1>1, TypedAlways, InitFollows, NextFollows, PTL DEF Spec

=============================================================================
