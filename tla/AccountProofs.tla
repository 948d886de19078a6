---------------------------- MODULE AccountProofs ----------------------------
(***************************************************************************)
(* Theorems about Account, for any number of contacts, subscriptions and   *)
(* text messages and any values of the bounds.                             *)
(***************************************************************************)
EXTENDS Account, FiniteSetTheorems, SequenceTheorems, TLAPS

-----------------------------------------------------------------------------
(* Numbers nobody has heard of, and the commands that subscribe to all. *)

LEMMA FreshNumber ==
    ASSUME NEW S, IsFiniteSet(S)
    PROVE  (CHOOSE n \in 1..Cardinality(S) + 1: n \notin S) \in (Nat \ {0}) \ S
  <1> DEFINE N == Cardinality(S) + 1
  <1>1. Cardinality(S) \in Nat
    BY FS_CardinalityType
  <1>2. \E n \in 1..N: n \notin S
    <2>1. SUFFICES ASSUME 1..N \subseteq S PROVE FALSE
      OBVIOUS
    <2>2. Cardinality(1..N) <= Cardinality(S)
      BY <2>1, FS_Subset
    <2>3. Cardinality(1..N) = N
      BY <1>1, FS_Interval
    <2> QED
      BY <1>1, <2>2, <2>3
  <1>3. 1..N \subseteq Nat \ {0}
    BY <1>1
  <1> QED
    BY <1>2, <1>3

LEMMA SequenceOfSet ==
    ASSUME NEW S, IsFiniteSet(S)
    PROVE  SetToSeq(S) \in Seq(S)
  <1>1. Cardinality(S) \in Nat /\ ExistsBijection(1..Cardinality(S), S)
    BY FS_CardinalityType
  <1>2. PICK f \in [1..Cardinality(S) -> S]: IsInjective(f)
    BY <1>1 DEF ExistsBijection, Bijection, Injection, IsInjective
  <1>3. SetToSeq(S) \in [1..Cardinality(S) -> S]
    BY <1>2 DEF SetToSeq
  <1> QED
    BY <1>1, <1>3

LEMMA SubscribeCommands ==
    ASSUME NEW watch \in SUBSET Contacts
    PROVE  /\ SubscribeAll(watch) \in Seq(Command)
           /\ \A n \in DOMAIN SubscribeAll(watch):
                 SubscribeAll(watch)[n].cmd \in {"SubscribePresence", "SubscribeMwi"}
  <1> DEFINE all == Followable(watch)
             ts == SetToSeq(all)
  <1>1. all \subseteq Targets
    BY DEF Followable, Targets
  <1>2. IsFiniteSet(all)
    <2>1. IsFiniteSet(watch)
      BY FiniteAssumption, FS_Subset
    <2>2. IsFiniteSet(watch \cup {Mailbox})
      BY <2>1, FS_AddElement
    <2> QED
      BY <2>1, <2>2 DEF Followable
  <1>3. ts \in Seq(all)
    BY <1>2, SequenceOfSet
  <1>4. Len(ts) \in Nat /\ DOMAIN ts = 1..Len(ts) /\ \A n \in 1..Len(ts): ts[n] \in Targets
    BY <1>1, <1>3
  <1>5. \A t \in Targets: /\ SubscribeCommand(t) \in Command
                          /\ SubscribeCommand(t).cmd \in {"SubscribePresence", "SubscribeMwi"}
    BY DEF SubscribeCommand, Command
  <1>6. SubscribeAll(watch) = [n \in 1..Len(ts) |-> SubscribeCommand(ts[n])]
    BY <1>4 DEF SubscribeAll
  <1>7. SubscribeAll(watch) \in [1..Len(ts) -> Command]
    BY <1>4, <1>5, <1>6
  <1> QED
    BY <1>4, <1>5, <1>6, <1>7

-----------------------------------------------------------------------------
(* The inductive invariant *)

(* What is spent was there, and every dead transport has cost a stack.      *)
Used == spent.regs + spent.asks + spent.refusals + spent.faults + spent.breaks
Budget ==
    /\ spent \in [{"regs", "asks", "refusals", "faults", "breaks"} -> Nat]
    /\ Used <= MaxTrouble[config.uses]
    /\ spent.breaks <= MaxBreaks
Stacks ==
    /\ gen + (IF broken THEN 1 ELSE 0) = spent.breaks + 1
    /\ conn # Up => broken

(* What is under way is finite, and every REGISTER is of some stack.        *)
Finite == IsFiniteSet(reqs) /\ IsFiniteSet(chan) /\ IsFiniteSet(server.published)
RegistersKnown == \A r \in reqs: r.kind = "REGISTER" => r.gen \in 1..gen

Typed == TypeOK /\ Budget /\ Stacks /\ Finite /\ RegistersKnown

-----------------------------------------------------------------------------
(* What a step spends *)

Calm == UNCHANGED <<config, conn, broken, gen>>

LEMMA LeftIsUsed == Left <=> Used < MaxTrouble[config.uses]
  BY DEF Left, Used

LEMMA TroubleType ==
    ASSUME config \in Configs
    PROVE  MaxTrouble[config.uses] \in Nat
  BY BoundsAssumption DEF Configs, Uses

LEMMA Spends ==
    ASSUME config \in Configs, gen \in Nat, Budget, Stacks, config' = config,
           NEW kind \in {"regs", "asks", "refusals", "faults"},
           Spend(kind), UNCHANGED <<conn, broken, gen>>
    PROVE  Budget' /\ Stacks'
  <1> DEFINE K == {"regs", "asks", "refusals", "faults", "breaks"}
  <1>1. /\ spent' = [spent EXCEPT ![kind] = spent[kind] + 1]
        /\ Used < MaxTrouble[config.uses]
    BY LeftIsUsed DEF Spend
  <1>2. spent \in [K -> Nat] /\ spent' \in [K -> Nat]
    BY <1>1 DEF Budget
  <1>3. /\ spent'.breaks = spent.breaks
        /\ \A k \in K: spent'[k] = IF k = kind THEN spent[k] + 1 ELSE spent[k]
    BY <1>1, <1>2
  <1>4. Used' = Used + 1
    BY <1>2, <1>3 DEF Used
  <1>5. Used \in Nat
    BY <1>2 DEF Used
  <1> QED
    BY <1>1, <1>2, <1>3, <1>4, <1>5, TroubleType DEF Budget, Stacks

LEMMA SpendsNothing ==
    ASSUME Budget, Stacks, UNCHANGED <<config, conn, broken, gen, spent>>
    PROVE  Budget' /\ Stacks'
  BY DEF Budget, Stacks, Used

-----------------------------------------------------------------------------
(* What is sent, and what the server answers *)

LEMMA FreshNames ==
    ASSUME Finite
    PROVE  IsFiniteSet(PublishesUnderway) /\ FreshCall \in Nat /\ FreshTag \in Nat \ {0}
  <1> DEFINE R == {r \in reqs: r.kind = "PUBLISH"}
             M == {m \in chan: m.type = "PUBLISH"}
             P == server.published \cup {pub}
  <1>1. IsFiniteSet(R) /\ IsFiniteSet(M)
    BY FS_Subset DEF Finite
  <1>2. IsFiniteSet(P)
    BY FS_AddElement DEF Finite
  <1>3. /\ IsFiniteSet({r.call: r \in R})
        /\ IsFiniteSet({r.etag: r \in R})
    <2>1. [r \in R |-> r.call] \in Surjection(R, {r.call: r \in R})
      BY DEF Surjection
    <2>2. [r \in R |-> r.etag] \in Surjection(R, {r.etag: r \in R})
      BY DEF Surjection
    <2> QED
      BY <1>1, <2>1, <2>2, FS_Surjection
  <1>4. /\ IsFiniteSet({m.id: m \in M})
        /\ IsFiniteSet({m.etag: m \in M})
    <2>1. [m \in M |-> m.id] \in Surjection(M, {m.id: m \in M})
      BY DEF Surjection
    <2>2. [m \in M |-> m.etag] \in Surjection(M, {m.etag: m \in M})
      BY DEF Surjection
    <2> QED
      BY <1>1, <2>1, <2>2, FS_Surjection
  <1>5. IsFiniteSet({q.etag: q \in P})
    <2>1. [q \in P |-> q.etag] \in Surjection(P, {q.etag: q \in P})
      BY DEF Surjection
    <2> QED
      BY <1>2, <2>1, FS_Surjection
  <1>6. IsFiniteSet(PublishesUnderway)
    BY <1>3, <1>4, FS_Union DEF PublishesUnderway
  <1>7. IsFiniteSet({q.etag: q \in P} \cup {r.etag: r \in R})
    BY <1>3, <1>5, FS_Union
  <1>8. IsFiniteSet(TagsInUse)
    BY <1>4, <1>7, FS_Union DEF TagsInUse
  <1>9. FreshCall \in Nat
    BY <1>6, FreshNumber DEF FreshCall
  <1>10. FreshTag \in Nat \ {0}
    BY <1>8, FreshNumber DEF FreshTag
  <1> QED
    BY <1>6, <1>9, <1>10

LEMMA RequestTypes ==
    ASSUME gen \in Nat, NEW auth \in BOOLEAN
    PROVE  /\ Register(auth) \in Request
           /\ \A i \in SubIds, t \in Targets, on \in BOOLEAN:
                 Subscribe(i, t, on, auth) \in Request
           /\ \A call \in Nat, etag \in Nat, available \in BOOLEAN:
                 PublishReq(call, etag, available, auth) \in Request
           /\ \A m \in Messages: TextMessage(m, auth) \in Request
  BY DEF Register, Subscribe, PublishReq, TextMessage, Request

LEMMA AnswerType ==
    ASSUME NEW r \in Request, NEW status \in Status, NEW etag \in Nat,
           r.kind # "PUBLISH" => etag = 0
    PROVE  Answer(r, status, etag) \in Incoming
  <1>1. CASE r.kind = "REGISTER"
    <2>1. CallIdOf(r) = r.gen /\ r.gen \in Nat
      BY <1>1 DEF CallIdOf, Request
    <2> QED
      BY <1>1, <2>1 DEF Answer, Incoming
  <1>2. CASE r.kind = "SUBSCRIBE"
    <2>1. CallIdOf(r) = r.sub /\ r.sub \in SubIds
      BY <1>2 DEF CallIdOf, Request
    <2> QED
      BY <1>2, <2>1 DEF Answer, Incoming
  <1>3. CASE r.kind = "PUBLISH"
    <2>1. CallIdOf(r) = r.call /\ r.call \in Nat
      BY <1>3 DEF CallIdOf, Request
    <2> QED
      BY <1>3, <2>1 DEF Answer, Incoming
  <1>4. CASE r.kind = "MESSAGE"
    <2>1. CallIdOf(r) = r.msg /\ r.msg \in Messages
      BY <1>4 DEF CallIdOf, Request
    <2> QED
      BY <1>4, <2>1 DEF Answer, Incoming
  <1> QED
    BY <1>1, <1>2, <1>3, <1>4 DEF Request

LEMMA NotifyType ==
    /\ \A i \in SubIds, p \in Presence, over \in BOOLEAN: Notify(i, p, over) \in Incoming
    /\ Text \in Incoming
  BY DEF Notify, Text, Incoming

-----------------------------------------------------------------------------
(* TypeOK in parts: what a step that leaves a part alone need not look at.  *)

StackShape ==
    /\ config \in Configs
    /\ conn \in {Up, Waiting} \cup {Trying(n): n \in 1..Len(Candidates)}
    /\ broken \in BOOLEAN
    /\ gen \in Nat \ {0}
    /\ reg \in {"idle", "first", "second"}
    /\ regState \in {"never", "registered", "failed", "permanent"}
SubsShape == subs \in [SubIds -> Subscription \cup {NoSub}]
PubShape == pub \in Publish \cup {NoPub} /\ unheard \subseteq Messages \cup {"PUBLISH"}
TextShape ==
    /\ msg \in [Messages -> {"idle", "queued", "pending", "retried", "ok",
                             "failed", "forgotten"}]
    /\ results \in [Messages -> 0..2]
ViewShape ==
    view \in [regOk: BOOLEAN, dnd: BOOLEAN, watch: SUBSET Contacts,
              presence: [Targets -> Presence \cup {"unknown", "none"}]]
ClientShape == cmds \in Seq(Command) /\ ViewShape
RequestShape ==
    /\ reqs \subseteq Request
    /\ IsFiniteSet(reqs)
    /\ RegistersKnown
ChanShape == chan \subseteq Incoming /\ IsFiniteSet(chan)
ServerShape ==
    /\ server \in [bound: SUBSET (1..MaxBreaks + 1), active: SUBSET SubIds,
                   published: SUBSET [etag: Nat, available: BOOLEAN],
                   delivered: SUBSET Messages, actual: [Targets -> Presence]]
    /\ IsFiniteSet(server.published)
Spending == Budget /\ Stacks

Shape == /\ StackShape /\ SubsShape /\ PubShape /\ TextShape /\ ClientShape
         /\ RequestShape /\ ChanShape /\ ServerShape /\ Spending

LEMMA GenBound ==
    ASSUME StackShape, Spending
    PROVE  gen \in 1..MaxBreaks + 1
  <1>1. spent.breaks \in Nat /\ spent.breaks <= MaxBreaks
    BY DEF Spending, Budget
  <1>2. gen <= spent.breaks + 1
    BY <1>1 DEF StackShape, Spending, Stacks
  <1> QED
    BY <1>1, <1>2, BoundsAssumption DEF StackShape

LEMMA SpentBound ==
    ASSUME config \in Configs, Budget
    PROVE  spent \in [{"regs", "asks", "refusals", "faults", "breaks"}
                        -> 0..MaxTrouble[config.uses]]
  <1> DEFINE K == {"regs", "asks", "refusals", "faults", "breaks"}
             N == MaxTrouble[config.uses]
  <1>1. N \in Nat
    BY TroubleType
  <1>2. spent \in [K -> Nat] /\ Used <= N
    BY DEF Budget
  <1>3. \A k \in K: spent[k] \in 0..N
    BY <1>1, <1>2 DEF Used
  <1> QED
    BY <1>2, <1>3

LEMMA ShapeIsTyped == Shape <=> Typed
  <1>1. ASSUME Shape PROVE Typed
    <2>1. gen \in 1..MaxBreaks + 1
      BY <1>1, GenBound DEF Shape
    <2>2. spent \in [{"regs", "asks", "refusals", "faults", "breaks"}
                        -> 0..MaxTrouble[config.uses]]
      BY <1>1, SpentBound DEF Shape, StackShape, Spending
    <2>3. TypeOK
      BY <1>1, <2>1, <2>2
      DEF TypeOK, Shape, StackShape, SubsShape, PubShape, TextShape,
          ClientShape, ViewShape, RequestShape, ChanShape, ServerShape
    <2> QED
      BY <1>1, <2>3
      DEF Typed, Shape, Spending, Finite, RequestShape, ChanShape, ServerShape
  <1>2. ASSUME Typed PROVE Shape
    <2>1. gen \in Nat \ {0}
      BY <1>2, BoundsAssumption DEF Typed, TypeOK
    <2> QED
      BY <1>2, <2>1
      DEF Typed, TypeOK, Finite, Shape, StackShape, SubsShape, PubShape,
          TextShape, ClientShape, ViewShape, RequestShape, ChanShape, ServerShape, Spending
  <1> QED
    BY <1>1, <1>2

-----------------------------------------------------------------------------
(* The initial state *)

LEMMA InitTyped == Init => Typed
  <1> SUFFICES ASSUME Init PROVE Shape
    BY ShapeIsTyped
  <1> DEFINE watches == SUBSET (IF config.uses = "presence" THEN Contacts ELSE {})
             viewed(watch) ==
                [regOk |-> config.local, dnd |-> config.dnd, watch |-> watch,
                 presence |-> [t \in Targets |-> "none"]]
  <1>1. /\ config \in InitConfigs
        /\ conn = Up
        /\ broken = FALSE
        /\ gen = 1
        /\ reg = "idle"
        /\ regState = "never"
        /\ subs = [i \in SubIds |-> NoSub]
        /\ pub = NoPub
        /\ msg = [m \in Messages |-> "idle"]
        /\ results = [m \in Messages |-> 0]
        /\ cmds = IF config.local THEN SubscribeAll(view.watch) ELSE <<>>
        /\ reqs = {}
        /\ chan = {}
        /\ unheard = {}
    BY DEF Init
  <1>2. \E watch \in watches: view = viewed(watch)
    BY DEF Init
  <1>3. /\ server = [bound |-> {}, active |-> {}, published |-> {}, delivered |-> {},
                     actual |-> [t \in Targets |-> "closed"]]
        /\ spent = [regs |-> 0, asks |-> 0, refusals |-> 0, faults |-> 0, breaks |-> 0]
    BY DEF Init
  <1>4. config \in Configs
    BY <1>1 DEF InitConfigs
  <1>5. StackShape
    <2>1. conn \in {Up, Waiting} \cup {Trying(n): n \in 1..Len(Candidates)}
      BY <1>1, Zenon
    <2>2. /\ broken \in BOOLEAN
          /\ reg \in {"idle", "first", "second"}
          /\ regState \in {"never", "registered", "failed", "permanent"}
      BY <1>1, Zenon
    <2>3. gen \in Nat \ {0}
      BY <1>1
    <2> QED
      BY <1>4, <2>1, <2>2, <2>3, Zenon DEF StackShape
  <1>6. SubsShape /\ PubShape /\ TextShape
    BY <1>1 DEF SubsShape, PubShape, TextShape
  <1>7. view \in [regOk: BOOLEAN, dnd: BOOLEAN, watch: SUBSET Contacts,
                 presence: [Targets -> Presence \cup {"unknown", "none"}]]
    <2>1. config.local \in BOOLEAN /\ config.dnd \in BOOLEAN
      BY <1>4 DEF Configs
    <2>2. PICK w \in SUBSET Contacts: view = viewed(w)
      BY <1>2
    <2> QED
      BY <2>1, <2>2
  <1>8. ClientShape
    <2>1. SubscribeAll(view.watch) \in Seq(Command)
      BY <1>7, SubscribeCommands
    <2> QED
      BY <1>1, <1>7, <2>1 DEF ClientShape, ViewShape
  <1>9. RequestShape /\ ChanShape
    BY <1>1, FS_EmptySet DEF RequestShape, ChanShape, RegistersKnown
  <1>10. ServerShape
    BY <1>3, FS_EmptySet DEF ServerShape, Presence
  <1>11. Spending
    <2>1. Used = 0
      BY <1>3 DEF Used
    <2> QED
      BY <1>1, <1>3, <1>4, <2>1, TroubleType, BoundsAssumption
      DEF Spending, Budget, Stacks
  <1> QED
    BY <1>5, <1>6, <1>8, <1>9, <1>10, <1>11 DEF Shape

-----------------------------------------------------------------------------
(* What the pieces that the actions share do to the parts *)

LEMMA Hears ==
    ASSUME ClientShape, HearRegistered \/ HearRegistrationFailed
    PROVE  ClientShape'
  <1>1. CASE HearRegistered
    <2>1. SubscribeAll(view.watch) \in Seq(Command)
      BY SubscribeCommands DEF ClientShape, ViewShape
    <2>2. cmds' \in Seq(Command)
      BY <1>1, <2>1, ConcatProperties DEF ClientShape, ViewShape, HearRegistered
    <2> QED
      BY <1>1, <2>2 DEF ClientShape, ViewShape, HearRegistered
  <1>2. CASE HearRegistrationFailed
    BY <1>2 DEF ClientShape, ViewShape, HearRegistrationFailed
  <1> QED
    BY <1>1, <1>2

LEMMA Shows ==
    ASSUME ViewShape, NEW t \in Targets,
           (\E p \in Presence: Show(t, p)) \/ HearSubscribeFailed(t)
    PROVE  ViewShape'
  <1>1. ASSUME NEW p \in Presence \cup {"unknown"}, Show(t, p) PROVE ViewShape'
    BY <1>1 DEF ViewShape, Show
  <1>2. CASE UNCHANGED view
    BY <1>2 DEF ViewShape
  <1> QED
    BY <1>1, <1>2 DEF HearSubscribeFailed

LEMMA Takes ==
    ASSUME StackShape, ChanShape, Spending, NEW m, Take(m),
           UNCHANGED <<config, conn, broken, gen>>
    PROVE  m \in Incoming /\ ChanShape' /\ Spending'
  <1>1. m \in Incoming
    BY DEF Take, ChanShape
  <1>2. ChanShape'
    BY FS_RemoveElement DEF Take, ChanShape
  <1>3. Spending'
    <2>1. CASE spent' = spent
      BY <2>1, SpendsNothing DEF Spending
    <2>2. CASE Spend("faults")
      BY <2>2, Spends DEF Spending, StackShape
    <2> QED
      BY <2>1, <2>2 DEF Take
  <1> QED
    BY <1>1, <1>2, <1>3

LEMMA SendsOne ==
    ASSUME RequestShape, UNCHANGED gen, NEW r \in Request,
           r.kind = "REGISTER" => r.gen \in 1..gen,
           reqs' = reqs \cup {r} \/ reqs' = reqs
    PROVE  RequestShape'
  BY FS_AddElement DEF RequestShape, RegistersKnown

LEMMA SendsMany ==
    ASSUME RequestShape, UNCHANGED gen, NEW S \in SUBSET Request, IsFiniteSet(S),
           \A r \in S: r.kind # "REGISTER",
           reqs' = reqs \cup S \/ reqs' = reqs
    PROVE  RequestShape'
  BY FS_Union DEF RequestShape, RegistersKnown

LEMMA Arrives ==
    ASSUME ChanShape, NEW S \in SUBSET Incoming, IsFiniteSet(S), chan' = chan \cup S
    PROVE  ChanShape'
  BY FS_Union DEF ChanShape

LEMMA Publishes ==
    ASSUME StackShape, PubShape, RequestShape, ChanShape, ServerShape, UNCHANGED gen,
           NEW available \in BOOLEAN, PublishOwnPresence(available)
    PROVE  PubShape' /\ RequestShape'
  <1> DEFINE call == IF pub = NoPub THEN FreshCall ELSE pub.call
             etag == IF pub = NoPub THEN 0 ELSE pub.etag
             r == PublishReq(call, etag, available, FALSE)
  <1>1. call \in Nat /\ etag \in Nat
    <2>1. FreshCall \in Nat
      BY FreshNames DEF Finite, RequestShape, ChanShape, ServerShape
    <2> QED
      BY <2>1 DEF PubShape, Publish
  <1>2. r \in Request /\ r.kind # "REGISTER"
    <2>1. r \in Request
      BY <1>1, RequestTypes DEF StackShape
    <2> QED
      BY <2>1 DEF PublishReq
  <1>3. CASE CanSend
    <2>1. /\ reqs' = reqs \cup {r}
          /\ pub' = [call |-> call, etag |-> etag, authRetried |-> FALSE,
                     available |-> available, due |-> FALSE]
          /\ unheard' = unheard \/ unheard' = unheard \cup {"PUBLISH"}
      BY <1>3 DEF PublishOwnPresence
    <2>2. pub' \in Publish
      BY <1>1, <2>1 DEF Publish
    <2>3. RequestShape'
      BY <1>2, <2>1, SendsOne
    <2> QED
      BY <2>1, <2>2, <2>3 DEF PubShape
  <1>4. CASE ~CanSend
    <2>1. UNCHANGED <<reqs, pub, unheard>>
      BY <1>4 DEF PublishOwnPresence
    <2> QED
      BY <2>1 DEF PubShape, RequestShape, RegistersKnown
  <1> QED
    BY <1>3, <1>4

LEMMA Settles ==
    ASSUME TextShape, NEW m \in Messages, NEW ok \in BOOLEAN, Settle(m, ok)
    PROVE  TextShape'
  <1>1. msg' \in [Messages -> {"idle", "queued", "pending", "retried", "ok",
                               "failed", "forgotten"}]
    BY DEF TextShape, Settle
  <1>2. (IF results[m] = 2 THEN 2 ELSE results[m] + 1) \in 0..2
    BY DEF TextShape
  <1>3. results' \in [Messages -> 0..2]
    BY <1>2 DEF TextShape, Settle
  <1> QED
    BY <1>1, <1>3 DEF TextShape

LEMMA SendsText ==
    ASSUME StackShape, TextShape, RequestShape, UNCHANGED gen,
           NEW m \in Messages, SendMessage(m)
    PROVE  TextShape' /\ RequestShape'
  <1>1. TextMessage(m, FALSE) \in Request /\ TextMessage(m, FALSE).kind # "REGISTER"
    <2>1. TextMessage(m, FALSE) \in Request
      BY RequestTypes DEF StackShape
    <2> QED
      BY <2>1 DEF TextMessage
  <1>2. CASE CanSend
    <2>1. RequestShape'
      BY <1>1, <1>2, SendsOne DEF SendMessage
    <2>2. TextShape'
      BY <1>2 DEF SendMessage, TextShape
    <2> QED
      BY <2>1, <2>2
  <1>3. CASE ~CanSend
    BY <1>3, Settles DEF SendMessage, RequestShape, RegistersKnown
  <1> QED
    BY <1>2, <1>3

LEMMA Subscribes ==
    ASSUME StackShape, SubsShape, ViewShape, RequestShape, UNCHANGED gen,
           NEW t \in Targets, SubscribeTo(t)
    PROVE  SubsShape' /\ ViewShape' /\ RequestShape'
  <1> DEFINE i == CHOOSE i \in FreshIds: TRUE
             r == Subscribe(i, t, TRUE, FALSE)
  <1>1. i \in SubIds
    BY DEF SubscribeTo, FreshIds
  <1>2. r \in Request /\ r.kind # "REGISTER"
    <2>1. r \in Request
      BY <1>1, RequestTypes DEF StackShape
    <2> QED
      BY <2>1 DEF Subscribe
  <1>3. CASE CanSend
    <2>1. /\ subs' = [subs EXCEPT ![i] = NewSubscription(t)]
          /\ reqs' = reqs \cup {r}
          /\ UNCHANGED view
      BY <1>3 DEF SubscribeTo
    <2>2. NewSubscription(t) \in Subscription
      BY DEF NewSubscription, Subscription
    <2>3. SubsShape'
      BY <1>1, <2>1, <2>2 DEF SubsShape
    <2>4. RequestShape'
      BY <1>2, <2>1, SendsOne
    <2> QED
      BY <2>1, <2>3, <2>4 DEF ViewShape
  <1>4. CASE ~CanSend
    <2>1. HearSubscribeFailed(t) /\ UNCHANGED <<subs, reqs>>
      BY <1>4 DEF SubscribeTo
    <2>2. ViewShape'
      BY <2>1, Shows
    <2> QED
      BY <2>1, <2>2 DEF SubsShape, RequestShape, RegistersKnown
  <1> QED
    BY <1>3, <1>4

LEMMA SubscribeRequests ==
    ASSUME StackShape, NEW ids \in SUBSET SubIds, NEW target, NEW on \in BOOLEAN,
           \A i \in ids: target[i] \in Targets
    PROVE  LET S == {Subscribe(i, target[i], on, FALSE): i \in ids}
           IN  S \subseteq Request /\ IsFiniteSet(S) /\ \A r \in S: r.kind # "REGISTER"
  <1> DEFINE req(i) == Subscribe(i, target[i], on, FALSE)
             S == {req(i): i \in ids}
  <1>1. \A i \in ids: req(i) \in Request
    BY RequestTypes DEF StackShape
  <1>2. \A i \in ids: req(i).kind # "REGISTER"
    BY DEF Subscribe
  <1>3. IsFiniteSet(ids)
    BY FiniteAssumption, FS_Subset
  <1>4. [i \in ids |-> req(i)] \in Surjection(ids, S)
    BY DEF Surjection
  <1>5. IsFiniteSet(S)
    BY <1>3, <1>4, FS_Surjection
  <1> QED
    BY <1>1, <1>2, <1>5

LEMMA Unsubscribes ==
    ASSUME StackShape, SubsShape, RequestShape, UNCHANGED gen,
           NEW t \in Targets, UnsubscribeFrom(t)
    PROVE  SubsShape' /\ RequestShape'
  <1> DEFINE gone == {i \in SubIds: subs[i].target = t}
             target == [i \in SubIds |-> t]
             S == {Subscribe(i, target[i], FALSE, FALSE): i \in gone}
  <1>1. subs' = [i \in SubIds |-> IF i \in gone THEN NoSub ELSE subs[i]]
    BY DEF UnsubscribeFrom
  <1>2. SubsShape'
    BY <1>1 DEF SubsShape
  <1>3. S = {Subscribe(i, t, FALSE, FALSE): i \in gone}
    OBVIOUS
  <1>4. S \subseteq Request /\ IsFiniteSet(S) /\ \A r \in S: r.kind # "REGISTER"
    BY SubscribeRequests
  <1>5. reqs' = reqs \cup S \/ reqs' = reqs
    BY <1>3 DEF UnsubscribeFrom
  <1>6. RequestShape'
    BY <1>4, <1>5, SendsMany
  <1> QED
    BY <1>2, <1>6

LEMMA Misses ==
    ASSUME PubShape, UNCHANGED pub, NEW kind, NEW id,
           kind = "MESSAGE" => id \in Messages, Unheard(kind, id)
    PROVE  PubShape'
  BY DEF PubShape, Unheard

LEMMA Unchanged ==
    ASSUME Shape
    PROVE  /\ UNCHANGED <<config, conn, broken, gen, reg, regState>> => StackShape'
           /\ UNCHANGED subs => SubsShape'
           /\ UNCHANGED <<pub, unheard>> => PubShape'
           /\ UNCHANGED <<msg, results>> => TextShape'
           /\ UNCHANGED <<cmds, view>> => ClientShape'
           /\ UNCHANGED <<reqs, gen>> => RequestShape'
           /\ UNCHANGED chan => ChanShape'
           /\ UNCHANGED server => ServerShape'
           /\ UNCHANGED <<config, conn, broken, gen, spent>> => Spending'
  <1>1. UNCHANGED <<config, conn, broken, gen, reg, regState>> => StackShape'
    BY DEF Shape, StackShape
  <1>2. /\ UNCHANGED subs => SubsShape'
        /\ UNCHANGED <<pub, unheard>> => PubShape'
        /\ UNCHANGED <<msg, results>> => TextShape'
        /\ UNCHANGED <<cmds, view>> => ClientShape'
    BY DEF Shape, SubsShape, PubShape, TextShape, ClientShape, ViewShape
  <1>3. /\ UNCHANGED <<reqs, gen>> => RequestShape'
        /\ UNCHANGED chan => ChanShape'
        /\ UNCHANGED server => ServerShape'
    BY DEF Shape, RequestShape, ChanShape, ServerShape, RegistersKnown
  <1>4. UNCHANGED <<config, conn, broken, gen, spent>> => Spending'
    BY SpendsNothing DEF Shape, Spending
  <1> QED
    BY <1>1, <1>2, <1>3, <1>4

-----------------------------------------------------------------------------
(* The transport and the stack *)

LEMMA TransportTyped ==
    ASSUME Shape, Break \/ StackDies \/ WakeUp \/ CandidateFails \/ Reconnect
    PROVE  Shape'
  <1> USE DEF stack, client, wire
  <1>1. CASE Break
    <2> DEFINE K == {"regs", "asks", "refusals", "faults", "breaks"}
    <2>1. /\ ~broken /\ broken' = TRUE /\ conn = Up
          /\ spent.breaks < MaxBreaks /\ Used < MaxTrouble[config.uses]
          /\ spent' = [spent EXCEPT !["breaks"] = spent["breaks"] + 1]
          /\ UNCHANGED <<config, conn, gen, reg, regState>>
      BY <1>1, LeftIsUsed DEF Break, Spend, Running
    <2>2. StackShape'
      BY <2>1 DEF Shape, StackShape
    <2>3. spent \in [K -> Nat] /\ Used \in Nat
      BY DEF Shape, Spending, Budget, Used
    <2>4. /\ spent' \in [K -> Nat]
          /\ \A k \in K: spent'[k] = IF k = "breaks" THEN spent[k] + 1 ELSE spent[k]
      BY <2>1, <2>3
    <2>5. Used' = Used + 1
      BY <2>3, <2>4 DEF Used
    <2>6. Budget'
      <3>1. MaxTrouble[config.uses] \in Nat /\ MaxBreaks \in Nat
        BY TroubleType, BoundsAssumption DEF Shape, StackShape
      <3> QED
        BY <2>1, <2>3, <2>4, <2>5, <3>1 DEF Budget
    <2>7. Stacks'
      BY <2>1, <2>3, <2>4 DEF Shape, StackShape, Spending, Stacks
    <2> QED
      BY <1>1, <2>2, <2>6, <2>7, Unchanged DEF Break, Shape, Spending
  <1>2. CASE StackDies
    <2>1. StackShape' /\ SubsShape' /\ PubShape'
      BY <1>2 DEF StackDies, Shape, StackShape, SubsShape, PubShape
    <2>2. TextShape'
      BY <1>2 DEF StackDies, Shape, TextShape
    <2>3. ClientShape'
      BY <1>2, Hears DEF StackDies, Shape
    <2>4. Spending'
      BY <1>2 DEF StackDies, Shape, Spending, Budget, Stacks, Used
    <2> QED
      BY <1>2, <2>1, <2>2, <2>3, <2>4, Unchanged DEF StackDies, Shape
  <1>3. CASE WakeUp \/ CandidateFails
    <2>1. /\ conn # Up
          /\ \/ conn' = Waiting
             \/ \E n \in 1..Len(Candidates): conn' = Trying(n)
      <3>1. Up # Waiting /\ Waiting.phase # "trying" /\ Up.phase # "trying"
        BY DEF Up, Waiting
      <3>2. Len(Candidates) = 3
        BY DEF Candidates
      <3>3. CASE WakeUp
        BY <3>1, <3>2, <3>3 DEF WakeUp
      <3>4. CASE CandidateFails
        <4>1. PICK n \in 1..3: conn = Trying(n)
          BY <3>1, <3>2, <3>4 DEF CandidateFails, Shape, StackShape
        <4>2. conn.cand = n
          BY <4>1 DEF Trying
        <4> QED
          BY <3>1, <3>2, <3>4, <4>2 DEF CandidateFails
      <3> QED
        BY <1>3, <3>3, <3>4
    <2>2. /\ UNCHANGED <<config, broken, gen, reg, regState, subs, pub, unheard>>
          /\ UNCHANGED <<msg, results, cmds, view, reqs, chan, server, spent>>
      BY <1>3 DEF WakeUp, CandidateFails
    <2>3. StackShape'
      BY <2>1, <2>2, Zenon DEF Shape, StackShape
    <2>4. Spending'
      BY <2>1, <2>2 DEF Shape, Spending, Budget, Stacks, Used
    <2> QED
      BY <2>2, <2>3, <2>4, Unchanged DEF Shape
  <1>4. CASE Reconnect
    <2>1. conn # Up
      BY <1>4 DEF Reconnect, Up
    <2>2. /\ conn' = Up /\ broken' = FALSE /\ gen' = gen + 1
          /\ UNCHANGED <<config, reg, regState, subs, pub, unheard>>
          /\ UNCHANGED <<msg, results, reqs, chan, server, spent>>
          /\ HearRegistered \/ UNCHANGED <<cmds, view>>
      BY <1>4 DEF Reconnect
    <2>3. gen' \in Nat \ {0}
      BY <2>2 DEF Shape, StackShape
    <2>4. StackShape'
      BY <2>2, <2>3, Zenon DEF Shape, StackShape
    <2>5. Spending'
      BY <2>1, <2>2 DEF Shape, StackShape, Spending, Budget, Stacks, Used
    <2>6. ClientShape'
      BY <2>2, Hears, Unchanged DEF Shape
    <2>7. RequestShape'
      BY <2>2, <2>3 DEF Shape, StackShape, RequestShape, RegistersKnown
    <2> QED
      BY <2>2, <2>4, <2>5, <2>6, <2>7, Unchanged DEF Shape
  <1> QED
    BY <1>1, <1>2, <1>3, <1>4

-----------------------------------------------------------------------------
(* Registration *)

LEMMA Registers ==
    ASSUME Shape, UNCHANGED <<config, conn, broken, gen>>, NEW auth \in BOOLEAN,
           NEW stage \in {"first", "second"}, SendRegister(auth, stage)
    PROVE  StackShape' /\ ClientShape' /\ RequestShape'
  <1> USE DEF client
  <1>1. CASE CanSend
    <2>1. /\ reqs' = reqs \cup {Register(auth)} /\ reg' = stage
          /\ UNCHANGED <<regState, cmds, view>>
      BY <1>1 DEF SendRegister
    <2>2. Register(auth) \in Request /\ Register(auth).gen \in 1..gen
      BY RequestTypes DEF Register, Shape, StackShape
    <2>3. RequestShape'
      BY <2>1, <2>2, SendsOne DEF Shape
    <2> QED
      BY <2>1, <2>3, Unchanged DEF Shape, StackShape
  <1>2. CASE ~CanSend
    <2>1. RegistrationEnds("failed") /\ UNCHANGED reqs
      BY <1>2 DEF SendRegister
    <2>2. ClientShape'
      BY <2>1, Hears DEF RegistrationEnds, Shape
    <2> QED
      BY <2>1, <2>2, Unchanged DEF RegistrationEnds, Shape, StackShape
  <1> QED
    BY <1>1, <1>2

LEMMA Ends ==
    ASSUME Shape, UNCHANGED <<config, conn, broken, gen>>,
           NEW state \in {"registered", "failed", "permanent"}, RegistrationEnds(state)
    PROVE  StackShape' /\ ClientShape'
  BY Hears DEF RegistrationEnds, Shape, StackShape

LEMMA RegisterTyped ==
    ASSUME Shape, RegisterStep
    PROVE  Shape'
  <1> USE DEF wire, stack, client
  <1>1. CASE RegisterDue
    <2>1. /\ SendRegister(FALSE, "first")
          /\ spent' = spent \/ Spend("regs")
          /\ UNCHANGED <<config, conn, broken, gen, subs, pub, msg, results, chan,
                         server, unheard>>
      BY <1>1 DEF RegisterDue
    <2>2. StackShape' /\ ClientShape' /\ RequestShape'
      BY <2>1, Registers
    <2>3. Spending'
      BY <2>1, Spends, SpendsNothing DEF Shape, StackShape, Spending
    <2> QED
      BY <2>1, <2>2, <2>3, Unchanged DEF Shape
  <1>2. CASE RegisterTimesOut
    <2>1. /\ RegistrationEnds("failed")
          /\ spent' = spent \/ Spend("faults")
          /\ UNCHANGED <<config, conn, broken, gen, subs, pub, msg, results, reqs,
                         chan, server, unheard>>
      BY <1>2 DEF RegisterTimesOut
    <2>2. StackShape' /\ ClientShape'
      BY <2>1, Ends
    <2>3. Spending'
      BY <2>1, Spends, SpendsNothing DEF Shape, StackShape, Spending
    <2> QED
      BY <2>1, <2>2, <2>3, Unchanged DEF Shape
  <1>3. ASSUME NEW m \in chan, RegisterAnswered(m) PROVE Shape'
    <2>1. /\ Take(m)
          /\ UNCHANGED <<config, conn, broken, gen, subs, msg, results, server>>
      BY <1>3 DEF RegisterAnswered
    <2>2. ChanShape' /\ Spending'
      BY <2>1, Takes DEF Shape
    <2>3. config.dnd \in BOOLEAN
      BY DEF Shape, StackShape, Configs
    <2>4. CASE m.status = 200
      <3>1. /\ RegistrationEnds("registered")
            /\ PublishOwnPresence(~config.dnd) \/ UNCHANGED <<reqs, pub, unheard>>
        BY <1>3, <2>4 DEF RegisterAnswered
      <3>2. PubShape' /\ RequestShape'
        BY <2>1, <2>3, <3>1, Publishes, Unchanged DEF Shape
      <3> QED
        BY <2>1, <2>2, <3>1, <3>2, Ends, Unchanged DEF Shape
    <2>5. CASE m.status = 401 /\ reg = "first"
      <3>1. SendRegister(TRUE, "second") /\ UNCHANGED <<pub, unheard>>
        <4>1. m.status # 200 /\ m.status # 403
          BY <2>5
        <4> QED
          BY <1>3, <2>5, <4>1, Zenon DEF RegisterAnswered
      <3>2. StackShape' /\ ClientShape' /\ RequestShape'
        BY <2>1, <3>1, Registers
      <3> QED
        BY <2>1, <2>2, <3>1, <3>2, Unchanged DEF Shape
    <2>6. CASE m.status # 200 /\ ~(m.status = 401 /\ reg = "first")
      <3>1. /\ RegistrationEnds("permanent") \/ RegistrationEnds("failed")
            /\ UNCHANGED <<reqs, pub, unheard>>
        BY <1>3, <2>6 DEF RegisterAnswered
      <3>2. StackShape' /\ ClientShape'
        BY <2>1, <3>1, Ends
      <3> QED
        BY <2>1, <2>2, <3>1, <3>2, Unchanged DEF Shape
    <2> QED
      BY <2>4, <2>5, <2>6
  <1>4. ASSUME NEW m \in chan, RegisterDiscards(m) PROVE Shape'
    <2>1. /\ chan' = chan \ {m}
          /\ Unheard(m.type, IF m.type = "text" THEN 0 ELSE m.id)
          /\ UNCHANGED <<config, conn, broken, gen, reg, regState, subs, pub, msg, cmds,
                         view, results, reqs, server, spent>>
      BY <1>4 DEF RegisterDiscards
    <2>2. ChanShape'
      BY <2>1, FS_RemoveElement DEF Shape, ChanShape
    <2>3. m \in Incoming
      BY DEF Shape, ChanShape
    <2>4. m.type = "MESSAGE" => m.id \in Messages
      BY <2>3 DEF Incoming
    <2>5. PubShape'
      BY <2>1, <2>4, Misses DEF Shape
    <2> QED
      BY <2>1, <2>2, <2>5, Unchanged DEF Shape
  <1> QED
    BY <1>1, <1>2, <1>3, <1>4 DEF RegisterStep

-----------------------------------------------------------------------------
(* The handlers of the stack, and its ticks *)

LEMMA PublishTyped ==
    ASSUME Shape, PublishExpires \/ \E m \in chan: OnPublishResponse(m)
    PROVE  Shape'
  <1> USE DEF wire, stack, client
  <1>1. CASE PublishExpires
    <2>1. PubShape'
      BY <1>1 DEF PublishExpires, Shape, PubShape, Publish
    <2> QED
      BY <1>1, <2>1, Unchanged DEF PublishExpires, Shape
  <1>2. ASSUME NEW m \in chan, OnPublishResponse(m) PROVE Shape'
    <2>1. /\ Take(m) /\ m.type = "PUBLISH"
          /\ UNCHANGED <<config, conn, broken, gen, reg, regState, subs, msg, cmds, view,
                         results, server, unheard>>
      BY <1>2 DEF OnPublishResponse
    <2>2. m \in Incoming /\ ChanShape' /\ Spending'
      BY <2>1, Takes DEF Shape
    <2>3. m.etag \in Nat
      BY <2>1, <2>2 DEF Incoming
    <2> DEFINE r == PublishReq(pub.call, pub.etag, pub.available, TRUE)
    <2>4. \/ UNCHANGED <<pub, reqs>>
          \/ pub \in Publish /\ pub' = [pub EXCEPT !.etag = m.etag, !.authRetried = FALSE]
             /\ UNCHANGED reqs
          \/ pub \in Publish /\ pub' = [pub EXCEPT !.authRetried = TRUE]
             /\ (reqs' = reqs \cup {r} \/ reqs' = reqs)
          \/ pub' = NoPub /\ UNCHANGED reqs
      BY <1>2 DEF OnPublishResponse, Shape, PubShape
    <2>5. PubShape'
      BY <2>1, <2>3, <2>4 DEF Shape, PubShape, Publish
    <2>6. ASSUME pub \in Publish PROVE r \in Request /\ r.kind # "REGISTER"
      <3>1. r \in Request
        BY <2>6, RequestTypes DEF Publish, Shape, StackShape
      <3> QED
        BY <3>1 DEF PublishReq
    <2>7. RequestShape'
      BY <2>1, <2>4, <2>6, SendsOne, Unchanged DEF Shape
    <2> QED
      BY <2>1, <2>2, <2>5, <2>7, Unchanged DEF Shape
  <1> QED
    BY <1>1, <1>2

LEMMA SubscriptionTyped ==
    ASSUME Shape,
           \/ \E m \in chan: OnSubscribeResponse(m) \/ OnNotify(m)
           \/ \E i \in SubIds: SubscriptionExpires(i)
    PROVE  Shape'
  <1> USE DEF wire, stack, client
  <1>1. ASSUME NEW m \in chan, OnSubscribeResponse(m) PROVE Shape'
    <2> DEFINE i == m.id
               r == Subscribe(i, subs[i].target, TRUE, TRUE)
    <2>1. /\ Take(m) /\ m.type = "SUBSCRIBE"
          /\ UNCHANGED <<config, conn, broken, gen, reg, regState, pub, msg, cmds,
                         results, server, unheard>>
      BY <1>1 DEF OnSubscribeResponse
    <2>2. m \in Incoming /\ ChanShape' /\ Spending'
      BY <2>1, Takes DEF Shape
    <2>3. i \in SubIds
      BY <2>1, <2>2 DEF Incoming
    <2>4. subs[i] \in Subscription \cup {NoSub}
      BY <2>3 DEF Shape, SubsShape
    <2>5. \/ UNCHANGED <<subs, reqs, view>>
          \/ /\ subs[i] \in Subscription
             /\ subs' = [subs EXCEPT ![i].due = FALSE, ![i].authRetried = FALSE]
             /\ UNCHANGED <<reqs, view>>
          \/ /\ subs[i] \in Subscription
             /\ subs' = [subs EXCEPT ![i].authRetried = TRUE]
             /\ reqs' = reqs \cup {r} \/ reqs' = reqs
             /\ UNCHANGED view
          \/ /\ subs[i] \in Subscription
             /\ SubscriptionFails(i)
             /\ UNCHANGED reqs
      BY <1>1, <2>4 DEF OnSubscribeResponse
    <2>6. CASE UNCHANGED <<subs, reqs, view>>
      BY <2>1, <2>2, <2>6, Unchanged DEF Shape
    <2>7. CASE /\ subs[i] \in Subscription
               /\ subs' = [subs EXCEPT ![i].due = FALSE, ![i].authRetried = FALSE]
               /\ UNCHANGED <<reqs, view>>
      <3>1. [subs[i] EXCEPT !.due = FALSE, !.authRetried = FALSE] \in Subscription
        BY <2>7 DEF Subscription
      <3>2. subs' = [subs EXCEPT ![i] = [subs[i] EXCEPT !.due = FALSE,
                                                        !.authRetried = FALSE]]
        BY <2>3, <2>7 DEF Shape, SubsShape
      <3>3. SubsShape'
        BY <2>3, <3>1, <3>2 DEF Shape, SubsShape
      <3> QED
        BY <2>1, <2>2, <2>7, <3>3, Unchanged DEF Shape
    <2>8. CASE /\ subs[i] \in Subscription
               /\ subs' = [subs EXCEPT ![i].authRetried = TRUE]
               /\ reqs' = reqs \cup {r} \/ reqs' = reqs
               /\ UNCHANGED view
      <3>1. SubsShape'
        BY <2>3, <2>8 DEF Shape, SubsShape, Subscription
      <3>2. r \in Request /\ r.kind # "REGISTER"
        <4>1. subs[i].target \in Targets
          BY <2>8 DEF Subscription
        <4>2. r \in Request
          BY <2>3, <4>1, RequestTypes DEF Shape, StackShape
        <4> QED
          BY <4>2 DEF Subscribe
      <3>3. RequestShape'
        BY <2>1, <2>8, <3>2, SendsOne DEF Shape
      <3> QED
        BY <2>1, <2>2, <2>8, <3>1, <3>3, Unchanged DEF Shape
    <2>9. CASE subs[i] \in Subscription /\ SubscriptionFails(i) /\ UNCHANGED reqs
      <3>1. SubsShape'
        BY <2>9 DEF SubscriptionFails, Shape, SubsShape
      <3>2. ClientShape'
        <4>1. subs[i].target \in Targets
          BY <2>9 DEF Subscription
        <4> QED
          BY <2>1, <2>9, <4>1, Shows DEF SubscriptionFails, Shape, ClientShape, ViewShape
      <3> QED
        BY <2>1, <2>2, <2>9, <3>1, <3>2, Unchanged DEF Shape
    <2> QED
      BY <2>5, <2>6, <2>7, <2>8, <2>9
  <1>2. ASSUME NEW m \in chan, OnNotify(m) PROVE Shape'
    <2> DEFINE i == m.id
    <2>1. /\ Take(m) /\ m.type = "NOTIFY"
          /\ UNCHANGED <<config, conn, broken, gen, reg, regState, pub, msg, cmds,
                         results, reqs, server, unheard>>
      BY <1>2 DEF OnNotify
    <2>2. m \in Incoming /\ ChanShape' /\ Spending'
      BY <2>1, Takes DEF Shape
    <2>3. i \in SubIds /\ m.state \in Presence
      BY <2>1, <2>2 DEF Incoming
    <2>4. CASE subs[i] = NoSub
      <3>1. UNCHANGED <<subs, view>>
        BY <1>2, <2>4 DEF OnNotify
      <3> QED
        BY <2>1, <2>2, <3>1, Unchanged DEF Shape
    <2>5. CASE subs[i] # NoSub
      <3>1. subs[i].target \in Targets
        BY <2>3, <2>5 DEF Shape, SubsShape, Subscription
      <3>2. /\ Show(subs[i].target, m.state)
            /\ subs' = [subs EXCEPT ![i] = NoSub] \/ subs' = subs
        BY <1>2, <2>5 DEF OnNotify
      <3>3. ClientShape'
        BY <2>1, <2>3, <3>1, <3>2, Shows DEF Shape, ClientShape, ViewShape
      <3>4. SubsShape'
        BY <3>2 DEF Shape, SubsShape
      <3> QED
        BY <2>1, <2>2, <3>3, <3>4, Unchanged DEF Shape
    <2> QED
      BY <2>4, <2>5
  <1>3. ASSUME NEW i \in SubIds, SubscriptionExpires(i) PROVE Shape'
    <2>1. SubsShape'
      BY <1>3, ZenonT(30) DEF SubscriptionExpires, Shape, SubsShape, Subscription
    <2> QED
      BY <1>3, <2>1, Unchanged DEF SubscriptionExpires, Shape
  <1> QED
    BY <1>1, <1>2, <1>3

LEMMA TickTyped ==
    ASSUME Shape, Tick
    PROVE  Shape'
  <1> USE DEF wire, stack, client
  <1> DEFINE due == {i \in SubIds: subs[i] # NoSub /\ subs[i].due}
             target == [i \in SubIds |-> subs[i].target]
             S == {Subscribe(i, target[i], TRUE, FALSE): i \in due}
             publishes == pub # NoPub /\ pub.due
             r == PublishReq(pub.call, pub.etag, pub.available, FALSE)
             refreshes == S \cup IF publishes THEN {r} ELSE {}
  <1>1. S = {Subscribe(i, subs[i].target, TRUE, FALSE): i \in due}
    OBVIOUS
  <1>2. /\ subs' = [i \in SubIds |->
                       IF i \in due THEN [subs[i] EXCEPT !.authRetried = FALSE] ELSE subs[i]]
        /\ reqs' = reqs \cup refreshes \/ reqs' = reqs
        /\ \/ publishes /\ pub' = [pub EXCEPT !.authRetried = FALSE, !.due = FALSE]
           \/ pub' = pub
        /\ UNCHANGED <<config, conn, broken, gen, reg, regState, msg, client,
                       results, chan, server, unheard, spent>>
    BY <1>1 DEF Tick
  <1>3. SubsShape'
    <2>1. \A i \in due: [subs[i] EXCEPT !.authRetried = FALSE] \in Subscription
      BY DEF Shape, SubsShape, Subscription
    <2> QED
      BY <1>2, <2>1 DEF Shape, SubsShape
  <1>4. PubShape'
    BY <1>2 DEF Shape, PubShape, Publish
  <1>5. S \subseteq Request /\ IsFiniteSet(S) /\ \A q \in S: q.kind # "REGISTER"
    <2>1. \A i \in due: target[i] \in Targets
      BY DEF Shape, SubsShape, Subscription
    <2> QED
      BY <2>1, SubscribeRequests DEF Shape
  <1>6. publishes => r \in Request /\ r.kind # "REGISTER"
    <2>1. publishes => r \in Request
      BY RequestTypes DEF Publish, Shape, StackShape, PubShape
    <2> QED
      BY <2>1 DEF PublishReq
  <1>7. RequestShape'
    <2> HIDE DEF S, r, publishes
    <2>1. /\ refreshes \subseteq Request
          /\ IsFiniteSet(refreshes)
          /\ \A q \in refreshes: q.kind # "REGISTER"
      <3>1. IsFiniteSet(S \cup {r})
        BY <1>5, FS_AddElement
      <3> QED
        BY <1>5, <1>6, <3>1
    <2> HIDE DEF refreshes
    <2> QED
      BY <1>2, <2>1, SendsMany DEF Shape
  <1> QED
    BY <1>2, <1>3, <1>4, <1>7, Unchanged DEF Shape

LEMMA TextTyped ==
    ASSUME Shape, OnMessage \/ \E m \in chan: OnMessageResponse(m) \/ OnLateRegister(m)
    PROVE  Shape'
  <1> USE DEF wire, stack, client
  <1>1. CASE OnMessage
    <2>1. ChanShape' /\ Spending'
      BY <1>1, Takes DEF OnMessage, Shape
    <2> QED
      BY <1>1, <2>1, Unchanged DEF OnMessage, Shape
  <1>2. ASSUME NEW m \in chan, OnLateRegister(m) PROVE Shape'
    <2>1. ChanShape' /\ Spending'
      BY <1>2, Takes DEF OnLateRegister, Shape
    <2> QED
      BY <1>2, <2>1, Unchanged DEF OnLateRegister, Shape
  <1>3. ASSUME NEW m \in chan, OnMessageResponse(m) PROVE Shape'
    <2> DEFINE id == m.id
               r == TextMessage(id, TRUE)
    <2>1. /\ Take(m) /\ m.type = "MESSAGE"
          /\ UNCHANGED <<config, conn, broken, gen, reg, regState, subs, pub, cmds, view,
                         server>>
      BY <1>3 DEF OnMessageResponse
    <2>2. m \in Incoming /\ ChanShape' /\ Spending'
      BY <2>1, Takes DEF Shape
    <2>3. id \in Messages
      BY <2>1, <2>2 DEF Incoming
    <2>4. \/ UNCHANGED <<msg, results, reqs, unheard>>
          \/ (Settle(id, TRUE) \/ Settle(id, FALSE)) /\ UNCHANGED <<reqs, unheard>>
          \/ /\ msg' = [msg EXCEPT ![id] = "retried"]
             /\ reqs' = reqs \cup {r} \/ reqs' = reqs
             /\ unheard' = unheard \cup {id} \/ unheard' = unheard
             /\ UNCHANGED results
      <3>1. CASE msg[id] \notin {"pending", "retried"} \/ m.status = 100
        <4>1. m.status # 401 \/ msg[m.id] # "pending"
          BY <3>1
        <4>2. ~(msg[m.id] \in {"pending", "retried"} /\ m.status = 200)
          BY <3>1
        <4>3. UNCHANGED <<msg, results, reqs>>
          BY <1>3, <3>1, <4>1, <4>2, Zenon DEF OnMessageResponse
        <4>4. UNCHANGED unheard
          BY <1>3, <4>1, Zenon DEF OnMessageResponse
        <4> QED
          BY <4>3, <4>4
      <3>2. CASE msg[id] = "pending" /\ m.status = 401
        <4>1. /\ msg' = [msg EXCEPT ![id] = "retried"]
              /\ reqs' = IF CanSend THEN reqs \cup {r} ELSE reqs
              /\ unheard' = IF CanSend THEN unheard ELSE unheard \cup {id}
              /\ UNCHANGED results
          <5>1. m.status # 200 /\ m.status # 100
            BY <3>2
          <5>2. msg[m.id] \in {"pending", "retried"}
            BY <3>2
          <5> QED
            BY <1>3, <3>2, <5>1, <5>2, Zenon DEF OnMessageResponse
        <4> QED
          BY <4>1
      <3>3. CASE /\ msg[id] \in {"pending", "retried"} /\ m.status # 100
                 /\ ~(msg[id] = "pending" /\ m.status = 401)
        <4>1. Settle(id, TRUE) \/ Settle(id, FALSE)
          BY <1>3, <3>3 DEF OnMessageResponse
        <4>2. UNCHANGED reqs /\ UNCHANGED unheard
          BY <1>3, <3>3 DEF OnMessageResponse
        <4> QED
          BY <4>1, <4>2
      <3> QED
        BY <3>1, <3>2, <3>3
    <2>5. r \in Request /\ r.kind # "REGISTER"
      <3>1. r \in Request
        BY <2>3, RequestTypes DEF Shape, StackShape
      <3> QED
        BY <3>1 DEF TextMessage
    <2>6. RequestShape'
      BY <2>1, <2>4, <2>5, SendsOne, Unchanged DEF Shape
    <2>7. PubShape'
      BY <2>1, <2>3, <2>4 DEF Shape, PubShape
    <2>8. TextShape'
      <3>1. CASE UNCHANGED <<msg, results>>
        BY <3>1, Unchanged
      <3>2. CASE Settle(id, TRUE) \/ Settle(id, FALSE)
        BY <2>3, <3>2, Settles DEF Shape
      <3>3. CASE msg' = [msg EXCEPT ![id] = "retried"] /\ UNCHANGED results
        BY <3>3 DEF Shape, TextShape
      <3> QED
        BY <2>4, <3>1, <3>2, <3>3
    <2> QED
      BY <2>1, <2>2, <2>6, <2>7, <2>8, Unchanged DEF Shape
  <1> QED
    BY <1>1, <1>2, <1>3

-----------------------------------------------------------------------------
(* Commands and the client *)

LEMMA CommandTyped ==
    ASSUME Shape, HandleCommand
    PROVE  Shape'
  <1> USE DEF wire, stack, client
  <1> DEFINE c == Head(cmds)
  <1>1. /\ cmds # <<>> /\ cmds' = Tail(cmds)
        /\ UNCHANGED <<config, conn, broken, gen, reg, regState, chan, server, spent>>
    BY DEF HandleCommand
  <1>2. c \in Command /\ cmds' \in Seq(Command)
    BY <1>1, HeadTailProperties DEF Shape, ClientShape, ViewShape
  <1>3. CASE /\ c.cmd \in {"SubscribePresence", "SubscribeMwi"}
             /\ SubscribeTo(c.target)
             /\ UNCHANGED <<pub, msg, results, unheard>>
    <2>1. c.target \in Targets
      BY <1>2, <1>3 DEF Command
    <2>2. SubsShape' /\ RequestShape' /\ ViewShape'
      BY <1>1, <1>3, <2>1, Subscribes DEF Shape, ClientShape, ViewShape
    <2>3. ClientShape'
      BY <1>2, <2>2 DEF ClientShape, ViewShape
    <2> QED
      BY <1>1, <1>3, <2>2, <2>3, Unchanged DEF Shape
  <1>4. CASE /\ c.cmd = "UnsubscribePresence"
             /\ UnsubscribeFrom(c.target)
             /\ UNCHANGED <<pub, msg, results, unheard>>
    <2>1. c.target \in Targets
      BY <1>2, <1>4 DEF Command
    <2>2. SubsShape' /\ RequestShape'
      BY <1>1, <1>4, <2>1, Unsubscribes DEF Shape
    <2>3. ClientShape'
      BY <1>2, <1>4 DEF UnsubscribeFrom, Shape, ClientShape, ViewShape
    <2> QED
      BY <1>1, <1>4, <2>2, <2>3, Unchanged DEF Shape
  <1>5. CASE /\ c.cmd = "PublishPresence"
             /\ PublishOwnPresence(c.available)
             /\ UNCHANGED <<subs, msg, results, view>>
    <2>1. c.available \in BOOLEAN
      BY <1>2, <1>5 DEF Command
    <2>2. PubShape' /\ RequestShape'
      BY <1>1, <1>5, <2>1, Publishes DEF Shape
    <2>3. ClientShape'
      BY <1>2, <1>5 DEF Shape, ClientShape, ViewShape
    <2> QED
      BY <1>1, <1>5, <2>2, <2>3, Unchanged DEF Shape
  <1>6. CASE /\ c.cmd = "SendMessage"
             /\ SendMessage(c.msg)
             /\ UNCHANGED <<subs, pub, unheard, view>>
    <2>1. c.msg \in Messages
      BY <1>2, <1>6 DEF Command
    <2>2. TextShape' /\ RequestShape'
      BY <1>1, <1>6, <2>1, SendsText DEF Shape
    <2>3. ClientShape'
      BY <1>2, <1>6 DEF Shape, ClientShape, ViewShape
    <2> QED
      BY <1>1, <1>6, <2>2, <2>3, Unchanged DEF Shape
  <1> QED
    BY <1>3, <1>4, <1>5, <1>6 DEF HandleCommand

LEMMA UserTyped ==
    ASSUME Shape, UserStep
    PROVE  Shape'
  <1> USE DEF wire, stack, client
  <1>1. ASSUME NEW kind \in {"asks"}, Spend(kind), UNCHANGED <<config, conn, broken, gen>>
        PROVE  Spending'
    BY <1>1, Spends DEF Shape, StackShape, Spending
  <1>2. CASE UnsubscribeContactPresence
    <2>1. PICK c \in view.watch:
             /\ view' = [view EXCEPT !.watch = view.watch \ {c}, !.presence[c] = "none"]
             /\ cmds' = Append(cmds, [cmd |-> "UnsubscribePresence", target |-> c])
      BY <1>2 DEF UnsubscribeContactPresence
    <2>2. c \in Targets
      BY DEF Shape, ClientShape, ViewShape, Targets
    <2>3. [cmd |-> "UnsubscribePresence", target |-> c] \in Command
      BY <2>2 DEF Command
    <2>4. cmds' \in Seq(Command)
      BY <2>1, <2>3, AppendProperties DEF Shape, ClientShape, ViewShape
    <2>5. ClientShape'
      BY <2>1, <2>4 DEF Shape, ClientShape, ViewShape
    <2> QED
      BY <1>1, <1>2, <2>5, Unchanged DEF UnsubscribeContactPresence, Shape
  <1>3. CASE SubscribeContactPresence
    <2>1. PICK c \in Contacts \ view.watch:
             /\ view' = [view EXCEPT !.watch = view.watch \cup {c}]
             /\ cmds' = Append(cmds, SubscribeCommand(c))
      BY <1>3 DEF SubscribeContactPresence
    <2>2. SubscribeCommand(c) \in Command
      BY DEF SubscribeCommand, Command, Targets
    <2>3. cmds' \in Seq(Command)
      BY <2>1, <2>2, AppendProperties DEF Shape, ClientShape, ViewShape
    <2>4. ClientShape'
      BY <2>1, <2>3 DEF Shape, ClientShape, ViewShape
    <2> QED
      BY <1>1, <1>3, <2>4, Unchanged DEF SubscribeContactPresence, Shape
  <1>4. CASE ToggleDnd
    <2>1. view.dnd \in BOOLEAN
      BY DEF Shape, ClientShape, ViewShape
    <2>2. [cmd |-> "PublishPresence", available |-> view.dnd] \in Command
      BY <2>1 DEF Command
    <2>3. cmds' \in Seq(Command)
      BY <1>4, <2>2, AppendProperties DEF ToggleDnd, Shape, ClientShape, ViewShape
    <2>4. ClientShape'
      BY <1>4, <2>1, <2>3 DEF ToggleDnd, Shape, ClientShape, ViewShape
    <2> QED
      BY <1>1, <1>4, <2>4, Unchanged DEF ToggleDnd, Shape
  <1>5. CASE DoSendMessage
    <2>1. PICK m \in Messages:
             /\ msg' = [msg EXCEPT ![m] = "queued"]
             /\ cmds' = Append(cmds, [cmd |-> "SendMessage", msg |-> m])
      BY <1>5 DEF DoSendMessage
    <2>2. [cmd |-> "SendMessage", msg |-> m] \in Command
      BY DEF Command
    <2>3. cmds' \in Seq(Command)
      BY <2>1, <2>2, AppendProperties DEF Shape, ClientShape, ViewShape
    <2>4. ClientShape'
      BY <1>5, <2>3 DEF DoSendMessage, Shape, ClientShape, ViewShape
    <2>5. TextShape'
      BY <1>5, <2>1 DEF DoSendMessage, Shape, TextShape
    <2> QED
      BY <1>5, <2>4, <2>5, Unchanged DEF DoSendMessage, Shape
  <1> QED
    BY <1>2, <1>3, <1>4, <1>5 DEF UserStep

-----------------------------------------------------------------------------
(* The server and the wire *)

LEMMA ServeTyped ==
    ASSUME Shape, NEW r \in reqs, Serve(r)
    PROVE  Shape'
  <1> USE DEF wire, stack, client
  <1>1. r \in Request /\ IsFiniteSet(reqs \ {r})
    BY FS_RemoveElement DEF Shape, RequestShape
  <1>2. UNCHANGED <<config, conn, broken, gen, reg, regState, subs, pub, msg, cmds, view,
                    results, unheard>>
    BY DEF Serve
  <1>3. ASSUME NEW S \in SUBSET Incoming, IsFiniteSet(S), Replies(r, S)
        PROVE  RequestShape' /\ ChanShape'
    <2>1. RequestShape'
      BY <1>1, <1>2, <1>3 DEF Replies, Shape, RequestShape, RegistersKnown
    <2>2. ChanShape'
      BY <1>3, Arrives DEF Replies, Shape
    <2> QED
      BY <2>1, <2>2
  <1>4. ASSUME NEW status \in Status
        PROVE  /\ {Answer(r, status, 0)} \subseteq Incoming
               /\ IsFiniteSet({Answer(r, status, 0)})
    <2>1. Answer(r, status, 0) \in Incoming
      BY <1>1, AnswerType
    <2>2. IsFiniteSet({Answer(r, status, 0)})
      BY FS_Singleton, Zenon
    <2> QED
      BY <2>1, <2>2
  <1>5. CASE Challenges(r)
    <2>1. Replies(r, {Answer(r, 401, 0)}) /\ UNCHANGED <<server, spent>>
      BY <1>5 DEF Challenges
    <2>2. 401 \in Status
      BY DEF Status
    <2>3. RequestShape' /\ ChanShape'
      BY <1>3, <1>4, <2>1, <2>2
    <2> QED
      BY <1>2, <2>1, <2>3, Unchanged DEF Shape
  <1>6. CASE Refuses(r)
    <2>1. PICK status \in {401, 403, 500}: Replies(r, {Answer(r, status, 0)})
      BY <1>6 DEF Refuses
    <2>2. status \in Status
      BY DEF Status
    <2>3. RequestShape' /\ ChanShape'
      BY <1>3, <1>4, <2>1, <2>2
    <2>4. Spending'
      BY <1>2, <1>6, Spends DEF Refuses, Shape, StackShape, Spending
    <2>5. server' = [server EXCEPT !.active = server.active \ {r.sub}] \/ server' = server
      BY <1>6 DEF Refuses
    <2>6. ServerShape'
      BY <2>5 DEF Shape, ServerShape
    <2> QED
      BY <1>2, <2>3, <2>4, <2>6, Unchanged DEF Shape
  <1>7. CASE Trying100(r)
    <2>1. chan' = chan \cup {Answer(r, 100, 0)} /\ UNCHANGED <<reqs, server>>
      BY <1>7 DEF Trying100
    <2>2. 100 \in Status
      BY DEF Status
    <2>3. ChanShape'
      BY <1>4, <2>1, <2>2, Arrives DEF Shape
    <2>4. Spending'
      BY <1>2, <1>7, Spends DEF Trying100, Shape, StackShape, Spending
    <2> QED
      BY <1>2, <2>1, <2>3, <2>4, Unchanged DEF Shape
  <1>8. 200 \in Status /\ 412 \in Status
    BY DEF Status
  <1>9. CASE AcceptsRegister(r)
    <2>1. RequestShape' /\ ChanShape'
      BY <1>3, <1>4, <1>8, <1>9 DEF AcceptsRegister
    <2>2. r.gen \in 1..MaxBreaks + 1
      <3>1. gen \in 1..MaxBreaks + 1
        BY GenBound DEF Shape
      <3>2. r.gen \in 1..gen
        BY <1>9 DEF AcceptsRegister, Shape, RequestShape, RegistersKnown
      <3> QED
        BY <3>1, <3>2, BoundsAssumption
    <2>3. ServerShape'
      BY <1>9, <2>2 DEF AcceptsRegister, Shape, ServerShape
    <2> QED
      BY <1>2, <1>9, <2>1, <2>3, Unchanged DEF AcceptsRegister, Shape
  <1>10. CASE AcceptsSubscribe(r)
    <2>1. r.kind = "SUBSCRIBE"
      BY <1>10 DEF AcceptsSubscribe
    <2>2. r.sub \in SubIds /\ r.target \in Targets /\ r.on \in BOOLEAN
      BY <1>1, <2>1 DEF Request
    <2>3. server.actual[r.target] \in Presence
      BY <2>2 DEF Shape, ServerShape
    <2> DEFINE a == Answer(r, 200, 0)
               n == Notify(r.sub, server.actual[r.target], ~r.on)
    <2>4. a \in Incoming /\ n \in Incoming
      BY <1>4, <1>8, <2>2, <2>3, NotifyType
    <2>5. IsFiniteSet({a, n})
      <3> HIDE DEF a, n
      <3>1. IsFiniteSet({a} \cup {n})
        BY FS_Singleton, FS_AddElement
      <3>2. {a} \cup {n} = {a, n}
        OBVIOUS
      <3> QED
        BY <3>1, <3>2, Zenon
    <2>6. Replies(r, {a, n})
      BY <1>10 DEF AcceptsSubscribe
    <2>7. RequestShape' /\ ChanShape'
      <3> HIDE DEF a, n
      <3> QED
        BY <1>3, <2>4, <2>5, <2>6
    <2>8. ServerShape'
      <3>1. (IF r.on THEN server.active \cup {r.sub} ELSE server.active \ {r.sub})
               \in SUBSET SubIds
        BY <2>2 DEF Shape, ServerShape
      <3> QED
        BY <1>10, <3>1 DEF AcceptsSubscribe, Shape, ServerShape
    <2> QED
      BY <1>2, <1>10, <2>7, <2>8, Unchanged DEF AcceptsSubscribe, Shape
  <1>11. CASE AcceptsPublish(r)
    <2> DEFINE old == {p \in server.published: p.etag = r.etag}
               new == [etag |-> FreshTag, available |-> r.available]
    <2>1. r.kind = "PUBLISH" /\ spent' = spent
      BY <1>11 DEF AcceptsPublish
    <2>2. \/ Replies(r, {Answer(r, 412, 0)}) /\ UNCHANGED server
          \/ /\ Replies(r, {Answer(r, 200, new.etag)})
             /\ server' = [server EXCEPT !.published = (server.published \ old) \cup {new}]
      BY <1>11 DEF AcceptsPublish
    <2>3. FreshTag \in Nat
      BY FreshNames DEF Finite, Shape, RequestShape, ChanShape, ServerShape
    <2>4. new \in [etag: Nat, available: BOOLEAN] /\ new.etag \in Nat
      BY <1>1, <2>1, <2>3 DEF Request
    <2>5. CASE Replies(r, {Answer(r, 412, 0)}) /\ UNCHANGED server
      <3>1. RequestShape' /\ ChanShape'
        BY <1>3, <1>4, <1>8, <2>5
      <3> QED
        BY <1>2, <2>1, <2>5, <3>1, Unchanged DEF Shape
    <2>6. CASE /\ Replies(r, {Answer(r, 200, new.etag)})
               /\ server' = [server EXCEPT !.published =
                                (server.published \ old) \cup {new}]
      <3>1. Answer(r, 200, new.etag) \in Incoming
        BY <1>1, <1>8, <2>1, <2>4, AnswerType
      <3>2. IsFiniteSet({Answer(r, 200, new.etag)})
        BY FS_Singleton
      <3>3. RequestShape' /\ ChanShape'
        BY <1>3, <2>6, <3>1, <3>2
      <3>4. IsFiniteSet((server.published \ old) \cup {new})
        <4>1. IsFiniteSet(server.published \ old)
          BY FS_Subset DEF Shape, ServerShape
        <4> QED
          BY <4>1, FS_AddElement
      <3>5. ServerShape'
        <4> HIDE DEF new, old
        <4>1. (server.published \ old) \cup {new} \subseteq [etag: Nat, available: BOOLEAN]
          BY <2>4 DEF Shape, ServerShape
        <4> QED
          BY <2>6, <3>4, <4>1 DEF Shape, ServerShape
      <3> QED
        BY <1>2, <2>1, <3>3, <3>5, Unchanged DEF Shape
    <2> QED
      BY <2>2, <2>5, <2>6
  <1>12. CASE AcceptsMessage(r)
    <2>1. RequestShape' /\ ChanShape'
      BY <1>3, <1>4, <1>8, <1>12 DEF AcceptsMessage
    <2>2. r.msg \in Messages
      BY <1>1, <1>12 DEF AcceptsMessage, Request
    <2>3. ServerShape'
      BY <1>12, <2>2 DEF AcceptsMessage, Shape, ServerShape
    <2> QED
      BY <1>2, <1>12, <2>1, <2>3, Unchanged DEF AcceptsMessage, Shape
  <1> QED
    BY <1>5, <1>6, <1>7, <1>9, <1>10, <1>11, <1>12 DEF Serve, Accepts

LEMMA ServerTyped ==
    ASSUME Shape, TargetChanges \/ ServerTerminates \/ ServerForgets \/ PeerSendsText
    PROVE  Shape'
  <1> USE DEF wire, stack, client
  <1>1. ASSUME NEW kind \in {"asks", "refusals"}, Spend(kind),
               UNCHANGED <<config, conn, broken, gen>>
        PROVE  Spending'
    BY <1>1, Spends DEF Shape, StackShape, Spending
  <1>2. CASE TargetChanges
    <2>1. PICK t \in AccountTargets, p \in Presence:
             /\ server' = [server EXCEPT !.actual[t] = p]
             /\ chan' = chan \cup {Notify(i, p, FALSE):
                                     i \in {i \in server.active: subs[i].target = t}}
      BY <1>2 DEF TargetChanges
    <2>2. t \in Targets
      BY DEF AccountTargets, Followable, Targets, Shape, ClientShape, ViewShape
    <2> DEFINE watching == {i \in server.active: subs[i].target = t}
               S == {Notify(i, p, FALSE): i \in watching}
    <2>3. IsFiniteSet(watching)
      BY FiniteAssumption, FS_Subset DEF Shape, ServerShape
    <2>4. [i \in watching |-> Notify(i, p, FALSE)] \in Surjection(watching, S)
      BY DEF Surjection
    <2>5. IsFiniteSet(S)
      BY <2>3, <2>4, FS_Surjection
    <2>6. S \subseteq Incoming
      BY NotifyType DEF Shape, ServerShape
    <2>7. ChanShape'
      BY <2>1, <2>5, <2>6, Arrives DEF Shape
    <2>8. ServerShape'
      BY <2>1, <2>2 DEF Shape, ServerShape
    <2> QED
      BY <1>1, <1>2, <2>7, <2>8, Unchanged DEF TargetChanges, Shape
  <1>3. CASE ServerTerminates
    <2>1. PICK i \in server.active:
             /\ subs[i] # NoSub
             /\ server' = [server EXCEPT !.active = server.active \ {i}]
             /\ chan' = chan \cup {Notify(i, server.actual[subs[i].target], TRUE)}
      BY <1>3 DEF ServerTerminates
    <2> DEFINE p == server.actual[subs[i].target]
    <2>2. i \in SubIds
      BY DEF Shape, ServerShape
    <2>3. subs[i].target \in Targets
      BY <2>1, <2>2 DEF Shape, SubsShape, Subscription
    <2>4. p \in Presence
      BY <2>3 DEF Shape, ServerShape
    <2>5. Notify(i, p, TRUE) \in Incoming
      BY <2>2, <2>4, NotifyType
    <2>6. ChanShape'
      BY <2>1, <2>5, FS_AddElement DEF Shape, ChanShape
    <2>7. ServerShape'
      BY <2>1 DEF Shape, ServerShape
    <2> QED
      BY <1>1, <1>3, <2>6, <2>7, Unchanged DEF ServerTerminates, Shape
  <1>4. CASE ServerForgets
    <2>1. PICK i \in server.active: server' = [server EXCEPT !.active = server.active \ {i}]
      BY <1>4 DEF ServerForgets
    <2>2. ServerShape'
      BY <2>1 DEF Shape, ServerShape
    <2> QED
      BY <1>4, <2>2, Unchanged DEF ServerForgets, Shape
  <1>5. CASE PeerSendsText
    <2>1. ChanShape'
      BY <1>5, NotifyType, FS_AddElement DEF PeerSendsText, Shape, ChanShape
    <2> QED
      BY <1>1, <1>5, <2>1, Unchanged DEF PeerSendsText, Shape
  <1> QED
    BY <1>2, <1>3, <1>4, <1>5

LEMMA LossTyped ==
    ASSUME Shape, LoseRequest
    PROVE  Shape'
  <1> USE DEF wire, stack, client
  <1>1. PICK r \in reqs: reqs' = reqs \ {r} /\ Unheard(r.kind, CallIdOf(r))
    BY DEF LoseRequest
  <1>2. /\ Spend("faults")
        /\ UNCHANGED <<config, conn, broken, gen, reg, regState, subs, pub, msg, cmds,
                       view, results, chan, server>>
    BY DEF LoseRequest
  <1>3. RequestShape'
    BY <1>1, <1>2, FS_RemoveElement DEF Shape, RequestShape, RegistersKnown
  <1>4. PubShape'
    <2>1. r \in Request
      BY DEF Shape, RequestShape
    <2>2. r.kind = "MESSAGE" => CallIdOf(r) \in Messages
      <3>1. r.kind = "MESSAGE" => CallIdOf(r) = r.msg
        BY DEF CallIdOf
      <3> QED
        BY <2>1, <3>1 DEF Request
    <2> QED
      BY <1>1, <1>2, <2>2, Misses DEF Shape
  <1>5. Spending'
    BY <1>2, Spends DEF Shape, StackShape, Spending
  <1> QED
    BY <1>2, <1>3, <1>4, <1>5, Unchanged DEF Shape

LEMMA NextTyped == Typed /\ [Next]_vars => Typed'
  <1> SUFFICES ASSUME Shape, [Next]_vars PROVE Shape'
    <2>1. Shape' <=> Typed'
      BY ShapeIsTyped, PTL
    <2> QED
      BY <2>1, ShapeIsTyped
  <1>1. CASE RegisterStep
    BY <1>1, RegisterTyped
  <1>2. CASE StackStep
    BY <1>2, TickTyped, CommandTyped, TransportTyped, PublishTyped,
       SubscriptionTyped, TextTyped DEF StackStep, Receive
  <1>3. CASE ConnectStep
    BY <1>3, TransportTyped DEF ConnectStep
  <1>4. CASE TimeStep
    BY <1>4, PublishTyped, SubscriptionTyped DEF TimeStep
  <1>5. CASE UserStep
    BY <1>5, UserTyped
  <1>6. CASE ServerStep
    BY <1>6, ServeTyped, ServerTyped DEF ServerStep
  <1>7. CASE LoseRequest \/ Break
    BY <1>7, LossTyped, TransportTyped
  <1>8. CASE UNCHANGED vars
    BY <1>8, Unchanged DEF vars, stack, client, wire, Shape
  <1> QED
    BY <1>1, <1>2, <1>3, <1>4, <1>5, <1>6, <1>7, <1>8 DEF Next

LEMMA TypedAlways == Spec => []Typed
  BY InitTyped, NextTyped, PTL DEF Spec

(* An account keeps its types: whatever fails, is lost or copied, its maps, *)
(* queue and counters hold what their Rust types say, the number of a stack *)
(* never exceeds what dead transports account for, and no step spends what  *)
(* is not left.                                                             *)
THEOREM TypeCorrect == Spec => []TypeOK
  <1>1. Typed => TypeOK
    BY DEF Typed
  <1> QED
    BY <1>1, TypedAlways, PTL

-----------------------------------------------------------------------------
(* An account that takes itself for registered is.  Inductive with: every  *)
(* 200 on its way was accepted, and a stack that is down, whose number the *)
(* next will not have, has left nobody in the belief that it is registered. *)

AcceptedBound ==
    \A m \in chan: m.type = "REGISTER" /\ m.status = 200 => m.id \in server.bound
DownUnregistered == conn # Up => regState = "never" /\ (view.regOk => config.local)
Told == ToldRegistered /\ AcceptedBound /\ DownUnregistered

(* Steps that have no part in a registration.                               *)
Apart ==
    /\ UNCHANGED <<config, conn, gen, regState>>
    /\ view'.regOk = view.regOk
    /\ server.bound \subseteq server'.bound
    /\ \A m \in chan' \ chan: m.type # "REGISTER" \/ m.status # 200

LEMMA ApartTold ==
    ASSUME Told, Apart
    PROVE  Told'
  <1>1. ToldRegistered'
    BY DEF Told, ToldRegistered, Apart
  <1>2. AcceptedBound'
    BY DEF Told, AcceptedBound, Apart
  <1>3. DownUnregistered'
    BY DEF Told, DownUnregistered, Apart
  <1> QED
    BY <1>1, <1>2, <1>3 DEF Told

LEMMA ShowsApart ==
    ASSUME ViewShape, NEW t \in Targets,
           (\E p \in Presence: Show(t, p)) \/ HearSubscribeFailed(t)
    PROVE  view'.regOk = view.regOk
  BY DEF ViewShape, Show, HearSubscribeFailed

LEMMA TakesLess ==
    ASSUME NEW m, Take(m)
    PROVE  m \in chan /\ chan' \subseteq chan
  BY DEF Take

LEMMA EndsTold ==
    ASSUME Typed, Told, Running, UNCHANGED <<config, conn, gen, server>>, chan' \subseteq chan,
           NEW state \in {"registered", "failed", "permanent"}, RegistrationEnds(state),
           state = "registered" => gen \in server.bound
    PROVE  Told'
  <1>1. regState' = state /\ (state # "registered" => view'.regOk = FALSE)
    BY DEF RegistrationEnds, HearRegistrationFailed, Typed, TypeOK
  <1>2. ToldRegistered'
    BY <1>1 DEF Told, ToldRegistered
  <1>3. AcceptedBound'
    BY DEF Told, AcceptedBound
  <1>4. DownUnregistered'
    BY DEF DownUnregistered, Running
  <1> QED
    BY <1>2, <1>3, <1>4 DEF Told

LEMMA SendRegisterTold ==
    ASSUME Typed, Told, Running, UNCHANGED <<config, conn, gen, server>>, chan' \subseteq chan,
           NEW auth, NEW stage, SendRegister(auth, stage)
    PROVE  Told'
  <1>1. CASE CanSend
    <2>1. UNCHANGED <<regState, view>>
      BY <1>1 DEF SendRegister, client
    <2> QED
      BY <2>1, ApartTold DEF Apart
  <1>2. CASE ~CanSend
    BY <1>2, EndsTold DEF SendRegister
  <1> QED
    BY <1>1, <1>2

LEMMA RegisterTold ==
    ASSUME Typed, Told, RegisterStep
    PROVE  Told'
  <1> USE DEF stack, client, wire
  <1>1. CASE RegisterDue
    BY <1>1, SendRegisterTold DEF RegisterDue, Listening
  <1>2. CASE RegisterTimesOut
    BY <1>2, EndsTold DEF RegisterTimesOut
  <1>3. ASSUME NEW m \in chan, RegisterAnswered(m) PROVE Told'
    <2>1. /\ Running /\ m.type = "REGISTER" /\ m.id = gen
          /\ chan' \subseteq chan
          /\ UNCHANGED <<config, conn, gen, server>>
      BY <1>3, TakesLess DEF RegisterAnswered, OwnAnswer
    <2>2. CASE m.status = 200
      <3>1. gen \in server.bound
        BY <2>1, <2>2 DEF Told, AcceptedBound
      <3>2. RegistrationEnds("registered")
        BY <1>3, <2>2 DEF RegisterAnswered
      <3> QED
        BY <2>1, <3>1, <3>2, EndsTold
    <2>3. CASE m.status # 200
      <3>1. \/ SendRegister(TRUE, "second")
            \/ RegistrationEnds("permanent")
            \/ RegistrationEnds("failed")
        BY <1>3, <2>3 DEF RegisterAnswered
      <3> QED
        BY <2>1, <3>1, EndsTold, SendRegisterTold
    <2> QED
      BY <2>2, <2>3
  <1>4. ASSUME NEW m \in chan, RegisterDiscards(m) PROVE Told'
    BY <1>4, ApartTold DEF RegisterDiscards, Apart
  <1> QED
    BY <1>1, <1>2, <1>3, <1>4 DEF RegisterStep

LEMMA TransportTold ==
    ASSUME Typed, Told, Break \/ StackDies \/ WakeUp \/ CandidateFails \/ Reconnect
    PROVE  Told'
  <1> USE DEF stack, client, wire
  <1>1. CASE Break
    BY <1>1, ApartTold DEF Break, Apart
  <1>2. CASE StackDies
    <2>1. /\ regState' = "never" /\ view'.regOk = FALSE
          /\ UNCHANGED <<config, gen, chan, server>>
      BY <1>2 DEF StackDies, HearRegistrationFailed, Typed, TypeOK
    <2> QED
      BY <2>1 DEF Told, ToldRegistered, AcceptedBound, DownUnregistered
  <1>3. CASE WakeUp \/ CandidateFails
    <2>1. conn # Up
      BY <1>3 DEF WakeUp, CandidateFails, Up, Waiting
    <2>2. UNCHANGED <<config, gen, regState, view, chan, server>>
      BY <1>3 DEF WakeUp, CandidateFails
    <2> QED
      BY <2>1, <2>2 DEF Told, ToldRegistered, AcceptedBound, DownUnregistered
  <1>4. CASE Reconnect
    <2>1. conn # Up /\ conn' = Up
      BY <1>4 DEF Reconnect, Up
    <2>2. UNCHANGED <<config, regState, chan, server>> /\ (~config.local => UNCHANGED view)
      BY <1>4 DEF Reconnect
    <2>3. ToldRegistered'
      BY <2>1, <2>2 DEF Told, ToldRegistered, DownUnregistered
    <2> QED
      BY <2>1, <2>2, <2>3 DEF Told, AcceptedBound, DownUnregistered
  <1> QED
    BY <1>1, <1>2, <1>3, <1>4

LEMMA StackApart ==
    ASSUME Shape, Tick \/ HandleCommand \/ Receive \/ TimeStep
    PROVE  Apart
  <1> USE DEF stack, client, wire
  <1>1. CASE Tick \/ TimeStep
    BY <1>1 DEF Tick, TimeStep, PublishExpires, SubscriptionExpires, Apart
  <1>2. CASE HandleCommand
    <2> DEFINE c == Head(cmds)
    <2>1. cmds # <<>> /\ UNCHANGED <<config, conn, gen, regState, chan, server>>
      BY <1>2 DEF HandleCommand
    <2>2. c \in Command
      BY <2>1, HeadTailProperties DEF Shape, ClientShape
    <2>3. \/ UNCHANGED view
          \/ /\ c.cmd \in {"SubscribePresence", "SubscribeMwi"}
             /\ HearSubscribeFailed(c.target)
      BY <1>2 DEF HandleCommand, SubscribeTo, UnsubscribeFrom
    <2>4. c.cmd \in {"SubscribePresence", "SubscribeMwi"} => c.target \in Targets
      BY <2>2 DEF Command
    <2>5. view'.regOk = view.regOk
      BY <2>3, <2>4, ShowsApart DEF Shape, ClientShape
    <2> QED
      BY <2>1, <2>5 DEF Apart
  <1>3. CASE Receive
    <2>1. CASE OnMessage
      BY <2>1, TakesLess DEF OnMessage, Apart
    <2>2. ASSUME NEW m \in chan, OnPublishResponse(m) \/ OnMessageResponse(m) \/ OnLateRegister(m)
          PROVE  Apart
      BY <2>2, TakesLess DEF OnPublishResponse, OnMessageResponse, OnLateRegister, Apart
    <2>3. ASSUME NEW m \in chan, OnSubscribeResponse(m) \/ OnNotify(m)
          PROVE  Apart
      <3> DEFINE t == subs[m.id].target
      <3>1. /\ chan' \subseteq chan
            /\ UNCHANGED <<config, conn, gen, regState, server>>
        BY <2>3, TakesLess DEF OnSubscribeResponse, OnNotify
      <3>2. m \in Incoming /\ m.type \in {"SUBSCRIBE", "NOTIFY"}
        BY <2>3 DEF OnSubscribeResponse, OnNotify, Shape, ChanShape
      <3>3. m.id \in SubIds /\ (m.type = "NOTIFY" => m.state \in Presence)
        BY <3>2 DEF Incoming
      <3>4. \/ UNCHANGED view
            \/ /\ subs[m.id] # NoSub
               /\ HearSubscribeFailed(t) \/ (m.type = "NOTIFY" /\ Show(t, m.state))
        <4>1. CASE OnSubscribeResponse(m)
          BY <4>1 DEF OnSubscribeResponse, SubscriptionFails
        <4>2. CASE OnNotify(m)
          BY <4>2 DEF OnNotify
        <4> QED
          BY <2>3, <4>1, <4>2
      <3>5. subs[m.id] # NoSub => t \in Targets
        BY <3>3 DEF Shape, SubsShape, Subscription
      <3>6. view'.regOk = view.regOk
        BY <3>3, <3>4, <3>5, ShowsApart DEF Shape, ClientShape
      <3> QED
        BY <3>1, <3>6 DEF Apart
    <2> QED
      BY <1>3, <2>1, <2>2, <2>3 DEF Receive
  <1> QED
    BY <1>1, <1>2, <1>3

LEMMA UserApart ==
    ASSUME Shape, UserStep
    PROVE  Apart
  <1> USE DEF stack, client, wire
  <1>1. view'.regOk = view.regOk
    BY DEF UserStep, UnsubscribeContactPresence, SubscribeContactPresence, ToggleDnd,
           DoSendMessage, Shape, ClientShape, ViewShape
  <1>2. UNCHANGED <<config, conn, gen, regState, chan, server>>
    BY DEF UserStep, UnsubscribeContactPresence, SubscribeContactPresence, ToggleDnd,
           DoSendMessage
  <1> QED
    BY <1>1, <1>2 DEF Apart

LEMMA ServerTold ==
    ASSUME Shape, Told, ServerStep \/ LoseRequest
    PROVE  Told'
  <1> USE DEF stack, client, wire
  <1>1. CASE LoseRequest
    BY <1>1, ApartTold DEF LoseRequest, Apart
  <1>2. CASE TargetChanges \/ ServerTerminates \/ ServerForgets \/ PeerSendsText
    <2>1. UNCHANGED <<config, conn, gen, regState, view>>
      BY <1>2 DEF TargetChanges, ServerTerminates, ServerForgets, PeerSendsText
    <2>2. server'.bound = server.bound
      BY <1>2 DEF TargetChanges, ServerTerminates, ServerForgets, PeerSendsText,
                  Shape, ServerShape
    <2>3. \A m \in chan' \ chan: m.type # "REGISTER"
      BY <1>2 DEF TargetChanges, ServerTerminates, ServerForgets, PeerSendsText,
                  Notify, Text
    <2> QED
      BY <2>1, <2>2, <2>3, ApartTold DEF Apart
  <1>3. ASSUME NEW r \in reqs, Serve(r) PROVE Told'
    <2>1. UNCHANGED <<config, conn, gen, regState, view>>
      BY <1>3 DEF Serve
    <2>2. ASSUME NEW status, NEW etag PROVE
            /\ Answer(r, status, etag).type = r.kind
            /\ Answer(r, status, etag).status = status
            /\ Answer(r, status, etag).id = CallIdOf(r)
      BY DEF Answer
    <2>3. CASE Challenges(r) \/ Refuses(r) \/ Trying100(r)
      <3>1. \E status \in {100, 401, 403, 500}:
               chan' = chan \cup {Answer(r, status, 0)}
        BY <2>3 DEF Challenges, Refuses, Trying100, Replies
      <3>2. server'.bound = server.bound
        BY <2>3 DEF Challenges, Refuses, Trying100, Shape, ServerShape
      <3>3. \A m \in chan' \ chan: m.status # 200
        BY <2>2, <3>1
      <3> QED
        BY <2>1, <3>2, <3>3, ApartTold DEF Apart
    <2>4. CASE AcceptsSubscribe(r) \/ AcceptsPublish(r) \/ AcceptsMessage(r)
      <3>1. r.kind # "REGISTER"
        BY <2>4 DEF AcceptsSubscribe, AcceptsPublish, AcceptsMessage
      <3>2. \A m \in chan' \ chan:
               m.type = "NOTIFY" \/ \E status, etag: m = Answer(r, status, etag)
        BY <2>4 DEF AcceptsSubscribe, AcceptsPublish, AcceptsMessage, Replies, Notify
      <3>3. server'.bound = server.bound
        BY <2>4 DEF AcceptsSubscribe, AcceptsPublish, AcceptsMessage, Shape, ServerShape
      <3> QED
        BY <2>1, <2>2, <3>1, <3>2, <3>3, ApartTold DEF Apart
    <2>5. CASE AcceptsRegister(r)
      <3>1. /\ r.kind = "REGISTER"
            /\ chan' = chan \cup {Answer(r, 200, 0)}
            /\ server'.bound = server.bound \cup {r.gen}
        BY <2>5 DEF AcceptsRegister, Replies, Shape, ServerShape
      <3>2. CallIdOf(r) = r.gen
        BY <3>1 DEF CallIdOf
      <3>3. AcceptedBound'
        BY <2>2, <3>1, <3>2 DEF Told, AcceptedBound
      <3>4. ToldRegistered' /\ DownUnregistered'
        BY <2>1, <3>1 DEF Told, ToldRegistered, DownUnregistered
      <3> QED
        BY <3>3, <3>4 DEF Told
    <2> QED
      BY <1>3, <2>3, <2>4, <2>5 DEF Serve, Accepts
  <1> QED
    BY <1>1, <1>2, <1>3 DEF ServerStep

LEMMA InitTold == Init => Told
  <1> SUFFICES ASSUME Init PROVE Told
    OBVIOUS
  <1>1. conn = Up /\ chan = {} /\ regState = "never"
    BY DEF Init
  <1>2. PICK w: view = [regOk |-> config.local, dnd |-> config.dnd, watch |-> w,
                        presence |-> [t \in Targets |-> "none"]]
    BY DEF Init
  <1>3. view.regOk = config.local
    BY <1>2
  <1> QED
    BY <1>1, <1>3 DEF Told, ToldRegistered, AcceptedBound, DownUnregistered

LEMMA NextTold == Typed /\ Told /\ [Next]_vars => Told'
  <1> SUFFICES ASSUME Typed, Told, [Next]_vars PROVE Told'
    OBVIOUS
  <1>1. Shape
    BY ShapeIsTyped
  <1>2. CASE RegisterStep
    BY <1>2, RegisterTold
  <1>3. CASE StackStep
    BY <1>1, <1>3, StackApart, ApartTold, TransportTold DEF StackStep
  <1>4. CASE ConnectStep
    BY <1>4, TransportTold DEF ConnectStep
  <1>5. CASE TimeStep
    BY <1>1, <1>5, StackApart, ApartTold
  <1>6. CASE UserStep
    BY <1>1, <1>6, UserApart, ApartTold
  <1>7. CASE ServerStep \/ LoseRequest
    BY <1>1, <1>7, ServerTold
  <1>8. CASE Break
    BY <1>8, TransportTold
  <1>9. CASE UNCHANGED vars
    BY <1>9, ApartTold DEF vars, stack, client, wire, Apart
  <1> QED
    BY <1>2, <1>3, <1>4, <1>5, <1>6, <1>7, <1>8, <1>9 DEF Next

(* A stack that takes itself for registered, and a client that shows the    *)
(* account as registered, are right, whatever was lost, late or copied and  *)
(* however many stacks it took: an answer to a REGISTER of a stack before   *)
(* does not register this one (register_once, recv_reg_response).           *)
THEOREM RegisteredTruly == Spec => []ToldRegistered
  <1>1. Told => ToldRegistered
    BY DEF Told
  <1> QED
    BY <1>1, TypedAlways, InitTold, NextTold, PTL DEF Spec

-----------------------------------------------------------------------------
(* What the client is told of its text messages.  Inductive with: a         *)
(* message waits in the queue once, and only before it is sent; it is told  *)
(* of exactly when it is settled; every 200 on its way was earned.          *)

Sends(c, m) == c.cmd = "SendMessage" /\ c.msg = m
TextQueued ==
    \A n \in DOMAIN cmds, m \in Messages: Sends(cmds[n], m) => msg[m] = "queued"
TextOnce ==
    \A n, k \in DOMAIN cmds, m \in Messages:
        Sends(cmds[n], m) /\ Sends(cmds[k], m) => n = k
ToldOnce == \A m \in Messages: results[m] = IF msg[m] \in {"ok", "failed"} THEN 1 ELSE 0
AcceptedDelivered ==
    /\ \A m \in chan: m.type = "MESSAGE" /\ m.status = 200 => m.id \in server.delivered
    /\ \A m \in Messages: msg[m] = "ok" => m \in server.delivered
Queue == TextQueued /\ TextOnce
TextsTold == ToldOnce /\ AcceptedDelivered

LEMMA QueueKept ==
    ASSUME Queue, UNCHANGED cmds,
           \A m \in Messages: msg[m] = "queued" => msg'[m] = "queued"
    PROVE  Queue'
  BY DEF Queue, TextQueued, TextOnce

LEMMA QueueGrows ==
    ASSUME cmds \in Seq(Command), Queue, UNCHANGED msg,
           NEW s \in Seq(Command), \A n \in DOMAIN s: s[n].cmd # "SendMessage",
           cmds' = cmds \o s
    PROVE  Queue'
  <1>1. /\ Len(cmds) \in Nat /\ Len(s) \in Nat
        /\ DOMAIN cmds = 1..Len(cmds) /\ DOMAIN s = 1..Len(s)
    BY LenProperties
  <1>2. /\ cmds' \in Seq(Command) /\ Len(cmds') = Len(cmds) + Len(s)
        /\ \A n \in 1..Len(cmds) + Len(s):
              cmds'[n] = IF n <= Len(cmds) THEN cmds[n] ELSE s[n - Len(cmds)]
    BY ConcatProperties
  <1>3. DOMAIN cmds' = 1..Len(cmds) + Len(s)
    BY <1>2, LenProperties
  <1>4. ASSUME NEW n \in DOMAIN cmds', cmds'[n].cmd = "SendMessage"
        PROVE  n \in DOMAIN cmds /\ cmds'[n] = cmds[n]
    <2>1. CASE n <= Len(cmds)
      BY <1>1, <1>2, <1>3, <2>1
    <2>2. CASE ~(n <= Len(cmds))
      <3>1. cmds'[n] = s[n - Len(cmds)] /\ n - Len(cmds) \in 1..Len(s)
        BY <1>1, <1>2, <1>3, <2>2
      <3> QED
        BY <1>1, <1>4, <3>1
    <2> QED
      BY <2>1, <2>2
  <1>5. TextQueued'
    <2> SUFFICES ASSUME NEW n \in DOMAIN cmds', NEW m \in Messages, Sends(cmds'[n], m)
                 PROVE  msg'[m] = "queued"
      BY DEF TextQueued
    <2>1. n \in DOMAIN cmds /\ Sends(cmds[n], m)
      BY <1>4 DEF Sends
    <2> QED
      BY <2>1 DEF Queue, TextQueued
  <1>6. TextOnce'
    BY <1>4 DEF Queue, TextOnce, Sends
  <1> QED
    BY <1>5, <1>6 DEF Queue

LEMMA QueueTaken ==
    ASSUME cmds \in Seq(Command), Queue, cmds # <<>>, cmds' = Tail(cmds),
           \A m \in Messages: msg'[m] = msg[m] \/ Sends(Head(cmds), m)
    PROVE  Queue'
  <1>1. Len(cmds) \in Nat /\ DOMAIN cmds = 1..Len(cmds) /\ Len(cmds) # 0
    BY LenProperties, EmptySeq
  <1>2. /\ cmds' \in Seq(Command) /\ Len(cmds') = Len(cmds) - 1
        /\ \A n \in 1..Len(cmds'): cmds'[n] = cmds[n + 1]
    BY HeadTailProperties
  <1>3. DOMAIN cmds' = 1..Len(cmds) - 1
    BY <1>1, <1>2, LenProperties
  <1>4. \A n \in DOMAIN cmds': cmds'[n] = cmds[n + 1] /\ n + 1 \in DOMAIN cmds
    BY <1>1, <1>2, <1>3
  <1>5. Head(cmds) = cmds[1] /\ 1 \in DOMAIN cmds
    BY <1>1
  <1>6. ASSUME NEW n \in DOMAIN cmds', NEW m \in Messages, Sends(cmds'[n], m)
        PROVE  msg'[m] = "queued"
    <2>1. Sends(cmds[n + 1], m) /\ n + 1 \in DOMAIN cmds /\ n + 1 # 1
      BY <1>1, <1>3, <1>4, <1>6
    <2>2. msg[m] = "queued"
      BY <2>1 DEF Queue, TextQueued
    <2>3. ~Sends(Head(cmds), m)
      BY <1>5, <2>1 DEF Queue, TextOnce
    <2> QED
      BY <2>2, <2>3
  <1>7. TextOnce'
    <2> SUFFICES ASSUME NEW n \in DOMAIN cmds', NEW k \in DOMAIN cmds', NEW m \in Messages,
                        Sends(cmds'[n], m), Sends(cmds'[k], m)
                 PROVE  n = k
      BY DEF TextOnce
    <2>1. n + 1 = k + 1
      BY <1>4 DEF Queue, TextOnce
    <2> QED
      BY <1>1, <1>3, <2>1
  <1> QED
    BY <1>6, <1>7 DEF Queue, TextQueued

LEMMA QueueSends ==
    ASSUME cmds \in Seq(Command), Queue, NEW m \in Messages, msg[m] = "idle",
           TextShape, msg' = [msg EXCEPT ![m] = "queued"],
           cmds' = Append(cmds, [cmd |-> "SendMessage", msg |-> m])
    PROVE  Queue'
  <1> DEFINE c == [cmd |-> "SendMessage", msg |-> m]
  <1>1. c \in Command /\ c.cmd = "SendMessage" /\ c.msg = m
    BY DEF Command
  <1>2. Len(cmds) \in Nat /\ DOMAIN cmds = 1..Len(cmds)
    BY LenProperties
  <1>3. /\ cmds' \in Seq(Command) /\ Len(cmds') = Len(cmds) + 1
        /\ \A n \in 1..Len(cmds): cmds'[n] = cmds[n]
        /\ cmds'[Len(cmds) + 1] = c
    BY <1>1, AppendProperties
  <1>4. DOMAIN cmds' = 1..Len(cmds) + 1
    BY <1>3, LenProperties
  <1>5. \A n \in DOMAIN cmds': \/ n \in DOMAIN cmds /\ cmds'[n] = cmds[n]
                               \/ n = Len(cmds) + 1 /\ cmds'[n] = c
    BY <1>2, <1>3, <1>4
  <1>6. \A n \in DOMAIN cmds: ~Sends(cmds[n], m)
    BY DEF Queue, TextQueued
  <1>7. \A k \in Messages: msg'[k] = IF k = m THEN "queued" ELSE msg[k]
    BY DEF TextShape
  <1>8. \A k \in Messages: Sends(c, k) => k = m
    BY <1>1 DEF Sends
  <1>9. TextQueued'
    <2> HIDE DEF c
    <2> QED
      BY <1>5, <1>7, <1>8 DEF Queue, TextQueued
  <1>10. TextOnce'
    <2> HIDE DEF c
    <2> QED
      BY <1>5, <1>6, <1>8 DEF Queue, TextOnce
  <1> QED
    BY <1>9, <1>10 DEF Queue

LEMMA QueueHears ==
    ASSUME Shape, Queue, UNCHANGED msg, HearRegistered \/ HearRegistrationFailed
    PROVE  Queue'
  <1>1. CASE HearRegistered
    <2>1. /\ SubscribeAll(view.watch) \in Seq(Command)
          /\ \A n \in DOMAIN SubscribeAll(view.watch):
                SubscribeAll(view.watch)[n].cmd # "SendMessage"
      BY SubscribeCommands DEF Shape, ClientShape, ViewShape
    <2>2. cmds' = cmds \o SubscribeAll(view.watch)
      BY <1>1 DEF HearRegistered
    <2> QED
      BY <2>1, <2>2, QueueGrows DEF Shape, ClientShape
  <1>2. CASE HearRegistrationFailed
    BY <1>2, QueueKept DEF HearRegistrationFailed
  <1> QED
    BY <1>1, <1>2

LEMMA QueueAppends ==
    ASSUME Shape, Queue, UNCHANGED msg, NEW c \in Command, c.cmd # "SendMessage",
           cmds' = Append(cmds, c)
    PROVE  Queue'
  <1>1. <<c>> \in Seq(Command) /\ \A n \in DOMAIN <<c>>: <<c>>[n].cmd # "SendMessage"
    OBVIOUS
  <1>2. cmds' = cmds \o <<c>>
    BY AppendIsConcat DEF Shape, ClientShape
  <1> QED
    BY <1>1, <1>2, QueueGrows DEF Shape, ClientShape

(* Steps that have no part in text messages.                                *)
TextsApart ==
    /\ UNCHANGED <<msg, results>>
    /\ server.delivered \subseteq server'.delivered
    /\ \A m \in chan' \ chan: m.type # "MESSAGE" \/ m.status # 200

LEMMA ApartTextsTold ==
    ASSUME TextsTold, TextsApart
    PROVE  TextsTold'
  <1>1. ToldOnce'
    BY DEF TextsTold, ToldOnce, TextsApart
  <1>2. AcceptedDelivered'
    BY DEF TextsTold, AcceptedDelivered, TextsApart
  <1> QED
    BY <1>1, <1>2 DEF TextsTold

LEMMA SettlesTold ==
    ASSUME TextShape, TextsTold, NEW m \in Messages, NEW ok \in BOOLEAN, Settle(m, ok),
           msg[m] \notin {"ok", "failed"}, ok => m \in server.delivered,
           UNCHANGED server, chan' \subseteq chan
    PROVE  TextsTold'
  <1>1. \A k \in Messages:
           /\ msg'[k] = IF k = m THEN (IF ok THEN "ok" ELSE "failed") ELSE msg[k]
           /\ results'[k] = IF k = m THEN (IF results[m] = 2 THEN 2 ELSE results[m] + 1)
                                     ELSE results[k]
    BY DEF Settle, TextShape
  <1>2. results[m] = 0
    BY DEF TextsTold, ToldOnce
  <1>3. ToldOnce'
    BY <1>1, <1>2 DEF TextsTold, ToldOnce
  <1>4. AcceptedDelivered'
    BY <1>1 DEF TextsTold, AcceptedDelivered
  <1> QED
    BY <1>3, <1>4 DEF TextsTold

LEMMA MovesTold ==
    ASSUME TextShape, TextsTold, NEW m \in Messages, NEW to \in {"queued", "pending", "retried"},
           msg' = [msg EXCEPT ![m] = to], msg[m] \notin {"ok", "failed"},
           UNCHANGED <<results, server>>, chan' \subseteq chan
    PROVE  TextsTold'
  <1>1. \A k \in Messages: msg'[k] = IF k = m THEN to ELSE msg[k]
    BY DEF TextShape
  <1>2. ToldOnce'
    BY <1>1 DEF TextsTold, ToldOnce
  <1>3. AcceptedDelivered'
    BY <1>1 DEF TextsTold, AcceptedDelivered
  <1> QED
    BY <1>2, <1>3 DEF TextsTold

Texts == Queue /\ TextsTold

LEMMA RegisterTexts ==
    ASSUME Shape, Texts, RegisterStep
    PROVE  Texts'
  <1> USE DEF wire, stack, client
  <1>1. ASSUME NEW auth, NEW stage, SendRegister(auth, stage), UNCHANGED msg
        PROVE  Queue'
    BY <1>1, QueueHears, QueueKept DEF SendRegister, RegistrationEnds, Texts
  <1>2. ASSUME NEW state, RegistrationEnds(state), UNCHANGED msg PROVE Queue'
    BY <1>2, QueueHears DEF RegistrationEnds, Texts
  <1>3. CASE RegisterDue \/ RegisterTimesOut
    <2>1. Queue'
      BY <1>1, <1>2, <1>3 DEF RegisterDue, RegisterTimesOut
    <2>2. TextsApart
      BY <1>3 DEF RegisterDue, RegisterTimesOut, TextsApart
    <2> QED
      BY <2>1, <2>2, ApartTextsTold DEF Texts
  <1>4. ASSUME NEW m \in chan, RegisterAnswered(m) PROVE Texts'
    <2>1. UNCHANGED <<msg, results, server>> /\ chan' \subseteq chan
      BY <1>4, TakesLess DEF RegisterAnswered
    <2>2. SendRegister(TRUE, "second") \/ \E state: RegistrationEnds(state)
      BY <1>4 DEF RegisterAnswered
    <2>3. Queue'
      BY <1>1, <1>2, <2>1, <2>2
    <2> QED
      BY <2>1, <2>3, ApartTextsTold DEF TextsApart, Texts
  <1>5. ASSUME NEW m \in chan, RegisterDiscards(m) PROVE Texts'
    <2>1. UNCHANGED <<msg, results, server, cmds>> /\ chan' \subseteq chan
      BY <1>5 DEF RegisterDiscards
    <2> QED
      BY <2>1, QueueKept, ApartTextsTold DEF TextsApart, Texts
  <1> QED
    BY <1>3, <1>4, <1>5 DEF RegisterStep

LEMMA TransportTexts ==
    ASSUME Shape, Texts, Break \/ StackDies \/ WakeUp \/ CandidateFails \/ Reconnect
    PROVE  Texts'
  <1> USE DEF wire, stack, client
  <1>1. CASE Break \/ WakeUp \/ CandidateFails
    <2>1. UNCHANGED <<msg, results, server, chan, cmds>>
      BY <1>1 DEF Break, WakeUp, CandidateFails
    <2> QED
      BY <2>1, QueueKept, ApartTextsTold DEF TextsApart, Texts
  <1>2. CASE StackDies
    <2>1. /\ UNCHANGED <<results, server, chan, cmds>>
          /\ \A m \in Messages: msg'[m] = IF msg[m] \in {"pending", "retried"}
                                            THEN "forgotten" ELSE msg[m]
      BY <1>2 DEF StackDies, HearRegistrationFailed
    <2>2. Queue'
      BY <2>1, QueueKept DEF Texts
    <2>3. ToldOnce' /\ AcceptedDelivered'
      BY <2>1 DEF Texts, TextsTold, ToldOnce, AcceptedDelivered
    <2> QED
      BY <2>2, <2>3 DEF Texts, TextsTold
  <1>3. CASE Reconnect
    <2>1. UNCHANGED <<msg, results, server, chan>> /\ (HearRegistered \/ UNCHANGED cmds)
      BY <1>3 DEF Reconnect
    <2>2. Queue'
      BY <2>1, QueueKept, QueueHears DEF Texts
    <2> QED
      BY <2>1, <2>2, ApartTextsTold DEF TextsApart, Texts
  <1> QED
    BY <1>1, <1>2, <1>3

LEMMA StackTexts ==
    ASSUME Shape, Texts, Tick \/ HandleCommand \/ Receive \/ TimeStep
    PROVE  Texts'
  <1> USE DEF wire, stack, client
  <1>1. CASE Tick \/ TimeStep
    <2>1. UNCHANGED <<msg, results, server, chan, cmds>>
      BY <1>1 DEF Tick, TimeStep, PublishExpires, SubscriptionExpires
    <2> QED
      BY <2>1, QueueKept, ApartTextsTold DEF TextsApart, Texts
  <1>2. CASE HandleCommand
    <2> DEFINE c == Head(cmds)
    <2>1. cmds # <<>> /\ cmds' = Tail(cmds) /\ UNCHANGED <<chan, server>>
      BY <1>2 DEF HandleCommand
    <2>2. cmds \in Seq(Command) /\ c \in Command
      BY <2>1, HeadTailProperties DEF Shape, ClientShape
    <2>3. CASE UNCHANGED <<msg, results>>
      <3>1. Queue'
        BY <2>1, <2>2, <2>3, QueueTaken DEF Texts
      <3> QED
        BY <2>1, <2>3, <3>1, ApartTextsTold DEF TextsApart, Texts
    <2>4. CASE c.cmd = "SendMessage" /\ SendMessage(c.msg)
      <3>1. c.msg \in Messages
        BY <2>2, <2>4 DEF Command
      <3>2. msg[c.msg] = "queued"
        <4>1. Len(cmds) \in Nat /\ DOMAIN cmds = 1..Len(cmds) /\ Len(cmds) # 0
          BY <2>1, <2>2, LenProperties, EmptySeq
        <4>2. c = cmds[1] /\ 1 \in DOMAIN cmds
          BY <4>1
        <4> QED
          BY <2>4, <3>1, <4>2 DEF Texts, Queue, TextQueued, Sends
      <3>3. \A m \in Messages: msg'[m] = msg[m] \/ Sends(c, m)
        BY <2>4, <3>1 DEF SendMessage, Settle, Sends, Shape, TextShape
      <3>4. Queue'
        BY <2>1, <2>2, <3>3, QueueTaken DEF Texts
      <3>5. TextsTold'
        <4>1. CASE CanSend
          BY <2>1, <2>4, <3>1, <3>2, <4>1, MovesTold DEF SendMessage, Texts, Shape
        <4>2. CASE ~CanSend
          BY <2>1, <2>4, <3>1, <3>2, <4>2, SettlesTold DEF SendMessage, Texts, Shape
        <4> QED
          BY <4>1, <4>2
      <3> QED
        BY <3>4, <3>5 DEF Texts
    <2> QED
      BY <1>2, <2>3, <2>4 DEF HandleCommand
  <1>3. CASE Receive
    <2>1. CASE OnMessage
      BY <2>1, TakesLess, QueueKept, ApartTextsTold DEF OnMessage, TextsApart, Texts
    <2>2. ASSUME NEW m \in chan,
                 \/ OnPublishResponse(m) \/ OnLateRegister(m)
                 \/ OnSubscribeResponse(m) \/ OnNotify(m)
          PROVE  Texts'
      <3>1. UNCHANGED <<msg, results, cmds, server>> /\ chan' \subseteq chan
        BY <2>2, TakesLess
        DEF OnPublishResponse, OnLateRegister, OnSubscribeResponse, OnNotify
      <3> QED
        BY <3>1, QueueKept, ApartTextsTold DEF TextsApart, Texts
    <2>3. ASSUME NEW m \in chan, OnMessageResponse(m) PROVE Texts'
      <3> DEFINE id == m.id
      <3>1. /\ m.type = "MESSAGE" /\ chan' \subseteq chan
            /\ UNCHANGED <<cmds, server>>
        BY <2>3, TakesLess DEF OnMessageResponse
      <3>2. id \in Messages
        BY <3>1 DEF Shape, ChanShape, Incoming
      <3>3. CASE msg[id] \notin {"pending", "retried"} \/ m.status = 100
        <4>1. ~(msg[m.id] \in {"pending", "retried"} /\ m.status = 200)
          BY <3>3
        <4>2. ~(msg[m.id] = "pending" /\ m.status = 401)
          BY <3>3
        <4>3. UNCHANGED <<msg, results>>
          BY <2>3, <3>3, <4>1, <4>2, Zenon DEF OnMessageResponse
        <4> QED
          BY <3>1, <4>3, QueueKept, ApartTextsTold DEF TextsApart, Texts
      <3>4. CASE msg[id] \in {"pending", "retried"} /\ m.status = 200
        <4>1. Settle(id, TRUE)
          <5>1. m.status # 100 /\ m.status # 401
            BY <3>4
          <5> QED
            BY <2>3, <3>4, <5>1, Zenon DEF OnMessageResponse
        <4>2. id \in server.delivered
          BY <3>1, <3>4 DEF Texts, TextsTold, AcceptedDelivered
        <4>3. TextsTold'
          BY <3>1, <3>2, <3>4, <4>1, <4>2, SettlesTold DEF Texts, Shape
        <4>4. Queue'
          BY <3>1, <3>2, <3>4, <4>1, QueueKept DEF Settle, Texts, Shape, TextShape
        <4> QED
          BY <4>3, <4>4 DEF Texts
      <3>5. CASE /\ msg[id] \in {"pending", "retried"}
                 /\ m.status # 200 /\ m.status # 100
        <4>1. \/ Settle(id, FALSE)
              \/ msg' = [msg EXCEPT ![id] = "retried"] /\ UNCHANGED results
          BY <2>3, <3>5 DEF OnMessageResponse
        <4>2. TextsTold'
          BY <3>1, <3>2, <3>5, <4>1, SettlesTold, MovesTold DEF Texts, Shape
        <4>3. Queue'
          BY <3>1, <3>2, <3>5, <4>1, QueueKept DEF Settle, Texts, Shape, TextShape
        <4> QED
          BY <4>2, <4>3 DEF Texts
      <3> QED
        BY <3>3, <3>4, <3>5
    <2> QED
      BY <1>3, <2>1, <2>2, <2>3 DEF Receive
  <1> QED
    BY <1>1, <1>2, <1>3

LEMMA UserTexts ==
    ASSUME Shape, Texts, UserStep
    PROVE  Texts'
  <1> USE DEF wire, stack, client
  <1>1. UNCHANGED <<results, chan, server>>
    BY DEF UserStep, UnsubscribeContactPresence, SubscribeContactPresence, ToggleDnd,
           DoSendMessage
  <1>2. CASE UnsubscribeContactPresence \/ SubscribeContactPresence \/ ToggleDnd
    <2>1. UNCHANGED msg
      BY <1>2 DEF UnsubscribeContactPresence, SubscribeContactPresence, ToggleDnd
    <2>2. \E c \in Command: c.cmd # "SendMessage" /\ cmds' = Append(cmds, c)
      <3>1. CASE UnsubscribeContactPresence
        <4>1. PICK t \in view.watch:
                 cmds' = Append(cmds, [cmd |-> "UnsubscribePresence", target |-> t])
          BY <3>1 DEF UnsubscribeContactPresence
        <4>2. t \in Targets
          BY DEF Shape, ClientShape, ViewShape, Targets
        <4>3. [cmd |-> "UnsubscribePresence", target |-> t] \in Command
          BY <4>2 DEF Command
        <4> QED
          BY <4>1, <4>3
      <3>2. CASE SubscribeContactPresence
        <4>1. PICK t \in Contacts: cmds' = Append(cmds, SubscribeCommand(t))
          BY <3>2 DEF SubscribeContactPresence
        <4>2. SubscribeCommand(t) \in Command /\ SubscribeCommand(t).cmd # "SendMessage"
          BY DEF SubscribeCommand, Command, Targets
        <4> QED
          BY <4>1, <4>2
      <3>3. CASE ToggleDnd
        <4>1. view.dnd \in BOOLEAN
          BY DEF Shape, ClientShape, ViewShape
        <4>2. [cmd |-> "PublishPresence", available |-> view.dnd] \in Command
          BY <4>1 DEF Command
        <4> QED
          BY <3>3, <4>2 DEF ToggleDnd
      <3> QED
        BY <1>2, <3>1, <3>2, <3>3
    <2>3. Queue'
      BY <2>1, <2>2, QueueAppends DEF Texts
    <2> QED
      BY <1>1, <2>1, <2>3, ApartTextsTold DEF TextsApart, Texts
  <1>3. CASE DoSendMessage
    <2>1. PICK m \in Messages:
             /\ msg[m] = "idle"
             /\ msg' = [msg EXCEPT ![m] = "queued"]
             /\ cmds' = Append(cmds, [cmd |-> "SendMessage", msg |-> m])
      BY <1>3 DEF DoSendMessage
    <2>2. Queue'
      BY <2>1, QueueSends DEF Texts, Shape, ClientShape
    <2>3. TextsTold'
      BY <1>1, <2>1, MovesTold DEF Texts, Shape
    <2> QED
      BY <2>2, <2>3 DEF Texts
  <1> QED
    BY <1>2, <1>3 DEF UserStep

LEMMA ServerTexts ==
    ASSUME Shape, Texts, ServerStep \/ LoseRequest
    PROVE  Texts'
  <1> USE DEF wire, stack, client
  <1>1. UNCHANGED <<msg, results, cmds>>
    BY DEF ServerStep, Serve, TargetChanges, ServerTerminates, ServerForgets,
           PeerSendsText, LoseRequest
  <1>2. Queue'
    BY <1>1, QueueKept DEF Texts
  <1>3. CASE LoseRequest
    BY <1>1, <1>2, <1>3, ApartTextsTold DEF LoseRequest, TextsApart, Texts
  <1>4. CASE TargetChanges \/ ServerTerminates \/ ServerForgets \/ PeerSendsText
    <2>1. server'.delivered = server.delivered
      BY <1>4 DEF TargetChanges, ServerTerminates, ServerForgets, PeerSendsText,
                  Shape, ServerShape
    <2>2. \A m \in chan' \ chan: m.type # "MESSAGE"
      BY <1>4 DEF TargetChanges, ServerTerminates, ServerForgets, PeerSendsText,
                  Notify, Text
    <2> QED
      BY <1>1, <1>2, <2>1, <2>2, ApartTextsTold DEF TextsApart, Texts
  <1>5. ASSUME NEW r \in reqs, Serve(r) PROVE TextsTold'
    <2>1. ASSUME NEW status, NEW etag PROVE
            /\ Answer(r, status, etag).type = r.kind
            /\ Answer(r, status, etag).status = status
            /\ Answer(r, status, etag).id = CallIdOf(r)
      BY DEF Answer
    <2>2. CASE Challenges(r) \/ Refuses(r) \/ Trying100(r)
      <3>1. \E status \in {100, 401, 403, 500}:
               chan' = chan \cup {Answer(r, status, 0)}
        BY <2>2 DEF Challenges, Refuses, Trying100, Replies
      <3>2. server'.delivered = server.delivered
        BY <2>2 DEF Challenges, Refuses, Trying100, Shape, ServerShape
      <3>3. \A m \in chan' \ chan: m.status # 200
        BY <2>1, <3>1
      <3> QED
        BY <1>1, <3>2, <3>3, ApartTextsTold DEF TextsApart, Texts
    <2>3. CASE AcceptsSubscribe(r) \/ AcceptsPublish(r) \/ AcceptsRegister(r)
      <3>1. r.kind # "MESSAGE"
        BY <2>3 DEF AcceptsSubscribe, AcceptsPublish, AcceptsRegister
      <3>2. \A m \in chan' \ chan:
               m.type = "NOTIFY" \/ \E status, etag: m = Answer(r, status, etag)
        BY <2>3 DEF AcceptsSubscribe, AcceptsPublish, AcceptsRegister, Replies, Notify
      <3>3. server'.delivered = server.delivered
        BY <2>3 DEF AcceptsSubscribe, AcceptsPublish, AcceptsRegister, Shape, ServerShape
      <3> QED
        BY <1>1, <2>1, <3>1, <3>2, <3>3, ApartTextsTold DEF TextsApart, Texts
    <2>4. CASE AcceptsMessage(r)
      <3>1. /\ r.kind = "MESSAGE"
            /\ chan' = chan \cup {Answer(r, 200, 0)}
            /\ server'.delivered = server.delivered \cup {r.msg}
        BY <2>4 DEF AcceptsMessage, Replies, Shape, ServerShape
      <3>2. CallIdOf(r) = r.msg
        BY <3>1 DEF CallIdOf
      <3>3. AcceptedDelivered'
        BY <1>1, <2>1, <3>1, <3>2 DEF Texts, TextsTold, AcceptedDelivered
      <3>4. ToldOnce'
        BY <1>1 DEF Texts, TextsTold, ToldOnce
      <3> QED
        BY <3>3, <3>4 DEF TextsTold
    <2> QED
      BY <1>5, <2>2, <2>3, <2>4 DEF Serve, Accepts
  <1> QED
    BY <1>2, <1>3, <1>4, <1>5 DEF ServerStep, Texts

LEMMA InitTexts == Init => Texts
  <1> SUFFICES ASSUME Init PROVE Texts
    OBVIOUS
  <1>1. /\ msg = [m \in Messages |-> "idle"]
        /\ results = [m \in Messages |-> 0]
        /\ chan = {}
        /\ cmds = IF config.local THEN SubscribeAll(view.watch) ELSE <<>>
    BY DEF Init
  <1>2. \A n \in DOMAIN cmds: cmds[n].cmd # "SendMessage"
    <2>1. ViewShape
      BY InitTyped, ShapeIsTyped DEF Shape, ClientShape
    <2>2. \A n \in DOMAIN SubscribeAll(view.watch):
             SubscribeAll(view.watch)[n].cmd # "SendMessage"
      BY <2>1, SubscribeCommands DEF ViewShape
    <2> QED
      BY <1>1, <2>2
  <1>3. Queue
    BY <1>2 DEF Queue, TextQueued, TextOnce, Sends
  <1> QED
    BY <1>1, <1>3 DEF Texts, TextsTold, ToldOnce, AcceptedDelivered

LEMMA NextTexts == Typed /\ Texts /\ [Next]_vars => Texts'
  <1> SUFFICES ASSUME Shape, Texts, [Next]_vars PROVE Texts'
    BY ShapeIsTyped
  <1>1. CASE RegisterStep
    BY <1>1, RegisterTexts
  <1>2. CASE StackStep
    BY <1>2, StackTexts, TransportTexts DEF StackStep
  <1>3. CASE ConnectStep \/ Break
    BY <1>3, TransportTexts DEF ConnectStep
  <1>4. CASE TimeStep
    BY <1>4, StackTexts
  <1>5. CASE UserStep
    BY <1>5, UserTexts
  <1>6. CASE ServerStep \/ LoseRequest
    BY <1>6, ServerTexts
  <1>7. CASE UNCHANGED vars
    BY <1>7, QueueKept, ApartTextsTold DEF vars, stack, client, wire, TextsApart, Texts
  <1> QED
    BY <1>1, <1>2, <1>3, <1>4, <1>5, <1>6, <1>7 DEF Next

(* The client is told of a text message at most once, and that it was sent  *)
(* only if the server has it: over challenges, copies, late answers, a      *)
(* transport that dies under it and a queue that outlives the stack         *)
(* (message_method.rs).                                                     *)
THEOREM TextsToldTruly == Spec => []MessageToldTruly
  <1>1. Texts => MessageToldTruly
    BY DEF Texts, TextsTold, ToldOnce, AcceptedDelivered, MessageToldTruly
  <1> QED
    BY <1>1, TypedAlways, InitTexts, NextTexts, PTL DEF Spec

=============================================================================
