---------------------------- MODULE SessionProofs ----------------------------
(***************************************************************************)
(* Theorems about what both ends of a call of SipCalls agree on: who        *)
(* refreshes the session, whether the call is held, and that it exists.     *)
(***************************************************************************)
EXTENDS DialogProofs

-----------------------------------------------------------------------------
(* Who refreshes the session.                                               *)

SameTimer(d, f) ==
    /\ f.uac = d.uac /\ f.timer = d.timer /\ f.refresher = d.refresher
    /\ f.incomingTimer = d.incomingTimer

(* What the handlers do to the session timer of a dialog: nothing, but for  *)
(* the answer to an INVITE or a refresh, and our own to theirs.             *)
LEMMA TimerUpdates ==
    ASSUME NEW d \in Dialog
    PROVE  /\ SameTimer(d, Bump(d)) /\ SameTimer(d, Closing(d))
           /\ SameTimer(d, Refreshed(d)) /\ SameTimer(d, TakeHold(d))
           /\ \A k: SameTimer(d, Asked(d, k))
           /\ \A m: SameTimer(d, Reinvited(d, m))
           /\ \A b: SameTimer(d, [d EXCEPT !.media = b])
           /\ \A s: SameTimer(d, [d EXCEPT !.state = s])
           /\ \A b: SameTimer(d, [d EXCEPT !.refreshPending = b])
           /\ SameTimer(d, [Bump(d) EXCEPT !.authRetried = TRUE])
           /\ SameTimer(d, [Bump(d) EXCEPT !.sessionExpiresRetried = TRUE])
  <1> USE DEF SameTimer, Dialog
  <1>1. /\ SameTimer(d, Bump(d)) /\ SameTimer(d, Closing(d))
        /\ SameTimer(d, Refreshed(d)) /\ SameTimer(d, TakeHold(d))
    BY DEF Bump, Closing, Refreshed, TakeHold
  <1>2. ASSUME NEW k PROVE SameTimer(d, Asked(d, k))
    BY DEF Asked, Reinvite, Bump
  <1>3. ASSUME NEW m PROVE SameTimer(d, Reinvited(d, m))
    BY DEF Reinvited
  <1>4. /\ \A b: SameTimer(d, [d EXCEPT !.media = b])
        /\ \A s: SameTimer(d, [d EXCEPT !.state = s])
        /\ \A b: SameTimer(d, [d EXCEPT !.refreshPending = b])
    OBVIOUS
  <1>5. /\ SameTimer(d, [Bump(d) EXCEPT !.authRetried = TRUE])
        /\ SameTimer(d, [Bump(d) EXCEPT !.sessionExpiresRetried = TRUE])
    BY DEF Bump
  <1> QED
    BY <1>1, <1>2, <1>3, <1>4, <1>5

(* The answer to an INVITE or a refresh: without a Session-Expires nothing  *)
(* changes; one that does not name the "uas" makes us the refresher.        *)
LEMMA TimerTaken ==
    ASSUME NEW d \in Dialog, NEW t
    PROVE  LET f == WithTimer([d EXCEPT !.refreshPending = FALSE], t)
               g == Accepted(d, t)
           IN  /\ t = "none" => SameTimer(d, f) /\ SameTimer(d, g)
               /\ t # "none" =>
                    /\ f.uac = d.uac /\ g.uac = d.uac
                    /\ f.incomingTimer = d.incomingTimer
                    /\ g.incomingTimer = d.incomingTimer
                    /\ f.refresher <=> t # "uas"
                    /\ g.refresher <=> t # "uas"
  BY DEF WithTimer, Accepted, SameTimer, Dialog

(* The role a call plays, and whether the one role that is ever named is it.*)
RoleOf(e) == IF e \in OutCalls THEN "uac" ELSE "uas"

TimerAgrees(e) ==
    Live(e) =>
        /\ dialogs[e].uac <=> e \in OutCalls
        /\ dialogs[e].timer => (dialogs[e].refresher <=> RoleOf(e) \in Refreshers)
        /\ e \in InCalls => dialogs[e].incomingTimer # "uas"

(* What the far end may say of timers.                                      *)
TimerSaid(e, m) ==
    /\ m.type \in {"INVITE", "reINVITE"} => e \in InCalls /\ m.timer # "uas"
    /\ m.type = "response" =>
          \/ e \in OutCalls /\ m.timer \in Refreshers \cup {"none"}
          \/ e \in InCalls /\ m.timer = "none" /\ m.status \notin {401, 422}

Roled(e) ==
    /\ TimerAgrees(e)
    /\ \A m \in Sent(e): TimerSaid(e, m)
    /\ e \in OutCalls => answering[e] = 0 /\ view[e] # "incoming"
    /\ e \in InCalls => \A r \in Open(e): r.kind \notin {"INVITE", "refresh"}

LEMMA ReplySays ==
    ASSUME NEW e \in Calls, NEW r, NEW s, NEW ok, NEW t,
           \/ e \in OutCalls /\ t \in Refreshers \cup {"none"}
           \/ e \in InCalls /\ t = "none" /\ s \notin {401, 422}
    PROVE  TimerSaid(e, Reply(r, s, ok, t))
  BY DEF Reply, TimerSaid

LEMMA BareSays ==
    ASSUME NEW e
    PROVE  /\ TimerSaid(e, Bare("ACK")) /\ TimerSaid(e, Bare("BYE"))
           /\ TimerSaid(e, Bare("CANCEL"))
  BY DEF Bare, ReqMsg, TimerSaid

LEMMA TimerSays ==
    ASSUME InCalls = {} \/ "uas" \notin Refreshers, OutCalls = {} \/ MaxPeerReqs = 0,
           NEW e \in Calls, Roled(e), FarEndActs(e)
    PROVE  \A m \in Sent(e)': TimerSaid(e, m)
  <1>1. ASSUME NEW ms, Says(e, ms), \A m \in ms: TimerSaid(e, m)
        PROVE  \A m \in Sent(e)': TimerSaid(e, m)
    BY <1>1 DEF Says, Roled
  <1>2. e \in OutCalls \/ e \in InCalls
    BY DEF Calls
  <1>3. ASSUME NEW r \in Open(e)
        PROVE  e \in InCalls => r.kind \notin {"INVITE", "refresh"}
    BY DEF Roled
  <1>4. ASSUME NEW r \in Open(e),
               Rings(e, r) \/ Accepts(e, r) \/ Refuses(e, r) \/ TakesBye(e, r)
                  \/ TakesOther(e, r)
        PROVE  \A m \in Sent(e)': TimerSaid(e, m)
    <2> HIDE DEF Reply, TimerSaid
    <2>1. ASSUME NEW s, NEW ok, Says(e, {Reply(r, s, ok, "none")}),
                 e \in OutCalls \/ s \notin {401, 422}
          PROVE  \A m \in Sent(e)': TimerSaid(e, m)
      BY <1>1, <1>2, <2>1, ReplySays
    <2>2. CASE Rings(e, r)
      BY <2>1, <2>2 DEF Rings
    <2>3. CASE Accepts(e, r)
      <3>1. PICK ok \in {"good", "bad"}, t \in Refreshers \cup {"none"}:
              Says(e, {Reply(r, 200, ok, t)}) /\ (t = "none" \/ r.kind \in {"INVITE", "refresh"})
        BY <2>3 DEF Accepts
      <3>2. TimerSaid(e, Reply(r, 200, ok, t))
        BY <1>2, <1>3, <3>1, ReplySays
      <3> QED
        BY <1>1, <3>1, <3>2
    <2>4. CASE Refuses(e, r)
      <3>1. PICK s \in {401, 422, 486}, ok \in {"good", "bad", "absent"}:
              Says(e, {Reply(r, s, ok, "none")}) /\ (s = 486 \/ r.kind = "INVITE")
        BY <2>4 DEF Refuses
      <3> QED
        BY <1>2, <1>3, <2>1, <3>1
    <2>5. CASE TakesBye(e, r)
      BY <2>1, <2>5 DEF TakesBye
    <2>6. CASE TakesOther(e, r)
      BY <2>1, <2>6 DEF TakesOther
    <2> QED
      BY <1>4, <2>2, <2>3, <2>4, <2>5, <2>6
  <1>5. CASE e \in InCalls /\ Invites(e)
    <2>1. PICK body \in {"sendrecv", "bad"}, t \in Refreshers:
            Says(e, {ReqMsg("INVITE", body, t)})
      BY <1>5 DEF Invites
    <2>2. TimerSaid(e, ReqMsg("INVITE", body, t))
      BY <1>5 DEF TimerSaid, ReqMsg
    <2> HIDE DEF ReqMsg, TimerSaid
    <2> QED
      BY <1>1, <2>1, <2>2
  <1>6. CASE Reinvites(e)
    <2>1. PICK body \in {"sendrecv", "sendonly"}:
            Says(e, {ReqMsg("reINVITE", body, "none")})
      BY <1>6 DEF Reinvites
    <2>2. e \in InCalls
      BY <1>2, <1>6, BoundsAssumption DEF Reinvites
    <2>3. TimerSaid(e, ReqMsg("reINVITE", body, "none"))
      BY <2>2 DEF TimerSaid, ReqMsg
    <2> HIDE DEF ReqMsg, TimerSaid
    <2> QED
      BY <1>1, <2>1, <2>3
  <1>7. CASE Cancels(e)
    BY <1>1, <1>7, BareSays DEF Cancels
  <1>8. CASE HangsUp(e)
    BY <1>1, <1>8, BareSays DEF HangsUp
  <1>9. ASSUME NEW f, GetsFinal(e, f)
        PROVE  \A m \in Sent(e)': TimerSaid(e, m)
    BY <1>1, <1>9, BareSays DEF GetsFinal
  <1> QED
    BY <1>4, <1>5, <1>6, <1>7, <1>8, <1>9 DEF FarEndActs

(* A dialog that keeps its timer keeps the agreement.                       *)
LEMMA TimerKept ==
    ASSUME NEW e, TimerAgrees(e),
           Live(e)' => Live(e) /\ SameTimer(dialogs[e], dialogs'[e])
    PROVE  TimerAgrees(e)'
  BY DEF TimerAgrees, SameTimer, RoleOf

LEMMA RoledReactions ==
    ASSUME ~({"uac", "uas"} \subseteq Refreshers),
           InCalls = {} \/ "uas" \notin Refreshers,
           NEW e \in Calls, LocalType(e), Roled(e), NEW m \in Sent(e), m \in Message,
           Reacts(e, m)
    PROVE  /\ TimerAgrees(e)'
           /\ e \in OutCalls => view'[e] # "incoming"
           /\ e \in InCalls => \A r \in Open(e)': r.kind \notin {"INVITE", "refresh"}
  <1> DEFINE d == dialogs[e]
  <1>1. Live(e) => d \in Dialog
    BY DEF LocalType, Live
  <1>2. TimerAgrees(e) /\ TimerSaid(e, m) /\ (e \in OutCalls => view[e] # "incoming")
        /\ (e \in InCalls => \A r \in Open(e): r.kind \notin {"INVITE", "refresh"})
    BY DEF Roled
  <1>3. (e \in OutCalls <=> e \notin InCalls) /\ m.timer \in Refresher
    BY CallsAssumption, MessageFields DEF Calls
  <1>4. CASE GetsInvite(e, m)
    <2>1. e \in InCalls /\ e \notin OutCalls /\ m.timer # "uas"
      BY <1>2, <1>3, <1>4 DEF GetsInvite, TimerSaid
    <2>2. CASE Live(e) /\ d.state = "Confirmed"
      <3>1. dialogs'[e] = Reinvited(d, m) /\ Open(e)' = Open(e)
        BY <1>4, <2>2 DEF GetsInvite, Becomes
      <3>2. SameTimer(d, Reinvited(d, m))
        BY <1>1, <2>2, TimerUpdates
      <3> QED
        BY <1>2, <2>1, <2>2, <3>1, <3>2, TimerKept
    <2>3. CASE ~(Live(e) /\ d.state = "Confirmed")
      <3>1. dialogs'[e] = NewIncoming(m.body # "bad", m.timer) /\ Open(e)' = Open(e)
        BY <1>4, <2>3 DEF GetsInvite, Becomes
      <3>2. /\ NewIncoming(m.body # "bad", m.timer).uac = FALSE
            /\ NewIncoming(m.body # "bad", m.timer).timer = FALSE
            /\ NewIncoming(m.body # "bad", m.timer).incomingTimer = m.timer
        BY DEF NewIncoming, NewOutgoing
      <3>3. TimerAgrees(e)'
        BY <2>1, <3>1, <3>2 DEF TimerAgrees
      <3> QED
        BY <1>2, <2>1, <3>1, <3>3
    <2> QED
      BY <2>2, <2>3
  <1>5. CASE IsOver(e, m)
    BY <1>2, <1>5 DEF IsOver, Becomes, NothingElse, TimerAgrees, Live
  <1>6. CASE GetsAck(e, m)
    <2>1. Live(e) => SameTimer(d, d) /\ SameTimer(d, [d EXCEPT !.state = "Confirmed"])
      BY <1>1, TimerUpdates DEF SameTimer
    <2>2. view'[e] = view[e] /\ Open(e)' = Open(e)
          /\ \/ dialogs'[e] = d
             \/ Live(e) /\ dialogs'[e] = [d EXCEPT !.state = "Confirmed"]
      BY <1>6 DEF GetsAck, Becomes, NothingElse
    <2>3. TimerAgrees(e)'
      BY <1>2, <2>1, <2>2, TimerKept DEF Live
    <2> QED
      BY <1>2, <2>2, <2>3
  <1>7. CASE IsIgnored(e, m)
    BY <1>2, <1>7, TimerKept DEF IsIgnored, Becomes, NothingElse, SameTimer, Live
  <1>8. CASE IsRinging(e, m)
    <2>1. Live(e) => SameTimer(d, [d EXCEPT !.state = "Ringing"])
      BY <1>1, TimerUpdates
    <2>2. Live(e) /\ dialogs'[e] = [d EXCEPT !.state = "Ringing"] /\ Open(e)' = Open(e)
          /\ view'[e] = (IF view[e] = "asked" THEN "ringing" ELSE view[e])
      BY <1>8 DEF IsRinging, Becomes, NothingElse
    <2> QED
      BY <1>2, <2>1, <2>2, TimerKept
  <1>9. ASSUME Live(e), m.type = "response",
               NEW f, dialogs'[e] = f, view'[e] = view[e], Open(e)' = Open(e),
               m.timer = "none" => SameTimer(d, f),
               m.timer # "none" =>
                   /\ f.uac = d.uac /\ f.incomingTimer = d.incomingTimer
                   /\ f.refresher <=> m.timer # "uas"
        PROVE  TimerAgrees(e)'
    <2>1. CASE m.timer = "none"
      BY <1>2, <1>9, <2>1, TimerKept
    <2>2. CASE m.timer # "none"
      <3>1. e \in OutCalls /\ e \notin InCalls /\ m.timer \in Refreshers
            /\ m.timer \in {"uac", "uas"}
        BY <1>2, <1>3, <1>9, <2>2 DEF TimerSaid, Refresher
      <3>2. m.timer # "uas" <=> "uac" \in Refreshers
        BY <3>1
      <3> QED
        BY <1>2, <1>9, <2>2, <3>1, <3>2 DEF TimerAgrees, RoleOf
    <2> QED
      BY <2>1, <2>2
  <1>10. CASE Connects(e, m)
    <2>1. Live(e) /\ m.type = "response" /\ dialogs'[e] = Accepted(d, m.timer)
          /\ view'[e] = view[e] /\ Open(e)' = Open(e)
      BY <1>10 DEF Connects, IsOk, Becomes
    <2>2. TimerAgrees(e)'
      BY <1>1, <1>9, <2>1, TimerTaken
    <2> QED
      BY <1>2, <2>1, <2>2
  <1>11. CASE ConnectsNot(e, m)
    <2>1. Live(e) /\ dialogs'[e] = NoDialog /\ view'[e] = "over"
          /\ \E f: Open(e)' = Open(e) \cup {RequestOf(e, "BYE", f)}
      BY <1>11 DEF ConnectsNot, IsOk, Becomes, Asks
    <2> QED
      BY <1>2, <2>1, RequestIs DEF TimerAgrees, Live
  <1>12. CASE Confirms(e, m)
    <2>1. Live(e) /\ m.type = "response" /\ view'[e] = view[e] /\ Open(e)' = Open(e)
          /\ \/ dialogs'[e] = WithTimer([d EXCEPT !.refreshPending = FALSE], m.timer)
             \/ dialogs'[e] = TakeHold(d)
      BY <1>12 DEF Confirms, IsOk, Becomes
    <2>2. ASSUME dialogs'[e] = TakeHold(d) PROVE TimerAgrees(e)'
      BY <1>1, <1>2, <2>1, <2>2, TimerKept, TimerUpdates
    <2>3. ASSUME dialogs'[e] = WithTimer([d EXCEPT !.refreshPending = FALSE], m.timer)
          PROVE  TimerAgrees(e)'
      BY <1>1, <1>9, <2>1, <2>3, TimerTaken
    <2> QED
      BY <1>2, <2>1, <2>2, <2>3
  <1>13. CASE Again(e, m)
    <2>1. Live(e) /\ m.type = "response" /\ view'[e] = view[e] /\ m.status \in {401, 422}
          /\ \/ dialogs'[e] = [Bump(d) EXCEPT !.authRetried = TRUE]
             \/ dialogs'[e] = [Bump(d) EXCEPT !.sessionExpiresRetried = TRUE]
      BY <1>13 DEF Again, Becomes
    <2>2. e \in OutCalls /\ e \notin InCalls
      BY <1>2, <1>3, <2>1 DEF TimerSaid
    <2>3. /\ SameTimer(d, [Bump(d) EXCEPT !.authRetried = TRUE])
          /\ SameTimer(d, [Bump(d) EXCEPT !.sessionExpiresRetried = TRUE])
      BY <1>1, <2>1, TimerUpdates, ZenonT(40)
    <2> QED
      BY <1>2, <2>1, <2>2, <2>3, TimerKept
  <1> QED
    BY <1>4, <1>5, <1>6, <1>7, <1>8, <1>10, <1>11, <1>12, <1>13 DEF Reacts

(* Our answer to their INVITE makes nobody but the caller the refresher.    *)
LEMMA TimerAnswered ==
    ASSUME NEW d \in Dialog, d.incomingTimer # "uas", d.timer => ~d.refresher
    PROVE  /\ Answered(d).uac = d.uac
           /\ Answered(d).timer => ~Answered(d).refresher
           /\ Answered(d).incomingTimer # "uas"
  <1>1. /\ d.timer \in BOOLEAN /\ d.refresher \in BOOLEAN
    BY DEF Dialog
  <1>2. /\ Answered(d).uac = d.uac
        /\ Answered(d).incomingTimer \in {"none", d.incomingTimer}
    BY DEF Answered, Dialog
  <1>3. CASE SessionTimers /\ d.incomingTimer # "none"
    <2>1. Answered(d).refresher = FALSE
      BY <1>3 DEF Answered, Dialog
    <2> QED
      BY <1>2, <2>1
  <1>4. CASE ~(SessionTimers /\ d.incomingTimer # "none")
    <2>1. Answered(d).refresher = d.refresher /\ Answered(d).timer = d.timer
      BY <1>1, <1>4 DEF Answered, Dialog
    <2> QED
      BY <1>2, <2>1
  <1> QED
    BY <1>3, <1>4

LEMMA RoledMoves ==
    ASSUME ~({"uac", "uas"} \subseteq Refreshers),
           InCalls = {} \/ "uas" \notin Refreshers, OutCalls = {} \/ MaxPeerReqs = 0,
           NEW e \in Calls, LocalType(e), Roled(e), Moves(e)
    PROVE  Roled(e)'
  <1> DEFINE d == dialogs[e]
             Asking == e \in InCalls => \A r \in Open(e): r.kind \notin {"INVITE", "refresh"}
             Tasks == e \in OutCalls => answering[e] = 0 /\ view[e] # "incoming"
  <1>1. Live(e) => d \in Dialog
    BY DEF LocalType, Live
  <1>2. /\ TimerAgrees(e) /\ Asking /\ Tasks
        /\ \A m \in Sent(e): TimerSaid(e, m)
    BY DEF Roled
  <1>3. e \in OutCalls <=> e \notin InCalls
    BY CallsAssumption DEF Calls
  <1>4. ASSUME Sent(e)' \subseteq Sent(e), TimerAgrees(e)', Asking', Tasks'
        PROVE  Roled(e)'
    BY <1>2, <1>4 DEF Roled, TimerSaid
  <1>5. CASE Still(e)
    <2>1. /\ dialogs'[e] = d /\ view'[e] = view[e] /\ answering'[e] = answering[e]
          /\ Open(e)' = Open(e) /\ Sent(e)' = Sent(e)
      BY <1>5 DEF Still, DialogSame, ClientSame, TasksSame, RequestsSame, ChanSame, Sent
    <2>2. TimerAgrees(e)'
      BY <1>2, <2>1, TimerKept DEF SameTimer, Live
    <2> QED
      BY <1>2, <1>4, <2>1, <2>2
  <1>6. CASE Commands(e)
    <2>1. Sent(e)' = Sent(e)
      BY <1>6 DEF Commands, ChanSame, Sent
    <2>2. CASE Dials(e)
      <3>1. TimerAgrees(e)'
        BY <1>2, <2>2, TimerKept DEF Dials, Becomes, SameTimer, Live
      <3>2. Asking' /\ Tasks'
        BY <1>2, <2>2 DEF Dials, Becomes
      <3> QED
        BY <1>4, <2>1, <3>1, <3>2
    <2>3. CASE Declines(e)
      <3>1. TimerAgrees(e)' /\ Asking' /\ Tasks'
        BY <1>2, <2>3 DEF Declines, Becomes, TimerAgrees, Live
      <3> QED
        BY <1>4, <2>1, <3>1
    <2>4. CASE TakesUp(e)
      <3>1. TimerAgrees(e)'
        BY <1>2, <2>4, TimerKept DEF TakesUp, Becomes, SameTimer, Live
      <3>2. Asking' /\ Tasks'
        BY <1>2, <2>4 DEF TakesUp, Becomes
      <3> QED
        BY <1>4, <2>1, <3>1, <3>2
    <2>5. CASE Quits(e)
      <3>1. Live(e) /\ SameTimer(d, Closing(d))
        BY <1>1, <2>5, TimerUpdates DEF Quits, MayHangUp
      <3>2. TimerAgrees(e)'
        BY <1>2, <2>5, <3>1, TimerKept DEF Quits, Becomes
      <3>3. RequestOf(e, "BYE", Closing(d)).kind = "BYE"
        BY RequestIs
      <3>4. Asking' /\ Tasks'
        BY <1>2, <2>5, <3>3 DEF Quits, Becomes, Asks
      <3> QED
        BY <1>4, <2>1, <3>2, <3>4
    <2>6. CASE Requests(e)
      <3>1. PICK kind \in InDialogKind:
              /\ Becomes(e, Asked(d, kind), view[e])
              /\ Asks(e, RequestOf(e, kind, Asked(d, kind)))
        BY <2>6 DEF Requests
      <3>2. Live(e) /\ SameTimer(d, Asked(d, kind))
        BY <1>1, <2>6, TimerUpdates DEF Requests, MayAsk
      <3>3. TimerAgrees(e)'
        BY <1>2, <3>1, <3>2, TimerKept DEF Becomes
      <3>4. RequestOf(e, kind, Asked(d, kind)).kind \notin {"INVITE", "refresh"}
        BY RequestIs DEF InDialogKind
      <3>5. Asking'
        BY <1>2, <3>1, <3>4 DEF Asks
      <3>6. Tasks'
        BY <1>2, <2>6, <3>1 DEF Requests, Becomes
      <3> QED
        BY <1>4, <2>1, <3>3, <3>5, <3>6
    <2> QED
      BY <1>6, <2>2, <2>3, <2>4, <2>5, <2>6 DEF Commands
  <1>7. CASE Finishes(e)
    <2>1. Sent(e)' = Sent(e)
      BY <1>7 DEF Finishes, ChanSame, Sent
    <2>2. CASE OfferReady(e)
      <3>1. e \in OutCalls /\ e \notin InCalls
        BY <1>3, <2>2 DEF OfferReady, LocalType
      <3>2. CASE dialogs'[e] = d /\ view'[e] = "over"
        <4>1. TimerAgrees(e)'
          BY <1>2, <3>2, TimerKept DEF SameTimer, Live
        <4> QED
          BY <1>2, <1>4, <2>1, <2>2, <3>1, <3>2, <4>1 DEF OfferReady
      <3>3. CASE dialogs'[e] = NewOutgoing /\ view'[e] = view[e]
        <4>1. TimerAgrees(e)'
          BY <3>1, <3>3 DEF TimerAgrees, NewOutgoing
        <4> QED
          BY <1>2, <1>4, <2>1, <2>2, <3>1, <3>3, <4>1 DEF OfferReady
      <3> QED
        BY <2>2, <3>2, <3>3 DEF OfferReady, Becomes
    <2>3. CASE AnswerReady(e)
      <3>1. e \in InCalls /\ e \notin OutCalls /\ "uas" \notin Refreshers
        BY <1>2, <1>3, <2>3 DEF AnswerReady
      <3>2. Asking' /\ Tasks'
        BY <1>2, <2>3, <3>1 DEF AnswerReady
      <3>3. CASE Live(e)
        <4>1. ~d.uac /\ d.incomingTimer # "uas" /\ (d.timer => ~d.refresher)
          BY <1>2, <3>1, <3>3 DEF TimerAgrees, RoleOf
        <4>2. d.uac \in BOOLEAN /\ dialogs'[e] = Answered(d)
          BY <1>1, <2>3, <3>3 DEF AnswerReady, Becomes, Dialog
        <4>3. /\ ~Answered(d).uac /\ (Answered(d).timer => ~Answered(d).refresher)
              /\ Answered(d).incomingTimer # "uas"
          BY <1>1, <3>3, <4>1, TimerAnswered
        <4>4. TimerAgrees(e)'
          BY <3>1, <4>2, <4>3 DEF TimerAgrees, RoleOf
        <4> QED
          BY <1>4, <2>1, <3>2, <4>4
      <3>4. CASE ~Live(e)
        <4>1. TimerAgrees(e)'
          BY <2>3, <3>4 DEF AnswerReady, Becomes, TimerAgrees, Live
        <4> QED
          BY <1>4, <2>1, <3>2, <4>1
      <3> QED
        BY <3>3, <3>4
    <2>4. CASE ChecksDone(e)
      <3>1. Live(e) => SameTimer(d, [d EXCEPT !.media = TRUE])
        BY <1>1, TimerUpdates
      <3>2. TimerAgrees(e)'
        BY <1>2, <2>4, <3>1, TimerKept DEF ChecksDone, Becomes, Live
      <3>3. Asking' /\ Tasks'
        BY <1>2, <2>4 DEF ChecksDone, Becomes
      <3> QED
        BY <1>4, <2>1, <3>2, <3>3
    <2> QED
      BY <1>7, <2>2, <2>3, <2>4 DEF Finishes
  <1>8. CASE Delivers(e)
    <2>1. PICK m \in Message: m \in Sent(e) /\ Sent(e)' \subseteq Sent(e) /\ Reacts(e, m)
      BY <1>8 DEF Delivers
    <2>2. answering'[e] = answering[e]
      BY <1>8 DEF Delivers
    <2> QED
      BY <1>2, <1>4, <2>1, <2>2, RoledReactions
  <1>9. CASE Refreshes(e)
    <2>1. Live(e) /\ d.timer /\ d.refresher
      BY <1>9 DEF Refreshes, Due
    <2>2. e \in OutCalls /\ e \notin InCalls
      BY <1>2, <1>3, <2>1 DEF TimerAgrees, RoleOf
    <2>3. TimerAgrees(e)'
      BY <1>1, <1>2, <1>9, <2>1, TimerKept, TimerUpdates DEF Refreshes
    <2>4. Sent(e)' = Sent(e) /\ view'[e] = view[e] /\ answering'[e] = answering[e]
      BY <1>9 DEF Refreshes, ChanSame, ClientSame, TasksSame, Sent
    <2> QED
      BY <1>2, <1>4, <2>2, <2>3, <2>4
  <1>10. CASE Fails(e)
    <2>1. TimerAgrees(e)' /\ Asking' /\ Tasks' /\ Sent(e)' = Sent(e)
      BY <1>2, <1>10
      DEF Fails, Becomes, TimerAgrees, Live, RequestsSame, ChanSame, Sent
    <2> QED
      BY <1>4, <2>1
  <1>11. CASE FarEndActs(e)
    <2>1. /\ dialogs'[e] = d /\ view'[e] = view[e] /\ answering'[e] = answering[e]
      BY <1>11 DEF FarEndActs, OursSame, DialogSame, ClientSame, TasksSame
    <2>2. TimerAgrees(e)'
      BY <1>2, <2>1, TimerKept DEF SameTimer, Live
    <2>3. \A q \in Open(e)': \E r \in Open(e): q.kind = r.kind
      <3>1. ASSUME NEW r \in Open(e) \cap Request, Rings(e, r)
            PROVE  \A q \in Open(e)': \E s \in Open(e): q.kind = s.kind
        <4>1. [r EXCEPT !.rang = TRUE].kind = r.kind
          BY DEF Request
        <4> QED
          BY <3>1, <4>1 DEF Rings
      <3> QED
        BY <1>11, <3>1
        DEF FarEndActs, Accepts, Refuses, TakesBye, TakesOther, GetsFinal, RequestsSame
    <2>4. Asking' /\ Tasks'
      BY <1>2, <2>1, <2>3
    <2> QED
      BY <1>11, <2>2, <2>4, TimerSays DEF Roled
  <1> QED
    BY <1>5, <1>6, <1>7, <1>8, <1>9, <1>10, <1>11 DEF Moves

CallsRoled == \A e \in Calls: Roled(e)

(* Both ends agree on who refreshes the session, after any number of        *)
(* refreshes, holds and retries: the far end names one role, and not that   *)
(* of the UAS in a call it placed, where on_session_refresh_ack misreads    *)
(* it; and sends no re-INVITE in a call we placed.                          *)
THEOREM RefresherIsTheNamedRole ==
    ASSUME ~({"uac", "uas"} \subseteq Refreshers),
           InCalls = {} \/ "uas" \notin Refreshers,
           OutCalls = {} \/ MaxPeerReqs = 0
    PROVE  Spec => []RefresherFollowsRoles
  <1>1. Init => CallsRoled
    BY DEF Init, CallsRoled, Roled, TimerAgrees, Live, Sent, Open
  <1>2. TypeOK /\ CallsRoled /\ [Next]_vars => CallsRoled'
    <2> SUFFICES ASSUME TypeOK, CallsRoled, [Next]_vars, NEW e \in Calls
                 PROVE  Roled(e)'
      BY DEF CallsRoled
    <2>1. LocalType(e) /\ Roled(e) /\ Moves(e)
      BY LocalTypes, EveryStep DEF CallsRoled
    <2> QED
      BY <2>1, RoledMoves
  <1>3. TypeOK /\ CallsRoled => RefresherFollowsRoles
    <2> SUFFICES ASSUME TypeOK, CallsRoled, NEW e \in Calls, Live(e), dialogs[e].timer
                 PROVE  dialogs[e].refresher =
                          ((IF dialogs[e].uac THEN "uac" ELSE "uas") \in Refreshers)
      BY DEF RefresherFollowsRoles
    <2>1. dialogs[e].refresher \in BOOLEAN
      BY DEF TypeOK, Live, Dialog
    <2>2. dialogs[e].uac <=> e \in OutCalls
      BY DEF CallsRoled, Roled, TimerAgrees
    <2>3. dialogs[e].refresher <=> RoleOf(e) \in Refreshers
      BY DEF CallsRoled, Roled, TimerAgrees
    <2>4. RoleOf(e) = IF dialogs[e].uac THEN "uac" ELSE "uas"
      BY <2>2 DEF RoleOf
    <2> QED
      BY <2>1, <2>3, <2>4
  <1> QED
    BY <1>1, <1>2, <1>3, TypeCorrect, PTL DEF Spec

-----------------------------------------------------------------------------
(* A far end that is up is not left alone.                                  *)

(* What every update of a dialog leaves is a dialog.                        *)
LEMMA StaysADialog ==
    ASSUME NEW d \in Dialog
    PROVE  /\ \A k \in InDialogKind: Asked(d, k) \in Dialog
           /\ Closing(d) \in Dialog /\ Refreshed(d) \in Dialog
           /\ Answered(d) \in Dialog /\ TakeHold(d) \in Dialog
           /\ \A t \in Refresher: Accepted(d, t) \in Dialog
           /\ \A t \in Refresher:
                 WithTimer([d EXCEPT !.refreshPending = FALSE], t) \in Dialog
           /\ \A s \in DialogState: [d EXCEPT !.state = s] \in Dialog
           /\ \A m: Reinvited(d, m) \in Dialog
           /\ [d EXCEPT !.media = TRUE] \in Dialog
           /\ [Bump(d) EXCEPT !.authRetried = TRUE] \in Dialog
           /\ [Bump(d) EXCEPT !.sessionExpiresRetried = TRUE] \in Dialog
  <1>1. \A k \in InDialogKind: Asked(d, k) \in Dialog
    BY DialogUpdates DEF Asked, InDialogKind
  <1>2. [d EXCEPT !.refreshPending = FALSE] \in Dialog
    BY DEF Dialog
  <1>3. /\ \A s \in DialogState: [d EXCEPT !.state = s] \in Dialog
        /\ [d EXCEPT !.media = TRUE] \in Dialog
    BY DEF Dialog
  <1>4. /\ [Bump(d) EXCEPT !.authRetried = TRUE] \in Dialog
        /\ [Bump(d) EXCEPT !.sessionExpiresRetried = TRUE] \in Dialog
    <2>1. \A f \in Dialog: /\ [f EXCEPT !.authRetried = TRUE] \in Dialog
                           /\ [f EXCEPT !.sessionExpiresRetried = TRUE] \in Dialog
      BY DEF Dialog
    <2> QED
      BY <2>1, DialogUpdates
  <1>5. ASSUME NEW m PROVE Reinvited(d, m) \in Dialog
    <2>1. ASSUME NEW a \in BOOLEAN, NEW b \in BOOLEAN
          PROVE  [d EXCEPT !.held = a, !.armed = b] \in Dialog
      BY DEF Dialog
    <2>2. (m.body = "sendonly") \in BOOLEAN /\ (d.armed \/ d.timer) \in BOOLEAN
      OBVIOUS
    <2> QED
      BY <2>1, <2>2, Zenon DEF Reinvited
  <1> QED
    BY <1>1, <1>2, <1>3, <1>4, <1>5, DialogUpdates, AnsweredUpdate, TimerUpdate

(* What may take a dialog away.                                             *)
LEMMA WhatEndsADialog ==
    ASSUME NEW e \in Calls, LocalType(e), Live(e)
    PROVE  /\ Commands(e) => Live(e)' \/ Declines(e)
           /\ Finishes(e) => Live(e)'
           /\ Refreshes(e) => Live(e)'
           /\ \A m \in Message:
                 Reacts(e, m) => Live(e)' \/ IsOver(e, m) \/ ConnectsNot(e, m)
  <1> DEFINE d == dialogs[e]
  <1>1. d \in Dialog
    BY DEF LocalType, Live
  <1>2. ASSUME dialogs'[e] \in Dialog PROVE Live(e)'
    BY <1>2, NoDialogAssumption DEF Live
  <1>3. ASSUME Commands(e) PROVE Live(e)' \/ Declines(e)
    <2>1. CASE Requests(e)
      <3>1. PICK kind \in InDialogKind: dialogs'[e] = Asked(d, kind)
        BY <2>1 DEF Requests, Becomes
      <3> QED
        BY <1>1, <1>2, <3>1, StaysADialog
    <2>2. CASE Quits(e)
      BY <1>1, <1>2, <2>2, StaysADialog DEF Quits, Becomes
    <2>3. CASE Dials(e) \/ TakesUp(e)
      BY <1>1, <1>2, <2>3 DEF Dials, TakesUp, Becomes
    <2> QED
      BY <1>3, <2>1, <2>2, <2>3 DEF Commands
  <1>4. ASSUME Finishes(e) PROVE Live(e)'
    BY <1>1, <1>2, <1>4, StaysADialog, NewDialogs
    DEF Finishes, OfferReady, AnswerReady, ChecksDone, Becomes
  <1>5. ASSUME Refreshes(e) PROVE Live(e)'
    BY <1>1, <1>2, <1>5, StaysADialog DEF Refreshes
  <1>6. ASSUME NEW m \in Message, Reacts(e, m)
        PROVE  Live(e)' \/ IsOver(e, m) \/ ConnectsNot(e, m)
    <2>1. m.timer \in Refresher
      BY MessageFields
    <2>2. CASE GetsInvite(e, m)
      <3>1. NewIncoming(m.body # "bad", m.timer) \in Dialog /\ Reinvited(d, m) \in Dialog
        BY <1>1, <2>1, NewDialogs, StaysADialog
      <3> QED
        BY <1>2, <2>2, <3>1 DEF GetsInvite, Becomes
    <2>3. CASE GetsAck(e, m) \/ IsRinging(e, m)
      <3>1. /\ [d EXCEPT !.state = "Confirmed"] \in Dialog
            /\ [d EXCEPT !.state = "Ringing"] \in Dialog
        BY <1>1, StaysADialog DEF DialogState
      <3> QED
        BY <1>1, <1>2, <2>3, <3>1 DEF GetsAck, IsRinging, Becomes
    <2>4. CASE IsIgnored(e, m)
      BY <1>1, <1>2, <2>4 DEF IsIgnored, Becomes
    <2>5. CASE Connects(e, m) \/ Confirms(e, m)
      <3>1. /\ Accepted(d, m.timer) \in Dialog /\ TakeHold(d) \in Dialog
            /\ WithTimer([d EXCEPT !.refreshPending = FALSE], m.timer) \in Dialog
        BY <1>1, <2>1, StaysADialog
      <3> QED
        BY <1>2, <2>5, <3>1 DEF Connects, Confirms, Becomes
    <2>6. CASE Again(e, m)
      <3>1. \/ dialogs'[e] = [Bump(d) EXCEPT !.authRetried = TRUE]
            \/ dialogs'[e] = [Bump(d) EXCEPT !.sessionExpiresRetried = TRUE]
        BY <2>6 DEF Again, Becomes
      <3> QED
        BY <1>1, <1>2, <3>1, StaysADialog
    <2> QED
      BY <1>6, <2>2, <2>3, <2>4, <2>5, <2>6 DEF Reacts
  <1> QED
    BY <1>3, <1>4, <1>5, <1>6

(* An answer that makes the caller ask again, and a message that ends a call.*)
Retries == {m \in Message: m.type = "response" /\ m.status \in {401, 422}}

Parting(m) ==
    \/ m.type \in {"BYE", "CANCEL"}
    \/ /\ m.type = "response" /\ m.method # "REFER"
       /\ m.status >= 300 \/ (m.status = 200 /\ m.method = "BYE")

Dialing(e)  == \E r \in Open(e): r.kind = "INVITE"
Courting(e) == Dialing(e) \/ Retries \cap Sent(e) # {}
Leaving(e)  == \E r \in Open(e): r.kind = "BYE"

(* A placed call: until its INVITE has a last answer, there is nothing but  *)
(* that INVITE; and when it has, the far end comes up no more.              *)
Courted(e) ==
    /\ inv[e] \notin {"sent", "cancelled"} /\ finals[e] = {}
    /\ \A r, s \in Open(e): r.kind = "INVITE" /\ s.kind = "INVITE" => r = s
    /\ LoneIn(e, Retries)
    /\ Dialing(e) => Retries \cap Sent(e) = {}
    /\ Courting(e) =>
          /\ Live(e) /\ dialogs[e].state \in {"Calling", "Ringing"}
          /\ e \notin peerUp /\ e \notin connecting /\ view[e] # "connected"
          /\ \A m \in Sent(e): m.type = "response" /\ m.status \in {180, 401, 422}
          /\ \A r \in Open(e): r.kind = "INVITE"
    /\ e \in peerUp => Live(e) \/ Leaving(e)
    /\ e \in peerUp => \A m \in Sent(e): ~Parting(m)

(* A step that neither opens nor closes the courtship.                      *)
LEMMA CourtedAlike ==
    ASSUME NEW e, Courted(e), LoneIn(e, Retries)',
           inv'[e] = inv[e], FinalsSame(e), e \in peerUp' => e \in peerUp,
           Sent(e)' \subseteq Sent(e),
           \A r \in Open(e)': r \in Open(e) \/ r.kind # "INVITE",
           Courting(e) =>
              /\ Live(e)' /\ dialogs'[e].state \in {"Calling", "Ringing"}
              /\ e \notin connecting' /\ view'[e] # "connected"
              /\ Open(e)' = Open(e),
           e \in peerUp => Live(e)' \/ Leaving(e)'
    PROVE  Courted(e)'
  <1>1. Dialing(e)' => Dialing(e)
    BY DEF Dialing
  <1>2. Courting(e)' => Courting(e)
    BY <1>1 DEF Courting
  <1>3. \A r, s \in Open(e)': r.kind = "INVITE" /\ s.kind = "INVITE" => r = s
    BY DEF Courted
  <1>4. Dialing(e)' => Retries \cap Sent(e)' = {}
    BY <1>1 DEF Courted
  <1>5. Courting(e)' =>
          /\ Live(e)' /\ dialogs'[e].state \in {"Calling", "Ringing"}
          /\ e \notin peerUp' /\ e \notin connecting' /\ view'[e] # "connected"
          /\ \A m \in Sent(e)': m.type = "response" /\ m.status \in {180, 401, 422}
          /\ \A r \in Open(e)': r.kind = "INVITE"
    BY <1>2 DEF Courted
  <1>6. e \in peerUp' => \A m \in Sent(e)': ~Parting(m)
    BY DEF Courted
  <1> HIDE DEF Dialing, Courting, Leaving, Parting
  <1> QED
    BY <1>3, <1>4, <1>5, <1>6 DEF Courted, FinalsSame

(* Our own steps, and what is delivered.                                    *)
LEMMA CourtedReactions ==
    ASSUME MaxDups = 0, NEW e \in OutCalls, LocalType(e), Placed(e), Courted(e),
           Delivers(e)
    PROVE  Courted(e)'
  <1> DEFINE d == dialogs[e]
  <1>0. e \in Calls
    BY DEF Calls
  <1>1. PICK m \in Message:
          /\ m \in Sent(e) /\ Sent(e)' \subseteq Sent(e) /\ Sent(e)' \subseteq Message
          /\ LoneIn(e, Retries)' /\ (m \in Retries => Retries \cap Sent(e)' = {})
          /\ Reacts(e, m)
    BY DEF Delivers, Courted
  <1>2. inv'[e] = inv[e] /\ (e \in peerUp' <=> e \in peerUp)
    BY DEF Delivers, FarEndSame
  <1>3. Courting(e) => /\ Live(e) /\ d.state \in {"Calling", "Ringing"}
                       /\ e \notin peerUp /\ e \notin connecting /\ view[e] # "connected"
                       /\ m.type = "response" /\ m.status \in {180, 401, 422}
                       /\ \A r \in Open(e): r.kind = "INVITE"
    BY <1>1 DEF Courted
  <1>4. e \in peerUp => (Live(e) \/ Leaving(e)) /\ ~Parting(m)
    BY <1>1 DEF Courted
  <1>5. Live(e) => Live(e)' \/ IsOver(e, m) \/ ConnectsNot(e, m)
    BY <1>0, <1>1, WhatEndsADialog
  <1>6. ASSUME ~Courting(e), Open(e)' = Open(e), FinalsSame(e), Live(e)'
        PROVE  Courted(e)'
    BY <1>1, <1>2, <1>6, CourtedAlike
  <1>7. ~GetsInvite(e, m)
    BY <1>1 DEF GetsInvite, Placed, NoInvite
  <1>8. CASE IsOver(e, m)
    <2>1. Parting(m) /\ Open(e)' = Open(e) /\ FinalsSame(e)
      BY <1>8 DEF IsOver, Parting, NothingElse
    <2>2. ~Courting(e)'
      <3>1. CASE Courting(e)
        <4>1. m \in Retries
          BY <1>3, <1>8, <3>1 DEF IsOver, Retries
        <4>2. ~Dialing(e) /\ Retries \cap Sent(e)' = {}
          BY <1>1, <4>1 DEF Courted
        <4> QED
          BY <2>1, <4>2 DEF Courting, Dialing
      <3>2. CASE ~Courting(e)
        BY <1>1, <2>1, <3>2 DEF Courting, Dialing
      <3> QED
        BY <3>1, <3>2
    <2>3. e \notin peerUp'
      BY <1>2, <1>4, <2>1
    <2> HIDE DEF Parting
    <2>4. (\A r, s \in Open(e): r.kind = "INVITE" /\ s.kind = "INVITE" => r = s)'
          /\ (inv[e] \notin {"sent", "cancelled"} /\ finals[e] = {})'
      BY <1>2, <2>1 DEF Courted, FinalsSame
    <2> QED
      BY <1>1, <2>2, <2>3, <2>4 DEF Courted, Courting
  <1>9. CASE GetsAck(e, m)
    <2>1. ~Courting(e) /\ Open(e)' = Open(e) /\ FinalsSame(e)
      BY <1>3, <1>9 DEF GetsAck, NothingElse
    <2>2. Live(e)' <=> Live(e)
      BY <1>5, <1>9 DEF GetsAck, IsOver, ConnectsNot, IsOk, Becomes, Live
    <2>3. e \in peerUp => Live(e)' \/ Leaving(e)'
      BY <1>4, <2>1, <2>2 DEF Leaving
    <2> QED
      BY <1>1, <1>2, <2>1, <2>3, CourtedAlike
  <1>10. CASE IsIgnored(e, m)
    <2>1. /\ Open(e)' = Open(e) /\ FinalsSame(e) /\ dialogs'[e] = d /\ view'[e] = view[e]
          /\ e \in connecting' <=> e \in connecting
      BY <1>10 DEF IsIgnored, NothingElse, Becomes
    <2>2. (Live(e)' <=> Live(e)) /\ (Leaving(e)' <=> Leaving(e))
      BY <2>1 DEF Live, Leaving
    <2> QED
      BY <1>1, <1>2, <1>3, <1>4, <2>1, <2>2, CourtedAlike
  <1>11. CASE IsRinging(e, m)
    <2>1. Live(e) => [d EXCEPT !.state = "Ringing"].state = "Ringing"
      BY Numbers DEF LocalType, Live
    <2>2. /\ Open(e)' = Open(e) /\ FinalsSame(e) /\ Live(e)
          /\ dialogs'[e] = [d EXCEPT !.state = "Ringing"]
          /\ view'[e] \in {view[e], "ringing"}
          /\ e \in connecting' <=> e \in connecting
      BY <1>11 DEF IsRinging, NothingElse, Becomes
    <2>3. Live(e)'
      BY <1>5, <1>11, <2>2 DEF IsRinging, IsOver, ConnectsNot, IsOk
    <2>4. dialogs'[e].state = "Ringing"
      BY <2>1, <2>2
    <2>5. Courting(e) => e \notin connecting' /\ view'[e] # "connected"
      BY <1>3, <2>2
    <2>6. \A r \in Open(e)': r \in Open(e) \/ r.kind # "INVITE"
      BY <2>2
    <2> QED
      BY <1>1, <1>2, <2>2, <2>3, <2>4, <2>5, <2>6, CourtedAlike
  <1>12. CASE Connects(e, m) \/ Confirms(e, m)
    <2>1. m.status = 200 /\ m.method = "INVITE" /\ Live(e)
          /\ FinalsSame(e) /\ Open(e)' = Open(e)
      BY <1>12 DEF Connects, Confirms, IsOk
    <2>2. ~Courting(e)
      BY <1>3, <2>1
    <2>3. Live(e)'
      <3>1. d \in Dialog /\ m.timer \in Refresher
        BY <2>1, MessageFields DEF LocalType, Live
      <3>2. /\ Accepted(d, m.timer) \in Dialog /\ TakeHold(d) \in Dialog
            /\ WithTimer([d EXCEPT !.refreshPending = FALSE], m.timer) \in Dialog
        BY <3>1, StaysADialog
      <3>3. dialogs'[e] \in Dialog
        BY <1>12, <3>2 DEF Connects, Confirms, Becomes
      <3> QED
        BY <3>3, NoDialogAssumption DEF Live
    <2> QED
      BY <1>6, <2>1, <2>2, <2>3
  <1>13. CASE ConnectsNot(e, m)
    <2>1. m.status = 200 /\ FinalsSame(e)
          /\ \E f: Open(e)' = Open(e) \cup {RequestOf(e, "BYE", f)}
      BY <1>13 DEF ConnectsNot, IsOk, Asks
    <2>2. ~Courting(e)
      BY <1>3, <2>1
    <2>3. Leaving(e)' /\ \A r \in Open(e)': r \in Open(e) \/ r.kind # "INVITE"
      BY <2>1, RequestIs DEF Leaving
    <2> QED
      BY <1>1, <1>2, <2>1, <2>2, <2>3, CourtedAlike
  <1>14. CASE Again(e, m)
    <2>1. m \in Retries
      BY <1>14 DEF Again, Retries
    <2>2. Courting(e) /\ ~Dialing(e) /\ Retries \cap Sent(e)' = {}
      BY <1>1, <2>1 DEF Courted, Courting
    <2>3. Open(e) = {}
      BY <1>3, <2>2 DEF Dialing
    <2>4. PICK r: Open(e)' = {r} /\ r.kind = "INVITE"
      <3>1. PICK f, r: /\ Asks(e, r)
                       /\ \/ r = [RequestOf(e, "INVITE", f) EXCEPT !.auth = TRUE]
                          \/ r = [RequestOf(e, "INVITE", f) EXCEPT !.raised = TRUE]
        BY <1>14 DEF Again
      <3>2. /\ [RequestOf(e, "INVITE", f) EXCEPT !.auth = TRUE].kind = "INVITE"
            /\ [RequestOf(e, "INVITE", f) EXCEPT !.raised = TRUE].kind = "INVITE"
        BY RequestIs
      <3>3. r.kind = "INVITE" /\ Open(e)' = {r}
        BY <2>3, <3>1, <3>2 DEF Asks
      <3> QED
        BY <3>3
    <2>5. /\ Live(e) /\ d.state = "Calling" /\ view'[e] = view[e] /\ FinalsSame(e)
          /\ e \in connecting' <=> e \in connecting
          /\ \/ dialogs'[e] = [Bump(d) EXCEPT !.authRetried = TRUE]
             \/ dialogs'[e] = [Bump(d) EXCEPT !.sessionExpiresRetried = TRUE]
      BY <1>14 DEF Again, Becomes
    <2>6. Live(e)' /\ dialogs'[e].state = "Calling"
      <3>1. d \in Dialog
        BY <2>5 DEF LocalType, Live
      <3>2. /\ [Bump(d) EXCEPT !.authRetried = TRUE] \in Dialog
            /\ [Bump(d) EXCEPT !.sessionExpiresRetried = TRUE] \in Dialog
        BY <3>1, StaysADialog
      <3>3. /\ [Bump(d) EXCEPT !.authRetried = TRUE].state = d.state
            /\ [Bump(d) EXCEPT !.sessionExpiresRetried = TRUE].state = d.state
        BY <3>1 DEF Bump, Dialog
      <3> QED
        BY <2>5, <3>2, <3>3, NoDialogAssumption DEF Live
    <2>7. \A x \in Sent(e)': x.type = "response" /\ x.status \in {180, 401, 422}
      BY <1>1, <2>2 DEF Courted
    <2>8. /\ Live(e)' /\ dialogs'[e].state \in {"Calling", "Ringing"}
          /\ e \notin peerUp' /\ e \notin connecting' /\ view'[e] # "connected"
          /\ \A r1 \in Open(e)': r1.kind = "INVITE"
          /\ \A r1, s1 \in Open(e)': r1 = s1
          /\ inv'[e] \notin {"sent", "cancelled"} /\ finals'[e] = {}
      BY <1>2, <1>3, <2>2, <2>4, <2>5, <2>6 DEF Courted, FinalsSame
    <2> QED
      BY <1>1, <2>2, <2>7, <2>8 DEF Courted
  <1> QED
    BY <1>1, <1>7, <1>8, <1>9, <1>10, <1>11, <1>12, <1>13, <1>14 DEF Reacts

(* What the far end does.                                                   *)
LEMMA CourtedFarEnd ==
    ASSUME MaxPeerReqs = 0, RefusesInDialog = FALSE, NEW e \in OutCalls,
           LocalType(e), Courted(e), FarEndActs(e)
    PROVE  Courted(e)'
  <1> DEFINE d == dialogs[e]
  <1>1. /\ dialogs'[e] = d /\ view'[e] = view[e]
        /\ e \in connecting' <=> e \in connecting
    BY DEF FarEndActs, OursSame, DialogSame, ClientSame, TasksSame
  <1>2. e \notin InCalls /\ ~Reinvites(e) /\ \A f: ~GetsFinal(e, f)
    BY CallsAssumption DEF Reinvites, GetsFinal, Courted
  <1>3. Courting(e) => /\ Live(e) /\ d.state \in {"Calling", "Ringing"}
                       /\ e \notin peerUp /\ e \notin connecting /\ view[e] # "connected"
                       /\ \A m \in Sent(e): m.type = "response" /\ m.status \in {180, 401, 422}
                       /\ \A r \in Open(e): r.kind = "INVITE"
    BY DEF Courted
  <1>4. /\ \A r, s \in Open(e): r.kind = "INVITE" /\ s.kind = "INVITE" => r = s
        /\ inv[e] \notin {"sent", "cancelled"} /\ finals[e] = {} /\ LoneIn(e, Retries)
        /\ Dialing(e) => Retries \cap Sent(e) = {}
        /\ e \in peerUp => (Live(e) \/ Leaving(e)) /\ \A m \in Sent(e): ~Parting(m)
    BY DEF Courted
  <1>5. ASSUME NEW x, Says(e, {x}), x \notin Retries \/ Retries \cap Sent(e) = {}
        PROVE  /\ LoneIn(e, Retries)' /\ Sent(e)' = Sent(e) \cup {x} /\ x \in Message
    BY <1>4, <1>5 DEF Says
  <1>6. ASSUME NEW r, NEW s, NEW ok, NEW t
        PROVE  LET x == Reply(r, s, ok, t)
               IN  /\ x.type = "response" /\ x.status = s /\ x.method = MethodOf(r.kind)
                   /\ x \in Retries => s \in {401, 422}
    BY DEF Reply, Retries
  <1>7. ASSUME NEW x, x.type = "response", x.status \in {180, 200}, x.method # "BYE"
        PROVE  ~Parting(x)
    BY <1>7 DEF Parting
  <1>8. (Live(e)' <=> Live(e)) /\ dialogs'[e].state = d.state
    BY <1>1 DEF Live
  (* Once the courtship is over, it stays so.                               *)
  <1>9. ASSUME NEW x, Says(e, {x}), x \notin Retries,
               \A r \in Open(e)': r \in Open(e) /\ r.kind # "INVITE",
               Retries \cap Sent(e) = {}, inv'[e] = inv[e], FinalsSame(e),
               e \in peerUp' => /\ Live(e) \/ Leaving(e)'
                                /\ ~Parting(x) /\ \A m \in Sent(e): ~Parting(m)
        PROVE  Courted(e)'
    <2>1. LoneIn(e, Retries)' /\ Sent(e)' = Sent(e) \cup {x}
      BY <1>5, <1>9
    <2>2. ~Dialing(e)' /\ ~Courting(e)'
      BY <1>9, <2>1 DEF Dialing, Courting
    <2>3. finals'[e] = {} /\ inv'[e] \notin {"sent", "cancelled"}
      BY <1>4, <1>9 DEF FinalsSame
    <2>4. \A r, s \in Open(e)': ~(r.kind = "INVITE" /\ s.kind = "INVITE")
      BY <1>9
    <2>5. e \in peerUp' => (Live(e)' \/ Leaving(e)') /\ \A m \in Sent(e)': ~Parting(m)
      BY <1>8, <1>9, <2>1
    <2> HIDE DEF Dialing, Courting, Leaving, Parting, Retries
    <2> QED
      BY <2>1, <2>2, <2>3, <2>4, <2>5 DEF Courted
  <1>10. ASSUME NEW r \in Open(e), Rings(e, r), FinalsSame(e) PROVE Courted(e)'
    <2> DEFINE x == Reply(r, 180, "good", "none")
               q == [r EXCEPT !.rang = TRUE]
    <2>1. /\ r.kind = "INVITE" /\ Says(e, {x})
          /\ Open(e)' = (Open(e) \ {r}) \cup {q}
          /\ inv'[e] = inv[e] /\ (e \in peerUp' <=> e \in peerUp)
      BY <1>10 DEF Rings, FarEndSame
    <2>2. x.type = "response" /\ x.status = 180 /\ x \notin Retries
      BY <1>6
    <2>3. q.kind = "INVITE"
      BY <2>1 DEF LocalType, Request
    <2>4. Courting(e) /\ Dialing(e)
      BY <2>1 DEF Courting, Dialing
    <2> HIDE DEF x, q, Courting, Dialing, Parting
    <2>5. /\ LoneIn(e, Retries)' /\ Sent(e)' = Sent(e) \cup {x}
          /\ Retries \cap Sent(e)' = {}
      BY <1>4, <1>5, <2>1, <2>2, <2>4
    <2>6. \A y \in Open(e)': y = q
      BY <1>3, <1>4, <2>1, <2>4
    <2>7. \A m \in Sent(e)': m.type = "response" /\ m.status \in {180, 401, 422}
      BY <1>3, <2>2, <2>4, <2>5
    <2>8. finals'[e] = {} /\ inv'[e] \notin {"sent", "cancelled"}
      BY <1>4, <1>10, <2>1 DEF FinalsSame
    <2> QED
      BY <1>1, <1>3, <1>8, <2>1, <2>3, <2>4, <2>5, <2>6, <2>7, <2>8 DEF Courted
  <1>11. ASSUME NEW r \in Open(e), Accepts(e, r), FinalsSame(e) PROVE Courted(e)'
    <2>1. PICK ok, t: Says(e, {Reply(r, 200, ok, t)})
      BY <1>11 DEF Accepts
    <2> DEFINE x == Reply(r, 200, ok, t)
    <2>2. /\ r.kind \in InviteKinds /\ Open(e)' = Open(e) \ {r}
          /\ r.kind # "INVITE" => e \in peerUp
          /\ inv'[e] = inv[e]
      BY <1>11 DEF Accepts
    <2>3. x.type = "response" /\ x.status = 200 /\ x.method = "INVITE" /\ x \notin Retries
      BY <1>6, <2>2 DEF MethodOf
    <2>4. ~Parting(x)
      BY <1>7, <2>3
    <2>5. r.kind # "BYE"
      BY <2>2 DEF InviteKinds
    <2>6. \A s \in Open(e)': s \in Open(e) /\ s.kind # "INVITE"
      <3>1. CASE r.kind = "INVITE"
        BY <1>4, <2>2, <3>1
      <3>2. CASE r.kind # "INVITE"
        BY <1>3, <2>2, <3>2 DEF Courting, Dialing
      <3> QED
        BY <3>1, <3>2
    <2>7. Retries \cap Sent(e) = {} /\ (Live(e) \/ Leaving(e)')
          /\ \A m \in Sent(e): ~Parting(m)
      <3>1. CASE r.kind = "INVITE"
        <4>1. Dialing(e) /\ Courting(e)
          BY <3>1 DEF Dialing, Courting
        <4>2. Retries \cap Sent(e) = {} /\ Live(e)
              /\ \A m \in Sent(e): m.type = "response" /\ m.status \in {180, 401, 422}
          BY <1>3, <1>4, <4>1
        <4>3. \A m \in Sent(e): m.status = 180
          BY <4>2 DEF LocalType, Retries
        <4> QED
          BY <4>2, <4>3 DEF Parting
      <3>2. CASE r.kind # "INVITE"
        <4>1. e \in peerUp /\ Retries \cap Sent(e) = {}
          BY <1>3, <2>2, <3>2 DEF Courting
        <4>2. Leaving(e) => Leaving(e)'
          BY <2>2, <2>5 DEF Leaving
        <4> QED
          BY <1>4, <4>1, <4>2
      <3> QED
        BY <3>1, <3>2
    <2> HIDE DEF x
    <2> QED
      BY <1>9, <1>11, <2>1, <2>2, <2>3, <2>4, <2>6, <2>7 DEF x
  <1>12. ASSUME NEW r \in Open(e), Refuses(e, r), FinalsSame(e) PROVE Courted(e)'
    <2>1. PICK s \in {401, 422, 486}, ok \in {"good", "bad", "absent"}:
            /\ Says(e, {Reply(r, s, ok, "none")})
            /\ s = 486 \/ r.kind = "INVITE"
      BY <1>12 DEF Refuses
    <2> DEFINE x == Reply(r, s, ok, "none")
    <2>2. /\ Open(e)' = Open(e) \ {r} /\ inv'[e] = inv[e]
          /\ e \in peerUp' <=> e \in peerUp
          /\ r.kind # "INVITE" => e \notin peerUp \/ r.kind = "REFER"
      BY <1>12 DEF Refuses, FarEndSame
    <2>3. /\ x.type = "response" /\ x.status = s /\ x.method = MethodOf(r.kind)
          /\ x \in Retries => s \in {401, 422}
          /\ Says(e, {x})
      BY <1>6, <2>1
    <2> HIDE DEF x
    <2>4. CASE r.kind = "INVITE"
      <3>1. Dialing(e) /\ Courting(e) /\ Retries \cap Sent(e) = {}
        BY <1>4, <2>4 DEF Dialing, Courting
      <3>2. Open(e)' = {} /\ e \notin peerUp'
        BY <1>3, <1>4, <2>2, <2>4, <3>1
      <3>3. CASE s = 486
        BY <1>9, <1>12, <2>1, <2>2, <2>3, <3>1, <3>2, <3>3
      <3>4. CASE s # 486
        <4>1. LoneIn(e, Retries)' /\ Sent(e)' = Sent(e) \cup {x}
          BY <1>5, <2>3, <3>1
        <4>2. \A m \in Sent(e)': m.type = "response" /\ m.status \in {180, 401, 422}
          BY <1>3, <2>1, <2>3, <3>1, <3>4, <4>1
        <4>3. finals'[e] = {} /\ inv'[e] \notin {"sent", "cancelled"} /\ ~Dialing(e)'
          BY <1>4, <1>12, <2>2, <3>2 DEF FinalsSame, Dialing
        <4> HIDE DEF Dialing, Courting, Parting, Retries
        <4> QED
          BY <1>1, <1>3, <1>8, <3>1, <3>2, <4>1, <4>2, <4>3 DEF Courted
      <3> QED
        BY <3>3, <3>4
    <2>5. CASE r.kind # "INVITE"
      <3>1. s = 486 /\ ~Courting(e)
        BY <1>3, <2>1, <2>5
      <3>2. Retries \cap Sent(e) = {} /\ x \notin Retries
            /\ \A q \in Open(e)': q \in Open(e) /\ q.kind # "INVITE"
        BY <2>2, <2>3, <3>1 DEF Courting, Dialing
      <3>3. ASSUME e \in peerUp'
            PROVE  /\ Live(e) \/ Leaving(e)'
                   /\ ~Parting(x) /\ \A m \in Sent(e): ~Parting(m)
        <4>1. r.kind = "REFER" /\ e \in peerUp
          BY <2>2, <2>5, <3>3
        <4>2. ~Parting(x)
          BY <2>3, <4>1 DEF Parting, MethodOf, InviteKinds
        <4>3. Leaving(e) => Leaving(e)'
          BY <2>2, <4>1 DEF Leaving
        <4> QED
          BY <1>4, <4>1, <4>2, <4>3
      <3> QED
        BY <1>9, <1>12, <2>2, <2>3, <3>2, <3>3
    <2> QED
      BY <2>4, <2>5
  <1>13. ASSUME NEW r \in Open(e), TakesBye(e, r) \/ TakesOther(e, r), FinalsSame(e)
         PROVE  Courted(e)'
    <2> DEFINE x == Reply(r, 200, "good", "none")
    <2>1. /\ r.kind \in {"BYE", "INFO", "REFER"} /\ Says(e, {x})
          /\ Open(e)' = Open(e) \ {r} /\ inv'[e] = inv[e]
          /\ e \in peerUp' => e \in peerUp /\ r.kind # "BYE"
      BY <1>13 DEF TakesBye, TakesOther, FarEndSame
    <2>2. /\ x.type = "response" /\ x.status = 200 /\ x.method = r.kind
          /\ x \notin Retries
      BY <1>6, <2>1 DEF MethodOf, InviteKinds
    <2>3. ~Courting(e)
      BY <1>3, <2>1
    <2>4. Retries \cap Sent(e) = {}
          /\ \A q \in Open(e)': q \in Open(e) /\ q.kind # "INVITE"
      BY <2>1, <2>3 DEF Courting, Dialing
    <2>5. ASSUME e \in peerUp'
          PROVE  /\ Live(e) \/ Leaving(e)'
                 /\ ~Parting(x) /\ \A m \in Sent(e): ~Parting(m)
      <3>1. ~Parting(x)
        BY <1>7, <2>1, <2>2, <2>5
      <3>2. Leaving(e) => Leaving(e)'
        BY <2>1, <2>5 DEF Leaving
      <3> QED
        BY <1>4, <2>1, <2>5, <3>1, <3>2
    <2> HIDE DEF x
    <2> QED
      BY <1>9, <1>13, <2>1, <2>2, <2>4, <2>5
  <1>14. ASSUME HangsUp(e), RequestsSame(e), FinalsSame(e) PROVE Courted(e)'
    <2>1. /\ e \in peerUp /\ e \notin peerUp' /\ inv'[e] = inv[e]
          /\ Says(e, {Bare("BYE")}) /\ Open(e)' = Open(e)
      BY <1>14 DEF HangsUp, RequestsSame
    <2>2. Bare("BYE") \notin Retries
      BY BareIs DEF Retries
    <2>3. Retries \cap Sent(e) = {}
          /\ \A q \in Open(e)': q \in Open(e) /\ q.kind # "INVITE"
      BY <1>3, <2>1 DEF Courting, Dialing
    <2> QED
      BY <1>9, <1>14, <2>1, <2>2, <2>3
  <1> QED
    BY <1>2, <1>10, <1>11, <1>12, <1>13, <1>14 DEF FarEndActs

LEMMA CourtedMoves ==
    ASSUME MaxPeerReqs = 0, MaxDups = 0, EarlyHangUp = FALSE, RefusesInDialog = FALSE,
           NEW e \in OutCalls, LocalType(e), Placed(e), Courted(e), Moves(e), ~Fails(e)
    PROVE  Courted(e)'
  <1> DEFINE d == dialogs[e]
  <1>0. e \in Calls
    BY DEF Calls
  <1>1. ASSUME ChanSame(e), FarEndSame(e), FinalsSame(e),
               \A r \in Open(e)': r \in Open(e) \/ r.kind # "INVITE",
               Courting(e) =>
                  /\ Live(e)' /\ dialogs'[e].state \in {"Calling", "Ringing"}
                  /\ e \notin connecting' /\ view'[e] # "connected"
                  /\ Open(e)' = Open(e),
               e \in peerUp => Live(e)' \/ Leaving(e)'
        PROVE  Courted(e)'
    <2>1. Sent(e)' = Sent(e) /\ (LoneIn(e, Retries) => LoneIn(e, Retries)')
      BY <1>1 DEF ChanSame, Sent, LoneIn
    <2> QED
      BY <1>1, <2>1, CourtedAlike DEF FarEndSame, Courted
  <1>2. Courting(e) => /\ Live(e) /\ d.state \in {"Calling", "Ringing"}
                       /\ e \notin connecting /\ view[e] # "connected"
    BY DEF Courted
  <1>3. e \in peerUp => Live(e) \/ Leaving(e)
    BY DEF Courted
  <1>4. Live(e) => (Commands(e) => Live(e)' \/ Declines(e)) /\ (Finishes(e) => Live(e)')
                   /\ (Refreshes(e) => Live(e)')
    BY <1>0, WhatEndsADialog
  <1>5. view[e] \notin {"incoming", "accepting"} /\ answering[e] = 0
        /\ (Unplaced(e) => Blank(e)) /\ (e \in offering => view[e] = "asked")
    BY DEF Placed
  <1>6. Blank(e) => ~Courting(e) /\ e \notin peerUp
    BY DEF Blank, Courting, Dialing
  <1>7. CASE Still(e)
    <2>1. (Live(e)' <=> Live(e)) /\ (Leaving(e)' <=> Leaving(e))
          /\ dialogs'[e] = d /\ view'[e] = view[e] /\ Open(e)' = Open(e)
          /\ (e \in connecting' <=> e \in connecting)
          /\ ChanSame(e) /\ FarEndSame(e) /\ FinalsSame(e)
      BY <1>7 DEF Still, DialogSame, ClientSame, TasksSame, RequestsSame, Live, Leaving
    <2> QED
      BY <1>1, <1>2, <1>3, <2>1
  <1>8. CASE Commands(e)
    <2>1. ChanSame(e) /\ FarEndSame(e)
      BY <1>8 DEF Commands
    <2>2. ~Declines(e) /\ ~TakesUp(e)
      BY <1>5 DEF Declines, TakesUp
    <2>3. CASE Dials(e)
      <3>1. FinalsSame(e) /\ Open(e)' = Open(e) /\ ~Courting(e) /\ e \notin peerUp
        BY <1>5, <1>6, <2>3 DEF Dials, Unplaced
      <3> QED
        BY <1>1, <2>1, <3>1
    <2>4. CASE Quits(e)
      <3>1. RequestOf(e, "BYE", Closing(d)).kind = "BYE"
        BY RequestIs
      <3>2. /\ view[e] = "connected" /\ FinalsSame(e) /\ Leaving(e)'
            /\ \A r \in Open(e)': r \in Open(e) \/ r.kind # "INVITE"
        BY <2>4, <3>1 DEF Quits, MayHangUp, Asks, Leaving
      <3> QED
        BY <1>1, <1>2, <2>1, <3>2
    <2>5. CASE Requests(e)
      <3>1. PICK kind \in InDialogKind: Asks(e, RequestOf(e, kind, Asked(d, kind)))
        BY <2>5 DEF Requests
      <3>2. RequestOf(e, kind, Asked(d, kind)).kind # "INVITE"
        BY RequestIs DEF InDialogKind
      <3>3. /\ view[e] = "connected" /\ FinalsSame(e) /\ Live(e)
            /\ \A r \in Open(e)': r \in Open(e) \/ r.kind # "INVITE"
        BY <2>5, <3>1, <3>2 DEF Requests, MayAsk, Asks
      <3> QED
        BY <1>1, <1>2, <1>4, <1>8, <2>1, <2>2, <3>3
    <2> QED
      BY <1>8, <2>2, <2>3, <2>4, <2>5 DEF Commands
  <1>9. CASE Finishes(e)
    <2>1. ChanSame(e) /\ FarEndSame(e)
      BY <1>9 DEF Finishes
    <2>2. CASE OfferReady(e)
      <3>1. /\ Blank(e) /\ view[e] = "asked" /\ FinalsSame(e)
            /\ e \in connecting' <=> e \in connecting
        BY <1>5, <2>2 DEF OfferReady, Unplaced
      <3>2. ASSUME Open(e)' = Open(e) PROVE Courted(e)'
        BY <1>1, <1>6, <2>1, <3>1, <3>2
      <3>3. ASSUME dialogs'[e] = NewOutgoing, view'[e] = view[e],
                   Asks(e, RequestOf(e, "INVITE", NewOutgoing))
            PROVE  Courted(e)'
        <4> DEFINE q == RequestOf(e, "INVITE", NewOutgoing)
        <4>1. q.kind = "INVITE"
          BY RequestIs
        <4> HIDE DEF q
        <4>2. Open(e)' = {q} /\ Sent(e)' = {}
          BY <2>1, <3>1, <3>3 DEF Asks, Blank, ChanSame, Sent, q
        <4>3. Live(e)' /\ dialogs'[e].state = "Calling"
          <5>1. NewOutgoing.state = "Calling"
            BY DEF NewOutgoing
          <5> QED
            BY <3>3, <5>1, NewDialogs, NoDialogAssumption DEF Live
        <4>4. LoneIn(e, Retries)' /\ finals'[e] = {} /\ inv'[e] \notin {"sent", "cancelled"}
          BY <2>1, <3>1 DEF Courted, LoneIn, ChanSame, FinalsSame, FarEndSame
        <4>5. e \notin peerUp' /\ e \notin connecting' /\ view'[e] # "connected"
          BY <2>1, <3>1, <3>3 DEF Blank, FarEndSame
        <4> HIDE DEF Courting, Parting
        <4> QED
          BY <4>1, <4>2, <4>3, <4>4, <4>5 DEF Courted
      <3> QED
        BY <2>2, <3>2, <3>3 DEF OfferReady, Becomes
    <2>3. CASE ChecksDone(e)
      <3>1. /\ e \in connecting /\ FinalsSame(e) /\ Open(e)' = Open(e)
            /\ Leaving(e)' <=> Leaving(e)
        BY <2>3 DEF ChecksDone, Leaving
      <3> QED
        BY <1>1, <1>2, <1>3, <1>4, <1>9, <2>1, <3>1
    <2> QED
      BY <1>5, <1>9, <2>2, <2>3 DEF Finishes, AnswerReady
  <1>10. CASE Refreshes(e)
    <2>1. /\ Live(e) /\ d.state = "Confirmed" /\ FinalsSame(e) /\ ChanSame(e) /\ FarEndSame(e)
          /\ Asks(e, RequestOf(e, "refresh", Refreshed(d)))
      BY <1>10 DEF Refreshes, Due, Asks
    <2>2. \A r \in Open(e)': r \in Open(e) \/ r.kind # "INVITE"
      BY <2>1, RequestIs DEF Asks
    <2> QED
      BY <1>1, <1>2, <1>4, <1>10, <2>1, <2>2
  <1> QED
    BY <1>7, <1>8, <1>9, <1>10, CourtedReactions, CourtedFarEnd DEF Moves

(* A call the far end placed.  It is up, or will be when our 200 arrives:   *)
Up(e) == e \in peerUp \/ (inv[e] = "sent" /\ "answer" \in finals[e])

Standing(e) == Live(e) /\ dialogs[e].state = "Confirmed" /\ view[e] # "incoming"

(* until the far end has our final answer, we have nothing of it but its    *)
(* INVITE, and nothing we ask in the dialog has reached it.                 *)
Hosted(e) ==
    /\ inv[e] \in {"none", "sent", "cancelled"} => e \notin peerUp
    /\ inv[e] = "none" => ~Live(e) /\ Open(e) = {} /\ Sent(e) = {} /\ finals[e] = {}
    /\ inv[e] = "sent" =>
          /\ \A m \in Sent(e): m.type = "INVITE"
          /\ \/ "answer" \in finals[e]
             \/ /\ Open(e) = {}
                /\ Live(e) => dialogs[e].state = "Calling" /\ view[e] # "connected"
    /\ Up(e) => Leaving(e) \/ Standing(e)
    /\ e \in peerUp => \A m \in Sent(e): ~Parting(m)
    /\ \A r \in Open(e): r.kind # "INVITE"
    /\ \A m \in Sent(e): m.type = "response" => m.status \notin {180, 401, 422}

(* A step after the far end has a final answer to its INVITE.               *)
LEMMA HostedOnceAnswered ==
    ASSUME NEW e, inv'[e] \notin {"none", "sent"},
           inv'[e] = "cancelled" => e \notin peerUp',
           e \in peerUp' => (Leaving(e)' \/ Standing(e)') /\ \A m \in Sent(e)': ~Parting(m),
           \A r \in Open(e)': r.kind # "INVITE",
           \A m \in Sent(e)': m.type = "response" => m.status \notin {180, 401, 422}
    PROVE  Hosted(e)'
  BY DEF Hosted, Up

LEMMA HostedReactions ==
    ASSUME NEW e \in InCalls, LocalType(e), Hosted(e), Delivers(e)
    PROVE  Hosted(e)'
  <1> DEFINE d == dialogs[e]
  <1>1. PICK m \in Message:
          /\ m \in Sent(e) /\ Sent(e)' \subseteq Sent(e)
          /\ Reacts(e, m)
    BY DEF Delivers
  <1>2. inv'[e] = inv[e] /\ (e \in peerUp' <=> e \in peerUp)
    BY DEF Delivers, FarEndSame
  <1>3. /\ inv[e] # "none"
        /\ inv[e] = "sent" => m.type = "INVITE" /\ \A x \in Sent(e)': x.type = "INVITE"
        /\ inv[e] = "cancelled" => e \notin peerUp
        /\ m.type = "response" => m.status \notin {180, 401, 422}
        /\ \A r \in Open(e): r.kind # "INVITE"
        /\ \A x \in Sent(e)': x.type = "response" => x.status \notin {180, 401, 422}
        /\ e \in peerUp => ~Parting(m) /\ \A x \in Sent(e)': ~Parting(x)
        /\ Up(e) => Leaving(e) \/ Standing(e)
    BY <1>1 DEF Hosted
  <1>4. Live(e) => d \in Dialog
    BY DEF LocalType, Live
  <1>5. ASSUME m.type # "INVITE", \A r \in Open(e)': r.kind # "INVITE",
               e \in peerUp => Leaving(e)' \/ Standing(e)'
        PROVE  Hosted(e)'
    BY <1>2, <1>3, <1>5, HostedOnceAnswered
  <1>6. e \in Calls /\ (Live(e) => Live(e)' \/ IsOver(e, m) \/ ConnectsNot(e, m))
    BY <1>1, WhatEndsADialog DEF Calls
  <1>7. CASE GetsInvite(e, m)
    <2>1. Open(e)' = Open(e) /\ (Leaving(e)' <=> Leaving(e))
      BY <1>7 DEF GetsInvite, Leaving
    <2>2. CASE Live(e) /\ d.state = "Confirmed"
      <3>1. dialogs'[e] = Reinvited(d, m) /\ view'[e] = view[e]
            /\ finals'[e] = finals[e] \cup {"answer"}
        BY <1>7, <2>2 DEF GetsInvite, Becomes
      <3>2. Reinvited(d, m) \in Dialog /\ Reinvited(d, m).state = "Confirmed"
        <4>1. d \in Dialog
          BY <1>4, <2>2
        <4>2. Reinvited(d, m) \in Dialog
          BY <4>1, StaysADialog
        <4>3. Reinvited(d, m).state = d.state
          BY <4>1 DEF Reinvited, Dialog
        <4> QED
          BY <2>2, <4>2, <4>3
      <3>3. Live(e)' /\ dialogs'[e].state = "Confirmed"
        BY <3>1, <3>2, NoDialogAssumption DEF Live
      <3>4. Up(e)' => Up(e)
        BY <1>2, <2>2 DEF Up, Hosted
      <3>5. Up(e)' => Leaving(e)' \/ Standing(e)'
        BY <1>3, <2>1, <3>1, <3>3, <3>4 DEF Standing
      <3> HIDE DEF Parting, Standing, Leaving
      <3> QED
        BY <1>2, <1>3, <2>1, <3>1, <3>5 DEF Hosted
    <2>3. CASE ~(Live(e) /\ d.state = "Confirmed")
      <3>1. dialogs'[e] = NewIncoming(m.body # "bad", m.timer) /\ view'[e] = "incoming"
            /\ finals'[e] = finals[e]
        BY <1>7, <2>3 DEF GetsInvite, Becomes, FinalsSame
      <3>2. dialogs'[e].state = "Calling"
        BY <3>1 DEF NewIncoming, NewOutgoing
      <3>3. Up(e)' => Leaving(e)'
        BY <1>2, <1>3, <2>1, <2>3, <3>1 DEF Up, Standing
      <3>4. inv[e] = "sent" => "answer" \in finals[e] \/ Open(e) = {}
        BY DEF Hosted
      <3> HIDE DEF Parting, Standing, Leaving, Live
      <3> QED
        BY <1>2, <1>3, <2>1, <3>1, <3>2, <3>3, <3>4 DEF Hosted
    <2> QED
      BY <2>2, <2>3
  <1>8. CASE IsOver(e, m)
    <2>1. Parting(m) /\ m.type # "INVITE" /\ Open(e)' = Open(e)
      BY <1>8 DEF IsOver, Parting, NothingElse
    <2> QED
      BY <1>3, <1>5, <2>1
  <1>9. CASE GetsAck(e, m)
    <2>1. /\ m.type = "ACK" /\ view'[e] = view[e] /\ Open(e)' = Open(e)
          /\ Live(e) /\ d.state = "Confirmed" => dialogs'[e] = d
      BY <1>9 DEF GetsAck, Becomes, NothingElse
    <2>2. (Leaving(e) => Leaving(e)') /\ (Standing(e) => Standing(e)')
      BY <2>1 DEF Leaving, Standing, Live
    <2> QED
      BY <1>3, <1>5, <2>1, <2>2 DEF Up
  <1>10. CASE IsIgnored(e, m)
    <2>1. /\ m.type = "response" /\ view'[e] = view[e] /\ Open(e)' = Open(e)
          /\ dialogs'[e] = d
      BY <1>10 DEF IsIgnored, Becomes, NothingElse
    <2>2. (Leaving(e) => Leaving(e)') /\ (Standing(e) => Standing(e)')
      BY <2>1 DEF Leaving, Standing, Live
    <2> QED
      BY <1>3, <1>5, <2>1, <2>2 DEF Up
  <1>11. CASE Connects(e, m)
    <2>1. /\ m.type = "response" /\ Open(e)' = Open(e) /\ d.state # "Confirmed"
      BY <1>11 DEF Connects, IsOk
    <2>2. e \in peerUp => Leaving(e)'
      BY <1>3, <2>1 DEF Up, Standing, Leaving
    <2> QED
      BY <1>3, <1>5, <2>1, <2>2
  <1>12. CASE ConnectsNot(e, m)
    <2>1. m.type = "response" /\ \E f: Open(e)' = Open(e) \cup {RequestOf(e, "BYE", f)}
      BY <1>12 DEF ConnectsNot, IsOk, Asks
    <2>2. Leaving(e)' /\ \A r \in Open(e)': r.kind # "INVITE"
      BY <1>3, <2>1, RequestIs DEF Leaving
    <2> QED
      BY <1>5, <2>1, <2>2
  <1>13. CASE Confirms(e, m)
    <2> DEFINE f == [d EXCEPT !.refreshPending = FALSE]
    <2>1. /\ m.type = "response" /\ Live(e) /\ view'[e] = view[e] /\ Open(e)' = Open(e)
          /\ dialogs'[e] \in {WithTimer(f, m.timer), TakeHold(d)}
      BY <1>13 DEF Confirms, IsOk, Becomes
    <2>2. d \in Dialog /\ f \in Dialog /\ f.state = d.state /\ m.timer \in Refresher
      BY <1>4, <2>1, MessageFields DEF Dialog
    <2>3. WithTimer(f, m.timer) \in Dialog /\ TakeHold(d) \in Dialog
      BY <2>2, StaysADialog
    <2> HIDE DEF f
    <2>4. WithTimer(f, m.timer).state = d.state /\ TakeHold(d).state = d.state
      BY <2>2, Numbers
    <2>5. Live(e)' /\ dialogs'[e].state = d.state
      BY <2>1, <2>3, <2>4, NoDialogAssumption DEF Live
    <2>6. (Leaving(e) => Leaving(e)') /\ (Standing(e) => Standing(e)')
      BY <2>1, <2>5 DEF Leaving, Standing
    <2> QED
      BY <1>3, <1>5, <2>1, <2>6 DEF Up
  <1>14. ~IsRinging(e, m) /\ ~Again(e, m)
    BY <1>3 DEF IsRinging, Again
  <1> QED
    BY <1>1, <1>7, <1>8, <1>9, <1>10, <1>11, <1>12, <1>13, <1>14 DEF Reacts

(* What the far end does.  Of what we sent, our final answer comes first.   *)
LEMMA HostedFarEnd ==
    ASSUME Reorder = FALSE, RefusesInDialog = FALSE, NEW e \in InCalls,
           LocalType(e), Hosted(e), FarEndActs(e)
    PROVE  Hosted(e)'
  <1> DEFINE d == dialogs[e]
  <1>1. dialogs'[e] = d /\ view'[e] = view[e] /\ (Standing(e)' <=> Standing(e))
    BY DEF FarEndActs, OursSame, DialogSame, ClientSame, Standing, Live
  <1>2. /\ \A r \in Open(e): r.kind # "INVITE"
        /\ \A m \in Sent(e): m.type = "response" => m.status \notin {180, 401, 422}
        /\ e \in peerUp => \A m \in Sent(e): ~Parting(m)
        /\ Up(e) => Leaving(e) \/ Standing(e)
        /\ inv[e] \in {"none", "sent", "cancelled"} => e \notin peerUp
        /\ inv[e] = "none" => ~Live(e) /\ Open(e) = {} /\ Sent(e) = {} /\ finals[e] = {}
    BY DEF Hosted
  <1>3. e \in peerUp => Leaving(e) \/ Standing(e)
    BY <1>2 DEF Up
  <1>4. ASSUME NEW r, NEW s, NEW ok, NEW t
        PROVE  LET x == Reply(r, s, ok, t)
               IN  x.type = "response" /\ x.status = s /\ x.method = MethodOf(r.kind)
    BY DEF Reply
  <1>5. ASSUME NEW x, x.type = "response", x.status \in {180, 200}, x.method # "BYE"
        PROVE  ~Parting(x)
    BY <1>5 DEF Parting
  (* The far end takes one of our requests: it has our final answer.        *)
  <1>6. ASSUME NEW r \in Open(e) \cap Request, Reached(r), NEW x, Says(e, {x}),
               x.type = "response" => x.status \notin {180, 401, 422},
               Open(e)' = Open(e) \ {r}, inv'[e] = inv[e],
               e \in peerUp' => e \in peerUp /\ r.kind # "BYE" /\ ~Parting(x)
        PROVE  Hosted(e)'
    <2>1. r.call = e
      BY <1>6 DEF Open
    <2>2. finals[e] = {}
      BY <1>6, <2>1 DEF Reached
    <2>3. inv[e] \notin {"none", "sent"}
      BY <1>6, <2>2 DEF Hosted
    <2>4. Sent(e)' = Sent(e) \cup {x}
      BY <1>6 DEF Says
    <2>5. e \in peerUp' => (Leaving(e) => Leaving(e)')
      BY <1>6 DEF Leaving
    <2>6. inv'[e] = "cancelled" => e \notin peerUp'
      BY <1>2, <1>6
    <2>7. e \in peerUp' => (Leaving(e)' \/ Standing(e)') /\ \A m \in Sent(e)': ~Parting(m)
      BY <1>1, <1>2, <1>3, <1>6, <2>4, <2>5
    <2>8. /\ \A q \in Open(e)': q.kind # "INVITE"
          /\ \A m \in Sent(e)': m.type = "response" => m.status \notin {180, 401, 422}
      BY <1>2, <1>6, <2>4
    <2> QED
      BY <1>6, <2>3, <2>6, <2>7, <2>8, HostedOnceAnswered
  <1>7. ASSUME NEW r \in Open(e) \cap Request, Reached(r), Accepts(e, r)
        PROVE  Hosted(e)'
    <2>1. PICK ok, t: Says(e, {Reply(r, 200, ok, t)})
      BY <1>7 DEF Accepts
    <2> DEFINE x == Reply(r, 200, ok, t)
    <2>2. /\ r.kind \in InviteKinds /\ Open(e)' = Open(e) \ {r} /\ inv'[e] = inv[e]
          /\ r.kind # "INVITE" /\ e \in peerUp
      BY <1>2, <1>7 DEF Accepts
    <2>3. x.type = "response" /\ x.status = 200 /\ x.method = "INVITE"
      BY <1>4, <2>2 DEF MethodOf
    <2>4. ~Parting(x) /\ r.kind # "BYE"
      BY <1>5, <2>2, <2>3 DEF InviteKinds
    <2> HIDE DEF x
    <2> QED
      BY <1>6, <1>7, <2>1, <2>2, <2>3, <2>4 DEF x
  <1>8. ASSUME NEW r \in Open(e) \cap Request, Reached(r), Refuses(e, r)
        PROVE  Hosted(e)'
    <2>1. r.kind # "INVITE"
      BY <1>2, <1>8
    <2>2. PICK s, ok: Says(e, {Reply(r, s, ok, "none")}) /\ s = 486
      BY <1>8, <2>1 DEF Refuses
    <2> DEFINE x == Reply(r, s, ok, "none")
    <2>3. /\ Open(e)' = Open(e) \ {r} /\ inv'[e] = inv[e]
          /\ e \in peerUp' <=> e \in peerUp
          /\ e \in peerUp => r.kind = "REFER"
      BY <1>8, <2>1 DEF Refuses, FarEndSame
    <2>4. x.type = "response" /\ x.status = 486 /\ x.method = MethodOf(r.kind)
      BY <1>4, <2>2
    <2>5. e \in peerUp => ~Parting(x)
      BY <2>3, <2>4 DEF Parting, MethodOf, InviteKinds
    <2> HIDE DEF x
    <2> QED
      BY <1>6, <1>8, <2>2, <2>3, <2>4, <2>5 DEF x
  <1>9. ASSUME NEW r \in Open(e) \cap Request, Reached(r), TakesBye(e, r) \/ TakesOther(e, r)
        PROVE  Hosted(e)'
    <2> DEFINE x == Reply(r, 200, "good", "none")
    <2>1. /\ r.kind \in {"BYE", "INFO", "REFER"} /\ Says(e, {x})
          /\ Open(e)' = Open(e) \ {r} /\ inv'[e] = inv[e]
          /\ e \in peerUp' => e \in peerUp /\ r.kind # "BYE"
      BY <1>9 DEF TakesBye, TakesOther, FarEndSame
    <2>2. x.type = "response" /\ x.status = 200 /\ x.method = r.kind
      BY <1>4, <2>1 DEF MethodOf, InviteKinds
    <2>3. e \in peerUp' => ~Parting(x)
      BY <1>5, <2>1, <2>2
    <2> HIDE DEF x
    <2> QED
      BY <1>6, <1>9, <2>1, <2>2, <2>3 DEF x
  <1>10. ASSUME Invites(e), RequestsSame(e), FinalsSame(e) PROVE Hosted(e)'
    <2>1. PICK body, t: Says(e, {ReqMsg("INVITE", body, t)})
      BY <1>10 DEF Invites
    <2>2. ReqMsg("INVITE", body, t).type = "INVITE"
      BY DEF ReqMsg
    <2>3. /\ \A m \in Sent(e)': m.type = "INVITE"
          /\ Open(e)' = {} /\ finals'[e] = {} /\ ~Live(e)' /\ e \notin peerUp'
          /\ inv'[e] = "sent"
      BY <1>1, <1>2, <1>10, <2>1, <2>2 DEF Invites, Says, RequestsSame, FinalsSame, Live
    <2> QED
      BY <2>3 DEF Hosted, Up
  <1>11. ASSUME Cancels(e), RequestsSame(e) PROVE Hosted(e)'
    <2>1. /\ Open(e)' = Open(e) /\ Sent(e)' = Sent(e) \cup {Bare("CANCEL")}
          /\ inv'[e] = "cancelled" /\ e \notin peerUp'
      BY <1>2, <1>11 DEF Cancels, RequestsSame, Says
    <2> QED
      BY <1>2, <2>1, BareIs, HostedOnceAnswered
  <1>12. ASSUME NEW f, GetsFinal(e, f) PROVE Hosted(e)'
    <2> DEFINE ms == IF f = "answer" /\ inv[e] = "cancelled"
                     THEN {Bare("ACK"), Bare("BYE")} ELSE {Bare("ACK")}
    <2>1. /\ Sent(e)' = Sent(e) \cup ms /\ Open(e)' = Open(e)
          /\ inv'[e] = "done" /\ f \in finals[e]
          /\ e \in peerUp' <=> (e \in peerUp \/ (f = "answer" /\ inv[e] = "sent"))
      BY <1>12 DEF GetsFinal, RequestsSame, Says
    <2>2. e \in peerUp' => Up(e)
      BY <2>1 DEF Up
    <2>3. \A m \in ms: m.type \in {"ACK", "BYE"}
      BY BareIs
    <2>4. e \in peerUp' => \A m \in ms: m.type = "ACK"
      BY <1>2, <2>1, BareIs
    <2>5. e \in peerUp' => \A m \in Sent(e): ~Parting(m)
      <3>1. ASSUME inv[e] = "sent" PROVE \A m \in Sent(e): ~Parting(m)
        BY <3>1 DEF Hosted, Parting
      <3> QED
        BY <1>2, <2>1, <3>1
    <2>6. (Leaving(e) => Leaving(e)')
      BY <2>1 DEF Leaving
    <2> HIDE DEF ms
    <2>7. e \in peerUp' => (Leaving(e)' \/ Standing(e)') /\ \A m \in Sent(e)': ~Parting(m)
      <3>1. ASSUME e \in peerUp', NEW m \in Sent(e)' PROVE ~Parting(m)
        BY <2>1, <2>4, <2>5, <3>1 DEF Parting
      <3> QED
        BY <1>1, <1>2, <2>2, <2>6, <3>1
    <2>8. /\ \A q \in Open(e)': q.kind # "INVITE"
          /\ \A m \in Sent(e)': m.type = "response" => m.status \notin {180, 401, 422}
      BY <1>2, <2>1, <2>3
    <2> QED
      BY <2>1, <2>7, <2>8, HostedOnceAnswered
  <1>13. ASSUME Reinvites(e), RequestsSame(e) PROVE Hosted(e)'
    <2>1. PICK body: Says(e, {ReqMsg("reINVITE", body, "none")})
      BY <1>13 DEF Reinvites
    <2> DEFINE x == ReqMsg("reINVITE", body, "none")
    <2>2. x.type = "reINVITE" /\ ~Parting(x)
      BY DEF ReqMsg, Parting
    <2>3. /\ e \in peerUp /\ inv'[e] = "asking" /\ Open(e)' = Open(e)
          /\ Sent(e)' = Sent(e) \cup {x} /\ (Leaving(e)' <=> Leaving(e))
      BY <1>13, <2>1 DEF Reinvites, RequestsSame, Says, Leaving
    <2> HIDE DEF x, Parting
    <2> QED
      BY <1>1, <1>2, <1>3, <2>2, <2>3, HostedOnceAnswered
  <1>14. ASSUME HangsUp(e), RequestsSame(e) PROVE Hosted(e)'
    <2>1. /\ e \in peerUp /\ e \notin peerUp' /\ inv'[e] = inv[e] /\ Open(e)' = Open(e)
          /\ Sent(e)' = Sent(e) \cup {Bare("BYE")}
      BY <1>14 DEF HangsUp, RequestsSame, Says
    <2>2. inv'[e] \notin {"none", "sent"}
      BY <1>2, <2>1
    <2> QED
      BY <1>2, <2>1, <2>2, BareIs, HostedOnceAnswered
  <1>15. \A r \in Open(e): ~Rings(e, r)
    BY <1>2 DEF Rings
  <1> QED
    BY <1>7, <1>8, <1>9, <1>10, <1>11, <1>12, <1>13, <1>14, <1>15 DEF FarEndActs

LEMMA HostedMoves ==
    ASSUME EarlyHangUp = FALSE, Reorder = FALSE, RefusesInDialog = FALSE,
           NEW e \in InCalls, LocalType(e), Unoffered(e), Hosted(e), Moves(e), ~Fails(e)
    PROVE  Hosted(e)'
  <1> DEFINE d == dialogs[e]
  <1>0. e \in Calls /\ e \notin OutCalls /\ e \notin offering /\ e \notin connecting
    BY CallsAssumption DEF Calls, LocalType, Unoffered
  <1>1. /\ \A r \in Open(e): r.kind # "INVITE"
        /\ inv[e] = "none" => ~Live(e) /\ Open(e) = {} /\ Sent(e) = {} /\ finals[e] = {}
        /\ Up(e) => Leaving(e) \/ Standing(e)
    BY DEF Hosted
  (* Before the far end has a final answer: no dialog of ours is up.        *)
  <1>2. inv[e] = "sent" => \/ "answer" \in finals[e]
                           \/ /\ Open(e) = {}
                              /\ Live(e) => d.state = "Calling" /\ view[e] # "connected"
    BY DEF Hosted
  <1>3. ASSUME ChanSame(e), FarEndSame(e), inv[e] # "none",
               \A r \in Open(e)': r \in Open(e) \/ r.kind # "INVITE",
               Up(e)' => Leaving(e)' \/ Standing(e)',
               inv[e] = "sent" =>
                  \/ "answer" \in finals'[e]
                  \/ /\ Open(e)' = {}
                     /\ Live(e)' => dialogs'[e].state = "Calling" /\ view'[e] # "connected"
        PROVE  Hosted(e)'
    <2>1. Sent(e)' = Sent(e) /\ inv'[e] = inv[e] /\ (e \in peerUp' <=> e \in peerUp)
      BY <1>3 DEF ChanSame, Sent, FarEndSame
    <2> HIDE DEF Parting, Leaving, Standing
    <2> QED
      BY <1>1, <1>3, <2>1 DEF Hosted
  <1>4. CASE Still(e)
    <2>1. /\ Live(e)' <=> Live(e)
          /\ Leaving(e)' <=> Leaving(e)
          /\ Standing(e)' <=> Standing(e)
          /\ Up(e)' <=> Up(e)
      BY <1>4 DEF Still, DialogSame, ClientSame, RequestsSame, FinalsSame, FarEndSame,
                  Live, Leaving, Standing, Up
    <2>2. /\ dialogs'[e] = d /\ view'[e] = view[e] /\ Open(e)' = Open(e)
          /\ finals'[e] = finals[e] /\ inv'[e] = inv[e] /\ Sent(e)' = Sent(e)
          /\ e \in peerUp' <=> e \in peerUp
      BY <1>4 DEF Still, DialogSame, ClientSame, RequestsSame, FinalsSame, FarEndSame,
                  ChanSame, Sent
    <2> HIDE DEF Parting, Leaving, Standing, Up, Live
    <2> QED
      BY <2>1, <2>2 DEF Hosted
  <1>5. ASSUME ~Live(e), Open(e)' = Open(e), FinalsSame(e), ChanSame(e), FarEndSame(e),
               dialogs'[e] = d, view'[e] = view[e]
        PROVE  Hosted(e)'
    <2>1. ~Live(e)' /\ (Leaving(e)' <=> Leaving(e)) /\ ~Standing(e) /\ (Up(e)' <=> Up(e))
      BY <1>5 DEF Live, Leaving, Standing, Up, FarEndSame, FinalsSame
    <2>2. Sent(e)' = Sent(e)
      BY <1>5 DEF ChanSame, Sent
    <2> HIDE DEF Parting, Leaving, Standing, Up, Live
    <2> QED
      BY <1>5, <2>1, <2>2 DEF Hosted, FarEndSame, FinalsSame
  <1>6. CASE Commands(e)
    <2>1. ChanSame(e) /\ FarEndSame(e)
      BY <1>6 DEF Commands
    <2>2. Up(e)' => Up(e) \/ (inv[e] = "sent" /\ "answer" \in finals'[e] \ finals[e])
      BY <2>1 DEF Up, FarEndSame
    <2>3. ~Dials(e)
      BY <1>0 DEF Dials
    <2>4. CASE Declines(e)
      <3>1. /\ Live(e) /\ view[e] = "incoming" /\ ~Live(e)' /\ Open(e)' = Open(e)
            /\ finals'[e] = finals[e] \cup {"decline"}
        BY <2>4 DEF Declines, Becomes, Live
      <3>2. (Leaving(e)' <=> Leaving(e)) /\ ~Standing(e)
        BY <3>1 DEF Leaving, Standing
      <3>3. Up(e)' => Leaving(e)'
        BY <1>1, <2>2, <3>1, <3>2
      <3> HIDE DEF Standing, Leaving, Up
      <3> QED
        BY <1>1, <1>2, <1>3, <2>1, <3>1, <3>3
    <2>5. CASE TakesUp(e)
      <3>1. /\ Live(e) /\ view[e] = "incoming" /\ dialogs'[e] = d /\ Open(e)' = Open(e)
            /\ finals'[e] = finals[e] /\ view'[e] = "accepting"
        BY <2>5 DEF TakesUp, Becomes, FinalsSame
      <3>2. (Leaving(e)' <=> Leaving(e)) /\ ~Standing(e) /\ (Live(e)' <=> Live(e))
        BY <3>1 DEF Leaving, Standing, Live
      <3>3. Up(e)' => Leaving(e)'
        BY <1>1, <2>2, <3>1, <3>2
      <3> HIDE DEF Standing, Leaving, Up
      <3> QED
        BY <1>1, <1>2, <1>3, <2>1, <3>1, <3>2, <3>3
    <2>6. ASSUME view[e] = "connected", Live(e), FinalsSame(e),
                 \A r \in Open(e)': r \in Open(e) \/ r.kind # "INVITE",
                 Up(e) => Leaving(e)' \/ Standing(e)'
          PROVE  Hosted(e)'
      <3>1. Up(e)' => Leaving(e)' \/ Standing(e)'
        BY <2>2, <2>6 DEF FinalsSame
      <3>2. inv[e] = "sent" => "answer" \in finals'[e]
        BY <1>2, <2>6 DEF FinalsSame
      <3> HIDE DEF Standing, Leaving, Up
      <3> QED
        BY <1>1, <1>3, <2>1, <2>6, <3>1, <3>2
    <2>7. CASE Quits(e)
      <3>1. RequestOf(e, "BYE", Closing(d)).kind = "BYE"
        BY RequestIs
      <3>2. /\ view[e] = "connected" /\ Live(e) /\ FinalsSame(e) /\ Leaving(e)'
            /\ \A r \in Open(e)': r \in Open(e) \/ r.kind # "INVITE"
        BY <2>7, <3>1 DEF Quits, MayHangUp, Asks, Leaving
      <3> QED
        BY <2>6, <3>2
    <2>8. CASE Requests(e)
      <3>1. PICK kind \in InDialogKind: Becomes(e, Asked(d, kind), view[e])
                                        /\ Asks(e, RequestOf(e, kind, Asked(d, kind)))
        BY <2>8 DEF Requests
      <3>2. RequestOf(e, kind, Asked(d, kind)).kind # "INVITE"
        BY RequestIs DEF InDialogKind
      <3>3. /\ view[e] = "connected" /\ FinalsSame(e) /\ Live(e) /\ d.state = "Confirmed"
            /\ \A r \in Open(e)': r \in Open(e) \/ r.kind # "INVITE"
        BY <2>8, <3>1, <3>2 DEF Requests, MayAsk, Asks
      <3>4. d \in Dialog
        BY <3>3 DEF LocalType, Live
      <3>5. Asked(d, kind) \in Dialog
        BY <3>4, StaysADialog
      <3>6. Asked(d, kind).state = d.state
        BY <3>4 DEF Asked, Reinvite, Bump, Dialog
      <3>7. Standing(e)'
        BY <3>1, <3>3, <3>5, <3>6, NoDialogAssumption DEF Standing, Live, Becomes
      <3> QED
        BY <2>6, <3>3, <3>7
    <2> QED
      BY <1>6, <2>3, <2>4, <2>5, <2>7, <2>8 DEF Commands
  <1>7. CASE Finishes(e)
    <2>1. ChanSame(e) /\ FarEndSame(e)
      BY <1>7 DEF Finishes
    <2>2. AnswerReady(e)
      BY <1>0, <1>7 DEF Finishes, OfferReady, ChecksDone
    <2>3. Open(e)' = Open(e)
      BY <2>2 DEF AnswerReady
    <2>4. CASE ~Live(e)
      BY <1>5, <2>1, <2>2, <2>3, <2>4 DEF AnswerReady, Becomes
    <2>5. CASE Live(e)
      <3>1. dialogs'[e] = Answered(d) /\ view'[e] = "connected" /\ "answer" \in finals'[e]
        BY <2>2, <2>5 DEF AnswerReady, Becomes
      <3>2. d \in Dialog
        BY <2>5 DEF LocalType, Live
      <3>3. Answered(d) \in Dialog /\ Answered(d).state = "Confirmed"
        <4>1. Answered(d).state = "Confirmed"
          BY <3>2 DEF Answered, Dialog
        <4> QED
          BY <3>2, <4>1, StaysADialog
      <3>4. Standing(e)'
        BY <3>1, <3>3, NoDialogAssumption DEF Standing, Live
      <3> HIDE DEF Standing, Leaving, Up
      <3> QED
        BY <1>1, <1>3, <2>1, <2>3, <2>5, <3>1, <3>4
    <2> QED
      BY <2>4, <2>5
  <1>8. CASE Refreshes(e)
    <2>1. /\ Live(e) /\ d.state = "Confirmed" /\ view'[e] = view[e]
          /\ dialogs'[e] = Refreshed(d)
          /\ FinalsSame(e) /\ ChanSame(e) /\ FarEndSame(e)
          /\ Open(e)' = Open(e) \cup {RequestOf(e, "refresh", Refreshed(d))}
      BY <1>8 DEF Refreshes, Due, ClientSame
    <2>2. d \in Dialog
      BY <2>1 DEF LocalType, Live
    <2>3. Refreshed(d) \in Dialog /\ Refreshed(d).state = d.state
      <3>1. Refreshed(d).state = d.state
        BY <2>2 DEF Refreshed, Bump, Dialog
      <3> QED
        BY <2>2, <3>1, StaysADialog
    <2>4. /\ \A r \in Open(e)': r \in Open(e) \/ r.kind # "INVITE"
          /\ Leaving(e) => Leaving(e)'
      BY <2>1, RequestIs DEF Leaving
    <2>5. Standing(e) => Standing(e)'
      BY <2>1, <2>3, NoDialogAssumption DEF Standing, Live
    <2>6. Up(e)' <=> Up(e)
      BY <2>1 DEF Up, FarEndSame, FinalsSame
    <2>7. inv[e] = "sent" => "answer" \in finals'[e]
      BY <1>2, <2>1 DEF FinalsSame
    <2> HIDE DEF Standing, Leaving, Up
    <2> QED
      BY <1>1, <1>3, <2>1, <2>4, <2>5, <2>6, <2>7
  <1> QED
    BY <1>4, <1>6, <1>7, <1>8, HostedReactions, HostedFarEnd DEF Moves

-----------------------------------------------------------------------------

(* What holds of every call while no transport has failed.                  *)
NobodyAlone ==
    deaths = 0 =>
        /\ \A e \in OutCalls: Courted(e)
        /\ \A e \in InCalls: Hosted(e)

LEMMA InitNobodyAlone == Init => NobodyAlone
  <1> SUFFICES ASSUME Init PROVE NobodyAlone
    OBVIOUS
  <1>1. ASSUME NEW e \in Calls
        PROVE  /\ Open(e) = {} /\ Sent(e) = {} /\ finals[e] = {} /\ inv[e] = "none"
               /\ e \notin peerUp /\ ~Live(e) /\ DOMAIN chan[e] = {}
    BY DEF Init, Open, Sent, Live
  <1>2. ASSUME NEW e \in OutCalls PROVE Courted(e)
    BY <1>1 DEF Courted, Courting, Dialing, LoneIn, Calls
  <1>3. ASSUME NEW e \in InCalls PROVE Hosted(e)
    BY <1>1 DEF Hosted, Up, Calls
  <1> QED
    BY <1>2, <1>3 DEF NobodyAlone

(* Only a failing transport counts as one, and it counts for good.          *)
LEMMA DeathsCount ==
    ASSUME TypeOK, NEW e \in Calls, [Next]_vars, deaths' = 0
    PROVE  deaths = 0 /\ ~Fails(e)
  <1>1. ~Fails(e)
    BY DEF Fails
  <1>2. deaths = 0
    <2>1. ASSUME TransportFails PROVE deaths = 0
      BY <2>1 DEF TransportFails, TypeOK
    <2>2. ASSUME NEW c \in Calls, Command(c) \/ TaskDone(c) \/ Deliver(c)
          PROVE  deaths' = deaths
      BY <2>2 DEF Command, InitiateCall, AcceptCall, RejectCall, HangUp, SendReinvite,
                  SendDtmfInfo, Transfer, SendInDialog, TaskDone, OutgoingOfferReady,
                  IncomingAnswerReady, OutgoingConnected, Deliver, Receive, faults
    <2>3. ASSUME RefreshSessionTimers \/ PeerActs \/ UNCHANGED vars PROVE deaths' = deaths
      BY <2>3 DEF RefreshSessionTimers, PeerActs, Ours, vars, faults
    <2> QED
      BY <2>1, <2>2, <2>3 DEF Next
  <1> QED
    BY <1>1, <1>2

LEMMA NextNobodyAlone ==
    ASSUME EarlyHangUp = FALSE, RefusesInDialog = FALSE,
           InCalls = {} \/ Reorder = FALSE,
           OutCalls = {} \/ (MaxPeerReqs = 0 /\ MaxDups = 0),
           TypeOK, OutCalls # {} => PlacedCalls, \A e \in Calls: Unoffered(e),
           NobodyAlone, [Next]_vars
    PROVE  NobodyAlone'
  <1> SUFFICES ASSUME deaths' = 0
               PROVE  /\ \A e \in OutCalls: Courted(e)'
                      /\ \A e \in InCalls: Hosted(e)'
    BY DEF NobodyAlone
  <1>1. ASSUME NEW e \in Calls
        PROVE  deaths = 0 /\ ~Fails(e) /\ LocalType(e) /\ Moves(e)
    BY DeathsCount, LocalTypes, EveryStep
  <1>2. ASSUME NEW e \in OutCalls PROVE Courted(e)'
    <2>1. e \in Calls /\ Placed(e) /\ MaxPeerReqs = 0 /\ MaxDups = 0
      BY DEF Calls, PlacedCalls
    <2>2. Courted(e)
      BY <1>1, <2>1 DEF NobodyAlone
    <2> QED
      BY <1>1, <2>1, <2>2, CourtedMoves
  <1>3. ASSUME NEW e \in InCalls PROVE Hosted(e)'
    <2>1. e \in Calls /\ Unoffered(e) /\ Reorder = FALSE
      BY DEF Calls
    <2>2. Hosted(e)
      BY <1>1, <2>1 DEF NobodyAlone
    <2> QED
      BY <1>1, <2>1, <2>2, HostedMoves
  <1> QED
    BY <1>2, <1>3

LEMMA NextUnoffered ==
    ASSUME TypeOK, \A e \in Calls: Unoffered(e), [Next]_vars
    PROVE  (\A e \in Calls: Unoffered(e))'
  <1> SUFFICES ASSUME NEW e \in Calls, e \in InCalls PROVE Unoffered(e)'
    BY DEF Unoffered
  <1> QED
    BY LocalTypes, EveryStep, UnofferedMoves

(* A far end that holds a call to be established is not left alone while no *)
(* transport has failed: we have the dialog, or our BYE is on its way.  Of  *)
(* what may cross: a CANCEL and our 200, a BYE and a re-INVITE, two BYEs, a *)
(* challenge and a 422, an answer whose codecs do not match ours.           *)
THEOREM NobodyIsLeftAlone ==
    ASSUME EarlyHangUp = FALSE, RefusesInDialog = FALSE,
           InCalls = {} \/ Reorder = FALSE,
           OutCalls = {} \/ (MaxPeerReqs = 0 /\ MaxDups = 0)
    PROVE  Spec => []NoOrphan
  <1> DEFINE Untaken == \A e \in Calls: Unoffered(e)
             PlacedSo == OutCalls # {} => PlacedCalls
  <1>1. Init => Untaken /\ PlacedSo /\ NobodyAlone
    BY InitAcked, InitPlaced, InitNobodyAlone DEF CallsAcked
  <1>2. TypeOK /\ CallsTracked /\ PlacedSo /\ [Next]_vars => PlacedSo'
    <2>1. CASE OutCalls = {}
      BY <2>1
    <2>2. CASE OutCalls # {}
      BY <2>2, NextPlaced
    <2> QED
      BY <2>1, <2>2
  <1>3. TypeOK /\ Untaken /\ [Next]_vars => Untaken'
    BY NextUnoffered
  <1>4. TypeOK /\ Untaken /\ PlacedSo /\ NobodyAlone /\ [Next]_vars => NobodyAlone'
    BY NextNobodyAlone
  <1>5. TypeOK /\ NobodyAlone => NoOrphan
    <2> SUFFICES ASSUME TypeOK, NobodyAlone, NEW c \in peerUp, deaths = 0
                 PROVE  Live(c) \/ \E r \in open: r.call = c /\ r.kind = "BYE"
      BY DEF NoOrphan, TypeOK
    <2>1. c \in Calls
      BY DEF TypeOK
    <2>2. CASE c \in OutCalls
      BY <2>2 DEF NobodyAlone, Courted, Leaving, Open
    <2>3. CASE c \in InCalls
      BY <2>3 DEF NobodyAlone, Hosted, Up, Leaving, Standing, Open
    <2> QED
      BY <2>1, <2>2, <2>3 DEF Calls
  <1> HIDE DEF Untaken, PlacedSo
  <1> QED
    BY <1>1, <1>2, <1>3, <1>4, <1>5, TypeCorrect, Tracking, PTL DEF Spec

-----------------------------------------------------------------------------
(* A 200 to an INVITE goes out for the client, never without it.            *)

(* We never dial a call of the far end, so no answer of it is one to that.  *)
Undialed(e) ==
    /\ \A r \in Open(e): r.kind # "INVITE"
    /\ \A m \in Sent(e): m.type = "response" => m.status \notin {180, 401, 422}

LEMMA UndialedMoves ==
    ASSUME NEW e \in InCalls, LocalType(e), Undialed(e), Moves(e)
    PROVE  Undialed(e)'
  <1> DEFINE d == dialogs[e]
  <1>1. e \notin OutCalls /\ e \notin offering
    BY CallsAssumption DEF LocalType
  <1>2. ASSUME Sent(e)' \subseteq Sent(e), Open(e)' = Open(e) PROVE Undialed(e)'
    BY <1>2 DEF Undialed
  <1>3. ASSUME Sent(e)' \subseteq Sent(e), NEW kind, NEW f, kind # "INVITE",
               Open(e)' = Open(e) \cup {RequestOf(e, kind, f)}
        PROVE  Undialed(e)'
    BY <1>3, RequestIs DEF Undialed
  <1>4. ChanSame(e) => Sent(e)' = Sent(e)
    BY DEF ChanSame, Sent
  <1>5. CASE Still(e) \/ Fails(e)
    BY <1>2, <1>4, <1>5 DEF Still, Fails, RequestsSame
  <1>6. CASE Commands(e)
    <2>1. Sent(e)' = Sent(e)
      BY <1>4, <1>6 DEF Commands
    <2>2. CASE Declines(e) \/ TakesUp(e)
      BY <1>2, <2>1, <2>2 DEF Declines, TakesUp
    <2>3. CASE Quits(e)
      BY <1>3, <2>1, <2>3 DEF Quits, Asks
    <2>4. CASE Requests(e)
      BY <1>3, <2>1, <2>4 DEF Requests, Asks, InDialogKind
    <2> QED
      BY <1>1, <1>6, <2>2, <2>3, <2>4 DEF Commands, Dials
  <1>7. CASE Finishes(e)
    BY <1>1, <1>2, <1>4, <1>7 DEF Finishes, OfferReady, AnswerReady, ChecksDone
  <1>8. CASE Refreshes(e)
    BY <1>3, <1>4, <1>8 DEF Refreshes
  <1>9. CASE Delivers(e)
    <2>1. PICK m \in Message: m \in Sent(e) /\ Sent(e)' \subseteq Sent(e) /\ Reacts(e, m)
      BY <1>9 DEF Delivers
    <2>2. ~Again(e, m)
      BY <2>1 DEF Undialed, Again
    <2>3. Open(e)' = Open(e) \/ \E f: Open(e)' = Open(e) \cup {RequestOf(e, "BYE", f)}
      BY <2>1, <2>2 DEF Reacts, GetsInvite, IsOver, GetsAck, IsIgnored, IsRinging, Connects,
                        ConnectsNot, Confirms, NothingElse, Asks
    <2> QED
      BY <1>2, <1>3, <2>1, <2>3
  <1>10. CASE FarEndActs(e)
    <2>1. ASSUME NEW ms, Says(e, ms), Open(e)' \subseteq Open(e),
                 \A m \in ms: m.type = "response" => m.status \notin {180, 401, 422}
          PROVE  Undialed(e)'
      BY <2>1 DEF Undialed, Says
    <2>2. ASSUME NEW r \in Open(e), Accepts(e, r) \/ Refuses(e, r) \/ TakesBye(e, r)
                                       \/ TakesOther(e, r)
          PROVE  Undialed(e)'
      <3>1. ASSUME NEW s \in {200, 486}, NEW ok, NEW t, Says(e, {Reply(r, s, ok, t)}),
                   Open(e)' \subseteq Open(e)
            PROVE  Undialed(e)'
        <4>1. Reply(r, s, ok, t).status = s
          BY DEF Reply
        <4> HIDE DEF Reply
        <4> QED
          BY <2>1, <3>1, <4>1
      <3>2. r.kind # "INVITE"
        BY DEF Undialed
      <3>3. CASE Accepts(e, r)
        BY <3>1, <3>3 DEF Accepts
      <3>4. CASE Refuses(e, r)
        BY <3>1, <3>2, <3>4 DEF Refuses
      <3>5. CASE TakesBye(e, r) \/ TakesOther(e, r)
        BY <3>1, <3>5 DEF TakesBye, TakesOther
      <3> QED
        BY <2>2, <3>3, <3>4, <3>5
    <2>3. ASSUME NEW r \in Open(e) PROVE ~Rings(e, r)
      BY DEF Undialed, Rings
    <2>4. CASE Invites(e) /\ RequestsSame(e)
      BY <2>1, <2>4 DEF Invites, RequestsSame, ReqMsg
    <2>5. CASE Reinvites(e) /\ RequestsSame(e)
      BY <2>1, <2>5 DEF Reinvites, RequestsSame, ReqMsg
    <2>6. CASE (Cancels(e) \/ HangsUp(e)) /\ RequestsSame(e)
      BY <2>1, <2>6, BareIs DEF Cancels, HangsUp, RequestsSame
    <2>7. ASSUME NEW f, GetsFinal(e, f) PROVE Undialed(e)'
      BY <2>1, <2>7, BareIs DEF GetsFinal, RequestsSame
    <2> QED
      BY <1>10, <2>2, <2>3, <2>4, <2>5, <2>6, <2>7 DEF FarEndActs
  <1> QED
    BY <1>5, <1>6, <1>7, <1>8, <1>9, <1>10 DEF Moves

(* The INVITE or re-INVITE the far end waits for an answer to is one thing, *)
(* passed on from hand to hand: a message to us, then a call the client is  *)
(* offered or a task that resolves its answer, then our final answer.       *)
Invitations == {m \in Message: m.type \in {"INVITE", "reINVITE"}}
Bidden(e)   == Invitations \cap Sent(e) # {}
Offered(e)  == Live(e) /\ view[e] \in {"incoming", "accepting"}
Waits(e)    == inv[e] \in {"sent", "cancelled", "asking"}

AskedFor(e) ==
    /\ LoneIn(e, Invitations)
    /\ Bidden(e) => Waits(e) /\ finals[e] = {} /\ answering[e] = 0 /\ ~Offered(e)
    /\ Offered(e) => Waits(e)
    /\ answering[e] > 0 => /\ Waits(e) /\ answering[e] = 1
                           /\ Live(e) => view[e] = "accepting"
    /\ finals[e] # {} => Waits(e) /\ answering[e] = 0 /\ ~Offered(e)
    /\ finals[e] \in {{}, {"answer"}, {"decline"}}
    /\ Live(e) => view[e] \in {"incoming", "accepting", "connected", "closed"}
    /\ Live(e) /\ view[e] = "closed" => dialogs[e].state = "Terminating"

(* A step that leaves the INVITE where it is, or drops it.                  *)
LEMMA AskedForAlike ==
    ASSUME NEW e, AskedFor(e), LoneIn(e, Invitations)', Bidden(e)' => Bidden(e),
           answering'[e] = answering[e] \/ answering'[e] = 0,
           FinalsSame(e), inv'[e] = inv[e] \/ (Waits(e) /\ Waits(e)'),
           Live(e)' => Live(e),
           Live(e)' => \/ view'[e] = view[e]
                       \/ view[e] = "connected" /\ view'[e] = "closed",
           Live(e)' /\ view'[e] = "closed" => dialogs'[e].state = "Terminating"
    PROVE  AskedFor(e)'
  <1>1. Waits(e) => Waits(e)'
    BY DEF Waits
  <1>2. Offered(e)' => Offered(e)
    BY DEF Offered
  <1>3. answering'[e] > 0 => answering[e] > 0 /\ answering'[e] = answering[e]
    OBVIOUS
  <1>4. /\ answering'[e] > 0 => /\ Waits(e)' /\ answering'[e] = 1
                                /\ Live(e)' => view'[e] = "accepting"
        /\ answering[e] = 0 => answering'[e] = 0
    BY <1>1, <1>3 DEF AskedFor
  <1>5. Live(e)' => view'[e] \in {"incoming", "accepting", "connected", "closed"}
    BY DEF AskedFor
  <1> HIDE DEF Bidden, Offered, Waits, Live
  <1> QED
    BY <1>1, <1>2, <1>4, <1>5 DEF AskedFor, FinalsSame

LEMMA AskedForReactions ==
    ASSUME MaxDups = 0, NEW e \in InCalls, LocalType(e), Undialed(e), AskedFor(e),
           Delivers(e)
    PROVE  AskedFor(e)' /\ ("answer" \in finals'[e] \ finals[e] => view[e] = "connected")
  <1> DEFINE d == dialogs[e]
  <1>1. PICK m \in Message:
          /\ m \in Sent(e) /\ Sent(e)' \subseteq Sent(e)
          /\ LoneIn(e, Invitations)' /\ (m \in Invitations => ~Bidden(e)')
          /\ Reacts(e, m)
    BY DEF Delivers, AskedFor, Bidden
  <1>2. /\ inv'[e] = inv[e] /\ answering'[e] = answering[e]
        /\ Bidden(e)' => Bidden(e)
    BY <1>1 DEF Delivers, FarEndSame, Bidden
  <1>3. Live(e) => d \in Dialog
    BY DEF LocalType, Live
  <1>4. ASSUME FinalsSame(e), Live(e)' => Live(e), Live(e)' => view'[e] = view[e],
               Live(e)' /\ d.state = "Terminating" => dialogs'[e].state = "Terminating"
        PROVE  AskedFor(e)' /\ "answer" \notin finals'[e] \ finals[e]
    <2>1. Live(e)' /\ view'[e] = "closed" => dialogs'[e].state = "Terminating"
      BY <1>4 DEF AskedFor
    <2>2. AskedFor(e)'
      BY <1>1, <1>2, <1>4, <2>1, AskedForAlike
    <2> QED
      BY <1>4, <2>2 DEF FinalsSame
  <1>5. CASE GetsInvite(e, m)
    <2>1. m \in Invitations /\ Bidden(e)
      BY <1>1, <1>5 DEF GetsInvite, Invitations, Bidden
    <2>2. /\ ~Bidden(e)' /\ Waits(e) /\ Waits(e)' /\ finals[e] = {}
          /\ answering'[e] = 0 /\ ~Offered(e)
      BY <1>1, <1>2, <2>1 DEF AskedFor, Waits
    <2>3. CASE Live(e) /\ d.state = "Confirmed"
      <3>1. view'[e] = view[e] /\ finals'[e] = {"answer"}
        BY <1>5, <2>2, <2>3 DEF GetsInvite, Becomes
      <3>2. view[e] = "connected"
        BY <2>2, <2>3 DEF AskedFor, Offered
      <3>3. ~Offered(e)'
        BY <3>1, <3>2 DEF Offered
      <3> HIDE DEF Bidden, Offered, Waits, Live
      <3> QED
        BY <1>1, <2>2, <3>1, <3>2, <3>3 DEF AskedFor
    <2>4. CASE ~(Live(e) /\ d.state = "Confirmed")
      <3>1. view'[e] = "incoming" /\ finals'[e] = {}
        BY <1>5, <2>2, <2>4 DEF GetsInvite, Becomes, FinalsSame
      <3> HIDE DEF Bidden, Offered, Waits, Live
      <3> QED
        BY <1>1, <2>2, <3>1 DEF AskedFor
    <2> QED
      BY <2>3, <2>4
  <1>6. CASE IsOver(e, m) \/ ConnectsNot(e, m)
    <2>1. FinalsSame(e) /\ ~Live(e)'
      BY <1>6 DEF IsOver, ConnectsNot, IsOk, NothingElse, Becomes, Live
    <2> QED
      BY <1>4, <2>1
  <1>7. CASE GetsAck(e, m)
    <2>1. /\ FinalsSame(e) /\ view'[e] = view[e]
          /\ dialogs'[e] = IF Live(e) /\ d.state = "Calling"
                           THEN [d EXCEPT !.state = "Confirmed"] ELSE d
      BY <1>7 DEF GetsAck, NothingElse, Becomes
    <2> QED
      BY <1>4, <2>1 DEF Live
  <1>8. CASE IsIgnored(e, m)
    <2>1. FinalsSame(e) /\ view'[e] = view[e] /\ dialogs'[e] = d
      BY <1>8 DEF IsIgnored, NothingElse, Becomes
    <2> QED
      BY <1>4, <2>1 DEF Live
  <1>9. ~IsRinging(e, m)
    BY <1>1 DEF IsRinging, Undialed
  <1>10. CASE Connects(e, m) \/ Confirms(e, m) \/ Again(e, m)
    <2>1. /\ FinalsSame(e) /\ Live(e) /\ view'[e] = view[e]
          /\ d.state \in {"Calling", "Ringing", "Confirmed"}
      BY <1>10 DEF Connects, Confirms, Again, IsOk, Becomes
    <2> QED
      BY <1>4, <2>1
  <1> QED
    BY <1>1, <1>5, <1>6, <1>7, <1>8, <1>9, <1>10 DEF Reacts

LEMMA AskedForFarEnd ==
    ASSUME NEW e \in InCalls, LocalType(e), AskedFor(e), FarEndActs(e)
    PROVE  AskedFor(e)' /\ finals'[e] \subseteq finals[e]
  <1> DEFINE d == dialogs[e]
  <1>1. /\ dialogs'[e] = d /\ view'[e] = view[e] /\ answering'[e] = answering[e]
        /\ (Offered(e)' <=> Offered(e)) /\ (Live(e)' <=> Live(e))
    BY DEF FarEndActs, OursSame, DialogSame, ClientSame, TasksSame, Live, Offered
  <1>2. ASSUME FinalsSame(e), inv'[e] = inv[e] \/ (Waits(e) /\ Waits(e)'),
               NEW ms, Says(e, ms), ms \cap Invitations = {}
        PROVE  AskedFor(e)' /\ finals'[e] \subseteq finals[e]
    <2>1. LoneIn(e, Invitations)' /\ (Bidden(e)' => Bidden(e))
      BY <1>2 DEF AskedFor, Says, Bidden
    <2>2. Live(e) /\ view[e] = "closed" => dialogs'[e].state = "Terminating"
      BY <1>1 DEF AskedFor
    <2>3. AskedFor(e)'
      BY <1>1, <1>2, <2>1, <2>2, AskedForAlike
    <2> QED
      BY <1>2, <2>3 DEF FinalsSame
  <1>3. ASSUME NEW r, NEW s, NEW ok, NEW t, Says(e, {Reply(r, s, ok, t)}),
               FinalsSame(e), inv'[e] = inv[e]
        PROVE  AskedFor(e)' /\ finals'[e] \subseteq finals[e]
    <2>1. Reply(r, s, ok, t) \notin Invitations
      BY DEF Reply, Invitations
    <2> HIDE DEF Invitations
    <2>2. {Reply(r, s, ok, t)} \cap Invitations = {}
      BY <2>1
    <2> QED
      BY <1>2, <1>3, <2>2
  <1>4. ASSUME NEW r, FinalsSame(e),
               \/ Rings(e, r) \/ Accepts(e, r) \/ Refuses(e, r)
               \/ TakesBye(e, r) \/ TakesOther(e, r)
        PROVE  AskedFor(e)' /\ finals'[e] \subseteq finals[e]
    <2>1. CASE Rings(e, r)
      BY <1>3, <1>4, <2>1 DEF Rings, FarEndSame
    <2>2. CASE Accepts(e, r)
      BY <1>3, <1>4, <2>2 DEF Accepts
    <2>3. CASE Refuses(e, r)
      BY <1>3, <1>4, <2>3 DEF Refuses, FarEndSame
    <2>4. CASE TakesBye(e, r) \/ TakesOther(e, r)
      BY <1>3, <1>4, <2>4 DEF TakesBye, TakesOther, FarEndSame
    <2> QED
      BY <1>4, <2>1, <2>2, <2>3, <2>4
  (* The far end invites when it waits for no answer: nothing is asked.     *)
  <1>5. ASSUME ~Waits(e), Waits(e)', FinalsSame(e), NEW x \in Invitations, Says(e, {x})
        PROVE  AskedFor(e)' /\ finals'[e] \subseteq finals[e]
    <2>1. /\ ~Bidden(e) /\ finals[e] = {} /\ ~(answering[e] > 0) /\ ~Offered(e)
          /\ LoneIn(e, Invitations)
      BY <1>5 DEF AskedFor
    <2>2. answering[e] = 0
      BY <2>1 DEF LocalType
    <2>3. LoneIn(e, Invitations)'
      BY <1>5, <2>1 DEF Says, Bidden
    <2>4. finals'[e] = {} /\ answering'[e] = 0 /\ ~Offered(e)'
      BY <1>1, <1>5, <2>1, <2>2 DEF FinalsSame
    <2> HIDE DEF Bidden, Offered, Waits, Live
    <2> QED
      BY <1>1, <1>5, <2>3, <2>4 DEF AskedFor
  <1>6. ASSUME Invites(e) \/ Reinvites(e), FinalsSame(e)
        PROVE  AskedFor(e)' /\ finals'[e] \subseteq finals[e]
    <2>1. ~Waits(e) /\ Waits(e)'
      BY <1>6 DEF Invites, Reinvites, Waits
    <2>2. PICK x: Says(e, {x}) /\ x.type \in {"INVITE", "reINVITE"}
      <3>1. \A k, body, t: ReqMsg(k, body, t).type = k
        BY DEF ReqMsg
      <3>2. CASE Invites(e)
        <4>1. PICK body, t: Says(e, {ReqMsg("INVITE", body, t)})
          BY <3>2 DEF Invites
        <4> QED
          BY <3>1, <4>1
      <3>3. CASE Reinvites(e)
        <4>1. PICK body: Says(e, {ReqMsg("reINVITE", body, "none")})
          BY <3>3 DEF Reinvites
        <4> QED
          BY <3>1, <4>1
      <3> QED
        BY <1>6, <3>2, <3>3
    <2>3. x \in Invitations
      BY <2>2 DEF Says, Invitations
    <2> QED
      BY <1>5, <1>6, <2>1, <2>2, <2>3
  <1>7. Bare("ACK") \notin Invitations /\ Bare("BYE") \notin Invitations
        /\ Bare("CANCEL") \notin Invitations
    BY BareIs DEF Invitations
  <1>8. ASSUME Cancels(e) \/ HangsUp(e), FinalsSame(e)
        PROVE  AskedFor(e)' /\ finals'[e] \subseteq finals[e]
    <2>1. inv'[e] = inv[e] \/ (Waits(e) /\ Waits(e)')
      BY <1>8 DEF Cancels, HangsUp, Waits
    <2>2. PICK x: Says(e, {x}) /\ x \notin Invitations
      BY <1>7, <1>8 DEF Cancels, HangsUp
    <2> HIDE DEF Invitations, Waits
    <2> QED
      BY <1>2, <1>8, <2>1, <2>2
  (* A final answer that arrives was the only one.                          *)
  <1>9. ASSUME NEW f, GetsFinal(e, f)
        PROVE  AskedFor(e)' /\ finals'[e] \subseteq finals[e]
    <2>1. f \in finals[e] /\ finals'[e] = finals[e] \ {f} /\ ~Waits(e)'
      BY <1>9 DEF GetsFinal, Waits
    <2>2. answering[e] = 0 /\ ~Offered(e) /\ ~Bidden(e)
      BY <2>1 DEF AskedFor
    <2>3. finals'[e] = {}
      BY <2>1 DEF AskedFor
    <2>4. PICK ms: Says(e, ms) /\ ms \cap Invitations = {}
      BY <1>7, <1>9 DEF GetsFinal
    <2>5. LoneIn(e, Invitations)' /\ ~Bidden(e)'
      BY <2>2, <2>4 DEF AskedFor, Says, Bidden
    <2> HIDE DEF Bidden, Offered, Waits, Live
    <2> QED
      BY <1>1, <2>2, <2>3, <2>5 DEF AskedFor
  <1> QED
    BY <1>4, <1>6, <1>8, <1>9 DEF FarEndActs

LEMMA AskedForMoves ==
    ASSUME MaxDups = 0, EarlyHangUp = FALSE, NEW e \in InCalls, LocalType(e),
           Unoffered(e), Undialed(e), AskedFor(e), Moves(e)
    PROVE  /\ AskedFor(e)'
           /\ "answer" \in finals'[e] \ finals[e] => view[e] \in {"accepting", "connected"}
  <1> DEFINE d == dialogs[e]
             Fair == "answer" \in finals'[e] \ finals[e] => view[e] \in {"accepting", "connected"}
  <1>1. e \notin OutCalls /\ e \notin offering /\ e \notin connecting /\ e \in Calls
    BY CallsAssumption DEF Calls, LocalType, Unoffered
  <1>2. ASSUME ChanSame(e), FarEndSame(e)
        PROVE  /\ LoneIn(e, Invitations)' /\ (Bidden(e)' <=> Bidden(e))
               /\ (Waits(e)' <=> Waits(e))
    BY <1>2 DEF ChanSame, FarEndSame, AskedFor, LoneIn, Bidden, Sent, Waits
  <1>3. ASSUME ChanSame(e), FarEndSame(e),
               answering'[e] = answering[e] \/ answering'[e] = 0,
               FinalsSame(e), Live(e)' => Live(e),
               Live(e)' => \/ view'[e] = view[e]
                           \/ view[e] = "connected" /\ view'[e] = "closed",
               Live(e)' /\ (d.state = "Terminating" \/ view'[e] # view[e])
                     => dialogs'[e].state = "Terminating"
        PROVE  AskedFor(e)' /\ Fair
    <2>1. Live(e)' /\ view'[e] = "closed" => dialogs'[e].state = "Terminating"
      BY <1>3 DEF AskedFor
    <2>2. inv'[e] = inv[e]
      BY <1>3 DEF FarEndSame
    <2>3. AskedFor(e)'
      BY <1>2, <1>3, <2>1, <2>2, AskedForAlike
    <2> QED
      BY <1>3, <2>3 DEF FinalsSame
  <1>4. Live(e) => d \in Dialog
    BY DEF LocalType, Live
  <1>5. CASE Still(e)
    BY <1>3, <1>5 DEF Still, DialogSame, ClientSame, TasksSame, Live
  <1>6. CASE Fails(e)
    BY <1>3, <1>6 DEF Fails, Becomes, Live
  <1>7. CASE Commands(e)
    <2>1. ChanSame(e) /\ FarEndSame(e)
      BY <1>7 DEF Commands
    <2>2. CASE Declines(e)
      <3>1. /\ Offered(e) /\ view[e] = "incoming" /\ ~Live(e)'
            /\ finals'[e] = finals[e] \cup {"decline"} /\ answering'[e] = answering[e]
        BY <2>2 DEF Declines, Offered, Becomes, Live
      <3>2. /\ Waits(e)' /\ ~Bidden(e)' /\ finals[e] = {} /\ LoneIn(e, Invitations)'
        BY <1>2, <2>1, <3>1 DEF AskedFor
      <3>3. answering[e] = 0
        BY <3>1 DEF AskedFor, LocalType, Offered
      <3>4. ~Offered(e)'
        BY <3>1 DEF Offered
      <3> HIDE DEF Bidden, Offered, Waits, Live
      <3> QED
        BY <3>1, <3>2, <3>3, <3>4 DEF AskedFor
    <2>3. CASE TakesUp(e)
      <3>1. /\ Offered(e) /\ view[e] = "incoming" /\ dialogs'[e] = d /\ FinalsSame(e)
            /\ answering'[e] = answering[e] + 1 /\ view'[e] = "accepting"
        BY <2>3 DEF TakesUp, Offered, Becomes
      <3>2. answering[e] = 0
        BY <3>1 DEF AskedFor, LocalType, Offered
      <3>3. /\ Waits(e)' /\ ~Bidden(e)' /\ finals'[e] = {} /\ LoneIn(e, Invitations)'
            /\ answering'[e] = 1
        BY <1>2, <2>1, <3>1, <3>2 DEF AskedFor, FinalsSame
      <3> HIDE DEF Bidden, Offered, Waits, Live
      <3> QED
        BY <3>1, <3>3 DEF AskedFor, FinalsSame
    <2>4. CASE Quits(e)
      <3>1. /\ Live(e) /\ view[e] = "connected" /\ view'[e] = "closed" /\ FinalsSame(e)
            /\ dialogs'[e] = Closing(d) /\ answering'[e] = answering[e]
        BY <2>4 DEF Quits, MayHangUp, Becomes
      <3>2. Closing(d).state = "Terminating"
        <4>1. \A f \in Dialog: [f EXCEPT !.state = "Terminating"].state = "Terminating"
          BY DEF Dialog
        <4> QED
          BY <1>4, <3>1, <4>1, DialogUpdates DEF Closing
      <3> QED
        BY <1>3, <2>1, <3>1, <3>2
    <2>5. CASE Requests(e)
      BY <1>3, <2>1, <2>5 DEF Requests, MayAsk, Becomes
    <2> QED
      BY <1>1, <1>7, <2>2, <2>3, <2>4, <2>5 DEF Commands, Dials
  <1>8. CASE Finishes(e)
    <2>1. ChanSame(e) /\ FarEndSame(e) /\ AnswerReady(e)
      BY <1>1, <1>8 DEF Finishes, OfferReady, ChecksDone
    <2>2. answering[e] = 1 /\ answering'[e] = 0
      BY <2>1 DEF AnswerReady, AskedFor
    <2>3. CASE ~Live(e)
      <3>1. FinalsSame(e) /\ ~Live(e)'
        BY <2>1, <2>3 DEF AnswerReady, Becomes, Live
      <3> QED
        BY <1>3, <2>1, <2>2, <3>1
    <2>4. CASE Live(e)
      <3>1. /\ view'[e] = "connected" /\ finals'[e] = finals[e] \cup {"answer"}
            /\ view[e] = "accepting"
        BY <2>1, <2>4 DEF AnswerReady, Becomes, AskedFor
      <3>2. /\ Waits(e)' /\ ~Bidden(e)' /\ finals[e] = {} /\ LoneIn(e, Invitations)'
        BY <1>2, <2>1, <2>2 DEF AskedFor
      <3>3. ~Offered(e)'
        BY <3>1 DEF Offered
      <3> HIDE DEF Bidden, Offered, Waits, Live
      <3> QED
        BY <2>2, <3>1, <3>2, <3>3 DEF AskedFor
    <2> QED
      BY <2>3, <2>4
  <1>9. CASE Refreshes(e)
    BY <1>3, <1>9 DEF Refreshes, Due, ClientSame, TasksSame
  <1>10. CASE Delivers(e)
    BY <1>10, AskedForReactions
  <1>11. CASE FarEndActs(e)
    BY <1>11, AskedForFarEnd
  <1> QED
    BY <1>5, <1>6, <1>7, <1>8, <1>9, <1>10, <1>11 DEF Moves

CallsAskedFor == \A e \in InCalls: Unoffered(e) /\ Undialed(e) /\ AskedFor(e)

LEMMA InitAskedFor == Init => CallsAskedFor
  <1> SUFFICES ASSUME Init, NEW e \in InCalls PROVE Undialed(e) /\ AskedFor(e)
    BY InitAcked DEF CallsAskedFor, CallsAcked, Calls
  <1>1. /\ Open(e) = {} /\ Sent(e) = {} /\ finals[e] = {} /\ answering[e] = 0
        /\ ~Live(e) /\ DOMAIN chan[e] = {}
    BY DEF Init, Open, Sent, Live, Calls
  <1> QED
    BY <1>1 DEF Undialed, AskedFor, LoneIn, Bidden, Offered

(* A 200 to an INVITE goes out only for a call the client accepted and has  *)
(* not been told is over, or that is up: the answer that a task resolves    *)
(* when the call is over goes nowhere, and a re-INVITE that crosses our BYE *)
(* is not answered for the client, in whatever order messages arrive.       *)
THEOREM OnlyAcceptedIsAnswered ==
    ASSUME MaxDups = 0, EarlyHangUp = FALSE, OutCalls = {} \/ MaxPeerReqs = 0
    PROVE  Spec => AnswersOnlyAccepted
  <1> DEFINE PlacedSo == OutCalls # {} => PlacedCalls
             Fair(c) == "answer" \in finals'[c] \ finals[c] =>
                            view[c] \in {"accepting", "connected"}
             FairStep == \A c \in Calls: Fair(c)
  <1>1. Init => PlacedSo /\ CallsAskedFor
    BY InitPlaced, InitAskedFor
  <1>2. TypeOK /\ CallsTracked /\ PlacedSo /\ [Next]_vars => PlacedSo'
    <2>1. CASE OutCalls = {}
      BY <2>1
    <2>2. CASE OutCalls # {}
      BY <2>2, NextPlaced
    <2> QED
      BY <2>1, <2>2
  <1>3. ASSUME TypeOK, CallsAskedFor, [Next]_vars, NEW e \in InCalls
        PROVE  Unoffered(e)' /\ Undialed(e)' /\ AskedFor(e)' /\ Fair(e)
    <2>1. LocalType(e) /\ Moves(e) /\ Unoffered(e) /\ Undialed(e) /\ AskedFor(e)
      BY <1>3, LocalTypes, EveryStep DEF CallsAskedFor, Calls
    <2> QED
      BY <2>1, UnofferedMoves, UndialedMoves, AskedForMoves
  <1>4. TypeOK /\ CallsAskedFor /\ [Next]_vars => CallsAskedFor'
    BY <1>3 DEF CallsAskedFor
  (* A placed call is never asked, and gives no answer.                     *)
  <1>5. ASSUME TypeOK, PlacedSo, [Next]_vars, NEW e \in OutCalls
        PROVE  Fair(e)
    <2>1. LocalType(e) /\ Moves(e) /\ Placed(e)
      BY <1>5, LocalTypes, EveryStep DEF PlacedCalls, Calls
    <2>2. finals'[e] \subseteq finals[e] \cup {"decline"}
      <3>1. CASE Still(e) \/ Fails(e) \/ Refreshes(e)
        BY <3>1 DEF Still, Fails, Refreshes, FinalsSame
      <3>2. CASE Commands(e)
        BY <3>2 DEF Commands, Dials, Declines, TakesUp, Quits, Requests, FinalsSame
      <3>3. CASE Finishes(e)
        BY <2>1, <3>3 DEF Finishes, OfferReady, AnswerReady, ChecksDone, Placed, FinalsSame
      <3>4. CASE Delivers(e)
        <4>1. PICK m \in Message: m \in Sent(e) /\ Reacts(e, m)
          BY <3>4 DEF Delivers
        <4>2. ~GetsInvite(e, m)
          BY <2>1, <4>1 DEF Placed, NoInvite, GetsInvite
        <4> QED
          BY <4>1, <4>2 DEF Reacts, IsOver, GetsAck, IsIgnored, IsRinging, Connects,
                            ConnectsNot, Confirms, Again, IsOk, NothingElse, FinalsSame
      <3>5. CASE FarEndActs(e)
        BY <3>5 DEF FarEndActs, GetsFinal, FinalsSame
      <3> QED
        BY <2>1, <3>1, <3>2, <3>3, <3>4, <3>5 DEF Moves
    <2> QED
      BY <2>2
  <1>6. TypeOK /\ PlacedSo /\ CallsAskedFor /\ [Next]_vars => FairStep
    BY <1>3, <1>5 DEF Calls
  <1>7. FairStep => [\A c \in Calls: Fair(c)]_vars
    OBVIOUS
  <1> HIDE DEF PlacedSo, FairStep
  <1> QED
    BY <1>1, <1>2, <1>4, <1>6, <1>7, TypeCorrect, Tracking, PTL
    DEF Spec, AnswersOnlyAccepted, FairStep

-----------------------------------------------------------------------------
(* A call on hold is known to be.                                           *)

(* What is_held and hold_pending say of what was offered last: they may say *)
(* "held" of a call that is not, but nothing else of one that is.           *)
HoldTold(d) ==
    d.sdp = "sendonly" => d.holdPending = "hold" \/ (d.held /\ d.holdPending = "none")

Told(e) == NoInvite(e) /\ (Live(e) => HoldTold(dialogs[e]))

(* No handler but that of an INVITE makes less of it.                       *)
LEMMA HoldTreated ==
    ASSUME NEW d \in Dialog, HoldTold(d)
    PROVE  /\ HoldTold(Closing(d)) /\ HoldTold(Refreshed(d)) /\ HoldTold(TakeHold(d))
           /\ HoldTold(Answered(d))
           /\ \A kind \in InDialogKind: HoldTold(Asked(d, kind))
           /\ \A t: HoldTold(Accepted(d, t))
           /\ \A t: HoldTold(WithTimer([d EXCEPT !.refreshPending = FALSE], t))
           /\ \A s: HoldTold([d EXCEPT !.state = s])
           /\ HoldTold([d EXCEPT !.media = TRUE])
           /\ HoldTold([Bump(d) EXCEPT !.authRetried = TRUE])
           /\ HoldTold([Bump(d) EXCEPT !.sessionExpiresRetried = TRUE])
  <1> USE DEF HoldTold, Dialog, Bump
  <1>1. HoldTold(Closing(d)) /\ HoldTold(Refreshed(d)) /\ HoldTold(TakeHold(d))
    BY DEF Closing, Refreshed, TakeHold
  <1>2. HoldTold(Answered(d))
    BY DEF Answered
  <1>3. ASSUME NEW kind \in InDialogKind PROVE HoldTold(Asked(d, kind))
    BY DEF Asked, InDialogKind, Reinvite
  <1>4. ASSUME NEW t
        PROVE  /\ HoldTold(Accepted(d, t))
               /\ HoldTold(WithTimer([d EXCEPT !.refreshPending = FALSE], t))
    BY DEF Accepted, WithTimer
  <1>5. /\ \A s: HoldTold([d EXCEPT !.state = s])
        /\ HoldTold([d EXCEPT !.media = TRUE])
        /\ HoldTold([Bump(d) EXCEPT !.authRetried = TRUE])
        /\ HoldTold([Bump(d) EXCEPT !.sessionExpiresRetried = TRUE])
    OBVIOUS
  <1> QED
    BY <1>1, <1>2, <1>3, <1>4, <1>5

LEMMA ToldMoves ==
    ASSUME NEW e \in OutCalls, LocalType(e), Told(e), Moves(e), peerReqs' = 0
    PROVE  Told(e)'
  <1> DEFINE d == dialogs[e]
  <1>1. Live(e) => d \in Dialog /\ HoldTold(d)
    BY DEF LocalType, Live, Told
  <1>2. ASSUME Sent(e)' \subseteq Sent(e), dialogs'[e] \in {d, NoDialog}
        PROVE  Told(e)'
    BY <1>2 DEF Told, NoInvite, Live
  <1>3. ASSUME Sent(e)' \subseteq Sent(e), HoldTold(dialogs'[e]) PROVE Told(e)'
    BY <1>3 DEF Told, NoInvite
  <1>4. ChanSame(e) => Sent(e)' = Sent(e)
    BY DEF ChanSame, Sent
  <1> HIDE DEF d
  <1>5. CASE Still(e) \/ Fails(e)
    BY <1>2, <1>4, <1>5 DEF Still, Fails, DialogSame, Becomes, d
  <1>6. CASE Commands(e)
    <2>1. Sent(e)' \subseteq Sent(e)
      BY <1>4, <1>6 DEF Commands
    <2>2. CASE Dials(e) \/ Declines(e) \/ TakesUp(e)
      BY <1>2, <2>1, <2>2 DEF Dials, Declines, TakesUp, Becomes, d
    <2>3. CASE Quits(e)
      <3>1. Live(e) /\ dialogs'[e] = Closing(d)
        BY <2>3 DEF Quits, MayHangUp, Becomes, d
      <3> QED
        BY <1>1, <1>3, <2>1, <3>1, HoldTreated
    <2>4. CASE Requests(e)
      <3>1. Live(e) /\ \E kind \in InDialogKind: dialogs'[e] = Asked(d, kind)
        BY <2>4 DEF Requests, MayAsk, Becomes, d
      <3> QED
        BY <1>1, <1>3, <2>1, <3>1, HoldTreated
    <2> QED
      BY <1>6, <2>2, <2>3, <2>4 DEF Commands
  <1>7. CASE Finishes(e)
    <2>1. Sent(e)' \subseteq Sent(e)
      BY <1>4, <1>7 DEF Finishes
    <2>2. CASE OfferReady(e)
      <3>1. HoldTold(NewOutgoing)
        BY DEF HoldTold, NewOutgoing
      <3> QED
        BY <1>2, <1>3, <2>1, <2>2, <3>1 DEF OfferReady, Becomes, d
    <2>3. CASE AnswerReady(e)
      BY <1>1, <1>2, <1>3, <2>1, <2>3, HoldTreated DEF AnswerReady, Becomes, d
    <2>4. CASE ChecksDone(e)
      BY <1>1, <1>2, <1>3, <2>1, <2>4, HoldTreated DEF ChecksDone, Becomes, d
    <2> QED
      BY <1>7, <2>2, <2>3, <2>4 DEF Finishes
  <1>8. CASE Refreshes(e)
    <2>1. Live(e) /\ dialogs'[e] = Refreshed(d) /\ Sent(e)' = Sent(e)
      BY <1>4, <1>8 DEF Refreshes, Due, d
    <2> QED
      BY <1>1, <1>3, <2>1, HoldTreated
  <1>9. CASE Delivers(e)
    <2>1. PICK m \in Message: m \in Sent(e) /\ Sent(e)' \subseteq Sent(e) /\ Reacts(e, m)
      BY <1>9 DEF Delivers
    <2>2. ~GetsInvite(e, m)
      BY <2>1 DEF Told, NoInvite, GetsInvite
    <2>3. CASE IsOver(e, m) \/ IsIgnored(e, m) \/ ConnectsNot(e, m)
      BY <1>2, <2>1, <2>3 DEF IsOver, IsIgnored, ConnectsNot, Becomes, d
    <2>4. CASE GetsAck(e, m) \/ IsRinging(e, m)
      <3>1. dialogs'[e] = d \/ (Live(e) /\ \E s: dialogs'[e] = [d EXCEPT !.state = s])
        BY <2>4 DEF GetsAck, IsRinging, Becomes, d
      <3>2. \A s: Live(e) => HoldTold([d EXCEPT !.state = s])
        BY <1>1, HoldTreated
      <3>3. dialogs'[e] = d \/ HoldTold(dialogs'[e])
        BY <3>1, <3>2
      <3> QED
        BY <1>2, <1>3, <2>1, <3>3
    <2>5. CASE Connects(e, m) \/ Confirms(e, m)
      <3>1. Live(e) /\ \/ \E t: dialogs'[e] = Accepted(d, t)
                       \/ \E t: dialogs'[e] = WithTimer([d EXCEPT !.refreshPending = FALSE], t)
                       \/ dialogs'[e] = TakeHold(d)
        BY <2>5 DEF Connects, Confirms, IsOk, Becomes, d
      <3> QED
        BY <1>1, <1>3, <2>1, <3>1, HoldTreated
    <2>6. CASE Again(e, m)
      <3>1. Live(e) /\ \/ dialogs'[e] = [Bump(d) EXCEPT !.authRetried = TRUE]
                       \/ dialogs'[e] = [Bump(d) EXCEPT !.sessionExpiresRetried = TRUE]
        BY <2>6 DEF Again, Becomes, d
      <3> QED
        BY <1>1, <1>3, <2>1, <3>1, HoldTreated
    <2> QED
      BY <2>1, <2>2, <2>3, <2>4, <2>5, <2>6 DEF Reacts
  <1>10. CASE FarEndActs(e)
    <2>1. NoInvite(e)'
      BY <1>10, NeverInvites DEF Told, NoInvite
    <2>2. dialogs'[e] = d
      BY <1>10 DEF FarEndActs, OursSame, DialogSame, d
    <2> QED
      BY <2>1, <2>2 DEF Told, Live, d
  <1> QED
    BY <1>5, <1>6, <1>7, <1>8, <1>9, <1>10 DEF Moves

(* A re-INVITE of the far end is counted for good.                          *)
LEMMA PeerReqsCount ==
    ASSUME TypeOK, [Next]_vars, peerReqs' = 0
    PROVE  peerReqs = 0
  <1>1. ASSUME NEW c \in Calls, Command(c) \/ TaskDone(c) \/ Deliver(c)
        PROVE  peerReqs' = peerReqs
    BY <1>1 DEF Command, InitiateCall, AcceptCall, RejectCall, HangUp, SendReinvite,
                SendDtmfInfo, Transfer, SendInDialog, TaskDone, OutgoingOfferReady,
                IncomingAnswerReady, OutgoingConnected, Deliver, Receive, farEnd
  <1>2. ASSUME RefreshSessionTimers \/ TransportFails \/ UNCHANGED vars
        PROVE  peerReqs' = peerReqs
    BY <1>2 DEF RefreshSessionTimers, TransportFails, vars, farEnd
  <1>3. ASSUME PeerActs PROVE peerReqs' = peerReqs \/ peerReqs' = peerReqs + 1
    <2>1. ASSUME NEW r \in open, PeerRings(r) \/ PeerAnswers(r)
          PROVE  peerReqs' = peerReqs
      BY <2>1 DEF PeerRings, PeerAnswers, PeerAccepts, PeerRefuses, PeerTakesBye,
                  PeerTakesOther, farEnd
    <2>2. ASSUME NEW c, PeerInvites(c) \/ PeerCancels(c) \/ PeerHangsUp(c)
                          \/ \E f \in finals[c]: PeerGetsFinal(c, f)
          PROVE  peerReqs' = peerReqs
      BY <2>2 DEF PeerInvites, PeerCancels, PeerHangsUp, PeerGetsFinal
    <2>3. ASSUME NEW c, PeerReinvites(c) PROVE peerReqs' = peerReqs + 1
      BY <2>3 DEF PeerReinvites
    <2> QED
      BY <1>3, <2>1, <2>2, <2>3 DEF PeerActs
  <1> QED
    BY <1>1, <1>2, <1>3 DEF Next, TypeOK

(* Once an answer was taken for that of the hold, a placed call that is on  *)
(* hold is known to be, for any number of holds, resumes and refreshes,     *)
(* outstanding at once or not, and answers that are copied, refused, late   *)
(* or overtake each other: what takes the flag away leaves "held" behind,   *)
(* and a resume that overwrites it has offered sendrecv.  A re-INVITE of    *)
(* the far end is the one thing that writes is_held otherwise.              *)
THEOREM HoldsAreKnown == Spec => []HoldIsKnown
  <1> DEFINE AllTold == peerReqs = 0 => \A e \in OutCalls: Told(e)
  <1>1. Init => AllTold
    BY DEF Init, Told, NoInvite, Sent, Live, Calls
  <1>2. TypeOK /\ AllTold /\ [Next]_vars => AllTold'
    <2> SUFFICES ASSUME TypeOK, AllTold, [Next]_vars, peerReqs' = 0, NEW e \in OutCalls
                 PROVE  Told(e)'
      OBVIOUS
    <2>1. peerReqs = 0 /\ e \in Calls
      BY PeerReqsCount DEF Calls
    <2> QED
      BY <2>1, LocalTypes, EveryStep, ToldMoves
  <1>3. AllTold => HoldIsKnown
    BY DEF HoldIsKnown, Told, HoldTold
  <1> HIDE DEF AllTold
  <1> QED
    BY <1>1, <1>2, <1>3, TypeCorrect, PTL DEF Spec

=============================================================================
