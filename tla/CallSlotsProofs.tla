-------------------------- MODULE CallSlotsProofs --------------------------
(***************************************************************************)
(* Theorems about CallSlots, for any sets of calls and any bounds.         *)
(***************************************************************************)
EXTENDS CallSlots, FiniteSetTheorems, SequenceTheorems, TLAPS

-----------------------------------------------------------------------------
(* Sequences. *)

(* What is left of a sequence when its i-th element is removed.             *)
LEMMA Removal ==
    ASSUME NEW S, NEW s \in Seq(S), NEW i \in 1..Len(s)
    PROVE  /\ RemoveAt(s, i) \in Seq(S)
           /\ Len(RemoveAt(s, i)) = Len(s) - 1
           /\ \A j \in 1..Len(s) - 1:
                RemoveAt(s, i)[j] = IF j < i THEN s[j] ELSE s[j + 1]
  <1> DEFINE before == SubSeq(s, 1, i - 1)
             after == SubSeq(s, i + 1, Len(s))
  <1>0. Len(s) \in Nat /\ \A j \in 1..Len(s): s[j] \in S
    BY LenProperties, ElementOfSeq
  <1>1. /\ before \in Seq(S)
        /\ Len(before) = i - 1
        /\ \A j \in 1..i - 1: before[j] = s[j]
    <2>1. 1 \in Int /\ i - 1 \in Int /\ \A j \in 1..i - 1: s[j] \in S
      BY <1>0
    <2>2. /\ before \in Seq(S)
          /\ Len(before) = IF 1 <= i - 1 THEN i - 1 - 1 + 1 ELSE 0
          /\ \A j \in 1..(i - 1 - 1 + 1): before[j] = s[1 + j - 1]
      BY <2>1, SubSeqProperties
    <2> QED
      BY <1>0, <2>2
  <1>2. /\ after \in Seq(S)
        /\ Len(after) = Len(s) - i
        /\ \A j \in 1..Len(s) - i: after[j] = s[i + j]
    <2>1. i + 1 \in Int /\ Len(s) \in Int /\ \A j \in i + 1..Len(s): s[j] \in S
      BY <1>0
    <2>2. /\ after \in Seq(S)
          /\ Len(after) = IF i + 1 <= Len(s) THEN Len(s) - (i + 1) + 1 ELSE 0
          /\ \A j \in 1..(Len(s) - (i + 1) + 1): after[j] = s[(i + 1) + j - 1]
      BY <2>1, SubSeqProperties
    <2> QED
      BY <1>0, <2>2
  <1> HIDE DEF before, after
  <1>3. /\ before \o after \in Seq(S)
        /\ Len(before \o after) = Len(before) + Len(after)
        /\ \A j \in 1..Len(before) + Len(after):
             (before \o after)[j] = IF j <= Len(before) THEN before[j]
                                    ELSE after[j - Len(before)]
    BY <1>1, <1>2, ConcatProperties
  <1>4. RemoveAt(s, i) = before \o after
    BY DEF RemoveAt, before, after
  <1>5. \A j \in 1..Len(s) - 1:
          (before \o after)[j] = IF j < i THEN s[j] ELSE s[j + 1]
    <2>1. SUFFICES ASSUME NEW j \in 1..Len(s) - 1
          PROVE (before \o after)[j] = IF j < i THEN s[j] ELSE s[j + 1]
      OBVIOUS
    <2>2. CASE j < i
      BY <1>0, <1>1, <1>2, <1>3, <2>2
    <2>3. CASE ~(j < i)
      <3>1. j - (i - 1) \in 1..Len(s) - i /\ i + (j - (i - 1)) = j + 1
        BY <1>0, <2>3
      <3>2. (before \o after)[j] = after[j - (i - 1)]
        BY <1>0, <1>1, <1>2, <1>3, <2>3
      <3> QED
        BY <1>2, <2>3, <3>1, <3>2
    <2> QED
      BY <2>2, <2>3
  <1>6. Len(before \o after) = Len(s) - 1
    BY <1>0, <1>1, <1>2, <1>3
  <1> QED
    BY ONLY <1>3, <1>4, <1>5, <1>6, Zenon

-----------------------------------------------------------------------------
(* Types. *)

LEMMA StackStarts ==
    ASSUME NEW s \in StackCall
    PROVE  /\ [s EXCEPT !.st = "trying"] \in StackCall
           /\ [s EXCEPT !.st = "ringing"] \in StackCall
           /\ [s EXCEPT !.st = "up"] \in StackCall
           /\ Becomes(s, "ringing", "declined") \in StackCall
           /\ Becomes(s, "ringing", "answering") \in StackCall
           /\ Becomes(s, "ringing", "busy") \in StackCall
  BY DEF StackCall, Becomes

LEMMA StackAsks ==
    ASSUME NEW s \in StackCall
    PROVE  /\ HungUp(s) \in StackCall
           /\ Reinvited(s, "hold") \in StackCall
           /\ Reinvited(s, "resume") \in StackCall
           /\ Referred(s) \in StackCall
           /\ Over(s) \in StackCall
           /\ s.reinvites > 0 =>
                [s EXCEPT !.reinvites = @ - 1, !.holdPending = "none"] \in StackCall
           /\ s.refers > 0 => [s EXCEPT !.refers = @ - 1] \in StackCall
  <1>0. /\ s.reinvites \in Nat /\ s.refers \in Nat
        /\ s.reinvites + 1 \in Nat /\ s.refers + 1 \in Nat /\ 0 \in Nat
        /\ s.reinvites > 0 => s.reinvites - 1 \in Nat
        /\ s.refers > 0 => s.refers - 1 \in Nat
    BY DEF StackCall
  <1>1. HungUp(s) \in StackCall
    BY <1>0 DEF StackCall, HungUp
  <1>2. Reinvited(s, "hold") \in StackCall
    BY <1>0 DEF StackCall, Reinvited
  <1>3. Reinvited(s, "resume") \in StackCall
    <2>1. [s EXCEPT !.dir = "sendrecv", !.holdPending = "resume",
                    !.reinvites = @ + 1] \in StackCall
      BY <1>0 DEF StackCall
    <2> QED
      BY <2>1 DEF Reinvited
  <1>4. Referred(s) \in StackCall /\ Over(s) \in StackCall
    BY <1>0 DEF StackCall, Referred, Over
  <1>5. s.reinvites > 0 =>
          [s EXCEPT !.reinvites = @ - 1, !.holdPending = "none"] \in StackCall
    BY <1>0 DEF StackCall
  <1>6. s.refers > 0 => [s EXCEPT !.refers = @ - 1] \in StackCall
    BY <1>0 DEF StackCall
  <1> QED
    BY <1>1, <1>2, <1>3, <1>4, <1>5, <1>6

LEMMA StackTypes ==
    ASSUME NEW s \in StackCall
    PROVE  /\ Declined(s) \in StackCall
           /\ Accepted(s) \in StackCall
  BY StackStarts DEF Declined, Accepted

LEMMA SlotTypes ==
    ASSUME calls \in Seq(Slot)
    PROVE  /\ Len(calls) \in Nat
           /\ DOMAIN calls = 1..Len(calls)
           /\ \A i \in DOMAIN calls: Id(i) \in Calls /\ calls[i].uri \in Calls
           /\ \A i \in DOMAIN calls, held \in BOOLEAN:
                /\ WithHeld(i, held) \in Seq(Slot)
                /\ Len(WithHeld(i, held)) = Len(calls)
           /\ \A c, uri \in Calls:
                /\ Push(c, uri) \in Seq(Slot)
                /\ Len(Push(c, uri)) = Len(calls) + 1
  <1>1. Len(calls) \in Nat /\ DOMAIN calls = 1..Len(calls)
    BY LenProperties
  <1>2. \A i \in DOMAIN calls: calls[i] \in Slot
    BY <1>1, ElementOfSeq
  <1>3. \A i \in DOMAIN calls, held \in BOOLEAN:
                /\ WithHeld(i, held) \in Seq(Slot)
                /\ Len(WithHeld(i, held)) = Len(calls)
    <2>1. SUFFICES ASSUME NEW i \in DOMAIN calls, NEW held \in BOOLEAN
          PROVE /\ WithHeld(i, held) \in Seq(Slot)
                /\ Len(WithHeld(i, held)) = Len(calls)
      OBVIOUS
    <2>2. [calls[i] EXCEPT !.held = held] \in Slot
      BY <1>2 DEF Slot
    <2>3. WithHeld(i, held) = [calls EXCEPT ![i] = [calls[i] EXCEPT !.held = held]]
      BY DEF WithHeld
    <2> QED
      BY <1>1, <2>2, <2>3, ExceptSeq
  <1>4. \A c, uri \in Calls:
                /\ Push(c, uri) \in Seq(Slot)
                /\ Len(Push(c, uri)) = Len(calls) + 1
    <2>1. SUFFICES ASSUME NEW c \in Calls, NEW uri \in Calls
          PROVE /\ Push(c, uri) \in Seq(Slot)
                /\ Len(Push(c, uri)) = Len(calls) + 1
      OBVIOUS
    <2>2. [id |-> c, uri |-> uri, held |-> FALSE] \in Slot
      BY DEF Slot
    <2> QED
      BY <2>2, AppendProperties DEF Push
  <1> QED
    BY <1>1, <1>2, <1>3, <1>4 DEF Slot, Id

(* The types of all but the history of what was mistaken.                   *)
StateOK ==
    /\ calls \in Seq(Slot)
    /\ focused \in 0..Len(calls)
    /\ media \subseteq Calls
    /\ sockets \subseteq Calls
    /\ pendingOutbound \in OutCalls \cup {NoCall}
    /\ pendingCall \in InCalls \cup {NoCall}
    /\ pendingAccept \in InCalls \cup {NoCall}
    /\ attended \in 0..Len(calls)
    /\ inConference \in BOOLEAN
    /\ history \in [Calls -> Nat]
    /\ stack \in [Calls -> StackCall]
    /\ events \in [Calls -> Seq(Event)]
    /\ asks \in Nat
    /\ failures \in Nat

PastOK == crossed \in BOOLEAN /\ mistaken \subseteq OutCalls

LEMMA InitTyped == Init => StateOK
  <1> SUFFICES ASSUME Init PROVE StateOK
    OBVIOUS
  <1>1. calls \in Seq(Slot) /\ Len(calls) = 0
    BY EmptySeq DEF Init
  <1>2. stack \in [Calls -> StackCall]
    BY DEF Init, StackCall
  <1>3. events \in [Calls -> Seq(Event)]
    BY EmptySeq DEF Init
  <1>4. focused \in 0..Len(calls) /\ attended \in 0..Len(calls)
    BY <1>1 DEF Init
  <1>5. history \in [Calls -> Nat] /\ asks \in Nat /\ failures \in Nat
    BY DEF Init
  <1>6. /\ media \subseteq Calls /\ sockets \subseteq Calls
        /\ pendingOutbound \in OutCalls \cup {NoCall}
        /\ pendingCall \in InCalls \cup {NoCall}
        /\ pendingAccept \in InCalls \cup {NoCall}
        /\ inConference \in BOOLEAN
    BY DEF Init
  <1> QED
    BY <1>1, <1>2, <1>3, <1>4, <1>5, <1>6 DEF StateOK

LEMMA NextCallIsNew ==
    ASSUME MayDial
    PROVE  NextCall \in OutCalls /\ NextCall \in Calls /\ stack[NextCall].st = "none"
  BY DEF MayDial, NextCall, Calls

LEMMA StartMediaTyped ==
    ASSUME StateOK, NEW i, NEW c \in Calls, NEW m \in SUBSET Calls,
           NEW k \in SUBSET Calls, NEW f, StartMedia(i, c, m, k, f)
    PROVE  /\ media' \subseteq Calls
           /\ sockets' \subseteq Calls
           /\ focused' \in {i, f}
           /\ failures' \in Nat
           /\ focused' = f => media' = m \/ focused' = i
  <1>1. CASE c \notin k /\ KeepAudio({c}, k \cup {c}, i) /\ UNCHANGED failures
    BY <1>1 DEF KeepAudio, StateOK
  <1>2. CASE EngineFails(c \in k) /\ KeepAudio(m, k, f)
    <2>1. failures' \in Nat
      BY <1>2 DEF EngineFails, StateOK
    <2> QED
      BY <1>2, <2>1 DEF KeepAudio
  <1> QED
    BY <1>1, <1>2 DEF StartMedia

(* What is left of the slots when one is removed.                           *)
LEMMA Remaining ==
    ASSUME StateOK, NEW i \in DOMAIN calls
    PROVE  /\ RemoveAt(calls, i) \in Seq(Slot)
           /\ Len(RemoveAt(calls, i)) = Len(calls) - 1
           /\ DOMAIN RemoveAt(calls, i) = 1..Len(calls) - 1
           /\ \A j \in 1..Len(calls) - 1:
                RemoveAt(calls, i)[j] = IF j < i THEN calls[j] ELSE calls[j + 1]
  <1>1. calls \in Seq(Slot) /\ i \in 1..Len(calls)
    BY SlotTypes DEF StateOK
  <1>2. /\ RemoveAt(calls, i) \in Seq(Slot)
        /\ Len(RemoveAt(calls, i)) = Len(calls) - 1
        /\ \A j \in 1..Len(calls) - 1:
             RemoveAt(calls, i)[j] = IF j < i THEN calls[j] ELSE calls[j + 1]
    BY <1>1, Removal
  <1> QED
    BY <1>2, LenProperties

(* What RemoveCall does to the audio, outside and inside a conference.      *)
LEMMA RemoveCallAudio ==
    ASSUME StateOK, NEW i \in DOMAIN calls, RemoveCall(i)
    PROVE  /\ calls' = RemoveAt(calls, i)
           /\ inConference' = FALSE /\ attended' = 0
           /\ ~inConference /\ focused = i =>
                media' = {} /\ sockets' = Freed /\ focused' = 0 /\ failures' = failures
           /\ ~inConference /\ focused # i =>
                /\ media' = media /\ sockets' = sockets /\ failures' = failures
                /\ focused' = IF focused > i THEN focused - 1 ELSE focused
           /\ inConference /\ Len(calls) = 1 =>
                media' = {} /\ sockets' = Freed /\ focused' = 0 /\ failures' = failures
           /\ inConference /\ Len(calls) # 1 =>
                StartMedia(1, calls'[1].id, {}, Freed, 0)
  <1> DEFINE rest == RemoveAt(calls, i)
             stops == inConference \/ focused = i
             m == IF stops THEN {} ELSE media
             k == IF stops THEN Freed ELSE sockets
             f == IF stops THEN 0 ELSE IF focused > i THEN focused - 1 ELSE focused
  <1>1. rest \in Seq(Slot) /\ Len(rest) = Len(calls) - 1
    BY Remaining
  <1>2. rest = <<>> <=> Len(calls) = 1
    <2>1. Len(calls) \in Nat
      BY SlotTypes DEF StateOK
    <2>2. rest = <<>> => Len(rest) = 0
      BY EmptySeq
    <2>3. rest # <<>> => Len(rest) \in Nat \ {0}
      BY <1>1, EmptySeq
    <2> QED
      BY <1>1, <2>1, <2>2, <2>3
  <1>3. /\ calls' = rest
        /\ inConference' = FALSE /\ attended' = 0
    BY DEF RemoveCall
  <1>4. IF inConference /\ rest # <<>>
        THEN StartMedia(1, rest[1].id, m, k, f)
        ELSE KeepAudio(m, k, f) /\ UNCHANGED failures
    BY DEF RemoveCall
  <1> HIDE DEF rest
  <1>5. ~inConference => KeepAudio(m, k, f) /\ failures' = failures
    BY <1>4
  <1>6. inConference /\ Len(calls) = 1 => KeepAudio({}, Freed, 0) /\ failures' = failures
    BY <1>2, <1>4
  <1>7. inConference /\ Len(calls) # 1 => StartMedia(1, rest[1].id, {}, Freed, 0)
    BY <1>2, <1>4
  <1>8. ~inConference /\ focused # i =>
          /\ media' = media /\ sockets' = sockets /\ failures' = failures
          /\ focused' = IF focused > i THEN focused - 1 ELSE focused
    BY <1>5 DEF KeepAudio
  <1>9. ~inConference /\ focused = i =>
          media' = {} /\ sockets' = Freed /\ focused' = 0 /\ failures' = failures
    BY <1>5 DEF KeepAudio
  <1>10. inConference /\ Len(calls) = 1 =>
          media' = {} /\ sockets' = Freed /\ focused' = 0 /\ failures' = failures
    BY <1>6 DEF KeepAudio
  <1> USE DEF rest
  <1>11. inConference /\ Len(calls) # 1 => StartMedia(1, calls'[1].id, {}, Freed, 0)
    BY <1>3, <1>7
  <1> QED
    BY <1>3, <1>8, <1>9, <1>10, <1>11

LEMMA RemoveCallTyped ==
    ASSUME StateOK, NEW i \in DOMAIN calls, RemoveCall(i)
    PROVE  /\ calls' \in Seq(Slot) /\ Len(calls') = Len(calls) - 1
           /\ media' \subseteq Calls /\ sockets' \subseteq Calls
           /\ focused' \in 0..Len(calls')
           /\ inConference' \in BOOLEAN
           /\ attended' \in 0..Len(calls')
           /\ failures' \in Nat
  <1>0. /\ Len(calls) \in Nat /\ DOMAIN calls = 1..Len(calls)
        /\ focused \in 0..Len(calls) /\ failures \in Nat
        /\ media \subseteq Calls /\ sockets \subseteq Calls /\ Freed \subseteq Calls
    BY SlotTypes DEF StateOK, Freed
  <1>1. calls' \in Seq(Slot) /\ Len(calls') = Len(calls) - 1
    BY RemoveCallAudio, Remaining
  <1>2. inConference' = FALSE /\ attended' = 0
    BY RemoveCallAudio
  <1>3. /\ media' \subseteq Calls /\ sockets' \subseteq Calls
        /\ focused' \in 0..Len(calls') /\ failures' \in Nat
    <2>1. CASE ~inConference /\ focused = i
      <3>1. media' = {} /\ sockets' = Freed /\ focused' = 0 /\ failures' = failures
        BY <2>1, RemoveCallAudio
      <3>2. 0 \in 0..Len(calls')
        BY <1>0, <1>1
      <3> QED
        BY <1>0, <3>1, <3>2
    <2>2. CASE ~inConference /\ focused # i
      <3>1. media' = media /\ sockets' = sockets /\ failures' = failures
        BY <2>2, RemoveCallAudio
      <3>2. focused' = IF focused > i THEN focused - 1 ELSE focused
        BY <2>2, RemoveCallAudio
      <3>3. focused' \in 0..Len(calls')
        BY <1>0, <1>1, <2>2, <3>2
      <3> QED
        BY <1>0, <3>1, <3>3
    <2>3. CASE inConference /\ Len(calls) = 1
      BY <1>0, <1>1, <2>3, RemoveCallAudio
    <2>4. CASE inConference /\ Len(calls) # 1
      <3>1. StartMedia(1, calls'[1].id, {}, Freed, 0)
        BY <2>4, RemoveCallAudio
      <3>2. 1 \in 1..Len(calls')
        BY <1>0, <1>1, <2>4
      <3>3. calls'[1].id \in Calls
        <4>1. calls'[1] \in Slot
          BY <1>1, <3>2, ElementOfSeq
        <4> QED
          BY <4>1 DEF Slot
      <3>4. /\ media' \subseteq Calls /\ sockets' \subseteq Calls
            /\ focused' \in {1, 0} /\ failures' \in Nat
        BY <1>0, <3>1, <3>3, StartMediaTyped
      <3> QED
        BY <1>0, <1>1, <3>2, <3>4
    <2> QED
      BY <2>1, <2>2, <2>3, <2>4
  <1>4. 0 \in 0..Len(calls')
    BY <1>0, <1>1
  <1> QED
    BY <1>1, <1>2, <1>3, <1>4

LEMMA DialsTyped ==
    ASSUME StateOK, Dial \/ AttendedTransferDial
    PROVE  StateOK'
  <1>0. /\ calls \in Seq(Slot) /\ stack \in [Calls -> StackCall]
        /\ media \subseteq Calls /\ sockets \subseteq Calls /\ asks \in Nat
        /\ focused \in 0..Len(calls)
    BY DEF StateOK
  <1>1. CASE Dial
    <2>1. NextCall \in OutCalls /\ NextCall \in Calls
      BY <1>1, NextCallIsNew DEF Dial
    <2>2. [stack[NextCall] EXCEPT !.st = "trying"] \in StackCall
      BY <1>0, <2>1, StackStarts
    <2>3. stack' \in [Calls -> StackCall]
      BY <1>0, <1>1, <2>1, <2>2 DEF Dial
    <2> QED
      BY <1>1, <2>1, <2>3 DEF Dial, StateOK, audio
  <1>2. CASE AttendedTransferDial
    <2>1. NextCall \in OutCalls /\ NextCall \in Calls
      BY <1>2, NextCallIsNew DEF AttendedTransferDial
    <2>2. focused \in DOMAIN calls /\ 1 \in Nat /\ Len(calls) = 1
      BY <1>0, <1>2, SlotTypes DEF AttendedTransferDial
    <2>3. Id(focused) \in Calls
      BY <1>0, <2>2, SlotTypes
    <2> DEFINE held == [stack EXCEPT ![Id(focused)] = Reinvited(@, "hold")]
    <2>4. held \in [Calls -> StackCall]
      BY <1>0, <2>3, StackAsks
    <2>5. stack' = [held EXCEPT ![NextCall].st = "trying"]
      BY <1>2 DEF AttendedTransferDial
    <2> HIDE DEF held
    <2>6. [held[NextCall] EXCEPT !.st = "trying"] \in StackCall
      BY <2>1, <2>4, StackStarts
    <2>7. stack' \in [Calls -> StackCall]
      BY <2>1, <2>4, <2>5, <2>6
    <2>8. calls' \in Seq(Slot) /\ Len(calls') = Len(calls)
      BY <1>0, <1>2, <2>2, SlotTypes DEF AttendedTransferDial
    <2>9. /\ media' \subseteq Calls /\ sockets' \subseteq Calls
          /\ focused' \in 0..Len(calls') /\ attended' \in 0..Len(calls')
      <3>1. media' = {} /\ sockets' = Freed /\ focused' = 0
        BY <1>2 DEF AttendedTransferDial, KeepAudio
      <3>2. attended' = focused
        BY <1>2 DEF AttendedTransferDial
      <3>3. 0 \in 0..Len(calls') /\ focused \in 0..Len(calls')
        BY <1>0, <2>2, <2>8
      <3> QED
        BY <1>0, <3>1, <3>2, <3>3 DEF Freed
    <2>10. asks' \in Nat
      BY <1>0, <1>2 DEF AttendedTransferDial
    <2> QED
      BY <1>2, <2>1, <2>7, <2>8, <2>9, <2>10 DEF AttendedTransferDial, StateOK
  <1> QED
    BY <1>1, <1>2

LEMMA TransfersTyped ==
    ASSUME StateOK, CompleteAttendedTransfer \/ BlindTransfer
    PROVE  StateOK'
  <1>0. /\ calls \in Seq(Slot) /\ stack \in [Calls -> StackCall] /\ asks \in Nat
        /\ focused \in 0..Len(calls) /\ attended \in 0..Len(calls)
    BY DEF StateOK
  <1>1. CASE CompleteAttendedTransfer
    <2>1. attended \in DOMAIN calls
      BY <1>0, <1>1, SlotTypes DEF CompleteAttendedTransfer
    <2>2. Referred(stack[Id(attended)]) \in StackCall
      BY <1>0, <2>1, SlotTypes, StackAsks
    <2>3. stack' \in [Calls -> StackCall]
      BY <1>0, <1>1, <2>2 DEF CompleteAttendedTransfer
    <2>4. asks' \in Nat
      BY <1>0, <1>1 DEF CompleteAttendedTransfer
    <2> QED
      BY <1>1, <2>3, <2>4 DEF CompleteAttendedTransfer, StateOK, audio, pendings
  <1>2. CASE BlindTransfer
    <2>1. focused \in DOMAIN calls
      BY <1>0, <1>2, SlotTypes DEF BlindTransfer
    <2>2. Referred(stack[Id(focused)]) \in StackCall
      BY <1>0, <2>1, SlotTypes, StackAsks
    <2>3. stack' \in [Calls -> StackCall]
      BY <1>0, <1>2, <2>2 DEF BlindTransfer
    <2>4. asks' \in Nat
      BY <1>0, <1>2 DEF BlindTransfer
    <2> QED
      BY <1>2, <2>3, <2>4 DEF BlindTransfer, StateOK, audio, pendings
  <1> QED
    BY <1>1, <1>2

LEMMA RecordTyped ==
    ASSUME StateOK, NEW c \in Calls, Record(c)
    PROVE  history' \in [Calls -> Nat]
  <1>1. history[c] + 1 \in Nat
    BY DEF StateOK
  <1> QED
    BY <1>1 DEF Record, StateOK

LEMMA PendingIsACall ==
    ASSUME StateOK
    PROVE  /\ pendingCall # NoCall => pendingCall \in Calls
           /\ pendingAccept # NoCall => pendingAccept \in Calls
           /\ pendingOutbound # NoCall => pendingOutbound \in Calls
           /\ NoCall \notin Calls
  BY CallsAssumption DEF StateOK, Calls

LEMMA AnswersTyped ==
    ASSUME StateOK, Accept \/ Reject
    PROVE  StateOK'
  <1>0. stack \in [Calls -> StackCall] /\ pendingCall \in InCalls \cup {NoCall}
    BY DEF StateOK
  <1>1. CASE Accept
    <2>1. pendingCall \in Calls
      BY <1>1, PendingIsACall DEF Accept
    <2>2. stack' \in [Calls -> StackCall]
      BY <1>0, <1>1, <2>1, StackTypes DEF Accept
    <2> QED
      BY <1>1, <2>2 DEF Accept, StateOK, audio
  <1>2. CASE Reject
    <2>1. pendingCall \in Calls
      BY <1>2, PendingIsACall DEF Reject
    <2>2. stack' \in [Calls -> StackCall]
      BY <1>0, <1>2, <2>1, StackTypes DEF Reject
    <2>3. history' \in [Calls -> Nat]
      BY <1>2, <2>1, RecordTyped DEF Reject
    <2> QED
      BY <1>2, <2>2, <2>3 DEF Reject, StateOK, audio
  <1> QED
    BY <1>1, <1>2

LEMMA HangUpTyped ==
    ASSUME StateOK, NEW i \in DOMAIN calls, HangUp(i)
    PROVE  StateOK'
  <1>0. /\ calls \in Seq(Slot) /\ stack \in [Calls -> StackCall]
        /\ Id(i) \in Calls /\ calls[i].uri \in Calls
    BY SlotTypes DEF StateOK
  <1>1. stack' \in [Calls -> StackCall]
    BY <1>0, StackAsks DEF HangUp
  <1>2. history' \in [Calls -> Nat]
    BY <1>0, RecordTyped DEF HangUp
  <1>3. RemoveCall(i)
    BY DEF HangUp
  <1>4. UNCHANGED <<pendings, events, asks>>
    BY DEF HangUp
  <1> QED
    BY <1>1, <1>2, <1>3, <1>4, RemoveCallTyped DEF StateOK, pendings

LEMMA HoldSlotTyped ==
    ASSUME StateOK, NEW i \in DOMAIN calls, HoldSlot(i)
    PROVE  StateOK'
  <1>0. /\ calls \in Seq(Slot) /\ stack \in [Calls -> StackCall]
        /\ Id(i) \in Calls /\ asks \in Nat /\ Len(calls) \in Nat
        /\ attended \in 0..Len(calls)
    BY SlotTypes DEF StateOK
  <1>1. stack' \in [Calls -> StackCall]
    BY <1>0, StackAsks DEF HoldSlot
  <1>2. calls' \in Seq(Slot) /\ Len(calls') = Len(calls)
    BY <1>0, SlotTypes DEF HoldSlot
  <1>3. /\ media' \subseteq Calls /\ sockets' \subseteq Calls
        /\ focused' \in 0..Len(calls') /\ attended' \in 0..Len(calls')
    <2>1. media' = {} /\ sockets' = Freed /\ focused' = 0 /\ attended' = attended
      BY DEF HoldSlot, KeepAudio
    <2>2. 0 \in 0..Len(calls') /\ attended \in 0..Len(calls')
      BY <1>0, <1>2
    <2> QED
      BY <2>1, <2>2 DEF Freed, StateOK
  <1>4. asks' \in Nat
    BY <1>0 DEF HoldSlot
  <1> QED
    BY <1>1, <1>2, <1>3, <1>4 DEF HoldSlot, StateOK, pendings

LEMMA SwapToTyped ==
    ASSUME StateOK, NEW i \in DOMAIN calls, SwapTo(i)
    PROVE  StateOK'
  <1>0. /\ calls \in Seq(Slot) /\ stack \in [Calls -> StackCall]
        /\ Id(i) \in Calls /\ asks \in Nat /\ Len(calls) \in Nat
        /\ attended \in 0..Len(calls) /\ focused \in 0..Len(calls)
        /\ media \subseteq Calls /\ sockets \subseteq Calls /\ Freed \subseteq Calls
        /\ DOMAIN calls = 1..Len(calls)
    BY SlotTypes DEF StateOK, Freed
  <1>1. \A s \in [Calls -> StackCall]: Resume(i, s) \in [Calls -> StackCall]
    BY <1>0, StackAsks DEF Resume
  <1>2. CASE focused = 0
    <2>1. stack' \in [Calls -> StackCall]
      BY <1>0, <1>1, <1>2 DEF SwapTo
    <2>2. calls' \in Seq(Slot) /\ Len(calls') = Len(calls)
      BY <1>0, <1>2, SlotTypes DEF SwapTo
    <2>3. StartMedia(i, Id(i), media, sockets, 0)
      BY <1>2 DEF SwapTo
    <2>4. /\ media' \subseteq Calls /\ sockets' \subseteq Calls
          /\ focused' \in {i, 0} /\ failures' \in Nat
      BY <1>0, <2>3, StartMediaTyped
    <2>5. focused' \in 0..Len(calls')
      BY <1>0, <2>2, <2>4
    <2>6. UNCHANGED <<pendings, attended, inConference, history, events>> /\ asks' = asks + 1
      BY DEF SwapTo
    <2> QED
      BY <1>0, <2>1, <2>2, <2>4, <2>5, <2>6 DEF StateOK, pendings
  <1>3. CASE focused # 0
    <2>1. focused \in DOMAIN calls
      BY <1>0, <1>3
    <2>2. Hold(focused, stack) \in [Calls -> StackCall]
      BY <1>0, <2>1, SlotTypes, StackAsks DEF Hold
    <2>3. stack' \in [Calls -> StackCall]
      BY <1>1, <1>3, <2>2 DEF SwapTo
    <2>4. calls' \in Seq(Slot) /\ Len(calls') = Len(calls)
      <3> DEFINE one == WithHeld(focused, TRUE)
      <3>1. calls' = [one EXCEPT ![i].held = FALSE]
        BY <1>3 DEF SwapTo, WithHeld
      <3>2. one \in Seq(Slot) /\ Len(one) = Len(calls)
        BY <1>0, <2>1, SlotTypes
      <3> HIDE DEF one
      <3>3. i \in 1..Len(one)
        BY <1>0, <3>2
      <3>4. one[i] \in Slot
        BY <3>2, <3>3, ElementOfSeq
      <3>5. [one[i] EXCEPT !.held = FALSE] \in Slot
        BY <3>4 DEF Slot
      <3>6. calls' = [one EXCEPT ![i] = [one[i] EXCEPT !.held = FALSE]]
        BY <3>1
      <3> QED
        BY <3>2, <3>3, <3>5, <3>6, ExceptSeq
    <2>5. StartMedia(i, Id(i), {}, Freed, 0)
      BY <1>3 DEF SwapTo
    <2>6. /\ media' \subseteq Calls /\ sockets' \subseteq Calls
          /\ focused' \in {i, 0} /\ failures' \in Nat
      BY <1>0, <2>5, StartMediaTyped
    <2>7. focused' \in 0..Len(calls')
      BY <1>0, <2>4, <2>6
    <2>8. UNCHANGED <<pendings, attended, inConference, history, events>> /\ asks' = asks + 1
      BY DEF SwapTo
    <2> QED
      BY <1>0, <2>3, <2>4, <2>6, <2>7, <2>8 DEF StateOK, pendings
  <1> QED
    BY <1>2, <1>3

(* A sequence of two slots of which no call is on hold.                     *)
LEMMA BothUnheld ==
    ASSUME calls \in Seq(Slot), Len(calls) = 2
    PROVE  LET both == [i \in 1..2 |-> [calls[i] EXCEPT !.held = FALSE]]
           IN  both \in Seq(Slot) /\ Len(both) = 2
  <1> DEFINE both == [i \in 1..2 |-> [calls[i] EXCEPT !.held = FALSE]]
  <1>1. \A i \in 1..2: calls[i] \in Slot
    BY ElementOfSeq
  <1>2. \A i \in 1..2: [calls[i] EXCEPT !.held = FALSE] \in Slot
    BY <1>1 DEF Slot
  <1>3. both \in [1..2 -> Slot]
    BY <1>2
  <1> QED
    BY <1>3

LEMMA StartConferenceTyped ==
    ASSUME StateOK, StartConference
    PROVE  StateOK'
  <1>0. /\ calls \in Seq(Slot) /\ stack \in [Calls -> StackCall]
        /\ asks \in Nat /\ Len(calls) = 2 /\ DOMAIN calls = 1..2
        /\ attended \in 0..2 /\ focused \in 0..2 /\ failures \in Nat
        /\ sockets \subseteq Calls /\ Freed \subseteq Calls
    BY SlotTypes DEF StateOK, Freed, StartConference
  <1>1. stack' \in [Calls -> StackCall]
    <2>1. \A c \in Calls: stack[c] \in StackCall /\ Reinvited(stack[c], "resume") \in StackCall
      BY <1>0, StackAsks
    <2> QED
      BY <2>1 DEF StartConference, UnheldLegs
  <1>2. asks' \in Nat /\ UNCHANGED <<pendings, history, events>>
    BY <1>0 DEF StartConference
  <1> DEFINE both == {Id(1), Id(2)}
  <1>3. both \subseteq Calls
    BY <1>0, SlotTypes
  <1>4. CASE /\ both \cap Freed = {}
             /\ KeepAudio(both, Freed \cup both, 1)
             /\ calls' = [i \in 1..2 |-> [calls[i] EXCEPT !.held = FALSE]]
             /\ inConference' = TRUE
             /\ attended' = 0
             /\ UNCHANGED failures
    <2>1. calls' \in Seq(Slot) /\ Len(calls') = 2
      BY <1>0, <1>4, BothUnheld
    <2>2. /\ media' = both /\ sockets' = Freed \cup both /\ focused' = 1
          /\ attended' = 0 /\ failures' = failures
          /\ inConference' = TRUE
      BY <1>4 DEF KeepAudio
    <2>3. /\ media' \subseteq Calls /\ sockets' \subseteq Calls
          /\ inConference' \in BOOLEAN /\ failures' \in Nat
      BY <1>0, <1>3, <2>2
    <2>4. focused' \in 0..Len(calls') /\ attended' \in 0..Len(calls')
      BY <2>1, <2>2
    <2> QED
      BY <1>1, <1>2, <2>1, <2>3, <2>4 DEF StateOK, pendings
  <1>5. CASE /\ EngineFails(both \cap Freed # {})
             /\ KeepAudio({}, Freed, focused)
             /\ UNCHANGED <<calls, inConference, attended>>
    <2>1. failures' \in Nat
      BY <1>0, <1>5 DEF EngineFails
    <2>2. media' \subseteq Calls /\ sockets' \subseteq Calls /\ focused' = focused
      BY <1>0, <1>5 DEF KeepAudio
    <2> QED
      BY <1>0, <1>1, <1>2, <1>5, <2>1, <2>2 DEF StateOK, pendings
  <1> QED
    BY <1>4, <1>5 DEF StartConference

LEMMA UserActsTyped ==
    ASSUME StateOK, UserActs
    PROVE  StateOK'
  BY DialsTyped, TransfersTyped, AnswersTyped, HangUpTyped, HoldSlotTyped, SwapToTyped,
     StartConferenceTyped DEF UserActs

(* Reactions: everything but `events` and `asks` is the reaction's.         *)
LEMMA OnIncomingCallTyped ==
    ASSUME StateOK, NEW c \in InCalls, OnIncomingCall(c),
           events' \in [Calls -> Seq(Event)], asks' = asks
    PROVE  StateOK'
  <1>0. stack \in [Calls -> StackCall] /\ c \in Calls
    BY DEF StateOK, Calls
  <1>1. UNCHANGED <<calls, focused, media, sockets, failures, pendingOutbound,
                    pendingAccept, attended, inConference>>
    BY DEF OnIncomingCall, audio
  <1>2. /\ stack' \in [Calls -> StackCall] /\ history' \in [Calls -> Nat]
        /\ pendingCall' \in InCalls \cup {NoCall}
    <2>1. CASE /\ stack' = [stack EXCEPT ![c] = Declined(@)]
               /\ Record(c)
               /\ UNCHANGED pendingCall
      BY <1>0, <2>1, StackTypes, RecordTyped DEF StateOK
    <2>2. CASE /\ stack' = [stack EXCEPT ![c] = Becomes(@, "ringing", "busy")]
               /\ UNCHANGED <<pendingCall, history>>
      BY <1>0, <2>2, StackStarts DEF StateOK
    <2>3. CASE /\ pendingCall' = c
               /\ UNCHANGED <<stack, history>>
      BY <1>0, <2>3 DEF StateOK
    <2> QED
      BY <2>1, <2>2, <2>3 DEF OnIncomingCall
  <1> QED
    BY <1>1, <1>2 DEF StateOK

(* A call is shown connected, with a focus that is one of the slots.        *)
LEMMA ConnectTyped ==
    ASSUME StateOK, NEW c \in Calls, OnCallConnected(c),
           events' \in [Calls -> Seq(Event)], asks' = asks
    PROVE  StateOK'
  <1>0. /\ calls \in Seq(Slot) /\ stack \in [Calls -> StackCall]
        /\ Len(calls) \in Nat /\ DOMAIN calls = 1..Len(calls)
        /\ attended \in 0..Len(calls) /\ focused \in 0..Len(calls)
        /\ media \subseteq Calls /\ sockets \subseteq Calls /\ Freed \subseteq Calls
    BY SlotTypes DEF StateOK, Freed
  <1>1. UNCHANGED <<attended, inConference, history>>
    BY DEF OnCallConnected
  <1>2. CASE OnAcceptedConnected(c)
    <2>1. /\ pendingAccept' = NoCall
          /\ UNCHANGED <<pendingOutbound, pendingCall>>
      BY <1>2 DEF OnAcceptedConnected
    <2>2. CASE focused = 0
      <3>1. /\ calls' = Push(c, c) /\ stack' = stack
            /\ StartMedia(Len(calls) + 1, c, media, sockets, 0)
        BY <1>2, <2>2 DEF OnAcceptedConnected
      <3>2. calls' \in Seq(Slot) /\ Len(calls') = Len(calls) + 1
        BY <1>0, <3>1, SlotTypes
      <3>3. /\ media' \subseteq Calls /\ sockets' \subseteq Calls
            /\ focused' \in {Len(calls) + 1, 0} /\ failures' \in Nat
        BY <1>0, <3>1, StartMediaTyped
      <3>4. focused' \in 0..Len(calls') /\ attended' \in 0..Len(calls')
        BY <1>0, <1>1, <3>2, <3>3
      <3> QED
        BY <1>0, <1>1, <2>1, <3>1, <3>2, <3>3, <3>4 DEF StateOK
    <2>3. CASE focused # 0
      <3> DEFINE kept == WithHeld(focused, TRUE)
      <3>1. /\ calls' = Append(kept, [id |-> c, uri |-> c, held |-> FALSE])
            /\ stack' = Hold(focused, stack)
            /\ StartMedia(Len(calls) + 1, c, {}, Freed, 0)
        BY <1>2, <2>3 DEF OnAcceptedConnected
      <3>2. focused \in DOMAIN calls
        BY <1>0, <2>3
      <3>3. kept \in Seq(Slot) /\ Len(kept) = Len(calls)
        BY <1>0, <3>2, SlotTypes
      <3> HIDE DEF kept
      <3>4. [id |-> c, uri |-> c, held |-> FALSE] \in Slot
        BY DEF Slot
      <3>5. calls' \in Seq(Slot) /\ Len(calls') = Len(calls) + 1
        BY <3>1, <3>3, <3>4, AppendProperties
      <3>6. stack' \in [Calls -> StackCall]
        BY <1>0, <3>1, <3>2, SlotTypes, StackAsks DEF Hold
      <3>7. /\ media' \subseteq Calls /\ sockets' \subseteq Calls
            /\ focused' \in {Len(calls) + 1, 0} /\ failures' \in Nat
        BY <1>0, <3>1, StartMediaTyped
      <3>8. focused' \in 0..Len(calls') /\ attended' \in 0..Len(calls')
        BY <1>0, <1>1, <3>5, <3>7
      <3> QED
        BY <1>0, <1>1, <2>1, <3>5, <3>6, <3>7, <3>8 DEF StateOK
    <2> QED
      BY <2>2, <2>3
  <1>3. CASE pendingOutbound # NoCall /\ OnDialledConnected(c)
    <2>1. /\ pendingOutbound' = NoCall
          /\ calls' = Push(c, pendingOutbound)
          /\ StartMedia(Len(calls) + 1, c, media, sockets, focused)
          /\ UNCHANGED <<stack, pendingCall, pendingAccept>>
      BY <1>3 DEF OnDialledConnected
    <2>2. calls' \in Seq(Slot) /\ Len(calls') = Len(calls) + 1
      BY <1>0, <1>3, <2>1, SlotTypes, PendingIsACall
    <2>3. /\ media' \subseteq Calls /\ sockets' \subseteq Calls
          /\ focused' \in {Len(calls) + 1, focused} /\ failures' \in Nat
      BY <1>0, <2>1, StartMediaTyped
    <2>4. focused' \in 0..Len(calls') /\ attended' \in 0..Len(calls')
      BY <1>0, <1>1, <2>2, <2>3
    <2> QED
      BY <1>0, <1>1, <2>1, <2>2, <2>3, <2>4 DEF StateOK
  <1>4. CASE UNCHANGED <<calls, audio, pendings, stack>>
    BY <1>1, <1>4 DEF StateOK, audio, pendings
  <1> QED
    BY <1>2, <1>3, <1>4 DEF OnCallConnected

LEMMA EndTyped ==
    ASSUME StateOK, NEW c \in Calls, OnCallEnded(c),
           events' \in [Calls -> Seq(Event)], asks' = asks
    PROVE  StateOK'
  <1>0. stack' = stack
    BY DEF OnCallEnded
  <1>1. CASE EndsPendingCall(c) \/ EndsPendingAccept(c)
    <2>1. history' \in [Calls -> Nat]
      BY <1>1, RecordTyped DEF EndsPendingCall, EndsPendingAccept
    <2> QED
      BY <1>0, <1>1, <2>1
      DEF EndsPendingCall, EndsPendingAccept, StateOK, audio
  <1>2. CASE EndsSlot(c)
    <2>1. PICK i \in SlotsOf(c): RemoveCall(i) /\ Record(calls[i].uri)
      BY <1>2 DEF EndsSlot
    <2>2. i \in DOMAIN calls
      BY DEF SlotsOf
    <2>3. calls[i].uri \in Calls
      BY <2>2, SlotTypes DEF StateOK
    <2>4. history' \in [Calls -> Nat]
      BY <2>1, <2>3, RecordTyped
    <2>5. UNCHANGED pendings
      BY <1>2 DEF EndsSlot
    <2> QED
      BY <1>0, <2>1, <2>2, <2>4, <2>5, RemoveCallTyped DEF StateOK, pendings
  <1>3. CASE EndsPendingOutbound(c)
    <2>1. history' \in [Calls -> Nat] /\ pendingOutbound' \in OutCalls \cup {NoCall}
      <3>1. CASE pendingOutbound = NoCall
        BY <1>3, <3>1 DEF EndsPendingOutbound, StateOK
      <3>2. CASE pendingOutbound # NoCall
        BY <1>3, <3>2, RecordTyped, PendingIsACall DEF EndsPendingOutbound
      <3> QED
        BY <3>1, <3>2
    <2> QED
      BY <1>0, <1>3, <2>1 DEF EndsPendingOutbound, StateOK, audio
  <1> QED
    BY <1>1, <1>2, <1>3 DEF OnCallEnded

LEMMA HeldTyped ==
    ASSUME StateOK, NEW c \in Calls, NEW held \in BOOLEAN, OnHeld(c, held),
           events' \in [Calls -> Seq(Event)], asks' = asks
    PROVE  StateOK'
  <1>0. /\ calls \in Seq(Slot) /\ Len(calls) \in Nat
        /\ DOMAIN calls = 1..Len(calls)
    BY SlotTypes DEF StateOK
  <1>1. \A i \in 1..Len(calls): calls[i] \in Slot
    BY <1>0, ElementOfSeq
  <1>2. \A i \in 1..Len(calls): [calls[i] EXCEPT !.held = held] \in Slot
    BY <1>1 DEF Slot
  <1>3. calls' \in [1..Len(calls) -> Slot]
    BY <1>0, <1>1, <1>2 DEF OnHeld
  <1>4. calls' \in Seq(Slot) /\ Len(calls') = Len(calls)
    BY <1>0, <1>3
  <1> QED
    BY <1>4 DEF OnHeld, StateOK, audio, pendings

LEMMA TransferAnswerTyped ==
    ASSUME StateOK, OnTransferAccepted \/ OnTransferFailed,
           events' \in [Calls -> Seq(Event)], asks' = asks
    PROVE  StateOK'
  <1>0. attended' = 0
    BY DEF OnTransferAccepted, OnTransferFailed
  <1>1. CASE KeepBoth
    <2>1. 0 \in 0..Len(calls)
      BY SlotTypes DEF StateOK
    <2> QED
      BY <1>0, <1>1, <2>1 DEF KeepBoth, StateOK, audio, pendings
  <1>2. CASE HangUpBoth(TRUE)
    <2>1. stack' \in [Calls -> StackCall]
      BY <1>2, StackAsks DEF HangUpBoth, StateOK
    <2>2. history' \in [Calls -> Nat]
      <3>1. \A d \in Calls: Cardinality({i \in DOMAIN calls: calls[i].uri = d}) \in Nat
        <4>1. SUFFICES ASSUME NEW d \in Calls
              PROVE Cardinality({i \in DOMAIN calls: calls[i].uri = d}) \in Nat
          OBVIOUS
        <4>2. DOMAIN calls = 1..Len(calls) /\ Len(calls) \in Nat
          BY SlotTypes DEF StateOK
        <4>3. IsFiniteSet(1..Len(calls))
          BY <4>2, FS_Interval
        <4>4. IsFiniteSet({i \in DOMAIN calls: calls[i].uri = d})
          BY <4>2, <4>3, FS_Subset
        <4> QED
          BY <4>4, FS_CardinalityType
      <3>2. \A d \in Calls:
              history[d] + Cardinality({i \in DOMAIN calls: calls[i].uri = d}) \in Nat
        <4>1. \A d \in Calls: history[d] \in Nat
          BY DEF StateOK
        <4>2. \A m, n \in Nat: m + n \in Nat
          OBVIOUS
        <4> QED
          BY ONLY <3>1, <4>1, <4>2, Zenon
      <3>3. history' = [d \in Calls |->
              history[d] + Cardinality({i \in DOMAIN calls: calls[i].uri = d})]
        BY <1>2 DEF HangUpBoth
      <3> QED
        BY <3>2, <3>3
    <2>3. /\ calls' = <<>> /\ inConference' = FALSE
          /\ media' = {} /\ sockets' = Freed /\ focused' = 0
          /\ UNCHANGED <<failures, pendings>>
      BY <1>2 DEF HangUpBoth, KeepAudio
    <2>4. calls' \in Seq(Slot) /\ 0 \in 0..Len(calls')
      BY <2>3
    <2> QED
      BY <1>0, <2>1, <2>2, <2>3, <2>4 DEF StateOK, pendings, Freed
  <1> QED
    BY <1>1, <1>2 DEF OnTransferAccepted, OnTransferFailed

-----------------------------------------------------------------------------
(* The types of every state.  Only a call that comes in is announced.       *)

Announced ==
    \A c \in Calls: \A i \in DOMAIN events[c]:
        events[c][i] = "IncomingCall" => c \in InCalls

Typed == StateOK /\ PastOK /\ Announced

LEMMA EventTaken ==
    ASSUME StateOK, NEW c \in Calls, events[c] # <<>>
    PROVE  /\ events[c] \in Seq(Event) /\ Len(events[c]) \in Nat \ {0}
           /\ Head(events[c]) = events[c][1] /\ 1 \in DOMAIN events[c]
           /\ Head(events[c]) \in Event
           /\ Tail(events[c]) \in Seq(Event)
           /\ DOMAIN events[c] = 1..Len(events[c])
           /\ DOMAIN Tail(events[c]) = 1..Len(events[c]) - 1
           /\ \A i \in DOMAIN Tail(events[c]):
                /\ i + 1 \in DOMAIN events[c]
                /\ Tail(events[c])[i] = events[c][i + 1]
  <1> DEFINE s == events[c]
  <1>1. s \in Seq(Event) /\ s # <<>>
    BY DEF StateOK
  <1> HIDE DEF s
  <1>2. /\ Len(s) \in Nat \ {0} /\ DOMAIN s = 1..Len(s)
        /\ Head(s) \in Event /\ Tail(s) \in Seq(Event) /\ Len(Tail(s)) = Len(s) - 1
        /\ \A i \in 1..Len(Tail(s)): Tail(s)[i] = s[i + 1]
    BY <1>1, EmptySeq, LenProperties, HeadTailProperties
  <1>3. Head(s) = s[1] /\ 1 \in DOMAIN s
    BY <1>1, <1>2
  <1>4. DOMAIN Tail(s) = 1..Len(s) - 1
    BY <1>2, LenProperties
  <1>5. \A i \in DOMAIN Tail(s): i + 1 \in DOMAIN s /\ Tail(s)[i] = s[i + 1]
    BY <1>2, <1>4
  <1> QED
    BY <1>1, <1>2, <1>3, <1>4, <1>5 DEF s

LEMMA EventPosted ==
    ASSUME StateOK, NEW c \in Calls, NEW e \in Event, Emit(c, <<e>>)
    PROVE  /\ events' \in [Calls -> Seq(Event)]
           /\ \A d \in Calls \ {c}: events'[d] = events[d]
           /\ events'[c] \in Seq(Event)
           /\ DOMAIN events[c] = 1..Len(events[c]) /\ Len(events[c]) \in Nat
           /\ DOMAIN events'[c] = 1..Len(events[c]) + 1
           /\ \A i \in 1..Len(events[c]): events'[c][i] = events[c][i]
           /\ events'[c][Len(events[c]) + 1] = e
  <1> DEFINE s == events[c]
             t == s \o <<e>>
  <1>1. s \in Seq(Event) /\ <<e>> \in Seq(Event)
    BY DEF StateOK
  <1>2. Len(<<e>>) = 1 /\ <<e>>[1] = e
    OBVIOUS
  <1> HIDE DEF s
  <1>3. Len(s) \in Nat /\ DOMAIN s = 1..Len(s)
    BY <1>1, LenProperties
  <1>4. /\ t \in Seq(Event) /\ Len(t) = Len(s) + 1
        /\ \A i \in 1..Len(s) + 1: t[i] = IF i <= Len(s) THEN s[i] ELSE <<e>>[i - Len(s)]
    BY <1>1, <1>2, ConcatProperties
  <1>5. /\ DOMAIN t = 1..Len(s) + 1
        /\ \A i \in 1..Len(s): t[i] = s[i]
        /\ t[Len(s) + 1] = e
    BY <1>2, <1>3, <1>4, LenProperties
  <1>6. events' = [events EXCEPT ![c] = t]
    BY DEF Emit, s
  <1> HIDE DEF t
  <1>7. events'[c] = t /\ events' \in [Calls -> Seq(Event)]
        /\ \A d \in Calls \ {c}: events'[d] = events[d]
    BY <1>4, <1>6 DEF StateOK
  <1> QED
    BY <1>3, <1>4, <1>5, <1>7 DEF s

LEMMA HandleEventTyped ==
    ASSUME Typed, NEW c \in Calls, HandleEvent(c)
    PROVE  Typed'
  <1>0. StateOK /\ events[c] # <<>>
    BY DEF Typed, HandleEvent
  <1>1. /\ Head(events[c]) = events[c][1] /\ 1 \in DOMAIN events[c]
        /\ Tail(events[c]) \in Seq(Event)
        /\ \A i \in DOMAIN Tail(events[c]):
             /\ i + 1 \in DOMAIN events[c]
             /\ Tail(events[c])[i] = events[c][i + 1]
    BY <1>0, EventTaken
  <1>2. /\ events' = [events EXCEPT ![c] = Tail(@)]
        /\ React(c, Head(events[c])) /\ asks' = asks
    BY DEF HandleEvent
  <1>3. events' \in [Calls -> Seq(Event)]
    BY <1>0, <1>1, <1>2 DEF StateOK
  <1>4. Announced'
    <2>1. SUFFICES ASSUME NEW d \in Calls, NEW i \in DOMAIN events'[d],
                          events'[d][i] = "IncomingCall"
          PROVE d \in InCalls
      BY DEF Announced
    <2>2. CASE d = c
      <3>1. events'[d] = Tail(events[c])
        BY <1>0, <1>2, <2>2 DEF StateOK
      <3>2. i + 1 \in DOMAIN events[c] /\ events[c][i + 1] = "IncomingCall"
        BY <1>1, <2>1, <3>1
      <3> QED
        BY <2>2, <3>2 DEF Typed, Announced
    <2>3. CASE d # c
      <3>1. events'[d] = events[d]
        BY <1>0, <1>2, <2>3 DEF StateOK
      <3> QED
        BY <2>1, <3>1 DEF Typed, Announced
    <2> QED
      BY <2>2, <2>3
  <1>5. Head(events[c]) = "IncomingCall" => c \in InCalls
    BY <1>1 DEF Typed, Announced
  <1>6. StateOK'
    <2>1. CASE Head(events[c]) = "IncomingCall" /\ OnIncomingCall(c)
      BY <1>0, <1>2, <1>3, <1>5, <2>1, OnIncomingCallTyped
    <2>2. CASE OnCallConnected(c)
      BY <1>0, <1>2, <1>3, <2>2, ConnectTyped
    <2>3. CASE OnCallEnded(c)
      BY <1>0, <1>2, <1>3, <2>3, EndTyped
    <2>4. CASE OnHeld(c, TRUE) \/ OnHeld(c, FALSE)
      BY <1>0, <1>2, <1>3, <2>4, HeldTyped
    <2>5. CASE OnTransferAccepted \/ OnTransferFailed
      BY <1>0, <1>2, <1>3, <2>5, TransferAnswerTyped
    <2> QED
      BY <1>2, <2>1, <2>2, <2>3, <2>4, <2>5 DEF React
  <1>7. PastOK'
    <2>1. /\ crossed' = (crossed \/ Crosses(c, Head(events[c])))
          /\ mistaken' = mistaken \cup Mistakes(c, Head(events[c]))
      BY DEF HandleEvent
    <2>2. Mistakes(c, Head(events[c])) \subseteq OutCalls
      BY <1>0 DEF StateOK, Mistakes
    <2>3. Crosses(c, Head(events[c])) \in BOOLEAN
      BY DEF Crosses
    <2> QED
      BY <2>1, <2>2, <2>3 DEF Typed, PastOK
  <1> QED
    BY <1>4, <1>6, <1>7 DEF Typed

(* A step of the stack: one call of it moves, and tells its client.         *)
LEMMA StackMove ==
    ASSUME StateOK, NEW c \in Calls, StackActs(c)
    PROVE  /\ UNCHANGED Client
           /\ stack' \in [Calls -> StackCall]
           /\ \A d \in Calls \ {c}: stack'[d] = stack[d]
           /\ \E e \in Event: Emit(c, <<e>>) /\ (e = "IncomingCall" => c \in InCalls)
  <1>0. stack \in [Calls -> StackCall] /\ stack[c] \in StackCall
    BY DEF StateOK
  <1>1. UNCHANGED Client
    BY DEF StackActs
  <1>2. CASE StackRings(c)
    BY <1>0, <1>1, <1>2, StackStarts DEF StackRings, Event
  <1>3. CASE StackConnects(c)
    BY <1>0, <1>1, <1>3, StackStarts DEF StackConnects, Event
  <1>4. CASE StackEnds(c)
    BY <1>0, <1>1, <1>4, StackAsks DEF StackEnds, Event
  <1>5. CASE StackReinvited(c)
    <2> DEFINE told == IF stack[c].holdPending = "resume" THEN "CallResumed" ELSE "CallHeld"
               s == [stack[c] EXCEPT !.reinvites = @ - 1, !.holdPending = "none"]
    <2>1. Emit(c, <<told>>) /\ told \in Event /\ told # "IncomingCall"
      BY <1>5 DEF StackReinvited, Event
    <2>2. s \in StackCall
      BY <1>0, <1>5, StackAsks DEF StackReinvited
    <2>3. stack' = [stack EXCEPT ![c] = s]
      BY <1>0, <1>5 DEF StackReinvited
    <2> HIDE DEF s
    <2>4. stack' \in [Calls -> StackCall] /\ \A d \in Calls \ {c}: stack'[d] = stack[d]
      BY <1>0, <2>2, <2>3
    <2> QED
      BY <1>1, <2>1, <2>4
  <1>6. CASE StackReferred(c)
    <2>1. \E e \in {"TransferAccepted", "TransferFailed"}: Emit(c, <<e>>)
      BY <1>6 DEF StackReferred
    <2>2. [stack[c] EXCEPT !.refers = @ - 1] \in StackCall
      BY <1>0, <1>6, StackAsks DEF StackReferred
    <2>3. stack' = [stack EXCEPT ![c] = [stack[c] EXCEPT !.refers = @ - 1]]
      BY <1>0, <1>6 DEF StackReferred
    <2>4. stack' \in [Calls -> StackCall] /\ \A d \in Calls \ {c}: stack'[d] = stack[d]
      BY <1>0, <2>2, <2>3
    <2> QED
      BY <1>1, <2>1, <2>4 DEF Event
  <1> QED
    BY <1>2, <1>3, <1>4, <1>5, <1>6 DEF StackActs

LEMMA StackActsTyped ==
    ASSUME Typed, NEW c \in Calls, StackActs(c)
    PROVE  Typed'
  <1>0. StateOK
    BY DEF Typed
  <1>1. /\ UNCHANGED Client /\ stack' \in [Calls -> StackCall]
    BY <1>0, StackMove
  <1>2. PICK e \in Event: Emit(c, <<e>>) /\ (e = "IncomingCall" => c \in InCalls)
    BY <1>0, StackMove
  <1>3. /\ events' \in [Calls -> Seq(Event)]
        /\ \A d \in Calls \ {c}: events'[d] = events[d]
        /\ DOMAIN events[c] = 1..Len(events[c]) /\ Len(events[c]) \in Nat
        /\ DOMAIN events'[c] = 1..Len(events[c]) + 1
        /\ \A i \in 1..Len(events[c]): events'[c][i] = events[c][i]
        /\ events'[c][Len(events[c]) + 1] = e
    BY <1>0, <1>2, EventPosted
  <1>4. StateOK'
    BY <1>0, <1>1, <1>3 DEF StateOK, Client, audio, pendings
  <1>5. Announced'
    <2>1. SUFFICES ASSUME NEW d \in Calls, NEW i \in DOMAIN events'[d],
                          events'[d][i] = "IncomingCall"
          PROVE d \in InCalls
      BY DEF Announced
    <2>2. CASE d = c /\ i = Len(events[c]) + 1
      BY <1>2, <1>3, <2>1, <2>2
    <2>3. CASE d = c /\ i # Len(events[c]) + 1
      <3>1. i \in 1..Len(events[c])
        BY <1>3, <2>1, <2>3
      <3> QED
        BY <1>3, <2>1, <2>3, <3>1 DEF Typed, Announced
    <2>4. CASE d # c
      BY <1>3, <2>1, <2>4 DEF Typed, Announced
    <2> QED
      BY <2>2, <2>3, <2>4
  <1>6. PastOK'
    BY <1>1 DEF Typed, PastOK, Client, past
  <1> QED
    BY <1>4, <1>5, <1>6 DEF Typed

LEMMA UserLeavesEvents == UserActs => UNCHANGED events
  BY DEF UserActs, Dial, AttendedTransferDial, CompleteAttendedTransfer, BlindTransfer,
         Accept, Reject, HangUp, HoldSlot, SwapTo, StartConference

LEMMA TypedInductive == Typed /\ [Next]_vars => Typed'
  <1> SUFFICES ASSUME Typed, [Next]_vars PROVE Typed'
    OBVIOUS
  <1>1. CASE UserActs /\ UNCHANGED past
    BY <1>1, UserActsTyped, UserLeavesEvents DEF Typed, Announced, PastOK, past
  <1>2. CASE \E c \in Calls: HandleEvent(c)
    BY <1>2, HandleEventTyped
  <1>3. CASE \E c \in Calls: StackActs(c)
    BY <1>3, StackActsTyped
  <1>4. CASE UNCHANGED vars
    BY <1>4
    DEF Typed, StateOK, PastOK, Announced, vars, audio, pendings, past
  <1> QED
    BY <1>1, <1>2, <1>3, <1>4 DEF Next

LEMMA TypedAlways == Spec => []Typed
  <1>1. Init => Typed
    <2>1. Init => PastOK
      BY DEF Init, PastOK
    <2>2. Init => Announced
      BY DEF Init, Announced
    <2> QED
      BY <2>1, <2>2, InitTyped DEF Typed
  <1> QED
    BY <1>1, TypedInductive, PTL DEF Spec

(* Every variable keeps its type: the focus and the leg of a transfer are   *)
(* slots that exist, whichever slot is removed, by the user or by the end   *)
(* of its call; `focused_call` is indexed into `calls` without a check      *)
(* (media.rs, call_actions.rs).                                             *)
THEOREM TypeCorrect == Spec => []TypeOK
  <1>1. Typed => TypeOK
    BY DEF Typed, StateOK, PastOK, TypeOK
  <1> QED
    BY <1>1, TypedAlways, PTL

(* An accept that is asked for, or that fails, disturbs no other call,      *)
(* whatever the user does at the same time.                                 *)
THEOREM AcceptsAreQuiet == Spec => AcceptDisturbsNothing
  <1>1. ASSUME Typed, [Next]_vars, pendingAccept' # pendingAccept,
               Len(calls') = Len(calls)
        PROVE  /\ UNCHANGED <<calls, focused, media>>
               /\ \A c \in Calls: stack'[c].dir = stack[c].dir
    <2>0. calls \in Seq(Slot) /\ Len(calls) \in Nat
          /\ pendingCall \in InCalls \cup {NoCall} /\ stack \in [Calls -> StackCall]
      BY <1>1, SlotTypes DEF Typed, StateOK
    <2>1. CASE UserActs /\ UNCHANGED past
      <3>1. Accept
        BY <1>1, <2>1
        DEF UserActs, Dial, AttendedTransferDial, CompleteAttendedTransfer, BlindTransfer,
            Reject, HangUp, HoldSlot, SwapTo, StartConference, pendings
      <3>2. pendingCall \in Calls
        BY <1>1, <3>1, PendingIsACall DEF Accept, Typed
      <3>3. \A s \in StackCall: Accepted(s).dir = s.dir
        BY DEF Accepted, Becomes, StackCall
      <3>4. \A c \in Calls: stack'[c].dir = stack[c].dir
        BY <2>0, <3>1, <3>2, <3>3 DEF Accept
      <3> QED
        BY <3>1, <3>4 DEF Accept, audio
    <2>2. CASE \E c \in Calls: HandleEvent(c)
      <3>1. PICK c \in Calls: React(c, Head(events[c]))
        BY <2>2 DEF HandleEvent
      <3>2. CASE EndsPendingAccept(c) /\ stack' = stack
        BY <3>2 DEF EndsPendingAccept, audio
      <3>3. CASE OnAcceptedConnected(c)
        <4>1. CASE focused = 0
          BY <1>1, <2>0, <3>3, <4>1, SlotTypes DEF OnAcceptedConnected
        <4>2. CASE focused # 0
          <5> DEFINE kept == WithHeld(focused, TRUE)
                     new == [id |-> c, uri |-> c, held |-> FALSE]
          <5>1. focused \in DOMAIN calls
            BY <1>1, <2>0, <4>2, SlotTypes DEF Typed, StateOK
          <5>2. kept \in Seq(Slot) /\ Len(kept) = Len(calls)
            BY <2>0, <5>1, SlotTypes
          <5>3. new \in Slot
            BY DEF Slot
          <5>4. calls' = Append(kept, new)
            BY <3>3, <4>2 DEF OnAcceptedConnected
          <5> HIDE DEF kept, new
          <5>5. Len(calls') = Len(calls) + 1
            BY <5>2, <5>3, <5>4, AppendProperties
          <5> QED
            BY <1>1, <2>0, <5>5
        <4> QED
          BY <4>1, <4>2
      <3>4. CASE OnCallConnected(c) /\ ~OnAcceptedConnected(c)
        BY <1>1, <3>4 DEF OnCallConnected, OnDialledConnected, pendings
      <3>5. CASE OnCallEnded(c) /\ ~EndsPendingAccept(c)
        BY <1>1, <3>5
        DEF OnCallEnded, EndsPendingCall, EndsSlot, EndsPendingOutbound, pendings
      <3>6. CASE OnIncomingCall(c) \/ OnHeld(c, TRUE) \/ OnHeld(c, FALSE)
                 \/ OnTransferAccepted \/ OnTransferFailed
        BY <1>1, <3>6
        DEF OnIncomingCall, OnHeld, OnTransferAccepted, OnTransferFailed, HangUpBoth,
            KeepBoth, pendings
      <3> QED
        BY <3>1, <3>2, <3>3, <3>4, <3>5, <3>6 DEF React, OnCallEnded
    <2>3. CASE \E c \in Calls: StackActs(c)
      BY <1>1, <2>3 DEF StackActs, Client, pendings
    <2>4. CASE UNCHANGED vars
      BY <1>1, <2>4 DEF vars, pendings
    <2> QED
      BY <1>1, <2>1, <2>2, <2>3, <2>4 DEF Next
  <1> QED
    BY <1>1, TypedAlways, PTL DEF Spec, AcceptDisturbsNothing

-----------------------------------------------------------------------------
(* Who hears the microphone.                                                *)
(*                                                                          *)
(* The audio follows the focus because no engine is ever overwritten: a     *)
(* call comes up beside a focused one only if it was accepted, and then the *)
(* engine is stopped first, and beside a conference none comes up; a call   *)
(* that comes up elsewhere crosses the others.                              *)

Room == inConference => Len(calls) = 2 /\ focused = 1

Hearers == IF focused = 0 THEN {}
           ELSE IF inConference THEN {Id(i): i \in DOMAIN calls}
           ELSE {Id(focused)}

Follows == /\ sockets = media
           /\ media = Hearers \/ (media = {} /\ failures > 0)

AudioInOrder == Room /\ Follows

(* An engine started where no engine is and no port is bound.               *)
LEMMA CleanStart ==
    ASSUME StateOK, NEW i, NEW c, NEW f, StartMedia(i, c, {}, {}, f)
    PROVE  /\ sockets' = media' /\ failures' \in Nat
           /\ \/ media' = {c} /\ focused' = i /\ failures' = failures
              \/ media' = {} /\ focused' = f /\ failures' > 0
  <1>1. CASE KeepAudio({c}, {} \cup {c}, i) /\ UNCHANGED failures
    BY <1>1 DEF KeepAudio, StateOK
  <1>2. CASE EngineFails(c \in {}) /\ KeepAudio({}, {}, f)
    BY <1>2 DEF KeepAudio, EngineFails, StateOK
  <1> QED
    BY <1>1, <1>2 DEF StartMedia

LEMMA Quieted ==
    ASSUME Follows
    PROVE  /\ Freed = {}
           /\ focused = 0 => media = {} /\ sockets = {}
           /\ sockets = media /\ (media = Hearers \/ (media = {} /\ failures > 0))
  BY DEF Follows, Freed, Hearers

LEMMA StillHeard ==
    ASSUME Follows,
           UNCHANGED <<focused, inConference, media, sockets, failures>>,
           DOMAIN calls' = DOMAIN calls,
           focused # 0 => focused \in DOMAIN calls,
           \A i \in DOMAIN calls: calls'[i].id = calls[i].id
    PROVE  Follows'
  <1>1. Hearers' = Hearers
    <2>1. {calls'[i].id: i \in DOMAIN calls'} = {calls[i].id: i \in DOMAIN calls}
      OBVIOUS
    <2>2. focused # 0 => calls'[focused].id = calls[focused].id
      OBVIOUS
    <2> QED
      BY <2>1, <2>2 DEF Hearers, Id
  <1>2. sockets' = media' /\ (media' = Hearers' \/ (media' = {} /\ failures' > 0))
    BY <1>1, Quieted
  <1> QED
    BY <1>2 DEF Follows, Hearers

LEMMA RemoveCallHeard ==
    ASSUME StateOK, AudioInOrder, NEW i \in DOMAIN calls, RemoveCall(i)
    PROVE  AudioInOrder'
  <1>0. /\ Len(calls) \in Nat /\ DOMAIN calls = 1..Len(calls)
        /\ focused \in 0..Len(calls) /\ Follows /\ Room
        /\ Freed = {}
    BY SlotTypes, Quieted DEF StateOK, AudioInOrder
  <1>1. /\ calls' = RemoveAt(calls, i) /\ calls' \in Seq(Slot)
        /\ Len(calls') = Len(calls) - 1 /\ DOMAIN calls' = 1..Len(calls) - 1
        /\ \A j \in 1..Len(calls) - 1:
             calls'[j] = IF j < i THEN calls[j] ELSE calls[j + 1]
        /\ inConference' = FALSE
    BY RemoveCallAudio, Remaining
  <1>3. CASE ~inConference /\ focused = i
    <2>1. media' = {} /\ sockets' = Freed /\ focused' = 0
      BY <1>3, RemoveCallAudio
    <2> QED
      BY <1>0, <1>1, <2>1 DEF AudioInOrder, Room, Follows, Hearers
  <1>4. CASE ~inConference /\ focused # i
    <2>1. /\ media' = media /\ sockets' = sockets /\ failures' = failures
          /\ focused' = IF focused > i THEN focused - 1 ELSE focused
      BY <1>4, RemoveCallAudio
    <2>2. focused = 0 => focused' = 0
      BY <1>0, <2>1
    <2>3. focused # 0 => focused' # 0 /\ focused' \in 1..Len(calls) - 1
      BY <1>0, <1>4, <2>1
    <2>4. focused # 0 => calls'[focused'] = calls[focused]
      <3>1. CASE focused > i
        BY <1>0, <1>1, <2>1, <2>3, <3>1
      <3>2. CASE focused < i /\ focused # 0
        BY <1>0, <1>1, <2>1, <2>3, <3>2
      <3> QED
        BY <1>0, <1>4, <3>1, <3>2
    <2>5. Hearers' = Hearers
      BY <1>1, <1>4, <2>2, <2>3, <2>4 DEF Hearers, Id
    <2>6. Follows'
      <3>1. sockets' = media' /\ (media' = Hearers' \/ (media' = {} /\ failures' > 0))
        BY <1>0, <2>1, <2>5, Quieted
      <3> QED
        BY <3>1 DEF Follows, Hearers
    <2> QED
      BY <1>1, <2>6 DEF AudioInOrder, Room
  <1>5. CASE inConference
    <2>1. Len(calls) = 2
      BY <1>0, <1>5 DEF Room
    <2>2. StartMedia(1, calls'[1].id, {}, {}, 0)
      <3>1. Len(calls) # 1
        BY <2>1
      <3>2. StartMedia(1, calls'[1].id, {}, Freed, 0)
        BY <1>5, <3>1, RemoveCallAudio, Zenon
      <3> QED
        BY <1>0, <3>2, Zenon
    <2>3. /\ sockets' = media'
          /\ \/ media' = {calls'[1].id} /\ focused' = 1
             \/ media' = {} /\ focused' = 0 /\ failures' > 0
      BY <2>2, CleanStart
    <2>4. Follows'
      BY <1>1, <2>3 DEF Follows, Hearers, Id
    <2> QED
      BY <1>1, <2>4 DEF AudioInOrder, Room
  <1> QED
    BY <1>3, <1>4, <1>5

LEMMA WithHeldKeeps ==
    ASSUME StateOK, NEW i \in DOMAIN calls, NEW held \in BOOLEAN
    PROVE  /\ WithHeld(i, held) \in Seq(Slot)
           /\ Len(WithHeld(i, held)) = Len(calls)
           /\ DOMAIN WithHeld(i, held) = DOMAIN calls
           /\ \A j \in DOMAIN calls:
                /\ WithHeld(i, held)[j].id = calls[j].id
                /\ WithHeld(i, held)[j].uri = calls[j].uri
                /\ WithHeld(i, held)[j].held = IF j = i THEN held ELSE calls[j].held
  <1>1. /\ WithHeld(i, held) \in Seq(Slot)
        /\ Len(WithHeld(i, held)) = Len(calls)
    BY SlotTypes DEF StateOK
  <1>2. calls \in Seq(Slot) /\ \A j \in DOMAIN calls: calls[j] \in Slot
    BY SlotTypes, ElementOfSeq DEF StateOK
  <1>3. DOMAIN WithHeld(i, held) = DOMAIN calls
    BY DEF WithHeld
  <1>4. \A j \in DOMAIN calls:
          WithHeld(i, held)[j] = IF j = i THEN [calls[j] EXCEPT !.held = held] ELSE calls[j]
    BY DEF WithHeld
  <1>5. \A s \in Slot: /\ [s EXCEPT !.held = held].id = s.id
                       /\ [s EXCEPT !.held = held].uri = s.uri
                       /\ [s EXCEPT !.held = held].held = held
    BY DEF Slot
  <1> QED
    BY <1>1, <1>2, <1>3, <1>4, <1>5

LEMMA Appended ==
    ASSUME NEW s \in Seq(Slot), NEW c \in Calls, NEW uri \in Calls
    PROVE  LET t == Append(s, [id |-> c, uri |-> uri, held |-> FALSE])
           IN  /\ t \in Seq(Slot) /\ Len(t) = Len(s) + 1
               /\ DOMAIN t = 1..Len(s) + 1 /\ DOMAIN s = 1..Len(s) /\ Len(s) \in Nat
               /\ \A j \in 1..Len(s): t[j] = s[j]
               /\ t[Len(s) + 1] = [id |-> c, uri |-> uri, held |-> FALSE]
  <1> DEFINE new == [id |-> c, uri |-> uri, held |-> FALSE]
  <1>1. new \in Slot
    BY DEF Slot
  <1> HIDE DEF new
  <1>2. /\ Append(s, new) \in Seq(Slot) /\ Len(Append(s, new)) = Len(s) + 1
        /\ \A j \in 1..Len(s): Append(s, new)[j] = s[j]
        /\ Append(s, new)[Len(s) + 1] = new
    BY <1>1, AppendProperties
  <1>3. DOMAIN Append(s, new) = 1..Len(s) + 1 /\ DOMAIN s = 1..Len(s) /\ Len(s) \in Nat
    BY <1>2, LenProperties
  <1> QED
    BY <1>2, <1>3 DEF new

LEMMA UnheldKeepsSlots ==
    ASSUME StateOK, Len(calls) = 2,
           calls' = [i \in 1..2 |-> [calls[i] EXCEPT !.held = FALSE]]
    PROVE  /\ calls' \in Seq(Slot) /\ Len(calls') = 2
           /\ DOMAIN calls = 1..2 /\ DOMAIN calls' = 1..2
           /\ \A i \in 1..2: /\ calls'[i].id = calls[i].id
                            /\ calls'[i].uri = calls[i].uri
                            /\ calls'[i].held = FALSE
  <1>1. calls \in Seq(Slot) /\ DOMAIN calls = 1..2
    BY SlotTypes DEF StateOK
  <1>2. calls' \in Seq(Slot) /\ Len(calls') = 2
    BY <1>1, BothUnheld
  <1>3. \A i \in 1..2: calls[i] \in Slot
    BY <1>1, ElementOfSeq
  <1>4. \A s \in Slot: /\ [s EXCEPT !.held = FALSE].id = s.id
                       /\ [s EXCEPT !.held = FALSE].uri = s.uri
                       /\ [s EXCEPT !.held = FALSE].held = FALSE
    BY DEF Slot
  <1>5. \A i \in 1..2: calls'[i] = [calls[i] EXCEPT !.held = FALSE]
    OBVIOUS
  <1>6. \A i \in 1..2: /\ calls'[i].id = calls[i].id
                       /\ calls'[i].uri = calls[i].uri
                       /\ calls'[i].held = FALSE
    BY <1>3, <1>4, <1>5, Zenon
  <1> QED
    BY <1>1, <1>2, <1>6

LEMMA SwapKeepsSlots ==
    ASSUME StateOK, NEW i \in DOMAIN calls, SwapTo(i)
    PROVE  /\ Len(calls') = Len(calls) /\ DOMAIN calls' = DOMAIN calls
           /\ \A j \in DOMAIN calls:
                /\ calls'[j].id = calls[j].id
                /\ calls'[j].uri = calls[j].uri
                /\ calls'[j].held = IF j = i THEN FALSE
                                    ELSE IF j = focused THEN TRUE ELSE calls[j].held
  <1>0. /\ calls \in Seq(Slot) /\ focused # i
        /\ (focused # 0 => focused \in DOMAIN calls)
        /\ focused = 0 => \A j \in DOMAIN calls: j # focused
    BY SlotTypes DEF StateOK, SwapTo
  <1>1. CASE focused = 0
    <2>1. calls' = WithHeld(i, FALSE)
      BY <1>1 DEF SwapTo
    <2>2. /\ Len(WithHeld(i, FALSE)) = Len(calls)
          /\ DOMAIN WithHeld(i, FALSE) = DOMAIN calls
          /\ \A j \in DOMAIN calls:
                /\ WithHeld(i, FALSE)[j].id = calls[j].id
                /\ WithHeld(i, FALSE)[j].uri = calls[j].uri
                /\ WithHeld(i, FALSE)[j].held = IF j = i THEN FALSE ELSE calls[j].held
      BY WithHeldKeeps
    <2> QED
      BY <1>0, <1>1, <2>1, <2>2
  <1>2. CASE focused # 0
    <2> DEFINE one == WithHeld(focused, TRUE)
    <2>1. /\ one \in Seq(Slot) /\ Len(one) = Len(calls) /\ DOMAIN one = DOMAIN calls
          /\ \A j \in DOMAIN calls:
                /\ one[j].id = calls[j].id
                /\ one[j].uri = calls[j].uri
                /\ one[j].held = IF j = focused THEN TRUE ELSE calls[j].held
      BY <1>0, <1>2, WithHeldKeeps
    <2>2. calls' = [one EXCEPT ![i].held = FALSE]
      BY <1>2 DEF SwapTo, WithHeld
    <2> HIDE DEF one
    <2>3. one[i] \in Slot /\ i \in 1..Len(one)
      BY <2>1, LenProperties, ElementOfSeq
    <2> DEFINE new == [one[i] EXCEPT !.held = FALSE]
    <2>4. new \in Slot /\ new.id = one[i].id /\ new.uri = one[i].uri /\ new.held = FALSE
      BY <2>3 DEF Slot
    <2>5. calls' = [one EXCEPT ![i] = new]
      BY <2>2
    <2> HIDE DEF new
    <2>6. /\ Len(calls') = Len(one) /\ calls' \in Seq(Slot)
          /\ \A j \in 1..Len(one): calls'[j] = IF j = i THEN new ELSE one[j]
      BY <2>1, <2>3, <2>4, <2>5, ExceptSeq
    <2>7. DOMAIN calls' = DOMAIN calls /\ DOMAIN calls = 1..Len(one)
      BY <2>1, <2>6, LenProperties
    <2> QED
      BY <1>0, <2>1, <2>4, <2>6, <2>7
  <1> QED
    BY <1>1, <1>2

LEMMA UserAudio ==
    ASSUME StateOK, AudioInOrder, UserActs
    PROVE  AudioInOrder'
  <1>0. /\ Len(calls) \in Nat /\ DOMAIN calls = 1..Len(calls)
        /\ focused \in 0..Len(calls) /\ Follows /\ Room
        /\ Freed = {} /\ (focused = 0 => media = {} /\ sockets = {})
        /\ (focused # 0 => focused \in DOMAIN calls)
    BY SlotTypes, Quieted DEF StateOK, AudioInOrder
  <1>1. CASE Dial \/ CompleteAttendedTransfer \/ BlindTransfer \/ Accept \/ Reject
    <2>1. UNCHANGED <<calls, audio, inConference>>
      BY <1>1
      DEF Dial, CompleteAttendedTransfer, BlindTransfer, Accept, Reject
    <2>2. Follows'
      BY <1>0, <2>1, StillHeard DEF audio
    <2> QED
      BY <1>0, <2>1, <2>2 DEF AudioInOrder, Room, audio
  <1>2. CASE AttendedTransferDial
    <2>1. Len(calls) = 1
      BY <1>2 DEF AttendedTransferDial
    <2>2. ~inConference
      BY <1>0, <2>1 DEF Room
    <2>3. /\ media' = {} /\ sockets' = {} /\ focused' = 0
          /\ inConference' = inConference
      BY <1>0, <1>2 DEF AttendedTransferDial, KeepAudio
    <2> QED
      BY <2>2, <2>3 DEF Follows, Hearers, Room, AudioInOrder
  <1>4. ASSUME NEW i \in DOMAIN calls, HangUp(i) PROVE AudioInOrder'
    BY <1>4, RemoveCallHeard DEF HangUp
  <1>5. ASSUME NEW i \in DOMAIN calls, HoldSlot(i) PROVE AudioInOrder'
    <2>1. /\ ~inConference /\ inConference' = inConference
          /\ media' = {} /\ sockets' = {} /\ focused' = 0
      BY <1>0, <1>5 DEF HoldSlot, KeepAudio
    <2> QED
      BY <2>1 DEF Follows, Hearers, Room, AudioInOrder
  <1>6. ASSUME NEW i \in DOMAIN calls, SwapTo(i) PROVE AudioInOrder'
    <2>1. ~inConference /\ inConference' = inConference
      BY <1>6 DEF SwapTo
    <2>2. StartMedia(i, Id(i), {}, {}, 0)
      BY <1>0, <1>6 DEF SwapTo
    <2>3. /\ sockets' = media'
          /\ \/ media' = {Id(i)} /\ focused' = i
             \/ media' = {} /\ focused' = 0 /\ failures' > 0
      BY <2>2, CleanStart
    <2>4. calls'[i].id = calls[i].id
      BY <1>6, SwapKeepsSlots
    <2>5. Follows'
      BY <1>0, <2>1, <2>3, <2>4 DEF Follows, Hearers, Id
    <2> QED
      BY <2>1, <2>5 DEF AudioInOrder, Room
  <1>7. CASE StartConference
    <2> DEFINE both == {Id(1), Id(2)}
    <2>1. Len(calls) = 2 /\ ~inConference
      BY <1>7 DEF StartConference
    <2>2. CASE /\ KeepAudio(both, Freed \cup both, 1)
               /\ calls' = [i \in 1..2 |-> [calls[i] EXCEPT !.held = FALSE]]
               /\ inConference' = TRUE
      <3>1. Len(calls') = 2 /\ DOMAIN calls' = 1..2
        BY <2>1, <2>2, UnheldKeepsSlots
      <3>2. calls'[1].id = Id(1) /\ calls'[2].id = Id(2)
        BY <2>1, <2>2, UnheldKeepsSlots DEF Id
      <3>3. media' = both /\ sockets' = both /\ focused' = 1
        BY <1>0, <2>2 DEF KeepAudio
      <3>4. {calls'[i].id: i \in DOMAIN calls'} = both
        BY <3>1, <3>2
      <3>5. Follows'
        BY <2>2, <3>3, <3>4 DEF Follows, Hearers, Id
      <3> QED
        BY <3>1, <3>3, <3>5 DEF AudioInOrder, Room
    <2>3. CASE /\ EngineFails(both \cap Freed # {})
               /\ KeepAudio({}, Freed, focused)
               /\ UNCHANGED <<calls, inConference, attended>>
      <3>1. media' = {} /\ sockets' = {} /\ focused' = focused /\ failures' > 0
        BY <1>0, <2>3 DEF KeepAudio, EngineFails, StateOK
      <3> QED
        BY <2>1, <2>3, <3>1 DEF Follows, Room, AudioInOrder
    <2> QED
      BY <1>7, <2>2, <2>3 DEF StartConference
  <1> QED
    BY <1>1, <1>2, <1>4, <1>5, <1>6, <1>7 DEF UserActs

(* CallConnected, as the slots see it: one more, of the call and with the   *)
(* name of `uri`, the last, and no other slot takes another's place.        *)
Shows(c, uri) ==
    /\ Len(calls') = Len(calls) + 1 /\ DOMAIN calls' = 1..Len(calls) + 1
    /\ calls'[Len(calls) + 1] = [id |-> c, uri |-> uri, held |-> FALSE]
    /\ \A j \in 1..Len(calls): /\ calls'[j].id = calls[j].id
                               /\ calls'[j].uri = calls[j].uri

LEMMA AcceptedShows ==
    ASSUME StateOK, NEW c \in Calls, OnAcceptedConnected(c)
    PROVE  /\ Shows(c, c)
           /\ \A j \in 1..Len(calls):
                calls'[j].held = IF j = focused THEN TRUE ELSE calls[j].held
  <1>0. /\ calls \in Seq(Slot) /\ DOMAIN calls = 1..Len(calls)
        /\ (focused # 0 => focused \in DOMAIN calls)
    BY SlotTypes DEF StateOK
  <1> DEFINE new == [id |-> c, uri |-> c, held |-> FALSE]
             kept == IF focused = 0 THEN calls ELSE WithHeld(focused, TRUE)
  <1>1. /\ kept \in Seq(Slot) /\ Len(kept) = Len(calls) /\ DOMAIN kept = DOMAIN calls
        /\ \A j \in DOMAIN calls:
             /\ kept[j].id = calls[j].id
             /\ kept[j].uri = calls[j].uri
             /\ kept[j].held = IF j = focused THEN TRUE ELSE calls[j].held
    <2>1. CASE focused = 0
      <3>1. \A j \in DOMAIN calls: j # focused
        BY <1>0, <2>1
      <3>2. kept = calls
        BY <2>1
      <3> QED
        BY <1>0, <3>1, <3>2
    <2>2. CASE focused # 0
      BY <1>0, <2>2, ZenonT(40), WithHeldKeeps
    <2> QED
      BY <2>1, <2>2
  <1>2. calls' = Append(kept, new)
    BY DEF OnAcceptedConnected, Push
  <1> HIDE DEF kept
  <1>3. /\ Len(calls') = Len(kept) + 1
        /\ DOMAIN calls' = 1..Len(kept) + 1
        /\ \A j \in 1..Len(kept): calls'[j] = kept[j]
        /\ calls'[Len(kept) + 1] = new
    BY <1>1, <1>2, Appended
  <1> QED
    BY <1>0, <1>1, <1>3 DEF Shows

LEMMA DialledShows ==
    ASSUME StateOK, NEW c \in Calls, pendingOutbound # NoCall, OnDialledConnected(c)
    PROVE  /\ Shows(c, pendingOutbound)
           /\ \A j \in 1..Len(calls): calls'[j].held = calls[j].held
  <1>1. calls \in Seq(Slot) /\ pendingOutbound \in Calls
    BY PendingIsACall DEF StateOK
  <1>2. calls' = Append(calls, [id |-> c, uri |-> pendingOutbound, held |-> FALSE])
    BY DEF OnDialledConnected, Push
  <1>3. /\ Len(calls') = Len(calls) + 1
        /\ DOMAIN calls' = 1..Len(calls) + 1
        /\ \A j \in 1..Len(calls): calls'[j] = calls[j]
        /\ calls'[Len(calls) + 1] = [id |-> c, uri |-> pendingOutbound, held |-> FALSE]
    BY <1>1, <1>2, Appended
  <1> QED
    BY <1>3 DEF Shows

LEMMA HeldKeepsSlots ==
    ASSUME StateOK, NEW c \in Calls, NEW held \in BOOLEAN, OnHeld(c, held)
    PROVE  /\ Len(calls') = Len(calls) /\ DOMAIN calls' = DOMAIN calls
           /\ \A j \in DOMAIN calls:
                /\ calls'[j].id = calls[j].id
                /\ calls'[j].uri = calls[j].uri
                /\ calls'[j].held = IF Id(j) = c THEN held ELSE calls[j].held
  <1>1. /\ DOMAIN calls = 1..Len(calls) /\ \A j \in DOMAIN calls: calls[j] \in Slot
        /\ Len(calls) \in Nat
    BY SlotTypes, ElementOfSeq DEF StateOK
  <1>2. \A s \in Slot: /\ [s EXCEPT !.held = held].id = s.id
                       /\ [s EXCEPT !.held = held].uri = s.uri
                       /\ [s EXCEPT !.held = held].held = held
                       /\ [s EXCEPT !.held = held] \in Slot
    BY DEF Slot
  <1>3. /\ calls' = [j \in 1..Len(calls) |->
                      IF Id(j) = c THEN [calls[j] EXCEPT !.held = held] ELSE calls[j]]
    BY <1>1 DEF OnHeld
  <1>4. calls' \in Seq(Slot) /\ Len(calls') = Len(calls) /\ DOMAIN calls' = DOMAIN calls
    <2>1. calls' \in [1..Len(calls) -> Slot]
      BY <1>1, <1>2, <1>3
    <2> QED
      BY <1>1, <2>1
  <1>5. \A j \in DOMAIN calls:
          calls'[j] = IF Id(j) = c THEN [calls[j] EXCEPT !.held = held] ELSE calls[j]
    BY <1>1, <1>3
  <1> QED
    BY <1>1, <1>2, <1>4, <1>5

LEMMA ConnectedAudio ==
    ASSUME StateOK, AudioInOrder, NEW c \in Calls, OnCallConnected(c),
           ~Crosses(c, "CallConnected"), Len(calls) <= 2
    PROVE  AudioInOrder'
  <1>0. /\ Len(calls) \in Nat /\ DOMAIN calls = 1..Len(calls)
        /\ focused \in 0..Len(calls) /\ Follows /\ Room
        /\ Freed = {} /\ (focused = 0 => media = {} /\ sockets = {})
        /\ NoCall \notin Calls
    BY SlotTypes, Quieted, CallsAssumption DEF StateOK, AudioInOrder
  <1>1. /\ UNCHANGED inConference /\ ~inConference
        /\ Len(calls) < 2
        /\ pendingAccept # c /\ pendingOutbound # NoCall => focused = 0
    BY <1>0 DEF OnCallConnected, Room, Crosses
  <1>2. ASSUME StartMedia(Len(calls) + 1, c, {}, {}, 0), NEW uri, Shows(c, uri)
        PROVE  AudioInOrder'
    <2>1. /\ sockets' = media'
          /\ \/ media' = {c} /\ focused' = Len(calls) + 1
             \/ media' = {} /\ focused' = 0 /\ failures' > 0
      BY <1>2, CleanStart
    <2>2. calls'[Len(calls) + 1].id = c
      BY <1>2 DEF Shows
    <2>3. Follows'
      BY <1>0, <1>1, <2>1, <2>2 DEF Follows, Hearers, Id
    <2> QED
      BY <1>1, <2>3 DEF AudioInOrder, Room
  <1>3. CASE pendingAccept = c /\ OnAcceptedConnected(c)
    <2>1. StartMedia(Len(calls) + 1, c, {}, {}, 0)
      BY <1>0, <1>3 DEF OnAcceptedConnected
    <2>2. Shows(c, c)
      BY <1>3, AcceptedShows
    <2> QED
      BY <1>2, <2>1, <2>2
  <1>4. CASE pendingAccept # c /\ pendingOutbound # NoCall /\ OnDialledConnected(c)
    <2>1. StartMedia(Len(calls) + 1, c, {}, {}, 0)
      BY <1>0, <1>1, <1>4 DEF OnDialledConnected
    <2>2. Shows(c, pendingOutbound)
      BY <1>4, DialledShows
    <2> QED
      BY <1>2, <2>1, <2>2
  <1>5. CASE UNCHANGED <<calls, audio, pendings, stack>>
    <2>1. Follows'
      BY <1>0, <1>1, <1>5, StillHeard DEF audio
    <2> QED
      BY <1>1, <2>1 DEF AudioInOrder, Room
  <1> QED
    BY <1>3, <1>4, <1>5 DEF OnCallConnected

LEMMA EventAudio ==
    ASSUME StateOK, AudioInOrder, NEW c \in Calls, React(c, Head(events[c])),
           ~Crosses(c, Head(events[c])), Len(calls) <= 2
    PROVE  AudioInOrder'
  <1>0. /\ Len(calls) \in Nat /\ DOMAIN calls = 1..Len(calls)
        /\ focused \in 0..Len(calls) /\ Follows /\ Room
        /\ Freed = {} /\ (focused # 0 => focused \in DOMAIN calls)
    BY SlotTypes, Quieted DEF StateOK, AudioInOrder
  <1>1. CASE Head(events[c]) = "CallConnected" /\ OnCallConnected(c)
    BY <1>1, ConnectedAudio
  <1>2. CASE \/ OnIncomingCall(c) \/ OnTransferFailed
             \/ OnTransferAccepted /\ KeepBoth
             \/ EndsPendingCall(c) \/ EndsPendingAccept(c) \/ EndsPendingOutbound(c)
    <2>1. UNCHANGED <<calls, audio, inConference>>
      BY <1>2 DEF OnIncomingCall, OnTransferFailed, KeepBoth, EndsPendingCall,
                  EndsPendingAccept, EndsPendingOutbound
    <2>2. Follows'
      BY <1>0, <2>1, StillHeard DEF audio
    <2> QED
      BY <1>0, <2>1, <2>2 DEF AudioInOrder, Room, audio
  <1>4. CASE OnHeld(c, TRUE) \/ OnHeld(c, FALSE)
    <2>1. /\ Len(calls') = Len(calls) /\ DOMAIN calls' = DOMAIN calls
          /\ \A j \in DOMAIN calls: calls'[j].id = calls[j].id
      BY <1>4, HeldKeepsSlots
    <2>2. UNCHANGED <<audio, inConference>>
      BY <1>4 DEF OnHeld
    <2>3. Follows'
      BY <1>0, <2>1, <2>2, StillHeard DEF audio
    <2> QED
      BY <1>0, <2>1, <2>2, <2>3 DEF AudioInOrder, Room, audio
  <1>5. CASE HangUpBoth(TRUE)
    <2>1. /\ inConference' = FALSE /\ media' = {} /\ sockets' = {} /\ focused' = 0
      BY <1>0, <1>5 DEF HangUpBoth, KeepAudio
    <2> QED
      BY <2>1 DEF AudioInOrder, Room, Follows, Hearers
  <1>6. CASE EndsSlot(c)
    <2>1. PICK i \in DOMAIN calls: RemoveCall(i)
      BY <1>6 DEF EndsSlot, SlotsOf
    <2> QED
      BY <2>1, RemoveCallHeard
  <1>7. CASE OnTransferAccepted /\ ~KeepBoth
    BY <1>5, <1>7 DEF OnTransferAccepted
  <1> QED
    BY <1>1, <1>2, <1>4, <1>6, <1>7 DEF React, OnCallEnded

(* What holds as long as no call has crossed another.                       *)
InFocus == ~crossed => Len(calls) <= 2 /\ AudioInOrder

LEMMA LessThanThree ==
    ASSUME StateOK, Len(calls) <= 2, NEW c \in Calls, HandleEvent(c), ~crossed'
    PROVE  Len(calls') <= 2
  <1>0. Len(calls) \in Nat /\ DOMAIN calls = 1..Len(calls)
    BY SlotTypes DEF StateOK
  <1>1. React(c, Head(events[c])) /\ ~Crosses(c, Head(events[c]))
    BY DEF HandleEvent
  <1>2. CASE Head(events[c]) = "CallConnected" /\ OnCallConnected(c)
    <2>1. Len(calls) < 2
      BY <1>0, <1>1, <1>2 DEF Crosses
    <2>2. CASE OnAcceptedConnected(c)
      <3>1. Len(calls') = Len(calls) + 1
        BY <2>2, AcceptedShows DEF Shows
      <3> QED
        BY <1>0, <2>1, <3>1
    <2>3. CASE pendingOutbound # NoCall /\ OnDialledConnected(c)
      <3>1. Len(calls') = Len(calls) + 1
        BY <2>3, DialledShows DEF Shows
      <3> QED
        BY <1>0, <2>1, <3>1
    <2> QED
      BY <1>0, <1>2, <2>1, <2>2, <2>3 DEF OnCallConnected
  <1>3. CASE EndsSlot(c)
    <2>1. PICK i \in DOMAIN calls: RemoveCall(i)
      BY <1>3 DEF EndsSlot, SlotsOf
    <2>2. Len(calls') = Len(calls) - 1
      BY <2>1, RemoveCallTyped
    <2> QED
      BY <1>0, <2>2
  <1>4. CASE OnHeld(c, TRUE) \/ OnHeld(c, FALSE)
    BY <1>4, HeldKeepsSlots
  <1>5. CASE HangUpBoth(TRUE)
    <2>1. calls' = <<>> /\ Len(<<>>) = 0
      BY <1>5 DEF HangUpBoth
    <2> QED
      BY <2>1
  <1>6. CASE calls' = calls
    BY <1>6
  <1> QED
    BY <1>1, <1>2, <1>3, <1>4, <1>5, <1>6
    DEF React, OnCallEnded, OnIncomingCall, EndsPendingCall, EndsPendingAccept,
        EndsPendingOutbound, OnTransferAccepted, OnTransferFailed, KeepBoth

LEMMA UserAddsNone ==
    ASSUME StateOK, UserActs
    PROVE  Len(calls') <= Len(calls)
  <1>0. Len(calls) \in Nat /\ DOMAIN calls = 1..Len(calls) /\ focused \in 0..Len(calls)
    BY SlotTypes DEF StateOK
  <1>1. CASE Dial \/ CompleteAttendedTransfer \/ BlindTransfer \/ Accept \/ Reject
    BY <1>0, <1>1
    DEF Dial, CompleteAttendedTransfer, BlindTransfer, Accept, Reject
  <1>2. CASE AttendedTransferDial
    <2>1. focused \in DOMAIN calls /\ calls' = WithHeld(focused, TRUE)
      BY <1>0, <1>2 DEF AttendedTransferDial
    <2>2. Len(calls') = Len(calls)
      BY <2>1, WithHeldKeeps
    <2> QED
      BY <1>0, <2>2
  <1>3. ASSUME NEW i \in DOMAIN calls, HangUp(i) PROVE Len(calls') <= Len(calls)
    <2>1. RemoveCall(i)
      BY <1>3 DEF HangUp
    <2>2. Len(calls') = Len(calls) - 1
      BY <2>1, RemoveCallTyped
    <2> QED
      BY <1>0, <2>2
  <1>4. ASSUME NEW i \in DOMAIN calls, HoldSlot(i) PROVE Len(calls') <= Len(calls)
    <2>1. calls' = WithHeld(i, TRUE)
      BY <1>4 DEF HoldSlot
    <2>2. Len(calls') = Len(calls)
      BY <2>1, WithHeldKeeps
    <2> QED
      BY <1>0, <2>2
  <1>5. ASSUME NEW i \in DOMAIN calls, SwapTo(i) PROVE Len(calls') <= Len(calls)
    <2>1. Len(calls') = Len(calls)
      BY <1>5, SwapKeepsSlots
    <2> QED
      BY <1>0, <2>1
  <1>6. CASE StartConference
    <2>1. CASE calls' = [i \in 1..2 |-> [calls[i] EXCEPT !.held = FALSE]]
      BY <1>6, <2>1, UnheldKeepsSlots DEF StartConference
    <2>2. CASE calls' = calls
      BY <1>0, <2>2
    <2> QED
      BY <1>6, <2>1, <2>2 DEF StartConference
  <1> QED
    BY <1>1, <1>2, <1>3, <1>4, <1>5, <1>6 DEF UserActs

LEMMA AudioInductive == Typed /\ InFocus /\ [Next]_vars => InFocus'
  <1> SUFFICES ASSUME Typed, InFocus, [Next]_vars, ~crossed'
               PROVE  Len(calls') <= 2 /\ AudioInOrder'
    BY DEF InFocus
  <1>0. StateOK /\ Len(calls) \in Nat
    BY SlotTypes DEF Typed, StateOK
  <1>1. CASE UserActs /\ UNCHANGED past
    <2>1. ~crossed
      BY <1>1 DEF past
    <2>2. Len(calls') <= Len(calls) /\ Len(calls') \in Nat
      <3>1. Typed'
        BY TypedInductive
      <3> QED
        BY <1>0, <1>1, <3>1, UserAddsNone DEF Typed, StateOK
    <2> QED
      BY <1>0, <1>1, <2>1, <2>2, UserAudio DEF InFocus
  <1>2. ASSUME NEW c \in Calls, HandleEvent(c)
        PROVE  Len(calls') <= 2 /\ AudioInOrder'
    <2>1. ~crossed /\ React(c, Head(events[c])) /\ ~Crosses(c, Head(events[c]))
      BY <1>2 DEF HandleEvent
    <2>2. Len(calls) <= 2 /\ AudioInOrder
      BY <2>1 DEF InFocus
    <2> QED
      BY <1>0, <1>2, <2>1, <2>2, EventAudio, LessThanThree
  <1>3. CASE (\E c \in Calls: StackActs(c)) \/ UNCHANGED vars
    <2>1. UNCHANGED <<calls, audio, inConference, crossed>>
      BY <1>3 DEF StackActs, Client, vars, past
    <2> QED
      BY <2>1 DEF InFocus, AudioInOrder, Room, Follows, Hearers, Id, audio
  <1> QED
    BY <1>1, <1>2, <1>3 DEF Next

LEMMA AudioAlways == Spec => []InFocus
  <1>1. Init => InFocus
    <2>1. Init => Len(calls) = 0
      BY DEF Init
    <2> QED
      BY <2>1 DEF Init, InFocus, AudioInOrder, Room, Follows, Hearers
  <1> QED
    BY <1>1, TypedAlways, AudioInductive, PTL DEF Spec

(* The microphone is heard by the focused call or the conference, and by    *)
(* nobody else, until a call connects that crosses another.                 *)
THEOREM FocusIsHeard == Spec => []AudioFollowsFocus
  <1>1. InFocus => AudioFollowsFocus
    BY DEF InFocus, AudioInOrder, Follows, Hearers, AudioFollowsFocus
  <1> QED
    BY <1>1, AudioAlways, PTL

-----------------------------------------------------------------------------
(* The life of a call, as the stack, the queue and the client see it.       *)
(*                                                                          *)
(* The client knows a call by its place: a slot, the ringing call, the      *)
(* accepted one, the dialled one, or none.  Which events may be on their    *)
(* way depends on the stack's call and on the place, and only on them.      *)

Places == {"slot", "ringing", "accepted", "dialled", "free"}

Place(e) ==
    IF InSlot(e) THEN "slot"
    ELSE IF pendingCall = e THEN "ringing"
    ELSE IF pendingAccept = e THEN "accepted"
    ELSE IF pendingOutbound = e THEN "dialled"
    ELSE "free"

Plain(q) ==
    \A i \in DOMAIN q: q[i] \notin {"IncomingCall", "CallConnected", "CallEnded"}
Unasked(s) == s.dir = "sendrecv" /\ s.reinvites = 0 /\ s.refers = 0

(* Where the client waits for the answer to call e.                         *)
Awaited(e, p) ==
    IF e \in InCalls THEN p = "accepted"
    ELSE p \in {"dialled", "free"}

(* What may be queued for call e in place p.                                *)
Orderly(e, s, q, p) ==
    \A i \in DOMAIN q:
        /\ q[i] = "IncomingCall" => i = 1 /\ p = "free" /\ e \in InCalls
        /\ q[i] = "CallConnected" => i = 1 /\ Awaited(e, p)
        /\ q[i] = "CallEnded" =>
             s.st = "gone" /\ \A j \in DOMAIN q: q[j] = "CallEnded" => j = i

Ended(q) == \E i \in DOMAIN q: q[i] = "CallEnded"

Begun(e, s, q, p) ==
    /\ s.st = "none" => p = "free" /\ q = <<>> /\ Unasked(s)
    /\ s.st = "trying" => e \in OutCalls /\ Awaited(e, p) /\ q = <<>> /\ Unasked(s)
    /\ s.st = "ringing" =>
         /\ e \in InCalls /\ Unasked(s)
         /\ (p = "ringing" /\ q = <<>>) \/ (p = "free" /\ q = <<"IncomingCall">>)
    /\ s.st = "answering" => e \in InCalls /\ p = "accepted" /\ q = <<>> /\ Unasked(s)

InTalk(e, s, q, p) ==
    s.st = "up" =>
        \/ q = <<"CallConnected">> /\ Awaited(e, p) /\ Unasked(s)
        \/ p = "slot" /\ Plain(q)
        \/ e \in OutCalls /\ p = "free" /\ Plain(q)

LetGo(s, q, p) ==
    /\ s.st \in {"closing", "declined", "busy"} => p = "free" /\ Plain(q)
    /\ s.st = "gone" => Ended(q) \/ (p = "free" /\ Plain(q))

Legal(e, s, q, p) ==
    Orderly(e, s, q, p) /\ Begun(e, s, q, p) /\ InTalk(e, s, q, p) /\ LetGo(s, q, p)

LEMMA QueueTail ==
    ASSUME NEW q \in Seq(Event), q # <<>>
    PROVE  /\ Len(q) \in Nat \ {0} /\ DOMAIN q = 1..Len(q) /\ Head(q) = q[1]
           /\ 1 \in DOMAIN q
           /\ Tail(q) \in Seq(Event) /\ DOMAIN Tail(q) = 1..Len(q) - 1
           /\ \A i \in DOMAIN Tail(q): i + 1 \in DOMAIN q /\ Tail(q)[i] = q[i + 1]
           /\ \A i \in DOMAIN q: i # 1 =>
                i - 1 \in DOMAIN Tail(q) /\ Tail(q)[i - 1] = q[i]
  <1>1. /\ Len(q) \in Nat \ {0} /\ DOMAIN q = 1..Len(q)
        /\ Tail(q) \in Seq(Event) /\ Len(Tail(q)) = Len(q) - 1
        /\ \A i \in 1..Len(Tail(q)): Tail(q)[i] = q[i + 1]
    BY EmptySeq, LenProperties, HeadTailProperties
  <1>2. DOMAIN Tail(q) = 1..Len(q) - 1
    BY <1>1, LenProperties
  <1>3. \A i \in DOMAIN q: i # 1 =>
          i - 1 \in DOMAIN Tail(q) /\ Tail(q)[i - 1] = q[i]
    <2>1. SUFFICES ASSUME NEW i \in DOMAIN q, i # 1
          PROVE i - 1 \in DOMAIN Tail(q) /\ Tail(q)[i - 1] = q[i]
      OBVIOUS
    <2>2. i - 1 \in 1..Len(q) - 1 /\ (i - 1) + 1 = i
      BY <1>1, <2>1
    <2>3. Tail(q)[i - 1] = q[(i - 1) + 1]
      BY <1>1, <2>2
    <2> QED
      BY <1>2, <2>2, <2>3
  <1>4. \A i \in DOMAIN Tail(q): i + 1 \in DOMAIN q /\ Tail(q)[i] = q[i + 1]
    BY <1>1, <1>2
  <1>5. Head(q) = q[1] /\ 1 \in DOMAIN q
    BY <1>1
  <1> QED
    BY <1>1, <1>2, <1>3, <1>4, <1>5

LEMMA QueuePost ==
    ASSUME NEW q \in Seq(Event), NEW ev \in Event
    PROVE  /\ q \o <<ev>> \in Seq(Event)
           /\ Len(q) \in Nat /\ DOMAIN q = 1..Len(q)
           /\ DOMAIN (q \o <<ev>>) = 1..Len(q) + 1
           /\ \A i \in DOMAIN q: (q \o <<ev>>)[i] = q[i]
           /\ (q \o <<ev>>)[Len(q) + 1] = ev
           /\ q = <<>> => q \o <<ev>> = <<ev>>
  <1>1. <<ev>> \in Seq(Event) /\ Len(<<ev>>) = 1 /\ <<ev>>[1] = ev
    OBVIOUS
  <1>2. Len(q) \in Nat /\ DOMAIN q = 1..Len(q)
    BY LenProperties
  <1>3. /\ q \o <<ev>> \in Seq(Event) /\ Len(q \o <<ev>>) = Len(q) + 1
        /\ \A i \in 1..Len(q) + 1:
             (q \o <<ev>>)[i] = IF i <= Len(q) THEN q[i] ELSE <<ev>>[i - Len(q)]
    BY <1>1, ConcatProperties
  <1>4. q = <<>> => q \o <<ev>> = <<ev>>
    BY <1>1, ConcatEmptySeq
  <1>5. /\ DOMAIN (q \o <<ev>>) = 1..Len(q) + 1
        /\ \A i \in 1..Len(q): (q \o <<ev>>)[i] = q[i]
        /\ (q \o <<ev>>)[Len(q) + 1] = ev
    BY <1>1, <1>2, <1>3, LenProperties
  <1> QED
    BY <1>2, <1>3, <1>4, <1>5

(* An event that is none of the three is taken: nothing changes.            *)
LEMMA OrderlyTail ==
    ASSUME NEW e, NEW s, NEW q \in Seq(Event), NEW p, NEW r, q # <<>>,
           Orderly(e, s, q, p)
    PROVE  /\ \A i \in DOMAIN Tail(q): Tail(q)[i] \notin {"IncomingCall", "CallConnected"}
           /\ Orderly(e, s, Tail(q), r)
           /\ Head(q) = "CallEnded" => Plain(Tail(q))
           /\ Head(q) # "CallEnded" => (Ended(Tail(q)) <=> Ended(q))
           /\ Plain(q) => Plain(Tail(q))
  <1> USE QueueTail
  <1>0. \A i \in DOMAIN Tail(q): i + 1 # 1 /\ i + 1 \in DOMAIN q /\ Tail(q)[i] = q[i + 1]
                                 /\ i \in Nat
    BY DEF Event
  <1>1. \A i \in DOMAIN Tail(q): Tail(q)[i] \notin {"IncomingCall", "CallConnected"}
    BY <1>0 DEF Orderly
  <1>2. Orderly(e, s, Tail(q), r)
    <2>1. SUFFICES ASSUME NEW i \in DOMAIN Tail(q), Tail(q)[i] = "CallEnded"
          PROVE s.st = "gone" /\ \A j \in DOMAIN Tail(q): Tail(q)[j] = "CallEnded" => j = i
      BY <1>1 DEF Orderly
    <2>2. s.st = "gone"
      BY <1>0, <2>1 DEF Orderly
    <2>3. ASSUME NEW j \in DOMAIN Tail(q), Tail(q)[j] = "CallEnded" PROVE j = i
      <3>1. j + 1 = i + 1
        BY <1>0, <2>1, <2>3 DEF Orderly
      <3> QED
        BY <1>0, <3>1
    <2> QED
      BY <2>2, <2>3
  <1>3. Head(q) = "CallEnded" => Plain(Tail(q))
    <2>1. SUFFICES ASSUME Head(q) = "CallEnded", NEW i \in DOMAIN Tail(q),
                          Tail(q)[i] = "CallEnded"
          PROVE FALSE
      BY <1>1 DEF Plain
    <2>2. i + 1 = 1
      BY <1>0, <2>1 DEF Orderly
    <2> QED
      BY <1>0, <2>2
  <1>4. Head(q) # "CallEnded" => (Ended(Tail(q)) <=> Ended(q))
    <2>1. Ended(Tail(q)) => Ended(q)
      BY <1>0 DEF Ended
    <2>2. ASSUME Head(q) # "CallEnded", NEW i \in DOMAIN q, q[i] = "CallEnded"
          PROVE Ended(Tail(q))
      <3>1. i # 1
        BY <2>2
      <3>2. i - 1 \in DOMAIN Tail(q) /\ Tail(q)[i - 1] = q[i]
        BY <3>1
      <3> QED
        BY <2>2, <3>2 DEF Ended
    <2> QED
      BY <2>1, <2>2 DEF Ended
  <1>5. Plain(q) => Plain(Tail(q))
    BY <1>0 DEF Plain
  <1> QED
    BY <1>1, <1>2, <1>3, <1>4, <1>5

LEMMA Singles ==
    ASSUME NEW ev
    PROVE  /\ <<ev>> # <<>> /\ Head(<<ev>>) = ev /\ Tail(<<ev>>) = <<>>
           /\ <<ev>>[1] = ev
  OBVIOUS

LEMMA TakesOther ==
    ASSUME NEW e, NEW s, NEW q \in Seq(Event), NEW p, q # <<>>, Legal(e, s, q, p),
           Head(q) \notin {"IncomingCall", "CallConnected", "CallEnded"}
    PROVE  Legal(e, s, Tail(q), p)
  <1>1. q # <<"IncomingCall">> /\ q # <<"CallConnected">>
    BY Singles
  <1>2. /\ Orderly(e, s, Tail(q), p)
        /\ Ended(Tail(q)) <=> Ended(q)
        /\ Plain(q) => Plain(Tail(q))
    BY OrderlyTail DEF Legal
  <1>3. Begun(e, s, Tail(q), p)
    BY <1>1 DEF Legal, Begun
  <1>4. InTalk(e, s, Tail(q), p)
    BY <1>1, <1>2 DEF Legal, InTalk
  <1>5. LetGo(s, Tail(q), p)
    BY <1>2 DEF Legal, LetGo
  <1> QED
    BY <1>2, <1>3, <1>4, <1>5 DEF Legal

(* The end of the call is taken: whatever place it had is given up.         *)
LEMMA TakesEnd ==
    ASSUME NEW e, NEW s, NEW q \in Seq(Event), NEW p, q # <<>>, Legal(e, s, q, p),
           Head(q) = "CallEnded"
    PROVE  Legal(e, s, Tail(q), "free") /\ s.st = "gone"
  <1>1. s.st = "gone"
    BY QueueTail DEF Legal, Orderly
  <1>2. Orderly(e, s, Tail(q), "free") /\ Plain(Tail(q))
    BY OrderlyTail DEF Legal
  <1> QED
    BY <1>1, <1>2 DEF Legal, Begun, InTalk, LetGo

(* The call is announced.  It rings on, or is gone already.                 *)
LEMMA TakesAnnouncement ==
    ASSUME NEW e, NEW s \in StackCall, NEW q \in Seq(Event), NEW p, q # <<>>,
           Legal(e, s, q, p), Head(q) = "IncomingCall"
    PROVE  /\ p = "free" /\ e \in InCalls
           /\ Legal(e, s, Tail(q), "ringing")
           /\ Legal(e, Declined(s), Tail(q), "free")
           /\ Legal(e, Becomes(s, "ringing", "busy"), Tail(q), "free")
  <1>1. p = "free" /\ e \in InCalls
    BY QueueTail DEF Legal, Orderly
  <1>2. ~Plain(q) /\ q # <<>> /\ q # <<"CallConnected">>
    BY QueueTail, Singles DEF Plain
  <1>3. s.st \in {"ringing", "gone"}
    BY <1>2 DEF Legal, Begun, InTalk, LetGo, StackCall
  <1>4. /\ \A i \in DOMAIN Tail(q): Tail(q)[i] \notin {"IncomingCall", "CallConnected"}
        /\ \A r: Orderly(e, s, Tail(q), r)
        /\ Ended(Tail(q)) <=> Ended(q)
    BY OrderlyTail DEF Legal
  <1>5. CASE s.st = "ringing"
    <2>1. Unasked(s) /\ Tail(q) = <<>>
      BY <1>5, <1>2, Singles DEF Legal, Begun
    <2>2. Declined(s).st = "declined" /\ Becomes(s, "ringing", "busy").st = "busy"
      BY <1>5 DEF Declined, Becomes, StackCall
    <2>3. Plain(<<>>) /\ \A t, r: Orderly(e, t, <<>>, r)
      BY DEF Plain, Orderly
    <2>4. Legal(e, s, Tail(q), "ringing")
      BY <1>1, <1>5, <2>1, <2>3 DEF Legal, Begun, InTalk, LetGo
    <2>5. /\ Legal(e, Declined(s), Tail(q), "free")
          /\ Legal(e, Becomes(s, "ringing", "busy"), Tail(q), "free")
      BY <2>1, <2>2, <2>3 DEF Legal, Begun, InTalk, LetGo
    <2> QED
      BY <1>1, <2>4, <2>5
  <1>6. CASE s.st = "gone"
    <2>1. Declined(s) = s /\ Becomes(s, "ringing", "busy") = s
      BY <1>6 DEF Declined, Becomes
    <2>2. Ended(Tail(q))
      BY <1>2, <1>4, <1>6 DEF Legal, LetGo
    <2>3. \A r: Legal(e, s, Tail(q), r)
      BY <1>4, <1>6, <2>2 DEF Legal, Begun, InTalk, LetGo
    <2> QED
      BY <1>1, <2>1, <2>3
  <1> QED
    BY <1>3, <1>5, <1>6

(* The call is up, or was.  The client shows it, or has forgotten it.       *)
LEMMA TakesConnect ==
    ASSUME NEW e, NEW s \in StackCall, NEW q \in Seq(Event), NEW p, q # <<>>,
           Legal(e, s, q, p), Head(q) = "CallConnected"
    PROVE  /\ Awaited(e, p) /\ s.st \in {"up", "gone"}
           /\ s.st = "up" => Unasked(s) /\ Tail(q) = <<>>
           /\ Legal(e, s, Tail(q), "slot")
           /\ e \in OutCalls => Legal(e, s, Tail(q), "free")
  <1>1. Awaited(e, p)
    BY QueueTail DEF Legal, Orderly
  <1>2. ~Plain(q) /\ q # <<>> /\ q # <<"IncomingCall">>
    BY QueueTail, Singles DEF Plain
  <1>3. s.st \in {"up", "gone"}
    BY <1>2 DEF Legal, Begun, InTalk, LetGo, StackCall
  <1>4. /\ \A r: Orderly(e, s, Tail(q), r)
        /\ Ended(Tail(q)) <=> Ended(q)
    BY OrderlyTail DEF Legal
  <1>5. CASE s.st = "up"
    <2>1. Unasked(s) /\ Tail(q) = <<>>
      BY <1>2, <1>5, Singles DEF Legal, InTalk
    <2>2. Plain(<<>>)
      BY DEF Plain
    <2>3. InTalk(e, s, Tail(q), "slot")
          /\ (e \in OutCalls => InTalk(e, s, Tail(q), "free"))
      BY <2>1, <2>2 DEF InTalk
    <2> QED
      BY <1>1, <1>4, <1>5, <2>1, <2>3 DEF Legal, Begun, LetGo
  <1>6. CASE s.st = "gone"
    <2>1. Ended(Tail(q))
      BY <1>2, <1>4, <1>6 DEF Legal, LetGo
    <2> QED
      BY <1>1, <1>4, <1>6, <2>1 DEF Legal, Begun, InTalk, LetGo
  <1> QED
    BY <1>3, <1>5, <1>6

(* The dialled call is taken for ended, or for connected, by mistake.       *)
LEMMA IsForgotten ==
    ASSUME NEW e \in OutCalls, NEW s, NEW q, Legal(e, s, q, "dialled")
    PROVE  Legal(e, s, q, "free")
  <1>1. e \notin InCalls
    BY CallsAssumption
  <1>2. Awaited(e, "free")
    BY <1>1 DEF Awaited
  <1>3. Orderly(e, s, q, "free")
    BY <1>2 DEF Legal, Orderly
  <1>4. Begun(e, s, q, "free")
    BY <1>1, <1>2 DEF Legal, Begun
  <1>5. InTalk(e, s, q, "free")
    BY <1>2 DEF Legal, InTalk
  <1>6. LetGo(s, q, "free")
    BY DEF Legal, LetGo
  <1> QED
    BY <1>3, <1>4, <1>5, <1>6 DEF Legal

LEMMA QueuedMore ==
    ASSUME NEW e, NEW s, NEW t, NEW q \in Seq(Event), NEW p, NEW ev \in Event,
           Orderly(e, s, q, p), t.st = s.st \/ t.st = "gone",
           ev \notin {"IncomingCall", "CallConnected"},
           ev = "CallEnded" => t.st = "gone" /\ s.st # "gone"
    PROVE  /\ Orderly(e, t, q \o <<ev>>, p)
           /\ ev # "CallEnded" => (Plain(q) => Plain(q \o <<ev>>))
           /\ Ended(q \o <<ev>>) <=> (Ended(q) \/ ev = "CallEnded")
  <1> DEFINE more == q \o <<ev>>
             n == Len(q) + 1
  <1>1. /\ Len(q) \in Nat /\ DOMAIN q = 1..Len(q) /\ DOMAIN more = 1..n
        /\ \A i \in DOMAIN q: more[i] = q[i]
        /\ more[n] = ev
    BY QueuePost
  <1> HIDE DEF more
  <1>2. \A i \in DOMAIN more: (i \in DOMAIN q /\ more[i] = q[i]) \/ (i = n /\ more[i] = ev)
    BY <1>1
  <1>3. n \in DOMAIN more /\ DOMAIN q \subseteq DOMAIN more /\ n \notin DOMAIN q
    BY <1>1
  <1> HIDE DEF n
  <1>4. ev = "CallEnded" => \A i \in DOMAIN q: q[i] # "CallEnded"
    BY DEF Orderly
  <1>5. Orderly(e, t, more, p)
    <2>1. SUFFICES ASSUME NEW i \in DOMAIN more
          PROVE /\ more[i] = "IncomingCall" => i = 1 /\ p = "free" /\ e \in InCalls
                /\ more[i] = "CallConnected" => i = 1 /\ Awaited(e, p)
                /\ more[i] = "CallEnded" =>
                     t.st = "gone" /\ \A j \in DOMAIN more: more[j] = "CallEnded" => j = i
      BY DEF Orderly
    <2>2. CASE i \in DOMAIN q /\ more[i] = q[i]
      <3>1. /\ more[i] = "IncomingCall" => i = 1 /\ p = "free" /\ e \in InCalls
            /\ more[i] = "CallConnected" => i = 1 /\ Awaited(e, p)
        BY <2>2 DEF Orderly
      <3>2. ASSUME more[i] = "CallEnded"
            PROVE t.st = "gone" /\ \A j \in DOMAIN more: more[j] = "CallEnded" => j = i
        <4>1. s.st = "gone" /\ \A j \in DOMAIN q: q[j] = "CallEnded" => j = i
          BY <2>2, <3>2 DEF Orderly
        <4>2. ev # "CallEnded"
          BY <4>1
        <4>3. \A j \in DOMAIN more: more[j] = "CallEnded" => j = i
          BY <1>2, <4>1, <4>2
        <4> QED
          BY <4>1, <4>3
      <3> QED
        BY <3>1, <3>2
    <2>3. CASE i = n /\ more[i] = ev
      <3>1. more[i] \notin {"IncomingCall", "CallConnected"}
        BY <2>3
      <3>2. ASSUME more[i] = "CallEnded"
            PROVE t.st = "gone" /\ \A j \in DOMAIN more: more[j] = "CallEnded" => j = i
        BY <1>2, <1>4, <2>3, <3>2
      <3> QED
        BY <3>1, <3>2
    <2> QED
      BY <1>2, <2>2, <2>3
  <1>6. ev # "CallEnded" => (Plain(q) => Plain(more))
    BY <1>2 DEF Plain
  <1>7. Ended(more) <=> (Ended(q) \/ ev = "CallEnded")
    BY <1>1, <1>2, <1>3 DEF Ended
  <1> QED
    BY <1>5, <1>6, <1>7 DEF more

(* The stack's own steps.                                                   *)
LEMMA Rings ==
    ASSUME NEW e \in InCalls, NEW s \in StackCall, NEW q \in Seq(Event), NEW p,
           Legal(e, s, q, p), s.st = "none"
    PROVE  Legal(e, [s EXCEPT !.st = "ringing"], q \o <<"IncomingCall">>, p)
  <1> DEFINE t == [s EXCEPT !.st = "ringing"]
             one == <<"IncomingCall">>
  <1>1. p = "free" /\ q = <<>> /\ Unasked(s)
    BY DEF Legal, Begun
  <1>2. q \o one = one
    BY <1>1, QueuePost DEF Event
  <1>3. t.st = "ringing" /\ Unasked(t)
    BY <1>1 DEF StackCall, Unasked
  <1>4. \A r, f: Orderly(e, r, one, "free")
    BY DEF Orderly
  <1> HIDE DEF t
  <1>5. Begun(e, t, one, "free") /\ InTalk(e, t, one, "free") /\ LetGo(t, one, "free")
    BY <1>3 DEF Begun, InTalk, LetGo
  <1> HIDE DEF one
  <1>6. Legal(e, t, one, "free")
    BY <1>4, <1>5 DEF Legal
  <1> QED
    BY <1>1, <1>2, <1>6 DEF t, one

LEMMA Connects ==
    ASSUME NEW e, NEW s \in StackCall, NEW q \in Seq(Event), NEW p,
           Legal(e, s, q, p), s.st \in {"trying", "answering"}
    PROVE  Legal(e, [s EXCEPT !.st = "up"], q \o <<"CallConnected">>, p)
  <1> DEFINE t == [s EXCEPT !.st = "up"]
             one == <<"CallConnected">>
  <1>1. Awaited(e, p) /\ q = <<>> /\ Unasked(s)
    BY CallsAssumption DEF Legal, Begun, Awaited
  <1>2. q \o one = one
    BY <1>1, QueuePost DEF Event
  <1>3. t.st = "up" /\ Unasked(t)
    BY <1>1 DEF StackCall, Unasked
  <1>4. \A r: Orderly(e, r, one, p)
    BY <1>1 DEF Orderly
  <1> HIDE DEF t
  <1>5. Begun(e, t, one, p) /\ InTalk(e, t, one, p) /\ LetGo(t, one, p)
    BY <1>1, <1>3 DEF Begun, InTalk, LetGo
  <1> HIDE DEF one
  <1>6. Legal(e, t, one, p)
    BY <1>4, <1>5 DEF Legal
  <1> QED
    BY <1>2, <1>6 DEF t, one

LEMMA Ends ==
    ASSUME NEW e, NEW s \in StackCall, NEW q \in Seq(Event), NEW p,
           Legal(e, s, q, p), s.st # "gone"
    PROVE  Legal(e, Over(s), q \o <<"CallEnded">>, p)
  <1>1. Over(s).st = "gone"
    BY DEF Over, StackCall
  <1>2. Orderly(e, Over(s), q \o <<"CallEnded">>, p) /\ Ended(q \o <<"CallEnded">>)
    BY <1>1, QueuedMore DEF Event, Legal
  <1> QED
    BY <1>1, <1>2 DEF Legal, Begun, InTalk, LetGo

LEMMA Answers ==
    ASSUME NEW e, NEW s \in StackCall, NEW q \in Seq(Event), NEW p,
           Legal(e, s, q, p), ~Unasked(s), NEW t, t.st = s.st, NEW ev \in Event,
           ev \notin {"IncomingCall", "CallConnected", "CallEnded"}
    PROVE  Legal(e, t, q \o <<ev>>, p)
  <1>1. /\ Orderly(e, t, q \o <<ev>>, p)
        /\ Plain(q) => Plain(q \o <<ev>>)
        /\ Ended(q) => Ended(q \o <<ev>>)
    BY QueuedMore DEF Legal
  <1>2. Begun(e, t, q \o <<ev>>, p)
    BY DEF Legal, Begun
  <1>3. InTalk(e, t, q \o <<ev>>, p)
    BY <1>1 DEF Legal, InTalk
  <1>4. LetGo(t, q \o <<ev>>, p)
    BY <1>1 DEF Legal, LetGo
  <1> QED
    BY <1>1, <1>2, <1>3, <1>4 DEF Legal

(* The user's.                                                              *)
LEMMA InSlotIs ==
    ASSUME NEW e, NEW s \in StackCall, NEW q \in Seq(Event), Legal(e, s, q, "slot")
    PROVE  (s.st = "up" /\ Plain(q)) \/ (s.st = "gone" /\ Ended(q))
  <1>1. ~Awaited(e, "slot")
    BY DEF Awaited
  <1> QED
    BY <1>1 DEF Legal, Begun, InTalk, LetGo, StackCall

LEMMA IsAsked ==
    ASSUME NEW e, NEW s \in StackCall, NEW q \in Seq(Event), Legal(e, s, q, "slot"),
           NEW t, t.st = s.st
    PROVE  Legal(e, t, q, "slot")
  <1>1. (s.st = "up" /\ Plain(q)) \/ (s.st = "gone" /\ Ended(q))
    BY InSlotIs
  <1> QED
    BY <1>1 DEF Legal, Orderly, Begun, InTalk, LetGo

LEMMA IsHungUp ==
    ASSUME NEW e, NEW s \in StackCall, NEW q \in Seq(Event), Legal(e, s, q, "slot")
    PROVE  Legal(e, HungUp(s), q, "free")
  <1>1. CASE s.st = "up" /\ Plain(q)
    <2>1. HungUp(s).st = "closing"
      BY <1>1 DEF HungUp, StackCall
    <2> QED
      BY <1>1, <2>1 DEF Legal, Orderly, Plain, Begun, InTalk, LetGo
  <1>2. CASE s.st = "gone" /\ Ended(q)
    <2>1. HungUp(s) = s
      BY <1>2 DEF HungUp
    <2>2. Orderly(e, s, q, "free")
      BY DEF Legal, Orderly, Awaited
    <2> QED
      BY <1>2, <2>1, <2>2 DEF Legal, Begun, InTalk, LetGo
  <1> QED
    BY <1>1, <1>2, InSlotIs

LEMMA IsDialled ==
    ASSUME NEW e \in OutCalls, NEW s \in StackCall, NEW q, NEW p, Legal(e, s, q, p),
           s.st = "none"
    PROVE  /\ p = "free"
           /\ Legal(e, [s EXCEPT !.st = "trying"], q, "dialled")
  <1> DEFINE t == [s EXCEPT !.st = "trying"]
  <1>1. p = "free" /\ q = <<>> /\ Unasked(s)
    BY DEF Legal, Begun
  <1>2. t.st = "trying" /\ Unasked(t)
    BY <1>1 DEF StackCall, Unasked
  <1>3. Awaited(e, "dialled")
    BY CallsAssumption DEF Awaited
  <1> HIDE DEF t
  <1>4. Legal(e, t, q, "dialled")
    BY <1>1, <1>2, <1>3 DEF Legal, Orderly, Begun, InTalk, LetGo
  <1> QED
    BY <1>1, <1>4 DEF t

LEMMA IsAnswered ==
    ASSUME NEW e \in InCalls, NEW s \in StackCall, NEW q, Legal(e, s, q, "ringing")
    PROVE  /\ Legal(e, Accepted(s), q, "accepted")
           /\ Legal(e, Declined(s), q, "free")
  <1>1. /\ ~Awaited(e, "ringing") /\ Awaited(e, "accepted")
        /\ \A i \in DOMAIN q: q[i] \notin {"IncomingCall", "CallConnected"}
    BY DEF Awaited, Legal, Orderly
  <1>2. CASE s.st = "ringing"
    <2>1. q = <<>> /\ Unasked(s)
      BY <1>2 DEF Legal, Begun
    <2>2. Accepted(s).st = "answering" /\ Unasked(Accepted(s))
          /\ Declined(s).st = "declined"
      BY <1>2, <2>1 DEF Accepted, Declined, Becomes, StackCall, Unasked
    <2> QED
      BY <2>1, <2>2 DEF Legal, Orderly, Begun, InTalk, LetGo, Plain
  <1>3. CASE s.st = "gone" /\ Ended(q)
    <2>1. Accepted(s) = s /\ Declined(s) = s
      BY <1>3 DEF Accepted, Declined, Becomes
    <2>2. \A r: Orderly(e, s, q, r)
      BY <1>1 DEF Legal, Orderly
    <2> QED
      BY <1>3, <2>1, <2>2 DEF Legal, Begun, InTalk, LetGo
  <1>4. s.st \in {"ringing", "gone"} /\ (s.st = "gone" => Ended(q))
    BY <1>1 DEF Legal, Begun, InTalk, LetGo, StackCall
  <1> QED
    BY <1>2, <1>3, <1>4

-----------------------------------------------------------------------------
(* No two slots are of one call, no call is in two places, and each lives   *)
(* as its place allows.                                                     *)

OneSlotEach == \A i, j \in DOMAIN calls: Id(i) = Id(j) => i = j

OnePlace(e) ==
    /\ pendingCall = e => pendingAccept # e
    /\ e \in {pendingOutbound, pendingCall, pendingAccept} => ~InSlot(e)

Lives(e) == OnePlace(e) /\ Legal(e, stack[e], events[e], Place(e))

LifeInv == OneSlotEach /\ \A e \in Calls: Lives(e)

LEMMA PlaceIs ==
    ASSUME StateOK, NEW e \in Calls, OnePlace(e)
    PROVE  /\ Place(e) = "slot" <=> InSlot(e)
           /\ Place(e) = "ringing" <=> pendingCall = e
           /\ Place(e) = "accepted" <=> pendingAccept = e
           /\ Place(e) = "dialled" <=> pendingOutbound = e
           /\ e \in InCalls => pendingOutbound # e
           /\ e \in OutCalls => pendingCall # e /\ pendingAccept # e
  <1>1. /\ e \in InCalls => pendingOutbound # e
        /\ e \in OutCalls => pendingCall # e /\ pendingAccept # e
    BY CallsAssumption DEF StateOK, Calls
  <1>2. e \in InCalls \/ e \in OutCalls
    BY DEF Calls
  <1>3. Place(e) = "slot" <=> InSlot(e)
    BY DEF Place
  <1>4. Place(e) = "ringing" <=> pendingCall = e
    BY DEF Place, OnePlace
  <1>5. Place(e) = "accepted" <=> pendingAccept = e
    BY DEF Place, OnePlace
  <1>6. Place(e) = "dialled" <=> pendingOutbound = e
    BY <1>1, <1>2 DEF Place, OnePlace
  <1> QED
    BY <1>1, <1>3, <1>4, <1>5, <1>6

(* Nothing about the place of call e changes.                               *)
Stays(e) ==
    /\ InSlot(e)' <=> InSlot(e)
    /\ pendingCall' = e <=> pendingCall = e
    /\ pendingAccept' = e <=> pendingAccept = e
    /\ pendingOutbound' = e <=> pendingOutbound = e

(* No place but that of call c changes.                                     *)
OnlyMoves(c) ==
    \A e \in Calls: e # c =>
        /\ Stays(e)
        /\ stack'[e] = stack[e] \/ (InSlot(e) /\ stack'[e].st = stack[e].st)

LEMMA PlaceStays ==
    ASSUME NEW e \in Calls, Stays(e), OnePlace(e)
    PROVE  OnePlace(e)' /\ Place(e)' = Place(e)
  <1>1. OnePlace(e)'
    BY DEF Stays, OnePlace
  <1>2. Place(e)' = Place(e)
    BY DEF Stays, Place
  <1> QED
    BY <1>1, <1>2

LEMMA LivesOn ==
    ASSUME StateOK, NEW e \in Calls, Lives(e), Stays(e), events'[e] = events[e],
           stack'[e] = stack[e] \/ (InSlot(e) /\ stack'[e].st = stack[e].st)
    PROVE  Lives(e)'
  <1>1. OnePlace(e)' /\ Place(e)' = Place(e)
    BY PlaceStays DEF Lives
  <1>2. Legal(e, stack[e], events[e], Place(e))
    BY DEF Lives
  <1>3. Legal(e, stack'[e], events[e], Place(e))
    <2>1. CASE stack'[e] = stack[e]
      BY <1>2, <2>1
    <2>2. CASE InSlot(e) /\ stack'[e].st = stack[e].st
      <3>1. Place(e) = "slot"
        BY <2>2 DEF Place
      <3>2. stack[e] \in StackCall /\ events[e] \in Seq(Event)
        BY DEF StateOK
      <3> QED
        BY <1>2, <2>2, <3>1, <3>2, IsAsked
    <2> QED
      BY <2>1, <2>2
  <1> QED
    BY <1>1, <1>3 DEF Lives

LEMMA OthersLive ==
    ASSUME StateOK, LifeInv, NEW c, OnlyMoves(c),
           \A e \in Calls: e # c => events'[e] = events[e]
    PROVE  \A e \in Calls: e # c => Lives(e)'
  BY LivesOn DEF OnlyMoves, LifeInv

(* What becomes of the slots.                                               *)
LEMMA SlotsKept ==
    ASSUME DOMAIN calls' = DOMAIN calls,
           \A i \in DOMAIN calls: calls'[i].id = calls[i].id
    PROVE  /\ OneSlotEach => OneSlotEach'
           /\ \A e: InSlot(e)' <=> InSlot(e)
  BY DEF OneSlotEach, InSlot, Id

LEMMA SlotRemoved ==
    ASSUME StateOK, NEW i \in DOMAIN calls, RemoveCall(i), OneSlotEach
    PROVE  /\ OneSlotEach'
           /\ \A e: InSlot(e)' <=> (InSlot(e) /\ e # Id(i))
  <1>0. Len(calls) \in Nat /\ DOMAIN calls = 1..Len(calls)
    BY SlotTypes DEF StateOK
  <1>1. /\ DOMAIN calls' = 1..Len(calls) - 1
        /\ \A j \in 1..Len(calls) - 1:
             calls'[j] = IF j < i THEN calls[j] ELSE calls[j + 1]
    BY RemoveCallAudio, Remaining
  <1> DEFINE from(j) == IF j < i THEN j ELSE j + 1
  <1>2. \A j \in DOMAIN calls': /\ from(j) \in DOMAIN calls /\ from(j) # i
                                /\ calls'[j].id = calls[from(j)].id
    BY <1>0, <1>1
  <1>3. \A j, k \in DOMAIN calls': from(j) = from(k) => j = k
    BY <1>0, <1>1
  <1>4. \A j \in DOMAIN calls: j # i => \E k \in DOMAIN calls': from(k) = j
    <2>1. SUFFICES ASSUME NEW j \in DOMAIN calls, j # i
          PROVE \E k \in DOMAIN calls': from(k) = j
      OBVIOUS
    <2>2. CASE j < i
      BY <1>0, <1>1, <2>2
    <2>3. CASE j > i
      <3>1. j - 1 \in DOMAIN calls' /\ from(j - 1) = j
        BY <1>0, <1>1, <2>3
      <3> QED
        BY <3>1
    <2> QED
      BY <1>0, <2>1, <2>2, <2>3
  <1> HIDE DEF from
  <1>5. OneSlotEach'
    BY <1>2, <1>3 DEF OneSlotEach, Id
  <1>6. \A e: InSlot(e)' => (InSlot(e) /\ e # Id(i))
    BY <1>2 DEF InSlot, OneSlotEach, Id
  <1>7. \A e: InSlot(e) /\ e # Id(i) => InSlot(e)'
    BY <1>2, <1>4 DEF InSlot, Id
  <1> QED
    BY <1>5, <1>6, <1>7

LEMMA SlotShown ==
    ASSUME StateOK, NEW c, NEW uri, Shows(c, uri), ~InSlot(c), OneSlotEach
    PROVE  /\ OneSlotEach'
           /\ \A e: InSlot(e)' <=> (InSlot(e) \/ e = c)
  <1>0. Len(calls) \in Nat /\ DOMAIN calls = 1..Len(calls)
    BY SlotTypes DEF StateOK
  <1> DEFINE n == Len(calls) + 1
  <1>1. /\ DOMAIN calls' = 1..n
        /\ calls'[n].id = c
        /\ \A j \in DOMAIN calls: calls'[j].id = calls[j].id
    BY <1>0 DEF Shows
  <1>2. /\ n \in DOMAIN calls' /\ DOMAIN calls \subseteq DOMAIN calls'
        /\ \A j \in DOMAIN calls': j = n \/ j \in DOMAIN calls
    BY <1>0, <1>1
  <1> HIDE DEF n
  <1>3. \A j \in DOMAIN calls: calls[j].id # c
    BY DEF InSlot, Id
  <1>4. OneSlotEach'
    BY <1>1, <1>2, <1>3 DEF OneSlotEach, Id
  <1>5. \A e: InSlot(e)' <=> (InSlot(e) \/ e = c)
    BY <1>1, <1>2 DEF InSlot, Id
  <1> QED
    BY <1>4, <1>5

LEMMA AsksLeaveStates ==
    ASSUME NEW s \in StackCall
    PROVE  /\ Reinvited(s, "hold").st = s.st
           /\ Reinvited(s, "resume").st = s.st
           /\ Referred(s).st = s.st
  BY DEF Reinvited, Referred, StackCall

LEMMA FreeOfAll ==
    ASSUME StateOK, NEW e \in Calls, OnePlace(e), Place(e) = "free"
    PROVE  ~InSlot(e) /\ pendingCall # e /\ pendingAccept # e /\ pendingOutbound # e
  BY PlaceIs

(* A call is dialled: it had no place before.                               *)
LEMMA NextCallDials ==
    ASSUME StateOK, LifeInv, MayDial
    PROVE  /\ NextCall \in Calls /\ OnePlace(NextCall) /\ Place(NextCall) = "free"
           /\ ~InSlot(NextCall)
           /\ Legal(NextCall, [stack[NextCall] EXCEPT !.st = "trying"],
                    events[NextCall], "dialled")
  <1>1. NextCall \in OutCalls /\ NextCall \in Calls /\ stack[NextCall].st = "none"
    BY NextCallIsNew
  <1>2. /\ OnePlace(NextCall)
        /\ Legal(NextCall, stack[NextCall], events[NextCall], Place(NextCall))
        /\ stack[NextCall] \in StackCall
    BY <1>1 DEF LifeInv, Lives, StateOK
  <1>3. /\ Place(NextCall) = "free"
        /\ Legal(NextCall, [stack[NextCall] EXCEPT !.st = "trying"],
                 events[NextCall], "dialled")
    BY <1>1, <1>2, IsDialled
  <1> QED
    BY <1>1, <1>2, <1>3, FreeOfAll

(* The dial is pending.                                                     *)
LEMMA DialledLives ==
    ASSUME StateOK, LifeInv, MayDial, NEW c, c = NextCall, pendingOutbound' = c,
           UNCHANGED <<pendingCall, pendingAccept, events>>, ~InSlot(c)',
           stack'[c] = [stack[c] EXCEPT !.st = "trying"]
    PROVE  Lives(c)' /\ Place(c) = "free" /\ Place(c)' = "dialled"
  <1>1. /\ c \in Calls /\ OnePlace(c) /\ Place(c) = "free"
        /\ Legal(c, [stack[c] EXCEPT !.st = "trying"], events[c], "dialled")
    BY NextCallDials
  <1>2. pendingCall' # c /\ pendingAccept' # c
    BY <1>1, FreeOfAll
  <1>3. OnePlace(c)' /\ Place(c)' = "dialled"
    BY <1>2 DEF OnePlace, Place
  <1> QED
    BY <1>1, <1>3 DEF Lives

LEMMA DialLives ==
    ASSUME StateOK, LifeInv, Dial \/ AttendedTransferDial
    PROVE  /\ LifeInv'
           /\ \E c \in OutCalls: /\ Place(c) = "free" /\ Place(c)' = "dialled"
                                 /\ stack[c].st = "none" /\ OnlyMoves(c)
  <1>0. /\ stack \in [Calls -> StackCall] /\ OneSlotEach /\ MayDial
        /\ pendingOutbound = NoCall /\ NoCall \notin Calls
        /\ \A e \in Calls: Lives(e)
        /\ UNCHANGED <<pendingCall, pendingAccept, events>>
    BY CallsAssumption DEF StateOK, LifeInv, Dial, AttendedTransferDial, MayDial
  <1>1. PICK c \in OutCalls: c = NextCall /\ c \in Calls /\ stack[c].st = "none"
    BY <1>0, NextCallIsNew
  <1>2. ~InSlot(c) /\ pendingOutbound' = c
    BY <1>0, <1>1, NextCallDials DEF Dial, AttendedTransferDial
  <1>3. CASE Dial
    <2>1. \A e: InSlot(e)' <=> InSlot(e)
      BY <1>3 DEF Dial, InSlot, Id
    <2>2. Lives(c)' /\ Place(c) = "free" /\ Place(c)' = "dialled"
      BY <1>0, <1>1, <1>2, <1>3, <2>1, DialledLives DEF Dial
    <2>3. OnlyMoves(c)
      <3>1. ASSUME NEW e \in Calls, e # c PROVE Stays(e) /\ stack'[e] = stack[e]
        <4>1. Stays(e)
          BY <1>0, <1>2, <2>1, <3>1 DEF Stays
        <4>2. stack'[e] = stack[e]
          BY <1>0, <1>1, <1>3, <3>1 DEF Dial
        <4> QED
          BY <4>1, <4>2
      <3> QED
        BY <3>1 DEF OnlyMoves
    <2>4. OneSlotEach'
      BY <1>0, <1>3 DEF Dial, OneSlotEach, Id
    <2>5. \A e \in Calls: e # c => Lives(e)'
      BY <1>0, <2>3, OthersLive
    <2> QED
      BY <1>1, <2>2, <2>3, <2>4, <2>5 DEF LifeInv
  <1>4. CASE AttendedTransferDial
    <2>1. focused \in DOMAIN calls
      BY <1>4, SlotTypes DEF AttendedTransferDial, StateOK
    <2>2. /\ DOMAIN calls' = DOMAIN calls
          /\ \A i \in DOMAIN calls: calls'[i].id = calls[i].id
      BY <1>4, <2>1, WithHeldKeeps DEF AttendedTransferDial
    <2>3. OneSlotEach' /\ \A e: InSlot(e)' <=> InSlot(e)
      BY <1>0, <2>2, SlotsKept
    <2>4. Id(focused) \in Calls /\ InSlot(Id(focused)) /\ Id(focused) # c
      BY <1>2, <2>1, SlotTypes DEF InSlot, StateOK
    <2> DEFINE asked == Reinvited(stack[Id(focused)], "hold")
    <2>5. stack' = [[stack EXCEPT ![Id(focused)] = asked] EXCEPT ![c].st = "trying"]
      BY <1>1, <1>4 DEF AttendedTransferDial
    <2>6. asked.st = stack[Id(focused)].st
      BY <1>0, <2>4, AsksLeaveStates
    <2> HIDE DEF asked
    <2>7. /\ stack'[c] = [stack[c] EXCEPT !.st = "trying"]
          /\ stack'[Id(focused)] = asked
          /\ \A e \in Calls: e # c /\ e # Id(focused) => stack'[e] = stack[e]
      BY <1>0, <1>1, <2>4, <2>5
    <2>8. Lives(c)' /\ Place(c) = "free" /\ Place(c)' = "dialled"
      BY <1>0, <1>1, <1>2, <2>3, <2>7, DialledLives
    <2>9. OnlyMoves(c)
      <3>1. ASSUME NEW e \in Calls, e # c
            PROVE  /\ Stays(e)
                   /\ stack'[e] = stack[e] \/ (InSlot(e) /\ stack'[e].st = stack[e].st)
        <4>1. Stays(e)
          BY <1>0, <1>2, <2>3, <3>1 DEF Stays
        <4>2. stack'[e] = stack[e] \/ (InSlot(e) /\ stack'[e].st = stack[e].st)
          BY <2>4, <2>6, <2>7, <3>1
        <4> QED
          BY <4>1, <4>2
      <3> QED
        BY <3>1 DEF OnlyMoves
    <2>10. \A e \in Calls: e # c => Lives(e)'
      BY <1>0, <2>9, OthersLive
    <2> QED
      BY <1>1, <2>3, <2>8, <2>9, <2>10 DEF LifeInv
  <1> QED
    BY <1>3, <1>4

(* The far end of calls in slots is asked something.                        *)
AsksInTalk ==
    \A e \in Calls: \/ stack'[e] = stack[e]
                    \/ InSlot(e) /\ stack'[e].st = stack[e].st

(* Nothing but that, and the slots keep their calls.                        *)
OnlyAsks ==
    /\ UNCHANGED <<pendings, events, history>>
    /\ DOMAIN calls' = DOMAIN calls
    /\ \A i \in DOMAIN calls:
         calls'[i].id = calls[i].id /\ calls'[i].uri = calls[i].uri
    /\ AsksInTalk

LEMMA AskLives ==
    ASSUME StateOK, LifeInv, OnlyAsks
    PROVE  LifeInv'
  <1>1. OneSlotEach' /\ \A e: InSlot(e)' <=> InSlot(e)
    BY SlotsKept DEF LifeInv, OnlyAsks
  <1>2. \A e \in Calls: Stays(e)
    BY <1>1 DEF Stays, pendings, OnlyAsks
  <1>3. \A e \in Calls: Lives(e)'
    BY <1>2, LivesOn DEF LifeInv, OnlyAsks, AsksInTalk
  <1> QED
    BY <1>1, <1>3 DEF LifeInv

LEMMA TransferAsks ==
    ASSUME StateOK, CompleteAttendedTransfer \/ BlindTransfer
    PROVE  OnlyAsks
  <1>0. stack \in [Calls -> StackCall]
    BY DEF StateOK
  <1>1. UNCHANGED <<calls, pendings, events, history>>
    BY DEF CompleteAttendedTransfer, BlindTransfer
  <1>2. \A i \in DOMAIN calls: Id(i) \in Calls /\ InSlot(Id(i))
    BY SlotTypes DEF StateOK, InSlot
  <1>3. \/ stack' = stack
        \/ \E i \in DOMAIN calls: stack' = [stack EXCEPT ![Id(i)] = Referred(@)]
    <2>1. attended # 0 => attended \in DOMAIN calls
      BY SlotTypes DEF StateOK
    <2>2. focused # 0 => focused \in DOMAIN calls
      BY SlotTypes DEF StateOK
    <2> QED
      BY <2>1, <2>2 DEF CompleteAttendedTransfer, BlindTransfer
  <1>4. \A e \in Calls: \/ stack'[e] = stack[e]
                        \/ InSlot(e) /\ stack'[e].st = stack[e].st
    <2>1. ASSUME NEW i \in DOMAIN calls, stack' = [stack EXCEPT ![Id(i)] = Referred(@)],
                 NEW e \in Calls
          PROVE stack'[e] = stack[e] \/ (InSlot(e) /\ stack'[e].st = stack[e].st)
      <3>1. CASE e = Id(i)
        <4>1. stack'[e] = Referred(stack[e])
          BY <1>0, <2>1, <3>1
        <4> QED
          BY <1>0, <1>2, <3>1, <4>1, AsksLeaveStates
      <3>2. CASE e # Id(i)
        BY <1>0, <2>1, <3>2
      <3> QED
        BY <3>1, <3>2
    <2> QED
      BY <1>3, <2>1
  <1> QED
    BY <1>1, <1>4 DEF OnlyAsks, AsksInTalk

LEMMA HoldAsks ==
    ASSUME StateOK, NEW i \in DOMAIN calls, HoldSlot(i) \/ SwapTo(i)
    PROVE  OnlyAsks
  <1>0. /\ stack \in [Calls -> StackCall] /\ Id(i) \in Calls /\ InSlot(Id(i))
        /\ (focused # 0 => focused \in DOMAIN calls)
    BY SlotTypes DEF StateOK, InSlot
  <1>1. UNCHANGED <<pendings, events, history>>
    BY DEF HoldSlot, SwapTo
  <1>2. /\ DOMAIN calls' = DOMAIN calls
        /\ \A j \in DOMAIN calls:
             calls'[j].id = calls[j].id /\ calls'[j].uri = calls[j].uri
    <2>1. CASE HoldSlot(i)
      BY <2>1, WithHeldKeeps DEF HoldSlot
    <2>2. CASE SwapTo(i)
      BY <2>2, SwapKeepsSlots
    <2> QED
      BY <2>1, <2>2
  <1>3. \A e \in Calls: stack[e] \in StackCall
    BY <1>0
  <1>4. ASSUME NEW e \in Calls
        PROVE stack'[e] = stack[e] \/ (InSlot(e) /\ stack'[e].st = stack[e].st)
    <2>1. CASE HoldSlot(i)
      <3>1. stack' = [stack EXCEPT ![Id(i)] = Reinvited(@, "hold")]
        BY <2>1 DEF HoldSlot
      <3> QED
        BY <1>0, <1>3, <3>1, AsksLeaveStates
    <2>2. CASE SwapTo(i) /\ focused = 0
      <3>1. stack' = [stack EXCEPT ![Id(i)] = Reinvited(@, "resume")]
        BY <2>2 DEF SwapTo, Resume
      <3> QED
        BY <1>0, <1>3, <3>1, AsksLeaveStates
    <2>3. CASE SwapTo(i) /\ focused # 0
      <3> DEFINE f == Id(focused)
                 one == [stack EXCEPT ![f] = Reinvited(@, "hold")]
      <3>1. stack' = [one EXCEPT ![Id(i)] = Reinvited(@, "resume")]
        BY <2>3 DEF SwapTo, Resume, Hold
      <3>2. f \in Calls /\ InSlot(f)
        BY <1>0, <2>3, SlotTypes DEF StateOK, InSlot
      <3> HIDE DEF f
      <3>3. one \in [Calls -> StackCall]
        BY <1>0, <3>2, StackAsks
      <3>4. one[e] = stack[e] \/ (InSlot(e) /\ one[e].st = stack[e].st)
        BY <1>0, <1>3, <3>2, AsksLeaveStates
      <3> HIDE DEF one
      <3>5. stack'[e] = one[e] \/ (InSlot(e) /\ stack'[e].st = one[e].st)
        BY <1>0, <3>1, <3>3, AsksLeaveStates
      <3> QED
        BY <3>4, <3>5
    <2> QED
      BY <2>1, <2>2, <2>3
  <1> QED
    BY <1>1, <1>2, <1>4 DEF OnlyAsks, AsksInTalk

LEMMA ConferenceAsks ==
    ASSUME StateOK, StartConference
    PROVE  OnlyAsks
  <1>0. stack \in [Calls -> StackCall] /\ Len(calls) = 2 /\ DOMAIN calls = 1..2
    BY SlotTypes DEF StateOK, StartConference
  <1>1. UNCHANGED <<pendings, events, history>>
    BY DEF StartConference
  <1>2. /\ DOMAIN calls' = DOMAIN calls
        /\ \A i \in DOMAIN calls:
             calls'[i].id = calls[i].id /\ calls'[i].uri = calls[i].uri
    <2>1. \/ calls' = [i \in 1..2 |-> [calls[i] EXCEPT !.held = FALSE]]
          \/ calls' = calls
      BY DEF StartConference
    <2> QED
      BY <1>0, <2>1, UnheldKeepsSlots
  <1>3. ASSUME NEW e \in Calls
        PROVE stack'[e] = stack[e] \/ (InSlot(e) /\ stack'[e].st = stack[e].st)
    <2>1. stack'[e] = IF \E i \in 1..2: Id(i) = e /\ calls[i].held
                      THEN Reinvited(stack[e], "resume") ELSE stack[e]
      BY DEF StartConference, UnheldLegs
    <2>2. (\E i \in 1..2: Id(i) = e /\ calls[i].held) => InSlot(e)
      BY <1>0 DEF InSlot
    <2>3. Reinvited(stack[e], "resume").st = stack[e].st
      BY <1>0, AsksLeaveStates
    <2> QED
      BY <2>1, <2>2, <2>3
  <1> QED
    BY <1>1, <1>2, <1>3 DEF OnlyAsks, AsksInTalk

LEMMA AnswerLives ==
    ASSUME StateOK, LifeInv, Accept \/ Reject
    PROVE  /\ LifeInv'
           /\ \E c \in InCalls:
                /\ c = pendingCall /\ Place(c) = "ringing" /\ OnlyMoves(c)
                /\ Accept => Place(c)' = "accepted"
                /\ Reject => Place(c)' = "free" /\ stack'[c] = Declined(stack[c])
  <1>0. /\ stack \in [Calls -> StackCall] /\ NoCall \notin Calls
        /\ UNCHANGED <<calls, pendingOutbound, events>>
        /\ pendingCall # NoCall /\ pendingCall' = NoCall
    BY CallsAssumption DEF StateOK, Accept, Reject
  <1>1. PICK c \in InCalls: c = pendingCall
    BY <1>0 DEF StateOK
  <1>2. c \in Calls /\ Lives(c) /\ stack[c] \in StackCall
    BY <1>0, <1>1 DEF LifeInv, Calls
  <1>3. Place(c) = "ringing" /\ ~InSlot(c) /\ pendingAccept # c /\ pendingOutbound # c
    BY <1>1, <1>2, PlaceIs DEF Lives, OnePlace
  <1>4. \A e: InSlot(e)' <=> InSlot(e)
    BY <1>0 DEF InSlot, Id
  <1>5. Legal(c, stack[c], events[c], "ringing")
    BY <1>2, <1>3 DEF Lives
  <1>6. /\ Legal(c, Accepted(stack[c]), events[c], "accepted")
        /\ Legal(c, Declined(stack[c]), events[c], "free")
    BY <1>2, <1>5, IsAnswered
  <1>7. /\ Lives(c)'
        /\ Accept => Place(c)' = "accepted"
        /\ Reject => Place(c)' = "free" /\ stack'[c] = Declined(stack[c])
    <2>1. CASE Accept
      <3>1. stack'[c] = Accepted(stack[c]) /\ pendingAccept' = c
        BY <1>0, <1>1, <1>2, <2>1 DEF Accept
      <3>2. OnePlace(c)' /\ Place(c)' = "accepted"
        BY <1>0, <1>2, <1>3, <1>4, <3>1 DEF OnePlace, Place
      <3> QED
        BY <1>0, <1>6, <2>1, <3>1, <3>2 DEF Lives, Accept, Reject
    <2>2. CASE Reject
      <3>1. stack'[c] = Declined(stack[c]) /\ pendingAccept' = pendingAccept
        BY <1>0, <1>1, <1>2, <2>2 DEF Reject
      <3>2. OnePlace(c)' /\ Place(c)' = "free"
        BY <1>0, <1>2, <1>3, <1>4, <3>1 DEF OnePlace, Place
      <3> QED
        BY <1>0, <1>6, <2>2, <3>1, <3>2 DEF Lives, Accept, Reject
    <2> QED
      BY <2>1, <2>2
  <1>8. ASSUME NEW e \in Calls, e # c PROVE Stays(e) /\ stack'[e] = stack[e]
    <2>1. pendingAccept' = e <=> pendingAccept = e
      BY <1>0, <1>1, <1>8 DEF Accept, Reject
    <2>2. Stays(e)
      BY <1>0, <1>1, <1>4, <1>8, <2>1 DEF Stays
    <2>3. stack'[e] = stack[e]
      BY <1>0, <1>1, <1>8 DEF Accept, Reject
    <2> QED
      BY <2>2, <2>3
  <1>9. OneSlotEach'
    BY <1>0 DEF LifeInv, OneSlotEach, Id
  <1>10. OnlyMoves(c)
    BY <1>8 DEF OnlyMoves
  <1>11. \A e \in Calls: e # c => Lives(e)'
    BY <1>0, <1>10, OthersLive
  <1> QED
    BY <1>1, <1>3, <1>7, <1>9, <1>10, <1>11 DEF LifeInv

(* A slot is removed.  Its call has no other place.                         *)
LEMMA RemovedStays ==
    ASSUME StateOK, LifeInv, NEW i \in DOMAIN calls, RemoveCall(i), UNCHANGED pendings,
           NEW c, c = Id(i)
    PROVE  /\ c \in Calls /\ Place(c) = "slot" /\ OneSlotEach'
           /\ OnePlace(c)' /\ Place(c)' = "free"
           /\ \A e \in Calls: e # c => Stays(e)
  <1>1. c \in Calls /\ InSlot(c) /\ OnePlace(c)
    BY SlotTypes DEF StateOK, InSlot, LifeInv, Lives
  <1>2. OneSlotEach' /\ \A e: InSlot(e)' <=> (InSlot(e) /\ e # c)
    BY SlotRemoved DEF LifeInv
  <1>3. c \notin {pendingOutbound, pendingCall, pendingAccept}
    BY <1>1 DEF OnePlace
  <1>4. OnePlace(c)' /\ Place(c)' = "free"
    BY <1>2, <1>3 DEF OnePlace, Place, pendings
  <1> QED
    BY <1>1, <1>2, <1>4 DEF Place, Stays, pendings

LEMMA HangUpLives ==
    ASSUME StateOK, LifeInv, NEW i \in DOMAIN calls, HangUp(i)
    PROVE  /\ LifeInv'
           /\ \E c \in Calls:
                /\ c = Id(i) /\ Place(c) = "slot" /\ Place(c)' = "free"
                /\ stack'[c] = HungUp(stack[c]) /\ OnlyMoves(c)
  <1>1. PICK c \in Calls: c = Id(i)
    BY SlotTypes DEF StateOK
  <1>2. /\ Place(c) = "slot" /\ OneSlotEach' /\ OnePlace(c)' /\ Place(c)' = "free"
        /\ \A e \in Calls: e # c => Stays(e)
    BY <1>1, RemovedStays DEF HangUp
  <1>3. /\ stack'[c] = HungUp(stack[c]) /\ events' = events
        /\ \A e \in Calls: e # c => stack'[e] = stack[e]
    BY <1>1 DEF HangUp, StateOK
  <1>4. Lives(c)'
    <2>1. Legal(c, stack[c], events[c], "slot")
      BY <1>2 DEF LifeInv, Lives
    <2>2. Legal(c, HungUp(stack[c]), events[c], "free")
      BY <2>1, IsHungUp DEF StateOK
    <2> QED
      BY <1>2, <1>3, <2>2 DEF Lives
  <1>5. OnlyMoves(c)
    BY <1>2, <1>3 DEF OnlyMoves
  <1>6. \A e \in Calls: e # c => Lives(e)'
    BY <1>3, <1>5, OthersLive
  <1> QED
    BY <1>1, <1>2, <1>3, <1>4, <1>5, <1>6 DEF LifeInv

LEMMA UserActsLive ==
    ASSUME StateOK, LifeInv, UserActs
    PROVE  LifeInv'
  BY DialLives, TransferAsks, AnswerLives, HangUpLives, HoldAsks, ConferenceAsks, AskLives
  DEF UserActs

(* The client's reactions.                                                  *)
LEMMA Taken ==
    ASSUME StateOK, NEW c \in Calls, HandleEvent(c)
    PROVE  /\ events[c] # <<>> /\ events[c] \in Seq(Event) /\ stack[c] \in StackCall
           /\ React(c, Head(events[c]))
           /\ events'[c] = Tail(events[c])
           /\ \A e \in Calls: e # c => events'[e] = events[e]
  BY DEF StateOK, HandleEvent

LEMMA AnnouncementLives ==
    ASSUME StateOK, LifeInv, NEW c \in Calls, HandleEvent(c),
           Head(events[c]) = "IncomingCall", OnIncomingCall(c)
    PROVE  /\ LifeInv' /\ Place(c) = "free" /\ OnlyMoves(c)
           /\ Place(c)' = "free" \/ (Place(c)' = "ringing" /\ UNCHANGED history)
  <1>0. /\ events[c] # <<>> /\ events[c] \in Seq(Event) /\ stack[c] \in StackCall
        /\ events'[c] = Tail(events[c])
        /\ \A e \in Calls: e # c => events'[e] = events[e]
        /\ NoCall \notin Calls /\ stack \in [Calls -> StackCall]
    BY Taken, CallsAssumption DEF StateOK
  <1>1. UNCHANGED <<calls, pendingOutbound, pendingAccept>>
    BY DEF OnIncomingCall
  <1>2. Lives(c) /\ Legal(c, stack[c], events[c], Place(c))
    BY DEF LifeInv, Lives
  <1>3. /\ Place(c) = "free"
        /\ Legal(c, stack[c], events'[c], "ringing")
        /\ Legal(c, Declined(stack[c]), events'[c], "free")
        /\ Legal(c, Becomes(stack[c], "ringing", "busy"), events'[c], "free")
    BY <1>0, <1>2, TakesAnnouncement
  <1>4. ~InSlot(c) /\ pendingCall # c /\ pendingAccept # c /\ pendingOutbound # c
    BY <1>2, <1>3, FreeOfAll DEF Lives
  <1>5. \A e: InSlot(e)' <=> InSlot(e)
    BY <1>1 DEF InSlot, Id
  <1>6. OneSlotEach'
    BY <1>1 DEF LifeInv, OneSlotEach, Id
  <1>7. CASE /\ pendingCall' = pendingCall
             /\ \/ stack' = [stack EXCEPT ![c] = Declined(@)]
                \/ stack' = [stack EXCEPT ![c] = Becomes(@, "ringing", "busy")]
    <2>1. OnePlace(c)' /\ Place(c)' = "free"
      BY <1>1, <1>4, <1>5, <1>7 DEF OnePlace, Place
    <2>2. Lives(c)'
      BY <1>0, <1>3, <1>7, <2>1 DEF Lives
    <2>3. \A e \in Calls: e # c => Stays(e) /\ stack'[e] = stack[e]
      BY <1>0, <1>1, <1>5, <1>7 DEF Stays
    <2>4. OnlyMoves(c)
      BY <2>3 DEF OnlyMoves
    <2>5. \A e \in Calls: e # c => Lives(e)'
      BY <1>0, <2>4, OthersLive
    <2> QED
      BY <1>3, <1>6, <2>1, <2>2, <2>4, <2>5 DEF LifeInv
  <1>8. CASE pendingCall = NoCall /\ pendingCall' = c /\ UNCHANGED <<stack, history>>
    <2>1. OnePlace(c)' /\ Place(c)' = "ringing"
      BY <1>1, <1>4, <1>5, <1>8 DEF OnePlace, Place
    <2>2. Lives(c)'
      BY <1>3, <1>8, <2>1 DEF Lives
    <2>3. \A e \in Calls: e # c => Stays(e) /\ stack'[e] = stack[e]
      BY <1>0, <1>1, <1>5, <1>8 DEF Stays
    <2>4. OnlyMoves(c)
      BY <2>3 DEF OnlyMoves
    <2>5. \A e \in Calls: e # c => Lives(e)'
      BY <1>0, <2>4, OthersLive
    <2> QED
      BY <1>3, <1>6, <1>8, <2>1, <2>2, <2>4, <2>5 DEF LifeInv
  <1> QED
    BY <1>7, <1>8 DEF OnIncomingCall

(* The dialled call is given up, by mistake.                                *)
LEMMA ForgottenLives ==
    ASSUME StateOK, NEW d \in Calls, Lives(d), pendingOutbound = d,
           InSlot(d)' <=> InSlot(d), pendingCall' = d <=> pendingCall = d,
           pendingAccept' = d <=> pendingAccept = d, pendingOutbound' # d,
           stack'[d] = stack[d], events'[d] = events[d]
    PROVE  Lives(d)'
  <1>1. /\ d \in OutCalls /\ Place(d) = "dialled" /\ ~InSlot(d)
        /\ pendingCall # d /\ pendingAccept # d
    <2>1. d \in OutCalls
      BY CallsAssumption DEF StateOK
    <2> QED
      BY <2>1, PlaceIs DEF Lives, OnePlace
  <1>2. Legal(d, stack[d], events[d], "free")
    BY <1>1, IsForgotten DEF Lives
  <1>3. OnePlace(d)' /\ Place(d)' = "free"
    BY <1>1 DEF OnePlace, Place
  <1> QED
    BY <1>2, <1>3 DEF Lives

(* The focused call is asked to hold when another comes up.                 *)
LEMMA AcceptedAsks ==
    ASSUME StateOK, NEW c \in Calls, OnAcceptedConnected(c)
    PROVE  AsksInTalk
  <1>0. stack \in [Calls -> StackCall]
    BY DEF StateOK
  <1>1. CASE focused = 0
    BY <1>1 DEF OnAcceptedConnected, AsksInTalk
  <1>2. CASE focused # 0
    <2>1. focused \in DOMAIN calls
      BY <1>2, SlotTypes DEF StateOK
    <2>2. Id(focused) \in Calls /\ InSlot(Id(focused))
      BY <2>1, SlotTypes DEF StateOK, InSlot
    <2>3. stack' = [stack EXCEPT ![Id(focused)] = Reinvited(@, "hold")]
      BY <1>2 DEF OnAcceptedConnected, Hold
    <2> QED
      BY <1>0, <2>2, <2>3, AsksLeaveStates DEF AsksInTalk
  <1> QED
    BY <1>1, <1>2

LEMMA ConnectLives ==
    ASSUME StateOK, LifeInv, NEW c \in Calls, HandleEvent(c),
           Head(events[c]) = "CallConnected", OnCallConnected(c)
    PROVE  /\ LifeInv'
           /\ Awaited(c, Place(c))
           /\ pendingAccept = c \/ pendingOutbound \in {c, NoCall} => OnlyMoves(c)
  <1>0. /\ events[c] # <<>> /\ events[c] \in Seq(Event) /\ stack[c] \in StackCall
        /\ events'[c] = Tail(events[c])
        /\ \A e \in Calls: e # c => events'[e] = events[e]
        /\ NoCall \notin Calls /\ stack \in [Calls -> StackCall] /\ OneSlotEach
        /\ \A e \in Calls: Lives(e)
    BY Taken, CallsAssumption DEF StateOK, LifeInv
  <1>1. OnePlace(c) /\ Legal(c, stack[c], events[c], Place(c))
    BY DEF LifeInv, Lives
  <1>2. /\ Awaited(c, Place(c))
        /\ Legal(c, stack[c], events'[c], "slot")
        /\ c \in OutCalls => Legal(c, stack[c], events'[c], "free")
    BY <1>0, <1>1, TakesConnect
  <1>3. CASE pendingAccept = c /\ OnAcceptedConnected(c)
    <2>1. ~InSlot(c) /\ pendingCall # c /\ pendingOutbound # c
      BY <1>1, <1>3, PlaceIs DEF OnePlace, Calls
    <2>2. /\ pendingAccept' = NoCall
          /\ UNCHANGED <<pendingOutbound, pendingCall>>
      BY <1>3 DEF OnAcceptedConnected
    <2>3. Shows(c, c)
      BY <1>3, AcceptedShows
    <2>4. OneSlotEach' /\ \A e: InSlot(e)' <=> (InSlot(e) \/ e = c)
      BY <1>0, <2>1, <2>3, SlotShown
    <2>5. AsksInTalk
      BY <1>3, AcceptedAsks
    <2>6. Lives(c)' /\ Place(c)' = "slot"
      <3>1. OnePlace(c)' /\ Place(c)' = "slot"
        BY <1>0, <2>1, <2>2, <2>4 DEF OnePlace, Place
      <3>2. stack'[c] = stack[c]
        BY <2>1, <2>5 DEF AsksInTalk
      <3> QED
        BY <1>2, <3>1, <3>2 DEF Lives
    <2>7. \A e \in Calls: e # c => Stays(e)
      BY <1>0, <1>3, <2>2, <2>4 DEF Stays
    <2>8. OnlyMoves(c)
      BY <2>5, <2>7 DEF AsksInTalk, OnlyMoves
    <2>9. \A e \in Calls: e # c => Lives(e)'
      BY <1>0, <2>8, OthersLive
    <2> QED
      BY <1>2, <2>4, <2>6, <2>8, <2>9 DEF LifeInv
  <1>4. CASE pendingAccept # c
    <2>1. /\ c \in OutCalls /\ ~InSlot(c) /\ pendingCall # c
          /\ pendingOutbound # c => Place(c) = "free"
          /\ pendingOutbound = c => Place(c) = "dialled"
      <3>1. c \notin InCalls
        BY <1>1, <1>2, <1>4, PlaceIs DEF Awaited
      <3>2. Place(c) = "dialled" \/ Place(c) = "free"
        BY <1>2, <3>1 DEF Awaited
      <3> QED
        BY <1>1, <3>1, <3>2, PlaceIs DEF Calls
    <2>2. CASE pendingOutbound # NoCall /\ OnDialledConnected(c)
      <3>1. /\ pendingOutbound' = NoCall
            /\ UNCHANGED <<stack, pendingCall, pendingAccept>>
        BY <2>2 DEF OnDialledConnected
      <3>2. OneSlotEach' /\ \A e: InSlot(e)' <=> (InSlot(e) \/ e = c)
        BY <1>0, <2>1, <2>2, DialledShows, SlotShown
      <3>3. Lives(c)' /\ Place(c)' = "slot"
        <4>1. OnePlace(c)' /\ Place(c)' = "slot"
          BY <1>0, <1>4, <2>1, <3>1, <3>2 DEF OnePlace, Place
        <4> QED
          BY <1>2, <3>1, <4>1 DEF Lives
      <3>4. ASSUME NEW e \in Calls, e # c PROVE Lives(e)'
        <4>1. CASE pendingOutbound = e
          BY <1>0, <2>1, <3>1, <3>2, <3>4, <4>1, ForgottenLives
        <4>2. CASE pendingOutbound # e
          <5>1. Stays(e)
            BY <1>0, <3>1, <3>2, <3>4, <4>2 DEF Stays
          <5> QED
            BY <1>0, <3>1, <3>4, <5>1, LivesOn
        <4> QED
          BY <4>1, <4>2
      <3>5. pendingOutbound = c => OnlyMoves(c)
        <4>1. ASSUME pendingOutbound = c, NEW e \in Calls, e # c PROVE Stays(e)
          BY <1>0, <3>1, <3>2, <4>1 DEF Stays
        <4> QED
          BY <3>1, <4>1 DEF OnlyMoves
      <3> QED
        BY <1>2, <1>4, <2>2, <3>2, <3>3, <3>4, <3>5 DEF LifeInv
    <2>3. CASE pendingOutbound = NoCall /\ UNCHANGED <<calls, audio, pendings, stack>>
      <3>1. Place(c) = "free"
        BY <1>0, <2>1, <2>3
      <3>2. \A e: InSlot(e)' <=> InSlot(e)
        BY <2>3 DEF InSlot, Id
      <3>3. \A e \in Calls: Stays(e)
        BY <2>3, <3>2 DEF Stays, pendings
      <3>4. Lives(c)'
        <4>1. OnePlace(c)' /\ Place(c)' = "free"
          BY <1>1, <3>1, <3>3, PlaceStays
        <4> QED
          BY <1>2, <2>1, <2>3, <3>1, <4>1 DEF Lives
      <3>5. \A e \in Calls: e # c => Lives(e)'
        BY <1>0, <2>3, <3>3, LivesOn
      <3>6. OneSlotEach'
        BY <1>0, <2>3 DEF OneSlotEach, Id
      <3>7. OnlyMoves(c)
        BY <2>3, <3>3 DEF OnlyMoves
      <3> QED
        BY <1>2, <3>4, <3>5, <3>6, <3>7 DEF LifeInv
    <2> QED
      BY <1>4, <2>2, <2>3 DEF OnCallConnected
  <1> QED
    BY <1>3, <1>4 DEF OnCallConnected

LEMMA EndLives ==
    ASSUME StateOK, LifeInv, NEW c \in Calls, HandleEvent(c),
           Head(events[c]) = "CallEnded", OnCallEnded(c)
    PROVE  /\ LifeInv' /\ Place(c)' = "free"
           /\ \/ OnlyMoves(c)
              \/ EndsPendingOutbound(c) /\ pendingOutbound \notin {c, NoCall}
  <1>0. /\ events[c] # <<>> /\ events[c] \in Seq(Event)
        /\ events'[c] = Tail(events[c])
        /\ \A e \in Calls: e # c => events'[e] = events[e]
        /\ NoCall \notin Calls /\ OneSlotEach /\ stack' = stack
        /\ \A e \in Calls: Lives(e)
    BY Taken, CallsAssumption DEF LifeInv, OnCallEnded
  <1>1. OnePlace(c) /\ Legal(c, stack[c], events[c], Place(c))
    BY <1>0 DEF Lives
  <1>2. Legal(c, stack'[c], events'[c], "free")
    BY <1>0, <1>1, TakesEnd
  <1>3. ASSUME OnePlace(c)', Place(c)' = "free" PROVE Lives(c)'
    BY <1>2, <1>3 DEF Lives
  <1>4. CASE EndsPendingCall(c) \/ EndsPendingAccept(c)
    <2>1. /\ UNCHANGED <<calls, pendingOutbound>>
          /\ \/ /\ pendingCall = c /\ pendingCall' = NoCall
                /\ pendingAccept' = pendingAccept
             \/ /\ pendingAccept = c /\ pendingAccept' = NoCall
                /\ pendingCall' = pendingCall
      BY <1>4 DEF EndsPendingCall, EndsPendingAccept
    <2>2. c \in InCalls /\ pendingOutbound # c /\ ~InSlot(c)
          /\ (pendingCall = c => pendingAccept # c)
      <3>1. c \in InCalls
        BY <2>1, CallsAssumption DEF StateOK, Calls
      <3> QED
        BY <1>1, <2>1, <3>1, PlaceIs DEF OnePlace
    <2>3. OneSlotEach' /\ \A e: InSlot(e)' <=> InSlot(e)
      BY <1>0, <2>1 DEF OneSlotEach, InSlot, Id
    <2>4. OnePlace(c)' /\ Place(c)' = "free"
      BY <1>0, <2>1, <2>2, <2>3 DEF OnePlace, Place
    <2>5. \A e \in Calls: e # c => Stays(e)
      BY <1>0, <2>1, <2>3 DEF Stays
    <2>6. OnlyMoves(c)
      BY <1>0, <2>5 DEF OnlyMoves
    <2>7. \A e \in Calls: e # c => Lives(e)'
      BY <1>0, <2>6, OthersLive
    <2> QED
      BY <1>3, <2>3, <2>4, <2>6, <2>7 DEF LifeInv
  <1>5. CASE EndsSlot(c)
    <2>1. PICK i \in DOMAIN calls: RemoveCall(i) /\ c = Id(i)
      BY <1>5 DEF EndsSlot, SlotsOf
    <2>2. UNCHANGED pendings
      BY <1>5 DEF EndsSlot
    <2>3. /\ OneSlotEach' /\ OnePlace(c)' /\ Place(c)' = "free"
          /\ \A e \in Calls: e # c => Stays(e)
      BY <2>1, <2>2, RemovedStays
    <2>4. OnlyMoves(c)
      BY <1>0, <2>3 DEF OnlyMoves
    <2>5. \A e \in Calls: e # c => Lives(e)'
      BY <1>0, <2>4, OthersLive
    <2> QED
      BY <1>3, <2>3, <2>4, <2>5 DEF LifeInv
  <1>6. CASE EndsPendingOutbound(c)
    <2>1. /\ UNCHANGED <<calls, pendingCall, pendingAccept>>
          /\ pendingCall # c /\ pendingAccept # c
          /\ ~InSlot(c)
          /\ pendingOutbound' = NoCall
      BY <1>6 DEF EndsPendingOutbound, SlotsOf, InSlot
    <2>2. OneSlotEach' /\ \A e: InSlot(e)' <=> InSlot(e)
      BY <1>0, <2>1 DEF OneSlotEach, InSlot, Id
    <2>3. OnePlace(c)' /\ Place(c)' = "free"
      BY <1>0, <2>1, <2>2 DEF OnePlace, Place
    <2>4. ASSUME NEW e \in Calls, e # c PROVE Lives(e)'
      <3>1. CASE pendingOutbound = e
        BY <1>0, <2>1, <2>2, <2>4, <3>1, ForgottenLives
      <3>2. CASE pendingOutbound # e
        <4>1. Stays(e)
          BY <1>0, <2>1, <2>2, <3>2 DEF Stays
        <4> QED
          BY <1>0, <2>4, <4>1, LivesOn
      <3> QED
        BY <3>1, <3>2
    <2>5. pendingOutbound \in {c, NoCall} => OnlyMoves(c)
      <3>1. ASSUME pendingOutbound \in {c, NoCall}, NEW e \in Calls, e # c PROVE Stays(e)
        BY <1>0, <2>1, <2>2, <3>1 DEF Stays
      <3> QED
        BY <1>0, <3>1 DEF OnlyMoves
    <2> QED
      BY <1>3, <1>6, <2>2, <2>3, <2>4, <2>5 DEF LifeInv
  <1> QED
    BY <1>4, <1>5, <1>6 DEF OnCallEnded

(* An event that is none of the three, when the slots keep their calls.     *)
LEMMA OtherLives ==
    ASSUME StateOK, LifeInv, NEW c \in Calls, HandleEvent(c),
           Head(events[c]) \notin {"IncomingCall", "CallConnected", "CallEnded"},
           UNCHANGED <<pendings, stack>>,
           DOMAIN calls' = DOMAIN calls,
           \A i \in DOMAIN calls: calls'[i].id = calls[i].id
    PROVE  LifeInv'
  <1>0. /\ events[c] # <<>> /\ events[c] \in Seq(Event)
        /\ events'[c] = Tail(events[c])
        /\ \A e \in Calls: e # c => events'[e] = events[e]
        /\ OneSlotEach
        /\ \A e \in Calls: Lives(e)
    BY Taken DEF LifeInv
  <1>1. OneSlotEach' /\ \A e: InSlot(e)' <=> InSlot(e)
    BY <1>0, SlotsKept
  <1>2. \A e \in Calls: Stays(e)
    BY <1>1 DEF Stays, pendings
  <1>3. Lives(c)'
    <2>1. OnePlace(c) /\ Legal(c, stack[c], events[c], Place(c))
      BY <1>0 DEF Lives
    <2>2. Legal(c, stack[c], events'[c], Place(c))
      BY <1>0, <2>1, TakesOther
    <2>3. OnePlace(c)' /\ Place(c)' = Place(c)
      BY <1>2, <2>1, PlaceStays
    <2> QED
      BY <2>2, <2>3 DEF Lives
  <1>4. \A e \in Calls: e # c => Lives(e)'
    BY <1>0, <1>2, LivesOn
  <1> QED
    BY <1>1, <1>3, <1>4 DEF LifeInv

LEMMA TransferAnswerLives ==
    ASSUME StateOK, LifeInv, NEW c \in Calls, HandleEvent(c),
           Head(events[c]) \notin {"IncomingCall", "CallConnected", "CallEnded"},
           OnTransferAccepted \/ OnTransferFailed
    PROVE  /\ LifeInv'
           /\ HangUpBoth(TRUE) => \A e \in Calls:
                IF InSlot(e)
                THEN /\ Place(e) = "slot" /\ Place(e)' = "free"
                     /\ stack'[e] = HungUp(stack[e])
                ELSE Stays(e) /\ stack'[e] = stack[e]
           /\ ~HangUpBoth(TRUE) => KeepBoth
  <1>1. CASE KeepBoth /\ ~HangUpBoth(TRUE)
    <2>1. UNCHANGED <<calls, pendings, stack>>
      BY <1>1 DEF KeepBoth
    <2> QED
      BY <1>1, <2>1, OtherLives
  <1>2. CASE HangUpBoth(TRUE)
    <2>0. /\ events[c] # <<>> /\ events[c] \in Seq(Event)
          /\ events'[c] = Tail(events[c])
          /\ \A e \in Calls: e # c => events'[e] = events[e]
          /\ \A e \in Calls: Lives(e)
      BY Taken DEF LifeInv
    <2>1. /\ calls' = <<>> /\ UNCHANGED pendings
          /\ \A e \in Calls: stack'[e] = IF InSlot(e) THEN HungUp(stack[e]) ELSE stack[e]
      BY <1>2 DEF HangUpBoth, SlotsOf, InSlot
    <2>2. OneSlotEach' /\ \A e: ~InSlot(e)'
      BY <2>1 DEF OneSlotEach, InSlot
    <2>3. ASSUME NEW e \in Calls
          PROVE  /\ Lives(e)'
                 /\ IF InSlot(e)
                    THEN /\ Place(e) = "slot" /\ Place(e)' = "free"
                         /\ stack'[e] = HungUp(stack[e])
                    ELSE Stays(e) /\ stack'[e] = stack[e]
      <3>1. OnePlace(e) /\ stack[e] \in StackCall /\ events[e] \in Seq(Event)
        BY <2>0 DEF Lives, StateOK
      <3>2. events'[e] \in Seq(Event) /\ Legal(e, stack[e], events'[e], Place(e))
        <4>1. Legal(e, stack[e], events[e], Place(e))
          BY <2>0 DEF Lives
        <4>2. CASE e = c
          <5>1. events[e] # <<>> /\ events'[e] = Tail(events[e])
                /\ Head(events[e]) \notin {"IncomingCall", "CallConnected", "CallEnded"}
            BY <2>0, <4>2
          <5>2. Legal(e, stack[e], Tail(events[e]), Place(e))
            BY <3>1, <4>1, <5>1, TakesOther
          <5>3. Tail(events[e]) \in Seq(Event)
            BY <3>1, <5>1, QueueTail
          <5> QED
            BY <5>1, <5>2, <5>3
        <4>3. CASE e # c
          BY <2>0, <3>1, <4>1, <4>3
        <4> QED
          BY <4>2, <4>3
      <3>3. CASE InSlot(e)
        <4>1. Place(e) = "slot" /\ e \notin {pendingOutbound, pendingCall, pendingAccept}
          BY <3>1, <3>3 DEF Place, OnePlace
        <4>2. OnePlace(e)' /\ Place(e)' = "free"
          BY <2>1, <2>2, <4>1 DEF OnePlace, Place, pendings
        <4>3. Legal(e, HungUp(stack[e]), events'[e], "free")
          BY <3>1, <3>2, <4>1, IsHungUp
        <4> QED
          BY <2>1, <3>3, <4>1, <4>2, <4>3 DEF Lives
      <3>4. CASE ~InSlot(e)
        <4>1. OnePlace(e)' /\ Place(e)' = Place(e)
          BY <2>1, <2>2, <3>1, <3>4 DEF OnePlace, Place, pendings
        <4>2. Stays(e)
          BY <2>1, <2>2, <3>4 DEF Stays, pendings
        <4> QED
          BY <2>1, <3>2, <3>4, <4>1, <4>2 DEF Lives
      <3> QED
        BY <3>3, <3>4
    <2> QED
      BY <1>2, <2>2, <2>3 DEF LifeInv
  <1> QED
    BY <1>1, <1>2 DEF OnTransferAccepted, OnTransferFailed

LEMMA EventLives ==
    ASSUME StateOK, LifeInv, NEW c \in Calls, HandleEvent(c)
    PROVE  LifeInv'
  <1>1. React(c, Head(events[c]))
    BY Taken
  <1>2. CASE Head(events[c]) = "IncomingCall" /\ OnIncomingCall(c)
    BY <1>2, AnnouncementLives
  <1>3. CASE Head(events[c]) = "CallConnected" /\ OnCallConnected(c)
    BY <1>3, ConnectLives
  <1>4. CASE Head(events[c]) = "CallEnded" /\ OnCallEnded(c)
    BY <1>4, EndLives
  <1>5. ASSUME NEW held \in BOOLEAN, OnHeld(c, held),
               Head(events[c]) \in {"CallHeld", "CallResumed"}
        PROVE  LifeInv'
    <2>1. /\ DOMAIN calls' = DOMAIN calls
          /\ \A i \in DOMAIN calls: calls'[i].id = calls[i].id
      BY <1>5, HeldKeepsSlots
    <2>2. UNCHANGED <<pendings, stack>>
      BY <1>5 DEF OnHeld
    <2> QED
      BY <1>5, <2>1, <2>2, OtherLives
  <1>6. CASE /\ Head(events[c]) \in {"TransferAccepted", "TransferFailed"}
             /\ OnTransferAccepted \/ OnTransferFailed
    BY <1>6, TransferAnswerLives
  <1> QED
    BY <1>1, <1>2, <1>3, <1>4, <1>5, <1>6 DEF React

LEMMA StackLives ==
    ASSUME StateOK, LifeInv, NEW c \in Calls, StackActs(c)
    PROVE  LifeInv'
  <1>0. /\ UNCHANGED <<calls, pendings>>
        /\ \A e \in Calls: e # c => stack'[e] = stack[e]
        /\ \A e \in Calls: Lives(e)
        /\ stack[c] \in StackCall /\ events[c] \in Seq(Event)
        /\ stack \in [Calls -> StackCall]
    BY StackMove DEF Client, LifeInv, StateOK
  <1>1. PICK ev \in Event: Emit(c, <<ev>>)
    BY StackMove
  <1>2. /\ events'[c] = events[c] \o <<ev>>
        /\ \A e \in Calls: e # c => events'[e] = events[e]
    BY <1>1 DEF Emit, StateOK
  <1>3. OneSlotEach' /\ \A e: InSlot(e)' <=> InSlot(e)
    BY <1>0 DEF LifeInv, OneSlotEach, InSlot, Id
  <1>4. \A e \in Calls: Stays(e)
    BY <1>0, <1>3 DEF Stays, pendings
  <1>5. OnePlace(c)' /\ Place(c)' = Place(c)
    BY <1>0, <1>4, PlaceStays DEF Lives
  <1>6. Legal(c, stack[c], events[c], Place(c))
    BY <1>0 DEF Lives
  <1>7. Legal(c, stack'[c], events'[c], Place(c))
    <2>1. CASE StackRings(c)
      <3>1. /\ c \in InCalls /\ stack[c].st = "none"
            /\ stack'[c] = [stack[c] EXCEPT !.st = "ringing"]
            /\ events'[c] = events[c] \o <<"IncomingCall">>
        BY <1>0, <2>1 DEF StackRings, Emit, StateOK
      <3> QED
        BY <1>0, <1>6, <3>1, Rings
    <2>2. CASE StackConnects(c)
      <3>1. /\ stack[c].st \in {"trying", "answering"}
            /\ stack'[c] = [stack[c] EXCEPT !.st = "up"]
            /\ events'[c] = events[c] \o <<"CallConnected">>
        BY <1>0, <2>2 DEF StackConnects, Emit, StateOK
      <3> QED
        BY <1>0, <1>6, <3>1, Connects
    <2>3. CASE StackEnds(c)
      <3>1. /\ stack[c].st # "gone" /\ stack'[c] = Over(stack[c])
            /\ events'[c] = events[c] \o <<"CallEnded">>
        BY <1>0, <2>3 DEF StackEnds, Emit, StateOK
      <3> QED
        BY <1>0, <1>6, <3>1, Ends
    <2>4. ASSUME NEW t, stack'[c] = t, t.st = stack[c].st, ~Unasked(stack[c]),
                 NEW told \in Event, Emit(c, <<told>>),
                 told \notin {"IncomingCall", "CallConnected", "CallEnded"}
          PROVE Legal(c, stack'[c], events'[c], Place(c))
      <3>1. events'[c] = events[c] \o <<told>>
        BY <2>4 DEF Emit, StateOK
      <3>2. Legal(c, t, events[c] \o <<told>>, Place(c))
        BY <1>0, <1>6, <2>4, Answers
      <3> QED
        BY <2>4, <3>1, <3>2
    <2>5. CASE StackReinvited(c)
      <3> DEFINE told == IF stack[c].holdPending = "resume" THEN "CallResumed" ELSE "CallHeld"
                 t == [stack[c] EXCEPT !.reinvites = @ - 1, !.holdPending = "none"]
      <3>1. /\ Emit(c, <<told>>) /\ told \in Event
            /\ told \notin {"IncomingCall", "CallConnected", "CallEnded"}
        BY <2>5 DEF StackReinvited, Event
      <3>2. ~Unasked(stack[c]) /\ t.st = stack[c].st
        BY <1>0, <2>5 DEF StackReinvited, StackCall, Unasked
      <3>3. stack'[c] = t
        BY <1>0, <2>5 DEF StackReinvited
      <3> HIDE DEF told, t
      <3> QED
        BY <2>4, <3>1, <3>2, <3>3
    <2>6. CASE StackReferred(c)
      <3>1. PICK told \in {"TransferAccepted", "TransferFailed"}: Emit(c, <<told>>)
        BY <2>6 DEF StackReferred
      <3> DEFINE t == [stack[c] EXCEPT !.refers = @ - 1]
      <3>2. ~Unasked(stack[c]) /\ t.st = stack[c].st
        BY <1>0, <2>6 DEF StackReferred, StackCall, Unasked
      <3>3. stack'[c] = t
        BY <1>0, <2>6 DEF StackReferred
      <3>4. /\ told \in Event
            /\ told \notin {"IncomingCall", "CallConnected", "CallEnded"}
        BY DEF Event
      <3> HIDE DEF t
      <3> QED
        BY <2>4, <3>1, <3>2, <3>3, <3>4
    <2> QED
      BY <2>1, <2>2, <2>3, <2>5, <2>6 DEF StackActs
  <1>8. Lives(c)'
    BY <1>5, <1>7 DEF Lives
  <1>9. \A e \in Calls: e # c => Lives(e)'
    BY <1>0, <1>2, <1>4, LivesOn
  <1> QED
    BY <1>3, <1>8, <1>9 DEF LifeInv

LEMMA LifeInductive == StateOK /\ LifeInv /\ [Next]_vars => LifeInv'
  <1> SUFFICES ASSUME StateOK, LifeInv, [Next]_vars PROVE LifeInv'
    OBVIOUS
  <1>1. CASE UserActs
    BY <1>1, UserActsLive
  <1>2. CASE \E c \in Calls: HandleEvent(c)
    BY <1>2, EventLives
  <1>3. CASE \E c \in Calls: StackActs(c)
    BY <1>3, StackLives
  <1>4. CASE UNCHANGED vars
    <2>1. OnlyAsks
      BY <1>4 DEF vars, OnlyAsks, AsksInTalk
    <2> QED
      BY <2>1, AskLives
  <1> QED
    BY <1>1, <1>2, <1>3, <1>4 DEF Next

LEMMA InitLives == Init => LifeInv
  <1> SUFFICES ASSUME Init PROVE LifeInv
    OBVIOUS
  <1>1. OneSlotEach /\ \A e: ~InSlot(e)
    BY DEF Init, OneSlotEach, InSlot
  <1>2. ASSUME NEW e \in Calls PROVE Lives(e)
    <2>1. /\ pendingCall # e /\ pendingAccept # e /\ pendingOutbound # e
          /\ events[e] = <<>> /\ stack[e].st = "none" /\ Unasked(stack[e])
      BY CallsAssumption DEF Init, Unasked
    <2>2. OnePlace(e) /\ Place(e) = "free"
      BY <1>1, <2>1 DEF OnePlace, Place
    <2> QED
      BY <2>1, <2>2 DEF Lives, Legal, Orderly, Begun, InTalk, LetGo
  <1> QED
    BY <1>1, <1>2 DEF LifeInv

LEMMA LifeAlways == Spec => []LifeInv
  <1>1. Typed => StateOK
    BY DEF Typed
  <1> QED
    BY <1>1, InitLives, LifeInductive, TypedAlways, PTL DEF Spec

(* Nothing the user sees is dead: what the stack no longer has, an event on *)
(* its way will take from its slot or from the screen (on_call_terminated), *)
(* even though dialled calls are matched by elimination.                    *)
THEOREM NothingShownIsDead == Spec => []NoDeadCall
  <1>1. StateOK /\ LifeInv => NoDeadCall
    <2> SUFFICES ASSUME StateOK, LifeInv, NEW c \in Calls,
                        InSlot(c) \/ c \in {pendingOutbound, pendingCall, pendingAccept},
                        stack[c].st \notin {"trying", "ringing", "answering", "up"}
                 PROVE  Queued(c, "CallEnded")
      BY DEF NoDeadCall
    <2>1. OnePlace(c) /\ Legal(c, stack[c], events[c], Place(c)) /\ stack[c] \in StackCall
      BY DEF LifeInv, Lives, StateOK
    <2>2. Place(c) # "free"
      BY <2>1, FreeOfAll
    <2>3. stack[c].st = "gone"
      BY <2>1, <2>2 DEF Legal, Begun, LetGo, StackCall
    <2>4. Ended(events[c])
      BY <2>1, <2>2, <2>3 DEF Legal, LetGo
    <2> QED
      BY <2>4 DEF Ended, Queued
  <1>2. Typed => StateOK
    BY DEF Typed
  <1> QED
    BY <1>1, <1>2, LifeAlways, TypedAlways, PTL

-----------------------------------------------------------------------------
(* What a step of the client asks of the far ends: whom it puts on hold,    *)
(* and whom it resumes.                                                     *)

(* The call e of the stack talks as it did, if it talks.                    *)
TalksOn(e) ==
    stack'[e].st = "up" =>
        /\ stack[e].st = "up"
        /\ stack'[e].dir = stack[e].dir
        /\ stack'[e].reinvites = stack[e].reinvites
        /\ stack'[e].holdPending = stack[e].holdPending

PutOnHold(e) == stack'[e] = Reinvited(stack[e], "hold")
Resumed(e) == stack'[e] = Reinvited(stack[e], "resume")

LEMMA Commands ==
    ASSUME NEW s \in StackCall, NEW t,
           t \in {s, HungUp(s), Declined(s), Accepted(s), Becomes(s, "ringing", "busy")}
    PROVE  t.st = "up" => t = s
  BY DEF HungUp, Declined, Accepted, Becomes, StackCall

LEMMA Reinvitations ==
    ASSUME NEW s \in StackCall, NEW kind \in {"hold", "resume"}, NEW t,
           t = Reinvited(s, kind)
    PROVE  /\ t.st = s.st
           /\ t.st = "up" =>
                /\ t.dir = IF kind = "hold" THEN "sendonly" ELSE "sendrecv"
                /\ t.holdPending = kind
                /\ t.reinvites > 0
  <1>1. CASE s.st = "up"
    <2> DEFINE n == s.reinvites + 1
               d == IF kind = "hold" THEN "sendonly" ELSE "sendrecv"
    <2>1. n > 0
      BY DEF StackCall
    <2>2. t = [s EXCEPT !.dir = d, !.holdPending = kind, !.reinvites = n]
      BY <1>1 DEF Reinvited
    <2> HIDE DEF n, d
    <2>3. /\ t.st = s.st /\ t.dir = d /\ t.holdPending = kind
          /\ t.reinvites = n
      BY <2>2 DEF StackCall
    <2> QED
      BY <2>1, <2>3 DEF d
  <1>2. CASE s.st # "up"
    BY <1>2 DEF Reinvited
  <1> QED
    BY <1>1, <1>2

LEMMA CommandedCall ==
    ASSUME StateOK, NEW e \in Calls,
           \/ stack'[e] = stack[e]
           \/ stack'[e] = HungUp(stack[e])
           \/ stack'[e] = Declined(stack[e])
           \/ stack'[e] = Accepted(stack[e])
           \/ stack'[e] = Becomes(stack[e], "ringing", "busy")
    PROVE  TalksOn(e)
  <1>1. stack[e] \in StackCall
    BY DEF StateOK
  <1>2. stack'[e].st = "up" => stack'[e] = stack[e]
    BY <1>1, Commands
  <1> QED
    BY <1>2 DEF TalksOn

LEMMA DialAsks ==
    ASSUME StateOK, Dial, NEW e \in Calls
    PROVE  TalksOn(e)
  <1>1. PICK c \in OutCalls: c = NextCall /\ c \in Calls
    BY NextCallIsNew DEF Dial, Calls
  <1>2. stack \in [Calls -> StackCall] /\ stack' = [stack EXCEPT ![c].st = "trying"]
    BY <1>1 DEF StateOK, Dial
  <1>3. CASE e = c
    <2>1. stack'[e] = [stack[e] EXCEPT !.st = "trying"]
      BY <1>2, <1>3
    <2>2. stack'[e].st = "trying"
      BY <1>2, <2>1 DEF StackCall
    <2> QED
      BY <2>2 DEF TalksOn
  <1>4. CASE e # c
    BY <1>2, <1>4 DEF TalksOn
  <1> QED
    BY <1>3, <1>4

LEMMA TransferTalks ==
    ASSUME StateOK, CompleteAttendedTransfer \/ BlindTransfer, NEW e \in Calls
    PROVE  TalksOn(e)
  <1>0. stack \in [Calls -> StackCall]
    BY DEF StateOK
  <1>1. stack'[e] = stack[e] \/ stack'[e] = Referred(stack[e])
    BY <1>0 DEF CompleteAttendedTransfer, BlindTransfer
  <1>2. /\ Referred(stack[e]).st = stack[e].st /\ Referred(stack[e]).dir = stack[e].dir
        /\ Referred(stack[e]).reinvites = stack[e].reinvites
        /\ Referred(stack[e]).holdPending = stack[e].holdPending
    BY <1>0 DEF Referred, StackCall
  <1> QED
    BY <1>1, <1>2 DEF TalksOn

LEMMA AnswerAsks ==
    ASSUME StateOK, Accept \/ Reject, NEW e \in Calls
    PROVE  TalksOn(e)
  <1>1. \/ stack'[e] = stack[e]
        \/ stack'[e] = Declined(stack[e])
        \/ stack'[e] = Accepted(stack[e])
    BY DEF StateOK, Accept, Reject
  <1> QED
    BY <1>1, CommandedCall

LEMMA HangUpAsks ==
    ASSUME StateOK, NEW i \in DOMAIN calls, HangUp(i), NEW e \in Calls
    PROVE  TalksOn(e)
  <1>1. stack'[e] = stack[e] \/ stack'[e] = HungUp(stack[e])
    BY DEF StateOK, HangUp
  <1> QED
    BY <1>1, CommandedCall

LEMMA ConsultationAsks ==
    ASSUME StateOK, LifeInv, AttendedTransferDial
    PROVE  /\ focused \in DOMAIN calls /\ PutOnHold(Id(focused))
           /\ \A e \in Calls: e # Id(focused) => TalksOn(e)
  <1>0. stack \in [Calls -> StackCall] /\ MayDial
    BY DEF StateOK, AttendedTransferDial
  <1>1. PICK c \in OutCalls: c = NextCall /\ c \in Calls
    BY <1>0, NextCallIsNew DEF Calls
  <1>2. focused \in DOMAIN calls
    BY SlotTypes DEF AttendedTransferDial, StateOK
  <1>3. PICK f \in Calls: f = Id(focused) /\ InSlot(f)
    BY <1>2, SlotTypes DEF InSlot, StateOK
  <1>4. f # c
    BY <1>0, <1>1, <1>3, NextCallDials
  <1> DEFINE asked == Reinvited(stack[f], "hold")
  <1>5. stack' = [[stack EXCEPT ![f] = asked] EXCEPT ![c].st = "trying"]
    BY <1>1, <1>3 DEF AttendedTransferDial
  <1> HIDE DEF asked
  <1>6. /\ stack'[c] = [stack[c] EXCEPT !.st = "trying"]
        /\ stack'[f] = asked
        /\ \A e \in Calls: e # c /\ e # f => stack'[e] = stack[e]
    BY <1>0, <1>1, <1>3, <1>4, <1>5
  <1>7. PutOnHold(f)
    BY <1>6 DEF PutOnHold, asked
  <1>8. ASSUME NEW e \in Calls PROVE e # f => TalksOn(e)
    <2>1. CASE e = c
      <3>1. stack'[e].st = "trying"
        BY <1>0, <1>6, <2>1 DEF StackCall
      <3> QED
        BY <3>1 DEF TalksOn
    <2>2. CASE e = f
      BY <2>2
    <2>3. CASE e # c /\ e # f
      BY <1>6, <2>3 DEF TalksOn
    <2> QED
      BY <2>1, <2>2, <2>3
  <1> QED
    BY <1>2, <1>3, <1>7, <1>8

LEMMA HoldSlotAsks ==
    ASSUME StateOK, NEW i \in DOMAIN calls, HoldSlot(i)
    PROVE  /\ PutOnHold(Id(i))
           /\ \A e \in Calls: e # Id(i) => TalksOn(e)
  <1>1. Id(i) \in Calls /\ stack \in [Calls -> StackCall]
    BY SlotTypes DEF StateOK
  <1>2. PutOnHold(Id(i)) /\ \A e \in Calls: e # Id(i) => stack'[e] = stack[e]
    BY <1>1 DEF HoldSlot, PutOnHold
  <1> QED
    BY <1>2 DEF TalksOn

LEMMA SwapAsks ==
    ASSUME StateOK, OneSlotEach, NEW i \in DOMAIN calls, SwapTo(i)
    PROVE  /\ Resumed(Id(i))
           /\ focused # 0 => focused \in DOMAIN calls /\ PutOnHold(Id(focused))
           /\ \A e \in Calls:
                e # Id(i) /\ ~(focused # 0 /\ e = Id(focused)) => TalksOn(e)
  <1>0. /\ stack \in [Calls -> StackCall] /\ Id(i) \in Calls
        /\ focused # 0 => focused \in DOMAIN calls /\ Id(focused) \in Calls
    BY SlotTypes DEF StateOK
  <1>1. CASE focused = 0
    <2>1. stack' = [stack EXCEPT ![Id(i)] = Reinvited(@, "resume")]
      BY <1>1 DEF SwapTo, Resume
    <2>2. Resumed(Id(i)) /\ \A e \in Calls: e # Id(i) => stack'[e] = stack[e]
      BY <1>0, <2>1 DEF Resumed
    <2> QED
      BY <1>1, <2>2 DEF TalksOn
  <1>2. CASE focused # 0
    <2>0. PICK f \in Calls, d \in Calls: f = Id(focused) /\ d = Id(i)
      BY <1>0, <1>2
    <2>1. f # d
      BY <1>0, <1>2, <2>0 DEF OneSlotEach, SwapTo
    <2>2. stack' = [[stack EXCEPT ![f] = Reinvited(@, "hold")]
                       EXCEPT ![d] = Reinvited(@, "resume")]
      BY <1>2, <2>0 DEF SwapTo, Resume, Hold
    <2>3. /\ stack'[f] = Reinvited(stack[f], "hold")
          /\ stack'[d] = Reinvited(stack[d], "resume")
          /\ \A e \in Calls: e # f /\ e # d => stack'[e] = stack[e]
      BY <1>0, <2>1, <2>2
    <2>4. PutOnHold(f) /\ Resumed(d)
      BY <2>3 DEF PutOnHold, Resumed
    <2> QED
      BY <1>0, <1>2, <2>0, <2>3, <2>4 DEF TalksOn
  <1> QED
    BY <1>1, <1>2

LEMMA LegsAsks ==
    ASSUME StateOK, StartConference, NEW e \in Calls
    PROVE  IF \E i \in DOMAIN calls: Id(i) = e /\ calls[i].held
           THEN Resumed(e) ELSE TalksOn(e)
  <1>0. DOMAIN calls = 1..2
    BY SlotTypes DEF StateOK, StartConference
  <1>1. stack'[e] = IF \E i \in 1..2: Id(i) = e /\ calls[i].held
                    THEN Reinvited(stack[e], "resume") ELSE stack[e]
    BY DEF StartConference, UnheldLegs
  <1>2. CASE \E i \in 1..2: Id(i) = e /\ calls[i].held
    BY <1>0, <1>1, <1>2 DEF Resumed
  <1>3. CASE ~\E i \in 1..2: Id(i) = e /\ calls[i].held
    BY <1>0, <1>1, <1>3 DEF TalksOn
  <1> QED
    BY <1>2, <1>3

LEMMA AcceptedTells ==
    ASSUME StateOK, NEW c \in Calls, OnAcceptedConnected(c)
    PROVE  /\ focused # 0 => focused \in DOMAIN calls /\ PutOnHold(Id(focused))
           /\ \A e \in Calls:
                ~(focused # 0 /\ e = Id(focused)) => TalksOn(e)
  <1>a. stack \in [Calls -> StackCall] /\ calls \in Seq(Slot) /\ focused \in 0..Len(calls)
    BY DEF StateOK
  <1>b. /\ Len(calls) \in Nat /\ DOMAIN calls = 1..Len(calls)
        /\ \A i \in DOMAIN calls: Id(i) \in Calls
    BY <1>a, SlotTypes
  <1>0. /\ stack \in [Calls -> StackCall]
        /\ focused # 0 => focused \in DOMAIN calls /\ Id(focused) \in Calls
    BY <1>a, <1>b
  <1>1. CASE focused = 0
    BY <1>1 DEF OnAcceptedConnected, TalksOn
  <1>2. CASE focused # 0
    <2>1. stack' = [stack EXCEPT ![Id(focused)] = Reinvited(@, "hold")]
      BY <1>2 DEF OnAcceptedConnected, Hold
    <2>2. PutOnHold(Id(focused)) /\ \A e \in Calls: e # Id(focused) => stack'[e] = stack[e]
      BY <1>0, <1>2, <2>1 DEF PutOnHold
    <2> QED
      BY <1>0, <1>2, <2>2 DEF TalksOn
  <1> QED
    BY <1>1, <1>2

(* No other reaction asks anything of a far end.                            *)
LEMMA ReactionTells ==
    ASSUME StateOK, NEW c \in Calls, HandleEvent(c),
           ~(Head(events[c]) = "CallConnected" /\ OnAcceptedConnected(c)), NEW e \in Calls
    PROVE  TalksOn(e)
  <1>1. React(c, Head(events[c])) /\ stack \in [Calls -> StackCall]
    BY Taken DEF StateOK
  <1>2. CASE OnIncomingCall(c)
    <2>1. \/ stack'[e] = stack[e]
          \/ stack'[e] = Declined(stack[e])
          \/ stack'[e] = Becomes(stack[e], "ringing", "busy")
      BY <1>1, <1>2 DEF OnIncomingCall
    <2> QED
      BY <2>1, CommandedCall
  <1>3. CASE Head(events[c]) = "CallConnected" /\ OnCallConnected(c)
    BY <1>3 DEF OnCallConnected, OnDialledConnected, TalksOn
  <1>4. CASE OnCallEnded(c) \/ OnHeld(c, TRUE) \/ OnHeld(c, FALSE)
    BY <1>4 DEF OnCallEnded, OnHeld, TalksOn
  <1>5. CASE OnTransferAccepted \/ OnTransferFailed
    <2>1. stack'[e] = stack[e] \/ stack'[e] = HungUp(stack[e])
      BY <1>5 DEF OnTransferAccepted, OnTransferFailed, HangUpBoth, KeepBoth
    <2> QED
      BY <2>1, CommandedCall
  <1> QED
    BY <1>1, <1>2, <1>3, <1>4, <1>5 DEF React

-----------------------------------------------------------------------------
(* Holds.                                                                   *)
(*                                                                          *)
(* A far end that was last offered sendonly is shown on hold once the       *)
(* answers are in: the answer to a resume that was overtaken by a hold is   *)
(* reported as a hold, and one that was not is reported before it.          *)

OfHold == {"CallHeld", "CallResumed"}

HeldLast(q) ==
    \A i \in DOMAIN q: q[i] = "CallResumed" =>
        \E j \in DOMAIN q: j > i /\ q[j] = "CallHeld"

Answered(q) == \A i \in DOMAIN q: q[i] \notin OfHold

(* h: the slots of the call show it on hold                                 *)
HoldTold(s, q, h) ==
    s.st = "up" /\ s.dir = "sendonly" =>
        /\ s.holdPending # "resume"
        /\ s.reinvites = 0 => HeldLast(q) /\ (Answered(q) => h)

ShownHeld(e) == \A i \in DOMAIN calls: Id(i) = e => calls[i].held

HoldsHeard == \A e \in Calls: HoldTold(stack[e], events[e], ShownHeld(e))

(* A call that talks on is told the same.                                   *)
LEMMA TalksTold ==
    ASSUME NEW e \in Calls, HoldTold(stack[e], events[e], ShownHeld(e)), TalksOn(e),
           events'[e] = events[e], ShownHeld(e) => ShownHeld(e)'
    PROVE  HoldTold(stack[e], events[e], ShownHeld(e))'
  BY DEF HoldTold, TalksOn

(* A call that was just asked to hold, or to resume, has not answered.      *)
LEMMA AskedTold ==
    ASSUME StateOK, NEW e \in Calls, PutOnHold(e) \/ Resumed(e), NEW q, NEW h
    PROVE  HoldTold(stack'[e], q, h)
  <1>1. stack[e] \in StackCall
    BY DEF StateOK
  <1>2. CASE PutOnHold(e)
    <2>1. stack'[e].st = "up" => stack'[e].holdPending = "hold" /\ stack'[e].reinvites > 0
      BY <1>1, <1>2, Reinvitations DEF PutOnHold
    <2>2. stack'[e].reinvites > 0 => stack'[e].reinvites # 0
      OBVIOUS
    <2> QED
      BY <2>1, <2>2 DEF HoldTold
  <1>3. CASE Resumed(e)
    <2>1. stack'[e].st = "up" => stack'[e].dir = "sendrecv"
      BY <1>1, <1>3, Reinvitations DEF Resumed
    <2> QED
      BY <2>1 DEF HoldTold
  <1> QED
    BY <1>2, <1>3

(* An event is taken: one of a hold is shown.                               *)
LEMMA TakenTold ==
    ASSUME NEW s, NEW q \in Seq(Event), q # <<>>, NEW h, NEW k, HoldTold(s, q, h),
           \/ Head(q) = "CallHeld" /\ k
           \/ Head(q) = "CallResumed"
           \/ Head(q) \notin OfHold /\ (h => k)
    PROVE  HoldTold(s, Tail(q), k)
  <1> SUFFICES ASSUME s.st = "up", s.dir = "sendonly", s.reinvites = 0
               PROVE  HeldLast(Tail(q)) /\ (Answered(Tail(q)) => k)
    BY DEF HoldTold
  <1>0. /\ Len(q) \in Nat \ {0} /\ DOMAIN q = 1..Len(q) /\ Head(q) = q[1]
        /\ 1 \in DOMAIN q /\ DOMAIN Tail(q) = 1..Len(q) - 1
        /\ \A i \in DOMAIN Tail(q): i + 1 \in DOMAIN q /\ Tail(q)[i] = q[i + 1]
        /\ \A i \in DOMAIN q: i # 1 => i - 1 \in DOMAIN Tail(q) /\ Tail(q)[i - 1] = q[i]
    BY QueueTail
  <1>1. HeldLast(q) /\ (Answered(q) => h)
    BY DEF HoldTold
  <1>2. ASSUME NEW i \in DOMAIN q, q[i] = "CallResumed"
        PROVE  \E j \in DOMAIN Tail(q): j > i - 1 /\ Tail(q)[j] = "CallHeld"
    <2>1. PICK j \in DOMAIN q: j > i /\ q[j] = "CallHeld"
      BY <1>1, <1>2 DEF HeldLast
    <2>2. j # 1 /\ j - 1 > i - 1
      BY <1>0, <2>1
    <2> QED
      BY <1>0, <2>1, <2>2
  <1>3. HeldLast(Tail(q))
    <2> SUFFICES ASSUME NEW i \in DOMAIN Tail(q), Tail(q)[i] = "CallResumed"
                 PROVE  \E j \in DOMAIN Tail(q): j > i /\ Tail(q)[j] = "CallHeld"
      BY DEF HeldLast
    <2>1. i + 1 \in DOMAIN q /\ q[i + 1] = "CallResumed" /\ (i + 1) - 1 = i
      BY <1>0
    <2> QED
      BY <1>2, <2>1
  <1>4. ASSUME Answered(Tail(q)) PROVE k
    <2>1. Head(q) # "CallResumed"
      BY <1>0, <1>2, <1>4 DEF Answered, OfHold
    <2>2. Head(q) \notin OfHold => Answered(q)
      BY <1>0, <1>4 DEF Answered
    <2> QED
      BY <1>1, <2>1, <2>2
  <1> QED
    BY <1>3, <1>4

(* An event is posted that is not of a hold.                                *)
LEMMA PostedTold ==
    ASSUME NEW s, NEW q \in Seq(Event), NEW ev \in Event \ OfHold, NEW h, HoldTold(s, q, h)
    PROVE  HoldTold(s, q \o <<ev>>, h)
  <1> DEFINE r == q \o <<ev>>
  <1>1. /\ Len(q) \in Nat /\ DOMAIN q = 1..Len(q) /\ DOMAIN r = 1..Len(q) + 1
        /\ \A i \in DOMAIN q: r[i] = q[i]
        /\ r[Len(q) + 1] = ev
    BY QueuePost
  <1> HIDE DEF r
  <1>2. \A i \in DOMAIN r: r[i] = ev \/ (i \in DOMAIN q /\ r[i] = q[i])
    BY <1>1
  <1>3. DOMAIN q \subseteq DOMAIN r /\ ev \notin OfHold
    BY <1>1
  <1>4. HeldLast(q) => HeldLast(r)
    BY <1>1, <1>2, <1>3 DEF HeldLast, OfHold
  <1>5. Answered(r) => Answered(q)
    BY <1>1, <1>3 DEF Answered
  <1> QED
    BY <1>4, <1>5 DEF HoldTold, r

(* The answer to a re-INVITE is posted.                                     *)
LEMMA AnswerTold ==
    ASSUME NEW s \in StackCall, NEW q \in Seq(Event), NEW h, NEW k, HoldTold(s, q, h),
           NEW n \in Nat, NEW t, t = [s EXCEPT !.reinvites = n, !.holdPending = "none"],
           NEW ev, ev = IF s.holdPending = "resume" THEN "CallResumed" ELSE "CallHeld"
    PROVE  HoldTold(t, q \o <<ev>>, k)
  <1> DEFINE r == q \o <<ev>>
  <1>1. t.st = s.st /\ t.dir = s.dir /\ t.holdPending = "none"
    BY DEF StackCall
  <1>2. /\ Len(q) \in Nat /\ DOMAIN q = 1..Len(q) /\ DOMAIN r = 1..Len(q) + 1
        /\ \A i \in DOMAIN q: r[i] = q[i]
        /\ r[Len(q) + 1] = ev
    BY QueuePost DEF Event
  <1> SUFFICES ASSUME s.st = "up", s.dir = "sendonly"
               PROVE  HeldLast(r) /\ ~Answered(r)
    BY <1>1 DEF HoldTold
  <1>3. ev = "CallHeld"
    BY DEF HoldTold
  <1> HIDE DEF r
  <1>4. ~Answered(r)
    BY <1>2, <1>3 DEF Answered, OfHold
  <1>5. HeldLast(r)
    <2> SUFFICES ASSUME NEW i \in DOMAIN r, r[i] = "CallResumed"
                 PROVE  \E j \in DOMAIN r: j > i /\ r[j] = "CallHeld"
      BY DEF HeldLast
    <2>1. i # Len(q) + 1
      BY <1>2, <1>3
    <2>2. Len(q) + 1 \in DOMAIN r /\ Len(q) + 1 > i
      BY <1>2, <2>1
    <2> QED
      BY <1>2, <1>3, <2>2
  <1> QED
    BY <1>4, <1>5

LEMMA StaysHeld ==
    ASSUME NEW e, ShownHeld(e), DOMAIN calls' = DOMAIN calls,
           \A j \in DOMAIN calls: /\ calls'[j].id = calls[j].id
                                  /\ Id(j) = e /\ calls[j].held => calls'[j].held
    PROVE  ShownHeld(e)'
  BY DEF ShownHeld, Id

LEMMA RemovedHeld ==
    ASSUME StateOK, NEW i \in DOMAIN calls, RemoveCall(i), NEW e, ShownHeld(e)
    PROVE  ShownHeld(e)'
  <1>0. Len(calls) \in Nat /\ DOMAIN calls = 1..Len(calls)
    BY SlotTypes DEF StateOK
  <1>1. /\ DOMAIN calls' = 1..Len(calls) - 1
        /\ \A j \in 1..Len(calls) - 1:
             calls'[j] = IF j < i THEN calls[j] ELSE calls[j + 1]
    BY RemoveCallAudio, Remaining
  <1>2. \A j \in DOMAIN calls': \E k \in DOMAIN calls: calls'[j] = calls[k]
    BY <1>0, <1>1
  <1> QED
    BY <1>2 DEF ShownHeld, Id

LEMMA ShownAlsoHeld ==
    ASSUME StateOK, NEW c, NEW uri, Shows(c, uri), NEW e, e # c, ShownHeld(e),
           \A j \in DOMAIN calls: Id(j) = e /\ calls[j].held => calls'[j].held
    PROVE  ShownHeld(e)'
  <1>0. Len(calls) \in Nat /\ DOMAIN calls = 1..Len(calls)
    BY SlotTypes DEF StateOK
  <1>1. \A j \in DOMAIN calls': j \in DOMAIN calls \/ calls'[j].id = c
    BY <1>0 DEF Shows
  <1>2. \A j \in DOMAIN calls: calls'[j].id = calls[j].id
    BY <1>0 DEF Shows
  <1> QED
    BY <1>1, <1>2 DEF ShownHeld, Id

LEMMA UserHolds ==
    ASSUME StateOK, LifeInv, HoldsHeard, UserActs
    PROVE  HoldsHeard'
  <1>0. events' = events /\ OneSlotEach
    BY UserLeavesEvents DEF LifeInv
  <1> SUFFICES ASSUME NEW e \in Calls PROVE HoldTold(stack[e], events[e], ShownHeld(e))'
    BY DEF HoldsHeard
  <1>1. HoldTold(stack[e], events[e], ShownHeld(e)) /\ events'[e] = events[e]
    BY <1>0 DEF HoldsHeard
  <1>2. ASSUME TalksOn(e), calls' = calls
        PROVE  HoldTold(stack[e], events[e], ShownHeld(e))'
    <2>1. ShownHeld(e) => ShownHeld(e)'
      BY <1>2 DEF ShownHeld, Id
    <2> QED
      BY <1>1, <1>2, <2>1, TalksTold
  <1>3. CASE Dial \/ CompleteAttendedTransfer \/ BlindTransfer \/ Accept \/ Reject
    <2>1. TalksOn(e)
      BY <1>3, DialAsks, TransferTalks, AnswerAsks
    <2>2. calls' = calls
      BY <1>3 DEF Dial, CompleteAttendedTransfer, BlindTransfer, Accept, Reject
    <2> QED
      BY <1>2, <2>1, <2>2
  <1>4. CASE AttendedTransferDial
    <2>1. /\ focused \in DOMAIN calls /\ PutOnHold(Id(focused))
          /\ e # Id(focused) => TalksOn(e)
      BY <1>4, ConsultationAsks
    <2>2. CASE e = Id(focused)
      BY <1>1, <2>1, <2>2, AskedTold
    <2>3. CASE e # Id(focused)
      <3>1. ShownHeld(e) => ShownHeld(e)'
        BY <1>4, <2>1, ZenonT(40), WithHeldKeeps, StaysHeld DEF AttendedTransferDial
      <3> QED
        BY <1>1, <2>1, <2>3, <3>1, TalksTold
    <2> QED
      BY <2>2, <2>3
  <1>5. ASSUME NEW i \in DOMAIN calls, HangUp(i)
        PROVE  HoldTold(stack[e], events[e], ShownHeld(e))'
    <2>1. ShownHeld(e) => ShownHeld(e)'
      BY <1>5, RemovedHeld DEF HangUp
    <2> QED
      BY <1>1, <1>5, <2>1, HangUpAsks, TalksTold
  <1>6. ASSUME NEW i \in DOMAIN calls, HoldSlot(i)
        PROVE  HoldTold(stack[e], events[e], ShownHeld(e))'
    <2>1. PutOnHold(Id(i)) /\ (e # Id(i) => TalksOn(e))
      BY <1>6, HoldSlotAsks
    <2>2. CASE e = Id(i)
      BY <1>1, <2>1, <2>2, AskedTold
    <2>3. CASE e # Id(i)
      <3>1. ShownHeld(e) => ShownHeld(e)'
        BY <1>6, ZenonT(40), WithHeldKeeps, StaysHeld DEF HoldSlot
      <3> QED
        BY <1>1, <2>1, <2>3, <3>1, TalksTold
    <2> QED
      BY <2>2, <2>3
  <1>7. ASSUME NEW i \in DOMAIN calls, SwapTo(i)
        PROVE  HoldTold(stack[e], events[e], ShownHeld(e))'
    <2>1. /\ Resumed(Id(i))
          /\ focused # 0 => PutOnHold(Id(focused))
          /\ e # Id(i) /\ ~(focused # 0 /\ e = Id(focused)) => TalksOn(e)
      BY <1>0, <1>7, SwapAsks
    <2>2. CASE e = Id(i) \/ (focused # 0 /\ e = Id(focused))
      BY <1>1, <2>1, <2>2, AskedTold
    <2>3. CASE e # Id(i) /\ ~(focused # 0 /\ e = Id(focused))
      <3>1. ShownHeld(e) => ShownHeld(e)'
        BY <1>7, <2>3, SwapKeepsSlots, StaysHeld
      <3> QED
        BY <1>1, <2>1, <2>3, <3>1, TalksTold
    <2> QED
      BY <2>2, <2>3
  <1>8. CASE StartConference
    <2>1. CASE \E i \in DOMAIN calls: Id(i) = e /\ calls[i].held
      BY <1>1, <1>8, <2>1, LegsAsks, AskedTold
    <2>2. CASE ~\E i \in DOMAIN calls: Id(i) = e /\ calls[i].held
      <3>1. TalksOn(e)
        BY <1>8, <2>2, LegsAsks
      <3>2. ASSUME ShownHeld(e) PROVE ShownHeld(e)'
        <4>1. \A i \in DOMAIN calls: Id(i) # e
          BY <2>2, <3>2 DEF ShownHeld
        <4>2. /\ DOMAIN calls' = DOMAIN calls
              /\ \A i \in DOMAIN calls: calls'[i].id = calls[i].id
          BY <1>8, ConferenceAsks DEF OnlyAsks
        <4> QED
          BY <4>1, <4>2 DEF ShownHeld, Id
      <3> QED
        BY <1>1, <3>1, <3>2, TalksTold
    <2> QED
      BY <2>1, <2>2
  <1> QED
    BY <1>3, <1>4, <1>5, <1>6, <1>7, <1>8 DEF UserActs

(* Whom a reaction does not concern it does not show resumed.               *)
LEMMA ReactionHeld ==
    ASSUME StateOK, NEW c \in Calls, HandleEvent(c), NEW e \in Calls, ShownHeld(e),
           e # c \/ Head(events[c]) \notin OfHold \cup {"CallConnected"}
    PROVE  ShownHeld(e)'
  <1>0. React(c, Head(events[c]))
    BY Taken
  <1>1. CASE calls' = calls
    BY <1>1 DEF ShownHeld, Id
  <1>2. CASE Head(events[c]) = "CallConnected" /\ OnCallConnected(c)
    <2>1. DOMAIN calls = 1..Len(calls)
      BY SlotTypes DEF StateOK
    <2>2. CASE OnAcceptedConnected(c)
      BY <1>2, <2>1, <2>2, AcceptedShows, ShownAlsoHeld
    <2>3. CASE pendingOutbound # NoCall /\ OnDialledConnected(c)
      BY <1>2, <2>1, <2>3, DialledShows, ShownAlsoHeld
    <2> QED
      BY <1>1, <1>2, <2>2, <2>3 DEF OnCallConnected
  <1>3. CASE OnCallEnded(c)
    <2>1. calls' = calls \/ \E i \in DOMAIN calls: RemoveCall(i)
      BY <1>3 DEF OnCallEnded, EndsPendingCall, EndsPendingAccept, EndsSlot,
                  EndsPendingOutbound, SlotsOf
    <2> QED
      BY <1>1, <2>1, RemovedHeld
  <1>4. ASSUME NEW held \in BOOLEAN, OnHeld(c, held), Head(events[c]) \in OfHold
        PROVE  ShownHeld(e)'
    <2>1. e # c
      BY <1>4
    <2> QED
      BY <1>4, <2>1, HeldKeepsSlots, StaysHeld
  <1>5. CASE OnTransferAccepted \/ OnTransferFailed
    <2>1. calls' = calls \/ calls' = <<>>
      BY <1>5 DEF OnTransferAccepted, OnTransferFailed, HangUpBoth, KeepBoth
    <2> QED
      BY <1>1, <2>1 DEF ShownHeld
  <1>6. CASE OnIncomingCall(c)
    BY <1>1, <1>6 DEF OnIncomingCall
  <1> QED
    BY <1>0, <1>2, <1>3, <1>4, <1>5, <1>6 DEF React, OfHold

LEMMA ReactionTold ==
    ASSUME StateOK, LifeInv, HoldsHeard, NEW c \in Calls, HandleEvent(c)
    PROVE  HoldTold(stack[c], events[c], ShownHeld(c))'
  <1>0. /\ events[c] # <<>> /\ events[c] \in Seq(Event) /\ stack[c] \in StackCall
        /\ events'[c] = Tail(events[c]) /\ React(c, Head(events[c]))
        /\ HoldTold(stack[c], events[c], ShownHeld(c))
    BY Taken DEF HoldsHeard
  <1>1. CASE Head(events[c]) = "CallConnected"
    <2>1. stack[c].st = "up" => stack[c].dir = "sendrecv"
      <3>1. Legal(c, stack[c], events[c], Place(c))
        BY DEF LifeInv, Lives
      <3>2. \E i \in DOMAIN events[c]: events[c][i] = "CallConnected"
        BY <1>0, <1>1, QueueTail
      <3>3. ~Plain(events[c])
        BY <3>2 DEF Plain
      <3>4. stack[c].st = "up" => Unasked(stack[c])
        BY <3>1, <3>3 DEF Legal, InTalk
      <3> QED
        BY <3>4 DEF Unasked
    <2>2. CASE ~OnAcceptedConnected(c) \/ focused = 0 \/ c # Id(focused)
      <3>1. TalksOn(c)
        BY <2>2, AcceptedTells, ReactionTells
      <3>2. stack'[c].st = "up" => stack'[c].dir = "sendrecv"
        BY <2>1, <3>1 DEF TalksOn
      <3> QED
        BY <3>2 DEF HoldTold
    <2>3. CASE OnAcceptedConnected(c) /\ focused # 0 /\ c = Id(focused)
      <3>1. PutOnHold(c)
        BY <2>3, AcceptedTells
      <3>2. HoldTold(stack'[c], events'[c], ShownHeld(c)')
        BY <3>1, AskedTold
      <3> QED
        BY <3>2
    <2> QED
      BY <2>2, <2>3
  <1>2. CASE Head(events[c]) # "CallConnected"
    <2>1. TalksOn(c)
      BY <1>2, ReactionTells
    <2>2. \/ Head(events[c]) = "CallHeld" /\ ShownHeld(c)'
          \/ Head(events[c]) = "CallResumed"
          \/ Head(events[c]) \notin OfHold /\ (ShownHeld(c) => ShownHeld(c)')
      <3>1. CASE Head(events[c]) = "CallHeld"
        <4>1. OnHeld(c, TRUE)
          BY <1>0, <3>1 DEF React
        <4> QED
          BY <3>1, <4>1, HeldKeepsSlots DEF ShownHeld, Id
      <3>2. CASE Head(events[c]) \notin OfHold
        BY <1>2, <3>2, ReactionHeld
      <3> QED
        BY <3>1, <3>2 DEF OfHold
    <2>3. HoldTold(stack[c], Tail(events[c]), ShownHeld(c)')
      BY <1>0, <2>2, TakenTold
    <2>4. HoldTold(stack'[c], Tail(events[c]), ShownHeld(c)')
      BY <2>1, <2>3 DEF HoldTold, TalksOn
    <2> QED
      BY <1>0, <2>4
  <1> QED
    BY <1>1, <1>2

LEMMA EventHolds ==
    ASSUME StateOK, LifeInv, HoldsHeard, NEW c \in Calls, HandleEvent(c)
    PROVE  HoldsHeard'
  <1> SUFFICES ASSUME NEW e \in Calls, e # c
               PROVE  HoldTold(stack[e], events[e], ShownHeld(e))'
    BY ReactionTold DEF HoldsHeard
  <1>1. /\ events'[e] = events[e] /\ HoldTold(stack[e], events[e], ShownHeld(e))
        /\ ShownHeld(e) => ShownHeld(e)'
    BY Taken, ReactionHeld DEF HoldsHeard
  <1>2. CASE TalksOn(e)
    BY <1>1, <1>2, TalksTold
  <1>3. CASE ~TalksOn(e)
    <2>1. OnAcceptedConnected(c) /\ focused # 0 /\ e = Id(focused)
      BY <1>3, AcceptedTells, ReactionTells
    <2>2. PutOnHold(e)
      BY <2>1, AcceptedTells
    <2> QED
      BY <1>1, <2>2, AskedTold
  <1> QED
    BY <1>2, <1>3

LEMMA StackHolds ==
    ASSUME StateOK, LifeInv, HoldsHeard, NEW c \in Calls, StackActs(c)
    PROVE  HoldsHeard'
  <1>0. /\ stack \in [Calls -> StackCall] /\ stack[c] \in StackCall
        /\ events[c] \in Seq(Event) /\ calls' = calls
        /\ HoldTold(stack[c], events[c], ShownHeld(c))
        /\ Legal(c, stack[c], events[c], Place(c))
    BY DEF StateOK, HoldsHeard, LifeInv, Lives, StackActs, Client
  <1>1. \A e: ShownHeld(e)' = ShownHeld(e)
    BY <1>0 DEF ShownHeld, Id
  <1>2. ASSUME NEW e \in Calls, e # c PROVE HoldTold(stack[e], events[e], ShownHeld(e))'
    <2>1. stack'[e] = stack[e] /\ events'[e] = events[e]
      BY <1>2, StackMove DEF Emit, StateOK
    <2> QED
      BY <1>1, <2>1 DEF HoldsHeard
  <1>3. ASSUME NEW ev \in Event, Emit(c, <<ev>>) PROVE events'[c] = events[c] \o <<ev>>
    BY <1>3 DEF Emit, StateOK
  <1> SUFFICES HoldTold(stack[c], events[c], ShownHeld(c))'
    BY <1>2 DEF HoldsHeard
  <1>4. CASE StackRings(c) \/ StackEnds(c)
    <2>1. stack'[c] = [stack[c] EXCEPT !.st = "ringing"] \/ stack'[c] = Over(stack[c])
      BY <1>0, <1>4 DEF StackRings, StackEnds
    <2>2. stack'[c].st # "up"
      BY <1>0, <2>1 DEF Over, StackCall
    <2> QED
      BY <2>2 DEF HoldTold
  <1>5. CASE StackConnects(c)
    <2>1. stack'[c] = [stack[c] EXCEPT !.st = "up"] /\ stack[c].st \in {"trying", "answering"}
      BY <1>0, <1>5 DEF StackConnects
    <2>2. Unasked(stack[c])
      BY <1>0, <2>1 DEF Legal, Begun
    <2>3. stack'[c].dir = "sendrecv"
      BY <1>0, <2>1, <2>2 DEF Unasked, StackCall
    <2> QED
      BY <2>3 DEF HoldTold
  <1>6. CASE StackReinvited(c)
    <2> DEFINE n == stack[c].reinvites - 1
               ev == IF stack[c].holdPending = "resume" THEN "CallResumed" ELSE "CallHeld"
    <2>1. n \in Nat /\ ev \in Event
      BY <1>0, <1>6 DEF StackReinvited, StackCall, Event
    <2>2. events'[c] = events[c] \o <<ev>>
      BY <1>3, <1>6, <2>1 DEF StackReinvited
    <2>3. stack'[c] = [stack[c] EXCEPT !.reinvites = n, !.holdPending = "none"]
      BY <1>0, <1>6 DEF StackReinvited
    <2> HIDE DEF n
    <2>4. HoldTold(stack'[c], events[c] \o <<ev>>, ShownHeld(c)')
      BY <1>0, <2>1, <2>3, AnswerTold
    <2> QED
      BY <2>2, <2>4
  <1>7. CASE StackReferred(c)
    <2>1. PICK ev \in Event \ OfHold: Emit(c, <<ev>>)
      BY <1>7 DEF StackReferred, Event, OfHold
    <2>2. events'[c] = events[c] \o <<ev>>
      BY <1>3, <2>1
    <2> DEFINE n == stack[c].refers - 1
    <2>3. stack'[c] = [stack[c] EXCEPT !.refers = n]
      BY <1>0, <1>7 DEF StackReferred
    <2> HIDE DEF n
    <2>4. /\ stack'[c].st = stack[c].st /\ stack'[c].dir = stack[c].dir
          /\ stack'[c].reinvites = stack[c].reinvites
          /\ stack'[c].holdPending = stack[c].holdPending
      BY <1>0, <2>3 DEF StackCall
    <2>5. HoldTold(stack[c], events'[c], ShownHeld(c))
      BY <1>0, <2>1, <2>2, PostedTold
    <2>6. HoldTold(stack'[c], events'[c], ShownHeld(c)')
      BY <1>1, <2>4, <2>5 DEF HoldTold
    <2> QED
      BY <2>6
  <1> QED
    BY <1>4, <1>5, <1>6, <1>7 DEF StackActs

LEMMA HoldsAlways == Spec => []HoldsHeard
  <1>1. Init => HoldsHeard
    BY DEF Init, HoldsHeard, HoldTold
  <1>2. StateOK /\ LifeInv /\ HoldsHeard /\ [Next]_vars => HoldsHeard'
    <2> SUFFICES ASSUME StateOK, LifeInv, HoldsHeard, [Next]_vars PROVE HoldsHeard'
      OBVIOUS
    <2>1. CASE UNCHANGED vars
      BY <2>1 DEF vars, HoldsHeard, HoldTold, ShownHeld, Id
    <2> QED
      BY <2>1, UserHolds, EventHolds, StackHolds DEF Next
  <1>3. Typed => StateOK
    BY DEF Typed
  <1> QED
    BY <1>1, <1>2, <1>3, LifeAlways, TypedAlways, PTL DEF Spec

(* A call that was put on hold is shown as held when all is answered, in    *)
(* whatever order the answers of earlier holds and resumes were handled.    *)
THEOREM HoldsAreShown == Spec => []HeldIsShown
  <1>1. StateOK /\ HoldsHeard => HeldIsShown
    <2> SUFFICES ASSUME StateOK, HoldsHeard, NEW i \in DOMAIN calls,
                        stack[Id(i)].st = "up", stack[Id(i)].dir = "sendonly",
                        Settled(Id(i))
                 PROVE  calls[i].held
      BY DEF HeldIsShown
    <2>1. Id(i) \in Calls
      BY SlotTypes DEF StateOK
    <2>2. HoldTold(stack[Id(i)], events[Id(i)], ShownHeld(Id(i)))
      BY <2>1 DEF HoldsHeard
    <2>3. stack[Id(i)].reinvites = 0 /\ Answered(events[Id(i)])
      BY DEF Settled, Queued, Answered, OfHold
    <2> QED
      BY <2>2, <2>3 DEF HoldTold, ShownHeld
  <1>2. Typed => StateOK
    BY DEF Typed
  <1> QED
    BY <1>1, <1>2, HoldsAlways, TypedAlways, PTL


-----------------------------------------------------------------------------
(* Who is on hold.                                                          *)

(* The call e is offered what it was, if it talks.                          *)
Offered(e) ==
    stack'[e].st = "up" => stack[e].st = "up" /\ stack'[e].dir = stack[e].dir

OthersHeld ==
    ~inConference =>
        \A i \in DOMAIN calls:
            i # focused /\ stack[Id(i)].st = "up" =>
                stack[Id(i)].dir = "sendonly" \/ failures > 0

InOrder == Len(calls) <= 2 /\ AudioInOrder /\ OthersHeld

LEMMA HeldIsSendonly ==
    ASSUME StateOK, NEW e \in Calls, PutOnHold(e), stack'[e].st = "up"
    PROVE  stack'[e].dir = "sendonly"
  BY Reinvitations DEF StateOK, PutOnHold

LEMMA ResumedIsSendrecv ==
    ASSUME StateOK, NEW e \in Calls, Resumed(e), stack'[e].st = "up"
    PROVE  stack'[e].dir = "sendrecv"
  BY Reinvitations DEF StateOK, Resumed

(* Nothing moves.                                                           *)
LEMMA OrderKept ==
    ASSUME StateOK, OthersHeld,
           UNCHANGED <<focused, inConference, failures>>,
           Len(calls') = Len(calls), DOMAIN calls' = DOMAIN calls,
           \A i \in DOMAIN calls: calls'[i].id = calls[i].id /\ Offered(Id(i))
    PROVE  OthersHeld'
  <1>1. \A i \in DOMAIN calls: Id(i)' = Id(i)
    BY DEF Id
  <1> QED
    BY <1>1 DEF OthersHeld, Offered

LEMMA FailuresPositive ==
    ASSUME StateOK, OthersHeld, NEW i \in DOMAIN calls, i # focused, ~inConference,
           failures > 0 => failures' > 0,
           Offered(Id(i)), stack'[Id(i)].st = "up"
    PROVE  stack'[Id(i)].dir = "sendonly" \/ failures' > 0
  BY DEF OthersHeld, Offered

(* A slot is removed.                                                       *)
LEMMA RemovedOrder ==
    ASSUME StateOK, InOrder, NEW i \in DOMAIN calls, RemoveCall(i),
           \A e \in Calls: Offered(e)
    PROVE  OthersHeld'
  <1>0. /\ Len(calls) \in Nat /\ DOMAIN calls = 1..Len(calls) /\ Len(calls) <= 2
        /\ focused \in 0..Len(calls) /\ Freed = {} /\ Room /\ OthersHeld
        /\ \A j \in DOMAIN calls: Id(j) \in Calls
    BY SlotTypes, Quieted DEF StateOK, InOrder, AudioInOrder, OthersHeld
  <1>1. /\ Len(calls') = Len(calls) - 1 /\ DOMAIN calls' = 1..Len(calls) - 1
        /\ \A j \in 1..Len(calls) - 1:
             calls'[j] = IF j < i THEN calls[j] ELSE calls[j + 1]
        /\ inConference' = FALSE
    BY RemoveCallAudio, Remaining
  <1>3. CASE inConference
    <2>1. Len(calls) = 2
      BY <1>0, <1>3 DEF Room
    <2>2. StartMedia(1, calls'[1].id, {}, {}, 0)
      <3>1. Len(calls) # 1
        BY <2>1
      <3>2. StartMedia(1, calls'[1].id, {}, Freed, 0)
        BY <1>3, <3>1, RemoveCallAudio, Zenon
      <3> QED
        BY <1>0, <3>2, Zenon
    <2>3. focused' = 1 \/ failures' > 0
      BY <2>2, CleanStart
    <2>4. \A j \in DOMAIN calls': j = 1
      BY <1>1, <2>1
    <2> QED
      BY <2>3, <2>4 DEF OthersHeld
  <1>4. CASE ~inConference
    <2> DEFINE from(j) == IF j < i THEN j ELSE j + 1
    <2>1. failures' = failures
      BY <1>4, RemoveCallAudio
    <2>2. \A j \in DOMAIN calls': /\ from(j) \in DOMAIN calls /\ from(j) # i
                                  /\ Id(j)' = Id(from(j))
      BY <1>0, <1>1 DEF Id
    <2>3. \A j \in DOMAIN calls': j # focused' => from(j) # focused
      <3>1. CASE focused = i
        BY <2>2, <3>1
      <3>2. CASE focused # i
        <4>1. focused' = IF focused > i THEN focused - 1 ELSE focused
          BY <1>4, <3>2, RemoveCallAudio
        <4> QED
          BY <1>0, <1>1, <3>2, <4>1
      <3> QED
        BY <3>1, <3>2
    <2> HIDE DEF from
    <2>4. ASSUME NEW j \in DOMAIN calls', j # focused', stack'[Id(j)'].st = "up"
          PROVE  stack'[Id(j)'].dir = "sendonly" \/ failures' > 0
      <3>1. PICK k \in DOMAIN calls: k # focused /\ Id(j)' = Id(k)
        BY <2>2, <2>3, <2>4
      <3> QED
        BY <1>0, <1>4, <2>1, <2>4, <3>1, FailuresPositive
    <2> QED
      BY <2>4 DEF OthersHeld
  <1> QED
    BY <1>3, <1>4

(* The focus moves to slot i, or is lost to a failure.                      *)
LEMMA SwappedOrder ==
    ASSUME StateOK, LifeInv, InOrder, NEW i \in DOMAIN calls, SwapTo(i)
    PROVE  OthersHeld'
  <1>0. /\ OneSlotEach /\ OthersHeld /\ Freed = {}
        /\ focused = 0 => media = {} /\ sockets = {}
        /\ \A j \in DOMAIN calls: Id(j) \in Calls
        /\ ~inConference /\ inConference' = FALSE
    BY SlotTypes, Quieted DEF StateOK, LifeInv, InOrder, AudioInOrder, SwapTo
  <1>1. /\ Len(calls') = Len(calls) /\ DOMAIN calls' = DOMAIN calls
        /\ \A j \in DOMAIN calls: Id(j)' = Id(j)
    BY SwapKeepsSlots DEF Id
  <1>2. StartMedia(i, Id(i), {}, {}, 0)
    BY <1>0 DEF SwapTo
  <1>3. focused' = i \/ failures' > 0
    BY <1>2, CleanStart
  <1>4. ASSUME NEW j \in DOMAIN calls, j # i, stack'[Id(j)].st = "up",
               failures > 0 => failures' > 0
        PROVE  stack'[Id(j)].dir = "sendonly" \/ failures' > 0
    <2>1. Id(j) # Id(i)
      BY <1>0, <1>4 DEF OneSlotEach
    <2>2. CASE j = focused /\ focused # 0
      <3>1. PutOnHold(Id(j))
        BY <1>0, <2>2, SwapAsks
      <3> QED
        BY <1>0, <1>4, <3>1, HeldIsSendonly
    <2>3. CASE ~(j = focused /\ focused # 0)
      <3>1. j # focused
        <4>1. 0 \notin DOMAIN calls
          BY SlotTypes DEF StateOK
        <4> QED
          BY <2>3, <4>1
      <3>2. focused # 0 => focused \in DOMAIN calls /\ Id(focused) # Id(j)
        BY <1>0, <3>1, SwapAsks DEF OneSlotEach
      <3>3. TalksOn(Id(j))
        BY <1>0, <2>1, <3>2, SwapAsks
      <3>4. Offered(Id(j))
        BY <3>3 DEF TalksOn, Offered
      <3> QED
        BY <1>0, <1>4, <3>1, <3>4, FailuresPositive
    <2> QED
      BY <2>2, <2>3
  <1>5. failures > 0 => failures' > 0
    BY <1>2 DEF StartMedia, EngineFails, StateOK
  <1> QED
    BY <1>0, <1>1, <1>3, <1>4, <1>5 DEF OthersHeld

(* The focused call is put on hold, and has lost the focus.                 *)
LEMMA UnfocusedOrder ==
    ASSUME StateOK, LifeInv, InOrder, focused \in DOMAIN calls, ~inConference,
           inConference' = FALSE, focused' = 0, failures' = failures,
           calls' = WithHeld(focused, TRUE), PutOnHold(Id(focused)),
           \A e \in Calls: e # Id(focused) => TalksOn(e)
    PROVE  OthersHeld'
  <1>0. OneSlotEach /\ OthersHeld /\ \A j \in DOMAIN calls: Id(j) \in Calls
    BY SlotTypes DEF StateOK, LifeInv, InOrder
  <1>1. /\ Len(calls') = Len(calls) /\ DOMAIN calls' = DOMAIN calls
        /\ \A j \in DOMAIN calls: Id(j)' = Id(j)
    BY WithHeldKeeps DEF Id
  <1>2. ASSUME NEW j \in DOMAIN calls, stack'[Id(j)].st = "up"
        PROVE  stack'[Id(j)].dir = "sendonly" \/ failures' > 0
    <2>1. CASE j = focused
      BY <1>0, <1>2, <2>1, HeldIsSendonly
    <2>2. CASE j # focused
      <3>1. Id(j) # Id(focused)
        BY <1>0, <2>2 DEF OneSlotEach
      <3>2. Offered(Id(j))
        BY <1>0, <3>1 DEF TalksOn, Offered
      <3> QED
        BY <1>0, <1>2, <2>2, <3>2, FailuresPositive
    <2> QED
      BY <2>1, <2>2
  <1> QED
    BY <1>1, <1>2 DEF OthersHeld

(* A conference begins, or its engine fails.                                *)
LEMMA MixedOrder ==
    ASSUME StateOK, InOrder, StartConference
    PROVE  OthersHeld'
  <1>1. Freed = {}
    BY Quieted DEF InOrder, AudioInOrder
  <1>2. inConference' \/ failures' > 0
    <2> DEFINE both == {Id(1), Id(2)}
    <2>1. inConference' \/ EngineFails(both \cap Freed # {})
      BY DEF StartConference
    <2>2. both \cap Freed = {}
      BY <1>1
    <2> QED
      BY <2>1, <2>2 DEF EngineFails, StateOK
  <1> QED
    BY <1>2 DEF OthersHeld

LEMMA UserOrder ==
    ASSUME StateOK, LifeInv, InOrder, UserActs
    PROVE  OthersHeld'
  <1>0. /\ OthersHeld /\ Room
        /\ \A j \in DOMAIN calls: Id(j) \in Calls
    BY SlotTypes DEF StateOK, InOrder, AudioInOrder
  <1>1. ASSUME UNCHANGED <<calls, focused, inConference, failures>>,
               \A e \in Calls: TalksOn(e)
        PROVE  OthersHeld'
    <2>1. \A e \in Calls: Offered(e)
      BY <1>1 DEF TalksOn, Offered
    <2> QED
      BY <1>0, <1>1, <2>1, OrderKept
  <1>2. CASE Dial \/ CompleteAttendedTransfer \/ BlindTransfer \/ Accept \/ Reject
    <2>1. \A e \in Calls: TalksOn(e)
      BY <1>2, DialAsks, TransferTalks, AnswerAsks
    <2>2. UNCHANGED <<calls, focused, inConference, failures>>
      BY <1>2 DEF Dial, CompleteAttendedTransfer, BlindTransfer, Accept, Reject, audio
    <2> QED
      BY <1>1, <2>1, <2>2
  <1>3. CASE AttendedTransferDial
    <2>1. ~inConference /\ inConference' = FALSE
      <3>1. ~inConference
        <4>1. Len(calls) = 1
          BY <1>3 DEF AttendedTransferDial
        <4> QED
          BY <1>0, <4>1 DEF Room
      <3>2. inConference' = inConference /\ inConference \in BOOLEAN
        BY <1>3 DEF AttendedTransferDial, StateOK
      <3> QED
        BY <3>1, <3>2
    <2>2. focused' = 0 /\ failures' = failures /\ calls' = WithHeld(focused, TRUE)
      BY <1>3 DEF AttendedTransferDial, KeepAudio
    <2> QED
      BY <1>3, <2>1, <2>2, ConsultationAsks, UnfocusedOrder
  <1>4. ASSUME NEW i \in DOMAIN calls, HangUp(i) PROVE OthersHeld'
    <2>1. \A e \in Calls: Offered(e)
      BY <1>4, HangUpAsks DEF TalksOn, Offered
    <2> QED
      BY <1>4, <2>1, RemovedOrder DEF HangUp
  <1>5. ASSUME NEW i \in DOMAIN calls, HoldSlot(i) PROVE OthersHeld'
    <2>1. /\ focused = i /\ ~inConference /\ focused' = 0 /\ failures' = failures
          /\ calls' = WithHeld(focused, TRUE)
      BY <1>5 DEF HoldSlot, KeepAudio
    <2>2. inConference' = FALSE
      BY <1>5 DEF HoldSlot, StateOK
    <2> QED
      BY <1>5, <2>1, <2>2, HoldSlotAsks, UnfocusedOrder
  <1>6. ASSUME NEW i \in DOMAIN calls, SwapTo(i) PROVE OthersHeld'
    BY <1>6, SwappedOrder
  <1>7. CASE StartConference
    BY <1>7, MixedOrder
  <1> QED
    BY <1>2, <1>3, <1>4, <1>5, <1>6, <1>7 DEF UserActs

(* A call comes up that crosses no other.                                   *)
LEMMA ConnectedOrder ==
    ASSUME StateOK, InOrder, NEW c \in Calls, HandleEvent(c),
           Head(events[c]) = "CallConnected", OnCallConnected(c),
           ~Crosses(c, "CallConnected")
    PROVE  OthersHeld'
  <1>0. /\ Len(calls) \in Nat /\ DOMAIN calls = 1..Len(calls)
        /\ focused \in 0..Len(calls) /\ Room /\ OthersHeld /\ Len(calls) <= 2
        /\ Freed = {} /\ (focused = 0 => media = {} /\ sockets = {})
        /\ \A j \in DOMAIN calls: Id(j) \in Calls
    BY SlotTypes, Quieted DEF StateOK, InOrder, AudioInOrder
  <1>a. Len(calls) # 2 /\ (pendingAccept # c /\ pendingOutbound # NoCall => focused = 0)
    BY DEF Crosses
  <1>b. Len(calls) <= 1 /\ ~inConference
    <2>1. Len(calls) <= 1
      BY <1>0, <1>a
    <2> QED
      BY <1>0, <1>a DEF Room
  <1>1. CASE UNCHANGED <<calls, audio, pendings, stack>>
    <2>1. \A e \in Calls: Offered(e)
      BY <1>1 DEF Offered
    <2> QED
      BY <1>0, <1>1, <2>1, OrderKept DEF OnCallConnected, audio
  <1>2. ASSUME NEW uri, Shows(c, uri), Len(calls) <= 1,
               StartMedia(Len(calls) + 1, c, {}, {}, 0),
               ~inConference, inConference' = inConference,
               \A j \in DOMAIN calls: /\ j = focused => PutOnHold(Id(j))
                                      /\ j # focused => Offered(Id(j))
        PROVE  OthersHeld'
    <2>1. focused' = Len(calls) + 1 \/ failures' > 0
      BY <1>2, CleanStart
    <2>2. failures > 0 => failures' > 0
      BY <1>2 DEF StartMedia, EngineFails, StateOK
    <2>3. /\ DOMAIN calls' = 1..Len(calls) + 1
          /\ \A j \in DOMAIN calls: Id(j)' = Id(j)
      BY <1>0, <1>2 DEF Shows, Id
    <2>4. ASSUME NEW j \in DOMAIN calls', j # focused', stack'[Id(j)'].st = "up",
                 ~(failures' > 0)
          PROVE  stack'[Id(j)'].dir = "sendonly"
      <3>1. j \in DOMAIN calls /\ Id(j)' = Id(j)
        BY <1>0, <2>1, <2>3, <2>4
      <3>2. CASE j = focused
        BY <1>0, <1>2, <2>4, <3>1, <3>2, HeldIsSendonly
      <3>3. CASE j # focused
        BY <1>0, <1>2, <2>2, <2>4, <3>1, <3>3, FailuresPositive
      <3> QED
        BY <3>2, <3>3
    <2> QED
      BY <2>4 DEF OthersHeld
  <1>3. CASE pendingAccept = c /\ OnAcceptedConnected(c)
    <2>1. Len(calls) <= 1 /\ ~inConference
      BY <1>b
    <2>2. StartMedia(Len(calls) + 1, c, {}, {}, 0)
      BY <1>0, <1>3 DEF OnAcceptedConnected
    <2>3. Shows(c, c)
      BY <1>3, AcceptedShows
    <2>4. ASSUME NEW j \in DOMAIN calls
          PROVE  (j = focused => PutOnHold(Id(j))) /\ (j # focused => Offered(Id(j)))
      <3>1. j # 0
        BY <1>0
      <3>2. j = focused => PutOnHold(Id(j))
        BY <1>3, <3>1, AcceptedTells
      <3>3. ASSUME j # focused PROVE Offered(Id(j))
        <4>1. focused = 0
          BY <1>0, <2>1, <3>3
        <4>2. TalksOn(Id(j))
          BY <1>0, <1>3, <4>1, AcceptedTells
        <4> QED
          BY <4>2 DEF TalksOn, Offered
      <3> QED
        BY <3>2, <3>3
    <2>5. inConference' = inConference
      BY DEF OnCallConnected
    <2> QED
      BY <1>2, <2>1, <2>2, <2>3, <2>4, <2>5
  <1>4. CASE pendingAccept # c /\ pendingOutbound # NoCall /\ OnDialledConnected(c)
    <2>1. Len(calls) <= 1 /\ ~inConference /\ focused = 0
      BY <1>a, <1>b, <1>4
    <2>2. StartMedia(Len(calls) + 1, c, {}, {}, 0)
      BY <1>0, <1>4, <2>1 DEF OnDialledConnected
    <2>3. Shows(c, pendingOutbound)
      BY <1>4, DialledShows
    <2>4. \A j \in DOMAIN calls: j # focused /\ Offered(Id(j))
      BY <1>0, <1>4, <2>1 DEF OnDialledConnected, Offered
    <2>5. inConference' = inConference
      BY DEF OnCallConnected
    <2> QED
      BY <1>2, <2>1, <2>2, <2>3, <2>4, <2>5
  <1> QED
    BY <1>1, <1>3, <1>4 DEF OnCallConnected

LEMMA EventOrder ==
    ASSUME StateOK, InOrder, NEW c \in Calls, HandleEvent(c),
           ~Crosses(c, Head(events[c]))
    PROVE  OthersHeld'
  <1>0. OthersHeld /\ \A j \in DOMAIN calls: Id(j) \in Calls
    BY SlotTypes DEF StateOK, InOrder
  <1>1. React(c, Head(events[c]))
    BY Taken
  <1>2. CASE Head(events[c]) = "CallConnected" /\ OnCallConnected(c)
    BY <1>2, ConnectedOrder
  <1>3. CASE Head(events[c]) # "CallConnected"
    <2>1. \A e \in Calls: Offered(e)
      BY <1>3, ReactionTells DEF TalksOn, Offered
    <2>2. ASSUME UNCHANGED <<calls, focused, inConference, failures>>
          PROVE  OthersHeld'
      BY <1>0, <2>1, <2>2, OrderKept
    <2>3. CASE OnIncomingCall(c)
      BY <2>2, <2>3 DEF OnIncomingCall, audio
    <2>4. CASE OnCallEnded(c)
      <3>1. \/ UNCHANGED <<calls, focused, inConference, failures>>
            \/ \E i \in DOMAIN calls: RemoveCall(i)
        BY <2>4 DEF OnCallEnded, EndsPendingCall, EndsPendingAccept, EndsSlot,
                    EndsPendingOutbound, SlotsOf, audio
      <3> QED
        BY <2>1, <2>2, <3>1, RemovedOrder
    <2>5. ASSUME NEW held \in BOOLEAN, OnHeld(c, held)
          PROVE  OthersHeld'
      <3>1. UNCHANGED <<focused, inConference, failures>>
        BY <2>5 DEF OnHeld, audio
      <3>2. /\ Len(calls') = Len(calls) /\ DOMAIN calls' = DOMAIN calls
            /\ \A i \in DOMAIN calls: calls'[i].id = calls[i].id
        BY <2>5, HeldKeepsSlots
      <3> QED
        BY <1>0, <2>1, <3>1, <3>2, OrderKept
    <2>6. CASE OnTransferAccepted \/ OnTransferFailed
      <3>1. CASE KeepBoth
        BY <2>2, <3>1 DEF KeepBoth, audio
      <3>2. CASE HangUpBoth(TRUE)
        <4>1. calls' = <<>> /\ inConference' = FALSE
          BY <3>2 DEF HangUpBoth
        <4>2. DOMAIN calls' = {}
          BY <4>1
        <4> QED
          BY <4>1, <4>2 DEF OthersHeld
      <3> QED
        BY <2>6, <3>1, <3>2 DEF OnTransferAccepted, OnTransferFailed
    <2> QED
      BY <1>1, <1>3, <2>3, <2>4, <2>5, <2>6 DEF React
  <1> QED
    BY <1>1, <1>2, <1>3 DEF React

(* The stack connects no call that has a slot.                              *)
LEMMA StackOrder ==
    ASSUME StateOK, LifeInv, InOrder, NEW c \in Calls, StackActs(c)
    PROVE  OthersHeld'
  <1>0. /\ OthersHeld
        /\ \A j \in DOMAIN calls: Id(j) \in Calls /\ InSlot(Id(j))
        /\ stack \in [Calls -> StackCall] /\ stack[c] \in StackCall
        /\ UNCHANGED <<calls, focused, inConference, failures>>
    BY SlotTypes DEF StateOK, InOrder, InSlot, StackActs, Client, audio
  <1>1. ASSUME InSlot(c) PROVE Offered(c)
    <2>1. Place(c) = "slot" /\ Legal(c, stack[c], events[c], Place(c))
      BY <1>1 DEF Place, LifeInv, Lives
    <2>2. stack[c].st \notin {"trying", "answering"}
      BY <2>1, CallsAssumption DEF Legal, Begun, Awaited
    <2>3. ~StackConnects(c)
      BY <2>2 DEF StackConnects
    <2>4. CASE StackRings(c) \/ StackEnds(c)
      <3>1. stack'[c] = [stack[c] EXCEPT !.st = "ringing"] \/ stack'[c] = Over(stack[c])
        BY <1>0, <2>4 DEF StackRings, StackEnds
      <3>2. stack'[c].st # "up"
        BY <1>0, <3>1 DEF Over, StackCall
      <3> QED
        BY <3>2 DEF Offered
    <2>5. CASE StackReinvited(c)
      <3> DEFINE n == stack[c].reinvites - 1
      <3>1. stack'[c] = [stack[c] EXCEPT !.reinvites = n, !.holdPending = "none"]
        BY <1>0, <2>5 DEF StackReinvited
      <3> HIDE DEF n
      <3> QED
        BY <1>0, <3>1 DEF Offered, StackCall
    <2>6. CASE StackReferred(c)
      <3> DEFINE n == stack[c].refers - 1
      <3>1. stack'[c] = [stack[c] EXCEPT !.refers = n]
        BY <1>0, <2>6 DEF StackReferred
      <3> HIDE DEF n
      <3> QED
        BY <1>0, <3>1 DEF Offered, StackCall
    <2> QED
      BY <2>3, <2>4, <2>5, <2>6 DEF StackActs
  <1>2. ASSUME NEW e \in Calls, e # c PROVE Offered(e)
    BY <1>2, StackMove DEF Offered
  <1> QED
    BY <1>0, <1>1, <1>2, OrderKept

LEMMA OrderAlways == Spec => [](~crossed => OthersHeld)
  <1>1. Init => OthersHeld
    BY DEF Init, OthersHeld
  <1>2. Typed /\ LifeInv /\ InFocus /\ (~crossed => OthersHeld) /\ [Next]_vars =>
          (~crossed => OthersHeld)'
    <2> SUFFICES ASSUME Typed, LifeInv, InFocus, ~crossed => OthersHeld, [Next]_vars,
                        ~crossed'
                 PROVE  OthersHeld'
      OBVIOUS
    <2>0. StateOK /\ (~crossed => InOrder)
      BY DEF Typed, InFocus, InOrder
    <2>1. CASE UserActs /\ UNCHANGED past
      BY <2>0, <2>1, UserOrder DEF past
    <2>2. ASSUME NEW c \in Calls, HandleEvent(c) PROVE OthersHeld'
      <3>1. ~crossed /\ ~Crosses(c, Head(events[c]))
        BY <2>2 DEF HandleEvent
      <3> QED
        BY <2>0, <2>2, <3>1, EventOrder
    <2>3. ASSUME NEW c \in Calls, StackActs(c) PROVE OthersHeld'
      <3>1. ~crossed
        BY <2>3 DEF StackActs, Client, past
      <3> QED
        BY <2>0, <2>3, <3>1, StackOrder
    <2>4. CASE UNCHANGED vars
      BY <2>0, <2>4 DEF vars, audio, past, InOrder, OthersHeld, Id
    <2> QED
      BY <2>1, <2>2, <2>3, <2>4 DEF Next
  <1> QED
    BY <1>1, <1>2, AudioAlways, LifeAlways, TypedAlways, PTL DEF Spec

(* The call that has not the focus is on hold at the far end, until a call  *)
(* connects that crosses another, and unless one was left without an        *)
(* engine.                                                                  *)
THEOREM OthersAreOnHold == Spec => []OthersOnHold
  <1>1. (~crossed => OthersHeld) => OthersOnHold
    BY DEF OthersHeld, OthersOnHold
  <1> QED
    BY <1>1, OrderAlways, PTL

-----------------------------------------------------------------------------
(* The room for calls.  Calls on their way in or out are counted where they *)
(* are admitted: at a dial and when a call rings, and never again.          *)

RoomInv ==
    LET out     == pendingOutbound # NoCall
        ringing == pendingCall # NoCall
        taken   == pendingAccept # NoCall
    IN  /\ Len(calls) <= 3
        /\ out \/ ringing \/ taken => Len(calls) <= 2
        /\ (out /\ ringing) \/ (out /\ taken) \/ (ringing /\ taken) => Len(calls) <= 1
        /\ out /\ ringing /\ taken => Len(calls) <= 0

Taking(p) == IF p = NoCall THEN 0 ELSE 1

LEMMA RoomShown ==
    ASSUME StateOK, RoomInv
    PROVE  AtMostThree
  <1> DEFINE P == {pendingOutbound, pendingCall, pendingAccept} \ {NoCall}
  <1>1. ASSUME NEW S, IsFiniteSet(S), NEW p
        PROVE  /\ IsFiniteSet(S \cup ({p} \ {NoCall}))
               /\ Cardinality(S) \in Nat
               /\ Cardinality(S \cup ({p} \ {NoCall})) <= Cardinality(S) + Taking(p)
    <2>1. Cardinality(S) \in Nat
      BY <1>1, FS_CardinalityType
    <2>2. CASE p = NoCall
      <3>1. S \cup ({p} \ {NoCall}) = S /\ Taking(p) = 0
        BY <2>2 DEF Taking
      <3>2. Cardinality(S) <= Cardinality(S) + Taking(p)
        BY <2>1, <3>1
      <3> QED
        BY <1>1, <2>1, <3>1, <3>2, Zenon
    <2>3. CASE p # NoCall
      <3>1. S \cup ({p} \ {NoCall}) = S \cup {p}
        BY <2>3
      <3>2. /\ IsFiniteSet(S \cup {p})
            /\ Cardinality(S \cup {p}) = IF p \in S THEN Cardinality(S)
                                         ELSE Cardinality(S) + 1
        BY <1>1, FS_AddElement
      <3> QED
        BY <2>1, <2>3, <3>1, <3>2 DEF Taking
    <2> QED
      BY <2>2, <2>3
  <1> DEFINE A == {} \cup ({pendingOutbound} \ {NoCall})
             B == A \cup ({pendingCall} \ {NoCall})
             C == B \cup ({pendingAccept} \ {NoCall})
  <1>2. IsFiniteSet({}) /\ Cardinality({}) = 0
    BY FS_EmptySet
  <1>3. /\ IsFiniteSet(A) /\ Cardinality(A) <= 0 + Taking(pendingOutbound)
    BY <1>1, <1>2
  <1>4. /\ IsFiniteSet(B) /\ Cardinality(A) \in Nat
        /\ Cardinality(B) <= Cardinality(A) + Taking(pendingCall)
    BY <1>1, <1>3
  <1>5. /\ IsFiniteSet(C) /\ Cardinality(B) \in Nat
        /\ Cardinality(C) <= Cardinality(B) + Taking(pendingAccept)
    BY <1>1, <1>4
  <1>6. Cardinality(C) \in Nat
    BY <1>5, FS_CardinalityType
  <1>7. P = C
    OBVIOUS
  <1>8. Len(calls) \in Nat
    BY SlotTypes DEF StateOK
  <1>9. \A p: Taking(p) \in {0, 1} /\ (Taking(p) = 0 <=> p = NoCall)
    BY DEF Taking
  <1>10. Len(calls) + Cardinality(C) <= 3
    <2> HIDE DEF A, B, C
    <2> QED
      BY <1>3, <1>4, <1>5, <1>6, <1>8, <1>9 DEF RoomInv
  <1> QED
    BY <1>7, <1>10 DEF AtMostThree

LEMMA AskedLength ==
    ASSUME StateOK, StateOK', OnlyAsks
    PROVE  Len(calls') = Len(calls)
  <1>1. /\ Len(calls) \in Nat /\ DOMAIN calls = 1..Len(calls)
        /\ Len(calls') \in Nat /\ DOMAIN calls' = 1..Len(calls')
    BY LenProperties DEF StateOK
  <1> QED
    BY <1>1 DEF OnlyAsks

LEMMA RoomInductive == StateOK /\ StateOK' /\ RoomInv /\ [Next]_vars => RoomInv'
  <1> SUFFICES ASSUME StateOK, StateOK', RoomInv, [Next]_vars PROVE RoomInv'
    OBVIOUS
  <1>0. /\ Len(calls) \in Nat /\ DOMAIN calls = 1..Len(calls) /\ Len(<<>>) = 0
        /\ NoCall \notin Calls
        /\ pendingOutbound \in OutCalls \cup {NoCall}
        /\ pendingCall \in InCalls \cup {NoCall}
        /\ pendingAccept \in InCalls \cup {NoCall}
    BY SlotTypes, CallsAssumption DEF StateOK
  <1>1. CASE UserActs
    <2>1. CASE Dial
      BY <1>0, <2>1 DEF Dial, MayDial, RoomInv
    <2>2. CASE AttendedTransferDial
      <3>1. focused \in DOMAIN calls
        BY <1>0, <2>2 DEF AttendedTransferDial, StateOK
      <3>2. Len(calls') = Len(calls)
        BY <2>2, <3>1, SlotTypes DEF AttendedTransferDial, StateOK
      <3>3. Len(calls) = 1 /\ pendingCall = NoCall /\ UNCHANGED <<pendingCall, pendingAccept>>
        BY <2>2 DEF AttendedTransferDial, MayDial
      <3> QED
        BY <3>2, <3>3 DEF RoomInv
    <2>3. CASE Accept \/ Reject
      BY <1>0, <2>3 DEF Accept, Reject, RoomInv
    <2>4. ASSUME NEW i \in DOMAIN calls, HangUp(i) PROVE RoomInv'
      <3>1. Len(calls') = Len(calls) - 1 /\ UNCHANGED pendings
        BY <2>4, RemoveCallTyped DEF HangUp
      <3> QED
        BY <1>0, <3>1 DEF RoomInv, pendings
    <2>5. CASE OnlyAsks
      <3>1. UNCHANGED pendings /\ Len(calls') = Len(calls)
        BY <2>5, AskedLength DEF OnlyAsks
      <3> QED
        BY <1>0, <3>1 DEF RoomInv, pendings
    <2> QED
      BY <1>1, <2>1, <2>2, <2>3, <2>4, <2>5, TransferAsks, HoldAsks, ConferenceAsks
      DEF UserActs
  <1>2. ASSUME NEW c \in Calls, HandleEvent(c) PROVE RoomInv'
    <2>0. React(c, Head(events[c]))
      BY <1>2 DEF HandleEvent
    <2>1. CASE OnIncomingCall(c)
      BY <1>0, <2>1 DEF OnIncomingCall, Occupied, RoomInv
    <2>2. CASE OnCallConnected(c)
      <3>1. CASE pendingAccept = c /\ OnAcceptedConnected(c)
        <4>1. Len(calls') = Len(calls) + 1
          BY <3>1, AcceptedShows DEF Shows
        <4> QED
          BY <1>0, <3>1, <4>1 DEF OnAcceptedConnected, RoomInv
      <3>2. CASE pendingOutbound # NoCall /\ OnDialledConnected(c)
        <4>1. Len(calls') = Len(calls) + 1
          BY <3>2, DialledShows DEF Shows
        <4> QED
          BY <1>0, <3>2, <4>1 DEF OnDialledConnected, RoomInv
      <3>3. CASE UNCHANGED <<calls, audio, pendings, stack>>
        BY <3>3 DEF RoomInv, pendings
      <3> QED
        BY <2>2, <3>1, <3>2, <3>3 DEF OnCallConnected
    <2>3. CASE OnCallEnded(c)
      <3>1. CASE EndsPendingCall(c) \/ EndsPendingAccept(c) \/ EndsPendingOutbound(c)
        BY <1>0, <3>1
        DEF EndsPendingCall, EndsPendingAccept, EndsPendingOutbound, RoomInv
      <3>2. CASE EndsSlot(c)
        <4>1. PICK i \in DOMAIN calls: RemoveCall(i)
          BY <3>2 DEF EndsSlot, SlotsOf
        <4>2. Len(calls') = Len(calls) - 1 /\ UNCHANGED pendings
          BY <3>2, <4>1, RemoveCallTyped DEF EndsSlot
        <4> QED
          BY <1>0, <4>2 DEF RoomInv, pendings
      <3> QED
        BY <2>3, <3>1, <3>2 DEF OnCallEnded
    <2>4. ASSUME NEW held \in BOOLEAN, OnHeld(c, held) PROVE RoomInv'
      <3>1. Len(calls') = Len(calls) /\ UNCHANGED pendings
        BY <2>4, HeldKeepsSlots DEF OnHeld
      <3> QED
        BY <3>1 DEF RoomInv, pendings
    <2>5. CASE OnTransferAccepted \/ OnTransferFailed
      BY <1>0, <2>5
      DEF OnTransferAccepted, OnTransferFailed, HangUpBoth, KeepBoth, RoomInv, pendings
    <2> QED
      BY <2>0, <2>1, <2>2, <2>3, <2>4, <2>5 DEF React
  <1>3. CASE \E c \in Calls: StackActs(c)
    BY <1>3 DEF StackActs, Client, RoomInv, pendings
  <1>4. CASE UNCHANGED vars
    BY <1>4 DEF vars, RoomInv, pendings
  <1> QED
    BY <1>1, <1>2, <1>3, <1>4 DEF Next

(* Never more than three calls, those on their way in or out counted, and   *)
(* not the two that app.rs promises: on_incoming_call and the dialler ask   *)
(* for room, do_accept and CallConnected do not.                            *)
THEOREM RoomForThree == Spec => []AtMostThree
  <1>1. Init => RoomInv
    BY DEF Init, RoomInv
  <1>2. Typed => StateOK
    BY DEF Typed
  <1>3. StateOK /\ RoomInv => AtMostThree
    BY RoomShown
  <1> QED
    BY <1>1, <1>2, <1>3, RoomInductive, TypedAlways, PTL DEF Spec

-----------------------------------------------------------------------------
(* What the user is shown of the calls that are dialled.  It depends on the *)
(* names in the slots, the dialled call and the records, and not on what    *)
(* the stack has: so it holds though an event is taken for that of another  *)
(* call.  Inductive with: a call not dialled yet is shown nowhere.          *)

HasName(e) == \E i \in DOMAIN calls: calls[i].uri = e

FreshHidden == \A e \in OutCalls: stack[e].st = "none" => ShownAs(e) = "idle"

(* How a call fares in a step: as before, recorded, or one further.         *)
Same(e) == ShownAs(e)' = ShownAs(e)
Lapses(e) == ShownAs(e)' = "over" /\ ShownAs(e) # "idle"
Advances(e) ==
    \/ ShownAs(e) = "idle" /\ ShownAs(e)' = "pending" /\ stack'[e].st # "none"
    \/ ShownAs(e) = "pending" /\ ShownAs(e)' = "up"

Fared ==
    \/ \A e \in OutCalls: Same(e) \/ Lapses(e)
    \/ \E c \in OutCalls: Advances(c) /\ \A e \in OutCalls: e # c => Same(e)

(* No call becomes one that was never heard of.                             *)
StaysKnown == \A e \in Calls: stack'[e].st = "none" => stack[e].st = "none"

(* What shows a call stays as it was.                                       *)
Keeps(e) ==
    /\ HasName(e)' <=> HasName(e)
    /\ (pendingOutbound' = e) <=> (pendingOutbound = e)
    /\ history'[e] = history[e]

LEMMA ShownIs ==
    ASSUME NEW e
    PROVE  ShownAs(e) = IF history[e] > 0 THEN "over"
                        ELSE IF HasName(e) THEN "up"
                        ELSE IF pendingOutbound = e THEN "pending" ELSE "idle"
  BY DEF ShownAs, HasName

LEMMA KeepsShown ==
    ASSUME NEW e, Keeps(e)
    PROVE  Same(e)
  BY DEF Same, ShownAs, Keeps, HasName

LEMMA RecordIs ==
    ASSUME StateOK, NEW c \in Calls, Record(c)
    PROVE  /\ history[c] \in Nat /\ history'[c] = history[c] + 1
           /\ \A e \in Calls: e # c => history'[e] = history[e]
  BY DEF StateOK, Record

LEMMA FaredShown ==
    ASSUME FreshHidden, Fared, StaysKnown
    PROVE  FreshHidden' /\ [Shown!Next]_([c \in OutCalls |-> ShownAs(c)])
  <1> DEFINE p == [c \in OutCalls |-> ShownAs(c)]
  <1>1. CASE \A e \in OutCalls: Same(e) \/ Lapses(e)
    <2> DEFINE S == {e \in OutCalls: ~Same(e)}
    <2>1. \A e \in OutCalls: ShownAs(e)' = IF e \in S THEN "over" ELSE ShownAs(e)
      BY <1>1 DEF Same, Lapses
    <2>2. p' = [e \in OutCalls |-> IF e \in S THEN "over" ELSE p[e]]
      BY <2>1
    <2>3. FreshHidden'
      BY <1>1 DEF FreshHidden, StaysKnown, Same, Lapses, Calls
    <2>4. S # {} => Shown!End(S)
      BY <2>2 DEF Shown!End
    <2>5. S \in SUBSET OutCalls
      OBVIOUS
    <2>6. S = {} => p' = p
      BY <2>2
    <2> HIDE DEF S
    <2> QED
      BY <2>3, <2>4, <2>5, <2>6 DEF Shown!Next
  <1>2. ASSUME NEW c \in OutCalls, Advances(c), \A e \in OutCalls: e # c => Same(e)
        PROVE  FreshHidden' /\ [Shown!Next]_([d \in OutCalls |-> ShownAs(d)])
    <2>1. \A e \in OutCalls: e # c => ShownAs(e)' = ShownAs(e)
      BY <1>2 DEF Same
    <2>2. p' = [p EXCEPT ![c] = ShownAs(c)']
      BY <2>1
    <2>3. FreshHidden'
      BY <1>2, <2>1 DEF FreshHidden, StaysKnown, Advances, Calls
    <2>4. Shown!Ask(c) <=> p[c] = "idle" /\ p' = [p EXCEPT ![c] = "pending"]
      BY DEF Shown!Ask
    <2>5. Shown!ComesUp(c) <=> p[c] = "pending" /\ p' = [p EXCEPT ![c] = "up"]
      BY DEF Shown!ComesUp
    <2>6. p[c] = ShownAs(c)
      OBVIOUS
    <2>7. Shown!Ask(c) \/ Shown!ComesUp(c) => Shown!Next
      BY DEF Shown!Next
    <2> HIDE DEF p
    <2>8. [Shown!Next]_p
      BY <1>2, <2>2, <2>4, <2>5, <2>6, <2>7 DEF Advances
    <2> QED
      BY <2>3, <2>8 DEF p
  <1> QED
    BY <1>1, <1>2 DEF Fared

(* A record of a call that comes in says nothing of one that is dialled.    *)
LEMMA RecordFares ==
    ASSUME StateOK, NEW c \in Calls, Record(c), c \in InCalls \/ ShownAs(c) # "idle",
           \A e \in OutCalls: e # c =>
             /\ HasName(e)' <=> HasName(e)
             /\ (pendingOutbound' = e) <=> (pendingOutbound = e)
    PROVE  Fared
  <1>1. /\ history'[c] = history[c] + 1 /\ history[c] \in Nat
        /\ \A e \in Calls: e # c => history'[e] = history[e]
    BY RecordIs
  <1>2. \A e \in OutCalls: e # c => Same(e)
    BY <1>1, KeepsShown DEF Keeps, Calls
  <1>3. c \in OutCalls => Lapses(c)
    <2>1. history'[c] > 0
      BY <1>1
    <2>2. ShownAs(c)' = "over"
      BY <2>1 DEF ShownAs
    <2> QED
      BY <2>2, CallsAssumption DEF Lapses
  <1> QED
    BY <1>2, <1>3 DEF Fared

LEMMA NameRemoved ==
    ASSUME StateOK, NEW i \in DOMAIN calls, RemoveCall(i)
    PROVE  \A e: e # calls[i].uri => (HasName(e)' <=> HasName(e))
  <1>1. /\ DOMAIN calls' = 1..Len(calls) - 1
        /\ DOMAIN calls = 1..Len(calls) /\ Len(calls) \in Nat
        /\ \A j \in 1..Len(calls) - 1:
             calls'[j] = IF j < i THEN calls[j] ELSE calls[j + 1]
    BY RemoveCallAudio, Remaining, SlotTypes DEF StateOK
  <1>2. ASSUME NEW e, e # calls[i].uri PROVE HasName(e)' <=> HasName(e)
    <2>1. ASSUME NEW j \in DOMAIN calls, calls[j].uri = e PROVE HasName(e)'
      <3>1. CASE j < i
        BY <1>1, <2>1, <3>1 DEF HasName
      <3>2. CASE j > i
        <4>1. j - 1 \in DOMAIN calls' /\ calls'[j - 1] = calls[j]
          BY <1>1, <2>1, <3>2
        <4> QED
          BY <2>1, <4>1 DEF HasName
      <3> QED
        BY <1>1, <1>2, <2>1, <3>1, <3>2
    <2>2. ASSUME NEW j \in DOMAIN calls', calls'[j].uri = e PROVE HasName(e)
      <3>1. \E k \in DOMAIN calls: calls'[j] = calls[k]
        BY <1>1, <2>2
      <3> QED
        BY <2>2, <3>1 DEF HasName
    <2> QED
      BY <2>1, <2>2 DEF HasName
  <1> QED
    BY <1>2

LEMMA RemovalFares ==
    ASSUME StateOK, NEW i \in DOMAIN calls, RemoveCall(i), Record(calls[i].uri),
           UNCHANGED pendings
    PROVE  Fared
  <1>1. calls[i].uri \in Calls
    BY SlotTypes DEF StateOK
  <1>2. HasName(calls[i].uri)
    BY DEF HasName
  <1>3. ShownAs(calls[i].uri) # "idle"
    BY <1>2, ShownIs
  <1> QED
    BY <1>1, <1>3, NameRemoved, RecordFares DEF pendings

LEMMA NamesStay ==
    ASSUME DOMAIN calls' = DOMAIN calls,
           \A i \in DOMAIN calls: calls'[i].uri = calls[i].uri
    PROVE  \A e: HasName(e)' <=> HasName(e)
  BY DEF HasName

LEMMA OneMoreName ==
    ASSUME StateOK, NEW c, NEW uri, Shows(c, uri)
    PROVE  \A e: HasName(e)' <=> (HasName(e) \/ e = uri)
  <1>1. DOMAIN calls = 1..Len(calls) /\ Len(calls) \in Nat
    BY SlotTypes DEF StateOK
  <1>2. calls'[Len(calls) + 1].uri = uri /\ Len(calls) + 1 \in DOMAIN calls'
    BY <1>1 DEF Shows
  <1>3. \A j \in DOMAIN calls: j \in DOMAIN calls' /\ calls'[j].uri = calls[j].uri
    BY <1>1 DEF Shows
  <1>4. \A j \in DOMAIN calls': j \in DOMAIN calls \/ j = Len(calls) + 1
    BY <1>1 DEF Shows
  <1> QED
    BY <1>2, <1>3, <1>4 DEF HasName

LEMMA NoneForgets ==
    ASSUME NEW s \in StackCall
    PROVE  /\ Reinvited(s, "hold").st = s.st
           /\ HungUp(s).st = "none" => s.st = "none"
           /\ Declined(s).st = "none" => s.st = "none"
           /\ Accepted(s).st = "none" => s.st = "none"
           /\ Becomes(s, "ringing", "busy").st = "none" => s.st = "none"
  BY DEF StackCall, Reinvited, HungUp, Declined, Accepted, Becomes

LEMMA DialFares ==
    ASSUME StateOK, FreshHidden, Dial \/ AttendedTransferDial
    PROVE  Fared /\ StaysKnown
  <1>0. stack \in [Calls -> StackCall] /\ NoCall \notin Calls
    BY CallsAssumption DEF StateOK
  <1>1. PICK c \in OutCalls: c = NextCall /\ stack[c].st = "none"
    BY NextCallIsNew DEF Dial, AttendedTransferDial
  <1>2. pendingOutbound = NoCall /\ pendingOutbound' = c /\ history' = history
    BY <1>1 DEF Dial, AttendedTransferDial, MayDial
  <1>3. \A e: HasName(e)' <=> HasName(e)
    <2>1. CASE Dial
      BY <2>1 DEF Dial, HasName
    <2>2. CASE AttendedTransferDial
      <3>1. focused \in DOMAIN calls
        BY <2>2, SlotTypes DEF AttendedTransferDial, StateOK
      <3> QED
        BY <2>2, <3>1, ZenonT(40), WithHeldKeeps, NamesStay DEF AttendedTransferDial
    <2> QED
      BY <2>1, <2>2
  <1>4. stack'[c].st = "trying" /\ StaysKnown
    <2>1. CASE Dial
      BY <1>0, <1>1, <2>1 DEF Dial, Calls, StackCall, StaysKnown
    <2>2. CASE AttendedTransferDial
      <3>1. Id(focused) \in Calls
        BY <2>2, SlotTypes DEF AttendedTransferDial, StateOK
      <3> DEFINE held == [stack EXCEPT ![Id(focused)] = Reinvited(@, "hold")]
      <3>2. held \in [Calls -> StackCall] /\ \A e \in Calls: held[e].st = stack[e].st
        BY <1>0, <3>1, StackAsks, AsksLeaveStates
      <3>3. stack' = [held EXCEPT ![c].st = "trying"]
        BY <1>1, <2>2 DEF AttendedTransferDial
      <3> HIDE DEF held
      <3> QED
        BY <1>1, <3>2, <3>3 DEF Calls, StackCall, StaysKnown
    <2> QED
      BY <2>1, <2>2
  <1>5. ShownAs(c) = "idle"
    BY <1>1 DEF FreshHidden
  <1>6. ShownAs(c)' = "pending"
    BY <1>2, <1>3, <1>5 DEF ShownAs, HasName
  <1>7. \A e \in OutCalls: e # c => Same(e)
    BY <1>0, <1>2, <1>3, KeepsShown DEF Keeps, Calls
  <1>8. Advances(c)
    BY <1>4, <1>5, <1>6 DEF Advances
  <1> QED
    BY <1>4, <1>7, <1>8 DEF Fared

LEMMA UserFares ==
    ASSUME StateOK, FreshHidden, UserActs
    PROVE  Fared /\ StaysKnown
  <1>0. stack \in [Calls -> StackCall]
    BY DEF StateOK
  <1>1. CASE Dial \/ AttendedTransferDial
    BY <1>1, DialFares
  <1>2. CASE OnlyAsks
    <2>1. \A e \in OutCalls: Same(e)
      BY <1>2, NamesStay, KeepsShown DEF OnlyAsks, Keeps, pendings
    <2> QED
      BY <1>2, <2>1 DEF Fared, StaysKnown, OnlyAsks, AsksInTalk
  <1>3. CASE Accept
    <2>1. \A e \in OutCalls: Same(e)
      BY <1>3 DEF Accept, Same, ShownAs
    <2>2. stack' = [stack EXCEPT ![pendingCall] = Accepted(@)]
      BY <1>3 DEF Accept
    <2> QED
      BY <1>0, <2>1, <2>2, NoneForgets DEF Fared, StaysKnown
  <1>4. CASE Reject
    <2>1. pendingCall \in InCalls /\ Record(pendingCall)
      BY <1>4 DEF Reject, StateOK
    <2>2. Fared
      BY <1>4, <2>1, RecordFares DEF Reject, HasName, Calls
    <2>3. stack' = [stack EXCEPT ![pendingCall] = Declined(@)]
      BY <1>4 DEF Reject
    <2> QED
      BY <1>0, <2>2, <2>3, NoneForgets DEF StaysKnown
  <1>5. ASSUME NEW i \in DOMAIN calls, HangUp(i) PROVE Fared /\ StaysKnown
    <2>1. Fared
      BY <1>5, RemovalFares DEF HangUp
    <2>2. stack' = [stack EXCEPT ![Id(i)] = HungUp(@)]
      BY <1>5 DEF HangUp
    <2> QED
      BY <1>0, <2>1, <2>2, NoneForgets DEF StaysKnown
  <1> QED
    BY <1>1, <1>2, <1>3, <1>4, <1>5, TransferAsks, HoldAsks, ConferenceAsks DEF UserActs

(* A call that connects is shown with the name of the call it is taken for. *)
LEMMA ConnectFares ==
    ASSUME StateOK, NEW c \in Calls, OnCallConnected(c)
    PROVE  Fared
  <1>0. history' = history /\ NoCall \notin Calls
    BY CallsAssumption DEF OnCallConnected
  <1>1. CASE pendingAccept = c /\ OnAcceptedConnected(c)
    <2>1. c \in InCalls /\ pendingOutbound' = pendingOutbound
      BY <1>0, <1>1 DEF OnAcceptedConnected, StateOK
    <2>2. \A e \in OutCalls: HasName(e)' <=> HasName(e)
      BY <1>1, <2>1, AcceptedShows, OneMoreName, CallsAssumption
    <2> QED
      BY <1>0, <2>1, <2>2, KeepsShown DEF Keeps, Fared
  <1>2. CASE pendingOutbound # NoCall /\ OnDialledConnected(c)
    <2>1. PICK d \in OutCalls: d = pendingOutbound
      BY <1>2 DEF StateOK
    <2>2. pendingOutbound' = NoCall /\ \A e: HasName(e)' <=> (HasName(e) \/ e = d)
      BY <1>2, <2>1, DialledShows, OneMoreName DEF OnDialledConnected
    <2>3. \A e \in OutCalls: e # d => Same(e)
      BY <1>0, <2>1, <2>2, KeepsShown DEF Keeps, Calls
    <2>4. /\ ShownAs(d) = IF history[d] > 0 THEN "over"
                          ELSE IF HasName(d) THEN "up" ELSE "pending"
          /\ ShownAs(d)' = IF history[d] > 0 THEN "over" ELSE "up"
      BY <1>0, <2>1, <2>2 DEF ShownAs, HasName
    <2>5. Same(d) \/ Advances(d)
      BY <2>4 DEF Same, Advances
    <2> QED
      BY <2>3, <2>5 DEF Fared
  <1>3. CASE UNCHANGED <<calls, audio, pendings, stack>>
    BY <1>0, <1>3 DEF Fared, Same, ShownAs, pendings
  <1> QED
    BY <1>1, <1>2, <1>3 DEF OnCallConnected

LEMMA EndFares ==
    ASSUME StateOK, NEW c \in Calls, OnCallEnded(c)
    PROVE  Fared
  <1>1. CASE EndsPendingCall(c) \/ EndsPendingAccept(c)
    <2>1. /\ c \in InCalls /\ Record(c)
          /\ UNCHANGED <<calls, pendingOutbound>>
      BY <1>1, CallsAssumption DEF EndsPendingCall, EndsPendingAccept, StateOK
    <2>2. \A e: HasName(e)' <=> HasName(e)
      BY <2>1 DEF HasName
    <2> QED
      BY <2>1, <2>2, RecordFares
  <1>2. CASE EndsSlot(c)
    BY <1>2, RemovalFares DEF EndsSlot, SlotsOf
  <1>3. CASE EndsPendingOutbound(c)
    <2>1. calls' = calls /\ \A e: HasName(e)' <=> HasName(e)
      BY <1>3 DEF EndsPendingOutbound, HasName
    <2>2. CASE pendingOutbound = NoCall
      <3>1. UNCHANGED <<calls, pendingOutbound, history>>
        BY <1>3, <2>1, <2>2 DEF EndsPendingOutbound
      <3> QED
        BY <3>1 DEF Fared, Same, ShownAs
    <2>3. CASE pendingOutbound # NoCall
      <3>1. PICK d \in OutCalls: d = pendingOutbound
        BY <2>3 DEF StateOK
      <3>2. d \in Calls /\ NoCall \notin Calls
        BY CallsAssumption DEF Calls
      <3>3. Record(d) /\ pendingOutbound' = NoCall
        BY <1>3, <2>3, <3>1 DEF EndsPendingOutbound
      <3>4. ShownAs(d) # "idle"
        BY <3>1 DEF ShownAs
      <3> QED
        BY <2>1, <3>1, <3>2, <3>3, <3>4, RecordFares DEF Calls
    <2> QED
      BY <2>2, <2>3
  <1> QED
    BY <1>1, <1>2, <1>3 DEF OnCallEnded

(* The records of two calls that are hung up at once.                       *)
LEMMA BothRecorded ==
    ASSUME StateOK, HangUpBoth(TRUE), NEW d \in Calls
    PROVE  /\ history[d] \in Nat
           /\ HasName(d) => history'[d] > 0
           /\ ~HasName(d) => history'[d] = history[d]
  <1> DEFINE mine == {i \in DOMAIN calls: calls[i].uri = d}
  <1>1. history'[d] = history[d] + Cardinality(mine) /\ history[d] \in Nat
    BY DEF HangUpBoth, StateOK
  <1>2. IsFiniteSet(mine)
    <2>1. DOMAIN calls = 1..Len(calls) /\ Len(calls) \in Nat
      BY SlotTypes DEF StateOK
    <2>2. IsFiniteSet(1..Len(calls)) /\ mine \subseteq 1..Len(calls)
      BY <2>1, FS_Interval
    <2> QED
      BY <2>2, FS_Subset
  <1>3. Cardinality(mine) \in Nat /\ (Cardinality(mine) = 0 <=> mine = {})
    BY <1>2, FS_CardinalityType, FS_EmptySet
  <1>4. HasName(d) <=> mine # {}
    BY DEF HasName
  <1> HIDE DEF mine
  <1> QED
    BY <1>1, <1>3, <1>4

LEMMA TransferAnswerFares ==
    ASSUME StateOK, OnTransferAccepted \/ OnTransferFailed
    PROVE  Fared /\ StaysKnown
  <1>1. CASE KeepBoth
    BY <1>1 DEF KeepBoth, Fared, Same, ShownAs, StaysKnown, pendings
  <1>2. CASE HangUpBoth(TRUE)
    <2>1. calls' = <<>> /\ pendingOutbound' = pendingOutbound
      BY <1>2 DEF HangUpBoth, pendings
    <2>2. \A e: ~HasName(e)'
      BY <2>1 DEF HasName
    <2>3. ASSUME NEW e \in OutCalls PROVE Same(e) \/ Lapses(e)
      <3>0. e \in Calls
        BY DEF Calls
      <3>1. CASE HasName(e)
        <4>1. ShownAs(e)' = "over"
          BY <1>2, <3>0, <3>1, BothRecorded DEF ShownAs
        <4>2. ShownAs(e) # "idle"
          BY <3>1, ShownIs
        <4> QED
          BY <4>1, <4>2 DEF Lapses
      <3>2. CASE ~HasName(e)
        BY <1>2, <2>1, <2>2, <3>0, <3>2, BothRecorded, KeepsShown DEF Keeps
      <3> QED
        BY <3>1, <3>2
    <2>4. StaysKnown
      BY <1>2, NoneForgets DEF HangUpBoth, StaysKnown, StateOK
    <2> QED
      BY <2>3, <2>4 DEF Fared
  <1> QED
    BY <1>1, <1>2 DEF OnTransferAccepted, OnTransferFailed

LEMMA EventFares ==
    ASSUME Typed, NEW c \in Calls, HandleEvent(c)
    PROVE  Fared /\ StaysKnown
  <1>0. StateOK /\ stack \in [Calls -> StackCall] /\ React(c, Head(events[c]))
    BY DEF Typed, StateOK, HandleEvent
  <1>1. CASE Head(events[c]) = "IncomingCall" /\ OnIncomingCall(c)
    <2>1. c \in InCalls
      BY <1>0, <1>1, EventTaken DEF Typed, Announced, HandleEvent
    <2>2. \A e: HasName(e)' <=> HasName(e)
      BY <1>1 DEF OnIncomingCall, HasName
    <2>3. Record(c) => Fared
      BY <1>0, <1>1, <2>1, <2>2, RecordFares DEF OnIncomingCall
    <2>4. history' = history => Fared
      BY <1>1 DEF OnIncomingCall, Fared, Same, ShownAs
    <2>5. StaysKnown
      BY <1>0, <1>1, NoneForgets DEF OnIncomingCall, StaysKnown
    <2> QED
      BY <1>1, <2>3, <2>4, <2>5 DEF OnIncomingCall
  <1>2. CASE Head(events[c]) = "CallConnected" /\ OnCallConnected(c)
    <2>1. StaysKnown
      BY <1>0, <1>2, NoneForgets, AcceptedAsks
      DEF OnCallConnected, OnDialledConnected, AsksInTalk, StaysKnown
    <2> QED
      BY <1>0, <1>2, <2>1, ConnectFares
  <1>3. CASE Head(events[c]) = "CallEnded" /\ OnCallEnded(c)
    BY <1>0, <1>3, EndFares DEF OnCallEnded, StaysKnown
  <1>4. ASSUME NEW held \in BOOLEAN, OnHeld(c, held) PROVE Fared /\ StaysKnown
    <2>1. \A e: HasName(e)' <=> HasName(e)
      BY <1>0, <1>4, HeldKeepsSlots, NamesStay
    <2>2. UNCHANGED <<pendings, history, stack>>
      BY <1>4 DEF OnHeld
    <2> QED
      BY <2>1, <2>2, KeepsShown DEF Keeps, Fared, StaysKnown, pendings
  <1>5. CASE OnTransferAccepted \/ OnTransferFailed
    BY <1>0, <1>5, TransferAnswerFares
  <1> QED
    BY <1>0, <1>1, <1>2, <1>3, <1>4, <1>5 DEF React

LEMMA StackFares ==
    ASSUME StateOK, NEW c \in Calls, StackActs(c)
    PROVE  Fared /\ StaysKnown
  <1>1. UNCHANGED <<calls, pendingOutbound, history>>
    BY StackMove DEF Client, pendings
  <1>2. Fared
    BY <1>1 DEF Fared, Same, ShownAs
  <1>3. stack[c] \in StackCall /\ \A e \in Calls: e # c => stack'[e] = stack[e]
    BY StackMove DEF StateOK
  <1>4. stack'[c].st = "none" => stack[c].st = "none"
    <2>1. stack \in [Calls -> StackCall]
      BY DEF StateOK
    <2>2. CASE StackRings(c) \/ StackConnects(c) \/ StackEnds(c)
      BY <1>3, <2>1, <2>2 DEF StackRings, StackConnects, StackEnds, Over, StackCall
    <2>3. CASE StackReinvited(c) \/ StackReferred(c)
      BY <1>3, <2>1, <2>3 DEF StackReinvited, StackReferred, StackCall
    <2> QED
      BY <2>2, <2>3 DEF StackActs
  <1> QED
    BY <1>2, <1>3, <1>4 DEF StaysKnown

LEMMA ShownInductive ==
    Typed /\ FreshHidden /\ [Next]_vars =>
        FreshHidden' /\ [Shown!Next]_([c \in OutCalls |-> ShownAs(c)])
  <1> SUFFICES ASSUME Typed, FreshHidden, [Next]_vars
               PROVE  Fared /\ StaysKnown
    BY FaredShown
  <1>0. StateOK
    BY DEF Typed
  <1>1. CASE UserActs
    BY <1>0, <1>1, UserFares
  <1>2. CASE \E c \in Calls: HandleEvent(c)
    BY <1>2, EventFares
  <1>3. CASE \E c \in Calls: StackActs(c)
    BY <1>0, <1>3, StackFares
  <1>4. CASE UNCHANGED vars
    BY <1>4 DEF vars, pendings, Fared, Same, ShownAs, StaysKnown
  <1> QED
    BY <1>1, <1>2, <1>3, <1>4 DEF Next

(* What the user is shown of a placed call keeps the promise the stack      *)
(* makes of it (do_call, event_handling.rs, call_actions.rs): it is dialled *)
(* once, connected once, and over for good when it is recorded, through     *)
(* transfers, crossing hang-ups, and events that belong to other calls.     *)
THEOREM ShownAsPromised == Spec => ShownPromise
  <1>1. Init => Shown!Init /\ FreshHidden
    BY CallsAssumption DEF Init, Shown!Init, FreshHidden, ShownAs, Calls
  <1>2. Spec => [][Shown!Next]_([c \in OutCalls |-> ShownAs(c)])
    BY <1>1, ShownInductive, TypedAlways, PTL DEF Spec
  <1>3. Spec => Shown!Init
    BY <1>1 DEF Spec
  <1> QED
    BY <1>2, <1>3, PTL DEF ShownPromise, Shown!Spec

-----------------------------------------------------------------------------
(* No call is lost but those another call's event was taken for.            *)

(* A slot bears its call's name.                                            *)
Named == \A i \in DOMAIN calls: calls[i].uri = Id(i) \/ Id(i) \in mistaken

(* A dialled call that the client does not have is not coming up.           *)
Found(e) ==
    e \in OutCalls \ mistaken /\ Place(e) = "free" =>
        stack[e].st \notin {"trying", "up"} /\ ~Queued(e, "CallConnected")

Kept == Named /\ \A e \in Calls: Found(e)

LEMMA KeptShown ==
    ASSUME StateOK, LifeInv, Kept
    PROVE  NoCallLost
  <1>1. ASSUME NEW c \in Calls \ mistaken
        PROVE  CASE stack[c].st = "trying" -> pendingOutbound = c
                 [] stack[c].st = "ringing" -> pendingCall = c \/ Queued(c, "IncomingCall")
                 [] stack[c].st = "answering" -> pendingAccept = c
                 [] stack[c].st = "up" ->
                       \/ \E i \in SlotsOf(c): calls[i].uri = c
                       \/ /\ Queued(c, "CallConnected")
                          /\ c \in {pendingOutbound, pendingAccept}
                 [] OTHER -> TRUE
    <2>0. /\ c \in Calls /\ OnePlace(c) /\ Legal(c, stack[c], events[c], Place(c))
          /\ Found(c) /\ (c \in InCalls \/ c \in OutCalls)
      BY DEF LifeInv, Lives, Kept, Calls
    <2>1. /\ Place(c) = "ringing" <=> pendingCall = c
          /\ Place(c) = "accepted" <=> pendingAccept = c
          /\ Place(c) = "dialled" <=> pendingOutbound = c
      BY <2>0, PlaceIs
    <2>2. stack[c].st = "trying" => pendingOutbound = c
      BY <1>1, <2>0, <2>1, CallsAssumption DEF Legal, Begun, Awaited, Found
    <2>3. stack[c].st = "ringing" => pendingCall = c \/ Queued(c, "IncomingCall")
      <3>1. ASSUME events[c] = <<"IncomingCall">> PROVE Queued(c, "IncomingCall")
        BY <3>1, Singles DEF Queued
      <3> QED
        BY <2>0, <2>1, <3>1 DEF Legal, Begun
    <2>4. stack[c].st = "answering" => pendingAccept = c
      BY <2>0, <2>1 DEF Legal, Begun
    <2>5. ASSUME stack[c].st = "up"
          PROVE  \/ \E i \in SlotsOf(c): calls[i].uri = c
                 \/ Queued(c, "CallConnected") /\ c \in {pendingOutbound, pendingAccept}
      <3>1. ~(c \in OutCalls /\ Place(c) = "free")
        BY <1>1, <2>0, <2>5 DEF Found
      <3>2. CASE events[c] = <<"CallConnected">> /\ Awaited(c, Place(c))
        <4>1. Queued(c, "CallConnected")
          BY <3>2, Singles DEF Queued
        <4> QED
          BY <2>0, <2>1, <3>1, <3>2, <4>1 DEF Awaited
      <3>3. CASE Place(c) = "slot"
        <4>1. PICK i \in DOMAIN calls: Id(i) = c
          BY <3>3 DEF Place, InSlot
        <4>2. i \in SlotsOf(c) /\ calls[i].uri = c
          BY <1>1, <4>1 DEF SlotsOf, Kept, Named
        <4> QED
          BY <4>2
      <3> QED
        BY <2>0, <2>5, <3>1, <3>2, <3>3 DEF Legal, InTalk
    <2> QED
      BY <2>2, <2>3, <2>4, <2>5
  <1> QED
    BY <1>1 DEF NoCallLost

(* The names of the slots.                                                  *)
LEMMA NamesKept ==
    ASSUME Named, mistaken \subseteq mistaken', DOMAIN calls' = DOMAIN calls,
           \A i \in DOMAIN calls:
             calls'[i].id = calls[i].id /\ calls'[i].uri = calls[i].uri
    PROVE  Named'
  BY DEF Named, Id

LEMMA NamesRemoved ==
    ASSUME StateOK, Named, mistaken \subseteq mistaken', NEW i \in DOMAIN calls,
           RemoveCall(i)
    PROVE  Named'
  <1>1. /\ DOMAIN calls' = 1..Len(calls) - 1
        /\ DOMAIN calls = 1..Len(calls) /\ Len(calls) \in Nat
        /\ \A j \in 1..Len(calls) - 1:
             calls'[j] = IF j < i THEN calls[j] ELSE calls[j + 1]
    BY RemoveCallAudio, Remaining, SlotTypes DEF StateOK
  <1>2. \A j \in DOMAIN calls': \E k \in DOMAIN calls: calls'[j] = calls[k]
    BY <1>1
  <1> QED
    BY <1>2 DEF Named, Id

LEMMA NamesShown ==
    ASSUME StateOK, Named, mistaken \subseteq mistaken', NEW c, NEW uri, Shows(c, uri),
           uri = c \/ c \in mistaken'
    PROVE  Named'
  <1>1. Len(calls) \in Nat /\ DOMAIN calls = 1..Len(calls)
    BY SlotTypes DEF StateOK
  <1>2. \A i \in DOMAIN calls': i = Len(calls) + 1 \/ i \in DOMAIN calls
    BY <1>1 DEF Shows
  <1>3. \A i \in DOMAIN calls: calls'[i].id = calls[i].id /\ calls'[i].uri = calls[i].uri
    BY <1>1 DEF Shows
  <1>4. calls'[Len(calls) + 1].id = c /\ calls'[Len(calls) + 1].uri = uri
    BY DEF Shows
  <1>5. \A i \in DOMAIN calls':
          calls'[i].uri = calls'[i].id \/ calls'[i].id \in mistaken'
    BY <1>2, <1>3, <1>4, Zenon DEF Named, Id
  <1> QED
    BY <1>5 DEF Named, Id

(* What is found stays found.                                               *)
LEMMA StaysFound ==
    ASSUME NEW e \in Calls, Found(e), OnePlace(e), Stays(e), mistaken \subseteq mistaken',
           stack'[e].st = stack[e].st,
           Queued(e, "CallConnected")' => Queued(e, "CallConnected")
    PROVE  Found(e)'
  <1>1. Place(e)' = Place(e)
    BY PlaceStays
  <1> QED
    BY <1>1 DEF Found

LEMMA OthersFound ==
    ASSUME StateOK, LifeInv, Kept, NEW c, OnlyMoves(c), mistaken \subseteq mistaken',
           \A e \in Calls: e # c => events'[e] = events[e]
    PROVE  \A e \in Calls: e # c => Found(e)'
  <1>1. SUFFICES ASSUME NEW e \in Calls, e # c PROVE Found(e)'
    OBVIOUS
  <1>2. OnePlace(e) /\ Found(e) /\ Stays(e) /\ stack'[e].st = stack[e].st
    BY <1>1 DEF LifeInv, Lives, Kept, OnlyMoves
  <1>3. Queued(e, "CallConnected")' => Queued(e, "CallConnected")
    BY <1>1 DEF Queued
  <1> QED
    BY <1>2, <1>3, StaysFound

LEMMA HungUpFound ==
    ASSUME StateOK, LifeInv, NEW e \in Calls, Place(e) = "slot",
           stack'[e] = HungUp(stack[e]),
           Queued(e, "CallConnected")' => Queued(e, "CallConnected")
    PROVE  Found(e)'
  <1>1. /\ stack[e] \in StackCall /\ events[e] \in Seq(Event)
        /\ Legal(e, stack[e], events[e], "slot")
    BY DEF StateOK, LifeInv, Lives
  <1>2. ~Queued(e, "CallConnected")
    BY <1>1 DEF Legal, Orderly, Awaited, Queued
  <1>3. stack'[e].st \in {"closing", "gone"}
    BY <1>1, InSlotIs DEF HungUp, StackCall
  <1> QED
    BY <1>2, <1>3 DEF Found

LEMMA AsksFind ==
    ASSUME StateOK, LifeInv, Kept, OnlyAsks, mistaken' = mistaken
    PROVE  Kept'
  <1>1. \A e: InSlot(e)' <=> InSlot(e)
    BY SlotsKept DEF OnlyAsks
  <1>2. ASSUME NEW e \in Calls PROVE Found(e)'
    <2>1. OnePlace(e) /\ Found(e) /\ Stays(e) /\ stack'[e].st = stack[e].st
      BY <1>1 DEF LifeInv, Lives, Kept, Stays, OnlyAsks, AsksInTalk, pendings
    <2>2. Queued(e, "CallConnected")' => Queued(e, "CallConnected")
      BY DEF OnlyAsks, Queued
    <2> QED
      BY <2>1, <2>2, StaysFound
  <1> QED
    BY <1>2, NamesKept DEF Kept, OnlyAsks

LEMMA UserFinds ==
    ASSUME StateOK, LifeInv, Kept, UserActs, mistaken' = mistaken
    PROVE  Kept'
  <1>0. events' = events /\ Named
    BY UserLeavesEvents DEF Kept
  <1>1. CASE Dial \/ AttendedTransferDial
    <2>1. PICK c \in OutCalls: Place(c)' = "dialled" /\ OnlyMoves(c)
      BY <1>1, DialLives
    <2>2. \A e \in Calls: e # c => Found(e)'
      BY <1>0, <2>1, OthersFound
    <2>3. Found(c)'
      BY <2>1 DEF Found
    <2>4. Named'
      <3>1. CASE Dial
        BY <1>0, <3>1 DEF Dial, Named, Id
      <3>2. CASE AttendedTransferDial
        <4>1. focused \in DOMAIN calls
          BY <3>2, SlotTypes DEF AttendedTransferDial, StateOK
        <4>2. /\ DOMAIN calls' = DOMAIN calls
              /\ \A i \in DOMAIN calls:
                   calls'[i].id = calls[i].id /\ calls'[i].uri = calls[i].uri
          BY <3>2, <4>1, ZenonT(40), WithHeldKeeps DEF AttendedTransferDial
        <4> QED
          BY <1>0, <4>2, NamesKept
      <3> QED
        BY <1>1, <3>1, <3>2
    <2> QED
      BY <2>2, <2>3, <2>4 DEF Kept
  <1>2. CASE Accept \/ Reject
    <2>1. PICK c \in InCalls: OnlyMoves(c)
      BY <1>2, AnswerLives
    <2>2. \A e \in Calls: e # c => Found(e)'
      BY <1>0, <2>1, OthersFound
    <2>3. Found(c)'
      BY CallsAssumption DEF Found
    <2>4. Named'
      BY <1>0, <1>2 DEF Accept, Reject, Named, Id
    <2> QED
      BY <2>2, <2>3, <2>4 DEF Kept
  <1>3. ASSUME NEW i \in DOMAIN calls, HangUp(i) PROVE Kept'
    <2>1. PICK c \in Calls: /\ Place(c) = "slot" /\ OnlyMoves(c)
                            /\ stack'[c] = HungUp(stack[c])
      BY <1>3, HangUpLives
    <2>2. \A e \in Calls: e # c => Found(e)'
      BY <1>0, <2>1, OthersFound
    <2>3. Found(c)'
      BY <1>0, <2>1, HungUpFound DEF Queued
    <2>4. Named'
      BY <1>0, <1>3, NamesRemoved DEF HangUp
    <2> QED
      BY <2>2, <2>3, <2>4 DEF Kept
  <1>4. CASE OnlyAsks
    BY <1>4, AsksFind
  <1> QED
    BY <1>1, <1>2, <1>3, <1>4, TransferAsks, HoldAsks, ConferenceAsks DEF UserActs

LEMMA EventsShorten ==
    ASSUME StateOK, NEW c \in Calls, HandleEvent(c)
    PROVE  \A e \in Calls, ev \in Event: Queued(e, ev)' => Queued(e, ev)
  <1>1. SUFFICES ASSUME NEW e \in Calls, NEW ev \in Event, Queued(e, ev)'
                 PROVE  Queued(e, ev)
    OBVIOUS
  <1>2. CASE e = c
    <2>1. events'[c] = Tail(events[c]) /\ events[c] # <<>>
      BY Taken
    <2>2. PICK i \in DOMAIN Tail(events[c]): Tail(events[c])[i] = ev
      BY <1>1, <1>2, <2>1 DEF Queued
    <2>3. i + 1 \in DOMAIN events[c] /\ events[c][i + 1] = ev
      BY <2>1, <2>2, EventTaken
    <2> QED
      BY <1>2, <2>3 DEF Queued
  <1>3. CASE e # c
    BY <1>1, <1>3, Taken DEF Queued
  <1> QED
    BY <1>2, <1>3

(* What a call that connects is taken for.                                  *)
LEMMA ConnectFinds ==
    ASSUME Typed, LifeInv, Kept, NEW c \in Calls, HandleEvent(c),
           Head(events[c]) = "CallConnected", OnCallConnected(c)
    PROVE  Kept'
  <1>0. /\ StateOK /\ mistaken \subseteq mistaken' /\ NoCall \notin Calls
        /\ mistaken' = mistaken \cup Mistakes(c, "CallConnected") /\ Named
        /\ OnePlace(c) /\ Found(c) /\ OneSlotEach
        /\ \A e \in Calls: e # c => events'[e] = events[e]
        /\ Awaited(c, Place(c))
    BY Taken, ConnectLives, CallsAssumption
    DEF Typed, HandleEvent, Kept, LifeInv, Lives
  <1>1. Queued(c, "CallConnected")
    BY <1>0, EventTaken DEF HandleEvent, Queued
  <1>2. c \in OutCalls \ mistaken => pendingOutbound = c
    BY <1>0, <1>1, PlaceIs, CallsAssumption DEF Awaited, Found
  <1>3. CASE pendingAccept = c /\ OnAcceptedConnected(c)
    <2>1. c \notin OutCalls
      BY <1>0, <1>3, CallsAssumption DEF StateOK, Calls
    <2>2. \A e \in Calls: e # c => Found(e)'
      BY <1>0, <1>3, ConnectLives, OthersFound
    <2>3. Named'
      BY <1>0, <1>3, AcceptedShows, NamesShown
    <2> QED
      BY <2>1, <2>2, <2>3 DEF Kept, Found
  <1>4. CASE pendingAccept # c /\ pendingOutbound # NoCall /\ OnDialledConnected(c)
    <2>1. Shows(c, pendingOutbound) /\ UNCHANGED <<stack, pendingCall, pendingAccept>>
          /\ pendingOutbound' = NoCall
      BY <1>0, <1>4, DialledShows DEF OnDialledConnected
    <2>2. c \in OutCalls
      BY <1>0, <1>4, PlaceIs DEF Awaited, Calls
    <2>3. c \in mistaken \/ pendingOutbound = c
      BY <1>2, <2>2
    <2>4. Named'
      BY <1>0, <2>1, <2>3, NamesShown
    <2>5. \A e: InSlot(e)' <=> (InSlot(e) \/ e = c)
      <3>1. ~InSlot(c)
        BY <1>0, <2>2, PlaceIs, CallsAssumption DEF Awaited
      <3> QED
        BY <1>0, <2>1, <3>1, SlotShown
    <2>6. Found(c)'
      BY <2>5 DEF Found, Place
    <2>7. ASSUME NEW e \in Calls, e # c PROVE Found(e)'
      <3>1. CASE pendingOutbound = e
        <4>1. e \in mistaken'
          BY <1>0, <1>4, <2>7, <3>1 DEF Mistakes
        <4> QED
          BY <4>1 DEF Found
      <3>2. CASE pendingOutbound # e
        <4>1. Stays(e) /\ OnePlace(e) /\ Found(e)
          BY <1>0, <2>1, <2>5, <2>7, <3>2 DEF Stays, LifeInv, Lives, Kept
        <4>2. Queued(e, "CallConnected")' => Queued(e, "CallConnected")
          BY <1>0, <2>7 DEF Queued
        <4> QED
          BY <1>0, <2>1, <4>1, <4>2, StaysFound
      <3> QED
        BY <3>1, <3>2
    <2> QED
      BY <2>4, <2>6, <2>7 DEF Kept
  <1>5. CASE pendingOutbound = NoCall /\ UNCHANGED <<calls, audio, pendings, stack>>
    <2>1. \A e \in Calls: e # c => Found(e)'
      BY <1>0, <1>5, ConnectLives, OthersFound
    <2>2. Found(c)'
      BY <1>0, <1>2, <1>5 DEF Found
    <2>3. Named'
      BY <1>0, <1>5 DEF Named, Id
    <2> QED
      BY <2>1, <2>2, <2>3 DEF Kept
  <1> QED
    BY <1>3, <1>4, <1>5 DEF OnCallConnected

(* What a call that ends is taken for.                                      *)
LEMMA EndFinds ==
    ASSUME Typed, LifeInv, Kept, NEW c \in Calls, HandleEvent(c),
           Head(events[c]) = "CallEnded", OnCallEnded(c)
    PROVE  Kept'
  <1>0. /\ StateOK /\ mistaken \subseteq mistaken' /\ NoCall \notin Calls
        /\ mistaken' = mistaken \cup Mistakes(c, "CallEnded") /\ Named
        /\ \A e \in Calls: e # c => events'[e] = events[e]
        /\ events'[c] = Tail(events[c]) /\ events[c] \in Seq(Event) /\ events[c] # <<>>
        /\ Legal(c, stack[c], events[c], Place(c)) /\ stack' = stack
    BY Taken, CallsAssumption DEF Typed, HandleEvent, Kept, LifeInv, Lives, OnCallEnded
  <1>1. Found(c)'
    <2>1. stack[c].st = "gone"
      BY <1>0, EventTaken DEF Legal, Orderly
    <2>2. \A i \in DOMAIN Tail(events[c]): Tail(events[c])[i] # "CallConnected"
      BY <1>0, OrderlyTail DEF Legal
    <2> QED
      BY <1>0, <2>1, <2>2 DEF Found, Queued
  <1>2. ASSUME NEW e \in Calls, e # c PROVE Found(e)'
    <2>1. CASE OnlyMoves(c)
      BY <1>0, <1>2, <2>1, OthersFound
    <2>2. CASE EndsPendingOutbound(c) /\ pendingOutbound \notin {c, NoCall}
      <3>1. /\ UNCHANGED <<calls, pendingCall, pendingAccept>>
            /\ pendingOutbound' = NoCall /\ pendingOutbound \in mistaken'
        BY <1>0, <2>2 DEF EndsPendingOutbound, Mistakes
      <3>2. CASE pendingOutbound = e
        BY <3>1, <3>2 DEF Found
      <3>3. CASE pendingOutbound # e
        <4>1. Stays(e) /\ OnePlace(e) /\ Found(e)
          BY <1>0, <3>1, <3>3 DEF Stays, InSlot, Id, LifeInv, Lives, Kept
        <4>2. Queued(e, "CallConnected")' => Queued(e, "CallConnected")
          BY <1>0, <1>2 DEF Queued
        <4> QED
          BY <1>0, <4>1, <4>2, StaysFound
      <3> QED
        BY <3>2, <3>3
    <2> QED
      BY <1>0, <2>1, <2>2, EndLives
  <1>3. Named'
    <2>1. CASE UNCHANGED calls
      BY <1>0, <2>1 DEF Named, Id
    <2>2. CASE EndsSlot(c)
      BY <1>0, <2>2, NamesRemoved DEF EndsSlot, SlotsOf
    <2> QED
      BY <2>1, <2>2 DEF OnCallEnded, EndsPendingCall, EndsPendingAccept, EndsPendingOutbound
  <1> QED
    BY <1>1, <1>2, <1>3 DEF Kept

LEMMA EventFinds ==
    ASSUME Typed, LifeInv, Kept, NEW c \in Calls, HandleEvent(c)
    PROVE  Kept'
  <1>0. /\ StateOK /\ React(c, Head(events[c])) /\ mistaken \subseteq mistaken' /\ Named
        /\ \A e \in Calls: e # c => events'[e] = events[e]
        /\ \A e \in Calls: OnePlace(e) /\ Found(e)
    BY Taken DEF Typed, HandleEvent, Kept, LifeInv, Lives
  <1>1. CASE Head(events[c]) = "IncomingCall" /\ OnIncomingCall(c)
    <2>1. c \notin OutCalls
      BY <1>0, <1>1, EventTaken, CallsAssumption DEF Typed, Announced, HandleEvent
    <2>2. \A e \in Calls: e # c => Found(e)'
      BY <1>0, <1>1, AnnouncementLives, OthersFound
    <2>3. Named'
      BY <1>0, <1>1 DEF OnIncomingCall, Named, Id
    <2> QED
      BY <2>1, <2>2, <2>3 DEF Kept, Found
  <1>2. CASE Head(events[c]) = "CallConnected" /\ OnCallConnected(c)
    BY <1>2, ConnectFinds
  <1>3. CASE Head(events[c]) = "CallEnded" /\ OnCallEnded(c)
    BY <1>3, EndFinds
  <1>4. ASSUME DOMAIN calls' = DOMAIN calls, UNCHANGED <<pendings, stack>>,
               \A i \in DOMAIN calls:
                 calls'[i].id = calls[i].id /\ calls'[i].uri = calls[i].uri
        PROVE  Kept'
    <2>1. \A e: InSlot(e)' <=> InSlot(e)
      BY <1>4, SlotsKept
    <2>2. \A e \in Calls: Queued(e, "CallConnected")' => Queued(e, "CallConnected")
      BY <1>0, EventsShorten DEF Event
    <2>3. \A e \in Calls: Found(e)'
      BY <1>0, <1>4, <2>1, <2>2, StaysFound DEF Stays, pendings
    <2> QED
      BY <1>0, <1>4, <2>3, NamesKept DEF Kept
  <1>5. ASSUME NEW held \in BOOLEAN, OnHeld(c, held) PROVE Kept'
    BY <1>0, <1>4, <1>5, HeldKeepsSlots DEF OnHeld
  <1>6. CASE /\ Head(events[c]) \in {"TransferAccepted", "TransferFailed"}
             /\ OnTransferAccepted \/ OnTransferFailed
    <2>1. CASE HangUpBoth(TRUE)
      <3>1. Named'
        BY <2>1 DEF HangUpBoth, Named
      <3>2. ASSUME NEW e \in Calls PROVE Found(e)'
        <4>1. Queued(e, "CallConnected")' => Queued(e, "CallConnected")
          BY <1>0, EventsShorten DEF Event
        <4>2. IF InSlot(e)
              THEN Place(e) = "slot" /\ stack'[e] = HungUp(stack[e])
              ELSE Stays(e) /\ stack'[e] = stack[e]
          BY <1>0, <1>6, <2>1, TransferAnswerLives
        <4> QED
          BY <1>0, <4>1, <4>2, StaysFound, HungUpFound
      <3> QED
        BY <3>1, <3>2 DEF Kept
    <2>2. CASE KeepBoth
      BY <1>4, <2>2 DEF KeepBoth
    <2> QED
      BY <1>0, <1>6, <2>1, <2>2, TransferAnswerLives
  <1> QED
    BY <1>0, <1>1, <1>2, <1>3, <1>5, <1>6 DEF React

LEMMA StackFinds ==
    ASSUME StateOK, LifeInv, Kept, NEW c \in Calls, StackActs(c)
    PROVE  Kept'
  <1>0. /\ UNCHANGED <<calls, pendings, mistaken>>
        /\ \A e \in Calls: e # c => stack'[e] = stack[e] /\ events'[e] = events[e]
        /\ \A e \in Calls: OnePlace(e) /\ Found(e)
        /\ stack \in [Calls -> StackCall] /\ events[c] \in Seq(Event) /\ Named
        /\ Legal(c, stack[c], events[c], Place(c))
    <2>1. PICK ev \in Event: Emit(c, <<ev>>)
      BY StackMove
    <2> QED
      BY <2>1, StackMove, EventPosted DEF Client, past, LifeInv, Lives, Kept, StateOK
  <1>1. Named'
    BY <1>0 DEF Named, Id
  <1>2. \A e \in Calls: Stays(e)
    BY <1>0 DEF Stays, InSlot, Id, pendings
  <1>3. ASSUME NEW e \in Calls, e # c PROVE Found(e)'
    BY <1>0, <1>2, <1>3, StaysFound DEF Queued
  <1>4. ASSUME NEW ev \in Event, ev # "CallConnected", Emit(c, <<ev>>),
               stack'[c].st = stack[c].st \/ stack'[c].st \notin {"trying", "up"}
        PROVE  Found(c)'
    <2>1. Queued(c, "CallConnected")' => Queued(c, "CallConnected")
      <3>1. ASSUME NEW i \in DOMAIN events'[c], events'[c][i] = "CallConnected"
            PROVE  Queued(c, "CallConnected")
        <4>1. i \in 1..Len(events[c]) /\ events[c][i] = "CallConnected"
          BY <1>4, <3>1, EventPosted
        <4> QED
          BY <1>4, <4>1, EventPosted DEF Queued
      <3> QED
        BY <3>1 DEF Queued
    <2>2. Place(c)' = Place(c)
      BY <1>0, <1>2, PlaceStays
    <2> QED
      BY <1>0, <1>4, <2>1, <2>2 DEF Found
  <1>5. CASE StackRings(c)
    BY <1>1, <1>3, <1>5, CallsAssumption DEF StackRings, Kept, Found
  <1>6. CASE StackConnects(c)
    <2>1. c \in OutCalls => stack[c].st = "trying"
      BY <1>0, <1>6, CallsAssumption DEF StackConnects, Legal, Begun
    <2>2. Place(c)' = Place(c)
      BY <1>0, <1>2, PlaceStays
    <2>3. Found(c)'
      BY <1>0, <2>1, <2>2 DEF Found
    <2> QED
      BY <1>1, <1>3, <2>3 DEF Kept
  <1>7. CASE StackEnds(c)
    <2>1. Emit(c, <<"CallEnded">>) /\ stack'[c].st = "gone" /\ "CallEnded" \in Event
      BY <1>0, <1>7 DEF StackEnds, Over, StackCall, Event
    <2> QED
      BY <1>1, <1>3, <1>4, <2>1 DEF Kept
  <1>8. CASE StackReinvited(c) \/ StackReferred(c)
    <2>1. stack'[c].st = stack[c].st
      BY <1>0, <1>8 DEF StackReinvited, StackReferred, StackCall
    <2>2. PICK ev \in Event: Emit(c, <<ev>>) /\ ev # "CallConnected"
      BY <1>8 DEF StackReinvited, StackReferred, Event
    <2> QED
      BY <1>1, <1>3, <1>4, <2>1, <2>2 DEF Kept
  <1> QED
    BY <1>5, <1>6, <1>7, <1>8 DEF StackActs

LEMMA KeptAlways == Spec => []Kept
  <1>1. Init => Kept
    <2> SUFFICES ASSUME Init PROVE Kept
      OBVIOUS
    <2>1. \A e \in Calls: stack[e].st = "none" /\ ~Queued(e, "CallConnected")
      BY DEF Init, Queued
    <2>2. Named
      BY DEF Init, Named
    <2> QED
      BY <2>1, <2>2 DEF Kept, Found
  <1>2. Typed /\ LifeInv /\ Kept /\ [Next]_vars => Kept'
    <2> SUFFICES ASSUME Typed, LifeInv, Kept, [Next]_vars PROVE Kept'
      OBVIOUS
    <2>0. StateOK
      BY DEF Typed
    <2>1. CASE UserActs /\ UNCHANGED past
      BY <2>0, <2>1, UserFinds DEF past
    <2>2. CASE \E c \in Calls: HandleEvent(c)
      BY <2>2, EventFinds
    <2>3. CASE \E c \in Calls: StackActs(c)
      BY <2>0, <2>3, StackFinds
    <2>4. CASE UNCHANGED vars
      <3>1. OnlyAsks /\ mistaken' = mistaken
        BY <2>4 DEF vars, past, OnlyAsks, AsksInTalk
      <3> QED
        BY <2>0, <3>1, AsksFind
    <2> QED
      BY <2>1, <2>2, <2>3, <2>4 DEF Next
  <1> QED
    BY <1>1, <1>2, TypedAlways, LifeAlways, PTL DEF Spec

(* Every call the stack has is one the user sees, whatever events are on    *)
(* their way, but for dialled calls that another call's CallConnected or    *)
(* end was taken for (event_handling.rs:90-126, 383-430).                   *)
THEOREM EveryCallIsShown == Spec => []NoCallLost
  <1>1. Typed /\ LifeInv /\ Kept => NoCallLost
    BY KeptShown DEF Typed
  <1> QED
    BY <1>1, TypedAlways, LifeAlways, KeptAlways, PTL

-----------------------------------------------------------------------------
(* The records.  The client writes one when it lets a call go by the name   *)
(* it has for it; what the stack means by an event does not matter.         *)

OnceNamed == \A i, j \in DOMAIN calls: calls[i].uri = calls[j].uri => i = j

Waiting(e) == e \in {pendingOutbound, pendingCall, pendingAccept}
Held(e) == HasName(e) \/ Waiting(e)

Booked(e) ==
    /\ history[e] \in {0, 1}
    /\ Held(e) => history[e] = 0
    /\ HasName(e) => ~Waiting(e)
    /\ Held(e) \/ history[e] = 1 =>
         stack[e].st # "none" /\ ~Queued(e, "IncomingCall")
    /\ e \in OutCalls /\ stack[e].st # "none" => Held(e) \/ history[e] = 1

Books == OnceNamed /\ \A e \in Calls: Booked(e)

LEMMA BooksShown ==
    ASSUME StateOK, LifeInv, Books
    PROVE  RecordedOnce
  <1>1. ASSUME NEW c \in Calls
        PROVE  /\ history[c] <= 1
               /\ c \in OutCalls /\ stack[c].st = "gone" /\ events[c] = <<>> =>
                     history[c] = 1 \/ \E i \in DOMAIN calls: calls[i].uri = c
    <2>1. Booked(c) /\ OnePlace(c) /\ Legal(c, stack[c], events[c], Place(c))
      BY DEF Books, LifeInv, Lives
    <2>2. ASSUME c \in OutCalls, stack[c].st = "gone", events[c] = <<>>
          PROVE  history[c] = 1 \/ HasName(c)
      <3>1. Place(c) = "free"
        BY <2>1, <2>2 DEF Legal, LetGo, Ended
      <3>2. ~Waiting(c)
        BY <2>1, <3>1, FreeOfAll DEF Waiting
      <3> QED
        BY <2>1, <2>2, <3>2 DEF Booked, Held
    <2> QED
      BY <2>1, <2>2 DEF Booked, HasName
  <1> QED
    BY <1>1 DEF RecordedOnce

(* What a step does to the records of a call: nothing, or it lets go of a   *)
(* call and records it, or it takes up a new one.                           *)
SameStart(e) ==
    /\ stack'[e].st = "none" <=> stack[e].st = "none"
    /\ Queued(e, "IncomingCall")' => Queued(e, "IncomingCall")

Rests(e) ==
    /\ Held(e)' <=> Held(e)
    /\ HasName(e)' => ~Waiting(e)'
    /\ history'[e] = history[e]
    /\ SameStart(e)

Closes(e) ==
    /\ Held(e) /\ ~Held(e)'
    /\ history'[e] = history[e] + 1
    /\ SameStart(e)

LEMMA RestsBooked ==
    ASSUME NEW e \in Calls, Booked(e), Rests(e)
    PROVE  Booked(e)'
  BY DEF Booked, Rests, SameStart, Held

LEMMA ClosesBooked ==
    ASSUME NEW e \in Calls, Booked(e), Closes(e)
    PROVE  Booked(e)'
  <1>1. history[e] = 0 /\ history'[e] = 1
    BY DEF Booked, Closes
  <1>2. stack'[e].st # "none" /\ ~Queued(e, "IncomingCall")'
    BY DEF Booked, Closes, SameStart
  <1> QED
    BY <1>1, <1>2 DEF Booked, Closes, Held

(* The names of the slots, each once.                                       *)
LEMMA OnceKept ==
    ASSUME OnceNamed, DOMAIN calls' = DOMAIN calls,
           \A i \in DOMAIN calls: calls'[i].uri = calls[i].uri
    PROVE  OnceNamed' /\ \A e: HasName(e)' <=> HasName(e)
  BY DEF OnceNamed, HasName

LEMMA OnceRemoved ==
    ASSUME StateOK, OnceNamed, NEW i \in DOMAIN calls, RemoveCall(i)
    PROVE  /\ OnceNamed'
           /\ \A e: HasName(e)' <=> (HasName(e) /\ e # calls[i].uri)
  <1>0. Len(calls) \in Nat /\ DOMAIN calls = 1..Len(calls)
    BY SlotTypes DEF StateOK
  <1>1. /\ DOMAIN calls' = 1..Len(calls) - 1
        /\ \A j \in 1..Len(calls) - 1:
             calls'[j] = IF j < i THEN calls[j] ELSE calls[j + 1]
    BY RemoveCallAudio, Remaining
  <1> DEFINE from(j) == IF j < i THEN j ELSE j + 1
  <1>2. \A j \in DOMAIN calls': /\ from(j) \in DOMAIN calls /\ from(j) # i
                                /\ calls'[j].uri = calls[from(j)].uri
    BY <1>0, <1>1
  <1>3. \A j, k \in DOMAIN calls': from(j) = from(k) => j = k
    BY <1>0, <1>1
  <1> HIDE DEF from
  <1>4. OnceNamed'
    BY <1>2, <1>3 DEF OnceNamed
  <1>5. \A e: HasName(e)' => HasName(e) /\ e # calls[i].uri
    BY <1>2 DEF HasName, OnceNamed
  <1> QED
    BY <1>4, <1>5, NameRemoved

LEMMA OnceShown ==
    ASSUME StateOK, OnceNamed, NEW c, NEW uri, Shows(c, uri), ~HasName(uri)
    PROVE  OnceNamed' /\ \A e: HasName(e)' <=> (HasName(e) \/ e = uri)
  <1>0. Len(calls) \in Nat /\ DOMAIN calls = 1..Len(calls)
    BY SlotTypes DEF StateOK
  <1> DEFINE n == Len(calls) + 1
  <1>1. /\ DOMAIN calls' = 1..n
        /\ calls'[n].uri = uri
        /\ \A j \in DOMAIN calls: calls'[j].uri = calls[j].uri
    BY <1>0 DEF Shows
  <1>2. \A j \in DOMAIN calls': j = n \/ j \in DOMAIN calls
    BY <1>0, <1>1
  <1> HIDE DEF n
  <1>3. \A j \in DOMAIN calls: calls[j].uri # uri
    BY DEF HasName
  <1>4. OnceNamed'
    BY <1>1, <1>2, <1>3 DEF OnceNamed
  <1> QED
    BY <1>4, OneMoreName

(* A step that records one call and lets it go, and leaves the others be.   *)
LEMMA OneClosed ==
    ASSUME Books, OnceNamed', NEW d \in Calls, Closes(d),
           \A e \in Calls: e # d => Rests(e)
    PROVE  Books'
  BY RestsBooked, ClosesBooked DEF Books

LEMMA AllRest ==
    ASSUME Books, OnceNamed', \A e \in Calls: Rests(e)
    PROVE  Books'
  BY RestsBooked DEF Books

LEMMA Commanded ==
    ASSUME NEW s \in StackCall
    PROVE  /\ Reinvited(s, "hold").st = "none" <=> s.st = "none"
           /\ HungUp(s).st = "none" <=> s.st = "none"
           /\ Declined(s).st = "none" <=> s.st = "none"
           /\ Accepted(s).st = "none" <=> s.st = "none"
           /\ Becomes(s, "ringing", "busy").st = "none" <=> s.st = "none"
  BY DEF StackCall, Reinvited, HungUp, Declined, Accepted, Becomes

LEMMA RemovalCloses ==
    ASSUME StateOK, Books, NEW i \in DOMAIN calls, RemoveCall(i), Record(calls[i].uri),
           UNCHANGED pendings, \A e \in Calls: SameStart(e)
    PROVE  Books'
  <1>1. PICK d \in Calls: d = calls[i].uri
    BY SlotTypes DEF StateOK
  <1>2. OnceNamed' /\ \A e: HasName(e)' <=> (HasName(e) /\ e # d)
    BY <1>1, OnceRemoved DEF Books
  <1>3. \A e: Waiting(e)' <=> Waiting(e)
    BY DEF Waiting, pendings
  <1>4. HasName(d) /\ ~Waiting(d)
    BY <1>1 DEF HasName, Books, Booked
  <1>5. history'[d] = history[d] + 1 /\ \A e \in Calls: e # d => history'[e] = history[e]
    BY <1>1, RecordIs
  <1>6. Closes(d)
    BY <1>2, <1>3, <1>4, <1>5 DEF Closes, Held
  <1>7. \A e \in Calls: e # d => Rests(e)
    BY <1>2, <1>3, <1>5 DEF Rests, Held, Books, Booked
  <1> QED
    BY <1>2, <1>6, <1>7, OneClosed

(* A pending call is recorded and let go.                                   *)
LEMMA PendingCloses ==
    ASSUME StateOK, Books, NEW d \in Calls, Record(d), Waiting(d), UNCHANGED calls,
           ~Waiting(d)', \A e \in Calls: e # d => (Waiting(e)' <=> Waiting(e)),
           \A e \in Calls: SameStart(e)
    PROVE  Books'
  <1>1. OnceNamed' /\ \A e: HasName(e)' <=> HasName(e)
    BY OnceKept DEF Books
  <1>2. ~HasName(d)
    BY DEF Books, Booked
  <1>3. history'[d] = history[d] + 1 /\ \A e \in Calls: e # d => history'[e] = history[e]
    BY RecordIs
  <1>4. Closes(d)
    BY <1>1, <1>2, <1>3 DEF Closes, Held
  <1>5. \A e \in Calls: e # d => Rests(e)
    BY <1>1, <1>3 DEF Rests, Held, Books, Booked
  <1> QED
    BY <1>1, <1>4, <1>5, OneClosed

LEMMA UserBooks ==
    ASSUME StateOK, LifeInv, Books, UserActs
    PROVE  Books'
  <1>0. /\ events' = events /\ stack \in [Calls -> StackCall] /\ NoCall \notin Calls
        /\ OnceNamed /\ \A e \in Calls: Booked(e)
        /\ \A e \in Calls: \A ev: Queued(e, ev)' <=> Queued(e, ev)
    BY UserLeavesEvents, CallsAssumption DEF StateOK, Books, Queued
  <1>1. CASE Dial \/ AttendedTransferDial
    <2>1. PICK c \in OutCalls: /\ c = NextCall /\ c \in Calls /\ stack[c].st = "none"
      BY <1>1, NextCallIsNew DEF Dial, AttendedTransferDial
    <2>2. /\ pendingOutbound = NoCall /\ pendingOutbound' = c /\ history' = history
          /\ UNCHANGED <<pendingCall, pendingAccept>>
      BY <1>1, <2>1 DEF Dial, AttendedTransferDial, MayDial
    <2>3. OnceNamed' /\ \A e: HasName(e)' <=> HasName(e)
      <3>1. CASE Dial
        BY <1>0, <3>1, OnceKept DEF Dial
      <3>2. CASE AttendedTransferDial
        <4>1. focused \in DOMAIN calls
          BY <3>2, SlotTypes DEF AttendedTransferDial, StateOK
        <4>2. /\ DOMAIN calls' = DOMAIN calls
              /\ \A i \in DOMAIN calls: calls'[i].uri = calls[i].uri
          BY <3>2, <4>1, ZenonT(40), WithHeldKeeps DEF AttendedTransferDial
        <4> QED
          BY <1>0, <4>2, OnceKept
      <3> QED
        BY <1>1, <3>1, <3>2
    <2>4. /\ stack'[c].st = "trying"
          /\ \A e \in Calls: e # c => (stack'[e].st = "none" <=> stack[e].st = "none")
      <3>1. CASE Dial
        BY <1>0, <2>1, <3>1 DEF Dial, StackCall
      <3>2. CASE AttendedTransferDial
        <4>1. Id(focused) \in Calls
          BY <3>2, SlotTypes DEF AttendedTransferDial, StateOK
        <4> DEFINE held == [stack EXCEPT ![Id(focused)] = Reinvited(@, "hold")]
        <4>2. held \in [Calls -> StackCall] /\ \A e \in Calls: held[e].st = stack[e].st
          BY <1>0, <4>1, StackAsks, AsksLeaveStates
        <4>3. stack' = [held EXCEPT ![c].st = "trying"]
          BY <2>1, <3>2 DEF AttendedTransferDial
        <4> HIDE DEF held
        <4> QED
          BY <2>1, <4>2, <4>3 DEF StackCall
      <3> QED
        BY <1>1, <3>1, <3>2
    <2>5. ~Held(c) /\ history[c] = 0
      BY <1>0, <2>1 DEF Booked
    <2>6. ~Queued(c, "IncomingCall")
      <3>1. events[c] = <<>>
        BY <2>1 DEF LifeInv, Lives, Legal, Begun
      <3> QED
        BY <3>1 DEF Queued
    <2>7. Booked(c)'
      BY <1>0, <2>1, <2>2, <2>3, <2>4, <2>5, <2>6 DEF Booked, Held, Waiting
    <2>8. \A e \in Calls: e # c => Rests(e)
      BY <1>0, <2>2, <2>3, <2>4 DEF Rests, Held, Waiting, SameStart, Booked
    <2> QED
      BY <1>0, <2>3, <2>7, <2>8, RestsBooked DEF Books
  <1>2. CASE OnlyAsks
    <2>1. OnceNamed' /\ \A e: HasName(e)' <=> HasName(e)
      BY <1>0, <1>2, OnceKept DEF OnlyAsks
    <2>2. \A e \in Calls: SameStart(e)
      BY <1>0, <1>2 DEF SameStart, OnlyAsks, AsksInTalk
    <2>3. \A e \in Calls: Rests(e)
      BY <1>0, <1>2, <2>1, <2>2 DEF Rests, Held, Waiting, OnlyAsks, pendings, Booked
    <2> QED
      BY <2>1, <2>3, AllRest
  <1>3. CASE Accept
    <2>1. OnceNamed' /\ \A e: HasName(e)' <=> HasName(e)
      BY <1>0, <1>3, OnceKept DEF Accept
    <2>2. \A e \in Calls: Waiting(e)' <=> Waiting(e)
      BY <1>0, <1>3 DEF Accept, Waiting
    <2>3. \A e \in Calls: SameStart(e)
      BY <1>0, <1>3, Commanded DEF Accept, SameStart
    <2>4. \A e \in Calls: Rests(e)
      BY <1>0, <1>3, <2>1, <2>2, <2>3 DEF Rests, Held, Accept, Booked
    <2> QED
      BY <2>1, <2>4, AllRest
  <1>4. CASE Reject
    <2>1. PICK d \in InCalls: d = pendingCall
      BY <1>4 DEF Reject, StateOK
    <2>2. d \in Calls /\ Record(d) /\ UNCHANGED calls /\ Waiting(d)
      BY <1>4, <2>1 DEF Reject, Calls, Waiting
    <2>3. pendingAccept # d /\ pendingOutbound # d
      <3>1. OnePlace(d)
        BY <2>2 DEF LifeInv, Lives
      <3> QED
        BY <2>1, <2>2, <3>1, PlaceIs DEF OnePlace
    <2>4. ~Waiting(d)' /\ \A e \in Calls: e # d => (Waiting(e)' <=> Waiting(e))
      BY <1>0, <1>4, <2>1, <2>2, <2>3 DEF Reject, Waiting
    <2>5. \A e \in Calls: SameStart(e)
      BY <1>0, <1>4, Commanded DEF Reject, SameStart
    <2> QED
      BY <2>2, <2>4, <2>5, PendingCloses
  <1>5. ASSUME NEW i \in DOMAIN calls, HangUp(i) PROVE Books'
    <2>1. \A e \in Calls: SameStart(e)
      BY <1>0, <1>5, Commanded DEF HangUp, SameStart
    <2> QED
      BY <1>5, <2>1, RemovalCloses DEF HangUp
  <1> QED
    BY <1>1, <1>2, <1>3, <1>4, <1>5, TransferAsks, HoldAsks, ConferenceAsks DEF UserActs

LEMMA ConnectBooks ==
    ASSUME StateOK, LifeInv, Books, NEW c \in Calls, OnCallConnected(c),
           \A e \in Calls: SameStart(e)
    PROVE  Books'
  <1>0. /\ history' = history /\ NoCall \notin Calls
        /\ OnceNamed /\ \A e \in Calls: Booked(e)
    BY CallsAssumption DEF OnCallConnected, Books
  <1>1. CASE pendingAccept = c /\ OnAcceptedConnected(c)
    <2>1. /\ pendingAccept' = NoCall /\ UNCHANGED <<pendingOutbound, pendingCall>>
          /\ pendingCall # c /\ pendingOutbound # c /\ ~HasName(c) /\ Waiting(c)
      <3>1. c \in InCalls /\ OnePlace(c)
        BY <1>0, <1>1 DEF StateOK, LifeInv, Lives
      <3> QED
        BY <1>0, <1>1, <3>1, PlaceIs
        DEF OnAcceptedConnected, OnePlace, Waiting, Booked
    <2>2. OnceNamed' /\ \A e: HasName(e)' <=> (HasName(e) \/ e = c)
      BY <1>0, <1>1, <2>1, AcceptedShows, OnceShown
    <2>3. \A e \in Calls: Waiting(e)' <=> (Waiting(e) /\ e # c)
      BY <1>0, <1>1, <2>1 DEF Waiting
    <2>4. \A e \in Calls: Rests(e)
      BY <1>0, <2>1, <2>2, <2>3 DEF Rests, Held, Booked
    <2> QED
      BY <2>2, <2>4, AllRest
  <1>2. CASE pendingOutbound # NoCall /\ OnDialledConnected(c)
    <2>1. PICK d \in OutCalls: d = pendingOutbound
      BY <1>2 DEF StateOK
    <2>2. /\ d \in Calls /\ Waiting(d) /\ ~HasName(d)
          /\ pendingOutbound' = NoCall /\ UNCHANGED <<pendingCall, pendingAccept>>
          /\ pendingCall # d /\ pendingAccept # d
      BY <1>0, <1>2, <2>1, CallsAssumption
      DEF OnDialledConnected, Calls, Waiting, Booked, StateOK
    <2>3. OnceNamed' /\ \A e: HasName(e)' <=> (HasName(e) \/ e = d)
      BY <1>0, <1>2, <2>1, <2>2, DialledShows, OnceShown
    <2>4. \A e \in Calls: Waiting(e)' <=> (Waiting(e) /\ e # d)
      BY <1>0, <2>1, <2>2 DEF Waiting
    <2>5. \A e \in Calls: Rests(e)
      BY <1>0, <2>2, <2>3, <2>4 DEF Rests, Held, Booked
    <2> QED
      BY <2>3, <2>5, AllRest
  <1>3. CASE UNCHANGED <<calls, audio, pendings, stack>>
    <2>1. OnceNamed' /\ \A e: HasName(e)' <=> HasName(e)
      BY <1>0, <1>3, OnceKept
    <2>2. \A e \in Calls: Rests(e)
      BY <1>0, <1>3, <2>1 DEF Rests, Held, Waiting, pendings, Booked
    <2> QED
      BY <2>1, <2>2, AllRest
  <1> QED
    BY <1>1, <1>2, <1>3 DEF OnCallConnected

LEMMA EndBooks ==
    ASSUME StateOK, LifeInv, Books, NEW c \in Calls, OnCallEnded(c),
           \A e \in Calls: SameStart(e)
    PROVE  Books'
  <1>0. NoCall \notin Calls /\ OnePlace(c) /\ OnceNamed /\ \A e \in Calls: Booked(e)
    BY CallsAssumption DEF Books, LifeInv, Lives
  <1>1. CASE EndsPendingCall(c) \/ EndsPendingAccept(c)
    <2>1. /\ Record(c) /\ Waiting(c) /\ UNCHANGED <<calls, pendingOutbound>>
          /\ pendingOutbound # c
          /\ \/ /\ pendingCall = c /\ pendingAccept # c
                /\ pendingCall' = NoCall /\ pendingAccept' = pendingAccept
             \/ /\ pendingAccept = c /\ pendingCall # c
                /\ pendingAccept' = NoCall /\ pendingCall' = pendingCall
      <3>1. c \in InCalls
        BY <1>0, <1>1 DEF EndsPendingCall, EndsPendingAccept, StateOK
      <3> QED
        BY <1>0, <1>1, <3>1, PlaceIs
        DEF EndsPendingCall, EndsPendingAccept, Waiting, OnePlace
    <2>2. ~Waiting(c)' /\ \A e \in Calls: e # c => (Waiting(e)' <=> Waiting(e))
      BY <1>0, <2>1 DEF Waiting
    <2> QED
      BY <2>1, <2>2, PendingCloses
  <1>2. CASE EndsSlot(c)
    BY <1>2, RemovalCloses DEF EndsSlot, SlotsOf
  <1>3. CASE EndsPendingOutbound(c) /\ pendingOutbound = NoCall
    <2>1. UNCHANGED <<calls, pendings, history>>
      BY <1>3 DEF EndsPendingOutbound, pendings
    <2>2. OnceNamed' /\ \A e: HasName(e)' <=> HasName(e)
      BY <1>0, <2>1, OnceKept
    <2>3. \A e \in Calls: Rests(e)
      BY <1>0, <2>1, <2>2 DEF Rests, Held, Waiting, pendings, Booked
    <2> QED
      BY <2>2, <2>3, AllRest
  <1>4. CASE EndsPendingOutbound(c) /\ pendingOutbound # NoCall
    <2>1. PICK d \in OutCalls: d = pendingOutbound
      BY <1>4 DEF StateOK
    <2>2. /\ d \in Calls /\ Record(d) /\ Waiting(d) /\ pendingOutbound' = NoCall
          /\ UNCHANGED <<calls, pendingCall, pendingAccept>>
          /\ pendingCall # d /\ pendingAccept # d
      BY <1>4, <2>1, CallsAssumption DEF EndsPendingOutbound, Calls, Waiting, StateOK
    <2>3. ~Waiting(d)' /\ \A e \in Calls: e # d => (Waiting(e)' <=> Waiting(e))
      BY <1>0, <2>1, <2>2 DEF Waiting
    <2> QED
      BY <2>2, <2>3, PendingCloses
  <1> QED
    BY <1>1, <1>2, <1>3, <1>4 DEF OnCallEnded

(* Two calls are hung up at once, and each is recorded once.                *)
LEMMA TransferBooks ==
    ASSUME StateOK, Books, HangUpBoth(TRUE), \A e \in Calls: SameStart(e)
    PROVE  Books'
  <1>1. calls' = <<>> /\ UNCHANGED pendings
    BY DEF HangUpBoth
  <1>2. OnceNamed' /\ \A e: ~HasName(e)'
    BY <1>1 DEF OnceNamed, HasName
  <1>3. ASSUME NEW d \in Calls PROVE Booked(d)'
    <2> DEFINE mine == {i \in DOMAIN calls: calls[i].uri = d}
    <2>1. history'[d] = history[d] + Cardinality(mine) /\ history[d] \in Nat
      BY DEF HangUpBoth, StateOK
    <2>2. Booked(d) /\ SameStart(d) /\ (Waiting(d)' <=> Waiting(d))
      BY <1>1 DEF Books, Waiting, pendings
    <2>3. CASE HasName(d)
      <3>1. PICK i \in DOMAIN calls: calls[i].uri = d
        BY <2>3 DEF HasName
      <3>2. mine = {i}
        BY <3>1 DEF Books, OnceNamed
      <3>3. Cardinality(mine) = 1
        BY <3>2, FS_Singleton
      <3>4. Closes(d)
        BY <1>2, <2>1, <2>2, <2>3, <3>3 DEF Closes, Held, Booked
      <3> QED
        BY <2>2, <3>4, ClosesBooked
    <2>4. CASE ~HasName(d)
      <3>1. mine = {}
        BY <2>4 DEF HasName
      <3>2. history'[d] = history[d]
        <4>1. Cardinality(mine) = 0
          BY <3>1, FS_EmptySet
        <4> HIDE DEF mine
        <4> QED
          BY <2>1, <4>1
      <3>3. Rests(d)
        BY <1>2, <2>2, <2>4, <3>2 DEF Rests, Held
      <3> QED
        BY <2>2, <3>3, RestsBooked
    <2> QED
      BY <2>3, <2>4
  <1> QED
    BY <1>2, <1>3 DEF Books

(* A call that comes in is new to the books.                                *)
LEMMA IncomingBooks ==
    ASSUME StateOK, LifeInv, Books, NEW c \in InCalls, HandleEvent(c),
           Head(events[c]) = "IncomingCall", OnIncomingCall(c)
    PROVE  Books'
  <1>0. /\ c \in Calls /\ c \notin OutCalls /\ NoCall \notin Calls
        /\ events[c] # <<>> /\ events[c] \in Seq(Event)
        /\ events'[c] = Tail(events[c]) /\ Legal(c, stack[c], events[c], Place(c))
        /\ stack \in [Calls -> StackCall] /\ OnceNamed /\ \A e \in Calls: Booked(e)
    BY Taken, CallsAssumption DEF Calls, LifeInv, Lives, Books, StateOK
  <1>1. /\ UNCHANGED <<calls, pendingOutbound, pendingAccept>>
        /\ \A e \in Calls: stack'[e].st = "none" <=> stack[e].st = "none"
    BY <1>0, Commanded DEF OnIncomingCall
  <1>2. OnceNamed' /\ \A e: HasName(e)' <=> HasName(e)
    BY <1>0, <1>1, OnceKept
  <1>3. Queued(c, "IncomingCall") /\ stack[c].st # "none"
    <2>1. Queued(c, "IncomingCall")
      BY <1>0, EventTaken DEF Queued
    <2> QED
      BY <1>0, <2>1 DEF Legal, Begun
  <1>4. ~Held(c) /\ history[c] = 0
    BY <1>0, <1>3 DEF Booked
  <1>5. ~Queued(c, "IncomingCall")'
    BY <1>0, OrderlyTail DEF Legal, Queued
  <1>6. history'[c] \in {0, 1} /\ (history'[c] = 0 \/ pendingCall' = pendingCall)
        /\ \A e \in Calls: e # c => history'[e] = history[e]
    BY <1>0, <1>4, RecordIs DEF OnIncomingCall
  <1>7. /\ pendingCall' \in {pendingCall, c}
        /\ pendingCall' = c => history'[c] = 0 \/ pendingCall = c
        /\ \A e \in Calls: e # c => (Waiting(e)' <=> Waiting(e))
    BY <1>0, <1>1, <1>6 DEF OnIncomingCall, Waiting
  <1>8. Booked(c)'
    BY <1>0, <1>1, <1>2, <1>3, <1>4, <1>5, <1>6, <1>7 DEF Booked, Held, Waiting
  <1>9. ASSUME NEW e \in Calls, e # c PROVE Rests(e)
    <2>1. SameStart(e)
      <3>1. events'[e] = events[e]
        BY <1>0, <1>9, Taken
      <3> QED
        BY <1>1, <3>1 DEF SameStart, Queued
    <2> QED
      BY <1>0, <1>2, <1>6, <1>7, <1>9, <2>1 DEF Rests, Held, Booked
  <1> QED
    BY <1>0, <1>2, <1>8, <1>9, RestsBooked DEF Books

LEMMA EventBooks ==
    ASSUME Typed, LifeInv, Books, NEW c \in Calls, HandleEvent(c)
    PROVE  Books'
  <1>0. /\ StateOK /\ React(c, Head(events[c])) /\ stack \in [Calls -> StackCall]
        /\ OnceNamed /\ \A e \in Calls: Booked(e)
        /\ \A e \in Calls: Queued(e, "IncomingCall")' => Queued(e, "IncomingCall")
    BY EventsShorten DEF Typed, HandleEvent, Books, StateOK, Event
  <1>1. CASE Head(events[c]) = "IncomingCall" /\ OnIncomingCall(c)
    <2>1. c \in InCalls
      BY <1>0, <1>1, EventTaken DEF Typed, Announced, HandleEvent
    <2> QED
      BY <1>0, <1>1, <2>1, IncomingBooks
  <1>2. CASE OnCallConnected(c)
    <2>1. \A e \in Calls: SameStart(e)
      BY <1>0, <1>2, AcceptedAsks
      DEF OnCallConnected, OnDialledConnected, AsksInTalk, SameStart
    <2> QED
      BY <1>0, <1>2, <2>1, ConnectBooks
  <1>3. CASE OnCallEnded(c)
    <2>1. \A e \in Calls: SameStart(e)
      BY <1>0, <1>3 DEF OnCallEnded, SameStart
    <2> QED
      BY <1>0, <1>3, <2>1, EndBooks
  <1>4. ASSUME OnceNamed', \A e: HasName(e)' <=> HasName(e),
               UNCHANGED <<pendings, history, stack>>
        PROVE  Books'
    <2>1. \A e \in Calls: Rests(e)
      BY <1>0, <1>4 DEF Rests, Held, Waiting, pendings, SameStart, Booked
    <2> QED
      BY <1>4, <2>1, AllRest
  <1>5. ASSUME NEW held \in BOOLEAN, OnHeld(c, held) PROVE Books'
    <2>1. OnceNamed' /\ \A e: HasName(e)' <=> HasName(e)
      BY <1>0, <1>5, HeldKeepsSlots, OnceKept
    <2> QED
      BY <1>4, <1>5, <2>1 DEF OnHeld
  <1>6. CASE OnTransferAccepted \/ OnTransferFailed
    <2>1. CASE KeepBoth
      BY <1>0, <1>4, <2>1, OnceKept DEF KeepBoth
    <2>2. CASE HangUpBoth(TRUE)
      <3>1. \A e \in Calls: SameStart(e)
        BY <1>0, <2>2, Commanded DEF HangUpBoth, SameStart
      <3> QED
        BY <1>0, <2>2, <3>1, TransferBooks
    <2> QED
      BY <1>6, <2>1, <2>2 DEF OnTransferAccepted, OnTransferFailed
  <1> QED
    BY <1>0, <1>1, <1>2, <1>3, <1>5, <1>6 DEF React

LEMMA StackBooks ==
    ASSUME StateOK, LifeInv, Books, NEW c \in Calls, StackActs(c)
    PROVE  Books'
  <1>0. /\ UNCHANGED <<calls, pendings, history>>
        /\ \A e \in Calls: e # c => stack'[e] = stack[e] /\ events'[e] = events[e]
        /\ stack \in [Calls -> StackCall] /\ OnceNamed /\ \A e \in Calls: Booked(e)
        /\ Legal(c, stack[c], events[c], Place(c))
    <2>1. PICK ev \in Event: Emit(c, <<ev>>)
      BY StackMove
    <2> QED
      BY <2>1, StackMove, EventPosted DEF Client, LifeInv, Lives, Books, StateOK
  <1>1. OnceNamed' /\ \A e: HasName(e)' <=> HasName(e)
    BY <1>0, OnceKept
  <1>2. ASSUME NEW e \in Calls, SameStart(e) PROVE Rests(e)
    BY <1>0, <1>1, <1>2 DEF Rests, Held, Waiting, pendings, Booked
  <1>3. ASSUME NEW e \in Calls, e # c PROVE Rests(e)
    BY <1>0, <1>2, <1>3 DEF SameStart, Queued
  <1>4. CASE StackRings(c)
    <2>1. c \in InCalls /\ c \notin OutCalls /\ stack[c].st = "none"
      BY <1>4, CallsAssumption DEF StackRings
    <2>2. ~Held(c) /\ history[c] = 0
      BY <1>0, <2>1 DEF Booked
    <2>3. Booked(c)'
      BY <1>0, <1>1, <2>1, <2>2 DEF Booked, Held, Waiting, pendings
    <2> QED
      BY <1>0, <1>1, <1>3, <2>3, RestsBooked DEF Books
  <1>5. ASSUME NEW ev \in Event, ev # "IncomingCall", Emit(c, <<ev>>),
               stack'[c].st = "none" <=> stack[c].st = "none"
        PROVE  Books'
    <2>1. Queued(c, "IncomingCall")' => Queued(c, "IncomingCall")
      <3>1. ASSUME NEW i \in DOMAIN events'[c], events'[c][i] = "IncomingCall"
            PROVE  Queued(c, "IncomingCall")
        <4>1. i \in 1..Len(events[c]) /\ events[c][i] = "IncomingCall"
          BY <1>5, <3>1, EventPosted
        <4> QED
          BY <1>5, <4>1, EventPosted DEF Queued
      <3> QED
        BY <3>1 DEF Queued
    <2>2. Rests(c)
      BY <1>2, <1>5, <2>1 DEF SameStart
    <2> QED
      BY <1>1, <1>3, <2>2, AllRest
  <1>6. CASE StackConnects(c)
    <2>1. Emit(c, <<"CallConnected">>) /\ "CallConnected" \in Event
      BY <1>6 DEF StackConnects, Event
    <2>2. stack'[c].st # "none" /\ stack[c].st # "none"
      BY <1>0, <1>6 DEF StackConnects, StackCall
    <2> QED
      BY <1>5, <2>1, <2>2
  <1>7. CASE StackEnds(c)
    <2>1. Emit(c, <<"CallEnded">>) /\ "CallEnded" \in Event
      BY <1>7 DEF StackEnds, Event
    <2>2. stack'[c].st # "none" /\ stack[c].st # "none"
      BY <1>0, <1>7 DEF StackEnds, Over, StackCall
    <2> QED
      BY <1>5, <2>1, <2>2
  <1>8. CASE StackReinvited(c) \/ StackReferred(c)
    <2>1. stack'[c].st = stack[c].st
      BY <1>0, <1>8 DEF StackReinvited, StackReferred, StackCall
    <2>2. PICK ev \in Event: Emit(c, <<ev>>) /\ ev # "IncomingCall"
      BY <1>8 DEF StackReinvited, StackReferred, Event
    <2> QED
      BY <1>5, <2>1, <2>2
  <1> QED
    BY <1>4, <1>6, <1>7, <1>8 DEF StackActs

LEMMA BooksAlways == Spec => []Books
  <1>1. Init => Books
    <2> SUFFICES ASSUME Init PROVE Books
      OBVIOUS
    <2>1. OnceNamed /\ \A e: ~HasName(e)
      BY DEF Init, OnceNamed, HasName
    <2>2. \A e \in Calls: ~Waiting(e) /\ stack[e].st = "none" /\ history[e] = 0
      BY CallsAssumption DEF Init, Waiting
    <2> QED
      BY <2>1, <2>2 DEF Books, Booked, Held
  <1>2. Typed /\ LifeInv /\ Books /\ [Next]_vars => Books'
    <2> SUFFICES ASSUME Typed, LifeInv, Books, [Next]_vars PROVE Books'
      OBVIOUS
    <2>0. StateOK
      BY DEF Typed
    <2>1. CASE UserActs
      BY <2>0, <2>1, UserBooks
    <2>2. CASE \E c \in Calls: HandleEvent(c)
      BY <2>2, EventBooks
    <2>3. CASE \E c \in Calls: StackActs(c)
      BY <2>0, <2>3, StackBooks
    <2>4. CASE UNCHANGED vars
      <3>1. OnceNamed' /\ \A e: HasName(e)' <=> HasName(e)
        BY <2>4, OnceKept DEF Books, vars
      <3>2. \A e \in Calls: Rests(e)
        BY <2>4, <3>1
        DEF vars, pendings, Rests, Held, Waiting, SameStart, Queued, Books, Booked
      <3> QED
        BY <3>1, <3>2, AllRest
    <2> QED
      BY <2>1, <2>2, <2>3, <2>4 DEF Next
  <1> QED
    BY <1>1, <1>2, TypedAlways, LifeAlways, PTL DEF Spec

(* A call is recorded once at most, and a dialled call that is over and     *)
(* shown in no slot has its record, whoever ended it and whatever was taken *)
(* for its end (remove_call and on_call_terminated, do_hangup, do_reject).  *)
THEOREM RecordsAreTrue == Spec => []RecordedOnce
  <1>1. Typed /\ LifeInv /\ Books => RecordedOnce
    BY BooksShown DEF Typed
  <1> QED
    BY <1>1, TypedAlways, LifeAlways, BooksAlways, PTL

=============================================================================
