---------------------------- MODULE VideoStream -----------------------------
(***************************************************************************)
(* The video that goes from one end of a call to the other: `send_loop`    *)
(* cuts every encoded frame into RTP packets, and `recv_loop` puts them    *)
(* together again for the decoder.                                         *)
(*                                                                         *)
(* The packets of a frame have one timestamp and consecutive sequence      *)
(* numbers of 16 bits.  They may overtake each other and be lost.  What is *)
(* in a packet is which part of which frame it is, and whether it is the   *)
(* last; the timestamp is the number of the frame, counted from the start  *)
(* of the sender's engine.  A frame is one NAL unit.                       *)
(***************************************************************************)
EXTENDS Integers, Sequences

CONSTANT SeqNumbers    \* 2^16, the sequence numbers there are

ASSUME SeqNumbersAssumption == SeqNumbers \in Nat \ {0}

VARIABLES
    camera,    \* send_loop: its RtpSender, and how many frames it has sent
    packets,   \* RTP packets on their way
    fragments, \* recv_loop: the fragments of current_ts
    decoded    \* the fragments the decoder was given last

stream == <<camera, packets, fragments, decoded>>

-----------------------------------------------------------------------------
Packet == [engine: Nat, ts: Nat, part: Nat \ {0}, last: BOOLEAN, seq: 0..SeqNumbers - 1]

VTypeOK ==
    /\ camera \in [engine: Nat, seq: 0..SeqNumbers - 1, ts: Nat, filmed: Nat]
    /\ packets \subseteq Packet
    /\ fragments \subseteq Packet
    /\ decoded \subseteq Packet

VInit ==
    /\ camera = [engine |-> 0, seq |-> 0, ts |-> 0, filmed |-> 0]
    /\ packets = {}
    /\ fragments = {}
    /\ decoded = {}

-----------------------------------------------------------------------------
(* RtpSender::new starts at nought again.                                  *)
NewCamera(k) ==
    /\ camera' = [camera EXCEPT !.engine = k, !.seq = 0, !.ts = 0]
    /\ UNCHANGED <<packets, fragments, decoded>>

(* fragment_nal_units, and next_packet for each fragment: the first and    *)
(* the last are marked in the FU header.                                   *)
Fragments(parts) ==
    {[engine |-> camera.engine, ts |-> camera.ts, part |-> n, last |-> n = parts,
      seq |-> (camera.seq + n - 1) % SeqNumbers] : n \in 1..parts}

(* A tick of send_loop with a frame; the clock moves once.                 *)
Film(parts) ==
    /\ packets' = packets \cup Fragments(parts)
    /\ camera' = [camera EXCEPT !.seq = (@ + parts) % SeqNumbers, !.ts = @ + 1, !.filmed = @ + 1]
    /\ UNCHANGED <<fragments, decoded>>

Drop(p) ==
    /\ packets' = packets \ {p}
    /\ UNCHANGED <<camera, fragments, decoded>>

(* reassemble_nal_units, in the order of the numbers: from a first part to *)
(* a last one.  What is missing between the two is not noticed.            *)
Reassembled ==
    {p \in fragments : \E s, t \in fragments :
        /\ s.part = 1 /\ t.last /\ s.seq <= p.seq /\ p.seq <= t.seq
        /\ \A q \in fragments : ~(q.part = 1 /\ s.seq < q.seq /\ q.seq <= p.seq)
        /\ \A q \in fragments : ~(q.last /\ s.seq <= q.seq /\ q.seq < p.seq)}

(* flush_frame: of nothing, the decoder makes nothing.                     *)
Flush == decoded' = IF Reassembled = {} THEN decoded ELSE Reassembled

(* A packet of another timestamp ends the frame before it; `fragments` is  *)
(* a map from sequence numbers.                                            *)
ArriveAnyTime(p) ==    \* mutant: frames are not told apart
    /\ packets' = packets \ {p}
    /\ fragments' = fragments \cup {p}
    /\ UNCHANGED <<camera, decoded>>
Arrive(p) ==
    /\ packets' = packets \ {p}
    /\ IF \E q \in fragments : q.ts # p.ts
       THEN Flush /\ fragments' = {p}
       ELSE /\ fragments' = {q \in fragments : q.seq # p.seq} \cup {p}
            /\ UNCHANGED decoded
    /\ UNCHANGED camera

(* STALL_FLUSH: nothing has come for a while.                              *)
Stall ==
    /\ fragments # {}
    /\ Flush /\ fragments' = {}
    /\ UNCHANGED <<camera, packets>>

(* The task is aborted, and what it showed goes with its engine.           *)
StopScreen ==
    /\ fragments' = {} /\ decoded' = {}
    /\ UNCHANGED <<camera, packets>>

-----------------------------------------------------------------------------
(* What is given to the decoder at once is of one frame, and in the order  *)
(* it was cut (docs/crates/media-engine.md:249-268), whatever was lost or  *)
(* overtaken: except where the sequence numbers start again within it, and *)
(* unless it comes from two engines of the sender, whose timestamps are    *)
(* alike and whose SSRC nobody looks at.                                   *)
Unwrapped(p) == p.part <= p.seq + 1
OneFrameAtATime ==
    \A p, q \in decoded : p.engine = q.engine =>
        /\ p.ts = q.ts
        /\ Unwrapped(p) /\ Unwrapped(q) => (p.part < q.part <=> p.seq < q.seq)

=============================================================================
