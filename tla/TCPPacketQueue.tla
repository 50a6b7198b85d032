--------------------------- MODULE TCPPacketQueue ---------------------------
(***************************************************************************)
(* The packet queue of one direction of a TCP connection, as kept by the   *)
(* stream reassembler in src/network/tcp.c: where TCPStream_add inserts a  *)
(* packet, and the three ways the first queued packet can leave the queue  *)
(* (dropped as a retransmission, delivered, delivered after padding).      *)
(*                                                                         *)
(* A stream is a record                                                    *)
(*   next_seq  the next sequence number expected (uint32_t)                *)
(*   queue     the skbuff list, head first                                 *)
(*   state     enum tcp_state_t, the members that are ever assigned        *)
(*   out       the callbacks made so far, oldest first                     *)
(* and a packet is its header fields; the payload byte with sequence       *)
(* number n is identified by n, so [seq, data_len] says which bytes a      *)
(* packet carries.                                                         *)
(***************************************************************************)
EXTENDS Integers, Sequences

CONSTANTS
    HalfSeq,  \* half the sequence space: 2^31 in the code
    MaxPad    \* the widest gap that is filled with zeros: 50000 in the code

ASSUME HalfSeqAssumption == HalfSeq \in Nat \ {0}
ASSUME MaxPadAssumption  == MaxPad \in Nat /\ MaxPad < HalfSeq

SeqSpace == 2 * HalfSeq          \* 2^32

(***************************************************************************)
(* uint32_t arithmetic.  Both operands of every sum and difference are     *)
(* below SeqSpace, so one correction is the whole of the reduction.        *)
(***************************************************************************)
U32(x) == IF x < 0 THEN x + SeqSpace
          ELSE IF x >= SeqSpace THEN x - SeqSpace ELSE x

\* The same bits read as an int, as pad_to_first_packet does.
I32(x) == IF U32(x) >= HalfSeq THEN U32(x) - SeqSpace ELSE U32(x)

\* data_len and window are 16 bit quantities on the wire: far below HalfSeq.
PacketType == [seq      : 0 .. SeqSpace - 1,
               data_len : 0 .. HalfSeq - 1,
               window   : 0 .. HalfSeq - 1]

\* The stream states this code assigns; the other members of the enum are
\* never used.
StreamStates == {"NONE", "JUST_EST", "DATA", "RETRANSMISSION", "DESTROY"}

(***************************************************************************)
(* One callback: its kind, the position at which the reassembled stream    *)
(* stood (next_seq), the sequence number and length in the header it is    *)
(* given, and how many of the length bytes are zeros put in front.         *)
(***************************************************************************)
Callback(s, kind, p, pad) ==
    Append(s.out, [kind |-> kind, at |-> s.next_seq, seq |-> p.seq,
                   len |-> p.data_len, pad |-> pad])

-----------------------------------------------------------------------------
(***************************************************************************)
(* Insertion: after the last packet of the longest prefix of the queue     *)
(* whose sequence numbers do not exceed the new one.                       *)
(***************************************************************************)
IsCandidate(q, p, n) ==
    /\ \A k \in 1 .. n : q[k].seq <= p.seq
    /\ n < Len(q) => q[n + 1].seq > p.seq

AddAfter(q, p, n) == SubSeq(q, 1, n) \o <<p>> \o SubSeq(q, n + 1, Len(q))

Insert(q, p) == AddAfter(q, p, CHOOSE n \in 0 .. Len(q) : IsCandidate(q, p, n))

-----------------------------------------------------------------------------
(* The tests on the first packet of a non-empty queue.                      *)

\* Mutants: one byte too far; the start of the packet instead of its end.
SeenBeforeOffByOne(s) ==
    s.next_seq + 1 >= U32(Head(s.queue).seq + Head(s.queue).data_len)
SeenBeforeStart(s) == s.next_seq >= Head(s.queue).seq

\* "Have we processed the entire packet before?"
SeenBefore(s) ==
    s.next_seq >= U32(Head(s.queue).seq + Head(s.queue).data_len)

\* "Does this packet have some data for us?"
HasData(s) == s.next_seq >= Head(s.queue).seq

\* The last queued packet is further than a window ahead of the first.
WindowExceeded(s) ==
    U32(Head(s.queue).window + Head(s.queue).seq) < s.queue[Len(s.queue)].seq

-----------------------------------------------------------------------------
(* The ways the first packet is handled.                                    *)

DropRetransmission(s) ==
    [s EXCEPT !.state = "RETRANSMISSION",
              !.out   = Callback(s, "retran", Head(s.queue), 0),
              !.queue = Tail(s.queue)]

\* Mutant: an overlap is not cut off.
TrimNothing(p, n) == p

\* Packet p with the first n of its bytes cut off.
Trim(p, n) == [p EXCEPT !.seq = U32(p.seq + n),
                        !.data_len = IF p.data_len > n THEN p.data_len - n ELSE 0]

\* Hand packet p, preceded by pad zeros, to the callback and free it.
Deliver(s, p, pad) ==
    LET padded == [p EXCEPT !.data_len = @ + pad]
    IN  [s EXCEPT !.state    = "DATA",
                  !.out      = Callback(s, "data", padded, pad),
                  !.next_seq = U32(s.next_seq + padded.data_len),
                  !.queue    = Tail(s.queue)]

DeliverFirst(s) ==
    Deliver(s, Trim(Head(s.queue), s.next_seq - Head(s.queue).seq), 0)

\* Mutants of pad_to_first_packet: the jump goes the wrong way; no gap is
\* ever padded; a wide gap is left as it is.
PadWrongWay(s) ==
    LET p   == Head(s.queue)
        pad == I32(p.seq - s.next_seq)
    IN  IF pad > MaxPad \/ pad < -MaxPad
        THEN [s EXCEPT !.next_seq = s.next_seq - pad]
        ELSE IF pad >= 0 THEN Deliver(s, p, pad)
                         ELSE Deliver(s, Trim(p, -pad), 0)
PadNever(s) ==
    LET p   == Head(s.queue)
        pad == I32(p.seq - s.next_seq)
    IN  IF pad > 0 THEN [s EXCEPT !.next_seq = p.seq]
                   ELSE Deliver(s, Trim(p, -pad), 0)
PadGivesUp(s) ==
    LET p   == Head(s.queue)
        pad == I32(p.seq - s.next_seq)
    IN  IF pad > MaxPad \/ pad < -MaxPad THEN s
        ELSE IF pad >= 0 THEN Deliver(s, p, pad)
                         ELSE Deliver(s, Trim(p, -pad), 0)

(***************************************************************************)
(* pad_to_first_packet: a distance beyond MaxPad only moves next_seq and   *)
(* leaves the packet in the queue, without a callback.                     *)
(***************************************************************************)
PadToFirstPacket(s) ==
    LET p   == Head(s.queue)
        pad == I32(p.seq - s.next_seq)
    IN  IF pad > MaxPad \/ pad < -MaxPad
        THEN [s EXCEPT !.next_seq = p.seq]
        ELSE IF pad >= 0 THEN Deliver(s, p, pad)
                         ELSE Deliver(s, Trim(p, -pad), 0)
=============================================================================
