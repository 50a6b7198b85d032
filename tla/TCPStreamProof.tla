--------------------------- MODULE TCPStreamProof ---------------------------
(***************************************************************************)
(* Proofs about one direction of a reassembled TCP connection.             *)
(***************************************************************************)
EXTENDS TCPStream, TLAPS

-----------------------------------------------------------------------------
(* What the operators of the packet queue return.                          *)

\* A reduced sum or difference of two sequence numbers is a sequence number.
LEMMA U32Type ==
    ASSUME NEW x \in Int, -SeqSpace <= x, x < 2 * SeqSpace
    PROVE  U32(x) \in 0 .. SeqSpace - 1
  BY HalfSeqAssumption DEF U32, SeqSpace

\* Inserting one packet into the queue (list_add after the candidate).
LEMMA AddAfterFacts ==
    ASSUME NEW q \in Seq(PacketType), NEW p \in PacketType, NEW n \in 0 .. Len(q)
    PROVE  /\ AddAfter(q, p, n) \in Seq(PacketType)
           /\ Len(AddAfter(q, p, n)) = Len(q) + 1
           /\ \A k \in 1 .. n : AddAfter(q, p, n)[k] = q[k]
           /\ AddAfter(q, p, n)[n + 1] = p
           /\ \A k \in n + 2 .. Len(q) + 1 : AddAfter(q, p, n)[k] = q[k - 1]
  <1> DEFINE a == SubSeq(q, 1, n)
             c == SubSeq(q, n + 1, Len(q))
  <1>1. /\ a \in Seq(PacketType) /\ Len(a) = n
        /\ \A k \in 1 .. n : a[k] = q[k]
    OBVIOUS
  <1>2. /\ c \in Seq(PacketType) /\ Len(c) = Len(q) - n
        /\ \A k \in 1 .. Len(q) - n : c[k] = q[n + k]
    OBVIOUS
  <1>3. <<p>> \in Seq(PacketType) /\ Len(<<p>>) = 1 /\ <<p>>[1] = p
    OBVIOUS
  <1> HIDE DEF a, c
  <1> DEFINE d == a \o <<p>>
  <1>4. /\ d \in Seq(PacketType)
        /\ Len(d) = n + 1
        /\ \A k \in 1 .. n : d[k] = q[k]
        /\ d[n + 1] = p
    BY <1>1, <1>3
  <1> HIDE DEF d
  <1>5. d \o c \in Seq(PacketType) /\ Len(d \o c) = Len(q) + 1
    BY <1>2, <1>4
  <1>6. \A k \in 1 .. n + 1 : (d \o c)[k] = d[k]
    BY <1>2, <1>4
  <1>7. ASSUME NEW k \in n + 2 .. Len(q) + 1
        PROVE  (d \o c)[k] = q[k - 1]
    <2>1. (d \o c)[k] = c[k - (n + 1)]
      BY <1>2, <1>4
    <2>2. k - (n + 1) \in 1 .. Len(q) - n /\ n + (k - (n + 1)) = k - 1
      OBVIOUS
    <2> QED BY <2>1, <2>2, <1>2
  <1>8. AddAfter(q, p, n) = d \o c
    BY DEF d, a, c, AddAfter
  <1> QED BY <1>4, <1>5, <1>6, <1>7, <1>8

\* The tail of the queue (list_del of the first skbuff).
LEMMA TailFacts ==
    ASSUME NEW T, NEW q \in Seq(T), q # <<>>
    PROVE  /\ Len(q) \in Nat \ {0}
           /\ Head(q) \in T /\ Head(q) = q[1]
           /\ Tail(q) \in Seq(T)
           /\ Len(Tail(q)) = Len(q) - 1
           /\ \A k \in 1 .. Len(q) - 1 : Tail(q)[k] = q[k + 1]
  OBVIOUS

\* One more callback in the log.
LEMMA AppendFacts ==
    ASSUME NEW T, NEW q \in Seq(T), NEW e \in T
    PROVE  /\ Append(q, e) \in Seq(T)
           /\ Len(Append(q, e)) = Len(q) + 1
           /\ \A k \in 1 .. Len(q) : Append(q, e)[k] = q[k]
           /\ Append(q, e)[Len(q) + 1] = e
  OBVIOUS

\* Away from the wrap the reduction changes nothing.
LEMMA U32Small ==
    ASSUME NEW x \in Int, 0 <= x, x < SeqSpace
    PROVE  U32(x) = x
  BY HalfSeqAssumption DEF U32, SeqSpace

\* Away from the wrap the signed distance is the difference.
LEMMA I32Small ==
    ASSUME NEW x \in Int, -HalfSeq <= x, x < HalfSeq
    PROVE  I32(x) = x
  BY HalfSeqAssumption DEF U32, I32, SeqSpace

\* A trimmed packet is a packet.
LEMMA TrimType ==
    ASSUME NEW p \in PacketType, NEW n \in 0 .. SeqSpace - 1
    PROVE  Trim(p, n) \in PacketType
  <1>1. U32(p.seq + n) \in 0 .. SeqSpace - 1
    <2>1. p.seq \in 0 .. SeqSpace - 1
      BY DEF PacketType
    <2>2. SeqSpace \in Nat
      BY HalfSeqAssumption DEF SeqSpace
    <2> QED BY <2>1, <2>2, U32Type
  <1>2. (IF p.data_len > n THEN p.data_len - n ELSE 0) \in 0 .. HalfSeq - 1
    BY HalfSeqAssumption DEF PacketType, SeqSpace
  <1> QED BY <1>1, <1>2 DEF Trim, PacketType

-----------------------------------------------------------------------------
(* Type correctness.                                                        *)

StreamType == [next_seq : 0 .. SeqSpace - 1, queue : Seq(PacketType),
               state : StreamStates, out : Seq(EventType)]

\* A callback is logged with its type.
LEMMA CallbackType ==
    ASSUME NEW st \in StreamType, NEW kind \in {"est", "data", "retran"},
           NEW p, p.seq \in Int, p.data_len \in Int, NEW pad \in Int
    PROVE  Callback(st, kind, p, pad) \in Seq(EventType)
  <1>1. [kind |-> kind, at |-> st.next_seq, seq |-> p.seq,
         len |-> p.data_len, pad |-> pad] \in EventType
    BY HalfSeqAssumption DEF StreamType, EventType, SeqSpace
  <1>2. st.out \in Seq(EventType)
    BY DEF StreamType
  <1> QED BY <1>1, <1>2, AppendFacts DEF Callback

\* Delivering the first packet keeps the stream's type.
LEMMA DeliverType ==
    ASSUME NEW st \in StreamType, st.queue # <<>>, NEW p \in PacketType,
           NEW pad \in 0 .. MaxPad
    PROVE  Deliver(st, p, pad) \in StreamType
  <1> DEFINE padded == [p EXCEPT !.data_len = @ + pad]
  <1>1. padded.seq \in Int /\ padded.data_len \in 0 .. SeqSpace - 1
    BY HalfSeqAssumption, MaxPadAssumption DEF PacketType, SeqSpace
  <1> HIDE DEF padded
  <1>2. U32(st.next_seq + padded.data_len) \in 0 .. SeqSpace - 1
    <2>1. st.next_seq \in 0 .. SeqSpace - 1 /\ SeqSpace \in Nat
      BY HalfSeqAssumption DEF StreamType, SeqSpace
    <2>2. /\ st.next_seq + padded.data_len \in Int
          /\ -SeqSpace <= st.next_seq + padded.data_len
          /\ st.next_seq + padded.data_len < 2 * SeqSpace
      BY <1>1, <2>1
    <2> QED BY <2>2, U32Type
  <1>3. Callback(st, "data", padded, pad) \in Seq(EventType)
    <2>1. padded.data_len \in Int /\ pad \in Int
      BY <1>1, HalfSeqAssumption, MaxPadAssumption DEF SeqSpace
    <2> QED BY <1>1, <2>1, CallbackType
  <1>4. Tail(st.queue) \in Seq(PacketType)
    BY TailFacts DEF StreamType
  <1> QED BY <1>2, <1>3, <1>4 DEF Deliver, padded, StreamType, StreamStates

\* So does pad_to_first_packet, in each of its branches.
LEMMA PadToFirstPacketType ==
    ASSUME NEW st \in StreamType, st.queue # <<>>
    PROVE  PadToFirstPacket(st) \in StreamType
  <1> DEFINE p   == Head(st.queue)
             pad == I32(p.seq - st.next_seq)
  <1>1. p \in PacketType
    BY TailFacts DEF StreamType
  <1>2. p.seq \in 0 .. SeqSpace - 1 /\ st.next_seq \in 0 .. SeqSpace - 1
    BY <1>1 DEF PacketType, StreamType
  <1>3. pad \in -HalfSeq .. HalfSeq - 1
    <2> HIDE DEF p
    <2>1. SeqSpace \in Nat
      BY HalfSeqAssumption DEF SeqSpace
    <2>2. U32(p.seq - st.next_seq) \in 0 .. SeqSpace - 1
      BY <1>2, <2>1, U32Type
    <2> QED BY <2>2, HalfSeqAssumption DEF I32, SeqSpace
  <1> HIDE DEF p, pad
  <1>4. CASE pad > MaxPad \/ pad < -MaxPad
    BY <1>2, <1>4 DEF PadToFirstPacket, p, pad, StreamType
  <1>5. CASE pad \in 0 .. MaxPad
    <2>1. PadToFirstPacket(st) = Deliver(st, p, pad)
      BY <1>5, MaxPadAssumption DEF PadToFirstPacket, p, pad
    <2> QED BY <2>1, <1>1, <1>5, DeliverType
  <1>6. CASE pad < 0 /\ -MaxPad <= pad
    <2>1. PadToFirstPacket(st) = Deliver(st, Trim(p, -pad), 0)
      BY <1>3, <1>6, MaxPadAssumption DEF PadToFirstPacket, p, pad
    <2>2. -pad \in 0 .. SeqSpace - 1
      BY <1>3, <1>6, HalfSeqAssumption DEF SeqSpace
    <2>3. Trim(p, -pad) \in PacketType
      BY <1>1, <2>2, TrimType
    <2>4. 0 \in 0 .. MaxPad
      BY MaxPadAssumption
    <2> QED BY <2>1, <2>3, <2>4, DeliverType
  <1> QED BY <1>3, <1>4, <1>5, <1>6, MaxPadAssumption

\* So does the establishment of the stream.
LEMMA EstablishedType ==
    ASSUME TypeOK, NEW p \in Packets
    PROVE  /\ FirstSeq(p) \in 0 .. SeqSpace - 1
           /\ Established(p) \in StreamType
  <1>1. p.seq \in 0 .. SeqSpace - 1 /\ p.data_len \in Int
    BY PacketsAssumption, HalfSeqAssumption
  <1>2. SeqSpace \in Nat /\ SeqSpace > 0
    BY HalfSeqAssumption DEF SeqSpace
  <1>3. FirstSeq(p) \in 0 .. SeqSpace - 1
    BY <1>1, <1>2, U32Type DEF FirstSeq
  <1>4. s \in StreamType
    BY DEF TypeOK, StreamType
  <1> DEFINE e == [kind |-> "est", at |-> FirstSeq(p), seq |-> p.seq,
                   len |-> p.data_len, pad |-> 0]
  <1>5. e \in EventType
    BY <1>1, <1>2, <1>3 DEF EventType
  <1> HIDE DEF e
  <1>6. Append(s.out, e) \in Seq(EventType)
    BY <1>4, <1>5, AppendFacts DEF StreamType
  <1> QED BY <1>3, <1>4, <1>6 DEF Established, e, StreamType, StreamStates

\* Every step keeps the types.
LEMMA TypeInductive == TypeOK /\ [Next]_vars => TypeOK'
  <1> SUFFICES ASSUME TypeOK, [Next]_vars PROVE TypeOK'
    OBVIOUS
  <1>0. s \in StreamType
    BY DEF TypeOK, StreamType
  <1>1. ASSUME NEW p \in Packets, ArriveEmpty(p) PROVE TypeOK'
    <2> DEFINE st == Established(p)
    <2>1. st \in StreamType /\ FirstSeq(p) \in 0 .. SeqSpace - 1
      BY EstablishedType
    <2>2. p.seq \in Int /\ p.data_len \in Int
      BY PacketsAssumption, HalfSeqAssumption DEF SeqSpace
    <2> HIDE DEF st
    <2>3. Callback(st, "retran", p, 0) \in Seq(EventType)
      BY <2>1, <2>2, CallbackType
    <2>4. s' \in StreamType
      BY <1>1, <2>1, <2>3 DEF ArriveEmpty, st, StreamType, StreamStates
    <2> QED BY <1>1, <2>1, <2>4, MaxPacketsAssumption
        DEF ArriveEmpty, Arrive, TypeOK, StreamType
  <1>2. ASSUME NEW p \in Packets, ArriveData(p) PROVE TypeOK'
    <2> DEFINE q == [seq |-> p.seq, data_len |-> p.data_len, window |-> p.window]
    <2>1. Established(p) \in StreamType /\ FirstSeq(p) \in 0 .. SeqSpace - 1
      BY EstablishedType
    <2>2. q \in PacketType
      BY PacketsAssumption DEF PacketType
    <2>3. PICK n \in 0 .. Len(s.queue) :
              s' = [Established(p) EXCEPT !.queue = AddAfter(s.queue, q, n)]
      BY <1>2 DEF ArriveData
    <2> HIDE DEF q
    <2>4. AddAfter(s.queue, q, n) \in Seq(PacketType)
      BY <1>0, <2>2, AddAfterFacts DEF StreamType
    <2>5. s' \in StreamType
      BY <2>1, <2>3, <2>4 DEF StreamType
    <2>6. ontime' \subseteq Int
      BY <1>2, PacketsAssumption, HalfSeqAssumption DEF ArriveData, TypeOK, Bytes, SeqSpace
    <2> QED BY <1>2, <2>1, <2>5, <2>6, MaxPacketsAssumption
        DEF ArriveData, Arrive, TypeOK, StreamType
  <1>3. CASE DrainRetransmission
    <2>1. Head(s.queue) \in PacketType /\ Tail(s.queue) \in Seq(PacketType)
      BY <1>0, <1>3, TailFacts DEF StreamType, DrainRetransmission
    <2>2. Head(s.queue).seq \in Int /\ Head(s.queue).data_len \in Int
      BY <2>1, HalfSeqAssumption DEF PacketType, SeqSpace
    <2>3. Callback(s, "retran", Head(s.queue), 0) \in Seq(EventType)
      BY <1>0, <2>2, CallbackType
    <2>4. s' \in StreamType
      BY <1>0, <1>3, <2>1, <2>3
      DEF DrainRetransmission, DropRetransmission, StreamType, StreamStates
    <2> QED BY <1>3, <2>4 DEF DrainRetransmission, TypeOK, StreamType
  <1>4. CASE DrainData
    <2> DEFINE n == s.next_seq - Head(s.queue).seq
    <2>1. Head(s.queue) \in PacketType /\ s.queue # <<>>
      BY <1>0, <1>4, TailFacts DEF StreamType, DrainData
    <2>2. n \in 0 .. SeqSpace - 1
      BY <1>0, <1>4, <2>1, HalfSeqAssumption
      DEF DrainData, HasData, StreamType, PacketType, SeqSpace
    <2>3. Trim(Head(s.queue), n) \in PacketType
      BY <2>1, <2>2, TrimType
    <2>4. 0 \in 0 .. MaxPad
      BY MaxPadAssumption
    <2>5. s' \in StreamType
      BY <1>0, <1>4, <2>1, <2>3, <2>4, DeliverType DEF DrainData, DeliverFirst
    <2> QED BY <1>4, <2>5 DEF DrainData, TypeOK, StreamType
  <1>5. CASE DrainBlocked \/ DrainEmpty \/ WindowDone \/ Flush
    BY <1>5 DEF DrainBlocked, DrainEmpty, WindowDone, Flush, TypeOK
  <1>6. CASE WindowPad
    <2>1. s' \in StreamType
      BY <1>0, <1>6, PadToFirstPacketType DEF WindowPad
    <2> QED BY <1>6, <2>1 DEF WindowPad, TypeOK, StreamType
  <1>7. CASE FlushPad
    <2>1. s' \in StreamType
      BY <1>0, <1>7, PadToFirstPacketType DEF FlushPad
    <2> QED BY <1>7, <2>1 DEF FlushPad, TypeOK, StreamType
  <1>8. CASE FlushDone
    BY <1>8 DEF FlushDone, TypeOK, StreamStates
  <1>9. CASE UNCHANGED vars
    BY <1>9 DEF vars, TypeOK
  <1> QED BY <1>1, <1>2, <1>3, <1>4, <1>5, <1>6, <1>7, <1>8, <1>9 DEF Next

\* The initial state is well typed.
LEMMA TypeInit == Init => TypeOK
  BY HalfSeqAssumption, MaxPacketsAssumption
  DEF Init, TypeOK, SeqSpace, StreamStates

(***************************************************************************)
(* The stream stays in its type for every capture and every sequence       *)
(* space, wrapping included: next_seq is always a 32 bit number and the    *)
(* queue a list of packets, whatever TCPStream_add and the flush do.       *)
(***************************************************************************)
THEOREM TypeCorrect == Spec => []TypeOK
  BY TypeInit, TypeInductive, PTL DEF Spec

-----------------------------------------------------------------------------
(* Delivery: nothing written twice, nothing on time lost.                   *)

(***************************************************************************)
(* A step that hands pad zeros and packet p to the callback in place of    *)
(* the first packet h keeps the invariant when p starts where the zeros    *)
(* end, reaches as far as h does, and the zeros end where h starts.        *)
(***************************************************************************)
DeliversFor(p, pad) ==
    /\ s' = Deliver(s, p, pad)
    /\ ontime' = ontime
    /\ p.seq = s.next_seq + pad
    /\ s.next_seq + pad + p.data_len < HalfSeq
    /\ Head(s.queue).seq + Head(s.queue).data_len <= s.next_seq + pad + p.data_len
    /\ pad > 0 => s.next_seq + pad = Head(s.queue).seq

(***************************************************************************)
(* What a step of the loops does to the reassembled stream: it moves       *)
(* next_seq forward and writes every position it passes, or passes more    *)
(* than MaxPad positions and writes none.                                  *)
(***************************************************************************)
Grows ==
    /\ s.next_seq <= s'.next_seq
    /\ \/ Written' = Written \cup (s.next_seq .. s'.next_seq - 1)
       \/ /\ Written' = Written
          /\ s'.next_seq = s.next_seq \/ s'.next_seq > s.next_seq + MaxPad

\* ... and to the log: what is added is no retransmission ahead of next_seq.
Logged ==
    \A k \in 1 .. Len(s'.out) : \/ k \in 1 .. Len(s.out) /\ s'.out[k] = s.out[k]
                                \/ BehindNext(s.out[k])'

\* Handing the first packet to the callback keeps the stream's invariant.
LEMMA DeliverStep ==
    ASSUME TypeOK, StreamInv, s.queue # <<>>, s.state # "NONE",
           NEW p \in PacketType, NEW pad \in 0 .. MaxPad,
           DeliversFor(p, pad)
    PROVE  /\ StreamInv'
           /\ s'.next_seq = s.next_seq + pad + p.data_len
           /\ s'.queue = Tail(s.queue)
           /\ Grows /\ Logged
  <1> DEFINE h == s.queue[1]
             e == [kind |-> "data", at |-> s.next_seq, seq |-> p.seq,
                   len |-> p.data_len + pad, pad |-> pad]
             m == Len(s.out) + 1
  <1>1. s.queue \in Seq(PacketType) /\ s.out \in Seq(EventType) /\ Len(s.out) \in Nat
    BY DEF TypeOK
  <1>2. s.next_seq \in Nat /\ p.seq \in Nat /\ p.data_len \in Nat /\ pad \in Nat
    BY HalfSeqAssumption, MaxPadAssumption DEF TypeOK, PacketType, SeqSpace
  <1>3. s'.next_seq = s.next_seq + pad + p.data_len
    <2>1. s'.next_seq = U32(s.next_seq + (p.data_len + pad))
      BY DEF DeliversFor, Deliver, TypeOK, PacketType
    <2>2. s.next_seq + pad + p.data_len < SeqSpace
      BY <1>2, HalfSeqAssumption DEF SeqSpace, DeliversFor
    <2> QED BY <1>2, <2>1, <2>2, U32Small
  <1>4. s'.out = Append(s.out, e) /\ s'.queue = Tail(s.queue) /\ s'.state = "DATA"
    BY DEF DeliversFor, Deliver, Callback, TypeOK, PacketType
  <1>5. e \in EventType
    BY <1>2 DEF EventType
  <1>6. /\ e.at = s.next_seq /\ e.pad = pad /\ e.seq = p.seq
        /\ e.len = p.data_len + pad /\ e.kind = "data"
    OBVIOUS
  <1> HIDE DEF e
  <1>7. /\ Len(s'.out) = m
        /\ \A k \in 1 .. Len(s.out) : s'.out[k] = s.out[k] /\ s.out[k] \in EventType
        /\ s'.out[m] = e
    BY <1>1, <1>4, <1>5, AppendFacts
  <1>8. /\ Len(s.queue) \in Nat \ {0}
        /\ Len(s'.queue) = Len(s.queue) - 1
        /\ \A k \in 1 .. Len(s.queue) - 1 : s'.queue[k] = s.queue[k + 1]
    BY <1>1, <1>4, TailFacts
  <1>9. ASSUME NEW k \in 1 .. Len(s.queue)
        PROVE  /\ s.queue[k].seq \in Nat /\ s.queue[k].data_len \in Nat
               /\ h.seq \in Nat /\ h.data_len \in Nat
               /\ h.seq <= s.queue[k].seq
    <2>1. s.queue[k] \in PacketType /\ h \in PacketType
      BY <1>1, <1>8
    <2>2. /\ s.queue[k].seq \in Nat /\ s.queue[k].data_len \in Nat
          /\ h.seq \in Nat /\ h.data_len \in Nat
      BY <2>1, HalfSeqAssumption DEF PacketType, SeqSpace
    <2>3. QueueSorted
      BY DEF StreamInv
    <2> QED BY <1>8, <2>2, <2>3 DEF QueueSorted
  <1>10. /\ h.seq + h.data_len <= s'.next_seq
         /\ pad > 0 => s.next_seq + pad = h.seq
    <2>1. Head(s.queue) = h
      BY <1>1, TailFacts
    <2> QED BY <1>3, <2>1 DEF DeliversFor
  <1>11. /\ s.next_seq <= s'.next_seq /\ s'.next_seq \in Nat
         /\ e.at + e.len = s'.next_seq /\ e.at + e.pad = e.seq
    BY <1>2, <1>3, <1>6 DEF DeliversFor
  <1> HIDE DEF h
  <1>12. /\ m \in DataEvents'
         /\ \A k \in DataEvents : k \in DataEvents' /\ k \in 1 .. Len(s.out)
         /\ \A k \in DataEvents' : k \in DataEvents \/ k = m
    BY <1>1, <1>6, <1>7 DEF DataEvents
  <1> HIDE DEF m
  <1>13. QueueSorted'
    <2> SUFFICES ASSUME NEW j \in 1 .. Len(s'.queue), NEW k \in 1 .. Len(s'.queue), j < k
                 PROVE  s'.queue[j].seq <= s'.queue[k].seq
      BY DEF QueueSorted
    <2>1. /\ j + 1 \in 1 .. Len(s.queue) /\ k + 1 \in 1 .. Len(s.queue) /\ j + 1 < k + 1
          /\ s'.queue[j] = s.queue[j + 1] /\ s'.queue[k] = s.queue[k + 1]
      BY <1>8
    <2> QED BY <2>1 DEF StreamInv, QueueSorted
  <1>14. QueueBounded'
    <2> SUFFICES ASSUME NEW k \in 1 .. Len(s'.queue)
                 PROVE  /\ s'.queue[k].data_len \in 1 .. MaxPad
                        /\ s'.queue[k].seq + s'.queue[k].data_len < HalfSeq
      BY DEF QueueBounded
    <2>1. k + 1 \in 1 .. Len(s.queue) /\ s'.queue[k] = s.queue[k + 1]
      BY <1>8
    <2> QED BY <2>1 DEF StreamInv, QueueBounded
  <1>15. WrittenBehind'
    <2> SUFFICES ASSUME NEW k \in DataEvents'
                 PROVE  s'.out[k].pad >= 0 /\ s'.out[k].at + s'.out[k].len <= s'.next_seq
      BY DEF WrittenBehind
    <2>1. CASE k \in DataEvents
      <3>1. s'.out[k] = s.out[k] /\ s.out[k].at \in Int /\ s.out[k].len \in Int
        BY <1>7, <1>12, <2>1 DEF EventType
      <3>2. s.out[k].pad >= 0 /\ s.out[k].at + s.out[k].len <= s.next_seq
        BY <2>1 DEF StreamInv, WrittenBehind
      <3> QED BY <1>2, <1>11, <3>1, <3>2
    <2>2. CASE k = m
      BY <1>2, <1>6, <1>7, <1>11, <2>2
    <2> QED BY <1>12, <2>1, <2>2
  <1>16. FavourOldPackets'
    <2>1. ASSUME NEW k \in DataEvents' PROVE s'.out[k].at + s'.out[k].pad = s'.out[k].seq
      <3>1. CASE k \in DataEvents
        BY <1>7, <1>12, <3>1 DEF StreamInv, FavourOldPackets
      <3>2. CASE k = m
        BY <1>7, <1>11, <3>2
      <3> QED BY <1>12, <3>1, <3>2
    <2>2. ASSUME NEW j \in DataEvents', NEW k \in DataEvents', j < k
          PROVE  s'.out[j].at + s'.out[j].len <= s'.out[k].at
      <3>1. j \in DataEvents
        BY <1>1, <1>7, <1>12, <2>2 DEF DataEvents, m
      <3>2. CASE k \in DataEvents
        BY <1>7, <1>12, <2>2, <3>1, <3>2 DEF StreamInv, FavourOldPackets
      <3>3. CASE k = m
        <4>1. s.out[j].at + s.out[j].len <= s.next_seq
          BY <3>1 DEF StreamInv, WrittenBehind
        <4> QED BY <1>6, <1>7, <1>12, <3>1, <3>3, <4>1
      <3> QED BY <1>12, <3>2, <3>3
    <2> QED BY <2>1, <2>2 DEF FavourOldPackets
  <1>17. OnTimeBytesKept'
    <2> SUFFICES ASSUME NEW b \in ontime
                 PROVE  IF b < s'.next_seq THEN IsDelivered(b)' ELSE IsQueued(b)'
      BY DEF OnTimeBytesKept, DeliversFor
    <2>0. b \in Int
      BY DEF TypeOK
    <2>1. CASE b < s.next_seq
      <3>1. b < s'.next_seq
        BY <1>2, <1>11, <2>0, <2>1
      <3>2. PICK k \in DataEvents : b \in Payload(s.out[k])
        BY <2>1 DEF StreamInv, OnTimeBytesKept, IsDelivered
      <3>3. k \in DataEvents' /\ s'.out[k] = s.out[k]
        BY <1>7, <1>12
      <3> QED BY <3>1, <3>2, <3>3 DEF IsDelivered, Payload
    <2>2. CASE ~(b < s.next_seq)
      <3>1. PICK k \in 1 .. Len(s.queue) : b \in Bytes(s.queue[k])
        BY <2>2 DEF StreamInv, OnTimeBytesKept, IsQueued
      <3>2. /\ s.queue[k].seq \in Nat /\ s.queue[k].data_len \in Nat
            /\ h.seq \in Nat /\ h.data_len \in Nat
            /\ h.seq <= s.queue[k].seq
        BY <1>9
      <3>3. s.queue[k].seq <= b /\ b <= s.queue[k].seq + s.queue[k].data_len - 1
        BY <3>1, <3>2 DEF Bytes
      <3>4. CASE b < s'.next_seq
        <4>1. s.next_seq + pad <= b
          BY <1>2, <1>10, <2>0, <2>2, <3>2, <3>3
        <4>2. b \in Payload(e)
          BY <1>2, <1>6, <1>11, <2>0, <3>4, <4>1 DEF Payload
        <4>3. b \in Payload(s'.out[m])
          BY <1>7, <4>2
        <4> QED BY <1>12, <3>4, <4>3 DEF IsDelivered, Payload
      <3>5. CASE ~(b < s'.next_seq)
        <4>1. k # 1
          BY <1>10, <1>11, <2>0, <3>2, <3>3, <3>5 DEF h
        <4>2. k - 1 \in 1 .. Len(s'.queue) /\ s'.queue[k - 1] = s.queue[k]
          BY <1>8, <4>1
        <4> QED BY <3>1, <3>5, <4>2 DEF IsQueued, Bytes
      <3> QED BY <3>4, <3>5
    <2> QED BY <2>1, <2>2
  <1>18. s'.next_seq < HalfSeq /\ Fresh'
    BY <1>3, <1>4 DEF Fresh, DeliversFor
  <1>19. Grows
    <2> DEFINE Span(f) == f.at .. f.at + f.len - 1
    <2>1. Span(e) = s.next_seq .. s'.next_seq - 1
      BY <1>2, <1>6, <1>11
    <2>2. \A k \in DataEvents : Span(s'.out[k]) = Span(s.out[k])
      BY <1>7, <1>12
    <2>3. Span(s'.out[m]) = Span(e)
      BY <1>7
    <2>4. /\ \A b : b \in Written <=> \E k \in DataEvents : b \in Span(s.out[k])
          /\ \A b : b \in Written' <=> \E k \in DataEvents' : b \in Span(s'.out[k])
      BY DEF Written
    <2> HIDE DEF Span
    <2>5. ASSUME NEW b
          PROVE  b \in Written' <=> b \in Written \/ b \in s.next_seq .. s'.next_seq - 1
      <3>1. b \in Written' => b \in Written \/ b \in Span(e)
        BY <1>12, <2>2, <2>3, <2>4
      <3>2. b \in Written \/ b \in Span(e) => b \in Written'
        BY <1>12, <2>2, <2>3, <2>4
      <3> QED BY <2>1, <3>1, <3>2
    <2>6. Written' = Written \cup (s.next_seq .. s'.next_seq - 1)
      BY <2>5
    <2> QED BY <1>11, <2>6 DEF Grows
  <1>20. Logged
    <2> SUFFICES ASSUME NEW k \in 1 .. Len(s'.out),
                        ~(k \in 1 .. Len(s.out) /\ s'.out[k] = s.out[k])
                 PROVE  BehindNext(s.out[k])'
      BY DEF Logged
    <2>1. k = m
      BY <1>1, <1>7 DEF m
    <2>2. s'.out[k].kind = "data"
      BY <1>6, <1>7, <2>1
    <2> QED BY <2>2 DEF BehindNext
  <1> QED BY <1>3, <1>4, <1>13, <1>14, <1>15, <1>16, <1>17, <1>18, <1>19, <1>20
      DEF StreamInv

\* A callback that is not "data" adds nothing to the reassembled stream.
LEMMA QuietCallback ==
    ASSUME TypeOK, NEW e \in EventType, e.kind # "data",
           s'.out = Append(s.out, e)
    PROVE  /\ DataEvents' = DataEvents
           /\ \A k \in DataEvents : s'.out[k] = s.out[k]
           /\ \A b : IsDelivered(b)' <=> IsDelivered(b)
           /\ Written' = Written
  <1>1. s.out \in Seq(EventType) /\ Len(s.out) \in Nat
    BY DEF TypeOK
  <1>2. /\ Len(s'.out) = Len(s.out) + 1
        /\ \A k \in 1 .. Len(s.out) : s'.out[k] = s.out[k]
        /\ s'.out[Len(s.out) + 1] = e
    BY <1>1, AppendFacts
  <1>3. \A k : k \in DataEvents' <=> k \in DataEvents
    BY <1>1, <1>2 DEF DataEvents
  <1>4. \A k \in DataEvents : s'.out[k] = s.out[k]
    BY <1>2 DEF DataEvents
  <1>5. \A b : IsDelivered(b)' <=> IsDelivered(b)
    BY <1>3, <1>4 DEF IsDelivered, Payload
  <1>6. DataEvents' = DataEvents
    BY <1>3
  <1>7. Written' = Written
    <2> DEFINE Span(f) == f.at .. f.at + f.len - 1
    <2>1. /\ \A b : b \in Written <=> \E k \in DataEvents : b \in Span(s.out[k])
          /\ \A b : b \in Written' <=> \E k \in DataEvents' : b \in Span(s'.out[k])
      BY DEF Written
    <2>2. \A k \in DataEvents : Span(s'.out[k]) = Span(s.out[k])
      BY <1>4
    <2> HIDE DEF Span
    <2>3. \A b : b \in Written' <=> b \in Written
      BY <1>6, <2>1, <2>2
    <2> QED BY <2>3
  <1> QED BY <1>4, <1>5, <1>6, <1>7

\* Sequence numbers and lengths in the queue are natural numbers.
LEMMA QueueNumbers ==
    ASSUME TypeOK, NEW k \in 1 .. Len(s.queue)
    PROVE  s.queue[k].seq \in Nat /\ s.queue[k].data_len \in Nat
  <1>1. s.queue[k] \in PacketType
    BY DEF TypeOK
  <1> QED BY <1>1, HalfSeqAssumption DEF PacketType, SeqSpace

\* Dropping a first packet that lies entirely behind next_seq.
LEMMA DropStep ==
    ASSUME TypeOK, StreamInv, s.queue # <<>>, SeenBefore(s),
           s' = DropRetransmission(s), ontime' = ontime
    PROVE  StreamInv' /\ Grows /\ Logged
  <1> DEFINE h == s.queue[1]
             e == [kind |-> "retran", at |-> s.next_seq, seq |-> h.seq,
                   len |-> h.data_len, pad |-> 0]
  <1>1. s.queue \in Seq(PacketType) /\ s.next_seq \in Nat /\ h = Head(s.queue)
    BY TailFacts, HalfSeqAssumption DEF TypeOK, SeqSpace
  <1>2. /\ Len(s.queue) \in Nat \ {0}
        /\ s'.queue = Tail(s.queue) /\ s'.next_seq = s.next_seq
        /\ s'.state = "RETRANSMISSION"
        /\ Len(s'.queue) = Len(s.queue) - 1
        /\ \A k \in 1 .. Len(s.queue) - 1 : s'.queue[k] = s.queue[k + 1]
    BY <1>1, TailFacts DEF DropRetransmission, TypeOK
  <1>3. h.seq \in Nat /\ h.data_len \in Nat
    BY <1>2, QueueNumbers
  <1>4. h.seq + h.data_len <= s.next_seq
    <2>1. h.seq + h.data_len < SeqSpace
      BY <1>2, <1>3, HalfSeqAssumption DEF StreamInv, QueueBounded, SeqSpace
    <2>2. U32(h.seq + h.data_len) = h.seq + h.data_len
      BY <1>3, <2>1, U32Small
    <2> QED BY <1>1, <2>2 DEF SeenBefore
  <1>5. s'.out = Append(s.out, e) /\ e.kind # "data" /\ e \in EventType
    BY <1>1, <1>3 DEF DropRetransmission, Callback, TypeOK, EventType
  <1>12. Logged
    <2>1. s.out \in Seq(EventType) /\ Len(s.out) \in Nat
      BY DEF TypeOK
    <2>2. /\ Len(s'.out) = Len(s.out) + 1
          /\ \A k \in 1 .. Len(s.out) : s'.out[k] = s.out[k]
          /\ s'.out[Len(s.out) + 1] = e
      BY <1>5, <2>1, AppendFacts
    <2>3. e.seq = h.seq /\ e.len = h.data_len
      OBVIOUS
    <2> HIDE DEF e, h
    <2> SUFFICES ASSUME NEW k \in 1 .. Len(s'.out),
                        ~(k \in 1 .. Len(s.out) /\ s'.out[k] = s.out[k])
                 PROVE  BehindNext(s.out[k])'
      BY DEF Logged
    <2>4. s'.out[k] = e
      BY <2>1, <2>2
    <2> QED BY <1>1, <1>2, <1>3, <1>4, <2>3, <2>4 DEF BehindNext
  <1> HIDE DEF e, h
  <1>6. /\ DataEvents' = DataEvents
        /\ \A k \in DataEvents : s'.out[k] = s.out[k]
        /\ \A b : IsDelivered(b)' <=> IsDelivered(b)
        /\ Written' = Written
    BY <1>5, QuietCallback
  <1>7. QueueSorted'
    <2> SUFFICES ASSUME NEW j \in 1 .. Len(s'.queue), NEW k \in 1 .. Len(s'.queue), j < k
                 PROVE  s'.queue[j].seq <= s'.queue[k].seq
      BY DEF QueueSorted
    <2>1. /\ j + 1 \in 1 .. Len(s.queue) /\ k + 1 \in 1 .. Len(s.queue) /\ j + 1 < k + 1
          /\ s'.queue[j] = s.queue[j + 1] /\ s'.queue[k] = s.queue[k + 1]
      BY <1>2
    <2> QED BY <2>1 DEF StreamInv, QueueSorted
  <1>8. QueueBounded'
    <2> SUFFICES ASSUME NEW k \in 1 .. Len(s'.queue)
                 PROVE  /\ s'.queue[k].data_len \in 1 .. MaxPad
                        /\ s'.queue[k].seq + s'.queue[k].data_len < HalfSeq
      BY DEF QueueBounded
    <2>1. k + 1 \in 1 .. Len(s.queue) /\ s'.queue[k] = s.queue[k + 1]
      BY <1>2
    <2> QED BY <2>1 DEF StreamInv, QueueBounded
  <1>9. WrittenBehind' /\ FavourOldPackets'
    BY <1>2, <1>6 DEF StreamInv, WrittenBehind, FavourOldPackets
  <1>10. OnTimeBytesKept'
    <2> SUFFICES ASSUME NEW b \in ontime
                 PROVE  IF b < s.next_seq THEN IsDelivered(b)' ELSE IsQueued(b)'
      BY <1>2 DEF OnTimeBytesKept
    <2>0. b \in Int
      BY DEF TypeOK
    <2>1. CASE b < s.next_seq
      BY <1>6, <2>1 DEF StreamInv, OnTimeBytesKept
    <2>2. CASE ~(b < s.next_seq)
      <3>1. PICK k \in 1 .. Len(s.queue) : b \in Bytes(s.queue[k])
        BY <2>2 DEF StreamInv, OnTimeBytesKept, IsQueued
      <3>2. k # 1
        BY <1>1, <1>3, <1>4, <2>0, <2>2, <3>1 DEF Bytes, h
      <3>3. k - 1 \in 1 .. Len(s'.queue) /\ s'.queue[k - 1] = s.queue[k]
        BY <1>2, <3>2
      <3> QED BY <2>2, <3>1, <3>3 DEF IsQueued, Bytes
    <2> QED BY <2>1, <2>2
  <1>11. s'.next_seq < HalfSeq /\ Fresh'
    BY <1>2 DEF StreamInv, Fresh
  <1>13. Grows
    BY <1>1, <1>2, <1>6 DEF Grows
  <1> QED BY <1>7, <1>8, <1>9, <1>10, <1>11, <1>12, <1>13 DEF StreamInv

(***************************************************************************)
(* pad_to_first_packet, when the queue is at most MaxPad behind next_seq.  *)
(***************************************************************************)
QueueLag(n) == \A k \in 1 .. Len(s.queue) : n <= s.queue[k].seq + MaxPad

\* pad_to_first_packet keeps the stream's invariant.
LEMMA PadStep ==
    ASSUME TypeOK, StreamInv, s.queue # <<>>,
           QueueLag(s.next_seq),
           s' = PadToFirstPacket(s), ontime' = ontime
    PROVE  /\ StreamInv'
           /\ \A k \in 1 .. Len(s'.queue) : s'.next_seq <= s'.queue[k].seq + MaxPad
           /\ Grows /\ Logged
  <1> DEFINE h   == s.queue[1]
             pad == h.seq - s.next_seq
  <1>1. /\ s.queue \in Seq(PacketType) /\ s.next_seq \in Nat /\ s.next_seq < HalfSeq
        /\ h = Head(s.queue) /\ Len(s.queue) \in Nat \ {0}
    BY TailFacts, HalfSeqAssumption DEF TypeOK, StreamInv, SeqSpace
  <1>2. h \in PacketType /\ h.seq \in Nat /\ h.data_len \in Nat
    BY <1>1, QueueNumbers
  <1>3. h.data_len \in 1 .. MaxPad /\ h.seq + h.data_len < HalfSeq
    BY <1>1 DEF StreamInv, QueueBounded
  <1>4. s.next_seq <= h.seq + MaxPad
    BY <1>1 DEF QueueLag
  <1>5. s.state # "NONE"
    BY DEF StreamInv, Fresh
  <1>6. \A k \in 1 .. Len(s.queue) : h.seq <= s.queue[k].seq
    BY <1>1, <1>2 DEF StreamInv, QueueSorted
  <1>7. I32(Head(s.queue).seq - s.next_seq) = pad /\ pad \in Int
    BY <1>1, <1>2, <1>3, HalfSeqAssumption, I32Small
  <1>8. ASSUME NEW x \in Nat, x <= h.seq + MaxPad, s'.next_seq = x,
               s'.queue = Tail(s.queue)
        PROVE  \A k \in 1 .. Len(s'.queue) : s'.next_seq <= s'.queue[k].seq + MaxPad
    <2> SUFFICES ASSUME NEW k \in 1 .. Len(s'.queue)
                 PROVE  x <= s'.queue[k].seq + MaxPad
      BY <1>8
    <2>1. k + 1 \in 1 .. Len(s.queue) /\ s'.queue[k] = s.queue[k + 1]
      BY <1>1, <1>8, TailFacts
    <2>2. s.queue[k + 1].seq \in Nat /\ h.seq <= s.queue[k + 1].seq
      BY <1>6, <2>1, QueueNumbers
    <2> QED BY <1>2, <1>8, <2>1, <2>2, MaxPadAssumption
  <1> HIDE DEF h, pad
  <1>9. CASE pad > MaxPad
    <2>1. s' = [s EXCEPT !.next_seq = Head(s.queue).seq]
      BY <1>7, <1>9 DEF PadToFirstPacket
    <2>2. s'.next_seq = h.seq /\ s'.queue = s.queue /\ s'.out = s.out /\ s'.state = s.state
      BY <1>1, <2>1 DEF TypeOK
    <2>3. s.next_seq < h.seq
      BY <1>1, <1>2, <1>9, MaxPadAssumption DEF pad
    <2>4. DataEvents' = DataEvents
      BY <2>2 DEF DataEvents
    <2>5. QueueSorted' /\ QueueBounded' /\ FavourOldPackets' /\ Fresh'
      BY <2>2, <2>4 DEF StreamInv, QueueSorted, QueueBounded, FavourOldPackets, Fresh
    <2>6. WrittenBehind'
      <3> SUFFICES ASSUME NEW k \in DataEvents
                   PROVE  s.out[k].pad >= 0 /\ s.out[k].at + s.out[k].len <= h.seq
        BY <2>2, <2>4 DEF WrittenBehind
      <3>1. s.out[k] \in EventType
        BY DEF DataEvents, TypeOK
      <3>2. s.out[k].at \in Int /\ s.out[k].len \in Int
        BY <3>1 DEF EventType
      <3>3. s.out[k].pad >= 0 /\ s.out[k].at + s.out[k].len <= s.next_seq
        BY DEF StreamInv, WrittenBehind
      <3> QED BY <1>1, <1>2, <2>3, <3>2, <3>3
    <2>7. OnTimeBytesKept'
      <3> SUFFICES ASSUME NEW b \in ontime
                   PROVE  IF b < h.seq THEN IsDelivered(b) ELSE IsQueued(b)
        BY <2>2, <2>4 DEF OnTimeBytesKept, IsDelivered, IsQueued
      <3>0. b \in Int
        BY DEF TypeOK
      <3>1. CASE b < s.next_seq
        BY <1>1, <1>2, <2>3, <3>0, <3>1 DEF StreamInv, OnTimeBytesKept
      <3>2. CASE ~(b < s.next_seq)
        <4>1. PICK k \in 1 .. Len(s.queue) : b \in Bytes(s.queue[k])
          BY <3>2 DEF StreamInv, OnTimeBytesKept, IsQueued
        <4>2. s.queue[k].seq \in Nat /\ s.queue[k].data_len \in Nat
          BY QueueNumbers
        <4>3. h.seq <= b
          BY <1>2, <1>6, <3>0, <4>1, <4>2 DEF Bytes
        <4> QED BY <1>2, <3>0, <4>1, <4>3 DEF IsQueued
      <3> QED BY <3>1, <3>2
    <2>8. s'.next_seq < HalfSeq
      BY <1>2, <1>3, <2>2, HalfSeqAssumption, MaxPadAssumption
    <2>9. \A k \in 1 .. Len(s'.queue) : s'.next_seq <= s'.queue[k].seq + MaxPad
      <3> SUFFICES ASSUME NEW k \in 1 .. Len(s.queue)
                   PROVE  h.seq <= s.queue[k].seq + MaxPad
        BY <2>2
      <3>1. s.queue[k].seq \in Nat
        BY QueueNumbers
      <3> QED BY <1>2, <1>6, <3>1, MaxPadAssumption
    <2>10. Grows
      <3>1. Written' = Written
        BY <2>2, <2>4 DEF Written
      <3>2. s'.next_seq > s.next_seq + MaxPad /\ s.next_seq <= s'.next_seq
        BY <1>1, <1>2, <1>9, <2>2, <2>3, MaxPadAssumption DEF pad
      <3> QED BY <3>1, <3>2 DEF Grows
    <2>11. Logged
      BY <2>2 DEF Logged
    <2> QED BY <2>5, <2>6, <2>7, <2>8, <2>9, <2>10, <2>11 DEF StreamInv
  <1>10. CASE pad \in 0 .. MaxPad
    <2>1. s' = Deliver(s, h, pad)
      BY <1>1, <1>7, <1>10, MaxPadAssumption DEF PadToFirstPacket
    <2>2. DeliversFor(h, pad)
      BY <1>1, <1>2, <1>3, <2>1 DEF DeliversFor, pad
    <2>3. /\ StreamInv' /\ s'.queue = Tail(s.queue) /\ Grows /\ Logged
          /\ s'.next_seq = s.next_seq + pad + h.data_len
      BY <1>2, <1>5, <1>10, <2>2, DeliverStep
    <2>4. /\ s.next_seq + pad + h.data_len \in Nat
          /\ s.next_seq + pad + h.data_len <= h.seq + MaxPad
      BY <1>1, <1>2, <1>3, MaxPadAssumption DEF pad
    <2> QED BY <1>8, <2>3, <2>4
  <1>11. CASE pad < 0
    <2> DEFINE p == Trim(h, -pad)
    <2>1. s' = Deliver(s, p, 0)
      BY <1>1, <1>2, <1>4, <1>7, <1>11, MaxPadAssumption DEF PadToFirstPacket, pad
    <2>2. -pad \in 0 .. SeqSpace - 1
      BY <1>1, <1>2, <1>7, <1>11, HalfSeqAssumption DEF pad, SeqSpace
    <2>3. p \in PacketType
      BY <1>2, <2>2, TrimType
    <2>4. /\ p.seq = s.next_seq
          /\ p.data_len = IF h.data_len > -pad THEN h.data_len + pad ELSE 0
      <3>1. h.seq + (-pad) = s.next_seq
        BY <1>1, <1>2 DEF pad
      <3>2. U32(h.seq + (-pad)) = s.next_seq
        BY <1>1, <3>1, HalfSeqAssumption, U32Small DEF SeqSpace
      <3>3. p.seq = U32(h.seq + (-pad))
        BY <1>2 DEF Trim, PacketType
      <3>4. p.data_len = IF h.data_len > -pad THEN h.data_len - (-pad) ELSE 0
        BY <1>2 DEF Trim, PacketType
      <3> QED BY <1>2, <1>7, <3>2, <3>3, <3>4
    <2> HIDE DEF p
    <2>5. DeliversFor(p, 0)
      BY <1>1, <1>2, <1>3, <2>1, <2>4 DEF DeliversFor, pad
    <2>6. 0 \in 0 .. MaxPad
      BY MaxPadAssumption
    <2>7. /\ StreamInv' /\ s'.queue = Tail(s.queue) /\ Grows /\ Logged
          /\ s'.next_seq = s.next_seq + 0 + p.data_len
      BY <1>5, <2>3, <2>5, <2>6, DeliverStep
    <2>8. /\ s.next_seq + 0 + p.data_len \in Nat
          /\ s.next_seq + 0 + p.data_len <= h.seq + MaxPad
      <3>1. CASE h.data_len > -pad
        <4>1. p.data_len = h.data_len + pad
          BY <2>4, <3>1
        <4>2. s.next_seq + 0 + p.data_len = h.seq + h.data_len
          BY <1>1, <1>2, <4>1 DEF pad
        <4>3. h.data_len <= MaxPad
          BY <1>3
        <4> QED BY <1>2, <4>2, <4>3, MaxPadAssumption
      <3>2. CASE ~(h.data_len > -pad)
        <4>1. p.data_len = 0
          BY <2>4, <3>2
        <4> QED BY <1>1, <1>4, <4>1
      <3> QED BY <3>1, <3>2
    <2> QED BY <1>8, <2>7, <2>8
  <1> QED BY <1>7, <1>9, <1>10, <1>11, MaxPadAssumption

\* What the first packet of a stream, and any other packet, does before it
\* is queued.
LEMMA EstablishedFacts ==
    ASSUME TypeOK, StreamInv, NoWrap, NEW p \in Packets
    PROVE  /\ Established(p) \in StreamType
           /\ Established(p).queue = s.queue
           /\ Established(p).state # "NONE"
           /\ Established(p).next_seq \in Nat /\ Established(p).next_seq < HalfSeq
           /\ ontime # {} => Established(p).next_seq = s.next_seq
           /\ \/ Established(p).out = s.out /\ Established(p).next_seq = s.next_seq
              \/ /\ s.out = <<>> /\ s.queue = <<>> /\ ontime = {}
                 /\ \E e \in EventType : /\ e.kind = "est"
                                         /\ Established(p).out = Append(s.out, e)
  <1>1. p.seq \in Nat /\ p.data_len \in Nat /\ p.seq + p.data_len + 1 < HalfSeq
    BY PacketsAssumption, HalfSeqAssumption DEF NoWrap, SeqSpace
  <1>2. FirstSeq(p) \in Nat /\ FirstSeq(p) < HalfSeq
    <2>1. U32(p.seq + 1) = p.seq + 1
      BY <1>1, HalfSeqAssumption, U32Small DEF SeqSpace
    <2> QED BY <1>1, <2>1, HalfSeqAssumption DEF FirstSeq
  <1>3. s.next_seq \in Nat /\ s.next_seq < HalfSeq
    BY HalfSeqAssumption DEF TypeOK, StreamInv, SeqSpace
  <1>4. CASE s.state # "NONE"
    BY <1>3, <1>4, EstablishedType DEF Established
  <1>5. CASE s.state = "NONE"
    <2> DEFINE e == [kind |-> "est", at |-> FirstSeq(p), seq |-> p.seq,
                     len |-> p.data_len, pad |-> 0]
    <2>1. e \in EventType /\ e.kind = "est"
      BY <1>1, <1>2 DEF EventType
    <2>2. /\ Established(p).out = Append(s.out, e)
          /\ Established(p).queue = s.queue
          /\ Established(p).state = "DATA"
          /\ Established(p).next_seq = FirstSeq(p)
      BY <1>5 DEF Established, TypeOK
    <2>3. s.out = <<>> /\ s.queue = <<>> /\ ontime = {}
      BY <1>5 DEF StreamInv, Fresh
    <2> QED BY <1>2, <2>1, <2>2, <2>3, EstablishedType
  <1> QED BY <1>4, <1>5

(***************************************************************************)
(* The packet is announced but not yet queued: the log keeps its data      *)
(* callbacks and everything written stays behind next_seq.                 *)
(***************************************************************************)
LEMMA AnnouncedLog ==
    ASSUME TypeOK, StreamInv, NoWrap, NEW p \in Packets,
           s'.next_seq = Established(p).next_seq,
           \/ s'.out = Established(p).out
           \/ \E e \in EventType : /\ e.kind = "retran"
                                   /\ s'.out = Append(Established(p).out, e)
    PROVE  /\ WrittenBehind' /\ FavourOldPackets' /\ Written' = Written
           /\ \A b \in ontime : IsDelivered(b) => IsDelivered(b)'
  <1> DEFINE st == Established(p)
  <1>0. st.out \in Seq(EventType) /\ s.out \in Seq(EventType)
    BY EstablishedType DEF StreamType, TypeOK
  <1>1. CASE st.out = s.out /\ st.next_seq = s.next_seq
    <2>1. CASE s'.out = st.out
      <3>1. DataEvents' = DataEvents /\ s'.out = s.out /\ s'.next_seq = s.next_seq
        BY <1>1, <2>1 DEF DataEvents
      <3> QED BY <3>1 DEF StreamInv, WrittenBehind, FavourOldPackets, IsDelivered, Written
    <2>2. CASE s'.out # st.out
      <3>1. PICK e \in EventType : e.kind = "retran" /\ s'.out = Append(s.out, e)
        BY <1>1, <2>2
      <3>2. e.kind # "data"
        BY <3>1
      <3>3. /\ DataEvents' = DataEvents
            /\ \A k \in DataEvents : s'.out[k] = s.out[k]
            /\ \A b : IsDelivered(b)' <=> IsDelivered(b)
            /\ Written' = Written
        BY <3>1, <3>2, QuietCallback
      <3>4. s'.next_seq = s.next_seq
        BY <1>1
      <3> QED BY <3>3, <3>4 DEF StreamInv, WrittenBehind, FavourOldPackets
    <2> QED BY <2>1, <2>2
  <1>2. CASE ~(st.out = s.out /\ st.next_seq = s.next_seq)
    <2>1. /\ s.out = <<>> /\ ontime = {}
          /\ \E e \in EventType : e.kind = "est" /\ st.out = Append(s.out, e)
      BY <1>2, EstablishedFacts
    <2>2. PICK e \in EventType : e.kind = "est" /\ st.out = Append(s.out, e)
      BY <2>1
    <2>3. Len(st.out) = 1 /\ st.out[1].kind = "est"
      BY <2>1, <2>2, AppendFacts
    <2>4. DataEvents' = {}
      <3>1. CASE s'.out = st.out
        BY <2>3, <3>1 DEF DataEvents
      <3>2. CASE s'.out # st.out
        <4>1. PICK f \in EventType : f.kind = "retran" /\ s'.out = Append(st.out, f)
          BY <3>2
        <4>2. Len(s'.out) = 2 /\ s'.out[1] = st.out[1] /\ s'.out[2] = f
          BY <1>0, <2>3, <4>1, AppendFacts
        <4> QED BY <2>3, <4>1, <4>2 DEF DataEvents
      <3> QED BY <3>1, <3>2
    <2>5. Written' = Written
      <3>1. DataEvents = {}
        BY <2>1 DEF DataEvents
      <3> QED BY <2>4, <3>1 DEF Written
    <2> QED BY <2>1, <2>4, <2>5 DEF WrittenBehind, FavourOldPackets
  <1> QED BY <1>1, <1>2

\* A packet without data keeps the stream's invariant.
LEMMA ArriveEmptyStep ==
    ASSUME IInv, NoWrap, NEW p \in Packets, ArriveEmpty(p)
    PROVE  StreamInv' /\ QueueClose'
  <1> USE DEF IInv
  <1> DEFINE st == Established(p)
             e  == [kind |-> "retran", at |-> st.next_seq, seq |-> p.seq,
                    len |-> p.data_len, pad |-> 0]
  <1>1. st \in StreamType /\ st.queue = s.queue /\ st.state # "NONE"
        /\ st.next_seq \in Nat /\ st.next_seq < HalfSeq
        /\ (ontime # {} => st.next_seq = s.next_seq)
        /\ (st.next_seq = s.next_seq \/ s.queue = <<>>)
    BY EstablishedFacts
  <1>2. s'.next_seq = st.next_seq /\ s'.queue = s.queue
        /\ s'.state = "RETRANSMISSION" /\ s'.out = Append(st.out, e)
        /\ pc' = pc /\ ontime' = ontime
    BY <1>1 DEF ArriveEmpty, Callback, StreamType
  <1>3. e \in EventType /\ e.kind = "retran"
    BY <1>1, PacketsAssumption, HalfSeqAssumption DEF EventType, SeqSpace
  <1> HIDE DEF e
  <1>4. /\ WrittenBehind' /\ FavourOldPackets'
        /\ \A b \in ontime : IsDelivered(b) => IsDelivered(b)'
    BY <1>2, <1>3, AnnouncedLog
  <1> HIDE DEF st
  <1>5. QueueSorted' /\ QueueBounded' /\ Fresh' /\ s'.next_seq < HalfSeq
    BY <1>1, <1>2 DEF StreamInv, QueueSorted, QueueBounded, Fresh
  <1>6. OnTimeBytesKept'
    <2> SUFFICES ASSUME NEW b \in ontime
                 PROVE  IF b < s'.next_seq THEN IsDelivered(b)' ELSE IsQueued(b)'
      BY <1>2 DEF OnTimeBytesKept
    <2>1. s'.next_seq = s.next_seq
      BY <1>1, <1>2
    <2>2. IsQueued(b)' <=> IsQueued(b)
      BY <1>2 DEF IsQueued
    <2> QED BY <1>4, <2>1, <2>2 DEF StreamInv, OnTimeBytesKept
  <1>7. QueueClose'
    BY <1>1, <1>2 DEF QueueClose
  <1> QED BY <1>4, <1>5, <1>6, <1>7 DEF StreamInv

\* Queueing a packet keeps the stream's invariant.
LEMMA ArriveDataStep ==
    ASSUME IInv, NoWrap, ShortSegments, NEW p \in Packets, ArriveData(p)
    PROVE  StreamInv' /\ QueueClose'
  <1> USE DEF IInv
  <1> DEFINE st == Established(p)
             q  == [seq |-> p.seq, data_len |-> p.data_len, window |-> p.window]
  <1>1. st \in StreamType /\ st.queue = s.queue /\ st.state # "NONE"
        /\ st.next_seq \in Nat /\ st.next_seq < HalfSeq
        /\ (ontime # {} => st.next_seq = s.next_seq)
    BY EstablishedFacts
  <1>2. PICK n \in 0 .. Len(s.queue) :
            /\ IsCandidate(s.queue, p, n)
            /\ s' = [st EXCEPT !.queue = AddAfter(s.queue, q, n)]
    BY DEF ArriveData
  <1>3. s'.next_seq = st.next_seq /\ s'.queue = AddAfter(s.queue, q, n)
        /\ s'.state = st.state /\ s'.out = st.out
    BY <1>1, <1>2 DEF StreamType
  <1>4. /\ q \in PacketType /\ q.seq = p.seq /\ q.data_len = p.data_len
        /\ p.seq \in Nat /\ p.data_len \in 1 .. MaxPad
        /\ p.seq + p.data_len < HalfSeq
    <2>1. q \in PacketType /\ p.seq \in Nat /\ p.data_len \in Nat
      BY PacketsAssumption, HalfSeqAssumption DEF PacketType, SeqSpace
    <2>2. p.data_len > 0 /\ p.data_len <= MaxPad /\ p.seq + p.data_len + 1 < HalfSeq
      BY DEF ArriveData, NoWrap, ShortSegments
    <2> QED BY <2>1, <2>2, HalfSeqAssumption, MaxPadAssumption
  <1> HIDE DEF q
  <1>5. /\ Len(s'.queue) = Len(s.queue) + 1 /\ Len(s.queue) \in Nat
        /\ \A k \in 1 .. n : s'.queue[k] = s.queue[k]
        /\ s'.queue[n + 1] = q
        /\ \A k \in n + 2 .. Len(s.queue) + 1 : s'.queue[k] = s.queue[k - 1]
    <2>1. s.queue \in Seq(PacketType)
      BY DEF TypeOK
    <2>2. q \in PacketType /\ n \in 0 .. Len(s.queue) /\ Len(s.queue) \in Nat
      BY <1>4, <2>1
    <2> DEFINE r == AddAfter(s.queue, q, n)
    <2>3. Len(r) = Len(s.queue) + 1
      BY <2>1, <2>2, AddAfterFacts
    <2>5. ASSUME NEW k \in 1 .. n PROVE r[k] = s.queue[k]
      BY <2>1, <2>2, AddAfterFacts
    <2>6. r[n + 1] = q
      BY <2>1, <2>2, AddAfterFacts
    <2>7. ASSUME NEW k \in n + 2 .. Len(s.queue) + 1 PROVE r[k] = s.queue[k - 1]
      BY <2>1, <2>2, AddAfterFacts
    <2>4. s'.queue = r
      BY <1>3
    <2> HIDE DEF r
    <2> QED BY <2>2, <2>3, <2>4, <2>5, <2>6, <2>7
  <1>6. /\ WrittenBehind' /\ FavourOldPackets'
        /\ \A b \in ontime : IsDelivered(b) => IsDelivered(b)'
    BY <1>3, AnnouncedLog
  <1> HIDE DEF st
  <1>7. \A k \in 1 .. Len(s.queue) :
            s'.queue[IF k <= n THEN k ELSE k + 1] = s.queue[k]
    <2> SUFFICES ASSUME NEW k \in 1 .. Len(s.queue)
                 PROVE  s'.queue[IF k <= n THEN k ELSE k + 1] = s.queue[k]
      OBVIOUS
    <2>1. CASE k <= n
      BY <1>5, <2>1
    <2>2. CASE ~(k <= n)
      <3>1. k + 1 \in n + 2 .. Len(s.queue) + 1 /\ (k + 1) - 1 = k
        BY <1>5, <2>2
      <3>2. s'.queue[k + 1] = s.queue[(k + 1) - 1]
        BY <1>5, <3>1
      <3> QED BY <2>2, <3>1, <3>2
    <2> QED BY <2>1, <2>2
  <1>8. \A k \in 1 .. Len(s'.queue) :
            \/ k = n + 1
            \/ k <= n /\ k \in 1 .. Len(s.queue)
            \/ k > n + 1 /\ k - 1 \in 1 .. Len(s.queue)
    BY <1>5
  <1>9. QueueBounded'
    <2> SUFFICES ASSUME NEW k \in 1 .. Len(s'.queue)
                 PROVE  /\ s'.queue[k].data_len \in 1 .. MaxPad
                        /\ s'.queue[k].seq + s'.queue[k].data_len < HalfSeq
      BY DEF QueueBounded
    <2>1. CASE k = n + 1
      BY <1>4, <1>5, <2>1
    <2>2. CASE k <= n /\ k \in 1 .. Len(s.queue)
      BY <1>5, <2>2 DEF StreamInv, QueueBounded
    <2>3. CASE k > n + 1 /\ k - 1 \in 1 .. Len(s.queue)
      <3>1. s'.queue[k] = s.queue[k - 1]
        BY <1>5, <2>3
      <3> QED BY <2>3, <3>1 DEF StreamInv, QueueBounded
    <2> QED BY <1>8, <2>1, <2>2, <2>3
  <1>10. QueueSorted'
    <2>1. \A k \in 1 .. n : s.queue[k].seq <= p.seq
      BY <1>2 DEF IsCandidate
    <2>2. \A k \in n + 1 .. Len(s.queue) : p.seq <= s.queue[k].seq
      <3> SUFFICES ASSUME NEW k \in n + 1 .. Len(s.queue) PROVE p.seq <= s.queue[k].seq
        OBVIOUS
      <3>1. n + 1 \in 1 .. Len(s.queue) /\ k \in 1 .. Len(s.queue)
        BY <1>5
      <3>2. s.queue[n + 1].seq \in Nat /\ s.queue[k].seq \in Nat
        BY <3>1, QueueNumbers
      <3>3. p.seq < s.queue[n + 1].seq
        BY <1>2, <1>4, <3>1, <3>2 DEF IsCandidate
      <3>4. s.queue[n + 1].seq <= s.queue[k].seq
        BY <3>1, <3>2 DEF StreamInv, QueueSorted
      <3> QED BY <1>4, <3>2, <3>3, <3>4
    <2> SUFFICES ASSUME NEW j \in 1 .. Len(s'.queue), NEW k \in 1 .. Len(s'.queue), j < k
                 PROVE  s'.queue[j].seq <= s'.queue[k].seq
      BY DEF QueueSorted
    <2>3. CASE j = n + 1
      <3>1. k - 1 \in n + 1 .. Len(s.queue) /\ s'.queue[k] = s.queue[k - 1]
        BY <1>5, <2>3
      <3> QED BY <1>4, <1>5, <2>2, <2>3, <3>1
    <2>4. CASE k = n + 1
      <3>1. j \in 1 .. n /\ s'.queue[j] = s.queue[j]
        BY <1>5, <2>4
      <3> QED BY <1>4, <1>5, <2>1, <2>4, <3>1
    <2>5. CASE j # n + 1 /\ k # n + 1
      <3> DEFINE i == IF j <= n THEN j ELSE j - 1
                 l == IF k <= n THEN k ELSE k - 1
      <3>1. /\ i \in 1 .. Len(s.queue) /\ l \in 1 .. Len(s.queue) /\ i < l
            /\ s'.queue[j] = s.queue[i] /\ s'.queue[k] = s.queue[l]
        BY <1>5, <2>5
      <3> HIDE DEF i, l
      <3> QED BY <3>1 DEF StreamInv, QueueSorted
    <2> QED BY <2>3, <2>4, <2>5
  <1>11. OnTimeBytesKept'
    <2> SUFFICES ASSUME NEW b \in ontime'
                 PROVE  IF b < s'.next_seq THEN IsDelivered(b)' ELSE IsQueued(b)'
      BY DEF OnTimeBytesKept
    <2>1. CASE b \in ontime
      <3>1. s'.next_seq = s.next_seq
        BY <1>1, <1>3, <2>1
      <3>2. IsQueued(b) => IsQueued(b)'
        <4> SUFFICES ASSUME NEW k \in 1 .. Len(s.queue), b \in Bytes(s.queue[k])
                     PROVE  IsQueued(b)'
          BY DEF IsQueued
        <4> DEFINE l == IF k <= n THEN k ELSE k + 1
        <4>1. l \in 1 .. Len(s'.queue) /\ s'.queue[l] = s.queue[k]
          BY <1>5, <1>7
        <4> HIDE DEF l
        <4> QED BY <4>1 DEF IsQueued, Bytes
      <3> QED BY <1>6, <2>1, <3>1, <3>2 DEF StreamInv, OnTimeBytesKept
    <2>2. CASE b \notin ontime
      <3>1. b \in Bytes(p) /\ b >= s'.next_seq
        BY <2>2 DEF ArriveData
      <3>2. b \in Bytes(q) /\ n + 1 \in 1 .. Len(s'.queue)
        BY <1>4, <1>5, <3>1 DEF Bytes
      <3>3. IsQueued(b)'
        BY <1>5, <3>2 DEF IsQueued, Bytes
      <3>4. b \in Int /\ ~(b < s'.next_seq)
        BY <1>1, <1>3, <1>4, <3>1 DEF Bytes
      <3> QED BY <3>3, <3>4
    <2> QED BY <2>1, <2>2
  <1>12. QueueClose'
    BY DEF ArriveData, QueueClose
  <1>13. Fresh' /\ s'.next_seq < HalfSeq
    BY <1>1, <1>3 DEF Fresh
  <1> QED BY <1>6, <1>9, <1>10, <1>11, <1>12, <1>13 DEF StreamInv

\* "Does this packet have some data for us?": the first packet is cut at
\* next_seq and delivered.
LEMMA DrainDataStep ==
    ASSUME TypeOK, StreamInv, DrainData
    PROVE  StreamInv' /\ Grows /\ Logged
  <1> DEFINE h == s.queue[1]
             n == s.next_seq - h.seq
             p == Trim(h, n)
  <1>1. /\ s.queue # <<>> /\ ~SeenBefore(s) /\ HasData(s) /\ ontime' = ontime
        /\ s' = DeliverFirst(s) /\ pc = "drain" /\ pc' = "drain"
    BY DEF DrainData
  <1>2. /\ s.queue \in Seq(PacketType) /\ s.next_seq \in Nat /\ s.next_seq < HalfSeq
        /\ h = Head(s.queue) /\ 1 \in 1 .. Len(s.queue)
    BY <1>1, TailFacts, HalfSeqAssumption DEF TypeOK, StreamInv, SeqSpace
  <1>3. /\ h \in PacketType /\ h.seq \in Nat /\ h.data_len \in Nat
        /\ h.seq + h.data_len < HalfSeq
    BY <1>2, QueueNumbers DEF StreamInv, QueueBounded
  <1>4. h.seq <= s.next_seq /\ s.next_seq < h.seq + h.data_len
    <2>1. U32(h.seq + h.data_len) = h.seq + h.data_len
      BY <1>3, HalfSeqAssumption, U32Small DEF SeqSpace
    <2> QED BY <1>1, <1>2, <1>3, <2>1 DEF SeenBefore, HasData
  <1>5. n \in 0 .. SeqSpace - 1 /\ h.seq + n = s.next_seq /\ h.data_len > n
        /\ h.data_len - n = h.seq + h.data_len - s.next_seq
    BY <1>2, <1>3, <1>4, HalfSeqAssumption DEF SeqSpace
  <1>6. p \in PacketType
    BY <1>3, <1>5, TrimType
  <1>7. s' = Deliver(s, p, 0)
    BY <1>1, <1>2 DEF DeliverFirst
  <1>8. p.seq = s.next_seq /\ p.data_len = h.seq + h.data_len - s.next_seq
    <2>1. U32(h.seq + n) = s.next_seq
      BY <1>2, <1>5, HalfSeqAssumption, U32Small DEF SeqSpace
    <2> QED BY <1>3, <1>5, <2>1 DEF Trim, PacketType
  <1> HIDE DEF p
  <1>9. DeliversFor(p, 0)
    BY <1>1, <1>2, <1>3, <1>7, <1>8 DEF DeliversFor
  <1>10. s.state # "NONE" /\ 0 \in 0 .. MaxPad
    BY <1>1, MaxPadAssumption DEF StreamInv, Fresh
  <1>11. StreamInv' /\ Grows /\ Logged
    BY <1>1, <1>6, <1>9, <1>10, DeliverStep
  <1> QED BY <1>11

\* Every step keeps the inductive invariant.
LEMMA IInvInductive ==
    ASSUME NoWrap, ShortSegments
    PROVE  IInv /\ [Next]_vars => IInv'
  <1> SUFFICES ASSUME IInv, [Next]_vars PROVE IInv'
    OBVIOUS
  <1>0. TypeOK' /\ TypeOK /\ StreamInv /\ QueueClose
    BY TypeInductive DEF IInv
  <1>1. ASSUME NEW p \in Packets, ArriveEmpty(p) PROVE IInv'
    BY <1>0, <1>1, ArriveEmptyStep DEF IInv
  <1>2. ASSUME NEW p \in Packets, ArriveData(p) PROVE IInv'
    BY <1>0, <1>2, ArriveDataStep DEF IInv
  <1>3. CASE DrainRetransmission
    <2>1. StreamInv'
      BY <1>0, <1>3, DropStep DEF DrainRetransmission
    <2> QED BY <1>0, <1>3, <2>1 DEF DrainRetransmission, IInv, QueueClose
  <1>4. CASE DrainData
    BY <1>0, <1>4, DrainDataStep DEF IInv, QueueClose, DrainData
  <1>5. CASE DrainBlocked
    <2>1. s' = s /\ ontime' = ontime /\ s.queue # <<>> /\ ~HasData(s)
      BY <1>5 DEF DrainBlocked
    <2>2. StreamInv'
      BY <1>0, <2>1 DEF StreamInv, Fresh, QueueSorted, QueueBounded, WrittenBehind,
         FavourOldPackets, OnTimeBytesKept, DataEvents, IsDelivered, IsQueued
    <2>3. QueueClose'
      <3> SUFFICES ASSUME NEW k \in 1 .. Len(s.queue)
                   PROVE  s.next_seq <= s.queue[k].seq + MaxPad
        BY <2>1 DEF QueueClose
      <3>1. /\ Head(s.queue) = s.queue[1] /\ 1 \in 1 .. Len(s.queue)
            /\ s.next_seq \in Nat
        BY <1>0, <2>1, TailFacts, HalfSeqAssumption DEF TypeOK, SeqSpace
      <3>2. s.queue[1].seq \in Nat /\ s.queue[k].seq \in Nat
        BY <1>0, <3>1, QueueNumbers
      <3>3. s.queue[1].seq <= s.queue[k].seq
        BY <1>0, <3>1, <3>2 DEF StreamInv, QueueSorted
      <3>4. s.next_seq < s.queue[1].seq
        BY <2>1, <3>1, <3>2 DEF HasData
      <3> QED BY <3>1, <3>2, <3>3, <3>4, MaxPadAssumption
    <2> QED BY <1>0, <2>2, <2>3 DEF IInv
  <1>6. CASE DrainEmpty
    <2>1. s' = s /\ ontime' = ontime /\ s.queue = <<>>
      BY <1>6 DEF DrainEmpty
    <2>2. StreamInv'
      BY <1>0, <2>1 DEF StreamInv, Fresh, QueueSorted, QueueBounded, WrittenBehind,
         FavourOldPackets, OnTimeBytesKept, DataEvents, IsDelivered, IsQueued
    <2> QED BY <1>0, <2>1, <2>2 DEF IInv, QueueClose
  <1>7. CASE WindowDone \/ Flush \/ UNCHANGED vars
    <2>1. /\ s' = s /\ ontime' = ontime
          /\ pc' \in {"ready", "window", "flush"} => pc \in {"ready", "window", "flush"}
      BY <1>7 DEF WindowDone, Flush, vars
    <2>2. StreamInv'
      BY <1>0, <2>1 DEF StreamInv, Fresh, QueueSorted, QueueBounded, WrittenBehind,
         FavourOldPackets, OnTimeBytesKept, DataEvents, IsDelivered, IsQueued
    <2> QED BY <1>0, <2>1, <2>2 DEF IInv, QueueClose
  <1>8. CASE WindowPad \/ FlushPad
    <2>1. /\ s.queue # <<>> /\ s' = PadToFirstPacket(s) /\ ontime' = ontime
          /\ pc \in {"window", "flush"}
      BY <1>8 DEF WindowPad, FlushPad
    <2>2. QueueLag(s.next_seq)
      BY <1>0, <2>1 DEF QueueClose, QueueLag
    <2>3. /\ StreamInv'
          /\ \A k \in 1 .. Len(s'.queue) : s'.next_seq <= s'.queue[k].seq + MaxPad
      BY <1>0, <2>1, <2>2, PadStep
    <2> QED BY <1>0, <2>3 DEF IInv, QueueClose
  <1>9. CASE FlushDone
    <2>1. s'.next_seq = s.next_seq /\ s'.queue = s.queue /\ s'.out = s.out
          /\ s'.state = "DESTROY" /\ ontime' = ontime /\ s.queue = <<>>
      BY <1>0, <1>9 DEF FlushDone, TypeOK
    <2>2. StreamInv'
      BY <1>0, <2>1 DEF StreamInv, Fresh, QueueSorted, QueueBounded, WrittenBehind,
         FavourOldPackets, OnTimeBytesKept, DataEvents, IsDelivered, IsQueued
    <2> QED BY <1>0, <2>1, <2>2 DEF IInv, QueueClose
  <1> QED BY <1>1, <1>2, <1>3, <1>4, <1>5, <1>6, <1>7, <1>8, <1>9 DEF Next

\* The initial state satisfies the inductive invariant.
LEMMA IInvInit == Init => IInv
  <1> SUFFICES ASSUME Init PROVE IInv
    OBVIOUS
  <1>1. TypeOK
    BY TypeInit
  <1>2. s.next_seq = 0 /\ s.queue = <<>> /\ s.out = <<>> /\ ontime = {}
    BY DEF Init
  <1>3. DataEvents = {}
    BY <1>2 DEF DataEvents
  <1> QED BY <1>1, <1>2, <1>3, HalfSeqAssumption
      DEF IInv, StreamInv, Fresh, QueueSorted, QueueBounded, WrittenBehind,
          FavourOldPackets, OnTimeBytesKept, QueueClose

(***************************************************************************)
(* For every capture that does not cross the end of the sequence space and *)
(* has no segment longer than MaxPad, in whatever order, overlap or        *)
(* repetition its packets arrive: the data callbacks write no position of  *)
(* the stream twice and every payload byte at its own position.            *)
(***************************************************************************)
THEOREM OldPacketsFavoured ==
    ASSUME NoWrap, ShortSegments
    PROVE  Spec => []FavourOldPackets
  <1>1. Init => IInv
    BY IInvInit
  <1>2. IInv /\ [Next]_vars => IInv'
    BY IInvInductive
  <1>3. IInv => FavourOldPackets
    BY DEF IInv, StreamInv
  <1> QED BY <1>1, <1>2, <1>3, PTL DEF Spec

(***************************************************************************)
(* For the same captures, every byte that arrived before the stream passed *)
(* its position is queued, or has been delivered at that position: the     *)
(* drain, the window loop and the flush lose none of them.                 *)
(***************************************************************************)
THEOREM NoOnTimeByteLost ==
    ASSUME NoWrap, ShortSegments
    PROVE  Spec => []OnTimeBytesKept
  <1>1. Init => IInv
    BY IInvInit
  <1>2. IInv /\ [Next]_vars => IInv'
    BY IInvInductive
  <1>3. IInv => OnTimeBytesKept
    BY DEF IInv, StreamInv
  <1> QED BY <1>1, <1>2, <1>3, PTL DEF Spec
-----------------------------------------------------------------------------
(* Holes in the stream, and what was called a retransmission.               *)

\* A harmless callback appended to the log is no retransmission ahead.
LEMMA LoggedOne ==
    ASSUME TypeOK, NEW e \in EventType, e.kind # "retran" \/ e.len = 0,
           s'.out = Append(s.out, e)
    PROVE  Logged
  <1>1. s.out \in Seq(EventType) /\ Len(s.out) \in Nat
    BY DEF TypeOK
  <1>2. /\ Len(s'.out) = Len(s.out) + 1
        /\ \A k \in 1 .. Len(s.out) : s'.out[k] = s.out[k]
        /\ s'.out[Len(s.out) + 1] = e
    BY <1>1, AppendFacts
  <1> SUFFICES ASSUME NEW k \in 1 .. Len(s'.out),
                      ~(k \in 1 .. Len(s.out) /\ s'.out[k] = s.out[k])
               PROVE  BehindNext(s.out[k])'
    BY DEF Logged
  <1>3. s'.out[k] = e
    BY <1>1, <1>2
  <1> QED BY <1>3 DEF BehindNext

\* Two of them, as the first packet of a stream makes when it is empty.
LEMMA LoggedTwo ==
    ASSUME NEW e \in EventType, e.kind = "est",
           NEW f \in EventType, f.len = 0,
           s.out = <<>>, s'.out = Append(Append(s.out, e), f)
    PROVE  Logged
  <1>1. Append(s.out, e) \in Seq(EventType) /\ Len(Append(s.out, e)) = 1
        /\ Append(s.out, e)[1] = e
    BY AppendFacts
  <1>2. Len(s'.out) = 2 /\ s'.out[1] = e /\ s'.out[2] = f
    BY <1>1, AppendFacts
  <1> SUFFICES ASSUME NEW k \in 1 .. Len(s'.out) PROVE BehindNext(s.out[k])'
    BY DEF Logged
  <1>3. s'.out[k] = e \/ s'.out[k] = f
    BY <1>2
  <1> QED BY <1>3 DEF BehindNext

(***************************************************************************)
(* A packet that arrives writes nothing; the first one opens the stream at *)
(* its own position.                                                       *)
(***************************************************************************)
Opens == s.out = <<>> /\ Written' = {} /\ isn' = s'.next_seq

\* A packet reaches the reassembler.
LEMMA ArriveGrows ==
    ASSUME IInv, NoWrap, NEW p \in Packets, ArriveEmpty(p) \/ ArriveData(p)
    PROVE  Logged /\ (Opens \/ (Grows /\ isn' = isn))
  <1> DEFINE st == Established(p)
             e  == [kind |-> "est", at |-> FirstSeq(p), seq |-> p.seq,
                    len |-> p.data_len, pad |-> 0]
             f  == [kind |-> "retran", at |-> st.next_seq, seq |-> p.seq,
                    len |-> p.data_len, pad |-> 0]
  <1>0. TypeOK /\ StreamInv
    BY DEF IInv
  <1>1. /\ st \in StreamType
        /\ st.next_seq \in Nat /\ FirstSeq(p) \in 0 .. SeqSpace - 1
    BY <1>0, EstablishedFacts, EstablishedType
  <1>2. /\ s'.next_seq = st.next_seq
        /\ \/ s'.out = st.out
           \/ s'.out = Append(st.out, f) /\ p.data_len = 0
    <2>1. CASE ArriveEmpty(p)
      BY <1>1, <2>1 DEF ArriveEmpty, Callback, StreamType
    <2>2. CASE ArriveData(p)
      BY <1>1, <2>2 DEF ArriveData, StreamType
    <2> QED BY <2>1, <2>2
  <1>3. e \in EventType /\ f \in EventType
    BY <1>1, PacketsAssumption, HalfSeqAssumption DEF EventType, SeqSpace
  <1>4. e.kind = "est" /\ f.kind = "retran" /\ f.len = p.data_len
    OBVIOUS
  <1>5. s.state = "NONE" => st.out = Append(s.out, e) /\ st.next_seq = FirstSeq(p)
    BY <1>0 DEF Established, TypeOK
  <1>6. s.state # "NONE" => st = s
    BY DEF Established
  <1>7. isn' = IF s.state = "NONE" THEN FirstSeq(p) ELSE isn
    BY DEF ArriveEmpty, ArriveData, Arrive
  <1> HIDE DEF e, f
  <1>8. Written' = Written
    BY <1>0, <1>2, <1>3, <1>4, AnnouncedLog
  <1> HIDE DEF st
  <1>9. CASE s.state = "NONE"
    <2>1. s.out = <<>> /\ s.out \in Seq(EventType)
      BY <1>0, <1>9 DEF StreamInv, Fresh, TypeOK
    <2>2. DataEvents = {}
      BY <2>1 DEF DataEvents
    <2>3. Opens
      BY <1>2, <1>5, <1>7, <1>8, <1>9, <2>1, <2>2 DEF Opens, Written
    <2>4. ASSUME s'.out = st.out PROVE Logged
      BY <1>0, <1>3, <1>4, <1>5, <1>9, <2>4, LoggedOne
    <2>5. ASSUME s'.out = Append(st.out, f), p.data_len = 0 PROVE Logged
      BY <1>3, <1>4, <1>5, <1>9, <2>1, <2>5, LoggedTwo
    <2>6. Logged
      BY <1>2, <2>4, <2>5
    <2> QED BY <2>3, <2>6
  <1>10. CASE s.state # "NONE"
    <2>1. Grows /\ isn' = isn
      BY <1>1, <1>2, <1>6, <1>7, <1>8, <1>10 DEF Grows
    <2>2. ASSUME s'.out = st.out PROVE Logged
      BY <1>6, <1>10, <2>2 DEF Logged
    <2>3. ASSUME s'.out = Append(st.out, f), p.data_len = 0 PROVE Logged
      BY <1>0, <1>3, <1>4, <1>6, <1>10, <2>3, LoggedOne
    <2> QED BY <1>2, <2>1, <2>2, <2>3
  <1> QED BY <1>9, <1>10

\* What every step does to the reassembled stream and to the log.
LEMMA StepGrows ==
    ASSUME NoWrap, IInv, [Next]_vars
    PROVE  Logged /\ (Opens \/ (Grows /\ isn' = isn))
  <1>0. TypeOK /\ StreamInv /\ QueueClose /\ s.next_seq \in Nat
    BY HalfSeqAssumption DEF IInv, TypeOK, SeqSpace
  <1>1. ASSUME NEW p \in Packets, ArriveEmpty(p) \/ ArriveData(p)
        PROVE  Logged /\ (Opens \/ (Grows /\ isn' = isn))
    BY <1>1, ArriveGrows
  <1>2. CASE DrainRetransmission
    BY <1>0, <1>2, DropStep DEF DrainRetransmission
  <1>3. CASE DrainData
    BY <1>0, <1>3, DrainDataStep DEF DrainData
  <1>4. CASE WindowPad \/ FlushPad
    <2>1. /\ s.queue # <<>> /\ s' = PadToFirstPacket(s) /\ ontime' = ontime
          /\ pc \in {"window", "flush"} /\ isn' = isn
      BY <1>4 DEF WindowPad, FlushPad
    <2>2. QueueLag(s.next_seq)
      BY <1>0, <2>1 DEF QueueClose, QueueLag
    <2> QED BY <1>0, <2>1, <2>2, PadStep
  <1>5. CASE DrainBlocked \/ DrainEmpty \/ WindowDone \/ Flush \/ FlushDone \/ UNCHANGED vars
    <2>1. s'.out = s.out /\ s'.next_seq = s.next_seq /\ isn' = isn
      BY <1>0, <1>5 DEF DrainBlocked, DrainEmpty, WindowDone, Flush, FlushDone, vars, TypeOK
    <2>2. Written' = Written
      BY <2>1 DEF Written, DataEvents
    <2> QED BY <1>0, <2>1, <2>2 DEF Logged, Grows
  <1> QED BY <1>1, <1>2, <1>3, <1>4, <1>5 DEF Next

\* Nothing is written at next_seq or beyond.
LEMMA WrittenBelow ==
    ASSUME TypeOK, WrittenBehind, NEW b \in Written
    PROVE  b \in Int /\ b < s.next_seq
  <1>1. PICK k \in DataEvents : b \in s.out[k].at .. s.out[k].at + s.out[k].len - 1
    BY DEF Written
  <1>2. s.out[k] \in EventType /\ s.next_seq \in Int
    BY HalfSeqAssumption DEF DataEvents, TypeOK, SeqSpace
  <1>3. s.out[k].at + s.out[k].len <= s.next_seq
    BY DEF WrittenBehind
  <1> QED BY <1>1, <1>2, <1>3 DEF EventType

(***************************************************************************)
(* A hole stays as it is, because writing only happens from next_seq on; a *)
(* new one is as wide as the jump that makes it.                           *)
(***************************************************************************)
LEMMA HolesStep ==
    ASSUME TypeOK, WrittenBehind, HolesAreWide, isn <= s.next_seq,
           Grows, isn' = isn, s'.next_seq \in Nat
    PROVE  HolesAreWide'
  <1>1. s.next_seq \in Nat /\ isn \in Nat /\ s.next_seq <= s'.next_seq
    BY HalfSeqAssumption DEF TypeOK, SeqSpace, Grows
  <1> SUFFICES ASSUME NEW b \in isn .. s'.next_seq - 1, b \notin Written'
               PROVE  \E lo \in isn .. b, hi \in b .. s'.next_seq - 1 :
                          /\ hi - lo >= MaxPad
                          /\ \A c \in lo .. hi : c \notin Written'
    BY DEF HolesAreWide
  <1>2. CASE b < s.next_seq
    <2>1. \A c \in Int : c < s.next_seq => (c \in Written' <=> c \in Written)
      BY <1>1 DEF Grows
    <2>2. b \in isn .. s.next_seq - 1 /\ b \notin Written
      BY <1>1, <1>2, <2>1
    <2>3. PICK lo \in isn .. b, hi \in b .. s.next_seq - 1 :
                  /\ hi - lo >= MaxPad
                  /\ \A c \in lo .. hi : c \notin Written
      BY <2>2 DEF HolesAreWide
    <2>4. \A c \in lo .. hi : c \notin Written'
      BY <1>1, <2>1, <2>3
    <2>5. hi \in b .. s'.next_seq - 1
      BY <1>1, <2>3
    <2> QED BY <2>3, <2>4, <2>5
  <1>3. CASE ~(b < s.next_seq)
    <2>1. Written' = Written /\ s'.next_seq > s.next_seq + MaxPad
      BY <1>1, <1>3 DEF Grows
    <2> DEFINE lo == s.next_seq
               hi == s'.next_seq - 1
    <2>2. lo \in isn .. b /\ hi \in b .. s'.next_seq - 1 /\ hi - lo >= MaxPad
      BY <1>1, <1>3, <2>1, MaxPadAssumption
    <2>3. \A c \in lo .. hi : c \notin Written'
      <3> SUFFICES ASSUME NEW c \in lo .. hi, c \in Written PROVE FALSE
        BY <2>1
      <3>1. c < s.next_seq
        BY WrittenBelow
      <3> QED BY <1>1, <3>1
    <2> HIDE DEF lo, hi
    <2> QED BY <2>2, <2>3
  <1> QED BY <1>2, <1>3

\* Every step keeps the invariant about holes and retransmissions.
LEMMA ProgressInductive ==
    ASSUME NoWrap, ShortSegments
    PROVE  ProgressInv /\ [Next]_vars => ProgressInv'
  <1> SUFFICES ASSUME ProgressInv, [Next]_vars PROVE ProgressInv'
    OBVIOUS
  <1>1. IInv /\ isn <= s.next_seq /\ DroppedBehind /\ HolesAreWide
    BY DEF ProgressInv
  <1>2. IInv'
    BY <1>1, IInvInductive
  <1>3. Logged /\ (Opens \/ (Grows /\ isn' = isn))
    BY <1>1, StepGrows
  <1>4. /\ TypeOK /\ WrittenBehind
        /\ s.next_seq \in Nat /\ s'.next_seq \in Nat /\ isn \in Nat
        /\ s.out \in Seq(EventType)
    BY <1>1, <1>2, HalfSeqAssumption DEF IInv, StreamInv, TypeOK, SeqSpace
  <1>5. isn' <= s'.next_seq
    BY <1>1, <1>3, <1>4 DEF Opens, Grows
  <1>6. HolesAreWide'
    <2>1. CASE Opens
      BY <1>4, <2>1 DEF Opens, HolesAreWide
    <2>2. CASE Grows /\ isn' = isn
      BY <1>1, <1>4, <2>2, HolesStep
    <2> QED BY <1>3, <2>1, <2>2
  <1>7. s.next_seq <= s'.next_seq \/ s.out = <<>>
    BY <1>3 DEF Opens, Grows
  <1>8. DroppedBehind'
    <2> SUFFICES ASSUME NEW k \in 1 .. Len(s'.out) PROVE BehindNext(s.out[k])'
      BY DEF DroppedBehind
    <2>1. CASE k \in 1 .. Len(s.out) /\ s'.out[k] = s.out[k]
      <3>1. BehindNext(s.out[k])
        BY <1>1, <2>1 DEF DroppedBehind
      <3>2. s.out[k].seq \in Int /\ s.out[k].len \in Int
        <4>1. s.out[k] \in EventType
          BY <1>4, <2>1
        <4> QED BY <4>1 DEF EventType
      <3>3. s.next_seq <= s'.next_seq
        BY <1>7, <2>1
      <3> QED BY <1>4, <2>1, <3>1, <3>2, <3>3 DEF BehindNext
    <2> QED BY <1>3, <2>1 DEF Logged
  <1> QED BY <1>1, <1>2, <1>5, <1>6, <1>8 DEF ProgressInv

\* The initial state satisfies it.
LEMMA ProgressInit == Init => ProgressInv
  <1> SUFFICES ASSUME Init PROVE ProgressInv
    OBVIOUS
  <1>1. IInv
    BY IInvInit
  <1>2. s.next_seq = 0 /\ isn = 0 /\ s.out = <<>>
    BY DEF Init
  <1> QED BY <1>1, <1>2 DEF ProgressInv, DroppedBehind, HolesAreWide

(***************************************************************************)
(* For captures that do not cross the end of the sequence space and have   *)
(* no segment longer than MaxPad: a position that neither payload nor      *)
(* zeros were written to lies in a gap of more than MaxPad such positions, *)
(* so pad_to_first_packet skips a gap only when it is too wide to pad.     *)
(***************************************************************************)
THEOREM HolesCorrect ==
    ASSUME NoWrap, ShortSegments
    PROVE  Spec => []HolesAreWide
  <1>1. Init => ProgressInv
    BY ProgressInit
  <1>2. ProgressInv /\ [Next]_vars => ProgressInv'
    BY ProgressInductive
  <1>3. ProgressInv => HolesAreWide
    BY DEF ProgressInv
  <1> QED BY <1>1, <1>2, <1>3, PTL DEF Spec

\* Behind next_seq and away from the wrap, a byte of the stream is passed.
LEMMA DroppedWasPassed == ProgressInv => RetransmissionWasProcessed
  <1> SUFFICES ASSUME ProgressInv,
                      NEW k \in 1 .. Len(s.out), s.out[k].kind = "retran",
                      NEW i \in 0 .. s.out[k].len - 1,
                      U32(s.out[k].seq + i) >= isn
               PROVE  Passed(U32(s.out[k].seq + i))
    BY DEF RetransmissionWasProcessed
  <1> DEFINE e == s.out[k]
             n == e.seq + i
  <1>1. /\ s.next_seq \in Nat /\ s.next_seq < HalfSeq /\ isn \in Nat
        /\ isn <= s.next_seq /\ e.seq \in Int /\ e.len \in Int
    <2>1. TypeOK /\ s.next_seq < HalfSeq /\ isn <= s.next_seq
      BY DEF ProgressInv, IInv, StreamInv
    <2>2. e \in EventType
      BY <2>1 DEF TypeOK
    <2>3. s.next_seq \in Nat /\ isn \in Nat
      BY <2>1, HalfSeqAssumption DEF TypeOK, SeqSpace
    <2> QED BY <2>1, <2>2, <2>3 DEF EventType
  <1>2. 0 <= e.seq /\ e.seq + e.len <= s.next_seq
    BY <1>1 DEF ProgressInv, DroppedBehind, BehindNext
  <1> HIDE DEF e
  <1>3. n \in Nat /\ n < s.next_seq
    BY <1>1, <1>2 DEF e
  <1> HIDE DEF n
  <1>4. U32(n) = n
    BY <1>1, <1>3, HalfSeqAssumption, U32Small DEF SeqSpace
  <1>5. isn <= n
    BY <1>1, <1>3, <1>4 DEF n, e
  <1>6. U32(n - isn) = n - isn /\ U32(s.next_seq - isn) = s.next_seq - isn
    BY <1>1, <1>3, <1>5, HalfSeqAssumption, U32Small DEF SeqSpace
  <1>7. Passed(n)
    BY <1>1, <1>3, <1>6 DEF Passed
  <1> QED BY <1>4, <1>7 DEF n, e

(***************************************************************************)
(* For the same captures: a packet with data that TCPStream_add reports as *)
(* a retransmission had been passed by the stream entirely, apart from     *)
(* bytes that are older than the stream itself.                            *)
(***************************************************************************)
THEOREM RetransmissionsCorrect ==
    ASSUME NoWrap, ShortSegments
    PROVE  Spec => []RetransmissionWasProcessed
  <1>1. Init => ProgressInv
    BY ProgressInit
  <1>2. ProgressInv /\ [Next]_vars => ProgressInv'
    BY ProgressInductive
  <1> QED BY <1>1, <1>2, DroppedWasPassed, PTL DEF Spec
=============================================================================
