----------------------------- MODULE TCPStream -----------------------------
(***************************************************************************)
(* One direction of a TCP connection from its first packet to its          *)
(* destruction: the control of TCPStream_add, pad_data and TCPStream_flush *)
(* in src/network/tcp.c, with one action for each iteration of a loop,     *)
(* because every iteration calls back into Python.                         *)
(*                                                                         *)
(* pc is where the C code stands: "ready" between two calls, "drain" and   *)
(* "window" in the two loops of TCPStream_add, "flush" in pad_data,        *)
(* "closed" when the stream has been freed.  A new packet is only taken at *)
(* "ready": the loops always run to their end.                             *)
(***************************************************************************)
EXTENDS TCPPacketQueue

CONSTANTS
    Packets,     \* the packets the capture may contain
    MaxPackets   \* bound: packets fed to one stream

ASSUME PacketsAssumption ==
    Packets \subseteq [seq      : 0 .. SeqSpace - 1,
                       data_len : 0 .. HalfSeq - 1,
                       window   : 0 .. HalfSeq - 1,
                       syn      : BOOLEAN]
ASSUME MaxPacketsAssumption == MaxPackets \in Nat

VARIABLES
    s,       \* the stream
    pc,
    fed,     \* how many packets have been fed
    isn,     \* history: the first position of the reassembled stream
    ontime   \* history: the bytes that arrived before the stream passed them

vars == <<s, pc, fed, isn, ontime>>

Init ==
    /\ s = [next_seq |-> 0, queue |-> <<>>, state |-> "NONE", out |-> <<>>]
    /\ pc = "ready"
    /\ fed = 0
    /\ isn = 0
    /\ ontime = {}

(***************************************************************************)
(* A packet reaches TCPHashTable_process.  The first one fixes next_seq    *)
(* and is announced.  A packet without data is reported as a               *)
(* retransmission and not queued.                                          *)
(***************************************************************************)
FirstSeq(p) == IF p.syn THEN U32(p.seq + 1) ELSE p.seq

Established(p) ==
    IF s.state = "NONE"
    THEN [s EXCEPT !.next_seq = FirstSeq(p),
                   !.state    = "DATA",
                   !.out      = Append(@, [kind |-> "est", at |-> FirstSeq(p),
                                           seq |-> p.seq, len |-> p.data_len,
                                           pad |-> 0])]
    ELSE s

Bytes(p) == p.seq .. p.seq + p.data_len - 1

Arrive(p) ==
    /\ pc = "ready"
    /\ fed < MaxPackets
    /\ fed' = fed + 1
    /\ isn' = IF s.state = "NONE" THEN FirstSeq(p) ELSE isn

ArriveEmpty(p) ==
    /\ Arrive(p)
    /\ p.data_len = 0
    /\ s' = [Established(p) EXCEPT !.state = "RETRANSMISSION",
                                   !.out   = Callback(Established(p), "retran", p, 0)]
    /\ UNCHANGED <<pc, ontime>>

ArriveData(p) ==
    /\ Arrive(p)
    /\ p.data_len > 0
    /\ \E n \in 0 .. Len(s.queue) :
          /\ IsCandidate(s.queue, p, n)
          /\ s' = [Established(p) EXCEPT
                     !.queue = AddAfter(s.queue, [seq      |-> p.seq,
                                                  data_len |-> p.data_len,
                                                  window   |-> p.window], n)]
    /\ pc' = "drain"
    /\ ontime' = ontime \cup {b \in Bytes(p) : b >= s'.next_seq}

(***************************************************************************)
(* The while loop of TCPStream_add.                                        *)
(***************************************************************************)
DrainRetransmission ==
    /\ pc = "drain"
    /\ s.queue # <<>>
    /\ SeenBefore(s)
    /\ s' = DropRetransmission(s)
    /\ UNCHANGED <<pc, fed, isn, ontime>>

DrainData ==
    /\ pc = "drain"
    /\ s.queue # <<>>
    /\ ~SeenBefore(s)
    /\ HasData(s)
    /\ s' = DeliverFirst(s)
    /\ UNCHANGED <<pc, fed, isn, ontime>>

\* The first packet lies beyond next_seq: look at the window, then leave.
DrainBlocked ==
    /\ pc = "drain"
    /\ s.queue # <<>>
    /\ ~SeenBefore(s)
    /\ ~HasData(s)
    /\ pc' = IF s.state \in {"DATA", "RETRANSMISSION"} THEN "window" ELSE "ready"
    /\ UNCHANGED <<s, fed, isn, ontime>>

DrainEmpty ==
    /\ pc = "drain"
    /\ s.queue = <<>>
    /\ pc' = "ready"
    /\ UNCHANGED <<s, fed, isn, ontime>>

(***************************************************************************)
(* The inner loop: pad while the queue spans more than a window.  The code *)
(* fetches the last packet once; it stays the last until the queue is      *)
(* empty.  The loop is followed by the break of the outer one.             *)
(***************************************************************************)
WindowPad ==
    /\ pc = "window"
    /\ s.queue # <<>>
    /\ WindowExceeded(s)
    /\ s' = PadToFirstPacket(s)
    /\ UNCHANGED <<pc, fed, isn, ontime>>

WindowDone ==
    /\ pc = "window"
    /\ s.queue # <<>> => ~WindowExceeded(s)
    /\ pc' = "ready"
    /\ UNCHANGED <<s, fed, isn, ontime>>

(***************************************************************************)
(* TCPStream_flush: pad_data empties the queue, then "destroy".            *)
(***************************************************************************)
Flush ==
    /\ pc = "ready"
    /\ pc' = "flush"
    /\ UNCHANGED <<s, fed, isn, ontime>>

FlushPad ==
    /\ pc = "flush"
    /\ s.queue # <<>>
    /\ s' = PadToFirstPacket(s)
    /\ UNCHANGED <<pc, fed, isn, ontime>>

FlushDone ==
    /\ pc = "flush"
    /\ s.queue = <<>>
    /\ pc' = "closed"
    /\ s' = [s EXCEPT !.state = "DESTROY"]
    /\ UNCHANGED <<fed, isn, ontime>>

Loop == \/ DrainRetransmission \/ DrainData \/ DrainBlocked \/ DrainEmpty
        \/ WindowPad \/ WindowDone \/ FlushPad \/ FlushDone

Next ==
    \/ \E p \in Packets : ArriveEmpty(p) \/ ArriveData(p)
    \/ DrainRetransmission
    \/ DrainData
    \/ DrainBlocked
    \/ DrainEmpty
    \/ WindowPad
    \/ WindowDone
    \/ Flush
    \/ FlushPad
    \/ FlushDone

\* The C code runs once it has been entered; packets and the flush come
\* from outside and are not owed.
Spec == Init /\ [][Next]_vars /\ WF_vars(Loop)
-----------------------------------------------------------------------------
(***************************************************************************)
(* What the reassembled stream contains.  A data callback writes its pad   *)
(* zeros at positions at .. at + pad - 1 and its payload after them.       *)
(***************************************************************************)
DataEvents == {k \in 1 .. Len(s.out) : s.out[k].kind = "data"}
Payload(e) == e.at + e.pad .. e.at + e.len - 1

IsDelivered(b) == \E k \in DataEvents : b \in Payload(s.out[k])
IsQueued(b)    == \E k \in 1 .. Len(s.queue) : b \in Bytes(s.queue[k])

EventType == [kind : {"est", "data", "retran"}, at : Int, seq : Int,
              len : Int, pad : Int]

\* Every variable stays in its type.
TypeOK ==
    /\ s \in [next_seq : 0 .. SeqSpace - 1, queue : Seq(PacketType),
              state : StreamStates, out : Seq(EventType)]
    /\ pc \in {"ready", "drain", "window", "flush", "closed"}
    /\ fed \in 0 .. MaxPackets
    /\ isn \in 0 .. SeqSpace - 1
    /\ ontime \subseteq Int

\* The capture does not cross the end of the sequence space.
NoWrap == \A p \in Packets : p.seq + p.data_len + 1 < HalfSeq

\* No segment is longer than the widest gap that is padded.
ShortSegments == \A p \in Packets : p.data_len <= MaxPad

(***************************************************************************)
(* "This means we favour old packets": once a position of the reassembled  *)
(* stream has been written, with payload or with padding, no later data    *)
(* callback writes it again; every payload byte is written at its own      *)
(* sequence number, whatever trimming and padding it went through.         *)
(***************************************************************************)
FavourOldPackets ==
    /\ \A k \in DataEvents : s.out[k].at + s.out[k].pad = s.out[k].seq
    /\ \A j, k \in DataEvents : j < k => s.out[j].at + s.out[j].len <= s.out[k].at

(***************************************************************************)
(* Every byte that arrives before the stream has passed its position is    *)
(* delivered there when the stream does pass, or is still queued: neither  *)
(* trimming, padding, the window loop nor the final flush loses it, and    *)
(* zeros only ever stand for bytes that had not arrived.                   *)
(***************************************************************************)
OnTimeBytesKept ==
    \A b \in ontime : IF b < s.next_seq THEN IsDelivered(b) ELSE IsQueued(b)

(***************************************************************************)
(* The callbacks leave a hole in the stream (bytes neither delivered nor   *)
(* padded) only where pad_to_first_packet found more than MaxPad missing.  *)
(***************************************************************************)
Written == UNION {s.out[k].at .. s.out[k].at + s.out[k].len - 1 : k \in DataEvents}
HolesAreWide ==
    \A b \in (isn .. s.next_seq - 1) \ Written :
        \E lo \in isn .. b, hi \in b .. s.next_seq - 1 :
            /\ hi - lo >= MaxPad
            /\ \A c \in lo .. hi : c \notin Written

(***************************************************************************)
(* "Have we processed the entire packet before? it could be a              *)
(* retransmission we can drop it": a packet with data is only reported as  *)
(* a retransmission when the stream has passed every byte of it that is    *)
(* not older than the stream itself.                                       *)
(***************************************************************************)
Passed(n) == U32(n - isn) < U32(s.next_seq - isn)
RetransmissionWasProcessed ==
    \A k \in 1 .. Len(s.out) :
        s.out[k].kind = "retran" =>
            \A i \in 0 .. s.out[k].len - 1 :
                LET n == U32(s.out[k].seq + i) IN n >= isn => Passed(n)

\* The queue is ordered by sequence number (the comment on the insertion).
QueueSorted ==
    \A j, k \in 1 .. Len(s.queue) : j < k => s.queue[j].seq <= s.queue[k].seq

(***************************************************************************)
(* Each call returns: the drain, window and flush loops terminate, also    *)
(* when pad_to_first_packet only moves next_seq and keeps the packet.      *)
(***************************************************************************)
LoopsEnd == pc \in {"drain", "window", "flush"} ~> pc \in {"ready", "closed"}

-----------------------------------------------------------------------------
(***************************************************************************)
(* The inductive invariant behind FavourOldPackets and OnTimeBytesKept,    *)
(* under NoWrap and ShortSegments.                                         *)
(***************************************************************************)
\* A stream that has not been established has done nothing.
Fresh == s.state = "NONE" => s.queue = <<>> /\ s.out = <<>> /\ ontime = {}

\* Queued packets carry data and stay clear of the wrap.
QueueBounded ==
    \A k \in 1 .. Len(s.queue) : /\ s.queue[k].data_len \in 1 .. MaxPad
                                 /\ s.queue[k].seq + s.queue[k].data_len < HalfSeq

\* Nothing has been written at or beyond next_seq.
WrittenBehind ==
    \A k \in DataEvents : /\ s.out[k].pad >= 0
                          /\ s.out[k].at + s.out[k].len <= s.next_seq

(***************************************************************************)
(* Outside the drain loop the queue never lags more than MaxPad behind     *)
(* next_seq, so pad_to_first_packet never moves next_seq backwards.        *)
(***************************************************************************)
QueueClose ==
    pc \in {"ready", "window", "flush"} =>
        \A k \in 1 .. Len(s.queue) : s.next_seq <= s.queue[k].seq + MaxPad

StreamInv ==
    /\ s.next_seq < HalfSeq
    /\ Fresh
    /\ QueueSorted
    /\ QueueBounded
    /\ WrittenBehind
    /\ FavourOldPackets
    /\ OnTimeBytesKept

\* The conjunction that every step preserves.
IInv == TypeOK /\ StreamInv /\ QueueClose

(***************************************************************************)
(* What HolesAreWide and RetransmissionWasProcessed rest on besides: the   *)
(* stream never falls back behind its start, and a packet with data that   *)
(* was reported as a retransmission ends at or before next_seq.            *)
(***************************************************************************)
BehindNext(e) ==
    e.kind = "retran" /\ e.len # 0 => 0 <= e.seq /\ e.seq + e.len <= s.next_seq
DroppedBehind == \A k \in 1 .. Len(s.out) : BehindNext(s.out[k])

ProgressInv == IInv /\ isn <= s.next_seq /\ DroppedBehind /\ HolesAreWide
=============================================================================
