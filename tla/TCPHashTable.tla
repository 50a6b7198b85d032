---------------------------- MODULE TCPHashTable ----------------------------
(***************************************************************************)
(* The connection table of the stream reassembler (TCPHashTable in         *)
(* src/network/tcp.c) with the callback of src/network/reassembler.c that  *)
(* carries its events into Python, to NetworkScanner: finding and creating *)
(* streams, the two limits, the expiry of idle streams, flush and          *)
(* deallocation.                                                           *)
(*                                                                         *)
(* The C struct is the record hash; a handler is a composition of          *)
(* functions on it, in the order of the calls in the code:                 *)
(*   table    bucket number -> list of the streams hashed there            *)
(*   sorted   the global list of streams, most recently used first         *)
(*   streams  con_id -> TCPStream, for the streams that are allocated      *)
(*   tcp      con_id -> what TCPStream_add changes of it                   *)
(* plus the counters of reassembler_configuration.  The reverse direction  *)
(* of connection f is stream f + 1: find_stream numbers them in one go.    *)
(* total_size is left out: its only readers are disabled by "1 ||".        *)
(***************************************************************************)
EXTENDS TCPPacketQueue, NetworkScanner, SequencesExt, FiniteSetsExt

CONSTANTS
    Conns,          \* pairs of endpoints that talk to each other
    Bucket,         \* mkhash: Conns -> 1 .. TableSize, equal both ways round
    TableSize,      \* TCP_STREAM_TABLE_SIZE
    Udp,            \* the members of Conns that are UDP
    Segments,       \* the segments that may be sent on a connection
    Datagrams,      \* those that stand for UDP packets: only data_len matters
    MaxStreams,     \* max_number_of_streams
    MaxOutstanding, \* max_outstanding_skbuffs
    MaxExpired,     \* max_packets_expired
    MaxPackets      \* bound: packets in the capture

ASSUME TableAssumption ==
    /\ TableSize \in Nat \ {0}
    /\ Bucket \in [Conns -> 1 .. TableSize]
    /\ Udp \subseteq Conns
ASSUME LimitsAssumption ==
    /\ MaxStreams \in Nat /\ MaxStreams >= 2
    /\ MaxOutstanding \in Nat /\ MaxExpired \in Nat /\ MaxPackets \in Nat
ASSUME SegmentsAssumption ==
    Segments \subseteq [seq : 0 .. SeqSpace - 1, data_len : 0 .. HalfSeq - 1,
                        window : 0 .. HalfSeq - 1, syn : BOOLEAN]
ASSUME DatagramsAssumption == Datagrams \subseteq Segments

VARIABLES
    hash,      \* the table
    packets,   \* TCP and UDP packets processed so far
    closed     \* the Reassembler has been deallocated

vars == <<hash, packets, closed>>

Sides == {"client", "server"}
Other(side) == IF side = "client" THEN "server" ELSE "client"

Forward(id) == 2 * (id \div 2)   \* the forward stream of the pair
Reversed(id) == IF id = Forward(id) THEN id + 1 ELSE id - 1
-----------------------------------------------------------------------------
(***************************************************************************)
(* TCPStream_add on one stream, and pad_data.  Each loop of the code is    *)
(* its body repeated until it changes nothing; pad_to_first_packet can     *)
(* need two turns for a packet.                                            *)
(***************************************************************************)
Repeat(Body(_), s, n) ==
    LET turn[i \in 0 .. n] == IF i = 0 THEN s ELSE Body(turn[i - 1]) IN turn[n]

\* Map m with the new entries.
With(m, new) ==
    [x \in DOMAIN m \cup DOMAIN new |-> IF x \in DOMAIN new THEN new[x] ELSE m[x]]

\* The last event also says where the payload of its packet starts
\* (data_offset, which trimming and padding leave alone).
WithStart(out, seq) == [out EXCEPT ![Len(out)] = With(@, [start |-> seq])]

\* t is s after its first packet was handled, with an event or without.
WithOffset(s, t) ==
    IF Len(t.out) = Len(s.out) THEN t
    ELSE [t EXCEPT !.out = WithStart(@, Head(s.queue).seq)]

DrainBody(s) ==
    IF s.queue = <<>> THEN s
    ELSE IF SeenBefore(s) THEN WithOffset(s, DropRetransmission(s))
    ELSE IF HasData(s) THEN WithOffset(s, DeliverFirst(s))
    ELSE s

WindowBody(s) ==
    IF s.queue # <<>> /\ WindowExceeded(s) THEN WithOffset(s, PadToFirstPacket(s)) ELSE s

PadBody(s) == IF s.queue = <<>> THEN s ELSE WithOffset(s, PadToFirstPacket(s))

AddTCP(s, p, id) ==
    IF p.data_len = 0
    THEN [s EXCEPT !.state = "RETRANSMISSION", !.out = Callback(s, "retran", p, 0)]
    ELSE LET new     == [seq |-> p.seq, data_len |-> p.data_len, window |-> p.window]
             queued  == [s EXCEPT !.queue = Insert(s.queue, new),
                                  !.max_packet_id = id]
             drained == Repeat(DrainBody, queued, Len(queued.queue))
         IN  Repeat(WindowBody, drained, 2 * Len(drained.queue))

\* UDPStream_add passes the packet on and records nothing but next_seq.
AddUDP(s, p) ==
    [s EXCEPT !.state = "DATA",
              !.out = WithStart(Callback(s, "data", p, 0), p.seq),
              !.next_seq = U32(s.next_seq + p.data_len)]

PadData(s) == Repeat(PadBody, s, 2 * Len(s.queue))

-----------------------------------------------------------------------------
(***************************************************************************)
(* The callback into Python.  py holds what the Callback of NetworkScanner *)
(* keeps of each connection; what it has made of a connection that is      *)
(* freed can be seen until the next call of the reassembler.               *)
(***************************************************************************)
Forwards(h) == {i \in DOMAIN h.streams : h.streams[i].direction = "FORWARD"}

Forget(h) == [h EXCEPT !.py   = Restrict(@, Forwards(h)),
                       !.seen = Restrict(@, Forwards(h))]

Tell(h, id, e) == [h EXCEPT !.py[Forward(id)] = PyCallback(@, id - Forward(id), e)]

\* The callbacks for one event after the other.
Told(con, d, events) ==
    LET after[k \in 0 .. Len(events)] ==
            IF k = 0 THEN con ELSE PyCallback(after[k - 1], d, events[k])
    IN  after[Len(events)]

TellAll(h, id, events) ==
    [h EXCEPT !.py[Forward(id)] = Told(@, id - Forward(id), events)]

\* PYTCP_JUST_EST: the property dictionaries of both directions are made
\* together, by whichever direction is seen first.
CallbackEst(h, id) ==
    LET f == Forward(id)
        g == IF h.streams[id].object THEN h
             ELSE [h EXCEPT !.streams[f].object     = TRUE,
                            !.streams[f + 1].object = TRUE,
                            !.objects = @ + 1]
    IN  Tell(g, id, [kind |-> "est", urn |-> <<h.streams[id].conn, h.streams[id].side>>])

\* PYTCP_DATA and PYTCP_RETRANSMISSION: dropped without a dictionary.
CallbackPackets(h, id, events) ==
    IF h.streams[id].object THEN TellAll(h, id, events) ELSE h

\* Mutant: the dictionaries stay counted.
CallbackDestroyUncounted(h, id) ==
    LET f == Forward(id)
    IN  IF ~h.streams[id].object THEN h
        ELSE [Tell(h, id, [kind |-> "destroy"]) EXCEPT
                !.streams[f].object = FALSE, !.streams[f + 1].object = FALSE]

\* PYTCP_DESTROY: clears both dictionaries.
CallbackDestroy(h, id) ==
    LET f == Forward(id)
    IN  IF ~h.streams[id].object THEN h
        ELSE [Tell(h, id, [kind |-> "destroy"]) EXCEPT
                !.streams[f].object = FALSE, !.streams[f + 1].object = FALSE,
                !.objects = @ - 1]

\* Stream id becomes s; its callbacks are made and its skbuffs accounted for.
Run(h, id, s) ==
    CallbackPackets([h EXCEPT !.tcp[id]     = [s EXCEPT !.out = <<>>],
                              !.outstanding = @ + Len(s.queue) - Len(h.tcp[id].queue)],
                    id, s.out)

-----------------------------------------------------------------------------
(***************************************************************************)
(* talloc_free of forward stream f: its destructor TCPStream_flush.        *)
(***************************************************************************)
ListDel(list, id)  == RemoveFirst(list, id)
ListMove(list, id) == <<id>> \o ListDel(list, id)

\* Mutant: the reverse stream stays on the global list.
FlushStreamForward(h, f) ==
    LET a == Run(h, f, PadData(h.tcp[f]))
        b == Run(a, f + 1, PadData(a.tcp[f + 1]))
        c == CallbackDestroy([b EXCEPT !.tcp[f].state = "DESTROY"], f)
        d == CallbackDestroy([c EXCEPT !.tcp[f + 1].state = "DESTROY"], f + 1)
        k == Bucket[h.streams[f].conn]
    IN  [d EXCEPT !.table[k]      = ListDel(ListDel(@, f), f + 1),
                  !.sorted        = ListDel(@, f),
                  !.streams       = Restrict(@, DOMAIN @ \ {f, f + 1}),
                  !.tcp           = Restrict(@, DOMAIN @ \ {f, f + 1}),
                  !.total_streams = @ - 2]

FlushStream(h, f) ==
    LET a == Run(h, f, PadData(h.tcp[f]))
        b == Run(a, f + 1, PadData(a.tcp[f + 1]))
        c == CallbackDestroy([b EXCEPT !.tcp[f].state = "DESTROY"], f)
        d == CallbackDestroy([c EXCEPT !.tcp[f + 1].state = "DESTROY"], f + 1)
        k == Bucket[h.streams[f].conn]
    IN  [d EXCEPT !.table[k]      = ListDel(ListDel(@, f), f + 1),
                  !.sorted        = ListDel(ListDel(@, f), f + 1),
                  !.streams       = Restrict(@, DOMAIN @ \ {f, f + 1}),
                  !.tcp           = Restrict(@, DOMAIN @ \ {f, f + 1}),
                  !.total_streams = @ - 2]

-----------------------------------------------------------------------------
(***************************************************************************)
(* find_stream.  A stream that is found moves to the front of the global   *)
(* list, its reverse in front of it.                                       *)
(***************************************************************************)
FirstIn(list, S) == SelectInSeq(list, LAMBDA i : i \in S)

IndexOf(h, c, side) ==
    FirstIn(h.table[Bucket[c]],
            {i \in DOMAIN h.streams : h.streams[i].conn = c /\ h.streams[i].side = side})

\* Mutant: a stream that is found keeps its place.
MoveNothing(h, id) == h

MoveToFront(h, id) ==
    [h EXCEPT !.sorted = ListMove(ListMove(@, id), Reversed(id))]

NewStream(c, side, direction) ==
    [conn |-> c, side |-> side, direction |-> direction, object |-> FALSE]
NewTcp == [next_seq |-> 0, queue |-> <<>>, state |-> "NONE", max_packet_id |-> 0, out |-> <<>>]

CreatePair(h, c, side) ==
    LET f == h.con_id
    IN  [h EXCEPT
           !.con_id  = f + 2,
           !.streams = With(@, [i \in {f, f + 1} |->
                                  IF i = f THEN NewStream(c, side, "FORWARD")
                                  ELSE NewStream(c, Other(side), "REVERSE")]),
           !.tcp     = With(@, [i \in {f, f + 1} |-> NewTcp]),
           !.table[Bucket[c]] = @ \o <<f, f + 1>>,
           !.sorted           = <<f + 1, f>> \o @,
           !.total_streams    = @ + 2,
           !.py               = With(@, [i \in {f} |-> NoMaps]),
           !.seen             = With(@, [i \in {f} |-> 0])]

\* The table after the search, and the stream it returns.
FindStream(h, c, side) ==
    LET n == IndexOf(h, c, side)
        r == IndexOf(h, c, Other(side))
        id  == h.table[Bucket[c]][n]
        rev == h.table[Bucket[c]][r]
    IN  IF n # 0 THEN [h |-> MoveToFront(h, id), id |-> id]
        ELSE IF r # 0 THEN [h |-> MoveToFront(h, rev), id |-> Reversed(rev)]
        ELSE [h |-> CreatePair(h, c, side), id |-> h.con_id]

-----------------------------------------------------------------------------
(* The rest of TCPHashTable_process.                                        *)

\* A stream in state NONE is established by its first packet.
Establish(h, id, p) ==
    LET s == h.tcp[id]
        t == IF h.streams[id].conn \in Udp THEN s
             ELSE [s EXCEPT !.next_seq = IF p.syn THEN U32(p.seq + 1) ELSE p.seq]
    IN  IF s.state # "NONE" THEN h
        ELSE [CallbackEst([h EXCEPT !.tcp[id] = [t EXCEPT !.state = "JUST_EST"]], id)
                EXCEPT !.tcp[id].state = "DATA"]

\* Mutant: TCP packets are passed on as they come, too.
AddUnordered(h, id, p, packet_id) == Run(h, id, AddUDP(h.tcp[id], p))

Add(h, id, p, packet_id) ==
    LET s == h.tcp[id]
    IN  Run(h, id, IF h.streams[id].conn \in Udp THEN AddUDP(s, p)
                   ELSE AddTCP(s, p, packet_id))

\* The last forward stream of the global list.
ExpireOldestStream(h) ==
    LET n == SelectLastInSeq(h.sorted, LAMBDA i : i \in Forwards(h))
    IN  IF n = 0 THEN h ELSE FlushStream(h, h.sorted[n])

\* Mutant: only the queued packets are limited.
EnforceOutstanding(h) ==
    IF h.outstanding > MaxOutstanding THEN ExpireOldestStream(h) ELSE h

EnforceLimits(h) ==
    IF h.total_streams > MaxStreams \/ h.outstanding > MaxOutstanding
    THEN ExpireOldestStream(h) ELSE h

\* In every bucket, the first forward stream that has not queued a packet
\* for MaxExpired packet ids is freed.
ExpireInBucket(h, k, id) ==
    LET n == FirstIn(h.table[k],
                     {i \in Forwards(h) : h.tcp[i].max_packet_id + MaxExpired < id})
    IN  IF n = 0 THEN h ELSE FlushStream(h, h.table[k][n])

CheckForExpired(h, id) ==
    LET after[k \in 0 .. TableSize] ==
            IF k = 0 THEN h ELSE ExpireInBucket(after[k - 1], k, id)
    IN  after[TableSize]

CountPacket(h, id) ==
    IF h.packets_processed + 1 > 2 * MaxExpired
    THEN [CheckForExpired(h, id) EXCEPT !.packets_processed = 0]
    ELSE [h EXCEPT !.packets_processed = @ + 1]

(***************************************************************************)
(* The id of the n-th packet.  The member id of class IP is the one that   *)
(* tcp.c reads; it is assigned nowhere, so it keeps the zero of the static *)
(* class template that CONSTRUCT copies.                                   *)
(***************************************************************************)
IpId(n) == 0

\* history: when the connection was last heard of, in either direction.
Touch(h, id, n) == [h EXCEPT !.seen[Forward(id)] = n]

\* TCPHashTable_process of the n-th packet.
Processed(h, c, side, p, n) ==
    LET found == FindStream(Forget(h), c, side)
        id    == found.id
        added == Add(Establish(Touch(found.h, id, n), id, p), id, p, IpId(n))
    IN  CountPacket(EnforceLimits(added), IpId(n))

-----------------------------------------------------------------------------
Init ==
    /\ hash = [table |-> [k \in 1 .. TableSize |-> <<>>], sorted |-> <<>>,
               streams |-> <<>>, tcp |-> <<>>, con_id |-> 0, packets_processed |-> 0,
               total_streams |-> 0, outstanding |-> 0, objects |-> 0,
               py |-> <<>>, seen |-> <<>>]
    /\ packets = 0
    /\ closed = FALSE

(***************************************************************************)
(* A TCP or UDP packet reaches Reassembler.process.  Any other packet is   *)
(* reported as "misc" and leaves the table as it is.                       *)
(***************************************************************************)
Process(c, side, p) ==
    /\ ~closed
    /\ packets < MaxPackets
    /\ c \in Udp => p \in Datagrams
    /\ packets' = packets + 1
    /\ hash' = Processed(hash, c, side, p, packets + 1)
    /\ UNCHANGED closed

\* Reassembler.flush: TCPHashTable_flush frees one connection per bucket.
FlushBucket(h, k) ==
    LET n == FirstIn(h.table[k], Forwards(h))
    IN  IF n = 0 THEN h ELSE FlushStream(h, h.table[k][n])

FlushBuckets(h) ==
    LET after[k \in 0 .. TableSize] ==
            IF k = 0 THEN h ELSE FlushBucket(after[k - 1], k)
    IN  after[TableSize]

FlushTable ==
    /\ ~closed
    /\ hash' = FlushBuckets(Forget(hash))
    /\ UNCHANGED <<packets, closed>>

\* talloc_free of the table frees every stream, the youngest first.
FreeStreams(h) ==
    LET after[k \in 0 .. h.con_id] ==
            IF k = 0 THEN h
            ELSE IF h.con_id - k \in Forwards(h) THEN FlushStream(after[k - 1], h.con_id - k)
            ELSE after[k - 1]
    IN  after[h.con_id]

\* Mutant: deallocation relies on TCPHashTable_flush.
DeallocByFlush ==
    /\ ~closed
    /\ closed' = TRUE
    /\ hash' = FlushBuckets(hash)
    /\ UNCHANGED packets

\* Reassembler_dealloc.
Dealloc ==
    /\ ~closed
    /\ closed' = TRUE
    /\ hash' = FreeStreams(Forget(hash))
    /\ UNCHANGED packets

Next ==
    \/ \E c \in Conns, side \in Sides, p \in Segments : Process(c, side, p)
    \/ FlushTable
    \/ Dealloc

Spec == Init /\ [][Next]_vars
-----------------------------------------------------------------------------
Live == DOMAIN hash.streams
Connections == Forwards(hash)

\* The skbuffs in the queues, each as its stream and its place there.
Queued(h) == UNION {{i} \X (1 .. Len(h.tcp[i].queue)) : i \in DOMAIN h.tcp}

(***************************************************************************)
(* The two lists hold the allocated streams and nothing else, each stream  *)
(* once, in the bucket of its endpoints, together with its reverse; and no *)
(* two connections have the same endpoints.  So a freed stream is never    *)
(* reached through a list, and find_stream finds the one stream there is.  *)
(***************************************************************************)
ListsAgree ==
    /\ ToSet(hash.sorted) = Live /\ IsInjective(hash.sorted)
    /\ \A k \in 1 .. TableSize :
          /\ ToSet(hash.table[k]) = {i \in Live : Bucket[hash.streams[i].conn] = k}
          /\ IsInjective(hash.table[k])
    /\ \A i \in Live : Reversed(i) \in Live
    /\ \A i, j \in Live :
          (hash.streams[i].conn = hash.streams[j].conn
           /\ hash.streams[i].side = hash.streams[j].side) => i = j

(***************************************************************************)
(* The counters of reassembler_configuration, which decide what is         *)
(* expired, agree with what is allocated: streams, queued skbuffs, and     *)
(* pairs of Python dictionaries.                                           *)
(***************************************************************************)
CountersExact ==
    /\ hash.total_streams = Cardinality(Live)
    /\ hash.outstanding = Cardinality(Queued(hash))
    /\ hash.objects = Cardinality({i \in Connections : hash.streams[i].object})

(***************************************************************************)
(* Python sees every connection once: established before any data,         *)
(* destroyed exactly once and when the stream is freed, whichever of the   *)
(* limit, the flush and the deallocation frees it, and nothing after.  The *)
(* two directions of a connection that carried data are closed and posted  *)
(* for scanning once, then, including the data that was still queued.      *)
(***************************************************************************)
ScannedOnce ==
    \A f \in DOMAIN hash.py :
        LET con   == hash.py[f]
            ended == f \notin Live
        IN  /\ con.state = IF ~ended THEN "open"
                           ELSE IF HasBytes(con) THEN "closed" ELSE "dropped"
            /\ con.jobs = IF ended /\ HasBytes(con) THEN <<0, 1>> ELSE <<>>

(***************************************************************************)
(* A map lists the bytes of its own direction in the order of their        *)
(* sequence numbers, none twice, as long as no packet had to be trimmed or *)
(* padded: whatever order the packets came in, from both directions and    *)
(* other connections in between.                                           *)
(***************************************************************************)
Whole(r) == r.start = r.seq /\ r.pad = 0

MapInOrder ==
    \A f \in DOMAIN hash.py : \A d \in 0 .. 1 :
        LET m == hash.py[f].map[d]
        IN  (hash.py[f].urn[1] \notin Udp /\ \A i \in 1 .. Len(m) : Whole(m[i])) =>
               \A i, j \in 1 .. Len(m) : i < j => m[i].seq + m[i].len <= m[j].seq

(***************************************************************************)
(* "This limits the total number of simultaneous streams": between two     *)
(* packets there are never more than MaxStreams, though one packet adds    *)
(* two and at most one connection is expired for it.  The queued packets   *)
(* stay bounded too: expiring one connection per packet keeps the excess   *)
(* over max_outstanding_skbuffs below the number of connections, because   *)
(* each expiry uses up one.                                                *)
(***************************************************************************)
WithinLimits ==
    /\ hash.total_streams <= MaxStreams
    /\ hash.outstanding > MaxOutstanding =>
          hash.outstanding - MaxOutstanding + Cardinality(Connections) <= MaxStreams \div 2

(***************************************************************************)
(* The global list "is kept ordered by use time so we can expire older     *)
(* connections": a connection heard of later, in either direction, stands  *)
(* before one heard of earlier, so the limits expire the quietest one.     *)
(***************************************************************************)
SortedByUse ==
    \A j, k \in 1 .. Len(hash.sorted) :
        j < k => hash.seen[Forward(hash.sorted[j])] >= hash.seen[Forward(hash.sorted[k])]

\* Deallocation leaves nothing behind: no stream, skbuff or dictionary.
NothingLeaks ==
    closed => hash.total_streams = 0 /\ hash.outstanding = 0 /\ hash.objects = 0

-----------------------------------------------------------------------------
(* What comments say and the code does not do.                              *)

(***************************************************************************)
(* The scanner's map gives the stream that was reassembled: every range it *)
(* lists starts at the first byte the reassembler delivered for it, and    *)
(* has none in front of it that the reassembler filled with zeros.         *)
(***************************************************************************)
MapHoldsStream ==
    \A f \in DOMAIN hash.py : \A d \in 0 .. 1 :
        \A i \in 1 .. Len(hash.py[f].map[d]) : Whole(hash.py[f].map[d][i])
=============================================================================
