------------------------- MODULE TCPHashTableProof -------------------------
(***************************************************************************)
(* Proofs about the connection table of the stream reassembler.            *)
(***************************************************************************)
EXTENDS TCPHashTable, SequenceTheorems, FiniteSetTheorems, TLAPS

-----------------------------------------------------------------------------
(* What the operators of the packet queue return.                          *)

\* A reduced sum or difference of two sequence numbers is a sequence number.
LEMMA U32Type ==
    ASSUME NEW x \in Int, -SeqSpace <= x, x < 2 * SeqSpace
    PROVE  U32(x) \in 0 .. SeqSpace - 1
  BY HalfSeqAssumption DEF U32, SeqSpace

\* Inserting one packet into the queue (list_add after the candidate).
LEMMA AddAfterFacts ==
    ASSUME NEW q \in Seq(PacketType), NEW p \in PacketType, NEW n \in 0 .. Len(q)
    PROVE  /\ AddAfter(q, p, n) \in Seq(PacketType)
           /\ Len(AddAfter(q, p, n)) = Len(q) + 1
           /\ \A k \in 1 .. n : AddAfter(q, p, n)[k] = q[k]
           /\ AddAfter(q, p, n)[n + 1] = p
           /\ \A k \in n + 2 .. Len(q) + 1 : AddAfter(q, p, n)[k] = q[k - 1]
  <1> DEFINE a == SubSeq(q, 1, n)
             c == SubSeq(q, n + 1, Len(q))
  <1>1. /\ a \in Seq(PacketType) /\ Len(a) = n
        /\ \A k \in 1 .. n : a[k] = q[k]
    OBVIOUS
  <1>2. /\ c \in Seq(PacketType) /\ Len(c) = Len(q) - n
        /\ \A k \in 1 .. Len(q) - n : c[k] = q[n + k]
    OBVIOUS
  <1>3. <<p>> \in Seq(PacketType) /\ Len(<<p>>) = 1 /\ <<p>>[1] = p
    OBVIOUS
  <1> HIDE DEF a, c
  <1> DEFINE d == a \o <<p>>
  <1>4. /\ d \in Seq(PacketType)
        /\ Len(d) = n + 1
        /\ \A k \in 1 .. n : d[k] = q[k]
        /\ d[n + 1] = p
    BY <1>1, <1>3
  <1> HIDE DEF d
  <1>5. d \o c \in Seq(PacketType) /\ Len(d \o c) = Len(q) + 1
    BY <1>2, <1>4
  <1>6. \A k \in 1 .. n + 1 : (d \o c)[k] = d[k]
    BY <1>2, <1>4
  <1>7. ASSUME NEW k \in n + 2 .. Len(q) + 1
        PROVE  (d \o c)[k] = q[k - 1]
    <2>1. (d \o c)[k] = c[k - (n + 1)]
      BY <1>2, <1>4
    <2>2. k - (n + 1) \in 1 .. Len(q) - n /\ n + (k - (n + 1)) = k - 1
      OBVIOUS
    <2> QED BY <2>1, <2>2, <1>2
  <1>8. AddAfter(q, p, n) = d \o c
    BY DEF d, a, c, AddAfter
  <1> QED BY <1>4, <1>5, <1>6, <1>7, <1>8

\* The tail of the queue (list_del of the first skbuff).
LEMMA TailFacts ==
    ASSUME NEW T, NEW q \in Seq(T), q # <<>>
    PROVE  /\ Len(q) \in Nat \ {0}
           /\ Head(q) \in T /\ Head(q) = q[1]
           /\ Tail(q) \in Seq(T)
           /\ Len(Tail(q)) = Len(q) - 1
           /\ \A k \in 1 .. Len(q) - 1 : Tail(q)[k] = q[k + 1]
  OBVIOUS

\* One more callback in the log.
LEMMA AppendFacts ==
    ASSUME NEW T, NEW q \in Seq(T), NEW e \in T
    PROVE  /\ Append(q, e) \in Seq(T)
           /\ Len(Append(q, e)) = Len(q) + 1
           /\ \A k \in 1 .. Len(q) : Append(q, e)[k] = q[k]
           /\ Append(q, e)[Len(q) + 1] = e
  OBVIOUS

\* Away from the wrap the reduction changes nothing.
LEMMA U32Small ==
    ASSUME NEW x \in Int, 0 <= x, x < SeqSpace
    PROVE  U32(x) = x
  BY HalfSeqAssumption DEF U32, SeqSpace

\* Away from the wrap the signed distance is the difference.
LEMMA I32Small ==
    ASSUME NEW x \in Int, -HalfSeq <= x, x < HalfSeq
    PROVE  I32(x) = x
  BY HalfSeqAssumption DEF U32, I32, SeqSpace

\* A trimmed packet is a packet.
LEMMA TrimType ==
    ASSUME NEW p \in PacketType, NEW n \in 0 .. SeqSpace - 1
    PROVE  Trim(p, n) \in PacketType
  <1>1. U32(p.seq + n) \in 0 .. SeqSpace - 1
    <2>1. p.seq \in 0 .. SeqSpace - 1
      BY DEF PacketType
    <2>2. SeqSpace \in Nat
      BY HalfSeqAssumption DEF SeqSpace
    <2> QED BY <2>1, <2>2, U32Type
  <1>2. (IF p.data_len > n THEN p.data_len - n ELSE 0) \in 0 .. HalfSeq - 1
    BY HalfSeqAssumption DEF PacketType, SeqSpace
  <1> QED BY <1>1, <1>2 DEF Trim, PacketType

-----------------------------------------------------------------------------
(* The invariant of the table, as a predicate on the record.                *)

\* The list holds the members of S, each once.
Lists(list, S) ==
    /\ list \in Seq(S)
    /\ \A x \in S : \E i \in 1 .. Len(list) : list[i] = x
    /\ \A i, j \in 1 .. Len(list) : list[i] = list[j] => i = j

\* Every two elements of list m stand in list l in the same order.
Within(m, l) ==
    \A i, j \in 1 .. Len(m) :
        i < j => \E a, b \in 1 .. Len(l) : a < b /\ l[a] = m[i] /\ l[b] = m[j]

Fields == {"table", "sorted", "streams", "tcp", "con_id", "packets_processed",
           "total_streams", "outstanding", "objects", "py", "seen"}

StreamInfo == [conn : Conns, side : Sides, direction : {"FORWARD", "REVERSE"},
               object : BOOLEAN]

InBucket(h, k) == {i \in DOMAIN h.streams : Bucket[h.streams[i].conn] = k}

\* The record has its fields; con_id is even and above every stream.
Typed(h) ==
    /\ DOMAIN h = Fields
    /\ h.con_id \in Nat /\ Forward(h.con_id) = h.con_id
    /\ h.streams \in [DOMAIN h.streams -> StreamInfo]
    /\ DOMAIN h.table = 1 .. TableSize
    /\ \A i \in DOMAIN h.streams : i \in Nat /\ i < h.con_id

\* A stream is allocated together with its reverse, the even one forward.
Paired(h) ==
    \A i \in DOMAIN h.streams :
        /\ Reversed(i) \in DOMAIN h.streams
        /\ h.streams[Reversed(i)].conn = h.streams[i].conn
        /\ h.streams[Reversed(i)].side = Other(h.streams[i].side)
        /\ h.streams[i].direction = "FORWARD" <=> i = Forward(i)

\* No two streams have the same endpoints.
Distinct(h) ==
    \A i, j \in DOMAIN h.streams :
        h.streams[i].conn = h.streams[j].conn /\ h.streams[i].side = h.streams[j].side
            => i = j

\* The two lists hold what is allocated.
Listed(h) ==
    /\ Lists(h.sorted, DOMAIN h.streams)
    /\ \A k \in 1 .. TableSize : Lists(h.table[k], InBucket(h, k))

Well(h) == Typed(h) /\ Paired(h) /\ Distinct(h) /\ Listed(h)

\* The global list is ordered by use, and no use is later than packet n.
Ordered(h, n) ==
    /\ \A i \in DOMAIN h.streams :
          Forward(i) \in DOMAIN h.seen /\ h.seen[Forward(i)] \in 0 .. n
    /\ \A j, k \in 1 .. Len(h.sorted) :
          j < k => h.seen[Forward(h.sorted[j])] >= h.seen[Forward(h.sorted[k])]

\* h differs from g in nothing but what the callbacks and TCPStream_add change.
SameTable(g, h) ==
    /\ DOMAIN h = Fields
    /\ h.table = g.table /\ h.sorted = g.sorted /\ h.con_id = g.con_id /\ h.seen = g.seen
    /\ h.total_streams = g.total_streams
    /\ DOMAIN h.streams = DOMAIN g.streams
    /\ h.streams \in [DOMAIN h.streams -> StreamInfo]
    /\ \A i \in DOMAIN g.streams :
          /\ h.streams[i].conn = g.streams[i].conn
          /\ h.streams[i].side = g.streams[i].side
          /\ h.streams[i].direction = g.streams[i].direction

\* The events TCPStream_add and pad_data make: data and retransmissions.
Packets(out) ==
    /\ out \in Seq(ToSet(out))
    /\ \A i \in 1 .. Len(out) :
          "kind" \in DOMAIN out[i] /\ out[i].kind \in {"data", "retran"}

\* What is kept of a stream.
Sound(s) ==
    /\ DOMAIN s = {"next_seq", "queue", "state", "max_packet_id", "out"}
    /\ s.next_seq \in 0 .. SeqSpace - 1
    /\ s.queue \in Seq(PacketType)
    /\ Packets(s.out)

WithObject(h) == {i \in Forwards(h) : h.streams[i].object}

StreamsTallied(h) ==
    /\ IsFiniteSet(DOMAIN h.streams)
    /\ h.total_streams = Cardinality(DOMAIN h.streams)

QueuesTallied(h) ==
    /\ DOMAIN h.tcp = DOMAIN h.streams
    /\ \A i \in DOMAIN h.tcp : Sound(h.tcp[i])
    /\ IsFiniteSet(Queued(h))
    /\ h.outstanding = Cardinality(Queued(h))

\* The two directions of a connection have their dictionaries together.
ObjectsTallied(h) ==
    /\ \A i \in DOMAIN h.streams : h.streams[Reversed(i)].object = h.streams[i].object
    /\ IsFiniteSet(WithObject(h))
    /\ h.objects = Cardinality(WithObject(h))

Tallied(h) == StreamsTallied(h) /\ QueuesTallied(h) /\ ObjectsTallied(h)

\* What the callback has made of a connection that is open, or has ended.
Open(con) ==
    DOMAIN con = {"state", "urn", "map", "jobs"} /\ con.state = "open" /\ con.jobs = <<>>

Ended(con) ==
    /\ con.state = IF HasBytes(con) THEN "closed" ELSE "dropped"
    /\ con.jobs = IF HasBytes(con) THEN <<0, 1>> ELSE <<>>

\* Those with a stream are open and have a dictionary, the others have
\* ended; X is left out.  A connection has the name of its forward stream.
ScannedBut(h, X) ==
    /\ \A f \in DOMAIN h.py : f = Forward(f)
    /\ \A f \in Forwards(h) \ X :
          f \in DOMAIN h.py /\ h.streams[f].object /\ Open(h.py[f])
    /\ \A f \in DOMAIN h.py \ (Forwards(h) \cup X) : Ended(h.py[f])

Scanned(h) == ScannedBut(h, {})

\* The pair of f is the only one of which the callback changes something.
OnlyPair(h, g, f) ==
    /\ Forwards(g) = Forwards(h) /\ DOMAIN g.py = DOMAIN h.py
    /\ \A i \in DOMAIN h.py : i # f => g.py[i] = h.py[i]
    /\ \A i \in Forwards(h) : i # f => g.streams[i].object = h.streams[i].object

-----------------------------------------------------------------------------
(* What the maps of the scanner rest on.                                    *)

\* The numbers of a stream stay in the lower half of the sequence space, its
\* queue is in their order, and no packet in it is longer than MaxPad.
Tame(s) ==
    /\ s.next_seq < HalfSeq
    /\ \A k \in 1 .. Len(s.queue) : /\ s.queue[k].seq + s.queue[k].data_len < HalfSeq
                                    /\ s.queue[k].data_len <= MaxPad
    /\ \A j, k \in 1 .. Len(s.queue) : j < k => s.queue[j].seq <= s.queue[k].seq
    /\ s.state = "NONE" => s.next_seq = 0 /\ s.queue = <<>>

\* No queued packet is so far behind that pad_to_first_packet would go back.
Near(s) == \A k \in 1 .. Len(s.queue) : s.next_seq <= s.queue[k].seq + MaxPad

\* The events of a call move the stream from n to m: those that were neither
\* trimmed nor padded follow each other in between.
IsWhole(e) == e.kind = "data" /\ Whole(e)

Chain(out, n, m) ==
    /\ n <= m
    /\ \A i \in 1 .. Len(out) :
          /\ out[i].kind = "data" => /\ out[i].start \in Int /\ out[i].seq \in Int
                                     /\ out[i].len \in Int /\ out[i].pad \in Int
          /\ IsWhole(out[i]) => n <= out[i].seq /\ out[i].seq + out[i].len <= m
    /\ \A i, j \in 1 .. Len(out) :
          i < j /\ IsWhole(out[i]) /\ IsWhole(out[j]) => out[i].seq + out[i].len <= out[j].seq

Ranges == [start : Int, len : Int, seq : Int, pad : Int]

InOrder(m) ==
    \A i, j \in 1 .. Len(m) :
        i < j /\ Whole(m[i]) /\ Whole(m[j]) => m[i].seq + m[i].len <= m[j].seq

\* A map in order that does not reach beyond n.
Fits(m, n) ==
    /\ m \in Seq(Ranges)
    /\ InOrder(m)
    /\ \A i \in 1 .. Len(m) : Whole(m[i]) => m[i].seq + m[i].len <= n

\* Stream i stands where its map ends, or later.
Kept(h, i) ==
    LET con == h.py[Forward(i)]
    IN  /\ Tame(h.tcp[i]) /\ Near(h.tcp[i])
        /\ DOMAIN con.map = 0 .. 1
        /\ Fits(con.map[i - Forward(i)], h.tcp[i].next_seq)

\* The maps of the TCP connections; the connections in X need not be named.
MappedBut(h, X) ==
    /\ \A i \in DOMAIN h.streams :
          h.tcp[i].out = <<>> /\ (h.streams[i].conn \notin Udp => Kept(h, i))
    /\ \A f \in Forwards(h) \ X : h.py[f].urn[1] = h.streams[f].conn
    /\ \A f \in DOMAIN h.py \ Forwards(h) :
          h.py[f].urn[1] \notin Udp => \A d \in 0 .. 1 : InOrder(h.py[f].map[d])

Mapped(h) == MappedBut(h, {})

\* g is h without some of its connections.
Keeps(h, g) ==
    /\ Well(g)
    /\ g.con_id = h.con_id
    /\ Forwards(g) \subseteq Forwards(h)
    /\ \A n : Ordered(h, n) => Ordered(g, n)
    /\ Tallied(h) => Tallied(g) /\ Queued(g) \subseteq Queued(h)
    /\ Tallied(h) /\ Scanned(h) => Scanned(g)
    /\ Tallied(h) /\ Scanned(h) /\ Mapped(h) => Mapped(g)

-----------------------------------------------------------------------------
(* The three loops over the table: their bodies, and what they keep of the  *)
(* table they start from.                                                   *)

ExpireStep(g, k, p) == ExpireInBucket(g, k, p[2])
ExpireKeeps(p, k, g) == Keeps(p[1], g)

FlushStep(g, k, h) == FlushBucket(g, k)
FlushKeeps(h, k, g) == Keeps(h, g)

FreeStep(g, k, h) ==
    IF h.con_id - k \in Forwards(h) THEN FlushStream(g, h.con_id - k) ELSE g
FreeKeeps(h, k, g) ==
    Keeps(h, g) /\ Forwards(g) = {f \in Forwards(h) : f < h.con_id - k}

Expiry == INSTANCE Iteration WITH Step <- ExpireStep, Holds <- ExpireKeeps
Flush  == INSTANCE Iteration WITH Step <- FlushStep, Holds <- FlushKeeps
Free   == INSTANCE Iteration WITH Step <- FreeStep, Holds <- FreeKeeps

-----------------------------------------------------------------------------
(* Least and greatest elements: the induction over data that is needed.     *)

\* A set of numbers up to n that is not empty has a greatest element.
LEMMA GreatestNumber ==
    ASSUME NEW n \in Nat, NEW T, T \subseteq 1 .. n, T # {}
    PROVE  \E x \in T : \A y \in T : y <= x
  <1> DEFINE U == {n - x : x \in T}
  <1>1. U \subseteq Nat /\ U # {}
    <2>1. \A x \in T : n - x \in Nat
      OBVIOUS
    <2>2. PICK x \in T : TRUE
      OBVIOUS
    <2>3. n - x \in U
      OBVIOUS
    <2> QED BY <2>1, <2>3
  <1> HIDE DEF U
  <1>2. PICK u \in U : \A v \in U : u <= v
    BY <1>1, Expiry!LeastNumber
  <1>3. PICK x \in T : u = n - x
    BY DEF U
  <1>4. ASSUME NEW y \in T PROVE y <= x
    <2>1. n - y \in U
      BY DEF U
    <2> QED BY <1>2, <1>3, <2>1
  <1> QED BY <1>4

\* The first element of a list that is in a set.
LEMMA FirstInFacts ==
    ASSUME NEW T, NEW list \in Seq(T), NEW S
    PROVE  \/ /\ FirstIn(list, S) = 0
              /\ \A i \in 1 .. Len(list) : list[i] \notin S
           \/ /\ FirstIn(list, S) \in 1 .. Len(list)
              /\ list[FirstIn(list, S)] \in S
  <1> DEFINE I == {i \in 1 .. Len(list) : list[i] \in S}
  <1>1. FirstIn(list, S) = IF I # {} THEN Min(I) ELSE 0
    BY DEF FirstIn, SelectInSeq
  <1>2. CASE I = {}
    BY <1>1, <1>2
  <1>3. CASE I # {}
    <2>1. I \subseteq Nat
      OBVIOUS
    <2>2. PICK x \in I : \A y \in I : x <= y
      BY <1>3, <2>1, Expiry!LeastNumber
    <2>3. Min(I) \in I
      BY <2>2 DEF Min
    <2> QED BY <1>1, <1>3, <2>3
  <1> QED BY <1>2, <1>3

\* The last one, which expire_oldest_stream looks for.
LEMMA LastInFacts ==
    ASSUME NEW T, NEW list \in Seq(T), NEW S
    PROVE  LET n == SelectLastInSeq(list, LAMBDA i : i \in S)
           IN  \/ n = 0 /\ \A i \in 1 .. Len(list) : list[i] \notin S
               \/ n \in 1 .. Len(list) /\ list[n] \in S
  <1> DEFINE I == {i \in 1 .. Len(list) : list[i] \in S}
             n == SelectLastInSeq(list, LAMBDA i : i \in S)
  <1>1. n = IF I # {} THEN Max(I) ELSE 0
    BY DEF SelectLastInSeq
  <1>2. CASE I = {}
    BY <1>1, <1>2
  <1>3. CASE I # {}
    <2>1. I \subseteq 1 .. Len(list) /\ Len(list) \in Nat
      OBVIOUS
    <2>2. PICK x \in I : \A y \in I : y <= x
      BY <1>3, <2>1, GreatestNumber
    <2>3. Max(I) \in I
      BY <2>2 DEF Max
    <2> QED BY <1>1, <1>3, <2>3
  <1> QED BY <1>2, <1>3

-----------------------------------------------------------------------------
(* The linked lists.                                                        *)

\* What is left of a list when the element at n is taken out.
LEMMA RemoveAtFacts ==
    ASSUME NEW T, NEW l \in Seq(T), NEW n \in 1 .. Len(l)
    PROVE  /\ RemoveAt(l, n) \in Seq(T)
           /\ Len(RemoveAt(l, n)) = Len(l) - 1
           /\ \A i \in 1 .. Len(l) - 1 :
                 RemoveAt(l, n)[i] = l[IF i < n THEN i ELSE i + 1]
  <1> DEFINE a == SubSeq(l, 1, n - 1)
             c == SubSeq(l, n + 1, Len(l))
  <1>1. a \in Seq(T) /\ Len(a) = n - 1 /\ \A k \in 1 .. n - 1 : a[k] = l[k]
    OBVIOUS
  <1>2. /\ c \in Seq(T) /\ Len(c) = Len(l) - n
        /\ \A k \in 1 .. Len(l) - n : c[k] = l[n + k]
    OBVIOUS
  <1> HIDE DEF a, c
  <1>3. a \o c \in Seq(T) /\ Len(a \o c) = Len(l) - 1
    <2>1. a \o c \in Seq(T) /\ Len(a \o c) = Len(a) + Len(c)
      BY <1>1, <1>2, ConcatProperties
    <2> QED BY <1>1, <1>2, <2>1
  <1>4. ASSUME NEW i \in 1 .. Len(l) - 1
        PROVE  (a \o c)[i] = l[IF i < n THEN i ELSE i + 1]
    <2>1. CASE i < n
      BY <1>1, <1>2, <2>1
    <2>2. CASE ~(i < n)
      <3>1. (a \o c)[i] = c[i - (n - 1)]
        BY <1>1, <1>2, <2>2
      <3>2. i - (n - 1) \in 1 .. Len(l) - n /\ n + (i - (n - 1)) = i + 1
        BY <2>2
      <3> QED BY <1>2, <2>2, <3>1, <3>2
    <2> QED BY <2>1, <2>2
  <1>5. RemoveAt(l, n) = a \o c
    BY DEF RemoveAt, a, c
  <1> QED BY <1>3, <1>4, <1>5

\* list_del of a member of the list.
LEMMA DelFacts ==
    ASSUME NEW S, NEW l, Lists(l, S), NEW x \in S
    PROVE  Lists(ListDel(l, x), S \ {x}) /\ Within(ListDel(l, x), l)
  <1>1. l \in Seq(S) /\ Len(l) \in Nat
    BY DEF Lists
  <1> DEFINE n == SelectInSeq(l, LAMBDA v : v = x)
             I == {i \in 1 .. Len(l) : l[i] = x}
  <1>2. I # {}
    BY DEF Lists
  <1>3. n \in 1 .. Len(l) /\ l[n] = x
    <2>1. n = Min(I)
      BY <1>2 DEF SelectInSeq
    <2>0. I \subseteq Nat
      BY <1>1
    <2>2. PICK y \in I : \A z \in I : y <= z
      <3> HIDE DEF I
      <3> QED BY <1>2, <2>0, Expiry!LeastNumber
    <2>3. Min(I) \in I
      BY <2>2 DEF Min
    <2> QED BY <2>1, <2>3
  <1>4. ListDel(l, x) = RemoveAt(l, n)
    BY <1>2 DEF ListDel, RemoveFirst
  <1> HIDE DEF n, I
  <1> DEFINE m    == RemoveAt(l, n)
             g(i) == IF i < n THEN i ELSE i + 1
  <1>5. m \in Seq(S) /\ Len(m) = Len(l) - 1
    BY <1>1, <1>3, RemoveAtFacts
  <1>6. \A i \in 1 .. Len(m) : m[i] = l[g(i)] /\ g(i) \in 1 .. Len(l) /\ g(i) # n
    BY <1>1, <1>3, <1>5, RemoveAtFacts
  <1> HIDE DEF m
  <1>7. \A i, j \in 1 .. Len(m) : i < j => g(i) < g(j)
    BY <1>1, <1>3, <1>5
  <1>8. m \in Seq(S \ {x})
    <2>1. ASSUME NEW i \in 1 .. Len(m) PROVE m[i] \in S /\ m[i] # x
      <3>1. m[i] = l[g(i)] /\ g(i) \in 1 .. Len(l) /\ g(i) # n
        BY <1>6
      <3>2. l[g(i)] # l[n]
        BY <1>3, <3>1 DEF Lists
      <3> QED BY <1>3, <1>5, <3>1, <3>2
    <2> QED BY <1>5, <2>1
  <1>9. ASSUME NEW y \in S \ {x} PROVE \E i \in 1 .. Len(m) : m[i] = y
    <2>1. PICK k \in 1 .. Len(l) : l[k] = y
      BY DEF Lists
    <2>2. k # n
      BY <1>3, <2>1
    <2> DEFINE i == IF k < n THEN k ELSE k - 1
    <2>3. i \in 1 .. Len(m) /\ g(i) = k
      BY <1>1, <1>3, <1>5, <2>2
    <2> HIDE DEF i, g
    <2> QED BY <1>6, <2>1, <2>3
  <1>10. ASSUME NEW i \in 1 .. Len(m), NEW j \in 1 .. Len(m), m[i] = m[j] PROVE i = j
    <2>1. g(i) = g(j)
      <3>1. l[g(i)] = l[g(j)] /\ g(i) \in 1 .. Len(l) /\ g(j) \in 1 .. Len(l)
        BY <1>6, <1>10
      <3> HIDE DEF g
      <3> QED BY <3>1 DEF Lists
    <2> QED BY <1>7, <1>5, <2>1
  <1> HIDE DEF g
  <1>11. Within(m, l)
    BY <1>6, <1>7 DEF Within
  <1> QED BY <1>4, <1>8, <1>9, <1>10, <1>11 DEF Lists, m

\* list_add in front of the others.
LEMMA AddFacts ==
    ASSUME NEW S, NEW l, Lists(l, S), NEW x, x \notin S
    PROVE  /\ Lists(<<x>> \o l, S \cup {x})
           /\ Len(<<x>> \o l) = Len(l) + 1 /\ (<<x>> \o l)[1] = x
           /\ \A i \in 2 .. Len(l) + 1 : (<<x>> \o l)[i] = l[i - 1]
  <1> DEFINE T == S \cup {x}
             m == <<x>> \o l
  <1>1. l \in Seq(S) /\ l \in Seq(T) /\ Len(l) \in Nat
    BY DEF Lists
  <1>2. <<x>> \in Seq(T) /\ Len(<<x>>) = 1 /\ <<x>>[1] = x
    OBVIOUS
  <1>3. /\ m \in Seq(T) /\ Len(m) = Len(l) + 1 /\ m[1] = x
        /\ \A i \in 2 .. Len(l) + 1 : m[i] = l[i - 1]
    BY <1>1, <1>2
  <1> HIDE DEF m
  <1>4. ASSUME NEW y \in T PROVE \E i \in 1 .. Len(m) : m[i] = y
    <2>1. CASE y = x
      BY <1>1, <1>3, <2>1
    <2>2. CASE y \in S
      <3>1. PICK k \in 1 .. Len(l) : l[k] = y
        BY <2>2 DEF Lists
      <3>2. k + 1 \in 2 .. Len(l) + 1 /\ (k + 1) - 1 = k
        BY <1>1
      <3>3. m[k + 1] = y
        BY <1>3, <3>1, <3>2
      <3> QED BY <1>1, <1>3, <3>2, <3>3
    <2> QED BY <2>1, <2>2
  <1>5. ASSUME NEW i \in 1 .. Len(m), NEW j \in 1 .. Len(m), m[i] = m[j] PROVE i = j
    <2>1. \A k \in 1 .. Len(m) : k # 1 => k - 1 \in 1 .. Len(l) /\ m[k] = l[k - 1] /\ m[k] \in S
      <3>1. \A k \in 1 .. Len(m) : k # 1 => k \in 2 .. Len(l) + 1 /\ k - 1 \in 1 .. Len(l)
        BY <1>1, <1>3
      <3>2. \A k \in 1 .. Len(l) : l[k] \in S
        BY <1>1
      <3> QED BY <1>3, <3>1, <3>2
    <2>2. CASE i = 1 \/ j = 1
      BY <1>3, <1>5, <2>1, <2>2
    <2>3. CASE i # 1 /\ j # 1
      <3>1. i - 1 \in 1 .. Len(l) /\ j - 1 \in 1 .. Len(l) /\ l[i - 1] = l[j - 1]
        BY <1>5, <2>1, <2>3
      <3>2. i - 1 = j - 1
        BY <3>1 DEF Lists
      <3> QED BY <3>2
    <2> QED BY <2>2, <2>3
  <1>6. Lists(m, T)
    BY <1>3, <1>4, <1>5 DEF Lists
  <1> QED BY <1>3, <1>6 DEF m

\* list_add_tail of one element.
LEMMA AddTailFacts ==
    ASSUME NEW S, NEW l, Lists(l, S), NEW x, x \notin S
    PROVE  Lists(l \o <<x>>, S \cup {x})
  <1> DEFINE T == S \cup {x}
             m == l \o <<x>>
  <1>1. l \in Seq(S) /\ l \in Seq(T) /\ Len(l) \in Nat
    BY DEF Lists
  <1>2. <<x>> \in Seq(T) /\ Len(<<x>>) = 1 /\ <<x>>[1] = x
    OBVIOUS
  <1>3. /\ m \in Seq(T) /\ Len(m) = Len(l) + 1 /\ m[Len(l) + 1] = x
        /\ \A i \in 1 .. Len(l) : m[i] = l[i]
    BY <1>1, <1>2
  <1> HIDE DEF m
  <1>4. ASSUME NEW y \in T PROVE \E i \in 1 .. Len(m) : m[i] = y
    BY <1>1, <1>3 DEF Lists
  <1>5. ASSUME NEW i \in 1 .. Len(m), NEW j \in 1 .. Len(m), m[i] = m[j] PROVE i = j
    <2>1. \A k \in 1 .. Len(m) : k # Len(m) => k \in 1 .. Len(l) /\ m[k] = l[k] /\ m[k] \in S
      BY <1>1, <1>3
    <2> QED BY <1>3, <1>5, <2>1 DEF Lists
  <1> QED BY <1>3, <1>4, <1>5 DEF Lists, m
-----------------------------------------------------------------------------
(* The numbers of a pair of streams.                                        *)

LEMMA PairFacts ==
    ASSUME NEW i \in Nat
    PROVE  /\ Forward(i) \in Nat /\ Reversed(i) \in Nat
           /\ i = Forward(i) \/ i = Forward(i) + 1
           /\ Forward(Forward(i)) = Forward(i) /\ Forward(Forward(i) + 1) = Forward(i)
           /\ Reversed(Reversed(i)) = i /\ Forward(Reversed(i)) = Forward(i)
           /\ Reversed(i) # i
           /\ i = Forward(i) => Reversed(i) = i + 1 /\ Reversed(i + 1) = i
           /\ i # Forward(i) => Reversed(i) = Forward(i)
           /\ {i, Reversed(i)} = {Forward(i), Forward(i) + 1}
           /\ Reversed(i) = Forward(Reversed(i)) <=> i # Forward(i)
  <1>1. PICK q \in Nat : i = 2 * q \/ i = 2 * q + 1
    <2>1. i \div 2 \in Nat /\ (i = 2 * (i \div 2) \/ i = 2 * (i \div 2) + 1)
      OBVIOUS
    <2> QED BY <2>1
  <1>2. (2 * q) \div 2 = q /\ (2 * q + 1) \div 2 = q
    OBVIOUS
  <1>3. Forward(2 * q) = 2 * q /\ Forward(2 * q + 1) = 2 * q
    BY <1>2 DEF Forward
  <1>4. Reversed(2 * q) = 2 * q + 1 /\ Reversed(2 * q + 1) = 2 * q
    BY <1>3 DEF Reversed
  <1>5. CASE i = 2 * q
    BY <1>3, <1>4, <1>5
  <1>6. CASE i = 2 * q + 1
    BY <1>3, <1>4, <1>6
  <1> QED BY <1>1, <1>5, <1>6

\* A pair with an even forward number below n, also even, lies below n.
LEMMA PairBelow ==
    ASSUME NEW i \in Nat, NEW n \in Nat, Forward(n) = n, i < n
    PROVE  Forward(i) + 1 < n
  <1>1. PICK q \in Nat : i = 2 * q \/ i = 2 * q + 1
    <2>1. i \div 2 \in Nat /\ (i = 2 * (i \div 2) \/ i = 2 * (i \div 2) + 1)
      OBVIOUS
    <2> QED BY <2>1
  <1>2. Forward(i) = 2 * q
    BY <1>1 DEF Forward
  <1>3. n = 2 * (n \div 2) /\ n \div 2 \in Nat
    BY DEF Forward
  <1> QED BY <1>1, <1>2, <1>3
-----------------------------------------------------------------------------
(* What the callbacks and TCPStream_add leave alone.                        *)

LEMMA SameTableWell ==
    ASSUME NEW g, NEW h, Well(g), SameTable(g, h)
    PROVE  /\ Well(h)
           /\ \A k : InBucket(h, k) = InBucket(g, k)
           /\ Forwards(h) = Forwards(g)
           /\ \A n : Ordered(g, n) => Ordered(h, n)
  <1>1. \A k : InBucket(h, k) = InBucket(g, k)
    BY DEF InBucket, SameTable
  <1>2. Typed(h)
    BY DEF Well, Typed, SameTable
  <1>3. Paired(h)
    BY DEF Well, Paired, SameTable
  <1>4. Distinct(h)
    BY DEF Well, Distinct, SameTable
  <1>5. Listed(h)
    BY <1>1 DEF Well, Listed, SameTable
  <1>6. Forwards(h) = Forwards(g)
    BY DEF Forwards, SameTable
  <1>7. \A n : Ordered(g, n) => Ordered(h, n)
    BY DEF Ordered, SameTable
  <1> QED BY <1>1, <1>2, <1>3, <1>4, <1>5, <1>6, <1>7 DEF Well

LEMMA SameTableTransitive ==
    ASSUME NEW f, NEW g, NEW h, SameTable(f, g), SameTable(g, h)
    PROVE  SameTable(f, h)
  BY DEF SameTable

LEMMA SameTableReflexive ==
    ASSUME NEW h, Well(h)
    PROVE  SameTable(h, h)
  BY DEF SameTable, Well, Typed

LEMMA TellSame ==
    ASSUME NEW h, Well(h), NEW id, NEW e
    PROVE  SameTable(h, Tell(h, id, e)) /\ Tell(h, id, e).tcp = h.tcp
  BY DEF SameTable, Well, Typed, Tell, Fields

LEMMA TellAllSame ==
    ASSUME NEW h, Well(h), NEW id, NEW events
    PROVE  SameTable(h, TellAll(h, id, events)) /\ TellAll(h, id, events).tcp = h.tcp
  BY DEF SameTable, Well, Typed, TellAll, Fields

\* The dictionary of a stream is no part of the table.
SameEnds(D, m, n) ==
    /\ n \in [D -> StreamInfo]
    /\ \A i \in D : /\ n[i].conn = m[i].conn
                    /\ n[i].side = m[i].side
                    /\ n[i].direction = m[i].direction

LEMMA ObjectSet ==
    ASSUME NEW D, NEW m \in [D -> StreamInfo], NEW a, NEW v \in BOOLEAN,
           NEW n, n = [m EXCEPT ![a].object = v]
    PROVE  SameEnds(D, m, n)
  BY DEF StreamInfo, SameEnds

LEMMA ObjectsSet ==
    ASSUME NEW D, NEW m \in [D -> StreamInfo], NEW a, NEW b, NEW v \in BOOLEAN,
           NEW o, o = [m EXCEPT ![a].object = v, ![b].object = v]
    PROVE  SameEnds(D, m, o)
  <1>1. PICK n : n = [m EXCEPT ![a].object = v]
    OBVIOUS
  <1>2. o = [n EXCEPT ![b].object = v]
    BY <1>1
  <1>3. SameEnds(D, m, n)
    BY <1>1, ObjectSet
  <1>4. SameEnds(D, n, o)
    <2>1. n \in [D -> StreamInfo]
      BY <1>3 DEF SameEnds
    <2> QED BY <1>2, <2>1, ObjectSet
  <1> QED BY <1>3, <1>4 DEF SameEnds

LEMMA CallbackEstSame ==
    ASSUME NEW h, Well(h), NEW id \in DOMAIN h.streams
    PROVE  SameTable(h, CallbackEst(h, id))
  <1> DEFINE f == Forward(id)
             g == IF h.streams[id].object THEN h
                  ELSE [h EXCEPT !.streams[f].object     = TRUE,
                                 !.streams[f + 1].object = TRUE,
                                 !.objects = @ + 1]
  <1>1. SameTable(h, g)
    <2> DEFINE n == [h.streams EXCEPT ![f].object = TRUE, ![f + 1].object = TRUE]
               e == [h EXCEPT !.streams[f].object     = TRUE,
                              !.streams[f + 1].object = TRUE,
                              !.objects = @ + 1]
    <2>1. h.streams \in [DOMAIN h.streams -> StreamInfo] /\ DOMAIN h = Fields
      BY DEF Well, Typed
    <2>2. SameEnds(DOMAIN h.streams, h.streams, n)
      <3>1. n = [h.streams EXCEPT ![f].object = TRUE, ![f + 1].object = TRUE]
        OBVIOUS
      <3> HIDE DEF n
      <3> QED BY <2>1, <3>1, ObjectsSet
    <2>3. e.streams = n
      BY <2>1 DEF Fields
    <2>4. /\ DOMAIN e = Fields
          /\ e.table = h.table /\ e.sorted = h.sorted /\ e.con_id = h.con_id
          /\ e.seen = h.seen /\ e.total_streams = h.total_streams
      BY <2>1 DEF Fields
    <2> HIDE DEF n, e
    <2>5. SameTable(h, e)
      BY <2>2, <2>3, <2>4 DEF SameTable, SameEnds
    <2> QED BY <2>5, SameTableReflexive DEF e
  <1>2. Well(g)
    BY <1>1, SameTableWell
  <1> HIDE DEF g
  <1>3. \A e : SameTable(g, Tell(g, id, e))
    BY <1>2, TellSame
  <1> QED BY <1>1, <1>3, SameTableTransitive DEF CallbackEst, g

LEMMA CallbackPacketsSame ==
    ASSUME NEW h, Well(h), NEW id, NEW events
    PROVE  SameTable(h, CallbackPackets(h, id, events))
  BY TellAllSame, SameTableReflexive DEF CallbackPackets

LEMMA CallbackDestroySame ==
    ASSUME NEW h, Well(h), NEW id \in DOMAIN h.streams
    PROVE  SameTable(h, CallbackDestroy(h, id))
  <1> DEFINE f == Forward(id)
             g == Tell(h, id, [kind |-> "destroy"])
             d == [g EXCEPT !.streams[f].object = FALSE, !.streams[f + 1].object = FALSE,
                            !.objects = @ - 1]
  <1>1. SameTable(h, g) /\ Well(g)
    BY TellSame, SameTableWell
  <1> HIDE DEF g
  <1>2. SameTable(g, d)
    <2> DEFINE n == [g.streams EXCEPT ![f].object = FALSE, ![f + 1].object = FALSE]
    <2>1. g.streams \in [DOMAIN g.streams -> StreamInfo] /\ DOMAIN g = Fields
      BY <1>1 DEF Well, Typed
    <2>2. SameEnds(DOMAIN g.streams, g.streams, n)
      <3>1. n = [g.streams EXCEPT ![f].object = FALSE, ![f + 1].object = FALSE]
        OBVIOUS
      <3> HIDE DEF n
      <3> QED BY <2>1, <3>1, ObjectsSet
    <2>3. d.streams = n
      BY <2>1 DEF Fields
    <2>4. /\ DOMAIN d = Fields
          /\ d.table = g.table /\ d.sorted = g.sorted /\ d.con_id = g.con_id
          /\ d.seen = g.seen /\ d.total_streams = g.total_streams
      BY <2>1 DEF Fields
    <2> HIDE DEF n, d
    <2> QED BY <2>2, <2>3, <2>4 DEF SameTable, SameEnds
  <1>3. SameTable(h, d) /\ SameTable(h, h)
    BY <1>1, <1>2, SameTableTransitive, SameTableReflexive
  <1> QED BY <1>3 DEF CallbackDestroy, g

LEMMA RunSame ==
    ASSUME NEW h, Well(h), NEW id, NEW s
    PROVE  SameTable(h, Run(h, id, s))
  <1> DEFINE g == [h EXCEPT !.tcp[id]     = [s EXCEPT !.out = <<>>],
                            !.outstanding = @ + Len(s.queue) - Len(h.tcp[id].queue)]
  <1>1. SameTable(h, g)
    BY DEF SameTable, Well, Typed, Fields
  <1>2. SameTable(g, CallbackPackets(g, id, s.out))
    BY <1>1, SameTableWell, CallbackPacketsSame
  <1> QED BY <1>1, <1>2, SameTableTransitive DEF Run

\* The history seen and the state of the callbacks are no part of Well.
LEMMA WellSame ==
    ASSUME NEW g, NEW h, Well(g), DOMAIN h = Fields, h.table = g.table,
           h.sorted = g.sorted, h.con_id = g.con_id, h.streams = g.streams
    PROVE  Well(h)
  <1>1. \A k : InBucket(h, k) = InBucket(g, k)
    BY DEF InBucket
  <1>2. Typed(h) /\ Paired(h) /\ Distinct(h)
    BY DEF Well, Typed, Paired, Distinct
  <1>3. Listed(h)
    BY <1>1 DEF Well, Listed
  <1> QED BY <1>2, <1>3 DEF Well

LEMMA StateSame ==
    ASSUME NEW h, Well(h), NEW id, NEW v
    PROVE  SameTable(h, [h EXCEPT !.tcp[id].state = v])
  BY DEF SameTable, Well, Typed, Fields

-----------------------------------------------------------------------------
(* One stream: what TCPStream_add and pad_data keep, and that pad_data      *)
(* leaves no packet queued.                                                 *)

\* The next packet is where the stream stands: it can be delivered.
Aligned(s) == s.queue # <<>> /\ s.next_seq = Head(s.queue).seq

LEMMA NoPackets == Packets(<<>>)
  BY DEF Packets, ToSet

LEMMA SeqOfMembers ==
    ASSUME NEW T, NEW r \in Seq(T)
    PROVE  r \in Seq(ToSet(r))
  <1>1. Len(r) \in Nat /\ DOMAIN r = 1 .. Len(r) /\ \A i \in 1 .. Len(r) : r[i] \in ToSet(r)
    BY DEF ToSet
  <1> HIDE DEF ToSet
  <1> QED BY <1>1, SeqDef

LEMMA AppendPackets ==
    ASSUME NEW out, Packets(out), NEW e, "kind" \in DOMAIN e, e.kind \in {"data", "retran"}
    PROVE  Packets(Append(out, e)) /\ Len(Append(out, e)) = Len(out) + 1
  <1> DEFINE T == ToSet(out) \cup {e}
             r == Append(out, e)
  <1>1. out \in Seq(T) /\ Len(out) \in Nat
    BY DEF Packets
  <1> HIDE DEF T
  <1>2. /\ Len(r) = Len(out) + 1 /\ DOMAIN r = 1 .. Len(out) + 1
        /\ r[Len(out) + 1] = e
        /\ \A i \in 1 .. Len(out) : r[i] = out[i]
    BY <1>1 DEF T
  <1> HIDE DEF r
  <1>3. \A i \in 1 .. Len(r) : i \in 1 .. Len(out) \/ i = Len(out) + 1
    BY <1>1, <1>2
  <1>5. r \in Seq(ToSet(r))
    <2>1. r \in Seq(T)
      BY <1>1 DEF r, T
    <2> QED BY <2>1, SeqOfMembers
  <1> QED BY <1>1, <1>2, <1>3, <1>5 DEF Packets, r

LEMMA CallbackPacketsOnly ==
    ASSUME NEW s, Packets(s.out), NEW kind \in {"data", "retran"}, NEW p, NEW pad
    PROVE  LET r == Callback(s, kind, p, pad)
           IN  Packets(r) /\ Len(r) = Len(s.out) + 1
  <1> DEFINE e == [kind |-> kind, at |-> s.next_seq, seq |-> p.seq, len |-> p.data_len,
                   pad |-> pad]
  <1>1. "kind" \in DOMAIN e /\ e.kind = kind
    OBVIOUS
  <1>2. Callback(s, kind, p, pad) = Append(s.out, e)
    BY DEF Callback
  <1> HIDE DEF e
  <1> QED BY <1>1, <1>2, AppendPackets

LEMMA WithStartPackets ==
    ASSUME NEW out, Packets(out), NEW q
    PROVE  Packets(WithStart(out, q)) /\ Len(WithStart(out, q)) = Len(out)
  <1> DEFINE n == Len(out)
             w == WithStart(out, q)
             e == With(out[n], [start |-> q])
  <1>1. out \in Seq(ToSet(out)) /\ n \in Nat /\ DOMAIN out = 1 .. n
    BY DEF Packets
  <1>2. w = [i \in 1 .. n |-> IF i = n THEN e ELSE out[i]]
    BY <1>1 DEF WithStart
  <1>3. n > 0 => "kind" \in DOMAIN e /\ e.kind = out[n].kind
    <2> DEFINE a == [start |-> q]
    <2>1. DOMAIN a = {"start"}
      OBVIOUS
    <2>2. n > 0 => "kind" \in DOMAIN out[n]
      BY <1>1 DEF Packets
    <2> HIDE DEF a
    <2>3. "kind" \in DOMAIN out[n] => "kind" \in DOMAIN With(out[n], a) /\ With(out[n], a).kind = out[n].kind
      BY <2>1 DEF With
    <2> QED BY <2>2, <2>3 DEF a
  <1> HIDE DEF w, e
  <1>4. DOMAIN w = 1 .. n /\ w \in Seq(ToSet(out) \cup {e}) /\ Len(w) = n
    <2> DEFINE T == ToSet(out) \cup {e}
    <2>1. \A i \in 1 .. n : out[i] \in T /\ e \in T
      BY <1>1
    <2> HIDE DEF T
    <2>2. w \in [1 .. n -> T]
      BY <1>2, <2>1
    <2>3. w \in Seq(T)
      BY <1>1, <2>2, SeqDef
    <2> QED BY <1>1, <2>2, <2>3, LenProperties DEF T
  <1>5. w \in Seq(ToSet(w))
    BY <1>4, SeqOfMembers
  <1>6. ASSUME NEW i \in 1 .. n PROVE "kind" \in DOMAIN w[i] /\ w[i].kind = out[i].kind
    <2>1. CASE i = n
      <3> HIDE DEF n
      <3>1. n > 0
        BY <1>1, <2>1
      <3>2. w[i] = e
        BY <1>2, <2>1
      <3> QED BY <1>3, <2>1, <3>1, <3>2
    <2>2. CASE i # n
      BY <1>2, <2>2 DEF Packets
    <2> QED BY <2>1, <2>2
  <1> QED BY <1>4, <1>5, <1>6 DEF Packets, w

LEMMA DropSound ==
    ASSUME NEW s, Sound(s), s.queue # <<>>
    PROVE  Sound(DropRetransmission(s)) /\ DropRetransmission(s).queue = Tail(s.queue)
  <1>1. Packets(Callback(s, "retran", Head(s.queue), 0))
    BY CallbackPacketsOnly DEF Sound
  <1> QED BY <1>1, TailFacts DEF Sound, DropRetransmission

LEMMA DeliverSound ==
    ASSUME NEW s, Sound(s), s.queue # <<>>, NEW p \in PacketType, NEW pad \in 0 .. MaxPad
    PROVE  Sound(Deliver(s, p, pad)) /\ Deliver(s, p, pad).queue = Tail(s.queue)
  <1> DEFINE padded == [p EXCEPT !.data_len = @ + pad]
             n == s.next_seq + padded.data_len
  <1>1. padded.data_len \in 0 .. SeqSpace - 1
    BY HalfSeqAssumption, MaxPadAssumption DEF PacketType, SeqSpace
  <1>2. s.next_seq \in 0 .. SeqSpace - 1 /\ SeqSpace \in Nat
    BY HalfSeqAssumption DEF Sound, SeqSpace
  <1>3. n \in Int /\ -SeqSpace <= n /\ n < 2 * SeqSpace
    BY <1>1, <1>2
  <1>4. U32(n) \in 0 .. SeqSpace - 1
    BY <1>3, U32Type
  <1>5. Tail(s.queue) \in Seq(PacketType)
    BY TailFacts DEF Sound
  <1> DEFINE d == Deliver(s, p, pad)
  <1>6. d.next_seq = U32(n) /\ d.queue = Tail(s.queue) /\ DOMAIN d = DOMAIN s
        /\ d.out = Callback(s, "data", padded, pad)
    BY DEF Deliver, Sound
  <1> HIDE DEF d, n, padded
  <1>7. Packets(d.out)
    BY <1>6, CallbackPacketsOnly DEF Sound
  <1> QED BY <1>4, <1>5, <1>6, <1>7 DEF Sound, d

LEMMA PadSound ==
    ASSUME NEW s, Sound(s), s.queue # <<>>
    PROVE  LET t == PadToFirstPacket(s)
           IN  /\ Sound(t)
               /\ \/ t.queue = Tail(s.queue)
                  \/ t.queue = s.queue /\ Aligned(t) /\ ~Aligned(s)
  <1> DEFINE p   == Head(s.queue)
             pad == I32(p.seq - s.next_seq)
             t   == PadToFirstPacket(s)
  <1>1. p \in PacketType
    BY TailFacts DEF Sound
  <1>2. p.seq \in 0 .. SeqSpace - 1 /\ s.next_seq \in 0 .. SeqSpace - 1
    BY <1>1 DEF PacketType, Sound
  <1>3. pad \in -HalfSeq .. HalfSeq - 1
    <2> HIDE DEF p
    <2>1. SeqSpace \in Nat
      BY HalfSeqAssumption DEF SeqSpace
    <2> DEFINE d == p.seq - s.next_seq
    <2>3. d \in Int /\ -SeqSpace <= d /\ d < 2 * SeqSpace
      BY <1>2, <2>1
    <2>2. U32(d) \in 0 .. SeqSpace - 1
      BY <2>3, U32Type
    <2> QED BY <2>2, HalfSeqAssumption DEF I32, SeqSpace
  <1>4. Aligned(s) => pad = 0
    <2>1. U32(0) = 0
      BY HalfSeqAssumption DEF U32, SeqSpace
    <2>2. I32(0) = 0
      BY <2>1, HalfSeqAssumption DEF I32
    <2> HIDE DEF p
    <2>3. s.next_seq = p.seq => p.seq - s.next_seq = 0
      BY <1>2
    <2> QED BY <2>2, <2>3 DEF Aligned, p
  <1> HIDE DEF pad
  <1>5. CASE pad > MaxPad \/ pad < -MaxPad
    <2>1. t = [s EXCEPT !.next_seq = p.seq]
      BY <1>5 DEF PadToFirstPacket, pad
    <2>2. t.queue = s.queue /\ t.next_seq = p.seq /\ DOMAIN t = DOMAIN s /\ t.out = s.out
      BY <2>1 DEF Sound
    <2>3. ~Aligned(s)
      BY <1>4, <1>5, MaxPadAssumption
    <2> HIDE DEF t
    <2> QED BY <1>2, <2>2, <2>3 DEF Sound, Aligned, t
  <1> HIDE DEF p
  <1>6. CASE pad \in 0 .. MaxPad
    <2>1. t = Deliver(s, p, pad)
      BY <1>6, MaxPadAssumption DEF PadToFirstPacket, p, pad
    <2>2. Sound(t) /\ t.queue = Tail(s.queue)
      <3> HIDE DEF t
      <3> QED BY <2>1, <1>1, <1>6, DeliverSound
    <2> QED BY <2>2
  <1>7. CASE pad < 0 /\ -MaxPad <= pad
    <2>1. t = Deliver(s, Trim(p, -pad), 0)
      BY <1>3, <1>7, MaxPadAssumption DEF PadToFirstPacket, p, pad
    <2>2. -pad \in 0 .. SeqSpace - 1
      BY <1>3, <1>7, HalfSeqAssumption DEF SeqSpace
    <2>3. Trim(p, -pad) \in PacketType
      BY <1>1, <2>2, TrimType
    <2>4. 0 \in 0 .. MaxPad
      BY MaxPadAssumption
    <2>5. Sound(t) /\ t.queue = Tail(s.queue)
      <3> HIDE DEF t
      <3> QED BY <2>1, <2>3, <2>4, DeliverSound
    <2> QED BY <2>5
  <1> QED BY <1>3, <1>5, <1>6, <1>7, MaxPadAssumption

LEMMA WithOffsetSound ==
    ASSUME NEW s, NEW t, Sound(t)
    PROVE  LET w == WithOffset(s, t)
           IN  Sound(w) /\ w.queue = t.queue /\ w.next_seq = t.next_seq
  <1> DEFINE o == WithStart(t.out, Head(s.queue).seq)
             e == [t EXCEPT !.out = o]
  <1>1. WithOffset(s, t) = IF Len(t.out) = Len(s.out) THEN t ELSE e
    BY DEF WithOffset
  <1>2. Packets(o)
    BY WithStartPackets DEF Sound
  <1> HIDE DEF o
  <1>3. Sound(e) /\ e.queue = t.queue /\ e.next_seq = t.next_seq
    BY <1>2 DEF Sound
  <1> QED BY <1>1, <1>3

\* The body of the first loop of TCPStream_add.
LEMMA DrainSound ==
    ASSUME NEW s, Sound(s)
    PROVE  LET t == DrainBody(s)
           IN  /\ Sound(t)
               /\ t = s \/ (s.queue # <<>> /\ t.queue = Tail(s.queue))
               /\ s.queue # <<>> /\ HasData(s) => t.queue = Tail(s.queue)
  <1>1. CASE s.queue = <<>>
    BY <1>1 DEF DrainBody
  <1>2. CASE s.queue # <<>> /\ SeenBefore(s)
    <2>1. Sound(DropRetransmission(s)) /\ DropRetransmission(s).queue = Tail(s.queue)
      BY <1>2, DropSound
    <2>2. DrainBody(s) = WithOffset(s, DropRetransmission(s))
      BY <1>2 DEF DrainBody
    <2> QED BY <1>2, <2>1, <2>2, WithOffsetSound
  <1>3. CASE s.queue # <<>> /\ ~SeenBefore(s) /\ HasData(s)
    <2> DEFINE p == Head(s.queue)
               n == s.next_seq - p.seq
    <2>1. p \in PacketType
      BY <1>3, TailFacts DEF Sound
    <2>2. n \in 0 .. SeqSpace - 1
      <3>1. p.seq \in 0 .. SeqSpace - 1 /\ s.next_seq \in 0 .. SeqSpace - 1
        BY <2>1 DEF PacketType, Sound
      <3>2. s.next_seq >= p.seq /\ SeqSpace \in Nat
        BY <1>3, HalfSeqAssumption DEF HasData, SeqSpace
      <3> HIDE DEF p
      <3> QED BY <3>1, <3>2
    <2>3. Trim(p, n) \in PacketType /\ 0 \in 0 .. MaxPad
      BY <2>1, <2>2, TrimType, MaxPadAssumption
    <2>4. DeliverFirst(s) = Deliver(s, Trim(p, n), 0)
      BY DEF DeliverFirst
    <2>5. Sound(DeliverFirst(s)) /\ DeliverFirst(s).queue = Tail(s.queue)
      BY <1>3, <2>3, <2>4, DeliverSound
    <2>6. DrainBody(s) = WithOffset(s, DeliverFirst(s))
      BY <1>3 DEF DrainBody
    <2> QED BY <1>3, <2>5, <2>6, WithOffsetSound
  <1>4. CASE s.queue # <<>> /\ ~SeenBefore(s) /\ ~HasData(s)
    BY <1>4 DEF DrainBody
  <1> QED BY <1>1, <1>2, <1>3, <1>4
\* The three loops over a queue.
DrainStep(s, k, r) == DrainBody(s)
WindowStep(s, k, r) == WindowBody(s)
PadStep(s, k, r) == PadBody(s)

\* The queue of r does not get longer.
Shrinks(r, k, s) == Sound(s) /\ Len(s.queue) <= Len(r.queue)

\* Two turns for a packet, and one less when the first can be delivered.
Saved(s) == IF Aligned(s) THEN 1 ELSE 0

Empties(r, k, s) ==
    /\ Sound(s)
    /\ \/ s.queue = <<>>
       \/ 2 * Len(s.queue) - Saved(s) <= 2 * Len(r.queue) - k

Drain  == INSTANCE Iteration WITH Step <- DrainStep, Holds <- Shrinks
Window == INSTANCE Iteration WITH Step <- WindowStep, Holds <- Shrinks
Pad    == INSTANCE Iteration WITH Step <- PadStep, Holds <- Empties

LEMMA TailShorter ==
    ASSUME NEW T, NEW q \in Seq(T)
    PROVE  /\ Len(q) \in Nat
           /\ q # <<>> => Len(q) > 0 /\ Len(Tail(q)) = Len(q) - 1
           /\ Len(q) = 0 => q = <<>>
  OBVIOUS

LEMMA DrainShrinks ==
    ASSUME NEW r, Sound(r), NEW n \in Nat
    PROVE  Shrinks(r, n, Repeat(DrainBody, r, n))
  <1>1. Repeat(DrainBody, r, n) = Drain!Iterate(r, r, n)
    BY DEF Repeat, Drain!Iterate, DrainStep
  <1>2. Shrinks(r, 0, r)
    BY TailShorter DEF Shrinks, Sound
  <1>3. ASSUME NEW k \in 1 .. n, NEW s, Shrinks(r, k - 1, s)
        PROVE  Shrinks(r, k, DrainStep(s, k, r))
    <2>1. Sound(s) /\ Len(s.queue) <= Len(r.queue)
      BY <1>3 DEF Shrinks
    <2> DEFINE t == DrainBody(s)
    <2>2. Sound(t) /\ (t = s \/ (s.queue # <<>> /\ t.queue = Tail(s.queue)))
      BY <2>1, DrainSound
    <2> HIDE DEF t
    <2>3. Len(s.queue) \in Nat /\ Len(r.queue) \in Nat /\ Len(t.queue) <= Len(s.queue)
      BY <2>1, <2>2, TailShorter DEF Sound
    <2>4. Len(t.queue) \in Nat
      BY <2>2, TailShorter DEF Sound
    <2>5. Len(t.queue) <= Len(r.queue)
      BY <2>1, <2>3, <2>4
    <2> QED BY <2>2, <2>5 DEF Shrinks, DrainStep, t
  <1>4. Shrinks(r, n, Drain!Iterate(r, r, n))
    BY <1>2, <1>3, Drain!IterateHolds
  <1> QED BY <1>1, <1>4

LEMMA WindowShrinks ==
    ASSUME NEW r, Sound(r), NEW n \in Nat
    PROVE  Shrinks(r, n, Repeat(WindowBody, r, n))
  <1>1. Repeat(WindowBody, r, n) = Window!Iterate(r, r, n)
    BY DEF Repeat, Window!Iterate, WindowStep
  <1>2. Shrinks(r, 0, r)
    BY TailShorter DEF Shrinks, Sound
  <1>3. ASSUME NEW k \in 1 .. n, NEW s, Shrinks(r, k - 1, s)
        PROVE  Shrinks(r, k, WindowStep(s, k, r))
    <2>1. Sound(s) /\ Len(s.queue) <= Len(r.queue)
      BY <1>3 DEF Shrinks
    <2> DEFINE t == WindowBody(s)
    <2>2. Sound(t) /\ (t.queue = s.queue \/ (s.queue # <<>> /\ t.queue = Tail(s.queue)))
      <3>1. CASE s.queue # <<>> /\ WindowExceeded(s)
        <4>1. /\ Sound(PadToFirstPacket(s))
              /\ \/ PadToFirstPacket(s).queue = Tail(s.queue)
                 \/ PadToFirstPacket(s).queue = s.queue
          BY <2>1, <3>1, PadSound
        <4>2. t = WithOffset(s, PadToFirstPacket(s))
          BY <3>1 DEF WindowBody
        <4> HIDE DEF t
        <4> QED BY <3>1, <4>1, <4>2, WithOffsetSound
      <3>2. CASE ~(s.queue # <<>> /\ WindowExceeded(s))
        BY <2>1, <3>2 DEF WindowBody
      <3> QED BY <3>1, <3>2
    <2> HIDE DEF t
    <2>3. Len(s.queue) \in Nat /\ Len(r.queue) \in Nat /\ Len(t.queue) <= Len(s.queue)
      BY <2>1, <2>2, TailShorter DEF Sound
    <2>4. Len(t.queue) \in Nat
      BY <2>2, TailShorter DEF Sound
    <2>5. Len(t.queue) <= Len(r.queue)
      BY <2>1, <2>3, <2>4
    <2> QED BY <2>2, <2>5 DEF Shrinks, WindowStep, t
  <1>4. Shrinks(r, n, Window!Iterate(r, r, n))
    BY <1>2, <1>3, Window!IterateHolds
  <1> QED BY <1>1, <1>4

\* pad_data hands every queued packet on.
LEMMA PadDataEmpties ==
    ASSUME NEW r, Sound(r)
    PROVE  Sound(PadData(r)) /\ PadData(r).queue = <<>>
  <1> DEFINE n == 2 * Len(r.queue)
             W(s) == 2 * Len(s.queue) - Saved(s)
  <1>0. \A s : Saved(s) \in 0 .. 1 /\ (Aligned(s) => Saved(s) = 1) /\ (~Aligned(s) => Saved(s) = 0)
    BY DEF Saved
  <1>1. PadData(r) = Pad!Iterate(r, r, n)
    BY DEF PadData, Repeat, Pad!Iterate, PadStep
  <1>2. Len(r.queue) \in Nat /\ n \in Nat
    BY TailShorter DEF Sound
  <1>3. Empties(r, 0, r)
    BY <1>0, <1>2 DEF Empties
  <1>4. ASSUME NEW k \in 1 .. n, NEW s, Empties(r, k - 1, s)
        PROVE  Empties(r, k, PadStep(s, k, r))
    <2>1. Sound(s) /\ Len(s.queue) \in Nat /\ (s.queue = <<>> \/ W(s) <= n - (k - 1))
      BY <1>4, TailShorter DEF Empties, Sound
    <2>2. CASE s.queue = <<>>
      BY <2>1, <2>2 DEF Empties, PadStep, PadBody
    <2>3. CASE s.queue # <<>>
      <3> DEFINE t == PadToFirstPacket(s)
                 w == WithOffset(s, t)
      <3>1. /\ Sound(t)
            /\ t.queue = Tail(s.queue) \/ (t.queue = s.queue /\ Aligned(t) /\ ~Aligned(s))
        BY <2>1, <2>3, PadSound
      <3>2. Sound(w) /\ w.queue = t.queue /\ w.next_seq = t.next_seq
        BY <3>1, WithOffsetSound
      <3> HIDE DEF t
      <3>3. PadStep(s, k, r) = w
        BY <2>3 DEF PadStep, PadBody, t
      <3> HIDE DEF w
      <3>4. Len(s.queue) > 0 /\ Len(Tail(s.queue)) = Len(s.queue) - 1
        BY <2>1, <2>3, TailShorter DEF Sound
      <3>5. W(w) <= W(s) - 1
        <4>1. CASE t.queue = Tail(s.queue)
          BY <1>0, <2>1, <3>2, <3>4, <4>1
        <4>2. CASE t.queue = s.queue /\ Aligned(t) /\ ~Aligned(s)
          <5>1. Aligned(w)
            BY <3>2, <4>2 DEF Aligned
          <5> QED BY <1>0, <2>1, <3>2, <4>2, <5>1
        <4> QED BY <3>1, <4>1, <4>2
      <3>6. Len(w.queue) \in Nat
        BY <3>2, TailShorter DEF Sound
      <3>7. W(w) <= n - k
        <4>1. W(w) \in Int /\ W(s) \in Int
          BY <1>0, <2>1, <3>6
        <4>2. W(s) <= n - (k - 1)
          BY <2>1, <2>3
        <4> HIDE DEF W, n
        <4> QED BY <1>2, <3>5, <4>1, <4>2
      <3> QED BY <3>2, <3>3, <3>7 DEF Empties
    <2> QED BY <2>2, <2>3
  <1>5. Empties(r, n, Pad!Iterate(r, r, n))
    BY <1>2, <1>3, <1>4, Pad!IterateHolds
  <1> DEFINE e == PadData(r)
  <1>6. Sound(e) /\ (e.queue = <<>> \/ W(e) <= n - n)
    BY <1>1, <1>5 DEF Empties
  <1> HIDE DEF e
  <1>7. e.queue = <<>>
    <2>1. Len(e.queue) \in Nat /\ (e.queue # <<>> => Len(e.queue) > 0)
      BY <1>6, TailShorter DEF Sound
    <2> QED BY <1>0, <1>2, <1>6, <2>1
  <1> QED BY <1>6, <1>7 DEF e

\* There is a place for every packet.
LEMMA CandidateExists ==
    ASSUME NEW q \in Seq(PacketType), NEW p \in PacketType
    PROVE  \E n \in 0 .. Len(q) : IsCandidate(q, p, n)
  <1> DEFINE T == {n \in 0 .. Len(q) : n < Len(q) => q[n + 1].seq > p.seq}
  <1>1. Len(q) \in Nat /\ T \subseteq Nat /\ T # {}
    <2>1. Len(q) \in Nat /\ Len(q) \in T
      OBVIOUS
    <2> QED BY <2>1
  <1>2. PICK n \in T : \A m \in T : n <= m
    <2> HIDE DEF T
    <2> QED BY <1>1, Expiry!LeastNumber
  <1>3. ASSUME NEW k \in 1 .. n PROVE q[k].seq <= p.seq
    <2>1. k - 1 \notin T /\ k - 1 \in 0 .. Len(q) /\ (k - 1) + 1 = k
      <3>1. n \in 0 .. Len(q) /\ Len(q) \in Nat
        BY <1>1
      <3>2. ~(n <= k - 1) /\ k - 1 \in 0 .. Len(q) /\ (k - 1) + 1 = k
        BY <3>1
      <3> HIDE DEF T
      <3> QED BY <1>2, <3>2
    <2>2. ~(q[k].seq > p.seq)
      BY <2>1
    <2>3. q[k] \in PacketType
      BY <1>1
    <2>4. q[k].seq \in Int /\ p.seq \in Int
      BY <2>3 DEF PacketType
    <2> QED BY <2>2, <2>4
  <1> QED BY <1>2, <1>3 DEF IsCandidate

\* TCPStream_add queues at most the packet it is given.
LEMMA AddTCPSound ==
    ASSUME NEW s, Sound(s), NEW p \in Segments, NEW id
    PROVE  Sound(AddTCP(s, p, id)) /\ Len(AddTCP(s, p, id).queue) <= Len(s.queue) + 1
  <1>0. Len(s.queue) \in Nat
    BY TailShorter DEF Sound
  <1>1. CASE p.data_len = 0
    <2>1. AddTCP(s, p, id) = [s EXCEPT !.state = "RETRANSMISSION",
                                       !.out = Callback(s, "retran", p, 0)]
      BY <1>1 DEF AddTCP
    <2>2. Packets(Callback(s, "retran", p, 0))
      BY CallbackPacketsOnly DEF Sound
    <2> QED BY <1>0, <2>1, <2>2 DEF Sound
  <1>2. CASE p.data_len # 0
    <2> DEFINE new     == [seq |-> p.seq, data_len |-> p.data_len, window |-> p.window]
               n       == CHOOSE n \in 0 .. Len(s.queue) : IsCandidate(s.queue, new, n)
               queued  == [s EXCEPT !.queue = Insert(s.queue, new), !.max_packet_id = id]
               drained == Repeat(DrainBody, queued, Len(queued.queue))
               windowed == Repeat(WindowBody, drained, 2 * Len(drained.queue))
    <2>1. AddTCP(s, p, id) = windowed
      BY <1>2 DEF AddTCP
    <2>2. new \in PacketType
      BY SegmentsAssumption DEF PacketType
    <2> HIDE DEF new
    <2>3. n \in 0 .. Len(s.queue)
      BY <2>2, CandidateExists DEF Sound
    <2> HIDE DEF n
    <2>4. Insert(s.queue, new) \in Seq(PacketType) /\ Len(Insert(s.queue, new)) = Len(s.queue) + 1
      BY <2>2, <2>3, AddAfterFacts DEF Sound, Insert, n
    <2>5. Sound(queued) /\ Len(queued.queue) = Len(s.queue) + 1
      BY <2>4 DEF Sound
    <2> HIDE DEF queued
    <2>6. Shrinks(queued, Len(queued.queue), drained)
      BY <1>0, <2>5, DrainShrinks
    <2>7. Sound(drained) /\ Len(drained.queue) <= Len(queued.queue) /\ Len(drained.queue) \in Nat
      BY <2>6, TailShorter DEF Shrinks, Sound
    <2> HIDE DEF drained
    <2>8. Shrinks(drained, 2 * Len(drained.queue), windowed)
      BY <2>7, WindowShrinks
    <2>9. Sound(windowed) /\ Len(windowed.queue) <= Len(drained.queue) /\ Len(windowed.queue) \in Nat
      BY <2>8, TailShorter DEF Shrinks, Sound
    <2> HIDE DEF windowed
    <2> QED BY <1>0, <2>1, <2>5, <2>7, <2>9
  <1> QED BY <1>1, <1>2
-----------------------------------------------------------------------------
(* The counters of the table.                                               *)

LEMMA TalliedSame ==
    ASSUME NEW g, NEW h, Tallied(g), h.streams = g.streams, h.tcp = g.tcp,
           h.outstanding = g.outstanding, h.objects = g.objects,
           h.total_streams = g.total_streams
    PROVE  Tallied(h) /\ Queued(h) = Queued(g)
  <1>1. Queued(h) = Queued(g) /\ Forwards(h) = Forwards(g)
    BY DEF Queued, Forwards
  <1>2. WithObject(h) = WithObject(g)
    BY <1>1 DEF WithObject
  <1> QED BY <1>1, <1>2 DEF Tallied, StreamsTallied, QueuesTallied, ObjectsTallied

LEMMA TellAllTallied ==
    ASSUME NEW h, Well(h), Tallied(h), NEW id, NEW events
    PROVE  Tallied(TellAll(h, id, events))
  <1> DEFINE g == TellAll(h, id, events)
  <1>1. /\ g.streams = h.streams /\ g.tcp = h.tcp /\ g.outstanding = h.outstanding
        /\ g.objects = h.objects /\ g.total_streams = h.total_streams
    BY DEF TellAll, Well, Typed, Fields
  <1> HIDE DEF g
  <1> QED BY <1>1, TalliedSame DEF g

LEMMA TellTallied ==
    ASSUME NEW h, Well(h), Tallied(h), NEW id, NEW e
    PROVE  Tallied(Tell(h, id, e))
  <1> DEFINE g == Tell(h, id, e)
  <1>1. /\ g.streams = h.streams /\ g.tcp = h.tcp /\ g.outstanding = h.outstanding
        /\ g.objects = h.objects /\ g.total_streams = h.total_streams
    BY DEF Tell, Well, Typed, Fields
  <1> HIDE DEF g
  <1> QED BY <1>1, TalliedSame DEF g

\* What setting the dictionaries of two streams does.
ObjectsAre(D, m, o, a, b, v) ==
    \A i \in D : o[i].object = IF i \in {a, b} THEN v ELSE m[i].object

LEMMA ObjectsValue ==
    ASSUME NEW D, NEW m \in [D -> StreamInfo], NEW a \in D, NEW b \in D, NEW v,
           NEW o, o = [m EXCEPT ![a].object = v, ![b].object = v]
    PROVE  ObjectsAre(D, m, o, a, b, v)
  <1>1. PICK n : n = [m EXCEPT ![a].object = v]
    OBVIOUS
  <1>2. o = [n EXCEPT ![b].object = v]
    BY <1>1
  <1>3. \A i \in D : /\ n[i] = IF i = a THEN [m[a] EXCEPT !.object = v] ELSE m[i]
                     /\ "object" \in DOMAIN m[i] /\ DOMAIN n[i] = DOMAIN m[i]
    BY <1>1 DEF StreamInfo
  <1>4. \A i \in D : n[i].object = IF i = a THEN v ELSE m[i].object
    BY <1>3
  <1>5. DOMAIN n = D
    BY <1>1
  <1>6. \A i \in D : o[i] = IF i = b THEN [n[b] EXCEPT !.object = v] ELSE n[i]
    BY <1>2, <1>5
  <1>7. \A i \in D : o[i].object = IF i = b THEN v ELSE n[i].object
    BY <1>3, <1>6
  <1> QED BY <1>4, <1>7 DEF ObjectsAre

\* The dictionaries of the pair of id are made or cleared together.
LEMMA ObjectsChange ==
    ASSUME NEW h, Well(h), Tallied(h), NEW id \in DOMAIN h.streams, NEW v \in BOOLEAN,
           h.streams[id].object = ~v, NEW g,
           DOMAIN g = Fields,
           g.streams = [h.streams EXCEPT ![Forward(id)].object = v,
                                         ![Forward(id) + 1].object = v],
           g.objects = IF v THEN h.objects + 1 ELSE h.objects - 1,
           g.tcp = h.tcp, g.outstanding = h.outstanding, g.total_streams = h.total_streams
    PROVE  Tallied(g) /\ g.streams[id].object = v
  <1> DEFINE f == Forward(id)
             D == DOMAIN h.streams
  <1>1. id \in Nat /\ h.streams \in [D -> StreamInfo]
    BY DEF Well, Typed
  <1>2. {id, Reversed(id)} = {f, f + 1} /\ Reversed(id) \in D
    BY <1>1, PairFacts DEF Well, Paired
  <1>3. f \in D /\ f + 1 \in D
    BY <1>2
  <1>0. g.streams = [h.streams EXCEPT ![f].object = v, ![f + 1].object = v]
    OBVIOUS
  <1>4. SameEnds(D, h.streams, g.streams)
    <2>1. PICK n : n = [h.streams EXCEPT ![f].object = v, ![f + 1].object = v]
      OBVIOUS
    <2>2. SameEnds(D, h.streams, n)
      BY <1>1, <2>1, ObjectsSet
    <2> QED BY <1>0, <2>1, <2>2
  <1>5. \A i \in D : g.streams[i].object = IF i \in {f, f + 1} THEN v ELSE h.streams[i].object
    <2>1. PICK n : n = [h.streams EXCEPT ![f].object = v, ![f + 1].object = v]
      OBVIOUS
    <2>2. ObjectsAre(D, h.streams, n, f, f + 1, v)
      BY <1>1, <1>3, <2>1, ObjectsValue
    <2> QED BY <1>0, <2>1, <2>2 DEF ObjectsAre
  <1>6. DOMAIN g.streams = D
    BY <1>4 DEF SameEnds
  <1>7. Forwards(g) = Forwards(h)
    BY <1>4, <1>6 DEF Forwards, SameEnds
  <1>8. f \in Forwards(h) /\ f + 1 \notin Forwards(h) /\ h.streams[f].object = ~v
    <2>1. f = Forward(f) /\ f + 1 # Forward(f + 1) /\ f \in Nat
      BY <1>1, PairFacts
    <2>2. h.streams[Reversed(id)].object = h.streams[id].object
      BY DEF Tallied, ObjectsTallied
    <2>3. h.streams[f].object = ~v
      BY <1>2, <2>2
    <2> QED BY <1>3, <2>1, <2>3 DEF Forwards, Well, Paired
  <1> HIDE DEF f
  <1>9. IsFiniteSet(WithObject(h)) /\ h.objects = Cardinality(WithObject(h))
    BY DEF Tallied, ObjectsTallied
  <1>10. IsFiniteSet(WithObject(g)) /\ g.objects = Cardinality(WithObject(g))
    <2>1. CASE v = TRUE
      <3>1. WithObject(g) = WithObject(h) \cup {f} /\ f \notin WithObject(h)
        <4>1. \A i \in Forwards(h) : g.streams[i].object <=> (i = f \/ h.streams[i].object)
          BY <1>5, <1>8, <2>1 DEF Forwards
        <4> QED BY <1>7, <1>8, <2>1, <4>1 DEF WithObject
      <3> QED BY <1>9, <2>1, <3>1, FS_AddElement
    <2>2. CASE v = FALSE
      <3>1. WithObject(g) = WithObject(h) \ {f} /\ f \in WithObject(h)
        <4>1. \A i \in Forwards(h) : g.streams[i].object <=> (i # f /\ h.streams[i].object)
          BY <1>5, <1>8, <2>2 DEF Forwards
        <4> QED BY <1>7, <1>8, <2>2, <4>1 DEF WithObject
      <3> QED BY <1>9, <2>2, <3>1, FS_RemoveElement
    <2> QED BY <2>1, <2>2
  <1>11. ASSUME NEW i \in D PROVE g.streams[Reversed(i)].object = g.streams[i].object
    <2>1. i \in Nat /\ Reversed(i) \in D /\ h.streams[Reversed(i)].object = h.streams[i].object
      BY DEF Well, Typed, Paired, Tallied, ObjectsTallied
    <2>2. Reversed(Reversed(i)) = i /\ Reversed(Reversed(id)) = id
      BY <1>1, <2>1, PairFacts
    <2>3. i \in {f, f + 1} <=> Reversed(i) \in {f, f + 1}
      BY <1>2, <2>2
    <2> QED BY <1>5, <2>1, <2>3
  <1>12. Queued(g) = Queued(h)
    BY DEF Queued
  <1>13. StreamsTallied(g) /\ QueuesTallied(g)
    BY <1>6, <1>12 DEF Tallied, StreamsTallied, QueuesTallied
  <1>14. id \in {f, f + 1}
    BY <1>2
  <1> QED BY <1>5, <1>6, <1>10, <1>11, <1>13, <1>14 DEF Tallied, ObjectsTallied

LEMMA CallbackEstTallied ==
    ASSUME NEW h, Well(h), Tallied(h), NEW id \in DOMAIN h.streams
    PROVE  Tallied(CallbackEst(h, id))
  <1> DEFINE f == Forward(id)
             e == [h EXCEPT !.streams[f].object     = TRUE,
                            !.streams[f + 1].object = TRUE,
                            !.objects = @ + 1]
             g == IF h.streams[id].object THEN h ELSE e
  <1>1. /\ DOMAIN e = Fields /\ e.objects = h.objects + 1 /\ e.tcp = h.tcp
        /\ e.streams = [h.streams EXCEPT ![f].object = TRUE, ![f + 1].object = TRUE]
        /\ e.outstanding = h.outstanding /\ e.total_streams = h.total_streams
        /\ e.table = h.table /\ e.sorted = h.sorted /\ e.con_id = h.con_id
        /\ e.seen = h.seen
    BY DEF Well, Typed, Fields
  <1>2. h.streams[id].object \in BOOLEAN
    BY DEF Well, Typed, StreamInfo
  <1>3. CallbackEst(h, id) =
           Tell(g, id, [kind |-> "est", urn |-> <<h.streams[id].conn, h.streams[id].side>>])
    BY DEF CallbackEst
  <1> HIDE DEF e
  <1>4. ~h.streams[id].object => Tallied(e)
    BY <1>1, <1>2, ObjectsChange
  <1>5. Well(e)
    <2>1. SameEnds(DOMAIN h.streams, h.streams, e.streams)
      <3>1. h.streams \in [DOMAIN h.streams -> StreamInfo]
        BY DEF Well, Typed
      <3>2. e.streams = [h.streams EXCEPT ![f].object = TRUE, ![f + 1].object = TRUE]
        BY <1>1
      <3>3. PICK n : n = [h.streams EXCEPT ![f].object = TRUE, ![f + 1].object = TRUE]
        OBVIOUS
      <3>4. SameEnds(DOMAIN h.streams, h.streams, n)
        BY <3>1, <3>3, ObjectsSet
      <3> QED BY <3>2, <3>3, <3>4
    <2>2. SameTable(h, e)
      BY <1>1, <2>1 DEF SameTable, SameEnds
    <2> QED BY <2>2, SameTableWell
  <1> QED BY <1>3, <1>4, <1>5, TellTallied

LEMMA CallbackDestroyTallied ==
    ASSUME NEW h, Well(h), Tallied(h), NEW id \in DOMAIN h.streams
    PROVE  LET g == CallbackDestroy(h, id)
           IN  Tallied(g) /\ ~g.streams[id].object /\ g.tcp = h.tcp
  <1> DEFINE f == Forward(id)
             t == Tell(h, id, [kind |-> "destroy"])
             d == [t EXCEPT !.streams[f].object = FALSE, !.streams[f + 1].object = FALSE,
                            !.objects = @ - 1]
  <1>1. Well(t) /\ Tallied(t) /\ t.tcp = h.tcp
    BY TellSame, TellTallied, SameTableWell
  <1>2. t.streams = h.streams
    BY DEF Tell, Well, Typed, Fields
  <1> HIDE DEF t
  <1>3. /\ DOMAIN d = Fields /\ d.objects = t.objects - 1 /\ d.tcp = t.tcp
        /\ d.streams = [t.streams EXCEPT ![f].object = FALSE, ![f + 1].object = FALSE]
        /\ d.outstanding = t.outstanding /\ d.total_streams = t.total_streams
    BY <1>1 DEF Well, Typed, Fields
  <1> HIDE DEF d
  <1>4. h.streams[id].object => Tallied(d) /\ d.streams[id].object = FALSE
    BY <1>1, <1>2, <1>3, ObjectsChange
  <1>5. CallbackDestroy(h, id) = IF ~h.streams[id].object THEN h ELSE d
    BY DEF CallbackDestroy, d, t
  <1> QED BY <1>1, <1>3, <1>4, <1>5
\* The places in one queue.
Places(i, q) == {i} \X (1 .. Len(q))

LEMMA PlacesCount ==
    ASSUME NEW i, NEW q \in Seq(PacketType)
    PROVE  IsFiniteSet(Places(i, q)) /\ Cardinality(Places(i, q)) = Len(q)
  <1>1. Len(q) \in Nat
    OBVIOUS
  <1>2. IsFiniteSet(1 .. Len(q)) /\ Cardinality(1 .. Len(q)) = Len(q)
    BY <1>1, FS_Interval
  <1>3. IsFiniteSet({i}) /\ Cardinality({i}) = 1
    BY FS_Singleton
  <1> QED BY <1>1, <1>2, <1>3, FS_Product DEF Places

\* P is Q with its part A taken out and B put in its place.
Exchanged(Q, A, B, P) ==
    /\ IsFiniteSet(Q) /\ IsFiniteSet(B)
    /\ A \subseteq Q /\ B \cap (Q \ A) = {} /\ P = (Q \ A) \cup B

LEMMA Exchange ==
    ASSUME NEW Q, NEW A, NEW B, NEW P, Exchanged(Q, A, B, P)
    PROVE  IsFiniteSet(P) /\ Cardinality(P) = Cardinality(Q) + Cardinality(B) - Cardinality(A)
  <1> DEFINE R == Q \ A
  <1>1. IsFiniteSet(R) /\ IsFiniteSet(A) /\ IsFiniteSet(B)
    BY FS_Subset DEF Exchanged
  <1>2. Q = R \cup A /\ R \cap A = {} /\ R \cap B = {} /\ P = R \cup B
    BY DEF Exchanged
  <1> HIDE DEF R
  <1>3. /\ IsFiniteSet(R \cup B)
        /\ Cardinality(R \cup B) = Cardinality(R) + Cardinality(B) - Cardinality(R \cap B)
        /\ Cardinality(R \cup A) = Cardinality(R) + Cardinality(A) - Cardinality(R \cap A)
    BY <1>1, FS_Union
  <1>4. /\ Cardinality(R) \in Nat /\ Cardinality(A) \in Nat /\ Cardinality(B) \in Nat
        /\ Cardinality({}) = 0
    BY <1>1, FS_CardinalityType, FS_EmptySet
  <1>5. Cardinality(R \cap B) = 0 /\ Cardinality(R \cap A) = 0
    BY <1>2, <1>4
  <1>6. Cardinality(P) = Cardinality(R) + Cardinality(B)
    BY <1>2, <1>3, <1>4, <1>5
  <1>7. Cardinality(Q) = Cardinality(R) + Cardinality(A)
    BY <1>2, <1>3, <1>4, <1>5
  <1>8. IsFiniteSet(P)
    BY <1>2, <1>3
  <1> QED BY <1>4, <1>6, <1>7, <1>8

\* The queue of stream id becomes another.
LEMMA QueuedChange ==
    ASSUME NEW h, QueuesTallied(h), NEW g, NEW id \in DOMAIN h.tcp,
           DOMAIN g.tcp = DOMAIN h.tcp, Sound(g.tcp[id]),
           \A i \in DOMAIN h.tcp : i # id => g.tcp[i].queue = h.tcp[i].queue
    PROVE  /\ IsFiniteSet(Queued(g))
           /\ Cardinality(Queued(g)) =
                 Cardinality(Queued(h)) + Len(g.tcp[id].queue) - Len(h.tcp[id].queue)
           /\ g.tcp[id].queue = <<>> => Queued(g) \subseteq Queued(h)
  <1> DEFINE A == Places(id, h.tcp[id].queue)
             B == Places(id, g.tcp[id].queue)
             D == DOMAIN h.tcp
  <1>1. Queued(h) = UNION {Places(i, h.tcp[i].queue) : i \in D}
    BY DEF Queued, Places
  <1>2. Queued(g) = UNION {Places(i, g.tcp[i].queue) : i \in D}
    BY DEF Queued, Places
  <1>3. \A i, q, x : x \in Places(i, q) => x[1] = i
    BY DEF Places
  <1>4. A \subseteq Queued(h)
    BY <1>1
  <1>5. Queued(g) = (Queued(h) \ A) \cup B
    <2>1. ASSUME NEW x \in Queued(g) PROVE x \in (Queued(h) \ A) \cup B
      <3>1. PICK i \in D : x \in Places(i, g.tcp[i].queue)
        BY <1>2, <2>1
      <3>2. CASE i = id
        BY <3>1, <3>2
      <3>3. CASE i # id
        <4>1. x \in Queued(h)
          BY <1>1, <3>1, <3>3
        <4>2. x \notin A
          BY <1>3, <3>1, <3>3
        <4> QED BY <4>1, <4>2
      <3> QED BY <3>2, <3>3
    <2>2. ASSUME NEW x \in Queued(h), x \notin A PROVE x \in Queued(g)
      <3>1. PICK i \in D : x \in Places(i, h.tcp[i].queue)
        BY <1>1, <2>2
      <3>2. i # id
        BY <2>2, <3>1
      <3> QED BY <1>2, <3>1, <3>2
    <2>3. B \subseteq Queued(g)
      BY <1>2
    <2> QED BY <2>1, <2>2, <2>3
  <1>6. B \cap (Queued(h) \ A) = {}
    <2> SUFFICES ASSUME NEW x \in B, x \in Queued(h), x \notin A PROVE FALSE
      OBVIOUS
    <2>1. PICK i \in D : x \in Places(i, h.tcp[i].queue)
      BY <1>1
    <2>2. i = id
      BY <1>3, <2>1
    <2> QED BY <2>1, <2>2
  <1>7. /\ IsFiniteSet(A) /\ Cardinality(A) = Len(h.tcp[id].queue)
        /\ IsFiniteSet(B) /\ Cardinality(B) = Len(g.tcp[id].queue)
    <2>1. h.tcp[id].queue \in Seq(PacketType) /\ g.tcp[id].queue \in Seq(PacketType)
      BY DEF QueuesTallied, Sound
    <2> QED BY <2>1, PlacesCount
  <1>8. IsFiniteSet(Queued(h))
    BY DEF QueuesTallied
  <1>9. g.tcp[id].queue = <<>> => B = {}
    BY DEF Places
  <1> HIDE DEF A, B
  <1>10. /\ IsFiniteSet(Queued(g))
         /\ Cardinality(Queued(g)) = Cardinality(Queued(h)) + Cardinality(B) - Cardinality(A)
    <2>1. PICK P : P = Queued(g)
      OBVIOUS
    <2>2. PICK Q : Q = Queued(h)
      OBVIOUS
    <2>3. Exchanged(Q, A, B, P)
      BY <1>4, <1>5, <1>6, <1>7, <1>8, <2>1, <2>2 DEF Exchanged
    <2>4. IsFiniteSet(P) /\ Cardinality(P) = Cardinality(Q) + Cardinality(B) - Cardinality(A)
      BY <2>3, Exchange
    <2> QED BY <2>1, <2>2, <2>4
  <1>12. Cardinality(Queued(g)) =
            Cardinality(Queued(h)) + Len(g.tcp[id].queue) - Len(h.tcp[id].queue)
    BY <1>7, <1>10
  <1> QED BY <1>5, <1>9, <1>10, <1>12

\* A stream gets a new state, and the outstanding skbuffs with it.
Ran(h, id, s, g) ==
    /\ Tallied(g)
    /\ g.outstanding = h.outstanding + Len(s.queue) - Len(h.tcp[id].queue)
    /\ DOMAIN g.tcp = DOMAIN h.tcp
    /\ g.tcp[id].queue = s.queue
    /\ \A i \in DOMAIN h.tcp : i # id => g.tcp[i] = h.tcp[i]
    /\ s.queue = <<>> => Queued(g) \subseteq Queued(h)

LEMMA RunTallied ==
    ASSUME NEW h, Well(h), Tallied(h), NEW id \in DOMAIN h.streams, NEW s, Sound(s)
    PROVE  Ran(h, id, s, Run(h, id, s))
  <1> DEFINE o == [s EXCEPT !.out = <<>>]
             e == [h EXCEPT !.tcp[id]     = o,
                            !.outstanding = @ + Len(s.queue) - Len(h.tcp[id].queue)]
             g == Run(h, id, s)
  <1>1. Sound(o) /\ o.queue = s.queue
    BY NoPackets DEF Sound
  <1> HIDE DEF o
  <1>2. QueuesTallied(h) /\ DOMAIN h.tcp = DOMAIN h.streams
    BY DEF Tallied, QueuesTallied
  <1>3. /\ DOMAIN e = Fields /\ e.tcp = [h.tcp EXCEPT ![id] = o]
        /\ e.outstanding = h.outstanding + Len(s.queue) - Len(h.tcp[id].queue)
        /\ e.streams = h.streams /\ e.objects = h.objects
        /\ e.total_streams = h.total_streams
        /\ e.table = h.table /\ e.sorted = h.sorted /\ e.con_id = h.con_id
    BY DEF Well, Typed, Fields
  <1>4. g = CallbackPackets(e, id, s.out)
    BY DEF Run, o
  <1> HIDE DEF e, g
  <1>5. /\ DOMAIN e.tcp = DOMAIN h.tcp /\ e.tcp[id] = o
        /\ \A i \in DOMAIN h.tcp : i # id => e.tcp[i] = h.tcp[i]
    BY <1>2, <1>3
  <1>6. /\ IsFiniteSet(Queued(e))
        /\ Cardinality(Queued(e)) = Cardinality(Queued(h)) + Len(s.queue) - Len(h.tcp[id].queue)
        /\ s.queue = <<>> => Queued(e) \subseteq Queued(h)
    <2>1. \A i \in DOMAIN h.tcp : i # id => e.tcp[i].queue = h.tcp[i].queue
      BY <1>5
    <2>2. Sound(e.tcp[id]) /\ e.tcp[id].queue = s.queue /\ id \in DOMAIN h.tcp
      BY <1>1, <1>2, <1>5
    <2>3. /\ IsFiniteSet(Queued(e))
          /\ Cardinality(Queued(e)) =
                Cardinality(Queued(h)) + Len(e.tcp[id].queue) - Len(h.tcp[id].queue)
          /\ e.tcp[id].queue = <<>> => Queued(e) \subseteq Queued(h)
      BY <1>2, <1>5, <2>1, <2>2, QueuedChange
    <2> QED BY <2>2, <2>3
  <1>7. QueuesTallied(e)
    <2>1. \A i \in DOMAIN e.tcp : Sound(e.tcp[i])
      BY <1>1, <1>2, <1>5 DEF QueuesTallied
    <2> QED BY <1>2, <1>3, <1>5, <1>6, <2>1 DEF QueuesTallied
  <1>8. Forwards(e) = Forwards(h) /\ WithObject(e) = WithObject(h)
    BY <1>3 DEF Forwards, WithObject
  <1>9. Tallied(e)
    BY <1>3, <1>7, <1>8 DEF Tallied, StreamsTallied, ObjectsTallied
  <1>10. Well(e)
    BY <1>3, WellSame
  <1>11. Tallied(g) /\ g.tcp = e.tcp /\ g.outstanding = e.outstanding
    <2>1. CASE e.streams[id].object
      <3>1. g = TellAll(e, id, s.out)
        BY <1>4, <2>1 DEF CallbackPackets
      <3>2. Tallied(g) /\ g.tcp = e.tcp
        BY <1>9, <1>10, <3>1, TellAllTallied, TellAllSame
      <3>3. g.outstanding = e.outstanding
        BY <1>3, <3>1 DEF TellAll, Fields
      <3> QED BY <3>2, <3>3
    <2>2. CASE ~e.streams[id].object
      BY <1>4, <1>9, <2>2 DEF CallbackPackets
    <2> QED BY <2>1, <2>2
  <1>12. Queued(g) = Queued(e)
    BY <1>11 DEF Queued
  <1> QED BY <1>1, <1>3, <1>5, <1>6, <1>11, <1>12 DEF g, Ran

LEMMA StateTallied ==
    ASSUME NEW h, Well(h), Tallied(h), NEW id \in DOMAIN h.streams, NEW v
    PROVE  LET g == [h EXCEPT !.tcp[id].state = v]
           IN  /\ Tallied(g)
               /\ DOMAIN g.tcp = DOMAIN h.tcp
               /\ \A i \in DOMAIN h.tcp : g.tcp[i].queue = h.tcp[i].queue
               /\ Queued(g) = Queued(h)
               /\ g.streams = h.streams
               /\ g.outstanding = h.outstanding
  <1> DEFINE g == [h EXCEPT !.tcp[id].state = v]
  <1>1. /\ g.tcp = [h.tcp EXCEPT ![id].state = v] /\ g.streams = h.streams
        /\ g.objects = h.objects /\ g.total_streams = h.total_streams
        /\ g.outstanding = h.outstanding
    BY DEF Well, Typed, Fields
  <1> HIDE DEF g
  <1>2. DOMAIN h.tcp = DOMAIN h.streams /\ \A i \in DOMAIN h.tcp : Sound(h.tcp[i])
    BY DEF Tallied, QueuesTallied
  <1>3. /\ DOMAIN g.tcp = DOMAIN h.tcp /\ g.tcp[id] = [h.tcp[id] EXCEPT !.state = v]
        /\ \A i \in DOMAIN h.tcp : i # id => g.tcp[i] = h.tcp[i]
    BY <1>1, <1>2
  <1>4. Sound(g.tcp[id]) /\ g.tcp[id].queue = h.tcp[id].queue
    BY <1>2, <1>3 DEF Sound
  <1>5. \A i \in DOMAIN h.tcp : Sound(g.tcp[i]) /\ g.tcp[i].queue = h.tcp[i].queue
    BY <1>2, <1>3, <1>4
  <1>6. Queued(g) = Queued(h)
    BY <1>3, <1>5 DEF Queued
  <1>7. Forwards(g) = Forwards(h) /\ WithObject(g) = WithObject(h)
    BY <1>1 DEF Forwards, WithObject
  <1>8. Tallied(g)
    BY <1>1, <1>3, <1>5, <1>6, <1>7 DEF Tallied, StreamsTallied, QueuesTallied, ObjectsTallied
  <1> QED BY <1>1, <1>3, <1>5, <1>6, <1>8 DEF g

LEMMA RemoveTwo ==
    ASSUME NEW S, IsFiniteSet(S), NEW x \in S, NEW y \in S, x # y, NEW T, T = S \ {x, y}
    PROVE  IsFiniteSet(T) /\ Cardinality(T) = Cardinality(S) - 2
  <1> DEFINE U == S \ {x}
  <1>1. IsFiniteSet(U) /\ Cardinality(U) = Cardinality(S) - 1
    BY FS_RemoveElement
  <1>2. y \in U /\ T = U \ {y}
    OBVIOUS
  <1>3. Cardinality(S) \in Nat
    BY FS_CardinalityType
  <1> HIDE DEF U
  <1>4. IsFiniteSet(T) /\ Cardinality(T) = Cardinality(U) - 1
    BY <1>1, <1>2, FS_RemoveElement
  <1> QED BY <1>1, <1>3, <1>4

LEMMA AddTwo ==
    ASSUME NEW S, IsFiniteSet(S), NEW x, x \notin S, NEW y, y \notin S, x # y,
           NEW T, T = S \cup {x, y}
    PROVE  IsFiniteSet(T) /\ Cardinality(T) = Cardinality(S) + 2
  <1> DEFINE U == S \cup {x}
  <1>1. IsFiniteSet(U) /\ Cardinality(U) = Cardinality(S) + 1
    BY FS_AddElement
  <1>2. y \notin U /\ T = U \cup {y}
    OBVIOUS
  <1>3. Cardinality(S) \in Nat
    BY FS_CardinalityType
  <1> HIDE DEF U
  <1>4. IsFiniteSet(T) /\ Cardinality(T) = Cardinality(U) + 1
    BY <1>1, <1>2, FS_AddElement
  <1> QED BY <1>1, <1>3, <1>4

\* A pair without packets and dictionaries leaves the table.
LEMMA RemovePairTallied ==
    ASSUME NEW d, Well(d), Tallied(d), NEW f \in Forwards(d),
           d.tcp[f].queue = <<>>, d.tcp[f + 1].queue = <<>>, ~d.streams[f].object,
           NEW g, DOMAIN g = Fields,
           g.streams = [i \in DOMAIN d.streams \ {f, f + 1} |-> d.streams[i]],
           g.tcp = [i \in DOMAIN d.tcp \ {f, f + 1} |-> d.tcp[i]],
           g.total_streams = d.total_streams - 2,
           g.outstanding = d.outstanding, g.objects = d.objects
    PROVE  Tallied(g) /\ Queued(g) = Queued(d)
  <1> DEFINE S == DOMAIN d.streams
             T == S \ {f, f + 1}
  <1>1. f \in S /\ f + 1 \in S /\ f \in Nat /\ f # f + 1 /\ f + 1 \notin Forwards(d)
        /\ Reversed(f) = f + 1 /\ Reversed(f + 1) = f
    <2>1. f \in S /\ f \in Nat /\ f = Forward(f)
      BY DEF Forwards, Well, Typed, Paired
    <2>2. Reversed(f) = f + 1 /\ Reversed(f + 1) = f /\ Forward(f + 1) = f
      BY <2>1, PairFacts
    <2>3. f + 1 \in S
      BY <2>1, <2>2 DEF Well, Paired
    <2>4. f + 1 \notin Forwards(d)
      <3>1. f + 1 # Forward(f + 1)
        BY <2>1, <2>2
      <3> QED BY <3>1 DEF Forwards, Well, Paired
    <2> QED BY <2>1, <2>2, <2>3, <2>4
  <1>2. DOMAIN d.tcp = S /\ \A i \in S : Sound(d.tcp[i])
    BY DEF Tallied, QueuesTallied
  <1>3. /\ DOMAIN g.streams = T /\ \A i \in T : g.streams[i] = d.streams[i]
        /\ DOMAIN g.tcp = T /\ \A i \in T : g.tcp[i] = d.tcp[i]
    BY <1>2
  <1>4. StreamsTallied(g)
    <2>1. PICK P : P = S
      OBVIOUS
    <2>2. PICK y : y = f + 1
      OBVIOUS
    <2>3. PICK Q : Q = T
      OBVIOUS
    <2>4. IsFiniteSet(P) /\ d.total_streams = Cardinality(P)
      BY <2>1 DEF Tallied, StreamsTallied
    <2>5. f \in P /\ y \in P /\ f # y /\ Q = P \ {f, y}
      BY <1>1, <2>1, <2>2, <2>3
    <2>6. IsFiniteSet(Q) /\ Cardinality(Q) = Cardinality(P) - 2
      BY <2>4, <2>5, RemoveTwo
    <2> QED BY <1>3, <2>3, <2>4, <2>6 DEF StreamsTallied
  <1>5. Queued(g) = Queued(d)
    <2>1. \A i \in S \ T : Places(i, d.tcp[i].queue) = {}
      BY <1>1 DEF Places
    <2>2. Queued(d) = UNION {Places(i, d.tcp[i].queue) : i \in S}
      BY <1>2 DEF Queued, Places
    <2>3. Queued(g) = UNION {Places(i, g.tcp[i].queue) : i \in T}
      BY <1>3 DEF Queued, Places
    <2>4. ASSUME NEW x \in Queued(d) PROVE x \in Queued(g)
      <3>1. PICK i \in S : x \in Places(i, d.tcp[i].queue)
        BY <2>2
      <3>2. i \in T
        BY <2>1, <3>1
      <3> QED BY <1>3, <2>3, <3>1, <3>2
    <2>5. ASSUME NEW x \in Queued(g) PROVE x \in Queued(d)
      <3>1. PICK i \in T : x \in Places(i, g.tcp[i].queue)
        BY <2>3
      <3> QED BY <1>3, <2>2, <3>1
    <2> QED BY <2>4, <2>5
  <1>6. QueuesTallied(g)
    BY <1>2, <1>3, <1>5 DEF Tallied, QueuesTallied
  <1>7. WithObject(g) = WithObject(d)
    <2>1. Forwards(g) = Forwards(d) \ {f}
      BY <1>1, <1>3 DEF Forwards
    <2>2. \A i \in Forwards(d) : i # f => i \in T
      BY <1>1 DEF Forwards
    <2>3. \A i \in Forwards(g) : g.streams[i].object = d.streams[i].object
      BY <1>3, <2>1, <2>2
    <2> QED BY <2>1, <2>3 DEF WithObject
  <1>8. ASSUME NEW i \in T PROVE g.streams[Reversed(i)].object = g.streams[i].object
    <2>1. i \in Nat /\ Reversed(i) \in S /\ d.streams[Reversed(i)].object = d.streams[i].object
      BY DEF Well, Typed, Paired, Tallied, ObjectsTallied
    <2>2. Reversed(Reversed(i)) = i
      BY <2>1, PairFacts
    <2>3. Reversed(i) \in T
      BY <1>1, <2>1, <2>2
    <2> QED BY <1>3, <2>1, <2>3
  <1>9. ObjectsTallied(g)
    BY <1>3, <1>7, <1>8 DEF Tallied, ObjectsTallied
  <1> QED BY <1>4, <1>5, <1>6, <1>9 DEF Tallied

\* TCPStream_flush takes the queues, the dictionaries and the streams of a
\* connection off the counters.
LEMMA FlushStreamTallied ==
    ASSUME NEW h, Well(h), Tallied(h), NEW f \in Forwards(h)
    PROVE  /\ Tallied(FlushStream(h, f))
           /\ Queued(FlushStream(h, f)) \subseteq Queued(h)
  <1> DEFINE a == Run(h, f, PadData(h.tcp[f]))
             b == Run(a, f + 1, PadData(a.tcp[f + 1]))
             b1 == [b EXCEPT !.tcp[f].state = "DESTROY"]
             c == CallbackDestroy(b1, f)
             c1 == [c EXCEPT !.tcp[f + 1].state = "DESTROY"]
             d == CallbackDestroy(c1, f + 1)
             k == Bucket[h.streams[f].conn]
             g == [d EXCEPT !.table[k]      = ListDel(ListDel(@, f), f + 1),
                            !.sorted        = ListDel(ListDel(@, f), f + 1),
                            !.streams       = Restrict(@, DOMAIN @ \ {f, f + 1}),
                            !.tcp           = Restrict(@, DOMAIN @ \ {f, f + 1}),
                            !.total_streams = @ - 2]
             S == DOMAIN h.streams
  <1>1. g = FlushStream(h, f)
    BY DEF FlushStream
  <1>2. f \in S /\ f + 1 \in S /\ f # f + 1 /\ f \in Nat /\ Reversed(f + 1) = f
    <2>1. f \in S /\ f \in Nat /\ f = Forward(f)
      BY DEF Forwards, Well, Typed, Paired
    <2>2. Reversed(f) = f + 1 /\ Reversed(f + 1) = f
      BY <2>1, PairFacts
    <2>3. f + 1 \in S
      BY <2>1, <2>2 DEF Well, Paired
    <2> QED BY <2>1, <2>2, <2>3
  <1>3. ASSUME NEW e, Well(e), Tallied(e), NEW i \in DOMAIN e.streams
        PROVE  LET r == Run(e, i, PadData(e.tcp[i]))
               IN  /\ SameTable(e, r) /\ Well(r) /\ Tallied(r)
                   /\ DOMAIN r.tcp = DOMAIN e.tcp /\ r.tcp[i].queue = <<>>
                   /\ \A j \in DOMAIN e.tcp : j # i => r.tcp[j] = e.tcp[j]
                   /\ Queued(r) \subseteq Queued(e)
    <2>1. Sound(e.tcp[i])
      BY <1>3 DEF Tallied, QueuesTallied
    <2>2. PICK s : s = PadData(e.tcp[i])
      OBVIOUS
    <2>3. Sound(s) /\ s.queue = <<>>
      BY <2>1, <2>2, PadDataEmpties
    <2>4. SameTable(e, Run(e, i, s)) /\ Well(Run(e, i, s))
      BY <1>3, RunSame, SameTableWell
    <2>5. Ran(e, i, s, Run(e, i, s))
      BY <1>3, <2>3, RunTallied
    <2>6. PICK r : r = Run(e, i, s)
      OBVIOUS
    <2>7. /\ SameTable(e, r) /\ Well(r) /\ Tallied(r)
          /\ DOMAIN r.tcp = DOMAIN e.tcp /\ r.tcp[i].queue = <<>>
          /\ \A j \in DOMAIN e.tcp : j # i => r.tcp[j] = e.tcp[j]
          /\ Queued(r) \subseteq Queued(e)
      BY <2>3, <2>4, <2>5, <2>6 DEF Ran
    <2> QED BY <2>2, <2>6, <2>7
  <1>4. /\ Well(a) /\ Tallied(a) /\ DOMAIN a.streams = S /\ DOMAIN a.tcp = S
        /\ Forwards(a) = Forwards(h)
        /\ a.tcp[f].queue = <<>> /\ Queued(a) \subseteq Queued(h)
    <2>1. SameTable(h, a) /\ DOMAIN h.tcp = S
      BY <1>2, <1>3 DEF Tallied, QueuesTallied
    <2> QED BY <1>2, <1>3, <2>1, SameTableWell DEF SameTable
  <1> HIDE DEF a
  <1>5. /\ Well(b) /\ Tallied(b) /\ DOMAIN b.streams = S /\ DOMAIN b.tcp = S
        /\ Forwards(b) = Forwards(h)
        /\ b.tcp[f].queue = <<>> /\ b.tcp[f + 1].queue = <<>>
        /\ Queued(b) \subseteq Queued(h)
    <2>1. PICK y : y = f + 1
      OBVIOUS
    <2>2. y \in DOMAIN a.streams /\ f # y /\ b = Run(a, y, PadData(a.tcp[y]))
      BY <1>2, <1>4, <2>1
    <2> HIDE DEF b
    <2>3. /\ SameTable(a, b) /\ Well(b) /\ Tallied(b) /\ DOMAIN b.tcp = S
          /\ b.tcp[y].queue = <<>> /\ \A j \in S : j # y => b.tcp[j] = a.tcp[j]
          /\ Queued(b) \subseteq Queued(a)
      BY <1>3, <1>4, <2>2
    <2>4. b.tcp[f].queue = <<>>
      BY <1>2, <1>4, <2>2, <2>3
    <2>5. Forwards(b) = Forwards(h) /\ DOMAIN b.streams = S
      BY <1>4, <2>3, SameTableWell DEF SameTable
    <2> QED BY <1>4, <2>1, <2>3, <2>4, <2>5
  <1> HIDE DEF b
  <1>6. ASSUME NEW e, Well(e), Tallied(e), NEW i \in DOMAIN e.streams
        PROVE  LET r == CallbackDestroy([e EXCEPT !.tcp[i].state = "DESTROY"], i)
               IN  /\ SameTable(e, r) /\ Well(r) /\ Tallied(r)
                   /\ ~r.streams[i].object
                   /\ \A j \in DOMAIN e.tcp : r.tcp[j].queue = e.tcp[j].queue
                   /\ Queued(r) = Queued(e) /\ DOMAIN r.tcp = DOMAIN e.tcp
    <2> DEFINE x == [e EXCEPT !.tcp[i].state = "DESTROY"]
    <2>0. SameTable(e, x)
      BY <1>6, StateSame
    <2>1. SameTable(e, x) /\ Well(x) /\ i \in DOMAIN x.streams
      <3> HIDE DEF x
      <3> QED BY <1>6, <2>0, SameTableWell DEF SameTable
    <2>2. /\ Tallied(x) /\ DOMAIN x.tcp = DOMAIN e.tcp
          /\ \A j \in DOMAIN e.tcp : x.tcp[j].queue = e.tcp[j].queue
          /\ Queued(x) = Queued(e)
      BY <1>6, StateTallied
    <2> HIDE DEF x
    <2> DEFINE r == CallbackDestroy(x, i)
    <2>3. Tallied(r) /\ ~r.streams[i].object /\ r.tcp = x.tcp
      BY <2>1, <2>2, CallbackDestroyTallied
    <2>4. SameTable(x, r)
      BY <2>1, CallbackDestroySame
    <2> HIDE DEF r
    <2>5. SameTable(e, r) /\ Well(r)
      BY <2>1, <2>4, SameTableTransitive, SameTableWell
    <2>6. Queued(r) = Queued(x)
      BY <2>3 DEF Queued
    <2> QED BY <2>2, <2>3, <2>5, <2>6 DEF r, x
  <1>7. /\ Well(c) /\ Tallied(c) /\ DOMAIN c.streams = S /\ DOMAIN c.tcp = S
        /\ Forwards(c) = Forwards(h)
        /\ c.tcp[f].queue = <<>> /\ c.tcp[f + 1].queue = <<>>
        /\ Queued(c) \subseteq Queued(h)
    <2>1. SameTable(b, c)
      BY <1>2, <1>5, <1>6
    <2>2. DOMAIN c.streams = S /\ Forwards(c) = Forwards(h)
      BY <1>5, <2>1, SameTableWell DEF SameTable
    <2> QED BY <1>2, <1>5, <1>6, <2>2
  <1> HIDE DEF c
  <1>8. /\ Well(d) /\ Tallied(d) /\ DOMAIN d.streams = S /\ DOMAIN d.tcp = S
        /\ Forwards(d) = Forwards(h)
        /\ d.tcp[f].queue = <<>> /\ d.tcp[f + 1].queue = <<>>
        /\ Queued(d) \subseteq Queued(h) /\ ~d.streams[f + 1].object
    <2>1. PICK y : y = f + 1
      OBVIOUS
    <2>2. y \in S /\ d = CallbackDestroy([c EXCEPT !.tcp[y].state = "DESTROY"], y)
      BY <1>2, <2>1
    <2> HIDE DEF d
    <2>3. /\ SameTable(c, d) /\ Well(d) /\ Tallied(d) /\ ~d.streams[y].object
          /\ \A j \in S : d.tcp[j].queue = c.tcp[j].queue
          /\ Queued(d) = Queued(c) /\ DOMAIN d.tcp = S
      BY <1>6, <1>7, <2>2
    <2>4. DOMAIN d.streams = S /\ Forwards(d) = Forwards(h)
      BY <1>7, <2>3, SameTableWell DEF SameTable
    <2> QED BY <1>2, <1>7, <2>1, <2>3, <2>4
  <1> HIDE DEF d
  <1>9. ~d.streams[f].object
    <2>1. d.streams[Reversed(f + 1)].object = d.streams[f + 1].object
      BY <1>2, <1>8 DEF Tallied, ObjectsTallied
    <2> QED BY <1>2, <1>8, <2>1
  <1>10. /\ DOMAIN g = Fields
         /\ g.streams = [i \in DOMAIN d.streams \ {f, f + 1} |-> d.streams[i]]
         /\ g.tcp = [i \in DOMAIN d.tcp \ {f, f + 1} |-> d.tcp[i]]
         /\ g.total_streams = d.total_streams - 2
         /\ g.outstanding = d.outstanding /\ g.objects = d.objects
    <2>1. DOMAIN d = Fields
      BY <1>8 DEF Well, Typed
    <2> QED BY <2>1 DEF Fields, Restrict
  <1> HIDE DEF g
  <1>11. Tallied(g) /\ Queued(g) = Queued(d)
    BY <1>8, <1>9, <1>10, RemovePairTallied
  <1> QED BY <1>1, <1>8, <1>11

-----------------------------------------------------------------------------
(* TCPStream_flush.                                                         *)

LEMMA WithinTransitive ==
    ASSUME NEW l, NEW m, NEW n, Within(m, l), Within(n, m)
    PROVE  Within(n, l)
  <1> SUFFICES ASSUME NEW i \in 1 .. Len(n), NEW j \in 1 .. Len(n), i < j
               PROVE  \E a, b \in 1 .. Len(l) : a < b /\ l[a] = n[i] /\ l[b] = n[j]
    BY DEF Within
  <1>1. PICK a, b \in 1 .. Len(m) : a < b /\ m[a] = n[i] /\ m[b] = n[j]
    BY DEF Within
  <1>2. PICK c, d \in 1 .. Len(l) : c < d /\ l[c] = m[a] /\ l[d] = m[b]
    BY <1>1 DEF Within
  <1> QED BY <1>1, <1>2

\* A list from which both streams of a pair are taken.
LEMMA DelPair ==
    ASSUME NEW S, NEW l, Lists(l, S), NEW x \in S, NEW y \in S, x # y
    PROVE  LET m == ListDel(ListDel(l, x), y)
           IN  Lists(m, S \ {x, y}) /\ Within(m, l)
  <1> DEFINE a == ListDel(l, x)
             m == ListDel(a, y)
  <1>1. Lists(a, S \ {x}) /\ Within(a, l)
    BY DelFacts
  <1> HIDE DEF a
  <1>2. Lists(m, (S \ {x}) \ {y}) /\ Within(m, a)
    BY <1>1, DelFacts
  <1>3. (S \ {x}) \ {y} = S \ {x, y}
    OBVIOUS
  <1> HIDE DEF m
  <1> QED BY <1>1, <1>2, <1>3, WithinTransitive DEF m, a

LEMMA FlushStreamFacts ==
    ASSUME NEW h, Well(h), NEW f \in Forwards(h)
    PROVE  LET g == FlushStream(h, f)
           IN  /\ Well(g)
               /\ DOMAIN g.streams = DOMAIN h.streams \ {f, f + 1}
               /\ Forwards(g) = Forwards(h) \ {f}
               /\ g.con_id = h.con_id
               /\ \A n : Ordered(h, n) => Ordered(g, n)
  <1> DEFINE a == Run(h, f, PadData(h.tcp[f]))
             b == Run(a, f + 1, PadData(a.tcp[f + 1]))
             b1 == [b EXCEPT !.tcp[f].state = "DESTROY"]
             c == CallbackDestroy(b1, f)
             c1 == [c EXCEPT !.tcp[f + 1].state = "DESTROY"]
             d == CallbackDestroy(c1, f + 1)
             k == Bucket[h.streams[f].conn]
             g == [d EXCEPT !.table[k]      = ListDel(ListDel(@, f), f + 1),
                            !.sorted        = ListDel(ListDel(@, f), f + 1),
                            !.streams       = Restrict(@, DOMAIN @ \ {f, f + 1}),
                            !.tcp           = Restrict(@, DOMAIN @ \ {f, f + 1}),
                            !.total_streams = @ - 2]
  <1>1. g = FlushStream(h, f)
    BY DEF FlushStream
  <1>2. f \in DOMAIN h.streams /\ f \in Nat /\ f = Forward(f) /\ Reversed(f) = f + 1
        /\ f + 1 \in DOMAIN h.streams /\ Reversed(f + 1) = f
    <2>1. f \in DOMAIN h.streams /\ f \in Nat /\ f = Forward(f)
      BY DEF Forwards, Well, Typed, Paired
    <2>2. Reversed(f) = f + 1 /\ Reversed(f + 1) = f
      BY <2>1, PairFacts
    <2> QED BY <2>1, <2>2 DEF Well, Paired
  <1>3. Well(d) /\ SameTable(h, d)
    <2>1. SameTable(h, a) /\ Well(a)
      BY RunSame, SameTableWell
    <2> HIDE DEF a
    <2>2. SameTable(h, b) /\ Well(b)
      BY <2>1, RunSame, SameTableWell, SameTableTransitive
    <2> HIDE DEF b
    <2>3. SameTable(h, b1) /\ Well(b1)
      BY <2>2, StateSame, SameTableWell, SameTableTransitive
    <2> HIDE DEF b1
    <2>4. f \in DOMAIN b1.streams
      BY <1>2, <2>3 DEF SameTable
    <2>5. SameTable(h, c) /\ Well(c)
      BY <2>3, <2>4, CallbackDestroySame, SameTableWell, SameTableTransitive
    <2> HIDE DEF c
    <2>6. SameTable(h, c1) /\ Well(c1)
      BY <2>5, StateSame, SameTableWell, SameTableTransitive
    <2> HIDE DEF c1
    <2>7. f + 1 \in DOMAIN c1.streams
      BY <1>2, <2>6 DEF SameTable
    <2> QED BY <2>6, <2>7, CallbackDestroySame, SameTableWell, SameTableTransitive
  <1> HIDE DEF d
  <1> DEFINE S == DOMAIN d.streams
             S2 == S \ {f, f + 1}
  <1>4. DOMAIN d = Fields /\ S = DOMAIN h.streams /\ d.con_id = h.con_id
    BY <1>3 DEF Well, Typed, SameTable
  <1>5. /\ DOMAIN g = Fields /\ g.con_id = d.con_id /\ g.seen = d.seen
        /\ g.sorted = ListDel(ListDel(d.sorted, f), f + 1)
        /\ g.table = [d.table EXCEPT ![k] = ListDel(ListDel(@, f), f + 1)]
        /\ g.streams = [i \in S2 |-> d.streams[i]]
    BY <1>4 DEF Fields, Restrict
  <1> HIDE DEF g
  <1>6. DOMAIN g.streams = S2 /\ \A i \in S2 : g.streams[i] = d.streams[i]
    BY <1>5
  <1>7. Typed(g)
    <2>1. DOMAIN g.table = 1 .. TableSize
      BY <1>3, <1>5 DEF Well, Typed
    <2>2. g.con_id \in Nat /\ Forward(g.con_id) = g.con_id
      BY <1>3, <1>5 DEF Well, Typed
    <2>3. g.streams \in [S2 -> StreamInfo]
      BY <1>3, <1>5 DEF Well, Typed
    <2>4. \A i \in S2 : i \in Nat /\ i < g.con_id
      BY <1>3, <1>5 DEF Well, Typed
    <2> QED BY <1>5, <1>6, <2>1, <2>2, <2>3, <2>4 DEF Typed
  <1>8. Paired(g)
    <2> SUFFICES ASSUME NEW i \in S2
                 PROVE  /\ Reversed(i) \in S2
                        /\ d.streams[Reversed(i)].conn = d.streams[i].conn
                        /\ d.streams[Reversed(i)].side = Other(d.streams[i].side)
                        /\ d.streams[i].direction = "FORWARD" <=> i = Forward(i)
      BY <1>6 DEF Paired
    <2>1. /\ Reversed(i) \in S
          /\ d.streams[Reversed(i)].conn = d.streams[i].conn
          /\ d.streams[Reversed(i)].side = Other(d.streams[i].side)
          /\ d.streams[i].direction = "FORWARD" <=> i = Forward(i)
      BY <1>3 DEF Well, Paired
    <2>2. i \in Nat
      BY <1>3 DEF Well, Typed
    <2>3. Reversed(Reversed(i)) = i
      BY <2>2, PairFacts
    <2>4. Reversed(i) # f /\ Reversed(i) # f + 1
      BY <1>2, <2>3
    <2> QED BY <2>1, <2>4
  <1>9. Distinct(g)
    BY <1>3, <1>6 DEF Well, Distinct
  <1>10. Lists(g.sorted, S2) /\ Within(g.sorted, d.sorted)
    <2>1. Lists(d.sorted, S)
      BY <1>3 DEF Well, Listed
    <2>2. f \in S /\ f + 1 \in S /\ f # f + 1
      BY <1>2, <1>4
    <2> QED BY <1>5, <2>1, <2>2, DelPair
  <1>11. k \in 1 .. TableSize
    BY <1>2, TableAssumption DEF Well, Typed, StreamInfo
  <1>12. Bucket[d.streams[f].conn] = k /\ Bucket[d.streams[f + 1].conn] = k
    <2>1. d.streams[f].conn = h.streams[f].conn
      BY <1>2, <1>3 DEF SameTable
    <2>2. d.streams[f + 1].conn = d.streams[f].conn
      BY <1>2, <1>3, <1>4 DEF Well, Paired
    <2> QED BY <2>1, <2>2
  <1> HIDE DEF k
  <1>13. ASSUME NEW x \in 1 .. TableSize PROVE Lists(g.table[x], InBucket(g, x))
    <2>1. InBucket(g, x) = InBucket(d, x) \ {f, f + 1}
      BY <1>6 DEF InBucket
    <2>2. Lists(d.table[x], InBucket(d, x))
      BY <1>3 DEF Well, Listed
    <2>3. CASE x = k
      <3>1. f \in InBucket(d, x) /\ f + 1 \in InBucket(d, x) /\ f # f + 1
        BY <1>2, <1>4, <1>12, <2>3 DEF InBucket
      <3>2. g.table[x] = ListDel(ListDel(d.table[x], f), f + 1)
        BY <1>3, <1>5, <1>11, <2>3 DEF Well, Typed
      <3> QED BY <2>1, <2>2, <3>1, <3>2, DelPair
    <2>4. CASE x # k
      <3>1. InBucket(g, x) = InBucket(d, x)
        BY <1>12, <2>1, <2>4 DEF InBucket
      <3>2. g.table[x] = d.table[x]
        BY <1>3, <1>5, <2>4 DEF Well, Typed
      <3> QED BY <2>2, <3>1, <3>2
    <2> QED BY <2>3, <2>4
  <1>14. Well(g)
    BY <1>6, <1>7, <1>8, <1>9, <1>10, <1>13 DEF Well, Listed
  <1>15. Forwards(g) = Forwards(h) \ {f}
    <2>1. Forwards(d) = Forwards(h)
      BY <1>3, SameTableWell
    <2>2. f + 1 \notin Forwards(d)
      <3>1. Forward(f + 1) = f
        BY <1>2, PairFacts
      <3>2. f + 1 # Forward(f + 1)
        BY <1>2, <3>1
      <3> QED BY <1>3, <3>2 DEF Forwards, Well, Paired
    <2> QED BY <1>6, <2>1, <2>2 DEF Forwards
  <1>16. ASSUME NEW n, Ordered(h, n) PROVE Ordered(g, n)
    <2>1. Ordered(d, n)
      BY <1>3, <1>16, SameTableWell
    <2>2. \A i \in S2 : Forward(i) \in DOMAIN g.seen /\ g.seen[Forward(i)] \in 0 .. n
      BY <1>5, <2>1 DEF Ordered
    <2>3. ASSUME NEW i \in 1 .. Len(g.sorted), NEW j \in 1 .. Len(g.sorted), i < j
          PROVE  g.seen[Forward(g.sorted[i])] >= g.seen[Forward(g.sorted[j])]
      <3>1. PICK u, v \in 1 .. Len(d.sorted) :
               u < v /\ d.sorted[u] = g.sorted[i] /\ d.sorted[v] = g.sorted[j]
        BY <1>10, <2>3 DEF Within
      <3> QED BY <1>5, <2>1, <3>1 DEF Ordered
    <2> QED BY <1>6, <2>2, <2>3 DEF Ordered
  <1> QED BY <1>1, <1>4, <1>5, <1>6, <1>14, <1>15, <1>16
-----------------------------------------------------------------------------
(* The callback into Python.                                                *)

TellStep(con, k, p) == PyCallback(con, p[1], p[2][k])
StaysOpen(p, k, con) == Open(con) /\ con.urn = p[3]

Telling == INSTANCE Iteration WITH Step <- TellStep, Holds <- StaysOpen

\* Data and retransmissions leave a connection open.
LEMMA ToldOpen ==
    ASSUME NEW con, Open(con), NEW d, NEW events, Packets(events)
    PROVE  Open(Told(con, d, events)) /\ Told(con, d, events).urn = con.urn
  <1> DEFINE n == Len(events)
  <1>1. n \in Nat /\ \A k \in 1 .. n : events[k].kind \in {"data", "retran"}
    BY DEF Packets
  <1>2. ASSUME NEW p, p[1] = d, p[2] = events, p[3] = con.urn
        PROVE  StaysOpen(p, n, Telling!Iterate(p, con, n))
    <2>1. ASSUME NEW k \in 1 .. n, NEW x, StaysOpen(p, k - 1, x)
          PROVE  StaysOpen(p, k, TellStep(x, k, p))
      <3> DEFINE e == events[k]
      <3>1. /\ Open(x) /\ x.urn = p[3] /\ e.kind \in {"data", "retran"}
            /\ TellStep(x, k, p) = PyCallback(x, d, e)
        BY <1>1, <1>2, <2>1 DEF StaysOpen, TellStep
      <3> HIDE DEF e
      <3>2. PyCallback(x, d, e) = IF e.kind = "data" THEN OnData(x, d, e) ELSE x
        BY <3>1 DEF PyCallback
      <3>3. Open(OnData(x, d, e)) /\ OnData(x, d, e).urn = x.urn
        <4> DEFINE v == Append(x.map[d], [start |-> e.start, len |-> e.len,
                                          seq |-> e.seq, pad |-> e.pad])
        <4>1. OnData(x, d, e) = IF e.len = 0 THEN x ELSE [x EXCEPT !.map[d] = v]
          BY <3>1 DEF OnData, Open
        <4> HIDE DEF v
        <4> QED BY <3>1, <4>1 DEF Open
      <3> QED BY <3>1, <3>2, <3>3 DEF StaysOpen
    <2>2. StaysOpen(p, 0, con)
      BY <1>2 DEF StaysOpen
    <2>3. StaysOpen(p, n, Telling!Iterate(p, con, n))
      BY <1>1, <2>1, <2>2, Telling!IterateHolds
    <2> QED BY <2>3
  <1>3. PICK p : p[1] = d /\ p[2] = events /\ p[3] = con.urn
    <2>1. LET p == <<d, events, con.urn>> IN p[1] = d /\ p[2] = events /\ p[3] = con.urn
      OBVIOUS
    <2> QED BY <2>1
  <1>4. Told(con, d, events) = Telling!Iterate(p, con, n)
    BY <1>3 DEF Told, Telling!Iterate, TellStep
  <1> QED BY <1>2, <1>3, <1>4 DEF StaysOpen

LEMMA ForwardAllocated ==
    ASSUME NEW h, Well(h), NEW i \in DOMAIN h.streams
    PROVE  Forward(i) \in Forwards(h)
  <1>1. i \in Nat
    BY DEF Well, Typed
  <1>2. (Forward(i) = i \/ Forward(i) = Reversed(i)) /\ Forward(Forward(i)) = Forward(i)
    BY <1>1, PairFacts
  <1>3. Forward(i) \in DOMAIN h.streams
    BY <1>2 DEF Well, Paired
  <1> QED BY <1>2, <1>3 DEF Well, Paired, Forwards

LEMMA ScannedPair ==
    ASSUME NEW h, NEW g, NEW f, ScannedBut(h, {f}), OnlyPair(h, g, f)
    PROVE  ScannedBut(g, {f})
  BY DEF ScannedBut, OnlyPair

\* A connection that is open again counts with the others.
LEMMA ScannedAll ==
    ASSUME NEW h, NEW f \in Forwards(h)
    PROVE  Scanned(h) <=> /\ ScannedBut(h, {f}) /\ f \in DOMAIN h.py
                          /\ h.streams[f].object /\ Open(h.py[f])
  BY DEF ScannedBut, Scanned

LEMMA ScannedSame ==
    ASSUME NEW h, NEW g, g.py = h.py, g.streams = h.streams
    PROVE  /\ Forwards(g) = Forwards(h)
           /\ \A X : ScannedBut(g, X) <=> ScannedBut(h, X)
           /\ Scanned(g) <=> Scanned(h)
  <1>1. Forwards(g) = Forwards(h)
    BY DEF Forwards
  <1> QED BY <1>1 DEF ScannedBut, Scanned

LEMMA RunScanned ==
    ASSUME NEW h, Well(h), Scanned(h), NEW id \in DOMAIN h.streams, NEW s, Sound(s)
    PROVE  Scanned(Run(h, id, s))
  <1> DEFINE o == [s EXCEPT !.out = <<>>]
             e == [h EXCEPT !.tcp[id]     = o,
                            !.outstanding = @ + Len(s.queue) - Len(h.tcp[id].queue)]
             f == Forward(id)
             g == TellAll(e, id, s.out)
  <1>1. Run(h, id, s) = IF e.streams[id].object THEN g ELSE e
    BY DEF Run, CallbackPackets
  <1> HIDE DEF o
  <1>2. DOMAIN e = Fields /\ e.py = h.py /\ e.streams = h.streams
    BY DEF Well, Typed, Fields
  <1>3. f \in Forwards(h)
    BY ForwardAllocated
  <1> HIDE DEF e
  <1>4. /\ ScannedBut(e, {f}) /\ f \in DOMAIN e.py /\ e.streams[f].object /\ Open(e.py[f])
        /\ Forwards(e) = Forwards(h) /\ Scanned(e)
    BY <1>2, <1>3, ScannedSame, ScannedAll
  <1>5. /\ g.py = [e.py EXCEPT ![f] = Told(e.py[f], id - f, s.out)]
        /\ g.streams = e.streams
    BY <1>2 DEF TellAll, Fields
  <1> HIDE DEF g, f
  <1>6. /\ g.py[f] = Told(e.py[f], id - f, s.out) /\ DOMAIN g.py = DOMAIN e.py
        /\ \A i \in DOMAIN e.py : i # f => g.py[i] = e.py[i]
    BY <1>4, <1>5
  <1>7. Open(g.py[f])
    BY <1>4, <1>6, ToldOpen DEF Sound
  <1>8. Forwards(g) = Forwards(e)
    BY <1>5 DEF Forwards
  <1>9. ScannedBut(g, {f})
    BY <1>4, <1>5, <1>6, <1>8, ScannedPair DEF OnlyPair
  <1>10. Scanned(g)
    BY <1>3, <1>4, <1>5, <1>6, <1>7, <1>8, <1>9, ScannedAll
  <1> QED BY <1>1, <1>4, <1>10

\* The connection ends; its streams are still there.
LEMMA DestroyScanned ==
    ASSUME NEW h, Well(h), Scanned(h), NEW f \in Forwards(h)
    PROVE  LET g == CallbackDestroy(h, f)
           IN  /\ ScannedBut(g, {f}) /\ f \in DOMAIN g.py /\ Ended(g.py[f])
               /\ Forwards(g) = Forwards(h) /\ DOMAIN g.py = DOMAIN h.py
               /\ \A i \in DOMAIN h.py : g.py[i].map = h.py[i].map /\ g.py[i].urn = h.py[i].urn
  <1> DEFINE con == h.py[f]
             t == Tell(h, f, [kind |-> "destroy"])
             d == [t EXCEPT !.streams[f].object = FALSE, !.streams[f + 1].object = FALSE,
                            !.objects = @ - 1]
             v == PyCallback(con, f - f, [kind |-> "destroy"])
  <1>1. f \in DOMAIN h.streams /\ f \in Nat /\ f = Forward(f)
    BY DEF Forwards, Well, Typed, Paired
  <1>2. ScannedBut(h, {f}) /\ f \in DOMAIN h.py /\ h.streams[f].object /\ Open(con)
    BY ScannedAll
  <1>3. CallbackDestroy(h, f) = d
    BY <1>1, <1>2 DEF CallbackDestroy
  <1>4. DOMAIN t = Fields /\ t.py = [h.py EXCEPT ![f] = v] /\ t.streams = h.streams
    <2>1. Forward(f) = f
      BY <1>1
    <2> QED BY <2>1 DEF Tell, Well, Typed, Fields
  <1>5. SameTable(h, CallbackDestroy(h, f)) /\ Forwards(CallbackDestroy(h, f)) = Forwards(h)
    BY <1>1, CallbackDestroySame, SameTableWell
  <1> HIDE DEF t
  <1>6. d.py = t.py /\ d.streams = [h.streams EXCEPT ![f].object = FALSE, ![f + 1].object = FALSE]
    BY <1>4 DEF Fields
  <1>7. v = OnDestroy(con)
    <2>1. [kind |-> "destroy"].kind = "destroy"
      OBVIOUS
    <2>2. PICK e : e = [kind |-> "destroy"]
      OBVIOUS
    <2>3. e.kind = "destroy" /\ v = PyCallback(con, f - f, e)
      BY <2>1, <2>2
    <2> QED BY <2>3 DEF PyCallback
  <1> HIDE DEF v, con
  <1>8. Ended(v) /\ v.map = con.map /\ v.urn = con.urn
    <2>1. CASE HasBytes(con)
      <3>1. v = [con EXCEPT !.state = "closed", !.jobs = @ \o <<0, 1>>]
        BY <1>2, <1>7, <2>1 DEF OnDestroy, Open
      <3>2. v.state = "closed" /\ v.jobs = <<0, 1>> /\ v.map = con.map /\ v.urn = con.urn
        BY <1>2, <3>1 DEF Open
      <3> QED BY <2>1, <3>2 DEF Ended, HasBytes
    <2>2. CASE ~HasBytes(con)
      <3>1. v = [con EXCEPT !.state = "dropped"]
        BY <1>2, <1>7, <2>2 DEF OnDestroy, Open
      <3>2. v.state = "dropped" /\ v.jobs = <<>> /\ v.map = con.map /\ v.urn = con.urn
        BY <1>2, <3>1 DEF Open
      <3> QED BY <2>2, <3>2 DEF Ended, HasBytes
    <2> QED BY <2>1, <2>2
  <1> HIDE DEF d
  <1>9. /\ DOMAIN d.py = DOMAIN h.py /\ d.py[f] = v
        /\ \A i \in DOMAIN h.py : i # f => d.py[i] = h.py[i]
    BY <1>2, <1>4, <1>6
  <1>10. \A i \in Forwards(h) : i # f => d.streams[i].object = h.streams[i].object
    <2>1. h.streams \in [DOMAIN h.streams -> StreamInfo] /\ f + 1 \in DOMAIN h.streams
      <3>1. Reversed(f) = f + 1
        BY <1>1, PairFacts
      <3> QED BY <1>1, <3>1 DEF Well, Typed, Paired
    <2>2. PICK n : n = [h.streams EXCEPT ![f].object = FALSE, ![f + 1].object = FALSE]
      OBVIOUS
    <2>3. ObjectsAre(DOMAIN h.streams, h.streams, n, f, f + 1, FALSE)
      BY <1>1, <2>1, <2>2, ObjectsValue
    <2>4. f + 1 \notin Forwards(h)
      <3>1. Forward(f + 1) = f /\ f # f + 1
        BY <1>1, PairFacts
      <3> QED BY <3>1 DEF Forwards, Well, Paired
    <2>5. \A i \in Forwards(h) : i # f => i \in DOMAIN h.streams /\ i \notin {f, f + 1}
      BY <2>4 DEF Forwards
    <2> QED BY <1>6, <2>2, <2>3, <2>5 DEF ObjectsAre
  <1>11. OnlyPair(h, d, f)
    BY <1>3, <1>5, <1>9, <1>10 DEF OnlyPair
  <1>12. ScannedBut(d, {f})
    BY <1>2, <1>11, ScannedPair
  <1> QED BY <1>2, <1>3, <1>5, <1>8, <1>9, <1>12 DEF con

-----------------------------------------------------------------------------
(* The order of the maps: what TCPStream_add and pad_data hand on.          *)

LEMMA WithStartAppend ==
    ASSUME NEW out, Packets(out), NEW e, NEW q
    PROVE  WithStart(Append(out, e), q) = Append(out, With(e, [start |-> q]))
  <1> DEFINE T == ToSet(out) \cup {e, With(e, [start |-> q])}
             n == Len(out)
             x == With(e, [start |-> q])
             r == Append(out, e)
  <1>1. out \in Seq(T) /\ e \in T /\ x \in T /\ n \in Nat
    BY DEF Packets
  <1> HIDE DEF T, x
  <1>2. /\ r \in Seq(T) /\ Len(r) = n + 1 /\ DOMAIN r = 1 .. n + 1 /\ r[n + 1] = e
        /\ \A i \in 1 .. n : r[i] = out[i]
    BY <1>1
  <1>3. WithStart(r, q) = [r EXCEPT ![n + 1] = x]
    BY <1>2 DEF WithStart, x
  <1> DEFINE a == Append(out, x)
             b == [r EXCEPT ![n + 1] = x]
  <1>4. /\ a \in Seq(T) /\ Len(a) = n + 1 /\ DOMAIN a = 1 .. n + 1 /\ a[n + 1] = x
        /\ \A i \in 1 .. n : a[i] = out[i]
    BY <1>1
  <1>5. a = [i \in 1 .. n + 1 |-> a[i]]
    <2> HIDE DEF a
    <2>1. a \in [1 .. n + 1 -> T]
      BY <1>1, <1>4
    <2> QED BY <2>1
  <1>6. b = [i \in 1 .. n + 1 |-> b[i]] /\ \A i \in 1 .. n + 1 : b[i] = IF i = n + 1 THEN x ELSE r[i]
    <2> HIDE DEF r
    <2> QED BY <1>2
  <1>7. \A i \in 1 .. n + 1 : i = n + 1 \/ i \in 1 .. n
    BY <1>1
  <1> HIDE DEF a, b, r
  <1>8. \A i \in 1 .. n + 1 : a[i] = b[i]
    BY <1>2, <1>4, <1>6, <1>7
  <1>9. a = b
    BY <1>5, <1>6, <1>8
  <1> QED BY <1>3, <1>9 DEF x, a, b, r

\* An event without a whole packet, or one that starts where the stream stood
\* and ends where it stands, is added.
LEMMA ChainAppend ==
    ASSUME NEW out, Packets(out), NEW a \in Int, NEW n \in Int, NEW m \in Int, n <= m,
           Chain(out, a, n), NEW e,
           e.kind = "data" => /\ e.start \in Int /\ e.seq \in Int
                              /\ e.len \in Int /\ e.pad \in Int,
           IsWhole(e) => e.seq = n /\ e.seq + e.len = m
    PROVE  Chain(Append(out, e), a, m)
  <1> DEFINE r == Append(out, e)
             k == Len(out)
  <1>1. /\ k \in Nat /\ Len(r) = k + 1 /\ r[k + 1] = e
        /\ \A i \in 1 .. k : r[i] = out[i]
    <2> DEFINE T == ToSet(out) \cup {e}
    <2>1. out \in Seq(T) /\ e \in T
      BY DEF Packets
    <2> HIDE DEF T
    <2> QED BY <2>1
  <1> HIDE DEF r
  <1>2. \A i \in 1 .. k + 1 : i \in 1 .. k \/ i = k + 1
    BY <1>1
  <1>3. a <= m
    BY DEF Chain
  <1>4. \A i \in 1 .. k : IsWhole(out[i]) =>
           /\ out[i].seq \in Int /\ out[i].len \in Int
           /\ a <= out[i].seq /\ out[i].seq + out[i].len <= n
    BY DEF Chain, IsWhole
  <1>5. ASSUME NEW i \in 1 .. k + 1
        PROVE  /\ r[i].kind = "data" => /\ r[i].start \in Int /\ r[i].seq \in Int
                                        /\ r[i].len \in Int /\ r[i].pad \in Int
               /\ IsWhole(r[i]) => a <= r[i].seq /\ r[i].seq + r[i].len <= m
    <2>1. CASE i \in 1 .. k
      <3>1. r[i] = out[i]
        BY <1>1, <2>1
      <3>2. IsWhole(out[i]) => a <= out[i].seq /\ out[i].seq + out[i].len <= m
        BY <1>4, <2>1
      <3> QED BY <2>1, <3>1, <3>2 DEF Chain
    <2>2. CASE i = k + 1
      <3>1. r[i] = e /\ a <= n
        BY <1>1, <2>2 DEF Chain
      <3>2. IsWhole(e) => e.kind = "data"
        BY DEF IsWhole
      <3> QED BY <3>1, <3>2
    <2> QED BY <1>2, <2>1, <2>2
  <1>6. ASSUME NEW i \in 1 .. k + 1, NEW j \in 1 .. k + 1, i < j, IsWhole(r[i]), IsWhole(r[j])
        PROVE  r[i].seq + r[i].len <= r[j].seq
    <2>1. i \in 1 .. k
      BY <1>1, <1>6
    <2>2. CASE j \in 1 .. k
      BY <1>1, <1>6, <2>1, <2>2 DEF Chain
    <2>3. CASE j = k + 1
      BY <1>1, <1>4, <1>6, <2>1, <2>3
    <2> QED BY <1>2, <2>2, <2>3
  <1> QED BY <1>1, <1>3, <1>5, <1>6 DEF Chain, r

LEMMA ChainLater ==
    ASSUME NEW out, NEW a \in Int, NEW n \in Int, NEW m \in Int, n <= m, Chain(out, a, n)
    PROVE  Chain(out, a, m)
  <1>1. a <= m
    BY DEF Chain
  <1>2. \A i \in 1 .. Len(out) : IsWhole(out[i]) => out[i].seq + out[i].len <= m
    <2> TAKE i \in 1 .. Len(out)
    <2>1. IsWhole(out[i]) => /\ out[i].seq \in Int /\ out[i].len \in Int
                             /\ out[i].seq + out[i].len <= n
      BY DEF Chain, IsWhole
    <2> QED BY <2>1
  <1> QED BY <1>1, <1>2 DEF Chain

LEMMA ChainEmpty ==
    ASSUME NEW n \in Int
    PROVE  Chain(<<>>, n, n)
  BY DEF Chain

\* The numbers of a stream.
LEMMA TameNumbers ==
    ASSUME NEW s, Sound(s), Tame(s)
    PROVE  /\ s.next_seq \in Nat /\ s.next_seq < HalfSeq /\ Len(s.queue) \in Nat
           /\ \A k \in 1 .. Len(s.queue) :
                 /\ s.queue[k] \in PacketType
                 /\ s.queue[k].seq \in Nat /\ s.queue[k].data_len \in Nat
                 /\ s.queue[k].seq + s.queue[k].data_len < HalfSeq
                 /\ s.queue[k].data_len <= MaxPad
           /\ s.queue # <<>> => /\ Len(s.queue) > 0 /\ Head(s.queue) = s.queue[1]
                                /\ s.state # "NONE"
                                /\ \A k \in 1 .. Len(s.queue) : Head(s.queue).seq <= s.queue[k].seq
  <1>1. s.queue \in Seq(PacketType) /\ s.next_seq \in 0 .. SeqSpace - 1 /\ s.next_seq < HalfSeq
    BY DEF Sound, Tame
  <1>2. Len(s.queue) \in Nat /\ s.next_seq \in Nat
    BY <1>1, HalfSeqAssumption DEF SeqSpace
  <1>3. \A k \in 1 .. Len(s.queue) :
           /\ s.queue[k] \in PacketType
           /\ s.queue[k].seq \in Nat /\ s.queue[k].data_len \in Nat
    <2> TAKE k \in 1 .. Len(s.queue)
    <2>1. s.queue[k] \in PacketType
      BY <1>1
    <2> QED BY <2>1, HalfSeqAssumption DEF PacketType, SeqSpace
  <1>4. ASSUME s.queue # <<>>
        PROVE  /\ Len(s.queue) > 0 /\ Head(s.queue) = s.queue[1] /\ s.state # "NONE"
               /\ \A k \in 1 .. Len(s.queue) : Head(s.queue).seq <= s.queue[k].seq
    <2>1. Len(s.queue) > 0 /\ Head(s.queue) = s.queue[1]
      BY <1>1, <1>4, TailFacts
    <2>2. \A k \in 1 .. Len(s.queue) : k = 1 \/ 1 < k
      BY <1>2
    <2>3. 1 \in 1 .. Len(s.queue)
      BY <1>2, <2>1
    <2>4. \A k \in 1 .. Len(s.queue) : s.queue[1].seq <= s.queue[k].seq
      BY <1>3, <2>2, <2>3 DEF Tame
    <2> QED BY <1>4, <2>1, <2>4 DEF Tame
  <1> QED BY <1>1, <1>2, <1>3, <1>4 DEF Tame

\* The first packet is gone; the stream stands at or before its end, or where
\* it stood.
LEMMA TameTail ==
    ASSUME NEW s, Sound(s), Tame(s), s.queue # <<>>,
           NEW t, t.queue = Tail(s.queue), t.state # "NONE",
           t.next_seq \in Nat, t.next_seq < HalfSeq
    PROVE  /\ Tame(t)
           /\ t.next_seq <= Head(s.queue).seq + MaxPad => Near(t)
           /\ Near(s) /\ t.next_seq <= s.next_seq => Near(t)
  <1>1. s.queue \in Seq(PacketType)
    BY DEF Sound
  <1>2. /\ Len(s.queue) \in Nat /\ Len(s.queue) > 0 /\ Len(t.queue) = Len(s.queue) - 1
        /\ \A k \in 1 .. Len(t.queue) : k + 1 \in 1 .. Len(s.queue) /\ t.queue[k] = s.queue[k + 1]
    BY <1>1, TailFacts
  <1>3. \A j, k \in 1 .. Len(t.queue) : j < k => t.queue[j].seq <= t.queue[k].seq
    <2> TAKE j, k \in 1 .. Len(t.queue)
    <2>1. j < k => j + 1 < k + 1
      BY <1>2
    <2> QED BY <1>2, <2>1 DEF Tame
  <1>4. Tame(t)
    BY <1>2, <1>3 DEF Tame
  <1>5. /\ s.next_seq \in Nat /\ Head(s.queue).seq \in Nat
        /\ \A k \in 1 .. Len(s.queue) : /\ s.queue[k].seq \in Nat
                                        /\ Head(s.queue).seq <= s.queue[k].seq
    BY <1>2, TameNumbers
  <1>6. MaxPad \in Nat
    BY MaxPadAssumption
  <1>7. ASSUME t.next_seq <= Head(s.queue).seq + MaxPad, NEW k \in 1 .. Len(t.queue)
        PROVE  t.next_seq <= t.queue[k].seq + MaxPad
    <2>1. t.queue[k].seq \in Nat /\ Head(s.queue).seq <= t.queue[k].seq
      BY <1>2, <1>5
    <2> QED BY <1>5, <1>6, <1>7, <2>1
  <1>8. ASSUME Near(s), t.next_seq <= s.next_seq, NEW k \in 1 .. Len(t.queue)
        PROVE  t.next_seq <= t.queue[k].seq + MaxPad
    <2>1. t.queue[k].seq \in Nat /\ s.next_seq <= t.queue[k].seq + MaxPad
      BY <1>2, <1>5, <1>8 DEF Near
    <2> QED BY <1>5, <1>6, <1>8, <2>1
  <1> QED BY <1>4, <1>7, <1>8 DEF Near

\* A packet that starts where the stream stands, or behind the zeros.
LEMMA DeliverChain ==
    ASSUME NEW s, Sound(s), Tame(s), s.queue # <<>>, NEW a \in Int, Chain(s.out, a, s.next_seq),
           NEW p \in PacketType, NEW pad \in 0 .. MaxPad,
           p.seq = s.next_seq + pad, p.seq + p.data_len < HalfSeq
    PROVE  LET t == WithOffset(s, Deliver(s, p, pad))
           IN  /\ Sound(t) /\ t.state = "DATA" /\ t.queue = Tail(s.queue)
               /\ t.next_seq = p.seq + p.data_len
               /\ Chain(t.out, a, t.next_seq)
  <1> DEFINE padded == [p EXCEPT !.data_len = @ + pad]
             d == Deliver(s, p, pad)
             q == Head(s.queue).seq
             e == [kind |-> "data", at |-> s.next_seq, seq |-> p.seq, len |-> p.data_len + pad,
                   pad |-> pad]
             x == With(e, [start |-> q])
             t == WithOffset(s, d)
             n == s.next_seq + (p.data_len + pad)
  <1>1. /\ p.seq \in Nat /\ p.data_len \in Nat /\ pad \in Nat
        /\ padded.data_len = p.data_len + pad /\ padded.seq = p.seq
    BY HalfSeqAssumption, MaxPadAssumption DEF PacketType, SeqSpace
  <1>2. s.next_seq \in Nat /\ q \in Nat /\ HalfSeq \in Nat
    <2>1. 1 \in 1 .. Len(s.queue)
      BY TameNumbers
    <2> QED BY <2>1, TameNumbers, HalfSeqAssumption
  <1>3. n = p.seq + p.data_len /\ U32(n) = n /\ s.next_seq <= n
    <2>1. n = p.seq + p.data_len /\ n \in Int /\ 0 <= n /\ n < SeqSpace /\ s.next_seq <= n
      BY <1>1, <1>2 DEF SeqSpace
    <2> HIDE DEF n
    <2> QED BY <2>1, U32Small
  <1>4. /\ DOMAIN d = DOMAIN s /\ d.state = "DATA" /\ d.queue = Tail(s.queue)
        /\ d.next_seq = n /\ d.out = Append(s.out, e)
    <2>1. Callback(s, "data", padded, pad) = Append(s.out, e)
      BY <1>1 DEF Callback
    <2>2. U32(s.next_seq + padded.data_len) = n
      BY <1>1, <1>3
    <2> HIDE DEF padded, n, e
    <2> QED BY <2>1, <2>2 DEF Deliver, Sound, padded
  <1>5. Sound(d)
    BY DeliverSound
  <1>6. Sound(t) /\ t.queue = d.queue /\ t.next_seq = d.next_seq
    BY <1>5, WithOffsetSound
  <1> HIDE DEF d
  <1>7. Packets(s.out) /\ Len(d.out) # Len(s.out)
    <2>1. Packets(s.out) /\ "kind" \in DOMAIN e /\ e.kind = "data"
      BY DEF Sound
    <2> HIDE DEF e
    <2>2. Len(Append(s.out, e)) = Len(s.out) + 1 /\ Len(s.out) \in Nat
      BY <2>1, AppendPackets DEF Packets
    <2> QED BY <1>4, <2>1, <2>2
  <1>8. t = [d EXCEPT !.out = WithStart(Append(s.out, e), q)]
    BY <1>4, <1>7 DEF WithOffset
  <1>9. t.out = Append(s.out, x) /\ t.state = "DATA"
    <2> HIDE DEF e, q, t
    <2>1. DOMAIN d = {"next_seq", "queue", "state", "max_packet_id", "out"}
      BY <1>5 DEF Sound
    <2> QED BY <1>4, <1>7, <1>8, <2>1, WithStartAppend
  <1>10. /\ x.kind = "data" /\ x.seq = p.seq /\ x.len = p.data_len + pad /\ x.pad = pad
         /\ x.start = q
    <2> HIDE DEF q
    <2> QED BY DEF With
  <1> HIDE DEF x
  <1>11. IsWhole(x) => x.seq = s.next_seq /\ x.seq + x.len = n
    <2>1. IsWhole(x) => pad = 0
      BY <1>10 DEF IsWhole, Whole
    <2> HIDE DEF q, n
    <2> QED BY <1>1, <1>2, <1>3, <1>10, <2>1
  <1>12. n \in Int
    BY <1>1, <1>2
  <1>13. Chain(Append(s.out, x), a, n)
    <2>1. x.start \in Int /\ x.seq \in Int /\ x.len \in Int /\ x.pad \in Int
      BY <1>1, <1>2, <1>10
    <2> HIDE DEF n, q
    <2> QED BY <1>2, <1>3, <1>7, <1>11, <1>12, <2>1, ChainAppend
  <1> HIDE DEF t, n
  <1> QED BY <1>3, <1>4, <1>6, <1>9, <1>13 DEF t, d

\* The part of the first packet that the stream has not passed.
LEMMA TrimHead ==
    ASSUME NEW s, Sound(s), Tame(s), s.queue # <<>>, Head(s.queue).seq <= s.next_seq
    PROVE  LET p == Trim(Head(s.queue), s.next_seq - Head(s.queue).seq)
               h == Head(s.queue)
           IN  /\ p \in PacketType /\ p.seq = s.next_seq
               /\ p.seq + p.data_len = IF h.seq + h.data_len > s.next_seq
                                       THEN h.seq + h.data_len ELSE s.next_seq
               /\ p.seq + p.data_len < HalfSeq
  <1> DEFINE h == Head(s.queue)
             n == s.next_seq - h.seq
             p == Trim(h, n)
  <1>1. /\ h \in PacketType /\ h.seq \in Nat /\ h.data_len \in Nat /\ h.seq + h.data_len < HalfSeq
        /\ s.next_seq \in Nat /\ s.next_seq < HalfSeq /\ HalfSeq \in Nat
    <2>1. 1 \in 1 .. Len(s.queue) /\ h = s.queue[1]
      BY TameNumbers
    <2> QED BY <2>1, TameNumbers, HalfSeqAssumption
  <1> HIDE DEF h
  <1>2. n \in 0 .. SeqSpace - 1 /\ h.seq + n = s.next_seq /\ n \in Nat
    BY <1>1 DEF SeqSpace, h
  <1>3. U32(h.seq + n) = s.next_seq
    <2>1. s.next_seq \in Int /\ 0 <= s.next_seq /\ s.next_seq < SeqSpace
      BY <1>1 DEF SeqSpace
    <2> QED BY <1>2, <2>1, U32Small
  <1>4. p \in PacketType
    BY <1>1, <1>2, TrimType
  <1>5. p.seq = s.next_seq /\ p.data_len = IF h.data_len > n THEN h.data_len - n ELSE 0
    BY <1>1, <1>3 DEF Trim, PacketType
  <1>6. p.seq + p.data_len = IF h.seq + h.data_len > s.next_seq THEN h.seq + h.data_len ELSE s.next_seq
    BY <1>1, <1>2, <1>5
  <1> QED BY <1>1, <1>4, <1>5, <1>6 DEF h

\* What a turn of a loop does to a stream.
Forth(t, a) == Sound(t) /\ Tame(t) /\ Chain(t.out, a, t.next_seq)

\* pad_to_first_packet moves the stream forward.
LEMMA PadForth ==
    ASSUME NEW s, Sound(s), Tame(s), Near(s), s.queue # <<>>,
           NEW a \in Int, Chain(s.out, a, s.next_seq)
    PROVE  LET t == WithOffset(s, PadToFirstPacket(s)) IN Forth(t, a) /\ Near(t)
  <1> DEFINE h == Head(s.queue)
             pad == I32(h.seq - s.next_seq)
             t == WithOffset(s, PadToFirstPacket(s))
  <1>1. /\ h \in PacketType /\ h.seq \in Nat /\ h.data_len \in Nat /\ h.seq + h.data_len < HalfSeq
        /\ h.data_len <= MaxPad /\ s.next_seq \in Nat /\ s.next_seq < HalfSeq
        /\ HalfSeq \in Nat /\ MaxPad \in Nat /\ s.state # "NONE"
        /\ s.next_seq <= h.seq + MaxPad /\ \A k \in 1 .. Len(s.queue) : h.seq <= s.queue[k].seq
    <2>1. 1 \in 1 .. Len(s.queue) /\ h = s.queue[1]
      BY TameNumbers
    <2> QED BY <2>1, TameNumbers, HalfSeqAssumption, MaxPadAssumption DEF Near
  <1>2. pad = h.seq - s.next_seq
    <2> HIDE DEF h
    <2>1. h.seq - s.next_seq \in Int /\ -HalfSeq <= h.seq - s.next_seq /\ h.seq - s.next_seq < HalfSeq
      BY <1>1
    <2> QED BY <2>1, I32Small
  <1>3. CASE pad > MaxPad
    <2> DEFINE d == [s EXCEPT !.next_seq = h.seq]
    <2>1. PadToFirstPacket(s) = d
      BY <1>3 DEF PadToFirstPacket
    <2>2. /\ d.next_seq = h.seq /\ d.queue = s.queue /\ d.out = s.out /\ d.state = s.state
          /\ DOMAIN d = DOMAIN s
      BY DEF Sound
    <2> HIDE DEF d
    <2>3. t = d
      BY <2>1, <2>2 DEF WithOffset
    <2> HIDE DEF h, pad, t
    <2>4. Sound(d)
      <3>1. h.seq \in 0 .. SeqSpace - 1
        BY <1>1 DEF SeqSpace
      <3> QED BY <2>2, <3>1 DEF Sound
    <2>5. Tame(d)
      BY <1>1, <2>2 DEF Tame
    <2>6. Near(d)
      <3>1. \A k \in 1 .. Len(s.queue) : s.queue[k].seq \in Nat
        BY TameNumbers
      <3>2. \A k \in 1 .. Len(s.queue) : h.seq <= s.queue[k].seq + MaxPad
        BY <1>1, <3>1
      <3> QED BY <2>2, <3>2 DEF Near
    <2>7. Chain(d.out, a, d.next_seq)
      <3>1. s.next_seq <= h.seq
        BY <1>1, <1>2, <1>3
      <3> QED BY <1>1, <2>2, <3>1, ChainLater
    <2> QED BY <2>3, <2>4, <2>5, <2>6, <2>7 DEF Forth, t
  <1>4. CASE pad \in 0 .. MaxPad
    <2>1. PadToFirstPacket(s) = Deliver(s, h, pad)
      <3>1. ~(pad > MaxPad \/ pad < -MaxPad) /\ pad >= 0
        <4> HIDE DEF pad
        <4> QED BY <1>1, <1>4
      <3> QED BY <3>1 DEF PadToFirstPacket
    <2>2. h.seq = s.next_seq + pad
      <3> HIDE DEF pad, h
      <3> QED BY <1>1, <1>2
    <2> HIDE DEF h, pad
    <2>3. /\ Sound(t) /\ t.state = "DATA" /\ t.queue = Tail(s.queue)
          /\ t.next_seq = h.seq + h.data_len /\ Chain(t.out, a, t.next_seq)
      BY <1>1, <1>4, <2>1, <2>2, DeliverChain
    <2> HIDE DEF t
    <2>4. t.next_seq \in Nat /\ t.next_seq < HalfSeq /\ t.next_seq <= h.seq + MaxPad
      BY <1>1, <2>3
    <2>5. Tame(t) /\ Near(t)
      BY <2>3, <2>4, TameTail DEF h
    <2> QED BY <2>3, <2>5 DEF Forth, t
  <1>5. CASE pad < 0
    <2> DEFINE p == Trim(h, s.next_seq - h.seq)
    <2>1. PadToFirstPacket(s) = Deliver(s, p, 0)
      <3>1. ~(pad > MaxPad \/ pad < -MaxPad) /\ ~(pad >= 0) /\ -pad = s.next_seq - h.seq
        <4> HIDE DEF pad, h
        <4> QED BY <1>1, <1>2, <1>5
      <3> QED BY <3>1 DEF PadToFirstPacket
    <2>2. h.seq <= s.next_seq
      <3> HIDE DEF pad, h
      <3> QED BY <1>1, <1>2, <1>5
    <2>3. /\ p \in PacketType /\ p.seq = s.next_seq /\ p.seq + p.data_len < HalfSeq
          /\ p.seq + p.data_len = IF h.seq + h.data_len > s.next_seq
                                  THEN h.seq + h.data_len ELSE s.next_seq
      BY <2>2, TrimHead
    <2> HIDE DEF p, h, pad
    <2>4. 0 \in 0 .. MaxPad /\ p.seq = s.next_seq + 0
      BY <1>1, <2>3
    <2>5. /\ Sound(t) /\ t.state = "DATA" /\ t.queue = Tail(s.queue)
          /\ t.next_seq = p.seq + p.data_len /\ Chain(t.out, a, t.next_seq)
      <3>1. PICK z : z = 0
        OBVIOUS
      <3>2. z \in 0 .. MaxPad /\ p.seq = s.next_seq + z /\ t = WithOffset(s, Deliver(s, p, z))
        BY <2>1, <2>4, <3>1
      <3> HIDE DEF t
      <3> QED BY <2>3, <3>2, DeliverChain
    <2> HIDE DEF t
    <2>6. /\ t.next_seq \in Nat /\ t.next_seq < HalfSeq
          /\ t.next_seq <= h.seq + MaxPad \/ t.next_seq <= s.next_seq
      BY <1>1, <2>3, <2>5
    <2>7. Tame(t) /\ Near(t)
      BY <2>5, <2>6, TameTail DEF h
    <2> QED BY <2>5, <2>7 DEF Forth, t
  <1>6. pad \in Int /\ MaxPad \in Nat
    <2> HIDE DEF pad, h
    <2> QED BY <1>1, <1>2
  <1> HIDE DEF pad
  <1> QED BY <1>3, <1>4, <1>5, <1>6

\* The first loop of TCPStream_add ends here.
Settled(s) == s.queue = <<>> \/ s.next_seq < Head(s.queue).seq

LEMMA DrainForth ==
    ASSUME NEW s, Sound(s), Tame(s), NEW a \in Int, Chain(s.out, a, s.next_seq)
    PROVE  LET t == DrainBody(s)
           IN  /\ Forth(t, a)
               /\ Settled(s) => t = s
               /\ ~Settled(s) => s.queue # <<>> /\ t.queue = Tail(s.queue)
  <1> DEFINE h == Head(s.queue)
             t == DrainBody(s)
  <1>1. CASE s.queue = <<>>
    BY <1>1 DEF DrainBody, Settled, Forth
  <1>2. CASE s.queue # <<>>
    <2>1. /\ h \in PacketType /\ h.seq \in Nat /\ h.data_len \in Nat /\ h.seq + h.data_len < HalfSeq
          /\ s.next_seq \in Nat /\ s.next_seq < HalfSeq /\ HalfSeq \in Nat
      <3>1. 1 \in 1 .. Len(s.queue) /\ h = s.queue[1]
        BY <1>2, TameNumbers
      <3> QED BY <3>1, TameNumbers, HalfSeqAssumption
    <2>2. SeenBefore(s) <=> s.next_seq >= h.seq + h.data_len
      <3>1. U32(h.seq + h.data_len) = h.seq + h.data_len
        <4> HIDE DEF h
        <4>1. h.seq + h.data_len \in Int /\ 0 <= h.seq + h.data_len /\ h.seq + h.data_len < SeqSpace
          BY <2>1 DEF SeqSpace
        <4> QED BY <4>1, U32Small
      <3> QED BY <3>1 DEF SeenBefore
    <2>3. HasData(s) <=> s.next_seq >= h.seq
      BY DEF HasData
    <2>0. SeenBefore(s) \/ HasData(s) => ~Settled(s)
      <3>1. SeenBefore(s) \/ HasData(s) => ~(s.next_seq < h.seq)
        <4> HIDE DEF h
        <4> QED BY <2>1, <2>2, <2>3
      <3> QED BY <1>2, <3>1 DEF Settled
    <2>4. CASE SeenBefore(s)
      <3> DEFINE d == DropRetransmission(s)
                 e == [kind |-> "retran", at |-> s.next_seq, seq |-> h.seq, len |-> h.data_len,
                       pad |-> 0]
                 x == With(e, [start |-> h.seq])
      <3>1. t = WithOffset(s, d)
        BY <1>2, <2>4 DEF DrainBody
      <3>2. Sound(d) /\ d.queue = Tail(s.queue)
        BY <1>2, DropSound
      <3>3. Sound(t) /\ t.queue = d.queue /\ t.next_seq = d.next_seq
        BY <3>1, <3>2, WithOffsetSound
      <3>4. d.state = "RETRANSMISSION" /\ d.next_seq = s.next_seq /\ d.out = Append(s.out, e)
        BY DEF DropRetransmission, Callback, Sound
      <3> HIDE DEF d
      <3>5. Packets(s.out) /\ Len(d.out) # Len(s.out)
        <4>1. Packets(s.out) /\ "kind" \in DOMAIN e /\ e.kind = "retran"
          BY DEF Sound
        <4> HIDE DEF e
        <4>2. Len(Append(s.out, e)) = Len(s.out) + 1 /\ Len(s.out) \in Nat
          BY <4>1, AppendPackets DEF Packets
        <4> QED BY <3>4, <4>1, <4>2
      <3>6. x.kind = "retran"
        <4> HIDE DEF h
        <4> QED BY DEF With
      <3>7. t.out = Append(s.out, x) /\ t.state = "RETRANSMISSION"
        <4> HIDE DEF e, h
        <4>1. t = [d EXCEPT !.out = WithStart(Append(s.out, e), h.seq)]
          BY <3>1, <3>4, <3>5 DEF WithOffset, h
        <4>2. DOMAIN d = {"next_seq", "queue", "state", "max_packet_id", "out"}
          BY <3>2 DEF Sound
        <4> HIDE DEF t
        <4> QED BY <3>4, <3>5, <4>1, <4>2, WithStartAppend
      <3> HIDE DEF x, h, t
      <3>8. Chain(t.out, a, t.next_seq)
        <4>1. ~IsWhole(x) /\ x.kind # "data"
          BY <3>6 DEF IsWhole
        <4>2. s.next_seq \in Int /\ s.next_seq <= s.next_seq
          BY <2>1
        <4>3. Chain(Append(s.out, x), a, s.next_seq)
          BY <3>5, <4>1, <4>2, ChainAppend
        <4> QED BY <3>3, <3>4, <3>7, <4>3
      <3>9. Tame(t)
        BY <1>2, <2>1, <3>2, <3>3, <3>4, <3>7, TameTail
      <3> QED BY <1>2, <2>0, <2>4, <3>2, <3>3, <3>8, <3>9 DEF Forth, t
    <2>5. CASE ~SeenBefore(s) /\ HasData(s)
      <3> DEFINE p == Trim(h, s.next_seq - h.seq)
      <3>1. t = WithOffset(s, Deliver(s, p, 0))
        BY <1>2, <2>5 DEF DrainBody, DeliverFirst
      <3>2. p \in PacketType /\ p.seq = s.next_seq /\ p.seq + p.data_len < HalfSeq
        <4>1. h.seq <= s.next_seq
          <5> HIDE DEF h
          <5> QED BY <2>1, <2>3, <2>5
        <4> QED BY <1>2, <4>1, TrimHead
      <3> HIDE DEF p, h
      <3>3. 0 \in 0 .. MaxPad /\ p.seq = s.next_seq + 0
        BY <2>1, <3>2, MaxPadAssumption
      <3>4. /\ Sound(t) /\ t.state = "DATA" /\ t.queue = Tail(s.queue)
            /\ t.next_seq = p.seq + p.data_len /\ Chain(t.out, a, t.next_seq)
        <4>1. PICK z : z = 0
          OBVIOUS
        <4>2. z \in 0 .. MaxPad /\ p.seq = s.next_seq + z /\ t = WithOffset(s, Deliver(s, p, z))
          BY <3>1, <3>3, <4>1
        <4> HIDE DEF t
        <4> QED BY <1>2, <3>2, <4>2, DeliverChain
      <3> HIDE DEF t
      <3>5. t.next_seq \in Nat /\ t.next_seq < HalfSeq
        <4>1. p.data_len \in Nat
          BY <3>2, HalfSeqAssumption DEF PacketType
        <4> QED BY <2>1, <3>2, <3>4, <4>1
      <3>6. Tame(t)
        BY <1>2, <3>4, <3>5, TameTail
      <3> QED BY <1>2, <2>0, <2>5, <3>4, <3>6 DEF Forth, t
    <2>6. CASE ~SeenBefore(s) /\ ~HasData(s)
      <3>1. t = s
        BY <1>2, <2>6 DEF DrainBody
      <3>2. s.next_seq < h.seq
        <4> HIDE DEF h
        <4> QED BY <2>1, <2>3, <2>6
      <3> QED BY <3>1, <3>2 DEF Settled, Forth
    <2> QED BY <2>4, <2>5, <2>6
  <1> QED BY <1>1, <1>2

\* What the three loops keep: a is where the stream stood, l its queue's length.
DrainsOn(p, k, s) == Forth(s, p[1]) /\ (Settled(s) \/ Len(s.queue) + k <= p[2])
GoesOn(a, k, s) == Forth(s, a) /\ Near(s)

Draining  == INSTANCE Iteration WITH Step <- DrainStep, Holds <- DrainsOn
Windowing == INSTANCE Iteration WITH Step <- WindowStep, Holds <- GoesOn
Padding   == INSTANCE Iteration WITH Step <- PadStep, Holds <- GoesOn

\* As many turns as there are packets are enough for the first loop.
LEMMA DrainSettles ==
    ASSUME NEW r, NEW a \in Int, Forth(r, a)
    PROVE  LET t == Repeat(DrainBody, r, Len(r.queue)) IN Forth(t, a) /\ Settled(t)
  <1> DEFINE n == Len(r.queue)
  <1>1. n \in Nat
    BY TameNumbers DEF Forth
  <1>2. ASSUME NEW p, p[1] = a, p[2] = n
        PROVE  Forth(Draining!Iterate(p, r, n), a) /\ Settled(Draining!Iterate(p, r, n))
    <2>1. DrainsOn(p, 0, r)
      BY <1>1, <1>2 DEF DrainsOn
    <2>2. ASSUME NEW k \in 1 .. n, NEW s, DrainsOn(p, k - 1, s)
          PROVE  DrainsOn(p, k, DrainStep(s, k, p))
      <3> DEFINE t == DrainBody(s)
      <3>1. Forth(s, a) /\ (Settled(s) \/ Len(s.queue) + (k - 1) <= n)
        BY <1>2, <2>2 DEF DrainsOn
      <3>2. /\ Forth(t, a)
            /\ Settled(s) => t = s
            /\ ~Settled(s) => s.queue # <<>> /\ t.queue = Tail(s.queue)
        BY <3>1, DrainForth DEF Forth
      <3> HIDE DEF t
      <3>3. CASE Settled(s)
        BY <1>2, <3>2, <3>3 DEF DrainsOn, DrainStep, t
      <3>4. CASE ~Settled(s)
        <4>1. Len(s.queue) \in Nat /\ Len(s.queue) > 0 /\ Len(t.queue) = Len(s.queue) - 1
          BY <3>1, <3>2, <3>4, TailShorter DEF Forth, Sound
        <4>2. Len(t.queue) + k <= n
          BY <1>1, <3>1, <3>4, <4>1
        <4> QED BY <1>2, <3>2, <4>2 DEF DrainsOn, DrainStep, t
      <3> QED BY <3>3, <3>4
    <2>3. DrainsOn(p, n, Draining!Iterate(p, r, n))
      BY <1>1, <2>1, <2>2, Draining!IterateHolds
    <2> DEFINE e == Draining!Iterate(p, r, n)
    <2>4. Forth(e, a) /\ (Settled(e) \/ Len(e.queue) + n <= n)
      BY <1>2, <2>3 DEF DrainsOn
    <2> HIDE DEF e
    <2>5. Len(e.queue) \in Nat /\ (Len(e.queue) = 0 => e.queue = <<>>)
      BY <2>4, TailShorter DEF Forth, Sound
    <2>6. Settled(e)
      <3>1. Len(e.queue) + n <= n => Len(e.queue) = 0
        <4>1. \A x, y \in Nat : x + y <= y => x = 0
          OBVIOUS
        <4>2. Len(e.queue) \in Nat
          BY <2>5
        <4> HIDE DEF n
        <4> QED BY <1>1, <4>1, <4>2
      <3> QED BY <2>4, <2>5, <3>1 DEF Settled
    <2> QED BY <2>4, <2>6 DEF e
  <1>3. ASSUME NEW p, p[1] = a, p[2] = n
        PROVE  Repeat(DrainBody, r, n) = Draining!Iterate(p, r, n)
    BY DEF Repeat, Draining!Iterate, DrainStep
  <1>4. <<a, n>>[1] = a /\ <<a, n>>[2] = n
    OBVIOUS
  <1> QED BY <1>2, <1>3, <1>4

\* A queue whose first packet is ahead of the stream is ahead of it.
LEMMA SettledNear ==
    ASSUME NEW s, Sound(s), Tame(s), Settled(s)
    PROVE  Near(s)
  <1>1. CASE s.queue = <<>>
    BY <1>1 DEF Near
  <1>2. CASE s.queue # <<>>
    <2>1. s.next_seq < Head(s.queue).seq
      BY <1>2 DEF Settled
    <2>2. \A k \in 1 .. Len(s.queue) : s.queue[k].seq \in Nat /\ Head(s.queue).seq <= s.queue[k].seq
      BY <1>2, TameNumbers
    <2>3. s.next_seq \in Nat /\ MaxPad \in Nat /\ Head(s.queue).seq \in Nat
      <3>1. 1 \in 1 .. Len(s.queue) /\ Head(s.queue) = s.queue[1]
        BY <1>2, TameNumbers
      <3> QED BY <3>1, TameNumbers, MaxPadAssumption
    <2> QED BY <2>1, <2>2, <2>3 DEF Near
  <1> QED BY <1>1, <1>2

LEMMA WindowGoesOn ==
    ASSUME NEW r, NEW a \in Int, Forth(r, a), Near(r), NEW n \in Nat
    PROVE  GoesOn(a, n, Repeat(WindowBody, r, n))
  <1>1. Repeat(WindowBody, r, n) = Windowing!Iterate(a, r, n)
    BY DEF Repeat, Windowing!Iterate, WindowStep
  <1>2. GoesOn(a, 0, r)
    BY DEF GoesOn
  <1>3. ASSUME NEW k \in 1 .. n, NEW s, GoesOn(a, k - 1, s)
        PROVE  GoesOn(a, k, WindowStep(s, k, a))
    <2>1. Forth(s, a) /\ Near(s)
      BY <1>3 DEF GoesOn
    <2>2. CASE s.queue # <<>> /\ WindowExceeded(s)
      BY <2>1, <2>2, PadForth DEF GoesOn, WindowStep, WindowBody, Forth
    <2>3. CASE ~(s.queue # <<>> /\ WindowExceeded(s))
      BY <2>1, <2>3 DEF GoesOn, WindowStep, WindowBody
    <2> QED BY <2>2, <2>3
  <1>4. GoesOn(a, n, Windowing!Iterate(a, r, n))
    BY <1>2, <1>3, Windowing!IterateHolds
  <1> QED BY <1>1, <1>4

\* pad_data moves the stream forward.
LEMMA PadDataForth ==
    ASSUME NEW r, NEW a \in Int, Forth(r, a), Near(r)
    PROVE  Forth(PadData(r), a) /\ Near(PadData(r))
  <1> DEFINE n == 2 * Len(r.queue)
  <1>1. PadData(r) = Padding!Iterate(a, r, n)
    BY DEF PadData, Repeat, Padding!Iterate, PadStep
  <1>2. GoesOn(a, 0, r) /\ n \in Nat
    BY TameNumbers DEF GoesOn, Forth
  <1>3. ASSUME NEW k \in 1 .. n, NEW s, GoesOn(a, k - 1, s)
        PROVE  GoesOn(a, k, PadStep(s, k, a))
    <2>1. Forth(s, a) /\ Near(s)
      BY <1>3 DEF GoesOn
    <2>2. CASE s.queue # <<>>
      BY <2>1, <2>2, PadForth DEF GoesOn, PadStep, PadBody, Forth
    <2>3. CASE s.queue = <<>>
      BY <2>1, <2>3 DEF GoesOn, PadStep, PadBody
    <2> QED BY <2>2, <2>3
  <1>4. GoesOn(a, n, Padding!Iterate(a, r, n))
    BY <1>2, <1>3, Padding!IterateHolds
  <1> QED BY <1>1, <1>4 DEF GoesOn

\* Insertion keeps the order of the queue.
LEMMA InsertOrdered ==
    ASSUME NEW q \in Seq(PacketType), NEW p \in PacketType, NEW n \in 0 .. Len(q),
           IsCandidate(q, p, n),
           \A j, k \in 1 .. Len(q) : j < k => q[j].seq <= q[k].seq
    PROVE  LET r == AddAfter(q, p, n)
           IN  /\ \A j, k \in 1 .. Len(r) : j < k => r[j].seq <= r[k].seq
               /\ \A k \in 1 .. Len(r) : r[k] = p \/ \E j \in 1 .. Len(q) : r[k] = q[j]
  <1> DEFINE r == AddAfter(q, p, n)
  <1>1. /\ Len(q) \in Nat /\ n \in Nat /\ n <= Len(q) /\ Len(r) = Len(q) + 1
        /\ \A k \in 1 .. n : r[k] = q[k]
        /\ r[n + 1] = p
        /\ \A k \in n + 2 .. Len(q) + 1 : r[k] = q[k - 1]
    BY AddAfterFacts
  <1> HIDE DEF r
  <1>2. p.seq \in Int /\ \A k \in 1 .. Len(q) : q[k].seq \in Int
    <2>1. \A k \in 1 .. Len(q) : q[k] \in PacketType
      OBVIOUS
    <2> QED BY <2>1 DEF PacketType
  <1>3. \A k \in 1 .. n : q[k].seq <= p.seq
    BY DEF IsCandidate
  <1>4. \A k \in n + 1 .. Len(q) : p.seq <= q[k].seq
    <2> TAKE k \in n + 1 .. Len(q)
    <2>1. n < Len(q) /\ n + 1 \in 1 .. Len(q) /\ k \in 1 .. Len(q) /\ (k = n + 1 \/ n + 1 < k)
      BY <1>1
    <2>2. q[n + 1].seq > p.seq /\ q[n + 1].seq <= q[k].seq
      BY <1>2, <2>1 DEF IsCandidate
    <2> QED BY <1>2, <2>1, <2>2
  <1>5. \A k \in 1 .. Len(r) : k \in 1 .. n \/ k = n + 1 \/ (k \in n + 2 .. Len(q) + 1)
    BY <1>1
  <1>6. \A k \in 1 .. n : k \in 1 .. Len(q)
    BY <1>1
  <1>7. \A k \in n + 2 .. Len(q) + 1 : k - 1 \in 1 .. Len(q) /\ k - 1 \in n + 1 .. Len(q)
    BY <1>1
  <1>8. ASSUME NEW j \in 1 .. Len(r), NEW k \in 1 .. Len(r), j < k PROVE r[j].seq <= r[k].seq
    <2>1. CASE j \in 1 .. n /\ k \in 1 .. n
      BY <1>1, <1>6, <1>8, <2>1
    <2>2. CASE j \in 1 .. n /\ k = n + 1
      BY <1>1, <1>3, <2>2
    <2>3. CASE j \in 1 .. n /\ k \in n + 2 .. Len(q) + 1
      <3>1. j < k - 1
        BY <1>1, <2>3
      <3> QED BY <1>1, <1>6, <1>7, <2>3, <3>1
    <2>4. CASE j = n + 1 /\ k \in n + 2 .. Len(q) + 1
      BY <1>1, <1>4, <1>7, <2>4
    <2>5. CASE j \in n + 2 .. Len(q) + 1 /\ k \in n + 2 .. Len(q) + 1
      <3>1. j - 1 < k - 1
        BY <1>1, <1>8, <2>5
      <3> QED BY <1>1, <1>7, <2>5, <3>1
    <2>6. ~(j = n + 1 /\ k \in 1 .. n) /\ ~(j = n + 1 /\ k = n + 1)
          /\ ~(j \in n + 2 .. Len(q) + 1 /\ (k \in 1 .. n \/ k = n + 1))
      BY <1>1, <1>8
    <2> QED BY <1>5, <2>1, <2>2, <2>3, <2>4, <2>5, <2>6
  <1>9. ASSUME NEW k \in 1 .. Len(r) PROVE r[k] = p \/ \E j \in 1 .. Len(q) : r[k] = q[j]
    BY <1>1, <1>5, <1>6, <1>7
  <1> QED BY <1>8, <1>9 DEF r

(***************************************************************************)
(* The capture stays in the lower half of the sequence space, and no       *)
(* segment is longer than the widest gap that is padded.                   *)
(***************************************************************************)
NoWrap == \A p \in Segments : p.seq + p.data_len + 1 < HalfSeq
ShortSegments == \A p \in Segments : p.data_len <= MaxPad

\* TCPStream_add moves an established stream forward.
LEMMA AddTCPForth ==
    ASSUME NoWrap, ShortSegments, NEW s, Sound(s), Tame(s), Near(s), s.state # "NONE",
           s.out = <<>>, NEW p \in Segments, NEW id
    PROVE  LET t == AddTCP(s, p, id) IN Forth(t, s.next_seq) /\ Near(t)
  <1> DEFINE a == s.next_seq
  <1>0. a \in Int /\ Len(s.queue) \in Nat /\ Chain(s.out, a, a)
    <2>1. a \in Int /\ Len(s.queue) \in Nat
      BY TameNumbers
    <2> HIDE DEF a
    <2> QED BY <2>1, ChainEmpty
  <1>1. CASE p.data_len = 0
    <2> DEFINE e == [kind |-> "retran", at |-> s.next_seq, seq |-> p.seq, len |-> p.data_len,
                     pad |-> 0]
               t == AddTCP(s, p, id)
    <2>1. t = [s EXCEPT !.state = "RETRANSMISSION", !.out = Append(s.out, e)]
      BY <1>1 DEF AddTCP, Callback
    <2>2. ~IsWhole(e) /\ e.kind # "data"
      BY DEF IsWhole
    <2> HIDE DEF e
    <2>3. Chain(Append(s.out, e), a, a)
      <3>1. Packets(s.out) /\ a <= a
        BY <1>0 DEF Sound
      <3> HIDE DEF a
      <3> QED BY <1>0, <2>2, <3>1, ChainAppend
    <2>4. Sound(t)
      BY AddTCPSound
    <2>5. /\ t.state = "RETRANSMISSION" /\ t.queue = s.queue /\ t.next_seq = s.next_seq
          /\ t.out = Append(s.out, e)
      BY <2>1 DEF Sound
    <2> HIDE DEF t
    <2> QED BY <2>3, <2>4, <2>5 DEF Forth, Tame, Near, t
  <1>2. CASE p.data_len # 0
    <2> DEFINE new     == [seq |-> p.seq, data_len |-> p.data_len, window |-> p.window]
               n       == CHOOSE n \in 0 .. Len(s.queue) : IsCandidate(s.queue, new, n)
               queued  == [s EXCEPT !.queue = Insert(s.queue, new), !.max_packet_id = id]
               drained == Repeat(DrainBody, queued, Len(queued.queue))
               windowed == Repeat(WindowBody, drained, 2 * Len(drained.queue))
    <2>1. AddTCP(s, p, id) = windowed
      BY <1>2 DEF AddTCP
    <2>2. /\ new \in PacketType /\ new.seq + new.data_len < HalfSeq /\ new.data_len <= MaxPad
      <3>1. p.seq \in Int /\ p.data_len \in Int /\ HalfSeq \in Int
        BY SegmentsAssumption, HalfSeqAssumption
      <3>2. new \in PacketType
        BY SegmentsAssumption DEF PacketType
      <3> QED BY <3>1, <3>2 DEF NoWrap, ShortSegments
    <2> HIDE DEF new
    <2>3. n \in 0 .. Len(s.queue) /\ IsCandidate(s.queue, new, n)
      BY <2>2, CandidateExists DEF Sound
    <2> DEFINE q == AddAfter(s.queue, new, n)
    <2>4. Insert(s.queue, new) = q
      BY DEF Insert
    <2> HIDE DEF n
    <2>5. /\ q \in Seq(PacketType)
          /\ \A j, k \in 1 .. Len(q) : j < k => q[j].seq <= q[k].seq
          /\ \A k \in 1 .. Len(q) : q[k] = new \/ \E j \in 1 .. Len(s.queue) : q[k] = s.queue[j]
      <3>1. s.queue \in Seq(PacketType)
        BY DEF Sound
      <3>2. \A j, k \in 1 .. Len(s.queue) : j < k => s.queue[j].seq <= s.queue[k].seq
        BY DEF Tame
      <3> QED BY <2>2, <2>3, <3>1, <3>2, AddAfterFacts, InsertOrdered
    <2> HIDE DEF q
    <2>6. /\ queued.queue = q /\ queued.state = s.state /\ queued.next_seq = s.next_seq
          /\ queued.out = s.out /\ DOMAIN queued = DOMAIN s
      BY <2>4 DEF Sound
    <2> HIDE DEF queued
    <2>7. Forth(queued, a)
      <3>1. Sound(queued)
        BY <2>5, <2>6 DEF Sound
      <3>2. \A k \in 1 .. Len(q) : q[k].seq + q[k].data_len < HalfSeq /\ q[k].data_len <= MaxPad
        BY <2>2, <2>5 DEF Tame
      <3>3. Tame(queued)
        BY <2>5, <2>6, <3>2 DEF Tame
      <3> QED BY <1>0, <2>6, <3>1, <3>3 DEF Forth
    <2> HIDE DEF a
    <2>8. Forth(drained, a) /\ Settled(drained)
      BY <1>0, <2>7, DrainSettles
    <2> HIDE DEF drained
    <2>9. Near(drained) /\ 2 * Len(drained.queue) \in Nat
      BY <2>8, SettledNear, TameNumbers DEF Forth
    <2>10. Forth(windowed, a) /\ Near(windowed)
      BY <1>0, <2>8, <2>9, WindowGoesOn DEF GoesOn
    <2> QED BY <2>1, <2>10 DEF a
  <1> QED BY <1>1, <1>2

-----------------------------------------------------------------------------
(* The order of the maps: what the callback makes of the events.            *)

\* Range r is one of the map at the start, or comes from one of the first k
\* events.
From(p, k, r) ==
    \/ r.seq + r.len <= p[4]
    \/ \E a \in 1 .. k : IsWhole(p[2][a]) /\ r.seq = p[2][a].seq /\ r.len = p[2][a].len

\* The map of direction d grows, the other one does not.
Maps(p, k, con) ==
    /\ Open(con)
    /\ DOMAIN con.map = 0 .. 1
    /\ \A c \in 0 .. 1 : c # p[1] => con.map[c] = p[3][c]
    /\ con.map[p[1]] \in Seq(Ranges)
    /\ InOrder(con.map[p[1]])
    /\ \A i \in 1 .. Len(con.map[p[1]]) :
          Whole(con.map[p[1]][i]) => From(p, k, con.map[p[1]][i])

Mapping == INSTANCE Iteration WITH Step <- TellStep, Holds <- Maps

LEMMA FromLater ==
    ASSUME NEW p, NEW k \in Nat, NEW r, From(p, k, r)
    PROVE  From(p, k + 1, r)
  <1>1. \A a \in 1 .. k : a \in 1 .. k + 1
    OBVIOUS
  <1> QED BY <1>1 DEF From

\* One more range in a map.
LEMMA MapGrows ==
    ASSUME NEW m \in Seq(Ranges), InOrder(m), NEW r \in Ranges,
           Whole(r) => \A i \in 1 .. Len(m) : Whole(m[i]) => m[i].seq + m[i].len <= r.seq
    PROVE  /\ Append(m, r) \in Seq(Ranges) /\ InOrder(Append(m, r))
           /\ Len(Append(m, r)) = Len(m) + 1 /\ Append(m, r)[Len(m) + 1] = r
           /\ \A i \in 1 .. Len(m) : Append(m, r)[i] = m[i]
           /\ \A i \in 1 .. Len(m) + 1 : i \in 1 .. Len(m) \/ i = Len(m) + 1
  <1> DEFINE n == Append(m, r)
             l == Len(m)
  <1>1. /\ n \in Seq(Ranges) /\ l \in Nat /\ Len(n) = l + 1 /\ n[l + 1] = r
        /\ \A i \in 1 .. l : n[i] = m[i]
    <2> HIDE DEF Ranges
    <2> QED BY AppendFacts
  <1> HIDE DEF n
  <1>2. \A i \in 1 .. l + 1 : i \in 1 .. l \/ i = l + 1
    BY <1>1
  <1>3. ASSUME NEW i \in 1 .. Len(n), NEW j \in 1 .. Len(n), i < j, Whole(n[i]), Whole(n[j])
        PROVE  n[i].seq + n[i].len <= n[j].seq
    <2>1. i \in 1 .. l /\ n[i] = m[i]
      BY <1>1, <1>3
    <2>2. CASE j \in 1 .. l
      BY <1>1, <1>3, <2>1, <2>2 DEF InOrder
    <2>3. CASE j = l + 1
      BY <1>1, <1>3, <2>1, <2>3
    <2> QED BY <1>1, <1>2, <2>2, <2>3
  <1>4. InOrder(n)
    BY <1>3 DEF InOrder
  <1> QED BY <1>1, <1>2, <1>4 DEF n

LEMMA ToldFits ==
    ASSUME NEW con, Open(con), DOMAIN con.map = 0 .. 1, NEW d \in 0 .. 1,
           NEW n \in Int, NEW m \in Int, Fits(con.map[d], n),
           NEW events, Packets(events), Chain(events, n, m)
    PROVE  LET t == Told(con, d, events)
           IN  /\ DOMAIN t.map = 0 .. 1 /\ Fits(t.map[d], m)
               /\ \A c \in 0 .. 1 : c # d => t.map[c] = con.map[c]
  <1> DEFINE l == Len(events)
  <1>1. l \in Nat /\ \A k \in 1 .. l : events[k].kind \in {"data", "retran"}
    BY DEF Packets
  <1>2. ASSUME NEW p, p[1] = d, p[2] = events, p[3] = con.map, p[4] = n
        PROVE  Maps(p, l, Mapping!Iterate(p, con, l))
    <2>1. Maps(p, 0, con)
      BY <1>2 DEF Maps, Fits, From
    <2>2. ASSUME NEW k \in 1 .. l, NEW x, Maps(p, k - 1, x)
          PROVE  Maps(p, k, TellStep(x, k, p))
      <3> DEFINE e == events[k]
                 z == x.map[d]
                 r == [start |-> e.start, len |-> e.len, seq |-> e.seq, pad |-> e.pad]
                 y == [x EXCEPT !.map[d] = Append(z, r)]
      <3>1. /\ Open(x) /\ DOMAIN x.map = 0 .. 1 /\ z \in Seq(Ranges) /\ InOrder(z)
            /\ \A c \in 0 .. 1 : c # d => x.map[c] = con.map[c]
            /\ \A i \in 1 .. Len(z) : Whole(z[i]) => From(p, k - 1, z[i])
        BY <1>2, <2>2 DEF Maps
      <3>2. k \in Nat /\ k - 1 \in Nat /\ (k - 1) + 1 = k /\ k \in 1 .. k
        BY <1>1
      <3>3. \A i \in 1 .. Len(z) : Whole(z[i]) => From(p, k, z[i])
        <4> HIDE DEF z
        <4> QED BY <3>1, <3>2, FromLater
      <3>4. e.kind \in {"data", "retran"} /\ TellStep(x, k, p) = PyCallback(x, d, e)
        BY <1>1, <1>2 DEF TellStep
      <3>5. PyCallback(x, d, e) = IF e.kind = "data" THEN OnData(x, d, e) ELSE x
        <4> HIDE DEF e
        <4> QED BY <3>4 DEF PyCallback
      <3>6. Maps(p, k, x)
        BY <1>2, <3>1, <3>3 DEF Maps
      <3>7. CASE e.kind = "data" /\ e.len # 0
        <4>1. TellStep(x, k, p) = y
          <5> HIDE DEF e
          <5> QED BY <3>1, <3>4, <3>5, <3>7 DEF OnData, Open
        <4>2. e.start \in Int /\ e.seq \in Int /\ e.len \in Int /\ e.pad \in Int
          BY <3>7 DEF Chain
        <4>3. /\ r \in Ranges /\ r.seq = e.seq /\ r.len = e.len
              /\ Whole(r) <=> IsWhole(e)
          <5> HIDE DEF e
          <5> QED BY <3>7, <4>2 DEF Ranges, Whole, IsWhole
        <4> HIDE DEF r
        <4>4. ASSUME Whole(r), NEW i \in 1 .. Len(z), Whole(z[i])
              PROVE  z[i].seq + z[i].len <= r.seq
          <5>1. z[i].seq \in Int /\ z[i].len \in Int
            <6>1. z[i] \in Ranges
              <7> HIDE DEF z, Ranges
              <7> QED BY <3>1
            <6> QED BY <6>1 DEF Ranges
          <5>2. IsWhole(e) /\ n <= e.seq
            BY <4>3, <4>4 DEF Chain
          <5>3. CASE z[i].seq + z[i].len <= n
            <6> HIDE DEF e, z
            <6> QED BY <4>2, <4>3, <5>1, <5>2, <5>3
          <5>4. ASSUME NEW a \in 1 .. k - 1, IsWhole(events[a]),
                       z[i].seq = events[a].seq, z[i].len = events[a].len
                PROVE  z[i].seq + z[i].len <= r.seq
            <6>1. a \in 1 .. l /\ a < k
              BY <1>1, <5>4
            <6>2. events[a].seq + events[a].len <= events[k].seq
              BY <5>2, <5>4, <6>1 DEF Chain
            <6> QED BY <4>3, <5>4, <6>2
          <5>5. From(p, k - 1, z[i])
            BY <3>1, <4>4
          <5> QED BY <1>2, <5>3, <5>4, <5>5 DEF From
        <4> DEFINE w == Append(z, r)
        <4>5. /\ w \in Seq(Ranges) /\ InOrder(w)
              /\ Len(w) = Len(z) + 1 /\ w[Len(z) + 1] = r
              /\ \A i \in 1 .. Len(z) : w[i] = z[i]
              /\ \A i \in 1 .. Len(z) + 1 : i \in 1 .. Len(z) \/ i = Len(z) + 1
          <5> HIDE DEF z
          <5> QED BY <3>1, <4>3, <4>4, MapGrows
        <4> HIDE DEF w
        <4>6. \A i \in 1 .. Len(w) : Whole(w[i]) => From(p, k, w[i])
          <5>1. Whole(r) => From(p, k, r)
            BY <1>2, <3>2, <4>3 DEF From
          <5> HIDE DEF z
          <5> QED BY <3>3, <4>5, <5>1
        <4>7. /\ Open(y) /\ DOMAIN y.map = 0 .. 1 /\ y.map[d] = w
              /\ \A c \in 0 .. 1 : c # d => y.map[c] = x.map[c]
          BY <3>1 DEF Open, w
        <4> HIDE DEF y
        <4> QED BY <1>2, <3>1, <4>1, <4>5, <4>6, <4>7 DEF Maps
      <3>8. CASE ~(e.kind = "data" /\ e.len # 0)
        <4>1. TellStep(x, k, p) = x
          <5> HIDE DEF e
          <5> QED BY <3>1, <3>4, <3>5, <3>8 DEF OnData, Open
        <4> QED BY <3>6, <4>1
      <3> QED BY <3>7, <3>8
    <2>3. Maps(p, l, Mapping!Iterate(p, con, l))
      BY <1>1, <2>1, <2>2, Mapping!IterateHolds
    <2> QED BY <2>3
  <1>3. ASSUME NEW p, p[1] = d, p[2] = events
        PROVE  Told(con, d, events) = Mapping!Iterate(p, con, l)
    BY <1>3 DEF Told, Mapping!Iterate, TellStep
  <1>4. PICK p : p[1] = d /\ p[2] = events /\ p[3] = con.map /\ p[4] = n
    <2>1. LET p == <<d, events, con.map, n>>
          IN  p[1] = d /\ p[2] = events /\ p[3] = con.map /\ p[4] = n
      OBVIOUS
    <2> QED BY <2>1
  <1> DEFINE t == Told(con, d, events)
  <1>5. Maps(p, l, t)
    BY <1>2, <1>3, <1>4
  <1> HIDE DEF t
  <1>6. ASSUME NEW i \in 1 .. Len(t.map[d]), Whole(t.map[d][i])
        PROVE  t.map[d][i].seq + t.map[d][i].len <= m
    <2> DEFINE r == t.map[d][i]
    <2>1. From(p, l, r) /\ t.map[d] \in Seq(Ranges)
      BY <1>4, <1>5, <1>6 DEF Maps
    <2>2. r.seq \in Int /\ r.len \in Int
      <3>1. r \in Ranges
        <4> HIDE DEF Ranges
        <4> QED BY <2>1
      <3> QED BY <3>1 DEF Ranges
    <2>3. n <= m
      BY DEF Chain
    <2>4. \A a \in 1 .. l : IsWhole(events[a]) => events[a].seq + events[a].len <= m
      BY DEF Chain
    <2> HIDE DEF r
    <2> QED BY <1>4, <2>1, <2>2, <2>3, <2>4 DEF From, r
  <1> QED BY <1>4, <1>5, <1>6 DEF Maps, Fits, t

\* g differs from h in nothing that matters to the maps.
Alike(h, g) ==
    /\ DOMAIN g.streams = DOMAIN h.streams /\ Forwards(g) = Forwards(h)
    /\ \A i \in DOMAIN h.streams :
          /\ g.streams[i].conn = h.streams[i].conn
          /\ g.tcp[i].out = h.tcp[i].out /\ g.tcp[i].queue = h.tcp[i].queue
          /\ g.tcp[i].next_seq = h.tcp[i].next_seq
          /\ g.tcp[i].state # "NONE" \/ g.tcp[i].state = h.tcp[i].state
    /\ DOMAIN g.py = DOMAIN h.py
    /\ \A f \in DOMAIN h.py : g.py[f].map = h.py[f].map /\ g.py[f].urn = h.py[f].urn

LEMMA MappedAlike ==
    ASSUME NEW h, NEW g, Alike(h, g), NEW X, MappedBut(h, X),
           \A i \in DOMAIN h.streams : Forward(i) \in DOMAIN h.py,
           \A f \in Forwards(h) : f \in DOMAIN h.py
    PROVE  MappedBut(g, X)
  <1>1. ASSUME NEW i \in DOMAIN h.streams, Kept(h, i) PROVE Kept(g, i)
    <2>1. g.py[Forward(i)].map = h.py[Forward(i)].map
      BY DEF Alike
    <2>2. /\ g.tcp[i].queue = h.tcp[i].queue /\ g.tcp[i].next_seq = h.tcp[i].next_seq
          /\ g.tcp[i].state = "NONE" => h.tcp[i].state = "NONE"
      BY DEF Alike
    <2>3. Tame(g.tcp[i]) /\ Near(g.tcp[i])
      BY <1>1, <2>2 DEF Kept, Tame, Near
    <2> QED BY <1>1, <2>1, <2>2, <2>3 DEF Kept
  <1>2. \A i \in DOMAIN g.streams :
           g.tcp[i].out = <<>> /\ (g.streams[i].conn \notin Udp => Kept(g, i))
    BY <1>1 DEF MappedBut, Alike
  <1>3. \A f \in Forwards(g) \ X : g.py[f].urn[1] = g.streams[f].conn
    <2> TAKE f \in Forwards(g) \ X
    <2>1. f \in DOMAIN h.streams /\ f \in Forwards(h)
      BY DEF Alike, Forwards
    <2>2. f \in DOMAIN h.py
      BY <2>1
    <2>3. g.streams[f].conn = h.streams[f].conn /\ h.py[f].urn[1] = h.streams[f].conn
      BY <2>1 DEF Alike, MappedBut
    <2> QED BY <2>2, <2>3 DEF Alike
  <1>4. \A f \in DOMAIN g.py \ Forwards(g) :
           g.py[f].urn[1] \notin Udp => \A d \in 0 .. 1 : InOrder(g.py[f].map[d])
    BY DEF MappedBut, Alike
  <1> QED BY <1>2, <1>3, <1>4 DEF MappedBut

\* The maps depend on the streams and on what the scanner holds alone.
LEMMA MappedSame ==
    ASSUME NEW h, NEW g, g.streams = h.streams, g.tcp = h.tcp, g.py = h.py,
           NEW X, MappedBut(h, X)
    PROVE  MappedBut(g, X)
  <1>1. Forwards(g) = Forwards(h)
    BY DEF Forwards
  <1>2. \A i : Kept(h, i) => Kept(g, i)
    BY DEF Kept
  <1> QED BY <1>1, <1>2 DEF MappedBut

\* A connection that the scanner knows has a record there.
LEMMA ScannedKnown ==
    ASSUME NEW h, Well(h), Scanned(h), NEW i \in DOMAIN h.streams
    PROVE  Forward(i) \in DOMAIN h.py /\ Open(h.py[Forward(i)])
  BY ForwardAllocated DEF Scanned, ScannedBut

\* A stream and its map move forward together.
LEMMA RunMapped ==
    ASSUME NEW h, Well(h), Tallied(h), Scanned(h), Mapped(h),
           NEW id \in DOMAIN h.streams, NEW s, Sound(s),
           h.streams[id].conn \notin Udp => Forth(s, h.tcp[id].next_seq) /\ Near(s)
    PROVE  Mapped(Run(h, id, s))
  <1> DEFINE o == [s EXCEPT !.out = <<>>]
             e == [h EXCEPT !.tcp[id]     = o,
                            !.outstanding = @ + Len(s.queue) - Len(h.tcp[id].queue)]
             f == Forward(id)
             con == h.py[f]
             t == Told(con, id - f, s.out)
             g == Run(h, id, s)
  <1>1. id \in Nat /\ f \in Forwards(h) /\ DOMAIN h.tcp = DOMAIN h.streams
    BY ForwardAllocated DEF Well, Typed, Tallied, QueuesTallied
  <1>2. f \in DOMAIN h.py /\ Open(con)
    BY ScannedKnown
  <1>3. h.streams[id].object
    <2>1. f = id \/ f = Reversed(id)
      BY <1>1, PairFacts
    <2>2. h.streams[f].object
      BY <1>1 DEF Scanned, ScannedBut
    <2> QED BY <2>1, <2>2 DEF Tallied, ObjectsTallied
  <1> HIDE DEF o
  <1>4. /\ DOMAIN e = Fields /\ e.py = h.py /\ e.streams = h.streams
        /\ e.tcp = [h.tcp EXCEPT ![id] = o]
    BY DEF Well, Typed, Fields
  <1>5. g = TellAll(e, id, s.out)
    <2>1. g = CallbackPackets(e, id, s.out)
      BY DEF Run, o
    <2> HIDE DEF e, g
    <2> QED BY <1>3, <1>4, <2>1 DEF CallbackPackets
  <1> HIDE DEF e, g
  <1>6. g.py = [h.py EXCEPT ![f] = t] /\ g.streams = h.streams /\ g.tcp = [h.tcp EXCEPT ![id] = o]
    BY <1>4, <1>5 DEF TellAll, Fields
  <1> HIDE DEF t
  <1>7. /\ DOMAIN g.py = DOMAIN h.py /\ g.py[f] = t
        /\ \A i \in DOMAIN h.py : i # f => g.py[i] = h.py[i]
        /\ g.tcp[id] = o /\ \A i \in DOMAIN h.streams : i # id => g.tcp[i] = h.tcp[i]
        /\ Forwards(g) = Forwards(h)
    BY <1>1, <1>2, <1>6 DEF Forwards
  <1>8. t.urn = con.urn
    BY <1>2, ToldOpen DEF Sound, t
  <1>9. /\ o.out = <<>> /\ o.queue = s.queue /\ o.next_seq = s.next_seq /\ o.state = s.state
    BY DEF Sound, o
  <1>10. id - f \in 0 .. 1 /\ \A i \in DOMAIN h.streams :
            i \in Nat /\ i - Forward(i) \in 0 .. 1 /\ (Forward(i) = f /\ i # id => i - f # id - f)
    <2>1. \A i \in DOMAIN h.streams : i \in Nat
      BY DEF Well, Typed
    <2>2. ASSUME NEW i \in Nat PROVE i - Forward(i) \in 0 .. 1 /\ Forward(i) \in Nat
      BY PairFacts
    <2>3. ASSUME NEW i \in Nat, Forward(i) = f, i # id PROVE i - f # id - f
      BY <1>1, <2>2, <2>3
    <2> QED BY <1>1, <2>1, <2>2, <2>3
  <1>11. ASSUME h.streams[id].conn \notin Udp
         PROVE  /\ DOMAIN t.map = 0 .. 1 /\ Fits(t.map[id - f], s.next_seq)
                /\ \A c \in 0 .. 1 : c # id - f => t.map[c] = con.map[c]
    <2>1. /\ DOMAIN con.map = 0 .. 1 /\ Fits(con.map[id - f], h.tcp[id].next_seq)
      BY <1>11 DEF Mapped, MappedBut, Kept
    <2>2. Sound(h.tcp[id])
      BY <1>1 DEF Tallied, QueuesTallied
    <2>3. h.tcp[id].next_seq \in Int /\ s.next_seq \in Int
      BY <2>2, HalfSeqAssumption DEF Sound, SeqSpace
    <2>4. Chain(s.out, h.tcp[id].next_seq, s.next_seq) /\ Packets(s.out)
      BY <1>11 DEF Forth, Sound
    <2> HIDE DEF con
    <2> QED BY <1>2, <1>10, <2>1, <2>3, <2>4, ToldFits DEF t
  <1>12. ASSUME NEW i \in DOMAIN h.streams, h.streams[i].conn \notin Udp PROVE Kept(g, i)
    <2>1. Kept(h, i) /\ Forward(i) \in DOMAIN h.py
      BY <1>12, ScannedKnown DEF Mapped, MappedBut
    <2>2. CASE i = id
      <3>1. Tame(o) /\ Near(o)
        BY <1>9, <1>12, <2>2 DEF Forth, Tame, Near
      <3> QED BY <1>7, <1>9, <1>11, <1>12, <2>2, <3>1 DEF Kept
    <2>3. CASE i # id /\ Forward(i) = f
      <3>1. i = Reversed(id) /\ h.streams[id].conn = h.streams[i].conn
        <4>1. i = Reversed(id)
          <5>1. i \in Nat /\ id \in Nat
            BY <1>10, <1>1
          <5>2. i \in {f, f + 1} /\ id \in {f, f + 1} /\ {id, Reversed(id)} = {f, f + 1}
            BY <2>3, <5>1, PairFacts
          <5> QED BY <2>3, <5>2
        <4> QED BY <4>1 DEF Well, Paired
      <3>2. DOMAIN t.map = 0 .. 1 /\ t.map[i - f] = con.map[i - f]
        BY <1>10, <1>11, <1>12, <2>3, <3>1
      <3> QED BY <1>7, <2>1, <2>3, <3>2 DEF Kept
    <2>4. CASE Forward(i) # f
      <3>1. i # id
        BY <2>4
      <3> QED BY <1>7, <2>1, <2>4, <3>1 DEF Kept
    <2> QED BY <2>2, <2>3, <2>4
  <1>13. \A i \in DOMAIN g.streams :
            g.tcp[i].out = <<>> /\ (g.streams[i].conn \notin Udp => Kept(g, i))
    BY <1>6, <1>7, <1>9, <1>12 DEF Mapped, MappedBut
  <1>14. \A i \in DOMAIN h.py : g.py[i].urn = h.py[i].urn
    BY <1>7, <1>8
  <1>15. \A i \in Forwards(g) : g.py[i].urn[1] = g.streams[i].conn
    <2>1. \A i \in Forwards(h) : i \in DOMAIN h.py
      BY DEF Scanned, ScannedBut
    <2> QED BY <1>6, <1>7, <1>14, <2>1 DEF Mapped, MappedBut
  <1>16. \A i \in DOMAIN g.py \ Forwards(g) :
            g.py[i].urn[1] \notin Udp => \A d \in 0 .. 1 : InOrder(g.py[i].map[d])
    BY <1>1, <1>7 DEF Mapped, MappedBut
  <1> QED BY <1>13, <1>15, <1>16 DEF Mapped, MappedBut, g

\* The state DESTROY is none that a map depends on.
LEMMA DestroyedAlike ==
    ASSUME NEW h, Well(h), Tallied(h), NEW i \in DOMAIN h.streams, NEW g,
           g.py = h.py, g.streams = h.streams, g.tcp = [h.tcp EXCEPT ![i].state = "DESTROY"]
    PROVE  Alike(h, g)
  <1>1. DOMAIN h.tcp = DOMAIN h.streams /\ \A j \in DOMAIN h.tcp : Sound(h.tcp[j])
    BY DEF Tallied, QueuesTallied
  <1>2. \A j \in DOMAIN h.streams :
           /\ g.tcp[j].out = h.tcp[j].out /\ g.tcp[j].queue = h.tcp[j].queue
           /\ g.tcp[j].next_seq = h.tcp[j].next_seq
           /\ g.tcp[j].state = "DESTROY" \/ g.tcp[j].state = h.tcp[j].state
    BY <1>1 DEF Sound
  <1>3. Forwards(g) = Forwards(h)
    BY DEF Forwards
  <1> QED BY <1>2, <1>3 DEF Alike

\* The maps of a connection that is freed stay in order.
LEMMA FreedMapped ==
    ASSUME NEW h, Mapped(h), NEW f \in Nat, f \in DOMAIN h.streams, f + 1 \in DOMAIN h.streams,
           Reversed(f) = f + 1, f \in Forwards(h), DOMAIN h.tcp = DOMAIN h.streams,
           h.streams[f + 1].conn = h.streams[f].conn,
           \A i \in DOMAIN h.streams : Forward(i) \in DOMAIN h.py,
           NEW g, g.py = h.py,
           g.streams = [i \in DOMAIN h.streams \ {f, f + 1} |-> h.streams[i]],
           g.tcp = [i \in DOMAIN h.tcp \ {f, f + 1} |-> h.tcp[i]],
           Forwards(g) = Forwards(h) \ {f}
    PROVE  Mapped(g)
  <1>1. \A i \in DOMAIN g.streams :
           /\ i \in DOMAIN h.streams /\ g.streams[i] = h.streams[i] /\ g.tcp[i] = h.tcp[i]
    OBVIOUS
  <1>2. \A i \in DOMAIN g.streams :
           g.tcp[i].out = <<>> /\ (g.streams[i].conn \notin Udp => Kept(g, i))
    BY <1>1 DEF Mapped, MappedBut, Kept
  <1>3. \A i \in Forwards(g) : g.py[i].urn[1] = g.streams[i].conn
    <2>1. \A i \in Forwards(g) : i \in DOMAIN g.streams /\ i \in Forwards(h)
      BY DEF Forwards
    <2> QED BY <1>1, <2>1 DEF Mapped, MappedBut
  <1>4. ASSUME h.py[f].urn[1] \notin Udp, NEW d \in 0 .. 1
        PROVE  InOrder(h.py[f].map[d])
    <2>1. h.streams[f].conn \notin Udp
      BY <1>4 DEF Mapped, MappedBut
    <2>2. Kept(h, f) /\ Kept(h, f + 1)
      BY <2>1 DEF Mapped, MappedBut
    <2>3. Forward(f) = f /\ Forward(f + 1) = f
      BY PairFacts DEF Reversed
    <2>4. f - Forward(f) = 0 /\ (f + 1) - Forward(f + 1) = 1
      BY <2>3
    <2>5. InOrder(h.py[f].map[0]) /\ InOrder(h.py[f].map[1])
      BY <2>2, <2>3, <2>4 DEF Kept, Fits
    <2>6. d = 0 \/ d = 1
      OBVIOUS
    <2> QED BY <2>5, <2>6
  <1>5. \A i \in DOMAIN g.py \ Forwards(g) :
           g.py[i].urn[1] \notin Udp => \A d \in 0 .. 1 : InOrder(g.py[i].map[d])
    BY <1>4 DEF Mapped, MappedBut
  <1> QED BY <1>2, <1>3, <1>5 DEF Mapped, MappedBut

\* A connection that is freed has ended, with what was still queued.
LEMMA FlushStreamScanned ==
    ASSUME NEW h, Well(h), Tallied(h), Scanned(h), NEW f \in Forwards(h)
    PROVE  /\ Scanned(FlushStream(h, f))
           /\ Mapped(h) => Mapped(FlushStream(h, f))
  <1> DEFINE a == Run(h, f, PadData(h.tcp[f]))
             b == Run(a, f + 1, PadData(a.tcp[f + 1]))
             b1 == [b EXCEPT !.tcp[f].state = "DESTROY"]
             c == CallbackDestroy(b1, f)
             c1 == [c EXCEPT !.tcp[f + 1].state = "DESTROY"]
             d == CallbackDestroy(c1, f + 1)
             k == Bucket[h.streams[f].conn]
             g == [d EXCEPT !.table[k]      = ListDel(ListDel(@, f), f + 1),
                            !.sorted        = ListDel(ListDel(@, f), f + 1),
                            !.streams       = Restrict(@, DOMAIN @ \ {f, f + 1}),
                            !.tcp           = Restrict(@, DOMAIN @ \ {f, f + 1}),
                            !.total_streams = @ - 2]
             S == DOMAIN h.streams
  <1>1. g = FlushStream(h, f)
    BY DEF FlushStream
  <1>2. f \in S /\ f + 1 \in S /\ f \in Nat /\ Reversed(f) = f + 1
    <2>1. f \in S /\ f \in Nat /\ f = Forward(f)
      BY DEF Forwards, Well, Typed, Paired
    <2>2. Reversed(f) = f + 1
      BY <2>1, PairFacts
    <2> QED BY <2>1, <2>2 DEF Well, Paired
  <1>3. ASSUME NEW e, Well(e), Tallied(e), Scanned(e), NEW i \in DOMAIN e.streams
        PROVE  LET r == Run(e, i, PadData(e.tcp[i]))
               IN  /\ SameTable(e, r) /\ Well(r) /\ Tallied(r) /\ Scanned(r) /\ Forwards(r) = Forwards(e)
                   /\ Mapped(e) => Mapped(r)
    <2>1. Sound(e.tcp[i])
      BY <1>3 DEF Tallied, QueuesTallied
    <2>2. PICK s : s = PadData(e.tcp[i])
      OBVIOUS
    <2>3. Sound(s)
      BY <2>1, <2>2, PadDataEmpties
    <2>4. SameTable(e, Run(e, i, s)) /\ Well(Run(e, i, s)) /\ Forwards(Run(e, i, s)) = Forwards(e)
      BY <1>3, RunSame, SameTableWell
    <2>5. Tallied(Run(e, i, s))
      BY <1>3, <2>3, RunTallied DEF Ran
    <2>6. Scanned(Run(e, i, s))
      BY <1>3, <2>3, RunScanned
    <2>7. ASSUME Mapped(e) PROVE Mapped(Run(e, i, s))
      <3>1. ASSUME e.streams[i].conn \notin Udp PROVE Forth(s, e.tcp[i].next_seq) /\ Near(s)
        <4>1. Tame(e.tcp[i]) /\ Near(e.tcp[i]) /\ e.tcp[i].out = <<>>
          BY <1>3, <2>7, <3>1 DEF Mapped, MappedBut, Kept
        <4>2. e.tcp[i].next_seq \in Int
          BY <2>1, <4>1, TameNumbers
        <4>3. Forth(e.tcp[i], e.tcp[i].next_seq)
          BY <2>1, <4>1, <4>2, ChainEmpty DEF Forth
        <4> QED BY <2>2, <4>1, <4>2, <4>3, PadDataForth
      <3> QED BY <1>3, <2>3, <2>7, <3>1, RunMapped
    <2> QED BY <2>2, <2>4, <2>5, <2>6, <2>7
  <1>4. /\ Well(a) /\ Tallied(a) /\ Scanned(a) /\ DOMAIN a.streams = S /\ Forwards(a) = Forwards(h)
        /\ Mapped(h) => Mapped(a)
    <2>1. /\ SameTable(h, a) /\ Well(a) /\ Tallied(a) /\ Scanned(a) /\ Forwards(a) = Forwards(h)
          /\ Mapped(h) => Mapped(a)
      BY <1>2, <1>3
    <2> HIDE DEF a
    <2> QED BY <2>1 DEF SameTable
  <1> HIDE DEF a
  <1>5. /\ Well(b) /\ Tallied(b) /\ Scanned(b) /\ DOMAIN b.streams = S /\ Forwards(b) = Forwards(h)
        /\ Mapped(h) => Mapped(b)
    <2>1. PICK y : y = f + 1
      OBVIOUS
    <2>2. y \in DOMAIN a.streams /\ b = Run(a, y, PadData(a.tcp[y]))
      BY <1>2, <1>4, <2>1
    <2> HIDE DEF b
    <2>3. /\ SameTable(a, b) /\ Well(b) /\ Tallied(b) /\ Scanned(b) /\ Forwards(b) = Forwards(a)
          /\ Mapped(a) => Mapped(b)
      BY <1>3, <1>4, <2>2
    <2> QED BY <1>4, <2>3 DEF SameTable
  <1> HIDE DEF b
  <1>6. /\ Well(b1) /\ Tallied(b1) /\ Scanned(b1) /\ DOMAIN b1.streams = S
        /\ Forwards(b1) = Forwards(h) /\ (Mapped(h) => Mapped(b1))
    <2>1. b1.py = b.py /\ b1.streams = b.streams /\ b1.tcp = [b.tcp EXCEPT ![f].state = "DESTROY"]
      BY <1>5 DEF Well, Typed, Fields
    <2>2. SameTable(b, b1)
      BY <1>5, StateSame
    <2>3. Tallied(b1)
      BY <1>2, <1>5, StateTallied
    <2> HIDE DEF b1
    <2>4. ASSUME Mapped(b) PROVE Mapped(b1)
      <3>1. Alike(b, b1)
        BY <1>2, <1>5, <2>1, DestroyedAlike
      <3>2. \A i \in Forwards(b) : i \in DOMAIN b.py
        BY <1>5 DEF Scanned, ScannedBut
      <3>3. \A i \in DOMAIN b.streams : Forward(i) \in DOMAIN b.py
        BY <1>5, ScannedKnown
      <3> QED BY <2>4, <3>1, <3>2, <3>3, MappedAlike DEF Mapped
    <2> QED BY <1>5, <2>1, <2>2, <2>3, <2>4, SameTableWell, ScannedSame
  <1> HIDE DEF b1
  <1>7. /\ ScannedBut(c, {f}) /\ f \in DOMAIN c.py /\ Ended(c.py[f]) /\ Forwards(c) = Forwards(h)
        /\ Well(c) /\ DOMAIN c.streams = S /\ ~c.streams[f + 1].object
        /\ Tallied(c) /\ (Mapped(h) => Mapped(c)) /\ \A i \in S : Forward(i) \in DOMAIN c.py
        /\ \A i \in Forwards(h) : i \in DOMAIN c.py
    <2>1. /\ ScannedBut(c, {f}) /\ f \in DOMAIN c.py /\ Ended(c.py[f]) /\ Forwards(c) = Forwards(h)
          /\ DOMAIN c.py = DOMAIN b1.py
          /\ \A i \in DOMAIN b1.py : c.py[i].map = b1.py[i].map /\ c.py[i].urn = b1.py[i].urn
      BY <1>6, DestroyScanned
    <2>2. SameTable(b1, c) /\ Tallied(c) /\ ~c.streams[f].object /\ c.tcp = b1.tcp
      BY <1>2, <1>6, CallbackDestroySame, CallbackDestroyTallied
    <2> HIDE DEF c
    <2>3. Well(c) /\ DOMAIN c.streams = S
      BY <1>6, <2>2, SameTableWell DEF SameTable
    <2>4. c.streams[Reversed(f)].object = c.streams[f].object
      BY <1>2, <2>2, <2>3 DEF Tallied, ObjectsTallied
    <2>5. /\ \A i \in S : Forward(i) \in DOMAIN b1.py
          /\ \A i \in Forwards(h) : i \in DOMAIN b1.py
      <3>1. \A i \in S : Forward(i) \in DOMAIN b1.py
        BY <1>6, ScannedKnown
      <3> QED BY <1>6, <3>1 DEF Scanned, ScannedBut
    <2>6. Alike(b1, c)
      BY <1>6, <2>1, <2>2 DEF Alike, SameTable
    <2>7. Mapped(b1) => Mapped(c)
      BY <1>6, <2>5, <2>6, MappedAlike DEF Mapped
    <2> QED BY <1>2, <1>6, <2>1, <2>2, <2>3, <2>4, <2>5, <2>7
  <1> HIDE DEF c
  <1>8. /\ DOMAIN c1 = Fields /\ c1.py = c.py /\ c1.streams = c.streams
        /\ c1.tcp = [c.tcp EXCEPT ![f + 1].state = "DESTROY"]
    BY <1>7 DEF Well, Typed, Fields
  <1> HIDE DEF c1
  <1>9. d = c1
    BY <1>7, <1>8 DEF CallbackDestroy
  <1> HIDE DEF d
  <1>10. /\ g.py = c.py /\ g.streams = [i \in S \ {f, f + 1} |-> c.streams[i]]
         /\ g.tcp = [i \in DOMAIN c1.tcp \ {f, f + 1} |-> c1.tcp[i]]
    BY <1>7, <1>8, <1>9 DEF Fields, Restrict
  <1>11. Forwards(g) = Forwards(h) \ {f}
    BY <1>1, FlushStreamFacts
  <1> HIDE DEF g
  <1>12. \A i \in Forwards(g) : i \in Forwards(c) \ {f} /\ g.streams[i] = c.streams[i]
    BY <1>7, <1>10, <1>11 DEF Forwards
  <1>13. \A i \in DOMAIN g.py \ Forwards(g) : i = f \/ i \in DOMAIN c.py \ (Forwards(c) \cup {f})
    BY <1>7, <1>10, <1>11
  <1>14. Scanned(g)
    BY <1>7, <1>10, <1>12, <1>13 DEF Scanned, ScannedBut
  <1>15. ASSUME Mapped(h) PROVE Mapped(g)
    <2>1. /\ Mapped(c1) /\ DOMAIN c1.tcp = S /\ c1.streams = c.streams /\ c1.py = c.py
          /\ DOMAIN c1.streams = S /\ Forwards(c1) = Forwards(h) /\ \A i \in S : Forward(i) \in DOMAIN c1.py
      <3>1. PICK y : y = f + 1
        OBVIOUS
      <3>2. Alike(c, c1)
        BY <1>2, <1>7, <1>8, <3>1, DestroyedAlike
      <3>3. DOMAIN c.tcp = S
        BY <1>7 DEF Tallied, QueuesTallied
      <3> QED BY <1>7, <1>8, <1>15, <3>2, <3>3, MappedAlike DEF Mapped, Alike
    <2>2. f \in Forwards(c1) /\ c1.streams[f + 1].conn = c1.streams[f].conn
      BY <1>2, <1>7, <2>1 DEF Well, Paired
    <2>3. /\ g.py = c1.py /\ Forwards(g) = Forwards(c1) \ {f}
          /\ g.streams = [i \in DOMAIN c1.streams \ {f, f + 1} |-> c1.streams[i]]
          /\ g.tcp = [i \in DOMAIN c1.tcp \ {f, f + 1} |-> c1.tcp[i]]
      BY <1>10, <1>11, <2>1
    <2> QED BY <1>2, <2>1, <2>2, <2>3, FreedMapped
  <1> QED BY <1>1, <1>14, <1>15

-----------------------------------------------------------------------------
(* Expiry, flush and deallocation.                                          *)

LEMMA KeepsReflexive ==
    ASSUME NEW h, Well(h)
    PROVE  Keeps(h, h)
  BY DEF Keeps

LEMMA KeepsTransitive ==
    ASSUME NEW f, NEW g, NEW h, Keeps(f, g), Keeps(g, h)
    PROVE  Keeps(f, h)
  BY DEF Keeps

LEMMA FlushStreamKeeps ==
    ASSUME NEW h, Well(h), NEW f \in Forwards(h)
    PROVE  Keeps(h, FlushStream(h, f)) /\ Forwards(FlushStream(h, f)) = Forwards(h) \ {f}
  BY FlushStreamFacts, FlushStreamTallied, FlushStreamScanned DEF Keeps

LEMMA ExpireOldestKeeps ==
    ASSUME NEW h, Well(h)
    PROVE  Keeps(h, ExpireOldestStream(h))
  <1> DEFINE n == SelectLastInSeq(h.sorted, LAMBDA i : i \in Forwards(h))
  <1>1. h.sorted \in Seq(DOMAIN h.streams)
    BY DEF Well, Listed, Lists
  <1>2. n = 0 \/ h.sorted[n] \in Forwards(h)
    BY <1>1, LastInFacts
  <1> HIDE DEF n
  <1>3. ExpireOldestStream(h) = IF n = 0 THEN h ELSE FlushStream(h, h.sorted[n])
    BY DEF ExpireOldestStream, n
  <1> QED BY <1>2, <1>3, FlushStreamKeeps, KeepsReflexive

LEMMA EnforceLimitsKeeps ==
    ASSUME NEW h, Well(h)
    PROVE  Keeps(h, EnforceLimits(h))
  BY ExpireOldestKeeps, KeepsReflexive DEF EnforceLimits

LEMMA ExpireInBucketKeeps ==
    ASSUME NEW h, Well(h), NEW k \in 1 .. TableSize, NEW id
    PROVE  Keeps(h, ExpireInBucket(h, k, id))
  <1> DEFINE S == {i \in Forwards(h) : h.tcp[i].max_packet_id + MaxExpired < id}
             n == FirstIn(h.table[k], S)
  <1>1. h.table[k] \in Seq(InBucket(h, k))
    BY DEF Well, Listed, Lists
  <1>2. n = 0 \/ h.table[k][n] \in S
    BY <1>1, FirstInFacts
  <1>3. ExpireInBucket(h, k, id) = IF n = 0 THEN h ELSE FlushStream(h, h.table[k][n])
    BY DEF ExpireInBucket
  <1> HIDE DEF n
  <1> QED BY <1>2, <1>3, FlushStreamKeeps, KeepsReflexive

LEMMA FlushBucketKeeps ==
    ASSUME NEW h, Well(h), NEW k \in 1 .. TableSize
    PROVE  Keeps(h, FlushBucket(h, k))
  <1> DEFINE n == FirstIn(h.table[k], Forwards(h))
  <1>1. h.table[k] \in Seq(InBucket(h, k))
    BY DEF Well, Listed, Lists
  <1>2. n = 0 \/ h.table[k][n] \in Forwards(h)
    BY <1>1, FirstInFacts
  <1>3. FlushBucket(h, k) = IF n = 0 THEN h ELSE FlushStream(h, h.table[k][n])
    BY DEF FlushBucket
  <1> HIDE DEF n
  <1> QED BY <1>2, <1>3, FlushStreamKeeps, KeepsReflexive

\* check_for_expired_packets goes through all buckets.
LEMMA CheckForExpiredKeeps ==
    ASSUME NEW h, Well(h), NEW id
    PROVE  Keeps(h, CheckForExpired(h, id))
  <1>1. ASSUME NEW p, Well(p[1])
        PROVE  Keeps(p[1], CheckForExpired(p[1], p[2]))
    <2>1. CheckForExpired(p[1], p[2]) = Expiry!Iterate(p, p[1], TableSize)
      BY DEF CheckForExpired, Expiry!Iterate, ExpireStep
    <2>2. ExpireKeeps(p, 0, p[1])
      BY <1>1, KeepsReflexive DEF ExpireKeeps
    <2>3. ASSUME NEW k \in 1 .. TableSize, NEW g, ExpireKeeps(p, k - 1, g)
          PROVE  ExpireKeeps(p, k, ExpireStep(g, k, p))
      <3>1. Keeps(p[1], g) /\ Well(g)
        BY <2>3 DEF ExpireKeeps, Keeps
      <3>2. Keeps(g, ExpireInBucket(g, k, p[2]))
        BY <3>1, ExpireInBucketKeeps
      <3> QED BY <3>1, <3>2, KeepsTransitive DEF ExpireKeeps, ExpireStep
    <2>4. TableSize \in Nat
      BY TableAssumption
    <2>5. ExpireKeeps(p, TableSize, Expiry!Iterate(p, p[1], TableSize))
      BY <2>2, <2>3, <2>4, Expiry!IterateHolds
    <2> QED BY <2>1, <2>5 DEF ExpireKeeps
  <1>2. <<h, id>>[1] = h /\ <<h, id>>[2] = id
    OBVIOUS
  <1> QED BY <1>1, <1>2

LEMMA CountPacketKeeps ==
    ASSUME NEW h, Well(h), NEW id
    PROVE  Keeps(h, CountPacket(h, id))
  <1>1. ASSUME NEW g, Well(g), NEW n PROVE Keeps(g, [g EXCEPT !.packets_processed = n])
    <2> DEFINE e == [g EXCEPT !.packets_processed = n]
    <2>1. /\ SameTable(g, e) /\ e.con_id = g.con_id /\ e.streams = g.streams /\ e.tcp = g.tcp
          /\ e.outstanding = g.outstanding /\ e.objects = g.objects
          /\ e.total_streams = g.total_streams /\ e.py = g.py
      BY <1>1 DEF SameTable, Well, Typed, Fields
    <2> HIDE DEF e
    <2>2. Tallied(g) => Tallied(e) /\ Queued(e) = Queued(g)
      BY <2>1, TalliedSame
    <2>3. Scanned(g) => Scanned(e)
      BY <2>1, ScannedSame
    <2>4. Mapped(g) => Mapped(e)
      BY <2>1, MappedSame DEF Mapped
    <2>5. Keeps(g, e)
      BY <1>1, <2>1, <2>2, <2>3, <2>4, SameTableWell DEF Keeps
    <2> QED BY <2>5 DEF e
  <1> DEFINE c == CheckForExpired(h, id)
  <1>2. Keeps(h, c) /\ Well(c)
    BY CheckForExpiredKeeps DEF Keeps
  <1> HIDE DEF c
  <1>3. Keeps(h, [c EXCEPT !.packets_processed = 0])
    BY <1>1, <1>2, KeepsTransitive
  <1>4. Keeps(h, [h EXCEPT !.packets_processed = @ + 1])
    BY <1>1
  <1> QED BY <1>3, <1>4 DEF CountPacket, c

\* TCPHashTable_flush goes through all buckets.
LEMMA FlushBucketsKeeps ==
    ASSUME NEW h, Well(h)
    PROVE  Keeps(h, FlushBuckets(h))
  <1>1. FlushBuckets(h) = Flush!Iterate(h, h, TableSize)
    BY DEF FlushBuckets, Flush!Iterate, FlushStep
  <1>2. FlushKeeps(h, 0, h)
    BY KeepsReflexive DEF FlushKeeps
  <1>3. ASSUME NEW k \in 1 .. TableSize, NEW g, FlushKeeps(h, k - 1, g)
        PROVE  FlushKeeps(h, k, FlushStep(g, k, h))
    <2>1. Keeps(h, g) /\ Well(g)
      BY <1>3 DEF FlushKeeps, Keeps
    <2>2. Keeps(g, FlushBucket(g, k))
      BY <2>1, FlushBucketKeeps
    <2> QED BY <2>1, <2>2, KeepsTransitive DEF FlushKeeps, FlushStep
  <1>4. TableSize \in Nat
    BY TableAssumption
  <1>5. FlushKeeps(h, TableSize, Flush!Iterate(h, h, TableSize))
    BY <1>2, <1>3, <1>4, Flush!IterateHolds
  <1> QED BY <1>1, <1>5 DEF FlushKeeps

\* talloc_free of the table frees every stream.
LEMMA FreeStreamsKeeps ==
    ASSUME NEW h, Well(h)
    PROVE  Keeps(h, FreeStreams(h)) /\ Forwards(FreeStreams(h)) = {}
  <1>1. FreeStreams(h) = Free!Iterate(h, h, h.con_id)
    BY DEF FreeStreams, Free!Iterate, FreeStep
  <1>2. h.con_id \in Nat /\ \A f \in Forwards(h) : f \in Nat /\ f < h.con_id
    BY DEF Well, Typed, Forwards
  <1>3. FreeKeeps(h, 0, h)
    BY <1>2, KeepsReflexive DEF FreeKeeps
  <1>4. ASSUME NEW k \in 1 .. h.con_id, NEW g, FreeKeeps(h, k - 1, g)
        PROVE  FreeKeeps(h, k, FreeStep(g, k, h))
    <2> DEFINE f == h.con_id - k
    <2>1. Keeps(h, g) /\ Well(g) /\ Forwards(g) = {i \in Forwards(h) : i < h.con_id - (k - 1)}
      BY <1>4 DEF FreeKeeps, Keeps
    <2>2. \A i \in Forwards(h) : i < h.con_id - (k - 1) <=> i < f \/ i = f
      BY <1>2
    <2>3. \A i \in Forwards(h) : i < f => i # f
      BY <1>2
    <2>4. CASE f \in Forwards(h)
      <3>1. f \in Forwards(g)
        BY <2>1, <2>2, <2>4
      <3>2. Keeps(g, FlushStream(g, f)) /\ Forwards(FlushStream(g, f)) = Forwards(g) \ {f}
        BY <2>1, <3>1, FlushStreamKeeps
      <3>3. Forwards(g) \ {f} = {i \in Forwards(h) : i < f}
        BY <2>1, <2>2, <2>3
      <3> QED BY <2>1, <2>4, <3>2, <3>3, KeepsTransitive DEF FreeKeeps, FreeStep
    <2>5. CASE f \notin Forwards(h)
      <3>1. Forwards(g) = {i \in Forwards(h) : i < f}
        BY <2>1, <2>2, <2>5
      <3> QED BY <2>1, <2>5, <3>1 DEF FreeKeeps, FreeStep
    <2> QED BY <2>4, <2>5
  <1>5. FreeKeeps(h, h.con_id, Free!Iterate(h, h, h.con_id))
    BY <1>2, <1>3, <1>4, Free!IterateHolds
  <1>6. \A f \in Forwards(h) : ~(f < h.con_id - h.con_id)
    BY <1>2
  <1> QED BY <1>1, <1>5, <1>6 DEF FreeKeeps
-----------------------------------------------------------------------------
(* What a packet does to the counters.                                      *)

\* A new pair is counted, and has nothing queued.
LEMMA CreatePairTallied ==
    ASSUME NEW h, Well(h), Tallied(h), NEW c, NEW side
    PROVE  Tallied(CreatePair(h, c, side)) /\ Queued(CreatePair(h, c, side)) = Queued(h)
  <1> DEFINE f == h.con_id
             g == CreatePair(h, c, side)
             A == NewStream(c, side, "FORWARD")
             B == NewStream(c, Other(side), "REVERSE")
             S == DOMAIN h.streams
             T == S \cup {f, f + 1}
  <1>1. /\ DOMAIN h = Fields /\ f \in Nat /\ Forward(f) = f
        /\ \A i \in S : i \in Nat /\ i < f
    BY DEF Well, Typed
  <1>2. /\ g.streams = With(h.streams, [i \in {f, f + 1} |-> IF i = f THEN A ELSE B])
        /\ g.tcp = With(h.tcp, [i \in {f, f + 1} |-> NewTcp])
        /\ g.total_streams = h.total_streams + 2
        /\ g.outstanding = h.outstanding /\ g.objects = h.objects
    BY <1>1 DEF CreatePair, Fields
  <1> HIDE DEF g
  <1>3. f \notin S /\ f + 1 \notin S /\ f # f + 1
    BY <1>1
  <1>4. DOMAIN h.tcp = S /\ \A i \in S : Sound(h.tcp[i])
    BY DEF Tallied, QueuesTallied
  <1>5. /\ DOMAIN g.streams = T
        /\ g.streams[f] = A /\ g.streams[f + 1] = B
        /\ \A i \in S : g.streams[i] = h.streams[i]
    BY <1>2, <1>3 DEF With
  <1>6. /\ DOMAIN g.tcp = T
        /\ g.tcp[f] = NewTcp /\ g.tcp[f + 1] = NewTcp
        /\ \A i \in S : g.tcp[i] = h.tcp[i]
    BY <1>2, <1>3, <1>4 DEF With
  <1>7. Sound(NewTcp) /\ NewTcp.queue = <<>>
    BY NoPackets, HalfSeqAssumption DEF Sound, NewTcp, SeqSpace
  <1>8. A.object = FALSE /\ B.object = FALSE
    BY DEF NewStream
  <1> HIDE DEF A, B
  <1>9. StreamsTallied(g)
    <2>1. PICK P : P = S
      OBVIOUS
    <2>2. PICK y : y = f + 1
      OBVIOUS
    <2>3. PICK Q : Q = T
      OBVIOUS
    <2>4. IsFiniteSet(P) /\ h.total_streams = Cardinality(P)
      BY <2>1 DEF Tallied, StreamsTallied
    <2>0. PICK z : z = f
      OBVIOUS
    <2>5. z \notin P /\ y \notin P /\ z # y /\ Q = P \cup {z, y}
      BY <1>3, <2>0, <2>1, <2>2, <2>3
    <2>6. IsFiniteSet(Q) /\ Cardinality(Q) = Cardinality(P) + 2
      BY <2>4, <2>5, AddTwo
    <2> QED BY <1>2, <1>5, <2>3, <2>4, <2>6 DEF StreamsTallied
  <1>10. Queued(g) = Queued(h)
    <2>1. Places(f, g.tcp[f].queue) = {} /\ Places(f + 1, g.tcp[f + 1].queue) = {}
      BY <1>6, <1>7 DEF Places
    <2>2. Queued(h) = UNION {Places(i, h.tcp[i].queue) : i \in S}
      BY <1>4 DEF Queued, Places
    <2>3. Queued(g) = UNION {Places(i, g.tcp[i].queue) : i \in T}
      BY <1>6 DEF Queued, Places
    <2>4. ASSUME NEW x \in Queued(h) PROVE x \in Queued(g)
      <3>1. PICK i \in S : x \in Places(i, h.tcp[i].queue)
        BY <2>2
      <3> QED BY <1>6, <2>3, <3>1
    <2>5. ASSUME NEW x \in Queued(g) PROVE x \in Queued(h)
      <3>1. PICK i \in T : x \in Places(i, g.tcp[i].queue)
        BY <2>3
      <3>2. i \in S
        BY <2>1, <3>1
      <3> QED BY <1>6, <2>2, <3>1, <3>2
    <2> QED BY <2>4, <2>5
  <1>11. QueuesTallied(g)
    <2>1. \A i \in T : Sound(g.tcp[i])
      BY <1>4, <1>6, <1>7
    <2> QED BY <1>2, <1>5, <1>6, <1>10, <2>1 DEF Tallied, QueuesTallied
  <1>12. WithObject(g) = WithObject(h)
    <2>1. ASSUME NEW i \in WithObject(g) PROVE i \in WithObject(h)
      <3>1. i \in T /\ g.streams[i].direction = "FORWARD" /\ g.streams[i].object
        BY <1>5 DEF WithObject, Forwards
      <3>2. i \in S
        BY <1>5, <1>8, <3>1
      <3> QED BY <1>5, <3>1, <3>2 DEF WithObject, Forwards
    <2>2. ASSUME NEW i \in WithObject(h) PROVE i \in WithObject(g)
      BY <1>5 DEF WithObject, Forwards
    <2> QED BY <2>1, <2>2
  <1>13. ASSUME NEW i \in T PROVE g.streams[Reversed(i)].object = g.streams[i].object
    <2>1. Reversed(f) = f + 1 /\ Reversed(f + 1) = f
      BY <1>1, PairFacts
    <2>2. CASE i = f
      BY <1>5, <1>8, <2>1, <2>2
    <2>3. CASE i = f + 1
      BY <1>5, <1>8, <2>1, <2>3
    <2>4. CASE i \in S
      <3>1. Reversed(i) \in S /\ h.streams[Reversed(i)].object = h.streams[i].object
        BY <2>4 DEF Well, Paired, Tallied, ObjectsTallied
      <3> QED BY <1>5, <2>4, <3>1
    <2> QED BY <2>2, <2>3, <2>4
  <1>14. ObjectsTallied(g)
    BY <1>2, <1>5, <1>12, <1>13 DEF Tallied, ObjectsTallied
  <1> QED BY <1>9, <1>10, <1>11, <1>14 DEF Tallied, g

\* The first packet of a stream.
LEMMA EstablishTallied ==
    ASSUME NEW h, Well(h), Tallied(h), NEW id \in DOMAIN h.streams, NEW p \in Segments
    PROVE  Tallied(Establish(h, id, p))
  <1> DEFINE s == h.tcp[id]
             t == IF h.streams[id].conn \in Udp THEN s
                  ELSE [s EXCEPT !.next_seq = IF p.syn THEN U32(p.seq + 1) ELSE p.seq]
             u == [t EXCEPT !.state = "JUST_EST"]
             a == [h EXCEPT !.tcp[id] = u]
             b == CallbackEst(a, id)
             c == [b EXCEPT !.tcp[id].state = "DATA"]
  <1>1. Establish(h, id, p) = IF s.state # "NONE" THEN h ELSE c
    BY DEF Establish
  <1>2. DOMAIN h.tcp = DOMAIN h.streams /\ \A i \in DOMAIN h.tcp : Sound(h.tcp[i])
    BY DEF Tallied, QueuesTallied
  <1>3. U32(p.seq + 1) \in 0 .. SeqSpace - 1 /\ p.seq \in 0 .. SeqSpace - 1
    <2>1. p.seq \in 0 .. SeqSpace - 1 /\ SeqSpace \in Nat
      BY SegmentsAssumption, HalfSeqAssumption DEF SeqSpace
    <2> DEFINE n == p.seq + 1
    <2>2. n \in Int /\ -SeqSpace <= n /\ n < 2 * SeqSpace
      BY <2>1
    <2> HIDE DEF n
    <2>3. U32(n) \in 0 .. SeqSpace - 1
      BY <2>2, U32Type
    <2> QED BY <2>1, <2>3 DEF n
  <1>4. Sound(s)
    BY <1>2
  <1>5. Sound(u) /\ u.queue = s.queue
    BY <1>3, <1>4 DEF Sound
  <1> HIDE DEF u
  <1>6. SameTable(h, a) /\ id \in DOMAIN a.streams
    BY DEF SameTable, Well, Typed, Fields
  <1>7. Well(a)
    BY <1>6, SameTableWell
  <1>8. /\ a.tcp = [h.tcp EXCEPT ![id] = u] /\ a.streams = h.streams
        /\ a.objects = h.objects /\ a.total_streams = h.total_streams
        /\ a.outstanding = h.outstanding
    BY DEF Well, Typed, Fields
  <1> HIDE DEF a
  <1>9. /\ DOMAIN a.tcp = DOMAIN h.tcp
        /\ \A i \in DOMAIN h.tcp : Sound(a.tcp[i]) /\ a.tcp[i].queue = h.tcp[i].queue
    BY <1>2, <1>5, <1>8
  <1>10. Queued(a) = Queued(h)
    BY <1>9 DEF Queued
  <1>11. Forwards(a) = Forwards(h) /\ WithObject(a) = WithObject(h)
    BY <1>8 DEF Forwards, WithObject
  <1>12. Tallied(a)
    BY <1>8, <1>9, <1>10, <1>11 DEF Tallied, StreamsTallied, QueuesTallied, ObjectsTallied
  <1>13. Well(b) /\ Tallied(b) /\ id \in DOMAIN b.streams
    <2>1. SameTable(a, b)
      BY <1>6, <1>7, CallbackEstSame
    <2>2. Tallied(b)
      BY <1>6, <1>7, <1>12, CallbackEstTallied
    <2> HIDE DEF b
    <2>3. Well(b)
      BY <1>7, <2>1, SameTableWell
    <2> QED BY <1>6, <2>1, <2>2, <2>3 DEF SameTable
  <1> HIDE DEF b
  <1>14. Tallied(c)
    BY <1>13, StateTallied
  <1> QED BY <1>1, <1>14

LEMMA AddUDPSound ==
    ASSUME NEW s, Sound(s), NEW p \in Segments
    PROVE  Sound(AddUDP(s, p)) /\ AddUDP(s, p).queue = s.queue
  <1> DEFINE u == AddUDP(s, p)
             m == s.next_seq + p.data_len
  <1>1. p.data_len \in 0 .. HalfSeq - 1 /\ SeqSpace \in Nat /\ HalfSeq \in Nat
        /\ SeqSpace = 2 * HalfSeq
    BY SegmentsAssumption, HalfSeqAssumption DEF SeqSpace
  <1>2. s.next_seq \in 0 .. SeqSpace - 1
    BY DEF Sound
  <1>3. m \in Int /\ -SeqSpace <= m /\ m < 2 * SeqSpace
    BY <1>1, <1>2
  <1>4. u.next_seq = U32(m) /\ u.queue = s.queue /\ DOMAIN u = DOMAIN s
        /\ u.out = WithStart(Callback(s, "data", p, 0), p.seq)
    BY DEF AddUDP, Sound
  <1> HIDE DEF m, u
  <1>6. Packets(u.out)
    BY <1>4, CallbackPacketsOnly, WithStartPackets DEF Sound
  <1>5. U32(m) \in 0 .. SeqSpace - 1
    BY <1>3, U32Type
  <1> QED BY <1>4, <1>5, <1>6 DEF Sound, u

LEMMA AddTallied ==
    ASSUME NEW h, Well(h), Tallied(h), NEW id \in DOMAIN h.streams, NEW p \in Segments, NEW n
    PROVE  Tallied(Add(h, id, p, n)) /\ (Scanned(h) => Scanned(Add(h, id, p, n)))
  <1> DEFINE s == h.tcp[id]
             u == AddUDP(s, p)
             t == AddTCP(s, p, n)
             r == IF h.streams[id].conn \in Udp THEN u ELSE t
  <1>1. Sound(s)
    BY DEF Tallied, QueuesTallied
  <1>2. Sound(t)
    BY <1>1, AddTCPSound
  <1>3. Sound(u)
    BY <1>1, AddUDPSound
  <1>4. Sound(r) /\ Add(h, id, p, n) = Run(h, id, r)
    BY <1>2, <1>3 DEF Add
  <1> HIDE DEF r
  <1> QED BY <1>4, RunTallied, RunScanned DEF Ran
-----------------------------------------------------------------------------
(* find_stream.                                                             *)

\* The members of P stand first in list m; the others keep the order of l.
InFront(P, m, l) ==
    \A i, j \in 1 .. Len(m) :
        i < j => \/ m[i] \in P
                 \/ /\ m[j] \notin P
                    /\ \E a, b \in 1 .. Len(l) : a < b /\ l[a] = m[i] /\ l[b] = m[j]

\* A new element, in front of a list that kept the order of another.
LEMMA AddInFront ==
    ASSUME NEW S, NEW d, Lists(d, S), NEW x, x \notin S, NEW l, Within(d, l)
    PROVE  Lists(<<x>> \o d, S \cup {x}) /\ InFront({x}, <<x>> \o d, l)
  <1> DEFINE m == <<x>> \o d
  <1>1. /\ Lists(m, S \cup {x}) /\ Len(m) = Len(d) + 1 /\ m[1] = x
        /\ \A i \in 2 .. Len(d) + 1 : m[i] = d[i - 1]
    BY AddFacts
  <1>2. d \in Seq(S) /\ Len(d) \in Nat
    BY DEF Lists
  <1> HIDE DEF m
  <1>3. ASSUME NEW i \in 1 .. Len(m), NEW j \in 1 .. Len(m), i < j, m[i] # x
        PROVE  /\ m[j] # x
               /\ \E a, b \in 1 .. Len(l) : a < b /\ l[a] = m[i] /\ l[b] = m[j]
    <2>1. i # 1 /\ i \in 2 .. Len(d) + 1 /\ j \in 2 .. Len(d) + 1
      BY <1>1, <1>2, <1>3
    <2>2. /\ i - 1 \in 1 .. Len(d) /\ j - 1 \in 1 .. Len(d) /\ i - 1 < j - 1
          /\ m[i] = d[i - 1] /\ m[j] = d[j - 1]
      BY <1>1, <1>2, <1>3, <2>1
    <2>3. d[j - 1] \in S
      BY <1>2, <2>2
    <2>4. \E a, b \in 1 .. Len(l) : a < b /\ l[a] = d[i - 1] /\ l[b] = d[j - 1]
      BY <2>2 DEF Within
    <2> QED BY <2>2, <2>3, <2>4
  <1>4. InFront({x}, m, l)
    BY <1>3 DEF InFront
  <1> QED BY <1>1, <1>4 DEF m

LEMMA InFrontBoth ==
    ASSUME NEW l, NEW m, NEW n, NEW x, NEW y, InFront({x}, m, l), InFront({y}, n, m)
    PROVE  InFront({x, y}, n, l)
  <1> SUFFICES ASSUME NEW i \in 1 .. Len(n), NEW j \in 1 .. Len(n), i < j,
                      n[i] \notin {x, y}
               PROVE  /\ n[j] \notin {x, y}
                      /\ \E a, b \in 1 .. Len(l) : a < b /\ l[a] = n[i] /\ l[b] = n[j]
    BY DEF InFront
  <1>1. n[j] # y /\ \E a, b \in 1 .. Len(m) : a < b /\ m[a] = n[i] /\ m[b] = n[j]
    BY DEF InFront
  <1>2. PICK a, b \in 1 .. Len(m) : a < b /\ m[a] = n[i] /\ m[b] = n[j]
    BY <1>1
  <1>3. m[b] # x /\ \E u, v \in 1 .. Len(l) : u < v /\ l[u] = m[a] /\ l[v] = m[b]
    BY <1>2 DEF InFront
  <1> QED BY <1>1, <1>2, <1>3

LEMMA WithinReflexive ==
    ASSUME NEW l
    PROVE  Within(l, l)
  BY DEF Within

\* list_move of one stream, and of both streams of a pair.
LEMMA MoveFacts ==
    ASSUME NEW S, NEW l, Lists(l, S), NEW x \in S
    PROVE  Lists(ListMove(l, x), S) /\ InFront({x}, ListMove(l, x), l)
  <1>1. Lists(ListDel(l, x), S \ {x}) /\ Within(ListDel(l, x), l)
    BY DelFacts
  <1>2. x \notin S \ {x} /\ (S \ {x}) \cup {x} = S
    OBVIOUS
  <1> QED BY <1>1, <1>2, AddInFront DEF ListMove

LEMMA MovePair ==
    ASSUME NEW S, NEW l, Lists(l, S), NEW x \in S, NEW y \in S
    PROVE  LET m == ListMove(ListMove(l, x), y)
           IN  Lists(m, S) /\ InFront({x, y}, m, l)
  <1>1. Lists(ListMove(l, x), S) /\ InFront({x}, ListMove(l, x), l)
    BY MoveFacts
  <1>2. /\ Lists(ListMove(ListMove(l, x), y), S)
        /\ InFront({y}, ListMove(ListMove(l, x), y), ListMove(l, x))
    BY <1>1, MoveFacts
  <1> QED BY <1>1, <1>2, InFrontBoth

\* list_add of two new streams, and list_add_tail.
LEMMA TwoElements ==
    ASSUME NEW T, NEW x \in T, NEW y \in T
    PROVE  <<x>> \o <<y>> = <<x, y>>
  <1> DEFINE m == <<x>> \o <<y>>
  <1>1. <<x>> \in Seq(T) /\ <<y>> \in Seq(T) /\ Len(<<x>>) = 1 /\ Len(<<y>>) = 1
    OBVIOUS
  <1>2. /\ m \in Seq(T) /\ Len(m) = 2
        /\ \A i \in 1 .. 2 : m[i] = IF i <= 1 THEN <<x>>[i] ELSE <<y>>[i - 1]
    <2> HIDE DEF m
    <2>1. /\ m \in Seq(T) /\ Len(m) = 1 + 1
          /\ \A i \in 1 .. 1 + 1 : m[i] = IF i <= 1 THEN <<x>>[i] ELSE <<y>>[i - 1]
      BY <1>1, ConcatProperties DEF m
    <2> QED BY <2>1
  <1> HIDE DEF m
  <1>3. m[1] = x /\ m[2] = y
    BY <1>2
  <1>4. <<x, y>> \in Seq(T) /\ Len(<<x, y>>) = 2 /\ <<x, y>>[1] = x /\ <<x, y>>[2] = y
    OBVIOUS
  <1>5. \A i \in 1 .. 2 : m[i] = <<x, y>>[i]
    <2>1. \A i \in 1 .. 2 : i = 1 \/ i = 2
      OBVIOUS
    <2> QED BY <1>3, <1>4, <2>1
  <1>6. m = <<x, y>>
    BY <1>2, <1>4, <1>5, SeqEqual
  <1> QED BY <1>6 DEF m

LEMMA AddPair ==
    ASSUME NEW S, NEW l, Lists(l, S), NEW x, NEW y, x \notin S, y \notin S, x # y
    PROVE  /\ Lists(<<y, x>> \o l, S \cup {x, y})
           /\ InFront({x, y}, <<y, x>> \o l, l)
           /\ Lists(l \o <<x, y>>, S \cup {x, y})
  <1> DEFINE T == S \cup {x, y}
             m == <<x>> \o l
  <1>1. Lists(m, S \cup {x}) /\ InFront({x}, m, l)
    BY WithinReflexive, AddInFront
  <1>2. y \notin S \cup {x} /\ (S \cup {x}) \cup {y} = S \cup {x, y}
    OBVIOUS
  <1>3. Lists(<<y>> \o m, S \cup {x, y}) /\ InFront({y}, <<y>> \o m, m)
    BY <1>1, <1>2, WithinReflexive, AddInFront
  <1>4. InFront({x, y}, <<y>> \o m, l)
    BY <1>1, <1>3, InFrontBoth
  <1>5. l \in Seq(T) /\ <<x>> \in Seq(T) /\ <<y>> \in Seq(T)
    BY DEF Lists
  <1>6. <<y>> \o <<x>> = <<y, x>> /\ <<x>> \o <<y>> = <<x, y>>
    <2>1. x \in T /\ y \in T
      OBVIOUS
    <2> HIDE DEF T
    <2> QED BY <2>1, TwoElements
  <1>7. <<y, x>> \o l = <<y>> \o m
    BY <1>5, <1>6, ConcatAssociative
  <1>8. l \o <<x, y>> = (l \o <<x>>) \o <<y>>
    <2>1. (l \o <<x>>) \o <<y>> = l \o (<<x>> \o <<y>>)
      <3> HIDE DEF T
      <3> QED BY <1>5, ConcatAssociative
    <2> QED BY <1>6, <2>1
  <1>9. Lists(l \o <<x>>, S \cup {x})
    BY AddTailFacts
  <1>10. Lists((l \o <<x>>) \o <<y>>, S \cup {x, y})
    BY <1>2, <1>9, AddTailFacts
  <1> QED BY <1>3, <1>4, <1>7, <1>8, <1>10
\* The forward stream of a stream that is allocated.
LEMMA ForgetFacts ==
    ASSUME NEW h, Well(h)
    PROVE  /\ Well(Forget(h)) /\ Forwards(Forget(h)) = Forwards(h)
           /\ \A n : Ordered(h, n) => Ordered(Forget(h), n)
           /\ Tallied(h) => Tallied(Forget(h)) /\ Queued(Forget(h)) = Queued(h)
           /\ Scanned(h) => Scanned(Forget(h))
  <1> DEFINE g == Forget(h)
  <1>1. /\ DOMAIN g = Fields /\ g.table = h.table /\ g.sorted = h.sorted
        /\ g.con_id = h.con_id /\ g.streams = h.streams
        /\ g.seen = [i \in Forwards(h) |-> h.seen[i]]
        /\ g.py = [i \in Forwards(h) |-> h.py[i]]
        /\ g.tcp = h.tcp /\ g.outstanding = h.outstanding /\ g.objects = h.objects
        /\ g.total_streams = h.total_streams
    BY DEF Forget, Restrict, Well, Typed, Fields
  <1> HIDE DEF g
  <1>2. Well(g)
    BY <1>1, WellSame
  <1>3. \A i \in DOMAIN h.streams : Forward(i) \in Forwards(h)
    BY ForwardAllocated
  <1>4. ASSUME NEW n, Ordered(h, n) PROVE Ordered(g, n)
    <2>1. \A i \in DOMAIN h.streams : g.seen[Forward(i)] = h.seen[Forward(i)]
      BY <1>1, <1>3
    <2>2. \A i \in DOMAIN g.streams :
             Forward(i) \in DOMAIN g.seen /\ g.seen[Forward(i)] \in 0 .. n
      BY <1>1, <1>3, <1>4, <2>1 DEF Ordered
    <2>3. \A j \in 1 .. Len(h.sorted) : h.sorted[j] \in DOMAIN h.streams
      BY DEF Well, Listed, Lists
    <2>4. ASSUME NEW j \in 1 .. Len(g.sorted), NEW k \in 1 .. Len(g.sorted), j < k
          PROVE  g.seen[Forward(g.sorted[j])] >= g.seen[Forward(g.sorted[k])]
      BY <1>1, <1>4, <2>1, <2>3, <2>4 DEF Ordered
    <2> QED BY <2>2, <2>4 DEF Ordered
  <1>5. Forwards(g) = Forwards(h)
    BY <1>1 DEF Forwards
  <1>6. Tallied(h) => Tallied(g) /\ Queued(g) = Queued(h)
    BY <1>1, TalliedSame
  <1>7. Scanned(h) => Scanned(g)
    BY <1>1, <1>5 DEF Scanned, ScannedBut
  <1> QED BY <1>2, <1>4, <1>5, <1>6, <1>7 DEF g

\* The pair that is used is in front, and is the last one that was used.
LEMMA TouchFacts ==
    ASSUME NEW g, Well(g), NEW id \in DOMAIN g.streams, NEW l,
           InFront({id, Reversed(id)}, g.sorted, l), NEW n \in Nat,
           \A i \in DOMAIN g.streams :
               Forward(i) \in DOMAIN g.seen /\ g.seen[Forward(i)] \in 0 .. n,
           \A j, k \in 1 .. Len(l) :
               j < k => g.seen[Forward(l[j])] >= g.seen[Forward(l[k])]
    PROVE  /\ Well(Touch(g, id, n + 1)) /\ Ordered(Touch(g, id, n + 1), n + 1)
           /\ DOMAIN Touch(g, id, n + 1).streams = DOMAIN g.streams
  <1> DEFINE t == Touch(g, id, n + 1)
             f == Forward(id)
  <1>1. /\ DOMAIN t = Fields /\ t.table = g.table /\ t.sorted = g.sorted
        /\ t.con_id = g.con_id /\ t.streams = g.streams
        /\ t.seen = [g.seen EXCEPT ![f] = n + 1]
    BY DEF Touch, Well, Typed, Fields
  <1> HIDE DEF t
  <1>2. Well(t)
    BY <1>1, WellSame
  <1>3. /\ \A x \in DOMAIN g.seen : t.seen[x] = IF x = f THEN n + 1 ELSE g.seen[x]
        /\ DOMAIN t.seen = DOMAIN g.seen
    BY <1>1
  <1>4. \A i \in DOMAIN g.streams :
           Forward(i) \in DOMAIN t.seen /\ t.seen[Forward(i)] \in 0 .. n + 1
    BY <1>3
  <1>5. \A i \in DOMAIN g.streams : Forward(i) = f <=> i \in {id, Reversed(id)}
    <2>1. \A i \in DOMAIN g.streams : i \in Nat
      BY DEF Well, Typed
    <2>2. {id, Reversed(id)} = {f, f + 1} /\ Forward(Reversed(id)) = f
      BY <2>1, PairFacts
    <2>3. \A i \in DOMAIN g.streams : i = Forward(i) \/ i = Forward(i) + 1
      BY <2>1, PairFacts
    <2> QED BY <2>2, <2>3
  <1>6. \A j \in 1 .. Len(g.sorted) : g.sorted[j] \in DOMAIN g.streams
    BY DEF Well, Listed, Lists
  <1>7. ASSUME NEW j \in 1 .. Len(g.sorted), NEW k \in 1 .. Len(g.sorted), j < k
        PROVE  t.seen[Forward(g.sorted[j])] >= t.seen[Forward(g.sorted[k])]
    <2> DEFINE x == g.sorted[j]
               y == g.sorted[k]
    <2>1. x \in DOMAIN g.streams /\ y \in DOMAIN g.streams
      BY <1>6
    <2>2. \/ x \in {id, Reversed(id)}
          \/ /\ y \notin {id, Reversed(id)}
             /\ \E a, b \in 1 .. Len(l) : a < b /\ l[a] = x /\ l[b] = y
      BY <1>7 DEF InFront
    <2> HIDE DEF x, y
    <2>3. CASE x \in {id, Reversed(id)}
      <3>1. t.seen[Forward(x)] = n + 1
        BY <1>3, <1>5, <2>1, <2>3
      <3>2. t.seen[Forward(y)] \in 0 .. n + 1
        BY <1>4, <2>1
      <3> QED BY <3>1, <3>2 DEF x, y
    <2>4. CASE x \notin {id, Reversed(id)}
      <3>1. y \notin {id, Reversed(id)} /\ g.seen[Forward(x)] >= g.seen[Forward(y)]
        BY <2>2, <2>4
      <3>2. t.seen[Forward(x)] = g.seen[Forward(x)] /\ t.seen[Forward(y)] = g.seen[Forward(y)]
        BY <1>3, <1>5, <2>1, <2>4, <3>1
      <3> QED BY <3>1, <3>2 DEF x, y
    <2> QED BY <2>3, <2>4
  <1>8. Ordered(t, n + 1)
    BY <1>1, <1>4, <1>7 DEF Ordered
  <1> QED BY <1>1, <1>2, <1>8 DEF t

\* g is what find_stream makes of h, and stream id what it returns.
Found(h, g, id) ==
    /\ Well(g)
    /\ id \in DOMAIN g.streams
    /\ \A n \in Nat : Ordered(h, n) => Ordered(Touch(g, id, n + 1), n + 1)
    /\ Tallied(h) => Tallied(g) /\ Queued(g) = Queued(h)

LEMMA MoveToFrontFacts ==
    ASSUME NEW h, Well(h), NEW id \in DOMAIN h.streams
    PROVE  /\ Found(h, MoveToFront(h, id), id)
           /\ Found(h, MoveToFront(h, id), Reversed(id))
  <1> DEFINE g == MoveToFront(h, id)
             S == DOMAIN h.streams
  <1>1. /\ DOMAIN g = Fields /\ g.table = h.table /\ g.con_id = h.con_id
        /\ g.streams = h.streams /\ g.seen = h.seen
        /\ g.sorted = ListMove(ListMove(h.sorted, id), Reversed(id))
        /\ g.tcp = h.tcp /\ g.outstanding = h.outstanding /\ g.objects = h.objects
        /\ g.total_streams = h.total_streams
    BY DEF MoveToFront, Well, Typed, Fields
  <1> HIDE DEF g
  <1>2. Reversed(id) \in S /\ Reversed(Reversed(id)) = id
    <2>1. id \in Nat
      BY DEF Well, Typed
    <2> QED BY <2>1, PairFacts DEF Well, Paired
  <1>3. Lists(g.sorted, S) /\ InFront({id, Reversed(id)}, g.sorted, h.sorted)
    BY <1>1, <1>2, MovePair DEF Well, Listed
  <1>4. Well(g)
    <2>1. \A k : InBucket(g, k) = InBucket(h, k)
      BY <1>1 DEF InBucket
    <2>2. Typed(g) /\ Paired(g) /\ Distinct(g)
      BY <1>1 DEF Well, Typed, Paired, Distinct
    <2> QED BY <1>1, <1>3, <2>1, <2>2 DEF Well, Listed
  <1>5. ASSUME NEW x \in {id, Reversed(id)}, NEW n \in Nat, Ordered(h, n)
        PROVE  Ordered(Touch(g, x, n + 1), n + 1)
    <2>1. {x, Reversed(x)} = {id, Reversed(id)} /\ x \in DOMAIN g.streams
      BY <1>1, <1>2
    <2>2. InFront({x, Reversed(x)}, g.sorted, h.sorted)
      BY <1>3, <2>1
    <2>3. \A i \in DOMAIN g.streams :
             Forward(i) \in DOMAIN g.seen /\ g.seen[Forward(i)] \in 0 .. n
      BY <1>1, <1>5 DEF Ordered
    <2>4. \A j, k \in 1 .. Len(h.sorted) :
             j < k => g.seen[Forward(h.sorted[j])] >= g.seen[Forward(h.sorted[k])]
      BY <1>1, <1>5 DEF Ordered
    <2> QED BY <1>4, <2>1, <2>2, <2>3, <2>4, TouchFacts
  <1>6. Tallied(h) => Tallied(g) /\ Queued(g) = Queued(h)
    BY <1>1, TalliedSame
  <1> QED BY <1>1, <1>2, <1>4, <1>5, <1>6 DEF Found, g

LEMMA OtherFacts ==
    ASSUME NEW side \in Sides
    PROVE  /\ Other(side) \in Sides /\ Other(Other(side)) = side /\ Other(side) # side
           /\ \A s \in Sides : s = side \/ s = Other(side)
  BY DEF Sides, Other

\* A new pair, for endpoints that have no stream yet.
LEMMA CreatePairFacts ==
    ASSUME NEW h, Well(h), NEW c \in Conns, NEW side \in Sides,
           \A i \in DOMAIN h.streams : h.streams[i].conn # c
    PROVE  Found(h, CreatePair(h, c, side), h.con_id)
  <1> DEFINE f == h.con_id
             g == CreatePair(h, c, side)
             A == NewStream(c, side, "FORWARD")
             B == NewStream(c, Other(side), "REVERSE")
             S == DOMAIN h.streams
             T == S \cup {f, f + 1}
  <1>1. /\ DOMAIN h = Fields /\ f \in Nat /\ Forward(f) = f
        /\ DOMAIN h.table = 1 .. TableSize /\ h.streams \in [S -> StreamInfo]
        /\ \A i \in S : i \in Nat /\ i < f
    BY DEF Well, Typed
  <1>2. /\ DOMAIN g = Fields /\ g.con_id = f + 2
        /\ g.streams = With(h.streams, [i \in {f, f + 1} |-> IF i = f THEN A ELSE B])
        /\ g.table = [h.table EXCEPT ![Bucket[c]] = @ \o <<f, f + 1>>]
        /\ g.sorted = <<f + 1, f>> \o h.sorted
        /\ g.seen = With(h.seen, [i \in {f} |-> 0])
    BY <1>1 DEF CreatePair, Fields
  <1> HIDE DEF g
  <1>3. f \notin S /\ f + 1 \notin S /\ f # f + 1
    BY <1>1
  <1>4. /\ DOMAIN g.streams = T
        /\ g.streams[f] = A /\ g.streams[f + 1] = B
        /\ \A i \in S : g.streams[i] = h.streams[i]
    BY <1>1, <1>2, <1>3 DEF With
  <1>5. /\ A.conn = c /\ A.side = side /\ A.direction = "FORWARD" /\ A \in StreamInfo
        /\ B.conn = c /\ B.side = Other(side) /\ B.direction = "REVERSE" /\ B \in StreamInfo
    BY OtherFacts DEF NewStream, StreamInfo
  <1>6. Reversed(f) = f + 1 /\ Reversed(f + 1) = f /\ Forward(f + 1) = f
    BY <1>1, PairFacts
  <1> HIDE DEF A, B
  <1>7. Typed(g)
    <2>1. g.streams = [i \in T |-> g.streams[i]]
      BY <1>2, <1>4 DEF With
    <2>2. \A i \in T : g.streams[i] \in StreamInfo
      BY <1>1, <1>4, <1>5
    <2>3. g.streams \in [T -> StreamInfo]
      BY <2>1, <2>2
    <2>4. DOMAIN g.table = 1 .. TableSize
      BY <1>1, <1>2
    <2>5. f + 2 \in Nat /\ Forward(f + 2) = f + 2
      BY <1>1 DEF Forward
    <2>6. \A i \in T : i \in Nat /\ i < f + 2
      BY <1>1
    <2> QED BY <1>2, <1>4, <2>3, <2>4, <2>5, <2>6 DEF Typed
  <1>8. Paired(g)
    <2> SUFFICES ASSUME NEW i \in T
                 PROVE  /\ Reversed(i) \in T
                        /\ g.streams[Reversed(i)].conn = g.streams[i].conn
                        /\ g.streams[Reversed(i)].side = Other(g.streams[i].side)
                        /\ g.streams[i].direction = "FORWARD" <=> i = Forward(i)
      BY <1>4 DEF Paired
    <2>1. CASE i = f
      BY <1>1, <1>4, <1>5, <1>6, <2>1
    <2>2. CASE i = f + 1
      BY <1>1, <1>3, <1>4, <1>5, <1>6, <2>2, OtherFacts
    <2>3. CASE i \in S
      <3>1. Reversed(i) \in S
        BY <2>3 DEF Well, Paired
      <3> QED BY <1>4, <2>3, <3>1 DEF Well, Paired
    <2> QED BY <2>1, <2>2, <2>3
  <1>9. Distinct(g)
    <2> SUFFICES ASSUME NEW i \in T, NEW j \in T,
                        g.streams[i].conn = g.streams[j].conn,
                        g.streams[i].side = g.streams[j].side
                 PROVE  i = j
      BY <1>4 DEF Distinct
    <2>1. \A x \in S : g.streams[x].conn # c
      BY <1>4
    <2>2. CASE i \in S /\ j \in S
      BY <1>4, <2>2 DEF Well, Distinct
    <2>3. CASE i \in {f, f + 1} /\ j \in {f, f + 1}
      BY <1>4, <1>5, <2>3, OtherFacts
    <2> QED BY <1>4, <1>5, <2>1, <2>2, <2>3
  <1>10. Lists(g.sorted, T) /\ InFront({f, f + 1}, g.sorted, h.sorted)
    <2>1. Lists(h.sorted, S)
      BY DEF Well, Listed
    <2>2. ASSUME NEW y, y = f + 1
          PROVE  /\ Lists(<<y, f>> \o h.sorted, S \cup {f, y})
                 /\ InFront({f, y}, <<y, f>> \o h.sorted, h.sorted)
      <3>1. f \notin S /\ y \notin S /\ f # y
        BY <1>3, <2>2
      <3> HIDE DEF f, S
      <3> QED BY <2>1, <3>1, AddPair
    <2> QED BY <1>2, <2>2
  <1>11. ASSUME NEW k \in 1 .. TableSize PROVE Lists(g.table[k], InBucket(g, k))
    <2>1. Lists(h.table[k], InBucket(h, k))
      BY DEF Well, Listed
    <2>2. CASE k = Bucket[c]
      <3>1. InBucket(g, k) = InBucket(h, k) \cup {f, f + 1}
        BY <1>4, <1>5, <2>2 DEF InBucket
      <3>2. f \notin InBucket(h, k) /\ f + 1 \notin InBucket(h, k)
        BY <1>3 DEF InBucket
      <3>3. g.table[k] = h.table[k] \o <<f, f + 1>>
        BY <1>1, <1>2, <2>2
      <3>4. ASSUME NEW y, y = f + 1
            PROVE  Lists(h.table[k] \o <<f, y>>, InBucket(h, k) \cup {f, y})
        <4>1. f \notin InBucket(h, k) /\ y \notin InBucket(h, k) /\ f # y
          BY <1>3, <3>2, <3>4
        <4> HIDE DEF f
        <4> QED BY <2>1, <4>1, AddPair
      <3> QED BY <3>1, <3>3, <3>4
    <2>3. CASE k # Bucket[c]
      <3>1. InBucket(g, k) = InBucket(h, k)
        BY <1>4, <1>5, <2>3 DEF InBucket
      <3>2. g.table[k] = h.table[k]
        BY <1>1, <1>2, <2>3
      <3> QED BY <2>1, <3>1, <3>2
    <2> QED BY <2>2, <2>3
  <1>12. Well(g)
    BY <1>4, <1>7, <1>8, <1>9, <1>10, <1>11 DEF Well, Listed
  <1>13. ASSUME NEW n \in Nat, Ordered(h, n) PROVE Ordered(Touch(g, f, n + 1), n + 1)
    <2>1. /\ DOMAIN g.seen = {f} \cup DOMAIN h.seen /\ g.seen[f] = 0
          /\ \A x \in DOMAIN h.seen : x # f => g.seen[x] = h.seen[x]
      BY <1>2 DEF With
    <2>2. ASSUME NEW i \in S PROVE Forward(i) # f
      BY <1>1, PairBelow, PairFacts
    <2>3. \A i \in S : /\ Forward(i) \in DOMAIN h.seen /\ h.seen[Forward(i)] \in 0 .. n
                       /\ g.seen[Forward(i)] = h.seen[Forward(i)]
      BY <1>13, <2>1, <2>2 DEF Ordered
    <2>4. \A i \in T : Forward(i) \in DOMAIN g.seen /\ g.seen[Forward(i)] \in 0 .. n
      <3>1. 0 \in 0 .. n
        OBVIOUS
      <3> QED BY <1>1, <1>6, <2>1, <2>3, <3>1
    <2>5. \A j \in 1 .. Len(h.sorted) : h.sorted[j] \in S
      BY DEF Well, Listed, Lists
    <2>6. \A j, k \in 1 .. Len(h.sorted) :
             j < k => g.seen[Forward(h.sorted[j])] >= g.seen[Forward(h.sorted[k])]
      BY <1>13, <2>3, <2>5 DEF Ordered
    <2>7. InFront({f, Reversed(f)}, g.sorted, h.sorted) /\ f \in DOMAIN g.streams
      BY <1>4, <1>6, <1>10
    <2> QED BY <1>4, <1>12, <2>4, <2>6, <2>7, TouchFacts
  <1>14. Tallied(h) => Tallied(g) /\ Queued(g) = Queued(h)
    BY CreatePairTallied DEF g
  <1> QED BY <1>4, <1>12, <1>13, <1>14 DEF Found, g

\* A stream of the endpoints is found in their bucket, if there is one.
LEMMA FindStreamFacts ==
    ASSUME NEW h, Well(h), NEW c \in Conns, NEW side \in Sides
    PROVE  LET r == FindStream(h, c, side)
           IN  Found(h, r.h, r.id)
  <1> DEFINE k == Bucket[c]
             S(s) == {i \in DOMAIN h.streams : h.streams[i].conn = c /\ h.streams[i].side = s}
  <1>1. k \in 1 .. TableSize
    BY TableAssumption
  <1>2. Lists(h.table[k], InBucket(h, k)) /\ h.table[k] \in Seq(InBucket(h, k))
    BY <1>1 DEF Well, Listed, Lists
  <1>3. ASSUME NEW s
        PROVE  \/ IndexOf(h, c, s) = 0 /\ \A i \in 1 .. Len(h.table[k]) : h.table[k][i] \notin S(s)
               \/ h.table[k][IndexOf(h, c, s)] \in S(s) /\ IndexOf(h, c, s) # 0
    BY <1>2, FirstInFacts DEF IndexOf
  <1> DEFINE n == IndexOf(h, c, side)
             r == IndexOf(h, c, Other(side))
             id  == h.table[k][n]
             rev == h.table[k][r]
  <1>4. CASE n # 0
    <2>1. id \in DOMAIN h.streams
      BY <1>3, <1>4
    <2>2. FindStream(h, c, side) = [h |-> MoveToFront(h, id), id |-> id]
      BY <1>4 DEF FindStream
    <2> HIDE DEF id
    <2> QED BY <2>1, <2>2, MoveToFrontFacts
  <1>5. CASE n = 0 /\ r # 0
    <2>1. rev \in DOMAIN h.streams
      BY <1>3, <1>5
    <2>2. FindStream(h, c, side) = [h |-> MoveToFront(h, rev), id |-> Reversed(rev)]
      BY <1>5 DEF FindStream
    <2> HIDE DEF rev
    <2> QED BY <2>1, <2>2, MoveToFrontFacts
  <1>6. CASE n = 0 /\ r = 0
    <2>1. ASSUME NEW i \in DOMAIN h.streams, h.streams[i].conn = c PROVE FALSE
      <3>1. i \in InBucket(h, k)
        BY <2>1 DEF InBucket
      <3>2. PICK j \in 1 .. Len(h.table[k]) : h.table[k][j] = i
        BY <1>2, <3>1 DEF Lists
      <3>3. i \notin S(side) /\ i \notin S(Other(side))
        BY <1>3, <1>6, <3>2
      <3>4. h.streams[i].side \in Sides
        BY DEF Well, Typed, StreamInfo
      <3> QED BY <2>1, <3>3, <3>4, OtherFacts
    <2>2. FindStream(h, c, side) = [h |-> CreatePair(h, c, side), id |-> h.con_id]
      BY <1>6 DEF FindStream
    <2>3. Found(h, CreatePair(h, c, side), h.con_id)
      BY <2>1, CreatePairFacts
    <2> QED BY <2>2, <2>3
  <1> QED BY <1>4, <1>5, <1>6
-----------------------------------------------------------------------------
(* TCPHashTable_process.                                                    *)

LEMMA EstablishSame ==
    ASSUME NEW h, Well(h), NEW id \in DOMAIN h.streams, NEW p
    PROVE  SameTable(h, Establish(h, id, p))
  <1> DEFINE s == h.tcp[id]
             t == IF h.streams[id].conn \in Udp THEN s
                  ELSE [s EXCEPT !.next_seq = IF p.syn THEN U32(p.seq + 1) ELSE p.seq]
             a == [h EXCEPT !.tcp[id] = [t EXCEPT !.state = "JUST_EST"]]
             b == CallbackEst(a, id)
             c == [b EXCEPT !.tcp[id].state = "DATA"]
  <1>1. Establish(h, id, p) = IF s.state # "NONE" THEN h ELSE c
    BY DEF Establish
  <1> HIDE DEF t
  <1>2. SameTable(h, a) /\ id \in DOMAIN a.streams
    BY DEF SameTable, Well, Typed, Fields
  <1>3. Well(a)
    BY <1>2, SameTableWell
  <1> HIDE DEF a
  <1>4. SameTable(a, b) /\ Well(b)
    BY <1>2, <1>3, CallbackEstSame, SameTableWell
  <1> HIDE DEF b
  <1>5. SameTable(b, c)
    BY <1>4, StateSame
  <1> HIDE DEF c
  <1>6. SameTable(h, c)
    BY <1>2, <1>4, <1>5, SameTableTransitive
  <1> QED BY <1>1, <1>6, SameTableReflexive

-----------------------------------------------------------------------------
(* What a packet does to the scanner's connections.                         *)

\* The connection of id is open, or it is new and id is its first stream.
Ready(h, id) ==
    \/ Scanned(h)
    \/ /\ ScannedBut(h, {Forward(id)})
       /\ Forward(id) \in DOMAIN h.py /\ h.py[Forward(id)] = NoMaps
       /\ h.tcp[id].state = "NONE" /\ ~h.streams[id].object

LEMMA FindStreamReady ==
    ASSUME NEW h, Well(h), Tallied(h), Scanned(h), NEW c \in Conns, NEW side \in Sides
    PROVE  LET r == FindStream(h, c, side)
           IN  Ready(r.h, r.id)
  <1> DEFINE r == FindStream(h, c, side)
             f == h.con_id
             g == CreatePair(h, c, side)
  <1>1. ASSUME NEW i PROVE Scanned(MoveToFront(h, i))
    <2> DEFINE e == MoveToFront(h, i)
    <2>1. e.py = h.py /\ e.streams = h.streams
      BY DEF MoveToFront, Well, Typed, Fields
    <2> HIDE DEF e
    <2> QED BY <2>1, ScannedSame DEF e
  <1>2. Ready(g, f)
    <2> DEFINE A == NewStream(c, side, "FORWARD")
               B == NewStream(c, Other(side), "REVERSE")
               S == DOMAIN h.streams
    <2>1. /\ DOMAIN h = Fields /\ f \in Nat /\ Forward(f) = f
          /\ \A i \in S : i \in Nat /\ i < f
      BY DEF Well, Typed
    <2>2. /\ g.streams = With(h.streams, [i \in {f, f + 1} |-> IF i = f THEN A ELSE B])
          /\ g.tcp = With(h.tcp, [i \in {f, f + 1} |-> NewTcp])
          /\ g.py = With(h.py, [i \in {f} |-> NoMaps])
      BY <2>1 DEF CreatePair, Fields
    <2> HIDE DEF g
    <2>3. f \notin S /\ f + 1 \notin S /\ f # f + 1
      BY <2>1
    <2>4. /\ DOMAIN g.streams = S \cup {f, f + 1}
          /\ g.streams[f] = A /\ g.streams[f + 1] = B
          /\ \A i \in S : g.streams[i] = h.streams[i]
      BY <2>2, <2>3 DEF With
    <2>5. /\ DOMAIN g.py = DOMAIN h.py \cup {f} /\ g.py[f] = NoMaps
          /\ \A i \in DOMAIN h.py : i # f => g.py[i] = h.py[i]
      BY <2>2 DEF With
    <2>6. g.tcp[f] = NewTcp /\ NewTcp.state = "NONE"
      BY <2>2 DEF With, NewTcp
    <2>7. A.direction = "FORWARD" /\ A.object = FALSE /\ B.direction = "REVERSE"
      BY DEF NewStream
    <2> HIDE DEF A, B
    <2>8. Forwards(g) = Forwards(h) \cup {f} /\ f \notin Forwards(h)
      BY <2>3, <2>4, <2>7 DEF Forwards
    <2>9. \A i \in Forwards(h) : i # f /\ g.streams[i] = h.streams[i]
      BY <2>3, <2>4 DEF Forwards
    <2>10. ScannedBut(g, {f})
      BY <2>1, <2>5, <2>8, <2>9 DEF Scanned, ScannedBut
    <2> QED BY <2>1, <2>4, <2>5, <2>6, <2>7, <2>10 DEF Ready
  <1>3. \/ \E i : r.h = MoveToFront(h, i)
        \/ r.h = g /\ r.id = f
    BY DEF FindStream
  <1> HIDE DEF r, g
  <1> QED BY <1>1, <1>2, <1>3 DEF Ready, r

\* The first packet of a stream establishes its connection.
LEMMA EstablishScanned ==
    ASSUME NEW h, Well(h), Tallied(h), NEW id \in DOMAIN h.streams, Ready(h, id), NEW p
    PROVE  Scanned(Establish(h, id, p))
  <1> DEFINE s == h.tcp[id]
             t == IF h.streams[id].conn \in Udp THEN s
                  ELSE [s EXCEPT !.next_seq = IF p.syn THEN U32(p.seq + 1) ELSE p.seq]
             u == [t EXCEPT !.state = "JUST_EST"]
             a == [h EXCEPT !.tcp[id] = u]
             b == CallbackEst(a, id)
             e == [b EXCEPT !.tcp[id].state = "DATA"]
             f == Forward(id)
             v == [kind |-> "est", urn |-> <<a.streams[id].conn, a.streams[id].side>>]
             o == [a EXCEPT !.streams[f].object     = TRUE,
                            !.streams[f + 1].object = TRUE,
                            !.objects = @ + 1]
             g == IF a.streams[id].object THEN a ELSE o
             con == h.py[f]
  <1>1. Establish(h, id, p) = IF s.state # "NONE" THEN h ELSE e
    BY DEF Establish
  <1>2. s.state # "NONE" => Scanned(h)
    BY DEF Ready
  <1>3. f \in Forwards(h) /\ f \in DOMAIN h.streams
    BY ForwardAllocated DEF Forwards
  <1> HIDE DEF u
  <1>4. DOMAIN a = Fields /\ a.py = h.py /\ a.streams = h.streams /\ SameTable(h, a) /\ Well(a)
    <2>1. DOMAIN a = Fields /\ a.py = h.py /\ a.streams = h.streams
      BY DEF Well, Typed, Fields
    <2>2. SameTable(h, a)
      BY DEF SameTable, Well, Typed, Fields
    <2> HIDE DEF a
    <2> QED BY <2>1, <2>2, SameTableWell
  <1>5. b = Tell(g, id, v)
    BY DEF CallbackEst
  <1>6. SameTable(a, b) /\ Forwards(b) = Forwards(h)
    <2>1. SameTable(a, b)
      BY <1>4, CallbackEstSame
    <2> HIDE DEF a, b
    <2> QED BY <1>4, <2>1, SameTableWell
  <1> HIDE DEF a
  <1>7. /\ ScannedBut(h, {f}) /\ f \in DOMAIN h.py /\ (Open(con) \/ con = NoMaps)
        /\ ~h.streams[id].object => con = NoMaps
    <2>1. CASE Scanned(h)
      <3>1. ScannedBut(h, {f}) /\ f \in DOMAIN h.py /\ Open(con) /\ h.streams[f].object
        BY <1>3, <2>1, ScannedAll
      <3>2. h.streams[id].object
        <4>1. id \in Nat /\ h.streams[Reversed(id)].object = h.streams[id].object
          BY DEF Well, Typed, Tallied, ObjectsTallied
        <4>2. f = id \/ f = Reversed(id)
          BY <4>1, PairFacts
        <4> QED BY <3>1, <4>1, <4>2
      <3> QED BY <3>1, <3>2
    <2>2. CASE ~Scanned(h)
      BY <2>2 DEF Ready
    <2> QED BY <2>1, <2>2
  <1>8. DOMAIN g = Fields /\ g.py = h.py
    BY <1>4 DEF Fields
  <1>9. /\ b.streams = g.streams
        /\ b.py = [h.py EXCEPT ![f] = PyCallback(con, id - f, v)]
    <2> HIDE DEF g, v
    <2> QED BY <1>5, <1>8 DEF Tell, Fields
  <1>10. \A i \in DOMAIN h.streams :
            g.streams[i].object = IF h.streams[id].object THEN h.streams[i].object
                                  ELSE IF i \in {f, f + 1} THEN TRUE ELSE h.streams[i].object
    <2>1. h.streams \in [DOMAIN h.streams -> StreamInfo] /\ f + 1 \in DOMAIN h.streams
      <3>1. id \in Nat /\ Reversed(id) \in DOMAIN h.streams
        BY DEF Well, Typed, Paired
      <3>2. {id, Reversed(id)} = {f, f + 1}
        BY <3>1, PairFacts
      <3>3. f + 1 = id \/ f + 1 = Reversed(id)
        BY <3>2
      <3>4. f + 1 \in DOMAIN h.streams
        BY <3>1, <3>3
      <3>5. h.streams \in [DOMAIN h.streams -> StreamInfo]
        BY DEF Well, Typed
      <3> QED BY <3>4, <3>5
    <2>2. PICK n : n = [h.streams EXCEPT ![f].object = TRUE, ![f + 1].object = TRUE]
      OBVIOUS
    <2>3. ObjectsAre(DOMAIN h.streams, h.streams, n, f, f + 1, TRUE)
      BY <1>3, <2>1, <2>2, ObjectsValue
    <2>4. o.streams = [h.streams EXCEPT ![f].object = TRUE, ![f + 1].object = TRUE]
      BY <1>4 DEF Fields
    <2>5. g.streams = IF h.streams[id].object THEN h.streams ELSE n
      BY <1>4, <2>2, <2>4
    <2> HIDE DEF g
    <2> QED BY <2>3, <2>5 DEF ObjectsAre
  <1> HIDE DEF g, b
  <1>11. Open(PyCallback(con, id - f, v))
    <2>1. v.kind = "est"
      OBVIOUS
    <2> HIDE DEF v, con
    <2>2. PyCallback(con, id - f, v) = OnEst(con, v)
      BY <2>1 DEF PyCallback
    <2>3. CASE Open(con)
      BY <2>2, <2>3 DEF OnEst, Open
    <2>4. CASE con = NoMaps
      <3>1. NoMaps.state = "none" /\ NoMaps.jobs = <<>>
            /\ DOMAIN NoMaps = {"state", "urn", "map", "jobs"}
        BY DEF NoMaps
      <3>2. OnEst(con, v) = [NoMaps EXCEPT !.state = "open", !.urn = v.urn]
        BY <2>4, <3>1 DEF OnEst
      <3> QED BY <2>2, <3>1, <3>2 DEF Open
    <2> QED BY <1>7, <2>3, <2>4
  <1> HIDE DEF v, con
  <1>12. b.streams[f].object
    <2>1. CASE h.streams[id].object
      <3>1. id \in Nat /\ h.streams[Reversed(id)].object = h.streams[id].object
        BY DEF Well, Typed, Tallied, ObjectsTallied
      <3>2. f = id \/ f = Reversed(id)
        BY <3>1, PairFacts
      <3> QED BY <1>3, <1>9, <1>10, <2>1, <3>1, <3>2
    <2>2. CASE ~h.streams[id].object
      BY <1>3, <1>9, <1>10, <2>2
    <2> QED BY <2>1, <2>2
  <1>13. \A i \in Forwards(h) : i # f => b.streams[i].object = h.streams[i].object
    <2>1. f + 1 \notin Forwards(h)
      <3>1. f \in Nat /\ f = Forward(f)
        BY <1>3 DEF Forwards, Well, Typed, Paired
      <3>2. Forward(f + 1) = f /\ f # f + 1
        BY <3>1, PairFacts
      <3> QED BY <3>2 DEF Forwards, Well, Paired
    <2>2. \A i \in Forwards(h) : i # f => i \in DOMAIN h.streams /\ i \notin {f, f + 1}
      BY <2>1 DEF Forwards
    <2> QED BY <1>9, <1>10, <2>2
  <1>14. Open(b.py[f]) /\ f \in DOMAIN b.py /\ OnlyPair(h, b, f)
    BY <1>6, <1>7, <1>9, <1>11, <1>13 DEF OnlyPair
  <1>15. Scanned(b)
    <2>1. ScannedBut(b, {f})
      BY <1>7, <1>14, ScannedPair
    <2> QED BY <1>3, <1>6, <1>12, <1>14, <2>1, ScannedAll
  <1>16. e.py = b.py /\ e.streams = b.streams
    <2>1. DOMAIN b = Fields
      BY <1>6 DEF SameTable
    <2> QED BY <2>1 DEF Fields
  <1> HIDE DEF e
  <1> QED BY <1>1, <1>2, <1>15, <1>16, ScannedSame

\* A packet leaves the table as it should be, its connection in front.
LEMMA ProcessedFacts ==
    ASSUME NEW h, Well(h), NEW n \in Nat, Ordered(h, n), Tallied(h), Scanned(h),
           NEW c \in Conns, NEW side \in Sides, NEW p \in Segments
    PROVE  LET g == Processed(h, c, side, p, n + 1)
           IN  Well(g) /\ Ordered(g, n + 1) /\ Tallied(g) /\ Scanned(g)
  <1> DEFINE a     == Forget(h)
             found == FindStream(a, c, side)
             id    == found.id
             t     == Touch(found.h, id, n + 1)
             e     == Establish(t, id, p)
             added == Add(e, id, p, IpId(n + 1))
             l     == EnforceLimits(added)
  <1>1. Processed(h, c, side, p, n + 1) = CountPacket(l, IpId(n + 1))
    BY DEF Processed
  <1>2. Well(a) /\ Ordered(a, n) /\ Tallied(a) /\ Scanned(a)
    BY ForgetFacts
  <1> HIDE DEF a
  <1>3. Found(a, found.h, id) /\ Ready(found.h, id)
    BY <1>2, FindStreamFacts, FindStreamReady
  <1> HIDE DEF found
  <1>4. /\ Ordered(t, n + 1) /\ Well(found.h) /\ id \in DOMAIN found.h.streams
        /\ Tallied(found.h)
    BY <1>2, <1>3 DEF Found
  <1>5. Well(t) /\ id \in DOMAIN t.streams /\ Tallied(t) /\ Ready(t, id)
    <2>1. /\ DOMAIN t = Fields /\ t.table = found.h.table /\ t.sorted = found.h.sorted
          /\ t.con_id = found.h.con_id /\ t.streams = found.h.streams
          /\ t.tcp = found.h.tcp /\ t.outstanding = found.h.outstanding
          /\ t.objects = found.h.objects /\ t.total_streams = found.h.total_streams
          /\ t.py = found.h.py
      BY <1>4 DEF Touch, Well, Typed, Fields
    <2> HIDE DEF t
    <2>2. PICK r : r = found.h
      OBVIOUS
    <2>3. Tallied(t)
      BY <1>4, <2>1, <2>2, TalliedSame
    <2>4. Ready(t, id)
      BY <1>3, <2>1, <2>2, ScannedSame DEF Ready
    <2> QED BY <1>4, <2>1, <2>3, <2>4, WellSame
  <1> HIDE DEF t, id
  <1>6. Well(e) /\ Ordered(e, n + 1) /\ Tallied(e) /\ id \in DOMAIN e.streams /\ Scanned(e)
    <2>1. SameTable(t, e) /\ Tallied(e) /\ Scanned(e)
      BY <1>5, EstablishSame, EstablishTallied, EstablishScanned
    <2> HIDE DEF e
    <2> QED BY <1>4, <1>5, <2>1, SameTableWell DEF SameTable
  <1> HIDE DEF e
  <1>7. Well(added) /\ Ordered(added, n + 1) /\ Tallied(added) /\ Scanned(added)
    <2>1. SameTable(e, added)
      BY <1>6, RunSame DEF Add
    <2>2. Tallied(added) /\ Scanned(added)
      BY <1>6, AddTallied
    <2> HIDE DEF added
    <2> QED BY <1>6, <2>1, <2>2, SameTableWell
  <1> HIDE DEF added
  <1>8. Keeps(added, l)
    BY <1>7, EnforceLimitsKeeps
  <1> HIDE DEF l
  <1>9. Well(l) /\ Keeps(l, CountPacket(l, IpId(n + 1)))
    BY <1>8, CountPacketKeeps DEF Keeps
  <1> QED BY <1>1, <1>7, <1>8, <1>9 DEF Keeps

-----------------------------------------------------------------------------
(* The theorems.                                                            *)

TableInv ==
    /\ Well(hash)
    /\ Ordered(hash, packets)
    /\ packets \in Nat
    /\ Tallied(hash)
    /\ Scanned(hash)
    /\ closed => Forwards(hash) = {}

LEMMA TableInit == Init => TableInv
  <1> SUFFICES ASSUME Init PROVE TableInv
    OBVIOUS
  <1>1. /\ DOMAIN hash = Fields /\ hash.con_id = 0 /\ hash.sorted = <<>>
        /\ hash.streams = <<>> /\ hash.table = [k \in 1 .. TableSize |-> <<>>]
        /\ hash.tcp = <<>> /\ hash.total_streams = 0 /\ hash.outstanding = 0
        /\ hash.objects = 0 /\ packets = 0 /\ closed = FALSE /\ hash.py = <<>>
    BY DEF Init, Fields
  <1>2. DOMAIN hash.streams = {}
    BY <1>1
  <1>3. Typed(hash)
    <2>1. Forward(0) = 0
      BY DEF Forward
    <2>2. hash.streams \in [{} -> StreamInfo]
      BY <1>1
    <2> QED BY <1>1, <1>2, <2>1, <2>2 DEF Typed
  <1>4. Paired(hash) /\ Distinct(hash)
    BY <1>2 DEF Paired, Distinct
  <1>5. Lists(<<>>, {})
    BY DEF Lists
  <1>6. \A k : InBucket(hash, k) = {}
    BY <1>2 DEF InBucket
  <1>7. Listed(hash)
    BY <1>1, <1>2, <1>5, <1>6 DEF Listed
  <1>8. Ordered(hash, packets)
    BY <1>1, <1>2 DEF Ordered
  <1>9. Tallied(hash)
    <2>1. DOMAIN hash.tcp = {}
      BY <1>1
    <2>2. Queued(hash) = {}
      BY <2>1 DEF Queued
    <2>3. WithObject(hash) = {}
      BY <1>2 DEF WithObject, Forwards
    <2>4. IsFiniteSet({}) /\ Cardinality({}) = 0
      BY FS_EmptySet
    <2> QED BY <1>1, <1>2, <2>1, <2>2, <2>3, <2>4
            DEF Tallied, StreamsTallied, QueuesTallied, ObjectsTallied
  <1>10. Scanned(hash)
    <2>1. DOMAIN hash.py = {} /\ Forwards(hash) = {}
      BY <1>1, <1>2 DEF Forwards
    <2> QED BY <2>1 DEF Scanned, ScannedBut
  <1> QED BY <1>1, <1>3, <1>4, <1>7, <1>8, <1>9, <1>10 DEF TableInv, Well

LEMMA TableStep == TableInv /\ [Next]_vars => TableInv'
  <1> SUFFICES ASSUME TableInv, [Next]_vars PROVE TableInv'
    OBVIOUS
  <1> USE DEF TableInv
  <1>1. CASE UNCHANGED vars
    BY <1>1 DEF vars
  <1>2. ASSUME NEW c \in Conns, NEW side \in Sides, NEW p \in Segments, Process(c, side, p)
        PROVE  TableInv'
    <2>1. packets' = packets + 1 /\ packets' \in Nat /\ ~closed'
      BY <1>2 DEF Process
    <2>2. hash' = Processed(hash, c, side, p, packets + 1)
      BY <1>2 DEF Process
    <2>3. Well(hash') /\ Ordered(hash', packets + 1) /\ Tallied(hash') /\ Scanned(hash')
      BY <2>2, ProcessedFacts
    <2> QED BY <2>1, <2>3
  <1>3. CASE FlushTable
    <2>1. hash' = FlushBuckets(Forget(hash)) /\ packets' = packets /\ ~closed'
      BY <1>3 DEF FlushTable
    <2>2. /\ Well(Forget(hash)) /\ Ordered(Forget(hash), packets)
          /\ Tallied(Forget(hash)) /\ Scanned(Forget(hash))
      BY ForgetFacts
    <2>3. Keeps(Forget(hash), hash')
      BY <2>1, <2>2, FlushBucketsKeeps
    <2> QED BY <2>1, <2>2, <2>3 DEF Keeps
  <1>4. CASE Dealloc
    <2>1. hash' = FreeStreams(Forget(hash)) /\ packets' = packets
      BY <1>4 DEF Dealloc
    <2>2. /\ Well(Forget(hash)) /\ Ordered(Forget(hash), packets)
          /\ Tallied(Forget(hash)) /\ Scanned(Forget(hash))
      BY ForgetFacts
    <2>3. Keeps(Forget(hash), hash') /\ Forwards(hash') = {}
      BY <2>1, <2>2, FreeStreamsKeeps
    <2> QED BY <2>1, <2>2, <2>3 DEF Keeps
  <1> QED BY <1>1, <1>2, <1>3, <1>4 DEF Next

THEOREM TableInductive == Spec => []TableInv
  BY TableInit, TableStep, PTL DEF Spec

(***************************************************************************)
(* ListsAgree for any endpoints, hash function, table size, limits and     *)
(* traffic: after every packet, flush and deallocation, the bucket lists   *)
(* and the global list of the table hold the allocated streams and nothing *)
(* else, each once, in its bucket and with its reverse, and find_stream    *)
(* has never made a second connection for the same endpoints.              *)
(***************************************************************************)
THEOREM ListsCorrect == Spec => []ListsAgree
  <1>1. TableInv => ListsAgree
    <2> SUFFICES ASSUME TableInv PROVE ListsAgree
      OBVIOUS
    <2>1. Well(hash)
      BY DEF TableInv
    <2>2. ASSUME NEW S, NEW l, Lists(l, S) PROVE ToSet(l) = S /\ IsInjective(l)
      <3>1. l \in Seq(S) /\ DOMAIN l = 1 .. Len(l)
        BY <2>2 DEF Lists
      <3>2. \A i \in 1 .. Len(l) : l[i] \in S
        BY <3>1
      <3> QED BY <2>2, <3>1, <3>2 DEF Lists, ToSet, IsInjective
    <2>3. ToSet(hash.sorted) = Live /\ IsInjective(hash.sorted)
      BY <2>1, <2>2 DEF Well, Listed, Live
    <2>4. ASSUME NEW k \in 1 .. TableSize
          PROVE  /\ ToSet(hash.table[k]) = {i \in Live : Bucket[hash.streams[i].conn] = k}
                 /\ IsInjective(hash.table[k])
      BY <2>1, <2>2 DEF Well, Listed, Live, InBucket
    <2>5. \A i \in Live : Reversed(i) \in Live
      BY <2>1 DEF Well, Paired, Live
    <2>6. \A i, j \in Live :
             (hash.streams[i].conn = hash.streams[j].conn
              /\ hash.streams[i].side = hash.streams[j].side) => i = j
      BY <2>1 DEF Well, Distinct, Live
    <2> QED BY <2>3, <2>4, <2>5, <2>6 DEF ListsAgree
  <1> QED BY <1>1, TableInductive, PTL

(***************************************************************************)
(* SortedByUse, likewise: the last forward stream of the global list,      *)
(* which expire_oldest_stream frees, belongs to the connection that has    *)
(* been quiet for longest.                                                 *)
(***************************************************************************)
THEOREM SortedCorrect == Spec => []SortedByUse
  <1>1. TableInv => SortedByUse
    BY DEF TableInv, Ordered, SortedByUse
  <1> QED BY <1>1, TableInductive, PTL

(***************************************************************************)
(* CountersExact, likewise: total_streams, outstanding_skbuffs and the     *)
(* count of dictionary pairs, which the limits are compared with, are      *)
(* exact after every packet, flush and deallocation, however many packets  *)
(* TCPStream_add delivers, pads, drops or leaves queued on the way.        *)
(***************************************************************************)
THEOREM CountersCorrect == Spec => []CountersExact
  <1>1. TableInv => CountersExact
    <2> SUFFICES ASSUME TableInv PROVE CountersExact
      OBVIOUS
    <2>1. hash.total_streams = Cardinality(Live)
      BY DEF TableInv, Tallied, StreamsTallied, Live
    <2>2. hash.outstanding = Cardinality(Queued(hash))
      BY DEF TableInv, Tallied, QueuesTallied
    <2>3. hash.objects = Cardinality({i \in Connections : hash.streams[i].object})
      BY DEF TableInv, Tallied, ObjectsTallied, WithObject, Connections
    <2> QED BY <2>1, <2>2, <2>3 DEF CountersExact
  <1> QED BY <1>1, TableInductive, PTL

(***************************************************************************)
(* ScannedOnce for any traffic, limits and hash function: the callback     *)
(* sees a connection established before its data and destroyed once, when  *)
(* its streams are freed, whether by a limit, by flush or by deallocation; *)
(* its maps are then closed and posted for scanning, if anything was put   *)
(* into them, including what pad_data delivers on the way out.             *)
(***************************************************************************)
THEOREM ScannedCorrect == Spec => []ScannedOnce
  <1>1. TableInv => ScannedOnce
    <2> SUFFICES ASSUME TableInv PROVE ScannedOnce
      OBVIOUS
    <2>1. ASSUME NEW f \in DOMAIN hash.py, f \in Live
          PROVE  hash.py[f].state = "open" /\ hash.py[f].jobs = <<>>
      <3>1. f \in Forwards(hash)
        BY <2>1 DEF TableInv, Well, Paired, Scanned, ScannedBut, Forwards, Live
      <3> QED BY <3>1 DEF TableInv, Scanned, ScannedBut, Open
    <2>2. ASSUME NEW f \in DOMAIN hash.py, f \notin Live
          PROVE  Ended(hash.py[f])
      <3>1. f \notin Forwards(hash)
        BY <2>2 DEF Forwards, Live
      <3> QED BY <3>1 DEF TableInv, Scanned, ScannedBut
    <2>3. ASSUME NEW f \in DOMAIN hash.py
          PROVE  /\ hash.py[f].state =
                      IF ~(f \notin Live) THEN "open"
                      ELSE IF HasBytes(hash.py[f]) THEN "closed" ELSE "dropped"
                 /\ hash.py[f].jobs = IF f \notin Live /\ HasBytes(hash.py[f])
                                      THEN <<0, 1>> ELSE <<>>
      <3>1. CASE f \in Live
        BY <2>1, <3>1
      <3>2. CASE f \notin Live
        BY <2>2, <3>2 DEF Ended
      <3> QED BY <3>1, <3>2
    <2> QED BY <2>3 DEF ScannedOnce
  <1> QED BY <1>1, TableInductive, PTL

(***************************************************************************)
(* NothingLeaks, likewise: once the reassembler is deallocated, no stream, *)
(* skbuff or dictionary is left, whatever was queued at that time.         *)
(***************************************************************************)
THEOREM NothingLeaksCorrect == Spec => []NothingLeaks
  <1>1. TableInv => NothingLeaks
    <2> SUFFICES ASSUME TableInv, closed
                 PROVE  hash.total_streams = 0 /\ hash.outstanding = 0 /\ hash.objects = 0
      BY DEF NothingLeaks
    <2>1. Forwards(hash) = {}
      BY DEF TableInv
    <2>2. DOMAIN hash.streams = {}
      BY <2>1, ForwardAllocated DEF TableInv
    <2>3. DOMAIN hash.tcp = {}
      BY <2>2 DEF TableInv, Tallied, QueuesTallied
    <2>4. Queued(hash) = {}
      BY <2>3 DEF Queued
    <2>5. WithObject(hash) = {}
      BY <2>1 DEF WithObject
    <2>6. Cardinality({}) = 0
      BY FS_EmptySet
    <2> QED BY <2>2, <2>4, <2>5, <2>6
            DEF TableInv, Tallied, StreamsTallied, QueuesTallied, ObjectsTallied
  <1> QED BY <1>1, TableInductive, PTL
-----------------------------------------------------------------------------
(* The limits.                                                              *)

(***************************************************************************)
(* No SYN has the last sequence number: the stream it starts would expect  *)
(* 0, and the data of that SYN, which appears to be ahead of it, would     *)
(* stay queued.                                                            *)
(***************************************************************************)
NoSynAtEnd == \A p \in Segments : p.syn => p.seq # SeqSpace - 1

\* Every second stream is a forward one.
LEMMA ForwardsHalf ==
    ASSUME NEW h, Well(h), Tallied(h)
    PROVE  /\ IsFiniteSet(Forwards(h)) /\ Cardinality(Forwards(h)) \in Nat
           /\ h.total_streams = 2 * Cardinality(Forwards(h))
  <1> DEFINE S == DOMAIN h.streams
             F == Forwards(h)
             R == S \ F
             m == [i \in F |-> i + 1]
  <1>1. IsFiniteSet(S) /\ h.total_streams = Cardinality(S)
    BY DEF Tallied, StreamsTallied
  <1>2. F \subseteq S /\ \A i \in S : i \in Nat /\ (i \in F <=> i = Forward(i))
    BY DEF Forwards, Well, Typed, Paired
  <1>3. ASSUME NEW i \in F PROVE i + 1 \in R
    <2>1. i \in S /\ i \in Nat /\ i = Forward(i)
      BY <1>2
    <2>2. Reversed(i) = i + 1 /\ Forward(i + 1) = i
      BY <2>1, PairFacts
    <2>3. i + 1 \in S
      BY <2>1, <2>2 DEF Well, Paired
    <2> QED BY <1>2, <2>1, <2>2, <2>3
  <1>4. ASSUME NEW j \in R PROVE \E i \in F : i + 1 = j
    <2>1. j \in S /\ j \in Nat /\ j # Forward(j)
      BY <1>2
    <2>2. j = Forward(j) + 1 /\ Forward(j) \in Nat
      BY <2>1, PairFacts
    <2>3. Forward(j) \in F
      BY <2>1, ForwardAllocated
    <2> QED BY <2>2, <2>3
  <1>5. S = F \cup R /\ F \cap R = {}
    BY <1>2
  <1>6. \A i \in F : i \in Nat
    BY <1>2
  <1> HIDE DEF S, F, R
  <1>7. ExistsBijection(F, R)
    <2>1. m \in [F -> R]
      BY <1>3
    <2>2. \A i, j \in F : m[i] = m[j] => i = j
      BY <1>6
    <2>3. \A j \in R : \E i \in F : m[i] = j
      BY <1>4
    <2> HIDE DEF m
    <2> QED BY <2>1, <2>2, <2>3 DEF ExistsBijection, Bijection, Injection, Surjection,
                                              IsInjective
  <1>8. IsFiniteSet(F) /\ IsFiniteSet(R)
    <2>1. F \in SUBSET S /\ R \in SUBSET S
      BY <1>5
    <2> QED BY <1>1, <2>1, FS_Subset
  <1>9. Cardinality(R) = Cardinality(F) /\ Cardinality(F) \in Nat
    BY <1>7, <1>8, FS_Bijection, FS_CardinalityType
  <1>10. /\ Cardinality(F \cup R) = Cardinality(F) + Cardinality(R) - Cardinality(F \cap R)
         /\ Cardinality({}) = 0
    BY <1>8, FS_Union, FS_EmptySet
  <1>11. Cardinality(S) = Cardinality(F) + Cardinality(R)
    <2>1. Cardinality(F \cap R) = 0
      BY <1>5, <1>10
    <2>2. Cardinality(F \cup R) = Cardinality(F) + Cardinality(R)
      BY <1>9, <1>10, <2>1
    <2> QED BY <1>5, <2>2
  <1>12. IsFiniteSet(F) /\ Cardinality(F) \in Nat /\ h.total_streams = 2 * Cardinality(F)
    BY <1>1, <1>8, <1>9, <1>11
  <1> QED BY <1>12 DEF F

\* What WithinLimits says of the table.
Limited(h) ==
    /\ 2 * Cardinality(Forwards(h)) <= MaxStreams
    /\ h.outstanding > MaxOutstanding =>
          h.outstanding - MaxOutstanding + Cardinality(Forwards(h)) <= MaxStreams \div 2

\* Freeing connections respects the limits.
LEMMA KeepsLimited ==
    ASSUME NEW h, Well(h), Tallied(h), Limited(h), NEW g, Keeps(h, g)
    PROVE  Limited(g)
  <1>1. Well(g) /\ Tallied(g) /\ Queued(g) \subseteq Queued(h) /\ Forwards(g) \subseteq Forwards(h)
    BY DEF Keeps
  <1>2. /\ IsFiniteSet(Queued(h)) /\ h.outstanding = Cardinality(Queued(h))
        /\ IsFiniteSet(Queued(g)) /\ g.outstanding = Cardinality(Queued(g))
    BY <1>1 DEF Tallied, QueuesTallied
  <1>3. g.outstanding <= h.outstanding /\ g.outstanding \in Nat /\ h.outstanding \in Nat
    BY <1>1, <1>2, FS_Subset, FS_CardinalityType
  <1>4. IsFiniteSet(Forwards(h)) /\ IsFiniteSet(Forwards(g))
    BY <1>1, ForwardsHalf
  <1>5. /\ Cardinality(Forwards(g)) <= Cardinality(Forwards(h))
        /\ Cardinality(Forwards(g)) \in Nat /\ Cardinality(Forwards(h)) \in Nat
    BY <1>1, <1>4, FS_Subset, FS_CardinalityType
  <1>6. MaxStreams \div 2 \in Nat /\ MaxStreams \in Nat /\ MaxOutstanding \in Nat
    BY LimitsAssumption
  <1>7. PICK n : n = Cardinality(Forwards(h))
    OBVIOUS
  <1>8. PICK m : m = Cardinality(Forwards(g))
    OBVIOUS
  <1>9. m <= n /\ m \in Nat /\ n \in Nat /\ 2 * n <= MaxStreams
        /\ (h.outstanding > MaxOutstanding => h.outstanding - MaxOutstanding + n <= MaxStreams \div 2)
    BY <1>5, <1>7, <1>8 DEF Limited
  <1>10. PICK k : k = MaxStreams \div 2
    OBVIOUS
  <1>11. /\ 2 * m <= MaxStreams
         /\ g.outstanding > MaxOutstanding => g.outstanding - MaxOutstanding + m <= k
    BY <1>3, <1>6, <1>9, <1>10
  <1> QED BY <1>8, <1>10, <1>11 DEF Limited

\* expire_oldest_stream frees a connection if there is one.
LEMMA ExpireOldestFrees ==
    ASSUME NEW h, Well(h), Forwards(h) # {}
    PROVE  \E f \in Forwards(h) : Forwards(ExpireOldestStream(h)) = Forwards(h) \ {f}
  <1> DEFINE n == SelectLastInSeq(h.sorted, LAMBDA i : i \in Forwards(h))
  <1>1. h.sorted \in Seq(DOMAIN h.streams)
    BY DEF Well, Listed, Lists
  <1>2. \/ n = 0 /\ \A i \in 1 .. Len(h.sorted) : h.sorted[i] \notin Forwards(h)
        \/ n \in 1 .. Len(h.sorted) /\ h.sorted[n] \in Forwards(h)
    BY <1>1, LastInFacts
  <1> HIDE DEF n
  <1>3. PICK x \in Forwards(h) : TRUE
    OBVIOUS
  <1>4. PICK j \in 1 .. Len(h.sorted) : h.sorted[j] = x
    BY <1>3 DEF Forwards, Well, Listed, Lists
  <1>5. n # 0 /\ h.sorted[n] \in Forwards(h)
    <2>1. Len(h.sorted) \in Nat
      BY <1>1
    <2> QED BY <1>2, <1>3, <1>4, <2>1
  <1>6. ExpireOldestStream(h) = FlushStream(h, h.sorted[n])
    BY <1>5 DEF ExpireOldestStream, n
  <1> QED BY <1>5, <1>6, FlushStreamKeeps

\* One more connection, or one more packet, and the limits are enforced.
LEMMA EnforceLimited ==
    ASSUME NEW h, Well(h), Tallied(h), Forwards(h) # {}, NEW o \in Nat, NEW n \in Nat,
           2 * n <= MaxStreams,
           o > MaxOutstanding => o - MaxOutstanding + n <= MaxStreams \div 2,
           \/ Cardinality(Forwards(h)) = n /\ h.outstanding <= o + 1
           \/ Cardinality(Forwards(h)) = n + 1 /\ h.outstanding <= o
    PROVE  Limited(EnforceLimits(h))
  <1> DEFINE g == EnforceLimits(h)
             F == Cardinality(Forwards(h))
             G == Cardinality(Forwards(g))
             k == MaxStreams \div 2
  <1>1. /\ IsFiniteSet(Forwards(h)) /\ F \in Nat /\ h.total_streams = 2 * F
        /\ h.outstanding \in Nat
    <2>1. IsFiniteSet(Queued(h)) /\ h.outstanding = Cardinality(Queued(h))
      BY DEF Tallied, QueuesTallied
    <2> QED BY <2>1, ForwardsHalf, FS_CardinalityType
  <1>2. MaxStreams \in Nat /\ MaxOutstanding \in Nat /\ k \in Nat /\ 2 * k <= MaxStreams
        /\ MaxStreams <= 2 * k + 1
    BY LimitsAssumption
  <1>3. CASE ~(h.total_streams > MaxStreams \/ h.outstanding > MaxOutstanding)
    <2>1. g = h
      BY <1>3 DEF EnforceLimits
    <2>2. h.total_streams <= MaxStreams /\ ~(h.outstanding > MaxOutstanding)
      BY <1>1, <1>2, <1>3
    <2> QED BY <1>1, <2>1, <2>2 DEF Limited
  <1>4. CASE h.total_streams > MaxStreams \/ h.outstanding > MaxOutstanding
    <2>1. g = ExpireOldestStream(h)
      BY <1>4 DEF EnforceLimits
    <2>2. Keeps(h, g)
      BY <2>1, ExpireOldestKeeps
    <2>3. PICK f \in Forwards(h) : Forwards(g) = Forwards(h) \ {f}
      BY <2>1, ExpireOldestFrees
    <2> HIDE DEF g
    <2>4. G = F - 1 /\ G \in Nat
      <3>1. IsFiniteSet(Forwards(g)) /\ Cardinality(Forwards(h) \ {f}) = F - 1
        BY <1>1, <2>3, FS_RemoveElement
      <3> QED BY <2>3, <3>1, FS_CardinalityType
    <2>5. g.outstanding <= h.outstanding /\ g.outstanding \in Nat
      <3>1. Tallied(g) /\ Queued(g) \subseteq Queued(h)
        BY <2>2 DEF Keeps
      <3>2. /\ IsFiniteSet(Queued(h)) /\ h.outstanding = Cardinality(Queued(h))
            /\ IsFiniteSet(Queued(g)) /\ g.outstanding = Cardinality(Queued(g))
        BY <3>1 DEF Tallied, QueuesTallied
      <3> QED BY <3>1, <3>2, FS_Subset, FS_CardinalityType
    <2>6. \/ F = n /\ h.outstanding <= o + 1
          \/ F = n + 1 /\ h.outstanding <= o
      OBVIOUS
    <2>7. o > MaxOutstanding => o - MaxOutstanding + n <= k
      OBVIOUS
    <2> HIDE DEF F, G, k
    <2>8. 2 * G <= MaxStreams /\ n <= k
      BY <1>1, <1>2, <2>4, <2>6
    <2>9. g.outstanding > MaxOutstanding => g.outstanding - MaxOutstanding + G <= k
      <3> SUFFICES ASSUME g.outstanding > MaxOutstanding
                   PROVE  g.outstanding - MaxOutstanding + G <= k
        OBVIOUS
      <3>1. PICK x : x = g.outstanding
        OBVIOUS
      <3>2. PICK y : y = h.outstanding
        OBVIOUS
      <3>3. x \in Nat /\ y \in Nat /\ x <= y /\ x > MaxOutstanding
        BY <1>1, <2>5, <3>1, <3>2
      <3>4. CASE F = n /\ y <= o + 1
        <4>1. x <= o + 1 /\ G = n - 1 /\ n \in Nat
          BY <2>4, <3>3, <3>4
        <4>2. CASE o > MaxOutstanding
          BY <1>2, <2>7, <3>1, <3>3, <4>1, <4>2
        <4>3. CASE ~(o > MaxOutstanding)
          <5>1. x <= MaxOutstanding + 1
            BY <1>2, <3>3, <4>1, <4>3
          <5> QED BY <1>2, <2>8, <3>1, <3>3, <4>1, <5>1
        <4> QED BY <4>2, <4>3
      <3>5. CASE F = n + 1 /\ y <= o
        BY <1>2, <2>4, <2>7, <3>1, <3>3, <3>5
      <3> QED BY <2>6, <3>2, <3>4, <3>5
    <2> QED BY <2>8, <2>9 DEF Limited, g, G, k
  <1> QED BY <1>3, <1>4
\* The first packet of a new stream is delivered, not queued.
DrainFirst(r, k, s) == IF k = 0 THEN s = r ELSE Sound(s) /\ s.queue = <<>>

DrainOne == INSTANCE Iteration WITH Step <- DrainStep, Holds <- DrainFirst

LEMMA DrainOneEmpties ==
    ASSUME NEW r, Sound(r), Len(r.queue) = 1, HasData(r)
    PROVE  LET s == Repeat(DrainBody, r, 1) IN Sound(s) /\ s.queue = <<>>
  <1>1. Repeat(DrainBody, r, 1) = DrainOne!Iterate(r, r, 1)
    BY DEF Repeat, DrainOne!Iterate, DrainStep
  <1>2. DrainFirst(r, 0, r)
    BY DEF DrainFirst
  <1>3. Sound(DrainBody(r)) /\ DrainBody(r).queue = <<>>
    <2>1. r.queue \in Seq(PacketType) /\ r.queue # <<>>
      <3>1. ASSUME r.queue = <<>> PROVE FALSE
        <4>1. PICK q : q = r.queue
          OBVIOUS
        <4>2. q = <<>> /\ Len(q) = 1
          BY <3>1, <4>1, Zenon
        <4> QED BY <4>2
      <3> QED BY <3>1 DEF Sound
    <2>2. Sound(DrainBody(r)) /\ DrainBody(r).queue = Tail(r.queue)
      BY <2>1, DrainSound
    <2>3. Tail(r.queue) \in Seq(PacketType) /\ Len(Tail(r.queue)) = 0
      BY <2>1, TailFacts, TailShorter
    <2>4. Tail(r.queue) = <<>>
      <3>1. PICK q : q = Tail(r.queue)
        OBVIOUS
      <3>2. q \in Seq(PacketType) /\ Len(q) = 0
        BY <2>3, <3>1
      <3>3. q = <<>>
        BY <3>2
      <3> QED BY <3>1, <3>3
    <2> QED BY <2>2, <2>4
  <1>4. ASSUME NEW k \in 1 .. 1, NEW s, DrainFirst(r, k - 1, s)
        PROVE  DrainFirst(r, k, DrainStep(s, k, r))
    <2>1. k = 1 /\ k - 1 = 0
      OBVIOUS
    <2>2. s = r
      BY <1>4, <2>1 DEF DrainFirst
    <2> QED BY <1>3, <2>1, <2>2 DEF DrainFirst, DrainStep
  <1>5. DrainFirst(r, 1, DrainOne!Iterate(r, r, 1))
    BY <1>2, <1>4, DrainOne!IterateHolds
  <1> QED BY <1>1, <1>5 DEF DrainFirst

LEMMA AddTCPFirst ==
    ASSUME NEW s, Sound(s), s.queue = <<>>, NEW p \in Segments, s.next_seq >= p.seq, NEW id
    PROVE  AddTCP(s, p, id).queue = <<>>
  <1>1. CASE p.data_len = 0
    <2>1. AddTCP(s, p, id) = [s EXCEPT !.state = "RETRANSMISSION",
                                       !.out = Callback(s, "retran", p, 0)]
      BY <1>1 DEF AddTCP
    <2> QED BY <2>1 DEF Sound
  <1>2. CASE p.data_len # 0
    <2> DEFINE new     == [seq |-> p.seq, data_len |-> p.data_len, window |-> p.window]
               n       == CHOOSE n \in 0 .. Len(s.queue) : IsCandidate(s.queue, new, n)
               queued  == [s EXCEPT !.queue = Insert(s.queue, new), !.max_packet_id = id]
               drained == Repeat(DrainBody, queued, Len(queued.queue))
               windowed == Repeat(WindowBody, drained, 2 * Len(drained.queue))
    <2>1. AddTCP(s, p, id) = windowed
      BY <1>2 DEF AddTCP
    <2>2. new \in PacketType /\ new.seq = p.seq
      BY SegmentsAssumption DEF PacketType
    <2> HIDE DEF new
    <2>3. n \in 0 .. Len(s.queue)
      BY <2>2, CandidateExists DEF Sound
    <2>4. n = 0 /\ s.queue \in Seq(PacketType)
      BY <2>3 DEF Sound
    <2> HIDE DEF n
    <2>5. Insert(s.queue, new) = AddAfter(s.queue, new, n)
      BY DEF Insert, n
    <2>6. Insert(s.queue, new) = <<new>>
      BY <2>4, <2>5 DEF AddAfter
    <2>7. /\ queued.queue = <<new>> /\ queued.next_seq = s.next_seq
          /\ DOMAIN queued = DOMAIN s /\ queued.out = s.out
      BY <2>6 DEF Sound
    <2> HIDE DEF queued
    <2>8. <<new>> \in Seq(PacketType) /\ Len(<<new>>) = 1 /\ Head(<<new>>) = new
      BY <2>2
    <2>9. Sound(queued) /\ Len(queued.queue) = 1 /\ HasData(queued)
      BY <2>2, <2>7, <2>8 DEF Sound, HasData
    <2>10. Sound(drained) /\ drained.queue = <<>>
      BY <2>9, DrainOneEmpties
    <2> HIDE DEF drained
    <2>11. Shrinks(drained, 2 * Len(drained.queue), windowed)
      BY <2>10, WindowShrinks
    <2>12. windowed.queue \in Seq(PacketType) /\ Len(windowed.queue) <= 0
      BY <2>10, <2>11 DEF Shrinks, Sound
    <2> HIDE DEF windowed
    <2>13. windowed.queue = <<>>
      <3>1. Len(windowed.queue) = 0
        BY <2>12
      <3> QED BY <2>12, <3>1
    <2> QED BY <2>1, <2>13
  <1> QED BY <1>1, <1>2
LEMMA CallbackEstStreams ==
    ASSUME NEW h, Well(h), NEW id
    PROVE  CallbackEst(h, id).tcp = h.tcp /\ CallbackEst(h, id).outstanding = h.outstanding
  <1> DEFINE f == Forward(id)
             e == [h EXCEPT !.streams[f].object     = TRUE,
                            !.streams[f + 1].object = TRUE,
                            !.objects = @ + 1]
             g == IF h.streams[id].object THEN h ELSE e
             v == [kind |-> "est", urn |-> <<h.streams[id].conn, h.streams[id].side>>]
  <1>1. DOMAIN g = Fields /\ g.tcp = h.tcp /\ g.outstanding = h.outstanding
    BY DEF Well, Typed, Fields
  <1>2. CallbackEst(h, id) = Tell(g, id, v)
    BY DEF CallbackEst
  <1> HIDE DEF g, v
  <1>3. Tell(g, id, v).tcp = g.tcp /\ Tell(g, id, v).outstanding = g.outstanding
    BY <1>1 DEF Tell, Fields
  <1> QED BY <1>1, <1>2, <1>3

\* A new stream expects its first packet, or the byte after the SYN.
LEMMA EstablishFirst ==
    ASSUME NEW h, Well(h), Tallied(h), NEW id \in DOMAIN h.streams, NEW p \in Segments
    PROVE  LET e == Establish(h, id, p)
           IN  /\ e.outstanding = h.outstanding
               /\ e.tcp[id].queue = h.tcp[id].queue
               /\ (NoSynAtEnd /\ h.tcp[id].state = "NONE" /\ h.streams[id].conn \notin Udp)
                     => e.tcp[id].next_seq >= p.seq
  <1> DEFINE s == h.tcp[id]
             n == IF p.syn THEN U32(p.seq + 1) ELSE p.seq
             t == IF h.streams[id].conn \in Udp THEN s ELSE [s EXCEPT !.next_seq = n]
             u == [t EXCEPT !.state = "JUST_EST"]
             a == [h EXCEPT !.tcp[id] = u]
             b == CallbackEst(a, id)
             c == [b EXCEPT !.tcp[id].state = "DATA"]
  <1>1. Establish(h, id, p) = IF s.state # "NONE" THEN h ELSE c
    BY DEF Establish
  <1>2. DOMAIN h.tcp = DOMAIN h.streams /\ Sound(s)
    BY DEF Tallied, QueuesTallied
  <1>3. /\ u.queue = s.queue /\ DOMAIN u = DOMAIN s
        /\ h.streams[id].conn \notin Udp => u.next_seq = n
    <2> HIDE DEF n
    <2> QED BY <1>2 DEF Sound
  <1>4. NoSynAtEnd => n >= p.seq
    <2>1. p.seq \in 0 .. SeqSpace - 1 /\ SeqSpace \in Nat
      BY SegmentsAssumption, HalfSeqAssumption DEF SeqSpace
    <2>2. ASSUME p.syn, NoSynAtEnd PROVE U32(p.seq + 1) = p.seq + 1
      <3>1. p.seq + 1 \in 0 .. SeqSpace - 1
        BY <2>1, <2>2 DEF NoSynAtEnd
      <3> DEFINE x == p.seq + 1
      <3>2. x \in 0 .. SeqSpace - 1
        BY <3>1
      <3> HIDE DEF x
      <3>3. x \in Int /\ 0 <= x /\ x < SeqSpace
        BY <2>1, <3>2
      <3>4. U32(x) = x
        BY <3>3, U32Small
      <3> QED BY <3>4 DEF x
    <2> QED BY <2>1, <2>2
  <1> HIDE DEF n, u
  <1>5. /\ SameTable(h, a) /\ id \in DOMAIN a.streams
        /\ a.tcp = [h.tcp EXCEPT ![id] = u] /\ a.outstanding = h.outstanding
    BY DEF SameTable, Well, Typed, Fields
  <1> HIDE DEF a
  <1>6. Well(a) /\ a.tcp[id] = u /\ DOMAIN a.tcp = DOMAIN h.tcp
    BY <1>2, <1>5, SameTableWell
  <1>7. b.tcp = a.tcp /\ b.outstanding = a.outstanding
    BY <1>6, CallbackEstStreams
  <1>8. Well(b)
    BY <1>5, <1>6, CallbackEstSame, SameTableWell
  <1> HIDE DEF b
  <1>9. c.tcp = [b.tcp EXCEPT ![id].state = "DATA"] /\ c.outstanding = b.outstanding
    BY <1>8 DEF Well, Typed, Fields
  <1> HIDE DEF c
  <1>10. c.tcp[id] = [u EXCEPT !.state = "DATA"]
    BY <1>2, <1>6, <1>7, <1>9
  <1>11. c.tcp[id].queue = s.queue /\ c.tcp[id].next_seq = u.next_seq
    BY <1>2, <1>3, <1>10 DEF Sound
  <1>12. c.outstanding = h.outstanding
    BY <1>5, <1>7, <1>9
  <1> QED BY <1>1, <1>3, <1>4, <1>11, <1>12

\* A packet queues at most one, and none on a new stream.
LEMMA AddOutstanding ==
    ASSUME NEW h, Well(h), Tallied(h), NEW id \in DOMAIN h.streams, NEW p \in Segments, NEW n
    PROVE  /\ Add(h, id, p, n).outstanding <= h.outstanding + 1
           /\ (h.tcp[id].queue = <<>> /\
                (h.streams[id].conn \notin Udp => h.tcp[id].next_seq >= p.seq))
                 => Add(h, id, p, n).outstanding = h.outstanding
  <1> DEFINE s == h.tcp[id]
             u == AddUDP(s, p)
             t == AddTCP(s, p, n)
             r == IF h.streams[id].conn \in Udp THEN u ELSE t
  <1>1. Sound(s)
    BY DEF Tallied, QueuesTallied
  <1>2. Sound(t) /\ Len(t.queue) <= Len(s.queue) + 1
    BY <1>1, AddTCPSound
  <1>3. Sound(u) /\ u.queue = s.queue
    BY <1>1, AddUDPSound
  <1>4. Sound(r) /\ Add(h, id, p, n) = Run(h, id, r)
    BY <1>2, <1>3 DEF Add
  <1>5. (s.queue = <<>> /\ (h.streams[id].conn \notin Udp => s.next_seq >= p.seq))
           => r.queue = <<>>
    <2>1. (s.queue = <<>> /\ s.next_seq >= p.seq) => t.queue = <<>>
      BY <1>1, AddTCPFirst
    <2> HIDE DEF s, t, u
    <2> QED BY <1>3, <2>1
  <1>6. Len(s.queue) \in Nat /\ Len(r.queue) \in Nat
    BY <1>1, <1>4 DEF Sound
  <1>7. Len(r.queue) <= Len(s.queue) + 1
    <2> HIDE DEF s, t, u
    <2>1. Len(s.queue) <= Len(s.queue) + 1
      BY <1>6
    <2> QED BY <1>2, <1>3, <2>1
  <1> HIDE DEF r
  <1>8. Add(h, id, p, n).outstanding = h.outstanding + Len(r.queue) - Len(s.queue)
    <2>1. Ran(h, id, r, Run(h, id, r))
      BY <1>4, RunTallied
    <2> QED BY <1>4, <2>1 DEF Ran
  <1>9. h.outstanding \in Nat
    BY FS_CardinalityType DEF Tallied, QueuesTallied
  <1>10. PICK x : x = Add(h, id, p, n).outstanding
    OBVIOUS
  <1>11. x <= h.outstanding + 1
    <2>1. PICK a : a = Len(s.queue)
      OBVIOUS
    <2>2. PICK b : b = Len(r.queue)
      OBVIOUS
    <2>3. a \in Nat /\ b \in Nat /\ b <= a + 1 /\ x = h.outstanding + b - a
      BY <1>6, <1>7, <1>8, <1>10, <2>1, <2>2
    <2> QED BY <1>9, <2>3
  <1>12. ASSUME s.queue = <<>>, r.queue = <<>> PROVE x = h.outstanding
    <2>1. Len(r.queue) = Len(s.queue)
      BY <1>12, Zenon
    <2> QED BY <1>6, <1>8, <1>9, <1>10, <2>1
  <1> QED BY <1>5, <1>10, <1>11, <1>12
\* find_stream queues nothing, and makes one connection at most.
Grown(h, g, id) ==
    /\ g.outstanding = h.outstanding
    /\ \/ Cardinality(Forwards(g)) = Cardinality(Forwards(h))
       \/ Cardinality(Forwards(g)) = Cardinality(Forwards(h)) + 1 /\ g.tcp[id] = NewTcp

LEMMA FindStreamGrown ==
    ASSUME NEW h, Well(h), Tallied(h), NEW c \in Conns, NEW side \in Sides
    PROVE  Grown(h, FindStream(h, c, side).h, FindStream(h, c, side).id)
  <1>1. ASSUME NEW i, NEW j PROVE Grown(h, MoveToFront(h, i), j)
    <2>1. MoveToFront(h, i).streams = h.streams /\ MoveToFront(h, i).outstanding = h.outstanding
      BY DEF MoveToFront, Well, Typed, Fields
    <2>2. Forwards(MoveToFront(h, i)) = Forwards(h)
      BY <2>1 DEF Forwards
    <2> QED BY <2>1, <2>2 DEF Grown
  <1>2. Grown(h, CreatePair(h, c, side), h.con_id)
    <2> DEFINE f == h.con_id
               g == CreatePair(h, c, side)
               A == NewStream(c, side, "FORWARD")
               B == NewStream(c, Other(side), "REVERSE")
               S == DOMAIN h.streams
    <2>1. DOMAIN h = Fields /\ f \in Nat /\ \A i \in S : i \in Nat /\ i < f
      BY DEF Well, Typed
    <2>2. /\ g.streams = With(h.streams, [i \in {f, f + 1} |-> IF i = f THEN A ELSE B])
          /\ g.tcp = With(h.tcp, [i \in {f, f + 1} |-> NewTcp])
          /\ g.outstanding = h.outstanding
      BY <2>1 DEF CreatePair, Fields
    <2> HIDE DEF g
    <2>3. f \notin S /\ f + 1 \notin S /\ f # f + 1
      BY <2>1
    <2>4. /\ DOMAIN g.streams = S \cup {f, f + 1}
          /\ g.streams[f] = A /\ g.streams[f + 1] = B
          /\ \A i \in S : g.streams[i] = h.streams[i]
          /\ g.tcp[f] = NewTcp
      BY <2>2, <2>3 DEF With
    <2>5. A.direction = "FORWARD" /\ B.direction = "REVERSE"
      BY DEF NewStream
    <2> HIDE DEF A, B
    <2>6. Forwards(g) = Forwards(h) \cup {f} /\ f \notin Forwards(h)
      BY <2>3, <2>4, <2>5 DEF Forwards
    <2>7. IsFiniteSet(Forwards(h))
      BY ForwardsHalf
    <2>8. Cardinality(Forwards(g)) = Cardinality(Forwards(h)) + 1
      <3>1. PICK F : F = Forwards(h)
        OBVIOUS
      <3>2. PICK x : x = f
        OBVIOUS
      <3>3. Forwards(g) = F \cup {x} /\ x \notin F /\ IsFiniteSet(F)
        BY <2>6, <2>7, <3>1, <3>2
      <3>4. Cardinality(F \cup {x}) = Cardinality(F) + 1
        BY <3>3, FS_AddElement
      <3> QED BY <3>1, <3>3, <3>4
    <2> QED BY <2>2, <2>4, <2>8 DEF Grown, g
  <1> DEFINE n == IndexOf(h, c, side)
             r == IndexOf(h, c, Other(side))
             id  == h.table[Bucket[c]][n]
             rev == h.table[Bucket[c]][r]
  <1>3. FindStream(h, c, side) =
           IF n # 0 THEN [h |-> MoveToFront(h, id), id |-> id]
           ELSE IF r # 0 THEN [h |-> MoveToFront(h, rev), id |-> Reversed(rev)]
           ELSE [h |-> CreatePair(h, c, side), id |-> h.con_id]
    BY DEF FindStream
  <1> HIDE DEF n, r, id, rev
  <1> QED BY <1>1, <1>2, <1>3

\* A packet respects the limits.
LEMMA ProcessedLimited ==
    ASSUME NoSynAtEnd, NEW h, Well(h), NEW n \in Nat, Ordered(h, n), Tallied(h), Limited(h),
           NEW c \in Conns, NEW side \in Sides, NEW p \in Segments
    PROVE  Limited(Processed(h, c, side, p, n + 1))
  <1> DEFINE a     == Forget(h)
             found == FindStream(a, c, side)
             b     == found.h
             id    == found.id
             t     == Touch(b, id, n + 1)
             e     == Establish(t, id, p)
             added == Add(e, id, p, IpId(n + 1))
             l     == EnforceLimits(added)
  <1>1. Processed(h, c, side, p, n + 1) = CountPacket(l, IpId(n + 1))
    BY DEF Processed
  <1>2. /\ Well(a) /\ Tallied(a) /\ Forwards(a) = Forwards(h)
        /\ a.outstanding = h.outstanding
    <2>1. a.outstanding = h.outstanding
      BY DEF Forget, Well, Typed, Fields
    <2> QED BY <2>1, ForgetFacts
  <1> HIDE DEF a
  <1>3. Found(a, b, id) /\ Grown(a, b, id)
    BY <1>2, FindStreamFacts, FindStreamGrown
  <1> HIDE DEF b, id
  <1>4. Well(b) /\ id \in DOMAIN b.streams /\ Tallied(b)
    BY <1>2, <1>3 DEF Found
  <1>5. /\ DOMAIN t = Fields /\ t.table = b.table /\ t.sorted = b.sorted
        /\ t.con_id = b.con_id /\ t.streams = b.streams
        /\ t.tcp = b.tcp /\ t.outstanding = b.outstanding
        /\ t.objects = b.objects /\ t.total_streams = b.total_streams
    BY <1>4 DEF Touch, Well, Typed, Fields
  <1> HIDE DEF t
  <1>6. Well(t) /\ Tallied(t) /\ Forwards(t) = Forwards(b) /\ id \in DOMAIN t.streams
    <2>1. Well(t)
      BY <1>4, <1>5, WellSame
    <2>2. Tallied(t)
      BY <1>4, <1>5, TalliedSame
    <2> QED BY <1>4, <1>5, <2>1, <2>2 DEF Forwards
  <1>7. /\ e.outstanding = b.outstanding
        /\ b.tcp[id] = NewTcp => /\ e.tcp[id].queue = <<>>
                                 /\ t.streams[id].conn \notin Udp => e.tcp[id].next_seq >= p.seq
    <2>1. NewTcp.queue = <<>> /\ NewTcp.state = "NONE"
      BY DEF NewTcp
    <2>2. /\ e.outstanding = t.outstanding /\ e.tcp[id].queue = t.tcp[id].queue
          /\ (t.tcp[id].state = "NONE" /\ t.streams[id].conn \notin Udp)
                => e.tcp[id].next_seq >= p.seq
      BY <1>6, EstablishFirst
    <2> HIDE DEF e
    <2> QED BY <1>5, <2>1, <2>2
  <1>8. /\ Well(e) /\ Tallied(e) /\ id \in DOMAIN e.streams /\ Forwards(e) = Forwards(b)
        /\ e.streams[id].conn = t.streams[id].conn
    <2>1. SameTable(t, e) /\ Tallied(e)
      BY <1>6, EstablishSame, EstablishTallied
    <2> HIDE DEF e
    <2> QED BY <1>6, <2>1, SameTableWell DEF SameTable
  <1> HIDE DEF e
  <1>9. /\ Well(added) /\ Tallied(added) /\ Forwards(added) = Forwards(b)
        /\ added.outstanding <= b.outstanding + 1
        /\ b.tcp[id] = NewTcp => added.outstanding = b.outstanding
    <2>1. SameTable(e, added)
      BY <1>8, RunSame DEF Add
    <2>2. Tallied(added)
      BY <1>8, AddTallied
    <2>3. /\ added.outstanding <= e.outstanding + 1
          /\ (e.tcp[id].queue = <<>> /\
                (e.streams[id].conn \notin Udp => e.tcp[id].next_seq >= p.seq))
                 => added.outstanding = e.outstanding
      BY <1>8, AddOutstanding
    <2> HIDE DEF added
    <2>4. Well(added) /\ Forwards(added) = Forwards(b)
      BY <1>8, <2>1, SameTableWell
    <2> QED BY <1>7, <1>8, <2>2, <2>3, <2>4
  <1> HIDE DEF added
  <1>10. Forwards(added) # {}
    <2>1. Forward(id) \in Forwards(b)
      BY <1>4, ForwardAllocated
    <2> QED BY <1>9, <2>1
  <1>11. PICK o : o = h.outstanding
    OBVIOUS
  <1>12. PICK k : k = Cardinality(Forwards(h))
    OBVIOUS
  <1>13. /\ o \in Nat /\ k \in Nat /\ 2 * k <= MaxStreams
         /\ o > MaxOutstanding => o - MaxOutstanding + k <= MaxStreams \div 2
    <2>1. k \in Nat
      BY <1>12, ForwardsHalf
    <2>2. o \in Nat
      BY <1>11, FS_CardinalityType DEF Tallied, QueuesTallied
    <2> QED BY <1>11, <1>12, <2>1, <2>2 DEF Limited
  <1>14. \/ Cardinality(Forwards(added)) = k /\ added.outstanding <= o + 1
         \/ Cardinality(Forwards(added)) = k + 1 /\ added.outstanding <= o
    <2>1. b.outstanding = o
      BY <1>2, <1>3, <1>11 DEF Grown
    <2>2. \/ Cardinality(Forwards(added)) = k
          \/ Cardinality(Forwards(added)) = k + 1 /\ b.tcp[id] = NewTcp
      BY <1>2, <1>3, <1>9, <1>12 DEF Grown
    <2> QED BY <1>9, <1>13, <2>1, <2>2
  <1>15. Limited(l)
    BY <1>9, <1>10, <1>13, <1>14, EnforceLimited
  <1>16. Well(l) /\ Tallied(l)
    BY <1>9, EnforceLimitsKeeps DEF Keeps
  <1> HIDE DEF l
  <1> QED BY <1>1, <1>15, <1>16, CountPacketKeeps, KeepsLimited

(***************************************************************************)
(* WithinLimits for any endpoints, hash function, table size, limits and   *)
(* traffic without a SYN at the end of the sequence space: between two     *)
(* packets there are never more than max_number_of_streams streams, and    *)
(* the queued packets exceed max_outstanding_skbuffs by no more than the   *)
(* number of connections for which there is still room, although each      *)
(* packet expires at most one connection.                                  *)
(***************************************************************************)
THEOREM LimitsCorrect ==
    ASSUME NoSynAtEnd
    PROVE  Spec => []WithinLimits
  <1>1. Init => Limited(hash)
    <2> SUFFICES ASSUME Init PROVE Limited(hash)
      OBVIOUS
    <2>1. hash.streams = <<>> /\ hash.outstanding = 0
      BY DEF Init
    <2>2. Forwards(hash) = {}
      BY <2>1 DEF Forwards
    <2>3. Cardinality(Forwards(hash)) = 0
      BY <2>2, FS_EmptySet
    <2> QED BY <2>1, <2>3, LimitsAssumption DEF Limited
  <1>2. TableInv /\ Limited(hash) /\ [Next]_vars => Limited(hash)'
    <2> SUFFICES ASSUME TableInv, Limited(hash), [Next]_vars PROVE Limited(hash')
      OBVIOUS
    <2>1. CASE UNCHANGED vars
      BY <2>1 DEF vars
    <2>2. ASSUME NEW c \in Conns, NEW side \in Sides, NEW p \in Segments, Process(c, side, p)
          PROVE  Limited(hash')
      <3>1. hash' = Processed(hash, c, side, p, packets + 1)
        BY <2>2 DEF Process
      <3> QED BY <3>1, ProcessedLimited DEF TableInv
    <2>3. /\ Well(Forget(hash)) /\ Tallied(Forget(hash)) /\ Limited(Forget(hash))
      <3>1. Well(hash) /\ Tallied(hash)
        BY DEF TableInv
      <3>2. Forget(hash).outstanding = hash.outstanding
        BY <3>1 DEF Forget, Well, Typed, Fields
      <3>3. /\ Well(Forget(hash)) /\ Tallied(Forget(hash))
            /\ Forwards(Forget(hash)) = Forwards(hash)
        BY <3>1, ForgetFacts
      <3> QED BY <3>2, <3>3 DEF Limited
    <2>4. CASE FlushTable
      <3>1. hash' = FlushBuckets(Forget(hash))
        BY <2>4 DEF FlushTable
      <3> QED BY <2>3, <3>1, FlushBucketsKeeps, KeepsLimited
    <2>5. CASE Dealloc
      <3>1. hash' = FreeStreams(Forget(hash))
        BY <2>5 DEF Dealloc
      <3> QED BY <2>3, <3>1, FreeStreamsKeeps, KeepsLimited
    <2> QED BY <2>1, <2>2, <2>4, <2>5 DEF Next
  <1>3. TableInv /\ Limited(hash) => WithinLimits
    <2> SUFFICES ASSUME TableInv, Limited(hash) PROVE WithinLimits
      OBVIOUS
    <2>1. hash.total_streams = 2 * Cardinality(Forwards(hash))
      BY ForwardsHalf DEF TableInv
    <2> QED BY <2>1 DEF Limited, WithinLimits, Connections
  <1> QED BY <1>1, <1>2, <1>3, TableInductive, PTL DEF Spec
-----------------------------------------------------------------------------
(* The order of the maps: what a packet does to them.                       *)

\* The connection of id is open and its maps are kept, or it is new.
Placed(h, id) ==
    \/ Scanned(h) /\ Mapped(h)
    \/ /\ ScannedBut(h, {Forward(id)}) /\ MappedBut(h, {Forward(id)})
       /\ Forward(id) \in DOMAIN h.py /\ h.py[Forward(id)] = NoMaps
       /\ h.tcp[id].state = "NONE"

\* Both directions of a connection that is live have a record.
LEMMA RecordKnown ==
    ASSUME NEW h, Well(h), NEW f \in DOMAIN h.py, ScannedBut(h, {f})
    PROVE  /\ \A i \in DOMAIN h.streams : Forward(i) \in DOMAIN h.py
           /\ \A i \in Forwards(h) : i \in DOMAIN h.py
  BY ForwardAllocated DEF ScannedBut

\* What is known of the connections that ended is forgotten, the rest kept.
LEMMA ForgetMapped ==
    ASSUME NEW h, Well(h), Scanned(h), Mapped(h)
    PROVE  Mapped(Forget(h))
  <1> DEFINE g == Forget(h)
  <1>1. /\ g.streams = h.streams /\ g.tcp = h.tcp
        /\ g.py = [i \in Forwards(h) |-> h.py[i]]
    BY DEF Forget, Restrict, Well, Typed, Fields
  <1> HIDE DEF g
  <1>2. Forwards(g) = Forwards(h) /\ DOMAIN g.py = Forwards(h)
    BY <1>1 DEF Forwards
  <1>3. ASSUME NEW i \in DOMAIN h.streams, Kept(h, i) PROVE Kept(g, i)
    <2>1. g.py[Forward(i)] = h.py[Forward(i)]
      BY <1>1, ForwardAllocated
    <2> QED BY <1>1, <1>3, <2>1 DEF Kept
  <1>4. \A i \in DOMAIN g.streams :
           g.tcp[i].out = <<>> /\ (g.streams[i].conn \notin Udp => Kept(g, i))
    BY <1>1, <1>3 DEF Mapped, MappedBut
  <1>5. \A i \in Forwards(g) : g.py[i].urn[1] = g.streams[i].conn
    BY <1>1, <1>2 DEF Mapped, MappedBut
  <1> QED BY <1>2, <1>4, <1>5 DEF Mapped, MappedBut, g

\* A new stream has no map to go beyond.
LEMMA NewKept ==
    ASSUME NEW h, NEW i, h.tcp[i] = NewTcp, h.py[Forward(i)] = NoMaps,
           i - Forward(i) \in 0 .. 1
    PROVE  Kept(h, i)
  <1>1. /\ NewTcp.next_seq = 0 /\ NewTcp.queue = <<>> /\ NoMaps.map = [d \in 0 .. 1 |-> <<>>]
        /\ 0 < HalfSeq
    BY HalfSeqAssumption DEF NewTcp, NoMaps
  <1>2. Tame(NewTcp) /\ Near(NewTcp)
    BY <1>1 DEF Tame, Near
  <1>3. Fits(<<>>, 0)
    BY DEF Fits, InOrder
  <1> QED BY <1>1, <1>2, <1>3 DEF Kept

LEMMA FindStreamPlaced ==
    ASSUME NEW h, Well(h), Tallied(h), Scanned(h), Mapped(h),
           NEW c \in Conns, NEW side \in Sides
    PROVE  LET r == FindStream(h, c, side)
           IN  Placed(r.h, r.id)
  <1> DEFINE r == FindStream(h, c, side)
             f == h.con_id
             g == CreatePair(h, c, side)
  <1>1. ASSUME NEW i PROVE Scanned(MoveToFront(h, i)) /\ Mapped(MoveToFront(h, i))
    <2> DEFINE e == MoveToFront(h, i)
    <2>1. e.py = h.py /\ e.streams = h.streams /\ e.tcp = h.tcp
      BY DEF MoveToFront, Well, Typed, Fields
    <2> HIDE DEF e
    <2> QED BY <2>1, ScannedSame, MappedSame DEF e, Mapped
  <1>2. Placed(g, f)
    <2> DEFINE A == NewStream(c, side, "FORWARD")
               B == NewStream(c, Other(side), "REVERSE")
               S == DOMAIN h.streams
    <2>1. /\ DOMAIN h = Fields /\ f \in Nat /\ Forward(f) = f /\ DOMAIN h.tcp = S
          /\ \A i \in S : i \in Nat /\ i < f
      BY DEF Well, Typed, Tallied, QueuesTallied
    <2>2. /\ g.streams = With(h.streams, [i \in {f, f + 1} |-> IF i = f THEN A ELSE B])
          /\ g.tcp = With(h.tcp, [i \in {f, f + 1} |-> NewTcp])
          /\ g.py = With(h.py, [i \in {f} |-> NoMaps])
      BY <2>1 DEF CreatePair, Fields
    <2> HIDE DEF g
    <2>3. /\ f \notin S /\ f + 1 \notin S /\ f # f + 1 /\ Forward(f + 1) = f
          /\ f - f = 0 /\ (f + 1) - f = 1
      BY <2>1, PairFacts
    <2>4. /\ DOMAIN g.streams = S \cup {f, f + 1}
          /\ g.streams[f] = A /\ g.streams[f + 1] = B
          /\ \A i \in S : g.streams[i] = h.streams[i]
      BY <2>2, <2>3 DEF With
    <2>5. /\ DOMAIN g.py = DOMAIN h.py \cup {f} /\ g.py[f] = NoMaps
          /\ \A i \in DOMAIN h.py : i # f => g.py[i] = h.py[i]
      BY <2>2 DEF With
    <2>6. /\ g.tcp[f] = NewTcp /\ g.tcp[f + 1] = NewTcp
          /\ \A i \in S : g.tcp[i] = h.tcp[i]
      BY <2>1, <2>2, <2>3 DEF With
    <2>7. A.direction = "FORWARD" /\ B.direction = "REVERSE"
      BY DEF NewStream
    <2> HIDE DEF A, B
    <2>8. Forwards(g) = Forwards(h) \cup {f} /\ f \notin Forwards(h)
      BY <2>3, <2>4, <2>7 DEF Forwards
    <2>9. \A i \in Forwards(h) : i # f /\ i \in DOMAIN h.py /\ g.streams[i] = h.streams[i]
      BY <2>3, <2>4 DEF Forwards, Scanned, ScannedBut
    <2>10. ScannedBut(g, {f})
      <3>1. \A i \in Forwards(g) \ {f} : i \in DOMAIN g.py /\ g.streams[i].object /\ Open(g.py[i])
        BY <2>5, <2>8, <2>9 DEF Scanned, ScannedBut
      <3>2. \A i \in DOMAIN g.py : i = Forward(i)
        BY <2>1, <2>5 DEF Scanned, ScannedBut
      <3>3. \A i \in DOMAIN g.py \ (Forwards(g) \cup {f}) : Ended(g.py[i])
        BY <2>5, <2>8 DEF Scanned, ScannedBut
      <3> QED BY <3>1, <3>2, <3>3 DEF ScannedBut
    <2>11. ASSUME NEW i \in S, Kept(h, i) PROVE Kept(g, i)
      <3>1. Forward(i) \in Forwards(h)
        BY ForwardAllocated
      <3>2. g.py[Forward(i)] = h.py[Forward(i)] /\ g.tcp[i] = h.tcp[i]
        BY <2>5, <2>6, <2>9, <3>1
      <3> QED BY <2>11, <3>2 DEF Kept
    <2>12. Kept(g, f) /\ Kept(g, f + 1)
      <3>1. 0 \in 0 .. 1 /\ 1 \in 0 .. 1
        OBVIOUS
      <3>2. PICK y : y = f + 1
        OBVIOUS
      <3>3. Kept(g, f)
        BY <2>1, <2>3, <2>5, <2>6, <3>1, NewKept
      <3>4. g.tcp[y] = NewTcp /\ g.py[Forward(y)] = NoMaps /\ y - Forward(y) = 1
        BY <2>3, <2>5, <2>6, <3>2
      <3>5. Kept(g, y)
        BY <3>1, <3>4, NewKept
      <3> QED BY <3>2, <3>3, <3>5
    <2>13. NewTcp.out = <<>> /\ NewTcp.state = "NONE"
      BY DEF NewTcp
    <2>14. \A i \in DOMAIN g.streams :
              g.tcp[i].out = <<>> /\ (g.streams[i].conn \notin Udp => Kept(g, i))
      <3> TAKE i \in DOMAIN g.streams
      <3>1. CASE i \in S
        BY <2>4, <2>6, <2>11, <3>1 DEF Mapped, MappedBut
      <3>2. CASE i \in {f, f + 1}
        BY <2>6, <2>12, <2>13, <3>2
      <3> QED BY <2>4, <3>1, <3>2
    <2>15. \A i \in Forwards(g) \ {f} : g.py[i].urn[1] = g.streams[i].conn
      BY <2>5, <2>8, <2>9 DEF Mapped, MappedBut
    <2>16. \A i \in DOMAIN g.py \ Forwards(g) :
              g.py[i].urn[1] \notin Udp => \A d \in 0 .. 1 : InOrder(g.py[i].map[d])
      BY <2>5, <2>8 DEF Mapped, MappedBut
    <2>17. MappedBut(g, {f})
      BY <2>14, <2>15, <2>16 DEF MappedBut
    <2> QED BY <2>1, <2>5, <2>6, <2>10, <2>13, <2>17 DEF Placed
  <1>3. \/ \E i : r.h = MoveToFront(h, i)
        \/ r.h = g /\ r.id = f
    BY DEF FindStream
  <1> HIDE DEF r, g
  <1> QED BY <1>1, <1>2, <1>3 DEF Placed, r

\* What establishing a stream changes.
LEMMA EstablishMade ==
    ASSUME NEW h, Well(h), Tallied(h), NEW id \in DOMAIN h.streams, NEW p,
           h.tcp[id].state = "NONE"
    PROVE  LET e == Establish(h, id, p)
               s == h.tcp[id]
               c == h.streams[id].conn
               f == Forward(id)
               v == [kind |-> "est", urn |-> <<c, h.streams[id].side>>]
           IN  /\ e.py = [h.py EXCEPT ![f] = OnEst(h.py[f], v)]
               /\ \A i \in DOMAIN h.streams : i # id => e.tcp[i] = h.tcp[i]
               /\ e.tcp[id].queue = s.queue /\ e.tcp[id].out = s.out /\ e.tcp[id].state = "DATA"
               /\ c \notin Udp => e.tcp[id].next_seq = IF p.syn THEN U32(p.seq + 1) ELSE p.seq
  <1> DEFINE s == h.tcp[id]
             n == IF p.syn THEN U32(p.seq + 1) ELSE p.seq
             t == IF h.streams[id].conn \in Udp THEN s ELSE [s EXCEPT !.next_seq = n]
             u == [t EXCEPT !.state = "JUST_EST"]
             a == [h EXCEPT !.tcp[id] = u]
             b == CallbackEst(a, id)
             e == [b EXCEPT !.tcp[id].state = "DATA"]
             f == Forward(id)
             v == [kind |-> "est", urn |-> <<h.streams[id].conn, h.streams[id].side>>]
             o == [a EXCEPT !.streams[f].object     = TRUE,
                            !.streams[f + 1].object = TRUE,
                            !.objects = @ + 1]
             g == IF a.streams[id].object THEN a ELSE o
  <1>1. Establish(h, id, p) = e
    BY DEF Establish
  <1>2. DOMAIN h.tcp = DOMAIN h.streams /\ Sound(s)
    BY DEF Tallied, QueuesTallied
  <1>3. /\ u.queue = s.queue /\ u.out = s.out /\ DOMAIN u = DOMAIN s
        /\ h.streams[id].conn \notin Udp => u.next_seq = n
    <2> HIDE DEF n
    <2> QED BY <1>2 DEF Sound
  <1> HIDE DEF n, u
  <1>4. /\ SameTable(h, a) /\ a.py = h.py /\ a.streams = h.streams /\ DOMAIN a = Fields
        /\ a.tcp = [h.tcp EXCEPT ![id] = u]
    BY DEF SameTable, Well, Typed, Fields
  <1>5. b = Tell(g, id, v)
    BY <1>4 DEF CallbackEst
  <1> HIDE DEF a
  <1>6. Well(a) /\ a.tcp[id] = u /\ \A i \in DOMAIN h.streams : i # id => a.tcp[i] = h.tcp[i]
    BY <1>2, <1>4, SameTableWell
  <1>7. b.tcp = a.tcp
    BY <1>6, CallbackEstStreams
  <1>8. DOMAIN b = Fields
    BY <1>4, <1>6, CallbackEstSame DEF SameTable
  <1>9. b.py = [h.py EXCEPT ![f] = OnEst(h.py[f], v)]
    <2>1. DOMAIN g = Fields /\ g.py = h.py
      BY <1>4 DEF Fields
    <2>2. v.kind = "est"
      OBVIOUS
    <2> HIDE DEF g, v
    <2>3. PyCallback(h.py[f], id - f, v) = OnEst(h.py[f], v)
      BY <2>2 DEF PyCallback
    <2>4. b.py = [h.py EXCEPT ![f] = PyCallback(h.py[f], id - f, v)]
      BY <1>5, <2>1 DEF Tell, Fields
    <2> QED BY <2>3, <2>4
  <1> HIDE DEF b, v
  <1>10. e.py = b.py /\ e.tcp = [b.tcp EXCEPT ![id].state = "DATA"]
    BY <1>8 DEF Fields
  <1> HIDE DEF e
  <1>11. /\ e.tcp[id] = [u EXCEPT !.state = "DATA"]
         /\ \A i \in DOMAIN h.streams : i # id => e.tcp[i] = h.tcp[i]
    BY <1>2, <1>4, <1>6, <1>7, <1>10
  <1>12. /\ e.tcp[id].queue = s.queue /\ e.tcp[id].out = s.out /\ e.tcp[id].state = "DATA"
         /\ h.streams[id].conn \notin Udp => e.tcp[id].next_seq = n
    BY <1>2, <1>3, <1>11 DEF Sound
  <1> QED BY <1>1, <1>9, <1>10, <1>11, <1>12 DEF n, v

\* A stream that is established starts beyond its map.
LEMMA EstablishMapped ==
    ASSUME NoWrap, NEW h, Well(h), Tallied(h), NEW id \in DOMAIN h.streams, Placed(h, id),
           NEW p \in Segments
    PROVE  LET e == Establish(h, id, p)
           IN  Mapped(e) /\ e.tcp[id].state # "NONE"
  <1> DEFINE e == Establish(h, id, p)
             s == h.tcp[id]
             f == Forward(id)
             con == h.py[f]
             c == h.streams[id].conn
             v == [kind |-> "est", urn |-> <<c, h.streams[id].side>>]
             n == IF p.syn THEN U32(p.seq + 1) ELSE p.seq
  <1>1. CASE s.state # "NONE"
    <2>1. e = h
      BY <1>1 DEF Establish
    <2> QED BY <1>1, <2>1 DEF Placed
  <1>2. CASE s.state = "NONE"
    <2>1. /\ e.py = [h.py EXCEPT ![f] = OnEst(con, v)]
          /\ \A i \in DOMAIN h.streams : i # id => e.tcp[i] = h.tcp[i]
          /\ e.tcp[id].queue = s.queue /\ e.tcp[id].out = s.out /\ e.tcp[id].state = "DATA"
          /\ c \notin Udp => e.tcp[id].next_seq = n
      BY <1>2, EstablishMade
    <2>2. SameTable(h, e)
      BY EstablishSame
    <2> HIDE DEF e
    <2>3. /\ Forwards(e) = Forwards(h) /\ DOMAIN e.streams = DOMAIN h.streams
          /\ \A i \in DOMAIN h.streams : e.streams[i].conn = h.streams[i].conn
      BY <2>2, SameTableWell DEF SameTable
    <2>4. n \in Nat /\ n < HalfSeq
      <3>1. p.seq \in Nat /\ p.seq + 1 < HalfSeq /\ HalfSeq \in Nat /\ SeqSpace = 2 * HalfSeq
        BY SegmentsAssumption, HalfSeqAssumption DEF NoWrap, SeqSpace
      <3> DEFINE x == p.seq + 1
      <3>2. x \in Int /\ 0 <= x /\ x < SeqSpace
        BY <3>1
      <3> HIDE DEF x
      <3>3. U32(x) = x
        BY <3>2, U32Small
      <3> QED BY <3>1, <3>3 DEF x
    <2> HIDE DEF n
    <2>5. f \in Forwards(h) /\ f \in DOMAIN h.streams /\ h.streams[f].conn = c
      <3>1. id \in Nat /\ f \in Forwards(h)
        BY ForwardAllocated DEF Well, Typed
      <3>2. f = id \/ f = Reversed(id)
        BY <3>1, PairFacts
      <3> QED BY <3>1, <3>2 DEF Forwards, Well, Paired
    <2>6. /\ ScannedBut(h, {f}) /\ MappedBut(h, {f}) /\ f \in DOMAIN h.py
          /\ con = NoMaps \/ (Open(con) /\ con.urn[1] = c)
      <3>1. CASE Scanned(h) /\ Mapped(h)
        <4>1. ScannedBut(h, {f}) /\ f \in DOMAIN h.py /\ Open(con)
          BY <2>5, <3>1, ScannedAll
        <4>2. MappedBut(h, {f}) /\ con.urn[1] = c
          BY <2>5, <3>1 DEF Mapped, MappedBut
        <4> QED BY <4>1, <4>2
      <3>2. CASE ~(Scanned(h) /\ Mapped(h))
        BY <3>2 DEF Placed
      <3> QED BY <3>1, <3>2
    <2>7. OnEst(con, v).map = con.map /\ OnEst(con, v).urn[1] = c
      <3>1. CASE Open(con) /\ con.urn[1] = c
        BY <3>1 DEF OnEst, Open
      <3>2. CASE con = NoMaps
        <4>1. NoMaps.state = "none" /\ DOMAIN NoMaps = {"state", "urn", "map", "jobs"}
          BY DEF NoMaps
        <4>2. v.urn[1] = c
          OBVIOUS
        <4>3. OnEst(con, v) = [NoMaps EXCEPT !.state = "open", !.urn = v.urn]
          BY <3>2, <4>1 DEF OnEst
        <4> HIDE DEF v
        <4> QED BY <3>2, <4>1, <4>2, <4>3
      <3> QED BY <2>6, <3>1, <3>2
    <2> HIDE DEF v
    <2>8. /\ DOMAIN e.py = DOMAIN h.py /\ e.py[f].map = con.map /\ e.py[f].urn[1] = c
          /\ \A i \in DOMAIN h.py : i # f => e.py[i] = h.py[i]
      BY <2>1, <2>6, <2>7
    <2>9. ASSUME NEW i \in DOMAIN h.streams, h.streams[i].conn \notin Udp PROVE Kept(e, i)
      <3>1. Kept(h, i)
        BY <2>6, <2>9 DEF MappedBut
      <3>2. e.py[Forward(i)].map = h.py[Forward(i)].map
        <4>1. Forward(i) \in DOMAIN h.py
          BY <2>6, RecordKnown
        <4> QED BY <2>8, <4>1
      <3>3. CASE i # id
        BY <2>1, <3>1, <3>2, <3>3 DEF Kept
      <3>4. CASE i = id
        <4>1. s.queue = <<>> /\ s.next_seq = 0
          BY <1>2, <3>1, <3>4 DEF Kept, Tame
        <4>2. Tame(e.tcp[id]) /\ Near(e.tcp[id])
          BY <2>1, <2>4, <2>9, <3>4, <4>1 DEF Tame, Near
        <4>3. PICK m : m = h.py[f].map[id - f]
          OBVIOUS
        <4>4. Fits(m, 0)
          BY <3>1, <3>4, <4>1, <4>3 DEF Kept
        <4>5. Fits(m, n)
          <5>1. \A k \in 1 .. Len(m) : m[k].seq \in Int /\ m[k].len \in Int
            <6>1. \A x \in Ranges : x.seq \in Int /\ x.len \in Int
              BY DEF Ranges
            <6>2. m \in Seq(Ranges)
              BY <4>4 DEF Fits
            <6>3. \A k \in 1 .. Len(m) : m[k] \in Ranges
              <7> HIDE DEF Ranges
              <7> QED BY <6>2
            <6> QED BY <6>1, <6>3
          <5> QED BY <2>4, <4>4, <5>1 DEF Fits
        <4> QED BY <2>1, <2>9, <3>1, <3>2, <3>4, <4>2, <4>3, <4>5 DEF Kept
      <3> QED BY <3>3, <3>4
    <2>10. \A i \in DOMAIN e.streams :
              e.tcp[i].out = <<>> /\ (e.streams[i].conn \notin Udp => Kept(e, i))
      BY <2>1, <2>3, <2>6, <2>9 DEF MappedBut
    <2>11. \A i \in Forwards(e) : e.py[i].urn[1] = e.streams[i].conn
      <3> TAKE i \in Forwards(e)
      <3>1. i \in Forwards(h) /\ i \in DOMAIN h.streams /\ i \in DOMAIN h.py
        BY <2>3, <2>6, RecordKnown DEF Forwards
      <3>2. CASE i = f
        BY <2>3, <2>5, <2>8, <3>2
      <3>3. CASE i # f
        BY <2>3, <2>6, <2>8, <3>1, <3>3 DEF MappedBut
      <3> QED BY <3>2, <3>3
    <2>12. \A i \in DOMAIN e.py \ Forwards(e) :
              e.py[i].urn[1] \notin Udp => \A d \in 0 .. 1 : InOrder(e.py[i].map[d])
      BY <2>3, <2>5, <2>6, <2>8 DEF MappedBut
    <2>13. Mapped(e)
      BY <2>10, <2>11, <2>12 DEF Mapped, MappedBut
    <2> QED BY <2>1, <2>13 DEF e
  <1> QED BY <1>1, <1>2

\* TCPStream_add and UDPStream_add.
LEMMA AddMapped ==
    ASSUME NoWrap, ShortSegments, NEW h, Well(h), Tallied(h), Scanned(h), Mapped(h),
           NEW id \in DOMAIN h.streams, h.tcp[id].state # "NONE", NEW p \in Segments, NEW n
    PROVE  Mapped(Add(h, id, p, n))
  <1> DEFINE s == h.tcp[id]
             u == AddUDP(s, p)
             t == AddTCP(s, p, n)
             r == IF h.streams[id].conn \in Udp THEN u ELSE t
  <1>1. Sound(s)
    BY DEF Tallied, QueuesTallied
  <1>2. Sound(r) /\ Add(h, id, p, n) = Run(h, id, r)
    BY <1>1, AddTCPSound, AddUDPSound DEF Add
  <1>3. ASSUME h.streams[id].conn \notin Udp PROVE Forth(r, s.next_seq) /\ Near(r)
    <2>1. Tame(s) /\ Near(s) /\ s.out = <<>>
      BY <1>3 DEF Mapped, MappedBut, Kept
    <2>2. Forth(t, s.next_seq) /\ Near(t)
      BY <1>1, <2>1, AddTCPForth
    <2> QED BY <1>3, <2>2
  <1> HIDE DEF r
  <1> QED BY <1>2, <1>3, RunMapped

\* A packet keeps all maps in order.
LEMMA ProcessedMapped ==
    ASSUME NoWrap, ShortSegments, NEW h, Well(h), Tallied(h), Scanned(h), Mapped(h),
           NEW n \in Nat, NEW c \in Conns, NEW side \in Sides, NEW p \in Segments
    PROVE  Mapped(Processed(h, c, side, p, n + 1))
  <1> DEFINE a     == Forget(h)
             found == FindStream(a, c, side)
             b     == found.h
             id    == found.id
             t     == Touch(b, id, n + 1)
             e     == Establish(t, id, p)
             added == Add(e, id, p, IpId(n + 1))
             l     == EnforceLimits(added)
  <1>1. Processed(h, c, side, p, n + 1) = CountPacket(l, IpId(n + 1))
    BY DEF Processed
  <1>2. Well(a) /\ Tallied(a) /\ Scanned(a) /\ Mapped(a)
    BY ForgetFacts, ForgetMapped
  <1> HIDE DEF a
  <1>3. Found(a, b, id) /\ Ready(b, id) /\ Placed(b, id)
    BY <1>2, FindStreamFacts, FindStreamReady, FindStreamPlaced
  <1> HIDE DEF b, id
  <1>4. Well(b) /\ id \in DOMAIN b.streams /\ Tallied(b)
    BY <1>2, <1>3 DEF Found
  <1>5. /\ DOMAIN t = Fields /\ t.table = b.table /\ t.sorted = b.sorted
        /\ t.con_id = b.con_id /\ t.streams = b.streams
        /\ t.tcp = b.tcp /\ t.outstanding = b.outstanding /\ t.py = b.py
        /\ t.objects = b.objects /\ t.total_streams = b.total_streams
    BY <1>4 DEF Touch, Well, Typed, Fields
  <1> HIDE DEF t
  <1>6. Well(t) /\ Tallied(t) /\ id \in DOMAIN t.streams /\ Ready(t, id) /\ Placed(t, id)
    <2>1. Well(t)
      BY <1>4, <1>5, WellSame
    <2>2. Tallied(t)
      BY <1>4, <1>5, TalliedSame
    <2>3. Ready(t, id)
      BY <1>3, <1>5, ScannedSame DEF Ready
    <2>4. \A X : MappedBut(b, X) => MappedBut(t, X)
      BY <1>5, MappedSame
    <2>5. Placed(t, id)
      BY <1>3, <1>5, <2>4, ScannedSame DEF Placed, Mapped
    <2> QED BY <1>4, <1>5, <2>1, <2>2, <2>3, <2>5
  <1>7. /\ Well(e) /\ Tallied(e) /\ Scanned(e) /\ Mapped(e) /\ id \in DOMAIN e.streams
        /\ e.tcp[id].state # "NONE"
    <2>1. SameTable(t, e) /\ Tallied(e) /\ Scanned(e) /\ Mapped(e) /\ e.tcp[id].state # "NONE"
      BY <1>6, EstablishSame, EstablishTallied, EstablishScanned, EstablishMapped
    <2> HIDE DEF e
    <2> QED BY <1>6, <2>1, SameTableWell DEF SameTable
  <1> HIDE DEF e
  <1>8. Well(added) /\ Tallied(added) /\ Scanned(added) /\ Mapped(added)
    <2>1. SameTable(e, added)
      BY <1>7, RunSame DEF Add
    <2>2. Tallied(added) /\ Scanned(added) /\ Mapped(added)
      BY <1>7, AddTallied, AddMapped
    <2> HIDE DEF added
    <2> QED BY <1>7, <2>1, <2>2, SameTableWell
  <1> HIDE DEF added
  <1>9. Keeps(added, l)
    BY <1>8, EnforceLimitsKeeps
  <1> HIDE DEF l
  <1>10. Well(l) /\ Keeps(l, CountPacket(l, IpId(n + 1)))
    BY <1>9, CountPacketKeeps DEF Keeps
  <1> QED BY <1>1, <1>8, <1>9, <1>10 DEF Keeps

(***************************************************************************)
(* MapInOrder for any endpoints, hash function, limits and number of       *)
(* packets, for a capture whose sequence numbers stay in the lower half of *)
(* the sequence space and whose segments are no longer than the widest gap *)
(* that is padded: a map that holds only whole packets lists them in the   *)
(* order of their sequence numbers and none twice, whatever order they     *)
(* came in, and whichever of the limits, the flush and the deallocation    *)
(* made pad_data deliver the last of them.                                 *)
(***************************************************************************)
THEOREM MapOrderCorrect ==
    ASSUME NoWrap, ShortSegments
    PROVE  Spec => []MapInOrder
  <1>1. Init => Mapped(hash)
    <2> SUFFICES ASSUME Init PROVE Mapped(hash)
      OBVIOUS
    <2>1. hash.streams = <<>> /\ hash.py = <<>>
      BY DEF Init
    <2>2. DOMAIN hash.streams = {} /\ DOMAIN hash.py = {} /\ Forwards(hash) = {}
      BY <2>1 DEF Forwards
    <2> QED BY <2>2 DEF Mapped, MappedBut
  <1>2. TableInv /\ Mapped(hash) /\ [Next]_vars => Mapped(hash)'
    <2> SUFFICES ASSUME TableInv, Mapped(hash), [Next]_vars PROVE Mapped(hash')
      OBVIOUS
    <2>1. CASE UNCHANGED vars
      BY <2>1 DEF vars
    <2>2. ASSUME NEW c \in Conns, NEW side \in Sides, NEW p \in Segments, Process(c, side, p)
          PROVE  Mapped(hash')
      <3>1. hash' = Processed(hash, c, side, p, packets + 1)
        BY <2>2 DEF Process
      <3> QED BY <3>1, ProcessedMapped DEF TableInv
    <2>3. /\ Well(Forget(hash)) /\ Tallied(Forget(hash)) /\ Scanned(Forget(hash))
          /\ Mapped(Forget(hash))
      BY ForgetFacts, ForgetMapped DEF TableInv
    <2>4. CASE FlushTable
      <3>1. hash' = FlushBuckets(Forget(hash))
        BY <2>4 DEF FlushTable
      <3> QED BY <2>3, <3>1, FlushBucketsKeeps DEF Keeps
    <2>5. CASE Dealloc
      <3>1. hash' = FreeStreams(Forget(hash))
        BY <2>5 DEF Dealloc
      <3> QED BY <2>3, <3>1, FreeStreamsKeeps DEF Keeps
    <2> QED BY <2>1, <2>2, <2>4, <2>5 DEF Next
  <1>3. TableInv /\ Mapped(hash) => MapInOrder
    <2> SUFFICES ASSUME TableInv, Mapped(hash), NEW f \in DOMAIN hash.py, NEW d \in 0 .. 1,
                        hash.py[f].urn[1] \notin Udp
                 PROVE  InOrder(hash.py[f].map[d])
      BY DEF MapInOrder, InOrder
    <2>1. CASE f \in Forwards(hash)
      <3>1. f \in DOMAIN hash.streams /\ f \in Nat /\ f = Forward(f)
        BY <2>1 DEF Forwards, TableInv, Well, Typed, Paired
      <3>2. Reversed(f) = f + 1 /\ Forward(f + 1) = f /\ f - f = 0 /\ (f + 1) - f = 1
        BY <3>1, PairFacts
      <3>3. f + 1 \in DOMAIN hash.streams /\ hash.streams[f + 1].conn = hash.streams[f].conn
        BY <3>1, <3>2 DEF TableInv, Well, Paired
      <3>4. hash.streams[f].conn \notin Udp
        BY <2>1 DEF Mapped, MappedBut
      <3>5. Kept(hash, f) /\ Kept(hash, f + 1)
        BY <3>1, <3>3, <3>4 DEF Mapped, MappedBut
      <3>6. InOrder(hash.py[f].map[0]) /\ InOrder(hash.py[f].map[1])
        BY <3>1, <3>2, <3>5 DEF Kept, Fits
      <3>7. d = 0 \/ d = 1
        OBVIOUS
      <3> QED BY <3>6, <3>7
    <2>2. CASE f \notin Forwards(hash)
      BY <2>2 DEF Mapped, MappedBut
    <2> QED BY <2>1, <2>2
  <1> QED BY <1>1, <1>2, <1>3, TableInductive, PTL DEF Spec
=============================================================================
