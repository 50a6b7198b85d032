----------------------------- MODULE SgzipProof -----------------------------
(***************************************************************************)
(* Proofs about the compressed image format: the index of a whole file is  *)
(* redundant, decompressing restores the image, and reads are exact.       *)
(***************************************************************************)
EXTENDS Sgzip, SequenceTheorems, TLAPS

-----------------------------------------------------------------------------
(* Arithmetic, and the bytes of an image.                                   *)

Byte == Images \X Nat

\* The sizes and the levels of the images do not change.
Given == size \in [Images -> Nat] /\ level \in [Images -> Nat]

LEMMA Numbers ==
    BlockSize \in Nat \ {0} /\ Slack \in Nat \ {0, 1} /\ BufferSize \in Nat \ {0} /\ Room \in Nat \ {0}
  BY SgzipAssumption DEF Room

LEMMA MinPair ==
    ASSUME NEW x \in Int, NEW y \in Int
    PROVE  Min({x, y}) = IF x <= y THEN x ELSE y
  <1>1. \E z \in {x, y} : \A v \in {x, y} : z <= v
    OBVIOUS
  <1>2. Min({x, y}) \in {x, y} /\ \A v \in {x, y} : Min({x, y}) <= v
    BY <1>1 DEF Min
  <1> QED BY <1>2

LEMMA Times ==
    ASSUME NEW b \in Nat
    PROVE  /\ b * BlockSize \in Nat
           /\ (b + 1) * BlockSize = b * BlockSize + BlockSize
           /\ b >= 1 => (b - 1) * BlockSize = b * BlockSize - BlockSize
           /\ b * BlockSize >= b
           /\ 0 * BlockSize = 0
  BY Numbers

LEMMA TimesMonotone ==
    ASSUME NEW b \in Nat, NEW c \in Nat, b < c
    PROVE  b * BlockSize + BlockSize <= c * BlockSize
  <1>1. PICK e \in Nat : c = b + 1 + e
    <2>1. c - b - 1 \in Nat /\ c = b + 1 + (c - b - 1)
      OBVIOUS
    <2> QED BY <2>1
  <1>2. c * BlockSize = b * BlockSize + BlockSize + e * BlockSize
    BY <1>1, Numbers
  <1>3. e * BlockSize \in Nat /\ b * BlockSize \in Nat /\ BlockSize \in Nat
    BY Numbers, Times
  <1> QED BY <1>2, <1>3

LEMMA DataFacts ==
    ASSUME Given, NEW f \in Images
    PROVE  /\ Data(f) \in Seq(Byte)
           /\ Len(Data(f)) = size[f]
           /\ size[f] \in Nat
           /\ \A i \in 1 .. size[f] : Data(f)[i] = <<f, i>>
  <1>1. size[f] \in Nat
    BY DEF Given
  <1>2. \A i \in 1 .. size[f] : <<f, i>> \in Byte
    BY <1>1 DEF Byte
  <1> QED BY <1>1, <1>2 DEF Data

\* The bytes of f from o to e.
LEMMA PartFacts ==
    ASSUME Given, NEW f \in Images, NEW o \in Nat, NEW n \in Nat
    PROVE  LET s == Slice(Data(f), o, n)
               e == IF size[f] <= o + n THEN size[f] ELSE o + n
           IN  /\ s \in Seq(Byte)
               /\ Len(s) = IF e <= o THEN 0 ELSE e - o
               /\ \A i \in 1 .. Len(s) : s[i] = <<f, o + i>>
  <1> DEFINE D == Data(f)
             e == IF size[f] <= o + n THEN size[f] ELSE o + n
             s == SubSeq(D, o + 1, e)
  <1>1. D \in Seq(Byte) /\ Len(D) = size[f] /\ size[f] \in Nat /\ \A i \in 1 .. size[f] : D[i] = <<f, i>>
    BY DataFacts
  <1>2. Slice(Data(f), o, n) = s
    <2>1. Min({size[f], o + n}) = e
      BY <1>1, MinPair
    <2> QED BY <1>1, <2>1 DEF Slice
  <1>3. e \in Nat /\ e <= size[f] /\ e <= o + n
    BY <1>1
  <1> HIDE DEF D, e
  <1>4. \A i \in o + 1 .. e : D[i] \in Byte
    BY <1>1, <1>3
  <1>5. /\ s \in Seq(Byte)
        /\ Len(s) = IF o + 1 <= e THEN e - (o + 1) + 1 ELSE 0
        /\ \A i \in 1 .. e - (o + 1) + 1 : s[i] = D[o + 1 + i - 1]
    <2>1. o + 1 \in Int /\ e \in Int
      BY <1>3
    <2> QED BY <1>4, <2>1, SubSeqProperties
  <1> HIDE DEF s
  <1>6. Len(s) = IF e <= o THEN 0 ELSE e - o
    BY <1>3, <1>5
  <1>7. ASSUME NEW i \in 1 .. Len(s) PROVE s[i] = <<f, o + i>>
    <2>1. i \in 1 .. e - (o + 1) + 1 /\ o + i \in 1 .. size[f] /\ o + 1 + i - 1 = o + i
      BY <1>1, <1>3, <1>6
    <2> QED BY <1>1, <1>5, <2>1
  <1> QED BY <1>2, <1>5, <1>6, <1>7 DEF e

\* How long block b of f is.
BlockLen(f, b) ==
    IF size[f] <= b * BlockSize THEN 0
    ELSE IF size[f] <= b * BlockSize + BlockSize THEN size[f] - b * BlockSize ELSE BlockSize

LEMMA BlockFacts ==
    ASSUME Given, NEW f \in Images, NEW b \in Nat
    PROVE  /\ Block(f, b) \in Seq(Byte)
           /\ Len(Block(f, b)) = BlockLen(f, b)
           /\ BlockLen(f, b) \in 0 .. BlockSize
           /\ \A i \in 1 .. BlockLen(f, b) : Block(f, b)[i] = <<f, b * BlockSize + i>>
           /\ Block(f, b) = <<>> <=> size[f] <= b * BlockSize
  <1> DEFINE o == b * BlockSize
             e == IF size[f] <= o + BlockSize THEN size[f] ELSE o + BlockSize
             s == Slice(Data(f), o, BlockSize)
  <1>1. o \in Nat /\ BlockSize \in Nat \ {0} /\ size[f] \in Nat
    BY Times, Numbers DEF Given
  <1> HIDE DEF o
  <1>2. /\ s \in Seq(Byte) /\ Len(s) = (IF e <= o THEN 0 ELSE e - o)
        /\ \A i \in 1 .. Len(s) : s[i] = <<f, o + i>>
    BY <1>1, PartFacts
  <1>3. Block(f, b) = s
    BY DEF Block, o
  <1>4. BlockLen(f, b) = (IF e <= o THEN 0 ELSE e - o) /\ BlockLen(f, b) \in 0 .. BlockSize
    BY <1>1 DEF BlockLen, o
  <1>5. s = <<>> <=> Len(s) = 0
    BY <1>2, EmptySeq
  <1>6. (IF e <= o THEN 0 ELSE e - o) = 0 <=> size[f] <= o
    BY <1>1
  <1> HIDE DEF s, e
  <1> QED BY <1>2, <1>3, <1>4, <1>5, <1>6 DEF o

-----------------------------------------------------------------------------
(* What is in a file.                                                       *)

Packed == [n : Nat, d : Seq(Byte), raw : BOOLEAN]
ItemType == [t : {"size", "block", "end"}, n : Nat, d : Nat \cup {Junk} \cup Packed]

\* The k-th block as it is compressed.
Comp(f, k) == Compress(f, Block(f, k - 1))

LEMMA CompFacts ==
    ASSUME Given, NEW f \in Images, NEW k \in Nat \ {0}
    PROVE  /\ Comp(f, k) \in Packed
           /\ Comp(f, k).n \in Nat \ {0}
           /\ Comp(f, k).d = Block(f, k - 1)
           /\ level[f] > 0 => Comp(f, k).n = BlockLen(f, k - 1) + 1 /\ ~Comp(f, k).raw
  <1>1. k - 1 \in Nat
    OBVIOUS
  <1> DEFINE d == Block(f, k - 1)
  <1>2. d \in Seq(Byte) /\ Len(d) = BlockLen(f, k - 1)
    BY <1>1, BlockFacts
  <1>3. Len(d) \in Nat
    BY <1>2, LenProperties
  <1>4. level[f] \in Nat
    BY DEF Given
  <1>5. Comp(f, k) = IF level[f] = 0 THEN [n |-> Room, d |-> d, raw |-> TRUE]
                     ELSE [n |-> Len(d) + 1, d |-> d, raw |-> FALSE]
    BY DEF Comp, Compress
  <1> HIDE DEF d
  <1>6. Comp(f, k) \in Packed /\ Comp(f, k).n \in Nat \ {0} /\ Comp(f, k).d = d
    BY <1>2, <1>3, <1>5, Numbers DEF Packed
  <1>7. level[f] > 0 => Comp(f, k).n = Len(d) + 1 /\ ~Comp(f, k).raw
    BY <1>3, <1>4, <1>5
  <1> QED BY <1>2, <1>6, <1>7 DEF d

\* Blocks fit the write buffer (sgzip -B can ask for longer ones).
BlocksFit == BlockSize < BufferSize

\* Sizes and blocks take turns among the first n items.
Paired(f, s, n) ==
    \A k \in Nat \ {0} :
        /\ 2 * k - 1 <= n => s[2 * k - 1] = Size(Comp(f, k).n)
        /\ 2 * k <= n => /\ s[2 * k].t = "block"
                         /\ s[2 * k].d \in Packed \cup {Junk}
                         /\ BlocksFit /\ level[f] > 0 => s[2 * k] = BlockOf(Comp(f, k))

\* Each offset is the one before plus the length of the block.
Sums(f, list) ==
    \A k \in 1 .. Len(list) :
        list[k] = Comp(f, k).n + IF k = 1 THEN 0 ELSE list[k - 1]

\* All blocks but the last of n hold something, and the last if it is not ending.
Started(f, n) == n >= 1 => (n - 1) * BlockSize < size[f]
Ended(f, n)   == n >= 1 /\ Started(f, n - 1) /\ size[f] <= (n - 1) * BlockSize

\* The items in front of the end mark.
Pairs(w) == IF w.state = "whole" THEN Len(w.items) - 1 ELSE Len(w.items)

FileOK(f, w) ==
    /\ w.items \in Seq(ItemType)
    /\ w.disk \in 0 .. Len(w.items)
    /\ w.state \in {"new", "ending", "whole", "cut"}
    /\ Pairs(w) \in Nat
    /\ Paired(f, w.items, Pairs(w))
    /\ w.list \in Seq(Nat)
    /\ w.state \in {"new", "ending"} =>
         Len(w.items) = 2 * Len(w.list) /\ Sums(f, w.list) /\ w.index = None
    /\ w.state = "new" => Started(f, Len(w.list))
    /\ w.state = "ending" => Ended(f, Len(w.list))
    /\ w.state = "whole" =>
         /\ w.index \in Seq(Nat) /\ Sums(f, w.index) /\ Ended(f, Len(w.index))
         /\ Len(w.items) = 2 * Len(w.index) + 1 /\ w.disk = Len(w.items)
         /\ w.items[Len(w.items)].t = "end"
    /\ w.state = "cut" => w.disk = Len(w.items) /\ w.index = None

States == {"new", "ending", "whole", "cut"}
FileType == [items : Seq(ItemType), disk : Nat, fill : Nat, list : Seq(Nat),
             index : Seq(Nat) \cup {None}, state : States]

Good(f) == {w \in FileType : FileOK(f, w)}

FilesOK == file \in [Images -> FileType] /\ \A f \in Images : file[f] \in Good(f)

LEMMA FlushFacts ==
    ASSUME NEW w \in FileType
    PROVE  /\ Flush(w) \in FileType /\ Flush(w).items = w.items /\ Flush(w).disk = Len(w.items)
           /\ Flush(w).fill = 0 /\ Flush(w).list = w.list /\ Flush(w).index = w.index
           /\ Flush(w).state = w.state
  <1>1. w.items \in Seq(ItemType)
    BY DEF FileType
  <1>2. Len(w.items) \in Nat
    BY <1>1, LenProperties
  <1>3. Flush(w) \in FileType
    BY <1>2 DEF FileType, Flush
  <1> QED BY <1>3 DEF FileType, Flush

\* A file with one more item.
Added(w, e, n) == [w EXCEPT !.items = Append(@, e), !.fill = n]

LEMMA AddedFacts ==
    ASSUME NEW w \in FileType, NEW e \in ItemType, NEW n \in Nat
    PROVE  /\ Added(w, e, n) \in FileType /\ Added(w, e, n).items = Append(w.items, e)
           /\ Added(w, e, n).disk = w.disk /\ Added(w, e, n).fill = n
           /\ Added(w, e, n).list = w.list /\ Added(w, e, n).index = w.index
           /\ Added(w, e, n).state = w.state
           /\ Append(w.items, e) \in Seq(ItemType) /\ Len(Append(w.items, e)) = Len(w.items) + 1
           /\ Len(w.items) \in Nat
  <1>1. w.items \in Seq(ItemType)
    BY DEF FileType
  <1>2. /\ Append(w.items, e) \in Seq(ItemType) /\ Len(Append(w.items, e)) = Len(w.items) + 1
        /\ Len(w.items) \in Nat
    BY <1>1
  <1>3. Added(w, e, n) \in FileType
    BY <1>2 DEF FileType, Added
  <1>4. /\ Added(w, e, n).items = Append(w.items, e)
        /\ Added(w, e, n).disk = w.disk /\ Added(w, e, n).fill = n
        /\ Added(w, e, n).list = w.list /\ Added(w, e, n).index = w.index
        /\ Added(w, e, n).state = w.state
    BY DEF FileType, Added
  <1> QED BY <1>2, <1>3, <1>4

\* stream_write: the item is added, or the buffer in its place.
LEMMA StreamWriteFacts ==
    ASSUME NEW w \in FileType, w.disk \in 0 .. Len(w.items),
           NEW item \in ItemType, item.n # 0
    PROVE  LET r == StreamWrite(w, item)
           IN  /\ r \in FileType
               /\ r.list = w.list /\ r.index = w.index /\ r.state = w.state
               /\ r.disk \in 0 .. Len(r.items)
               /\ \E e \in ItemType : /\ r.items = Append(w.items, e)
                                      /\ e.t = item.t
                                      /\ e.d \in {item.d, Junk}
                                      /\ item.n <= BufferSize => e = item
  <1> DEFINE v == IF item.n = 0 \/ w.fill + item.n > BufferSize THEN Flush(w) ELSE w
             junk == [item EXCEPT !.d = Junk]
             r == StreamWrite(w, item)
  <1>1. /\ v \in FileType /\ v.items = w.items /\ v.list = w.list /\ v.index = w.index
        /\ v.state = w.state /\ v.disk \in 0 .. Len(w.items)
    <2>1. v = Flush(w) \/ v = w
      OBVIOUS
    <2>2. Len(w.items) \in Nat
      BY DEF FileType
    <2> HIDE DEF v
    <2> QED BY <2>1, <2>2, FlushFacts
  <1>2. junk \in ItemType /\ junk.t = item.t /\ junk.d = Junk
    BY DEF ItemType
  <1>3. item.n \in Nat /\ v.fill \in Nat
    BY <1>1 DEF ItemType, FileType
  <1>4. v.fill + item.n \in Nat
    BY <1>3
  <1>5. r = IF item.n > BufferSize THEN Flush([v EXCEPT !.items = Append(@, junk)])
            ELSE [v EXCEPT !.items = Append(@, item), !.fill = @ + item.n]
    BY DEF StreamWrite
  <1> HIDE DEF v, r, junk
  <1>6. CASE item.n > BufferSize
    <2> DEFINE a == Added(v, junk, v.fill)
    <2>1. r = Flush(a)
      BY <1>1, <1>5, <1>6 DEF Added, FileType, Flush
    <2>2. /\ a \in FileType /\ a.items = Append(w.items, junk) /\ a.list = w.list /\ a.index = w.index
          /\ a.state = w.state /\ Len(a.items) = Len(w.items) + 1 /\ Len(w.items) \in Nat
      <3>1. /\ a \in FileType /\ a.items = Append(v.items, junk) /\ a.list = v.list /\ a.index = v.index
            /\ a.state = v.state
        BY <1>1, <1>2, <1>3, AddedFacts
      <3>2. Len(Append(v.items, junk)) = Len(v.items) + 1 /\ Len(v.items) \in Nat
        BY <1>1, <1>2, <1>3, AddedFacts
      <3> HIDE DEF a
      <3> QED BY <1>1, <3>1, <3>2
    <2> HIDE DEF a
    <2>3. /\ r \in FileType /\ r.items = a.items /\ r.disk = Len(a.items) /\ r.list = a.list
          /\ r.index = a.index /\ r.state = a.state
      BY <2>1, <2>2, FlushFacts
    <2>4. ~(item.n <= BufferSize)
      BY <1>3, <1>6, Numbers
    <2>5. r.disk \in 0 .. Len(r.items)
      BY <2>2, <2>3
    <2> QED BY <1>2, <2>2, <2>3, <2>4, <2>5 DEF r
  <1>7. CASE ~(item.n > BufferSize)
    <2>1. r = Added(v, item, v.fill + item.n)
      BY <1>5, <1>7 DEF Added
    <2>2. /\ r \in FileType /\ r.items = Append(w.items, item) /\ r.list = w.list /\ r.index = w.index
          /\ r.state = w.state /\ Len(r.items) = Len(w.items) + 1 /\ Len(w.items) \in Nat /\ r.disk = v.disk
      <3>1. /\ r \in FileType /\ r.items = Append(v.items, item) /\ r.list = v.list /\ r.index = v.index
            /\ r.state = v.state /\ r.disk = v.disk
        BY <1>1, <1>4, <2>1, AddedFacts
      <3>2. Len(Append(v.items, item)) = Len(v.items) + 1 /\ Len(v.items) \in Nat
        BY <1>1, <1>4, AddedFacts
      <3> QED BY <1>1, <3>1, <3>2
    <2>3. r.disk \in 0 .. Len(r.items)
      BY <1>1, <2>2
    <2> QED BY <2>2, <2>3 DEF r
  <1> QED BY <1>6, <1>7

-----------------------------------------------------------------------------
(* Following a file: its sizes and its blocks.                              *)

SelectStep(x, k, p) == IF p[1][k].t = p[2] THEN Append(x, p[1][k]) ELSE x

BlocksKept(p, k, x) ==
    /\ x \in Seq(ItemType)
    /\ 2 * Len(x) <= k /\ k <= 2 * Len(x) + 1
    /\ \A j \in 1 .. Len(x) : x[j] = p[1][2 * j]

SizesKept(p, k, x) ==
    /\ x \in Seq(ItemType)
    /\ 2 * Len(x) <= k + 1
    /\ IF k <= p[3] THEN k <= 2 * Len(x) ELSE p[3] = 2 * Len(x)
    /\ \A j \in 1 .. Len(x) : 2 * j - 1 <= p[3] /\ x[j] = p[1][2 * j - 1]

Blocks  == INSTANCE Iteration WITH Step <- SelectStep, Holds <- BlocksKept
Lengths == INSTANCE Iteration WITH Step <- SelectStep, Holds <- SizesKept

\* The first n items of a file that has P in front of its end mark, if it has one.
Marked(s, n, P) == n <= P \/ (n = P + 1 /\ s[n].t = "end" /\ \E m \in Nat : P = 2 * m)

LEMMA AppendFacts ==
    ASSUME NEW T, NEW q \in Seq(T), NEW e \in T
    PROVE  /\ Append(q, e) \in Seq(T)
           /\ Len(Append(q, e)) = Len(q) + 1
           /\ Len(q) \in Nat
           /\ \A k \in 1 .. Len(q) : Append(q, e)[k] = q[k]
           /\ Append(q, e)[Len(q) + 1] = e
  OBVIOUS

\* What is at an odd and what is at an even place.
LEMMA Alternate ==
    ASSUME NEW f \in Images, NEW s, NEW n \in Nat, NEW P \in Nat, Paired(f, s, P), Marked(s, n, P),
           NEW l \in Nat
    PROVE  /\ 2 * l + 1 <= n => s[2 * l + 1].t = IF 2 * l + 1 <= P THEN "size" ELSE "end"
           /\ 2 * l + 2 <= n => 2 * l + 2 <= P /\ s[2 * l + 2].t = "block"
  <1>1. l + 1 \in Nat \ {0} /\ 2 * (l + 1) - 1 = 2 * l + 1 /\ 2 * (l + 1) = 2 * l + 2
    OBVIOUS
  <1>2. /\ 2 * l + 1 <= P => s[2 * l + 1] = Size(Comp(f, l + 1).n)
        /\ 2 * l + 2 <= P => s[2 * l + 2].t = "block"
    BY <1>1 DEF Paired
  <1>3. \A c : Size(c).t = "size"
    BY DEF Size
  <1>4. 2 * l + 1 <= n /\ ~(2 * l + 1 <= P) => s[2 * l + 1].t = "end"
    BY DEF Marked
  <1>5. 2 * l + 2 <= n => 2 * l + 2 <= P
    BY DEF Marked
  <1> QED BY <1>2, <1>3, <1>4, <1>5

LEMMA SelectBlocks ==
    ASSUME NEW f \in Images, NEW s \in Seq(ItemType), NEW n \in 0 .. Len(s), NEW P \in Nat,
           Paired(f, s, P), Marked(s, n, P)
    PROVE  LET x == Select(s, n, "block")
           IN  /\ x \in Seq(ItemType)
               /\ 2 * Len(x) <= n /\ n <= 2 * Len(x) + 1
               /\ \A j \in 1 .. Len(x) : x[j] = s[2 * j]
  <1> DEFINE p == <<s, "block", P>>
  <1>1. p[1] = s /\ p[2] = "block" /\ p[3] = P
    OBVIOUS
  <1>2. n \in Nat
    OBVIOUS
  <1>3. ASSUME NEW m \in Nat
        PROVE  /\ 2 * m + 1 <= n => s[2 * m + 1].t = IF 2 * m + 1 <= P THEN "size" ELSE "end"
               /\ 2 * m + 2 <= n => 2 * m + 2 <= P /\ s[2 * m + 2].t = "block"
    BY <1>2, Alternate
  <1>4. BlocksKept(p, 0, <<>>)
    <2> HIDE DEF p
    <2> QED BY <1>1 DEF BlocksKept
  <1>5. ASSUME NEW k \in 1 .. n, NEW x, BlocksKept(p, k - 1, x)
        PROVE  BlocksKept(p, k, SelectStep(x, k, p))
    <2> HIDE DEF p
    <2> DEFINE l == Len(x)
    <2>1. /\ x \in Seq(ItemType) /\ l \in Nat /\ (k = 2 * l + 1 \/ k = 2 * l + 2)
          /\ \A j \in 1 .. l : x[j] = s[2 * j]
      <3>1. x \in Seq(ItemType) /\ 2 * l <= k - 1 /\ k - 1 <= 2 * l + 1
        BY <1>5 DEF BlocksKept
      <3>2. \A j \in 1 .. l : x[j] = s[2 * j]
        BY <1>1, <1>5 DEF BlocksKept
      <3>3. l \in Nat
        BY <3>1, LenProperties
      <3> HIDE DEF l
      <3>4. k = 2 * l + 1 \/ k = 2 * l + 2
        <4>1. 2 * l <= k - 1 /\ k - 1 <= 2 * l + 1 /\ k \in Int
          BY <3>1
        <4> QED BY <3>3, <4>1
      <3> QED BY <3>1, <3>2, <3>3, <3>4
    <2>2. s[k] \in ItemType /\ n \in Nat
      OBVIOUS
    <2>3. SelectStep(x, k, p) = IF s[k].t = "block" THEN Append(x, s[k]) ELSE x
      BY <1>1 DEF SelectStep
    <2> HIDE DEF l
    <2>4. CASE k = 2 * l + 1
      <3>1. s[k].t # "block"
        <4>1. 2 * l + 1 <= n => s[2 * l + 1].t = IF 2 * l + 1 <= P THEN "size" ELSE "end"
          BY <1>3, <2>1
        <4>2. k <= n
          BY <2>2
        <4> QED BY <2>4, <4>1, <4>2
      <3>2. SelectStep(x, k, p) = x
        BY <2>3, <3>1
      <3>3. 2 * l <= k /\ k <= 2 * l + 1
        BY <2>1, <2>4
      <3> QED BY <1>1, <2>1, <3>2, <3>3 DEF BlocksKept, l
    <2>5. CASE k = 2 * l + 2
      <3>1. s[k].t = "block"
        <4>1. 2 * l + 2 <= n => 2 * l + 2 <= P /\ s[2 * l + 2].t = "block"
          BY <1>3, <2>1
        <4>2. k <= n
          BY <2>2
        <4> QED BY <2>5, <4>1, <4>2
      <3> DEFINE y == Append(x, s[k])
      <3>2. /\ y \in Seq(ItemType) /\ Len(y) = l + 1 /\ y[l + 1] = s[k]
            /\ \A j \in 1 .. l : y[j] = x[j]
        BY <2>1, <2>2, AppendFacts DEF l
      <3> HIDE DEF y
      <3>3. ASSUME NEW j \in 1 .. Len(y) PROVE y[j] = s[2 * j]
        <4>1. CASE j = l + 1
          <5>1. 2 * j = k
            BY <2>1, <2>5, <4>1
          <5> QED BY <3>2, <4>1, <5>1
        <4>2. CASE j # l + 1
          <5>1. j \in 1 .. l
            BY <2>1, <3>2, <4>2
          <5> QED BY <2>1, <3>2, <5>1
        <4> QED BY <4>1, <4>2
      <3>4. 2 * Len(y) <= k /\ k <= 2 * Len(y) + 1
        BY <2>1, <2>5, <3>2
      <3>5. SelectStep(x, k, p) = y
        BY <2>3, <3>1 DEF y
      <3> QED BY <1>1, <3>2, <3>3, <3>4, <3>5 DEF BlocksKept
    <2> QED BY <2>1, <2>4, <2>5
  <1>6. BlocksKept(p, n, Blocks!Iterate(p, <<>>, n))
    <2> HIDE DEF p
    <2> QED BY <1>4, <1>5, <1>2, Blocks!IterateHolds
  <1>7. Select(s, n, "block") = Blocks!Iterate(p, <<>>, n)
    BY DEF Select, Blocks!Iterate, SelectStep
  <1> QED BY <1>6, <1>7 DEF BlocksKept

LEMMA SelectSizes ==
    ASSUME NEW f \in Images, NEW s \in Seq(ItemType), NEW n \in 0 .. Len(s), NEW P \in Nat,
           Paired(f, s, P), Marked(s, n, P)
    PROVE  LET x == Select(s, n, "size")
           IN  /\ x \in Seq(ItemType)
               /\ 2 * Len(x) <= n + 1
               /\ IF n <= P THEN n <= 2 * Len(x) ELSE P = 2 * Len(x)
               /\ \A j \in 1 .. Len(x) : x[j] = Size(Comp(f, j).n)
  <1> DEFINE p == <<s, "size", P>>
  <1>1. p[1] = s /\ p[2] = "size" /\ p[3] = P
    OBVIOUS
  <1>2. n \in Nat
    OBVIOUS
  <1>3. ASSUME NEW m \in Nat
        PROVE  /\ 2 * m + 1 <= n => s[2 * m + 1].t = IF 2 * m + 1 <= P THEN "size" ELSE "end"
               /\ 2 * m + 2 <= n => 2 * m + 2 <= P /\ s[2 * m + 2].t = "block"
    BY <1>2, Alternate
  <1>4. SizesKept(p, 0, <<>>)
    <2> HIDE DEF p
    <2> QED BY <1>1 DEF SizesKept
  <1>5. ASSUME NEW k \in 1 .. n, NEW x, SizesKept(p, k - 1, x)
        PROVE  SizesKept(p, k, SelectStep(x, k, p))
    <2> HIDE DEF p
    <2> DEFINE l == Len(x)
    <2>0. k - 1 <= P
      BY DEF Marked
    <2>1. /\ x \in Seq(ItemType) /\ l \in Nat /\ 2 * l <= k /\ k - 1 <= 2 * l
          /\ \A j \in 1 .. l : 2 * j - 1 <= P /\ x[j] = s[2 * j - 1]
      <3>1. x \in Seq(ItemType) /\ 2 * l <= (k - 1) + 1 /\ k - 1 <= 2 * l
        BY <1>1, <1>5, <2>0 DEF SizesKept
      <3>2. \A j \in 1 .. l : 2 * j - 1 <= P /\ x[j] = s[2 * j - 1]
        BY <1>1, <1>5 DEF SizesKept
      <3>3. l \in Nat
        BY <3>1, LenProperties
      <3> HIDE DEF l
      <3>4. 2 * l <= k
        <4>1. 2 * l <= (k - 1) + 1 /\ k \in Int
          BY <3>1
        <4> QED BY <3>3, <4>1
      <3> QED BY <3>1, <3>2, <3>3, <3>4
    <2>2. s[k] \in ItemType /\ n \in Nat
      OBVIOUS
    <2>3. SelectStep(x, k, p) = IF s[k].t = "size" THEN Append(x, s[k]) ELSE x
      BY <1>1 DEF SelectStep
    <2> HIDE DEF l
    <2>4. CASE k = 2 * l
      <3>1. l - 1 \in Nat /\ 2 * (l - 1) + 2 = k
        BY <2>1, <2>4
      <3>2. k <= P /\ s[k].t = "block"
        <4>1. /\ 2 * (l - 1) + 2 <= n => 2 * (l - 1) + 2 <= P /\ s[2 * (l - 1) + 2].t = "block"
          BY <1>3, <3>1
        <4>2. k <= n
          BY <2>2
        <4> QED BY <3>1, <4>1, <4>2
      <3>3. SelectStep(x, k, p) = x
        BY <2>3, <3>2
      <3>4. 2 * l <= k + 1 /\ k <= 2 * l
        BY <2>1, <2>4
      <3> QED BY <1>1, <2>1, <3>2, <3>3, <3>4 DEF SizesKept, l
    <2>5. CASE k = 2 * l + 1 /\ ~(k <= P)
      <3>1. s[k].t # "size"
        <4>1. 2 * l + 1 <= n => s[2 * l + 1].t = IF 2 * l + 1 <= P THEN "size" ELSE "end"
          BY <1>3, <2>1
        <4>2. k <= n
          BY <2>2
        <4> QED BY <2>5, <4>1, <4>2
      <3>2. P = 2 * l
        BY <2>0, <2>1, <2>5
      <3>3. SelectStep(x, k, p) = x
        BY <2>3, <3>1
      <3>4. 2 * l <= k + 1
        BY <2>1, <2>5
      <3> QED BY <1>1, <2>1, <2>5, <3>2, <3>3, <3>4 DEF SizesKept, l
    <2>6. CASE k = 2 * l + 1 /\ k <= P
      <3>1. s[k].t = "size"
        <4>1. 2 * l + 1 <= n => s[2 * l + 1].t = IF 2 * l + 1 <= P THEN "size" ELSE "end"
          BY <1>3, <2>1
        <4> QED BY <2>1, <2>6, <4>1
      <3> DEFINE y == Append(x, s[k])
      <3>2. /\ y \in Seq(ItemType) /\ Len(y) = l + 1 /\ y[l + 1] = s[k]
            /\ \A j \in 1 .. l : y[j] = x[j]
        BY <2>1, <2>2, AppendFacts DEF l
      <3> HIDE DEF y
      <3>3. ASSUME NEW j \in 1 .. Len(y) PROVE 2 * j - 1 <= P /\ y[j] = s[2 * j - 1]
        <4>1. CASE j = l + 1
          <5>1. 2 * j - 1 = k
            BY <2>1, <2>6, <4>1
          <5> QED BY <2>6, <3>2, <4>1, <5>1
        <4>2. CASE j # l + 1
          <5>1. j \in 1 .. l
            BY <2>1, <3>2, <4>2
          <5> QED BY <2>1, <3>2, <5>1
        <4> QED BY <4>1, <4>2
      <3>4. 2 * Len(y) <= k + 1 /\ k <= 2 * Len(y)
        BY <2>1, <2>6, <3>2
      <3>5. SelectStep(x, k, p) = y
        BY <2>3, <3>1 DEF y
      <3> QED BY <1>1, <2>6, <3>2, <3>3, <3>4, <3>5 DEF SizesKept
    <2> QED BY <2>1, <2>4, <2>5, <2>6
  <1>6. SizesKept(p, n, Lengths!Iterate(p, <<>>, n))
    <2> HIDE DEF p
    <2> QED BY <1>4, <1>5, <1>2, Lengths!IterateHolds
  <1>7. Select(s, n, "size") = Lengths!Iterate(p, <<>>, n)
    BY DEF Select, Lengths!Iterate, SelectStep
  <1> DEFINE x == Select(s, n, "size")
  <1>8. /\ x \in Seq(ItemType) /\ 2 * Len(x) <= n + 1
        /\ IF n <= P THEN n <= 2 * Len(x) ELSE P = 2 * Len(x)
        /\ \A j \in 1 .. Len(x) : 2 * j - 1 <= P /\ x[j] = s[2 * j - 1]
    BY <1>6, <1>7 DEF SizesKept
  <1> HIDE DEF x
  <1>9. ASSUME NEW j \in 1 .. Len(x) PROVE x[j] = Size(Comp(f, j).n)
    <2>1. j \in Nat \ {0}
      <3>1. Len(x) \in Nat
        BY <1>8, LenProperties
      <3> QED BY <3>1
    <2>2. 2 * j - 1 <= P /\ x[j] = s[2 * j - 1]
      BY <1>8
    <2>3. 2 * j - 1 <= P => s[2 * j - 1] = Size(Comp(f, j).n)
      BY <2>1 DEF Paired
    <2> QED BY <2>2, <2>3
  <1> QED BY <1>8, <1>9 DEF x

-----------------------------------------------------------------------------
(* Writing keeps the files good.                                            *)

LEMMA GoodSame ==
    ASSUME NEW f \in Images, UNCHANGED <<size, level>>
    PROVE  Good(f)' = Good(f)
  BY DEF Good, FileOK, Paired, Packed, Sums, Started, Ended, Comp, Compress, Block, Slice, Data

\* One file is written.
LEMMA OneWritten ==
    ASSUME Given, FilesOK, NEW f \in Images, NEW w \in Good(f),
           file' = [file EXCEPT ![f] = w], UNCHANGED <<size, level>>
    PROVE  Given' /\ FilesOK'
  <1>1. Given'
    BY DEF Given
  <1>2. w \in FileType
    BY DEF Good
  <1>3. file' \in [Images -> FileType] /\ \A g \in Images : file'[g] = IF g = f THEN w ELSE file[g]
    BY <1>2 DEF FilesOK
  <1>4. \A g \in Images : file'[g] \in Good(g)
    BY <1>3 DEF FilesOK
  <1>5. \A g \in Images : Good(g)' = Good(g)
    BY GoodSame
  <1>6. \A g \in Images : file'[g] \in Good(g)'
    BY <1>4, <1>5
  <1> QED BY <1>1, <1>3, <1>6 DEF FilesOK

LEMMA FileFacts ==
    ASSUME Given, FilesOK, NEW f \in Images
    PROVE  LET w == file[f]
           IN  /\ w \in FileType /\ FileOK(f, w)
               /\ w.items \in Seq(ItemType) /\ Len(w.items) \in Nat
               /\ w.disk \in 0 .. Len(w.items)
               /\ Pairs(w) \in Nat /\ Paired(f, w.items, Pairs(w))
               /\ Marked(w.items, w.disk, Pairs(w))
               /\ Marked(w.items, Len(w.items), Pairs(w))
  <1> DEFINE w == file[f]
  <1>1. w \in FileType /\ FileOK(f, w)
    BY DEF FilesOK, Good
  <1> HIDE DEF w
  <1>2. /\ w.items \in Seq(ItemType) /\ Len(w.items) \in Nat
        /\ w.disk \in 0 .. Len(w.items)
        /\ Pairs(w) \in Nat /\ Paired(f, w.items, Pairs(w))
    BY <1>1 DEF FileOK, FileType
  <1>3. CASE w.state = "whole"
    <2>1. /\ w.index \in Seq(Nat) /\ Len(w.items) = 2 * Len(w.index) + 1 /\ w.disk = Len(w.items)
          /\ w.items[Len(w.items)].t = "end"
      BY <1>1, <1>3 DEF FileOK
    <2>2. Pairs(w) = 2 * Len(w.index) /\ Len(w.index) \in Nat
      BY <1>3, <2>1 DEF Pairs
    <2> QED BY <1>1, <1>2, <2>1, <2>2 DEF Marked, w
  <1>4. CASE w.state # "whole"
    BY <1>1, <1>2, <1>4 DEF Pairs, Marked, w
  <1> QED BY <1>3, <1>4

\* The list of an unfinished file has as many offsets as there are blocks.
LEMMA WrittenFacts ==
    ASSUME Given, FilesOK, NEW f \in Images, file[f].state = "new"
    PROVE  Len(Written(f)) = Len(file[f].list) /\ Len(file[f].list) \in Nat
  <1> DEFINE w == file[f]
             x == Select(w.items, Len(w.items), "block")
  <1>1. /\ w.items \in Seq(ItemType) /\ Len(w.items) \in 0 .. Len(w.items)
        /\ Pairs(w) \in Nat /\ Paired(f, w.items, Pairs(w)) /\ Marked(w.items, Len(w.items), Pairs(w))
        /\ FileOK(f, w)
    BY FileFacts
  <1>2. x \in Seq(ItemType) /\ 2 * Len(x) <= Len(w.items) /\ Len(w.items) <= 2 * Len(x) + 1
    <2> HIDE DEF w
    <2> QED BY <1>1, SelectBlocks
  <1>3. Len(x) \in Nat
    <2> HIDE DEF x
    <2> QED BY <1>2, LenProperties
  <1>4. Len(w.items) = 2 * Len(w.list) /\ Len(w.list) \in Nat
    BY <1>1 DEF FileOK
  <1>5. Written(f) = x
    BY DEF Written
  <1> HIDE DEF x, w
  <1>6. Len(x) = Len(w.list)
    BY <1>2, <1>3, <1>4
  <1> QED BY <1>4, <1>5, <1>6 DEF w

LEMMA PairedAppend ==
    ASSUME NEW f \in Images, NEW s \in Seq(ItemType), NEW l \in Nat, Len(s) = 2 * l, Paired(f, s, 2 * l),
           NEW e \in ItemType, Size(Comp(f, l + 1).n) \in ItemType, e.t = "block",
           e.d \in Packed \cup {Junk},
           BlocksFit /\ level[f] > 0 => e = BlockOf(Comp(f, l + 1))
    PROVE  LET v == Append(Append(s, Size(Comp(f, l + 1).n)), e)
           IN  Len(v) = 2 * l + 2 /\ Paired(f, v, 2 * l + 2)
  <1> DEFINE u == Append(s, Size(Comp(f, l + 1).n))
             v == Append(u, e)
  <1>0. u \in Seq(ItemType) /\ v \in Seq(ItemType)
    BY AppendFacts
  <1>1. Len(u) = 2 * l + 1 /\ u[2 * l + 1] = Size(Comp(f, l + 1).n) /\ \A i \in 1 .. 2 * l : u[i] = s[i]
    BY AppendFacts
  <1> HIDE DEF u
  <1>2. Len(v) = 2 * l + 2 /\ v[2 * l + 2] = e /\ \A i \in 1 .. 2 * l + 1 : v[i] = u[i]
    BY <1>0, <1>1, AppendFacts
  <1> HIDE DEF v
  <1>3. v[2 * l + 1] = Size(Comp(f, l + 1).n) /\ \A i \in 1 .. 2 * l : v[i] = s[i]
    <2>1. \A i \in 1 .. 2 * l : i \in 1 .. 2 * l + 1
      OBVIOUS
    <2> QED BY <1>1, <1>2, <2>1
  <1>4. ASSUME NEW k \in Nat \ {0}
        PROVE  /\ 2 * k - 1 <= 2 * l + 2 => v[2 * k - 1] = Size(Comp(f, k).n)
               /\ 2 * k <= 2 * l + 2 => /\ v[2 * k].t = "block"
                                        /\ v[2 * k].d \in Packed \cup {Junk}
                                        /\ BlocksFit /\ level[f] > 0 => v[2 * k] = BlockOf(Comp(f, k))
    <2>1. CASE k = l + 1
      <3>1. 2 * k - 1 = 2 * l + 1 /\ 2 * k = 2 * l + 2
        BY <2>1
      <3> QED BY <1>2, <1>3, <2>1, <3>1
    <2>2. CASE k <= l
      <3>1. 2 * k - 1 \in 1 .. 2 * l /\ 2 * k \in 1 .. 2 * l /\ 2 * k - 1 <= 2 * l /\ 2 * k <= 2 * l
        BY <2>2
      <3>2. v[2 * k - 1] = s[2 * k - 1] /\ v[2 * k] = s[2 * k]
        BY <1>3, <3>1
      <3> QED BY <3>1, <3>2 DEF Paired
    <2>3. CASE k > l + 1
      BY <2>3
    <2>4. k = l + 1 \/ k <= l \/ k > l + 1
      OBVIOUS
    <2> QED BY <2>1, <2>2, <2>3, <2>4
  <1>5. Len(v) = 2 * l + 2 /\ Paired(f, v, 2 * l + 2)
    BY <1>2, <1>4 DEF Paired
  <1> QED BY <1>5 DEF v, u

LEMMA AddItemFacts ==
    ASSUME Given, NEW f \in Images, NEW list \in Seq(Nat), Sums(f, list)
    PROVE  LET r == AddItem(list, Comp(f, Len(list) + 1).n)
           IN  r \in Seq(Nat) /\ Len(r) = Len(list) + 1 /\ Sums(f, r)
  <1> DEFINE n == Comp(f, Len(list) + 1).n
             z == IF list = <<>> THEN 0 ELSE Last(list)
             r == Append(list, n + z)
  <1>1. Len(list) \in Nat
    OBVIOUS
  <1>2. n \in Nat
    <2>1. Len(list) + 1 \in Nat \ {0}
      BY <1>1
    <2> QED BY <2>1, CompFacts
  <1>3. z \in Nat /\ z = IF Len(list) + 1 = 1 THEN 0 ELSE list[Len(list) + 1 - 1]
    <2>1. CASE list = <<>>
      BY <2>1
    <2>2. CASE list # <<>>
      <3>1. Len(list) # 0 /\ Len(list) \in 1 .. Len(list)
        BY <1>1, <2>2, EmptySeq
      <3>2. Last(list) = list[Len(list)] /\ list[Len(list)] \in Nat
        BY <3>1 DEF Last
      <3> QED BY <1>1, <2>2, <3>1, <3>2
    <2> QED BY <2>1, <2>2
  <1>4. AddItem(list, Comp(f, Len(list) + 1).n) = r
    BY DEF AddItem
  <1> HIDE DEF z, n
  <1>5. n + z \in Nat
    BY <1>2, <1>3
  <1>6. /\ r \in Seq(Nat) /\ Len(r) = Len(list) + 1 /\ r[Len(list) + 1] = n + z
        /\ \A k \in 1 .. Len(list) : r[k] = list[k]
    BY <1>5, AppendFacts
  <1> HIDE DEF r
  <1>7. ASSUME NEW k \in 1 .. Len(r)
        PROVE  r[k] = Comp(f, k).n + IF k = 1 THEN 0 ELSE r[k - 1]
    <2>1. CASE k = Len(list) + 1
      <3>1. CASE k = 1
        BY <1>3, <1>6, <2>1, <3>1 DEF n
      <3>2. CASE k # 1
        <4>1. Len(list) \in 1 .. Len(list) /\ k - 1 = Len(list)
          BY <1>1, <2>1, <3>2
        <4>2. r[k - 1] = list[Len(list)]
          BY <1>6, <4>1
        <4>3. z = list[Len(list)]
          BY <1>1, <1>3, <4>1
        <4> QED BY <1>6, <2>1, <3>2, <4>2, <4>3 DEF n
      <3> QED BY <3>1, <3>2
    <2>2. CASE k # Len(list) + 1
      <3>1. k \in 1 .. Len(list) /\ (k # 1 => k - 1 \in 1 .. Len(list))
        BY <1>1, <1>6, <2>2
      <3> QED BY <1>6, <3>1 DEF Sums
    <2> QED BY <2>1, <2>2
  <1>8. Sums(f, r)
    BY <1>7 DEF Sums
  <1> QED BY <1>4, <1>6, <1>8

LEMMA CompressBlockGood ==
    ASSUME Given, FilesOK, NEW f \in Images, CompressBlock(f)
    PROVE  Given' /\ FilesOK'
  <1> DEFINE o == file[f]
             l == Len(o.list)
             c == Comp(f, l + 1)
             u == StreamWrite(o, Size(c.n))
             v == StreamWrite(u, BlockOf(c))
             q == IF Block(f, l) = <<>> THEN "ending" ELSE "new"
             w == [v EXCEPT !.list = AddItem(@, c.n), !.state = q]
  <1>1. l \in Nat /\ Len(Written(f)) = l /\ o.state = "new"
    BY WrittenFacts DEF CompressBlock
  <1>2. Compress(f, NextBlock(f)) = c
    <2>1. NextBlock(f) = Block(f, l)
      BY <1>1 DEF NextBlock
    <2>2. (l + 1) - 1 = l
      BY <1>1
    <2> QED BY <2>1, <2>2 DEF Comp
  <1>3. file' = [file EXCEPT ![f] = w] /\ UNCHANGED <<size, level>>
    BY <1>1, <1>2 DEF CompressBlock, NextBlock
  <1>4. /\ o \in FileType /\ FileOK(f, o) /\ o.disk \in 0 .. Len(o.items) /\ o.items \in Seq(ItemType)
    BY FileFacts
  <1>5. /\ Len(o.items) = 2 * l /\ Paired(f, o.items, 2 * l) /\ o.list \in Seq(Nat) /\ Sums(f, o.list)
        /\ o.index = None /\ Started(f, l)
    BY <1>1, <1>4 DEF FileOK, Pairs
  <1>6. /\ c \in Packed /\ c.n \in Nat \ {0} /\ c.d = Block(f, l)
        /\ level[f] > 0 => c.n = BlockLen(f, l) + 1
    <2>1. l + 1 \in Nat \ {0} /\ (l + 1) - 1 = l
      BY <1>1
    <2>2. /\ Comp(f, l + 1) \in Packed /\ Comp(f, l + 1).n \in Nat \ {0} /\ Comp(f, l + 1).d = Block(f, (l + 1) - 1)
          /\ level[f] > 0 => Comp(f, l + 1).n = BlockLen(f, (l + 1) - 1) + 1
      BY <2>1, CompFacts
    <2> QED BY <2>1, <2>2
  <1>7. /\ Size(c.n) \in ItemType /\ Size(c.n).n # 0 /\ Size(c.n).n <= BufferSize
        /\ BlockOf(c) \in ItemType /\ BlockOf(c).n # 0 /\ BlockOf(c).t = "block" /\ BlockOf(c).n = c.n
        /\ BlockOf(c).d \in Packed
    <2> HIDE DEF c
    <2> QED BY <1>6, Numbers DEF Size, BlockOf, ItemType
  <1>8. BlocksFit /\ level[f] > 0 => c.n <= BufferSize
    <2>1. BlockLen(f, l) \in 0 .. BlockSize
      BY <1>1, BlockFacts
    <2> HIDE DEF c, l
    <2> QED BY <1>6, <2>1, Numbers DEF BlocksFit
  <1>9. /\ u \in FileType /\ u.list = o.list /\ u.index = o.index /\ u.state = o.state
        /\ u.disk \in 0 .. Len(u.items) /\ u.items = Append(o.items, Size(c.n))
    <2> HIDE DEF o, c
    <2> QED BY <1>4, <1>7, StreamWriteFacts
  <1> HIDE DEF u
  <1>10. /\ v \in FileType /\ v.list = u.list /\ v.index = u.index /\ v.state = u.state
         /\ v.disk \in 0 .. Len(v.items)
         /\ \E e \in ItemType : v.items = Append(u.items, e) /\ e.t = BlockOf(c).t /\ e.d \in {BlockOf(c).d, Junk}
                                 /\ (BlockOf(c).n <= BufferSize => e = BlockOf(c))
    <2> HIDE DEF o, c
    <2> QED BY <1>9, <1>7, StreamWriteFacts
  <1> HIDE DEF v, o
  <1>11. v.items \in Seq(ItemType) /\ u.items \in Seq(ItemType)
    BY <1>9, <1>10 DEF FileType
  <1>12. Len(v.items) = 2 * l + 2 /\ Paired(f, v.items, 2 * l + 2)
    <2>1. PICK e \in ItemType : v.items = Append(u.items, e) /\ e.t = BlockOf(c).t /\ e.d \in {BlockOf(c).d, Junk}
                                 /\ (BlockOf(c).n <= BufferSize => e = BlockOf(c))
      BY <1>10
    <2>2. e.t = "block" /\ e.d \in Packed \cup {Junk} /\ (BlocksFit /\ level[f] > 0 => e = BlockOf(c))
      <3> HIDE DEF c, l
      <3> QED BY <1>7, <1>8, <2>1
    <2> DEFINE s == o.items
    <2>3. /\ s \in Seq(ItemType) /\ Len(s) = 2 * l /\ Paired(f, s, 2 * l)
          /\ Size(Comp(f, l + 1).n) \in ItemType
          /\ v.items = Append(Append(s, Size(Comp(f, l + 1).n)), e)
          /\ BlocksFit /\ level[f] > 0 => e = BlockOf(Comp(f, l + 1))
      BY <1>4, <1>5, <1>7, <1>9, <1>11, <2>1, <2>2
    <2> HIDE DEF l, s
    <2> QED BY <1>1, <2>2, <2>3, PairedAppend
  <1> DEFINE a == AddItem(o.list, c.n)
  <1>13. a \in Seq(Nat) /\ Len(a) = l + 1 /\ Sums(f, a)
    BY <1>5, AddItemFacts
  <1> HIDE DEF c, l, a
  <1>14. w = [v EXCEPT !.list = a, !.state = q]
    BY <1>9, <1>10 DEF a
  <1> HIDE DEF w
  <1>15. q \in States /\ q \in {"new", "ending"}
    BY DEF States
  <1>16. w \in FileType
    <2> HIDE DEF q
    <2> QED BY <1>10, <1>13, <1>14, <1>15 DEF FileType
  <1>17. /\ w.items = v.items /\ w.disk = v.disk /\ w.list = a /\ w.index = None /\ w.state = q
    <2> HIDE DEF q
    <2> QED BY <1>5, <1>9, <1>10, <1>14 DEF FileType
  <1>18. q = "new" => Started(f, l + 1)
    <2>1. q = "new" => Block(f, l) # <<>>
      OBVIOUS
    <2>2. Block(f, l) # <<>> => l * BlockSize < size[f]
      <3>1. l * BlockSize \in Nat /\ size[f] \in Nat
        BY <1>1, Times DEF Given
      <3>2. Block(f, l) = <<>> <=> size[f] <= l * BlockSize
        BY <1>1, BlockFacts
      <3> QED BY <3>1, <3>2
    <2>3. (l + 1) - 1 = l
      BY <1>1
    <2>4. Block(f, l) # <<>> => ((l + 1) - 1) * BlockSize < size[f]
      BY <2>2, <2>3
    <2> HIDE DEF q
    <2>5. Block(f, l) # <<>> => Started(f, l + 1)
      BY <2>4 DEF Started
    <2> QED BY <2>1, <2>5
  <1>19. q = "ending" => Ended(f, l + 1)
    <2>1. q = "ending" => Block(f, l) = <<>>
      OBVIOUS
    <2>2. Block(f, l) = <<>> => size[f] <= l * BlockSize
      BY <1>1, BlockFacts
    <2>3. (l + 1) - 1 = l /\ l + 1 >= 1
      BY <1>1
    <2>4. Started(f, (l + 1) - 1)
      BY <1>5, <2>3
    <2>5. Block(f, l) = <<>> => size[f] <= ((l + 1) - 1) * BlockSize
      BY <2>2, <2>3
    <2> HIDE DEF q
    <2>6. Block(f, l) = <<>> => Ended(f, l + 1)
      BY <2>3, <2>4, <2>5 DEF Ended
    <2> QED BY <2>1, <2>6
  <1> HIDE DEF q
  <1>20. Pairs(w) = 2 * l + 2 /\ 2 * l + 2 \in Nat /\ 2 * l + 2 = 2 * Len(a)
    BY <1>1, <1>12, <1>13, <1>15, <1>17 DEF Pairs
  <1>21. FileOK(f, w)
    BY <1>10, <1>11, <1>12, <1>13, <1>15, <1>17, <1>18, <1>19, <1>20 DEF FileOK, States
  <1> QED BY <1>3, <1>16, <1>21, OneWritten DEF Good

LEMMA WriteIndexGood ==
    ASSUME Given, FilesOK, NEW f \in Images, WriteIndex(f)
    PROVE  Given' /\ FilesOK'
  <1> DEFINE o == file[f]
             l == Len(o.list)
             u == StreamWrite(o, End)
             v == Flush(u)
             w == [v EXCEPT !.index = o.list, !.list = <<>>, !.state = "whole"]
  <1>1. file' = [file EXCEPT ![f] = w] /\ UNCHANGED <<size, level>> /\ o.state = "ending"
    BY DEF WriteIndex
  <1>2. /\ o \in FileType /\ FileOK(f, o) /\ o.disk \in 0 .. Len(o.items) /\ o.items \in Seq(ItemType)
    BY FileFacts
  <1>3. /\ Len(o.items) = 2 * l /\ Paired(f, o.items, 2 * l) /\ o.list \in Seq(Nat) /\ Sums(f, o.list)
        /\ Ended(f, l) /\ l \in Nat
    BY <1>1, <1>2 DEF FileOK, Pairs
  <1>4. End \in ItemType /\ End.n # 0 /\ End.t = "end"
    BY DEF End, ItemType
  <1> HIDE DEF o
  <1>5. /\ u \in FileType /\ \E e \in ItemType : u.items = Append(o.items, e) /\ e.t = End.t
    BY <1>2, <1>4, StreamWriteFacts
  <1>6. PICK e \in ItemType : u.items = Append(o.items, e) /\ e.t = "end"
    BY <1>4, <1>5
  <1> HIDE DEF u, l
  <1>7. /\ u.items \in Seq(ItemType) /\ Len(u.items) = 2 * l + 1 /\ u.items[2 * l + 1] = e
        /\ \A k \in 1 .. 2 * l : u.items[k] = o.items[k]
    <2> DEFINE s == o.items
    <2>1. s \in Seq(ItemType) /\ Len(s) = 2 * l
      BY <1>2, <1>3
    <2> HIDE DEF s
    <2>2. /\ Append(s, e) \in Seq(ItemType) /\ Len(Append(s, e)) = 2 * l + 1 /\ Append(s, e)[2 * l + 1] = e
          /\ \A k \in 1 .. 2 * l : Append(s, e)[k] = s[k]
      BY <2>1, AppendFacts
    <2> QED BY <1>6, <2>2 DEF s
  <1>8. v \in FileType /\ v.items = u.items /\ v.disk = Len(u.items)
    BY <1>5, FlushFacts
  <1> HIDE DEF v
  <1>9. w \in FileType
    <2>1. <<>> \in Seq(Nat) /\ "whole" \in States
      BY DEF States
    <2> QED BY <1>3, <1>8, <2>1 DEF FileType
  <1>10. /\ w.items = u.items /\ w.disk = Len(u.items) /\ w.list = <<>> /\ w.index = o.list
         /\ w.state = "whole"
    BY <1>8 DEF FileType
  <1> HIDE DEF w
  <1>11. Pairs(w) = 2 * l /\ 2 * l \in Nat
    BY <1>3, <1>7, <1>10 DEF Pairs
  <1>12. Paired(f, u.items, 2 * l)
    <2> SUFFICES ASSUME NEW k \in Nat \ {0}
                 PROVE  /\ 2 * k - 1 <= 2 * l => u.items[2 * k - 1] = o.items[2 * k - 1]
                        /\ 2 * k <= 2 * l => u.items[2 * k] = o.items[2 * k]
      BY <1>3 DEF Paired
    <2>1. /\ 2 * k - 1 <= 2 * l => 2 * k - 1 \in 1 .. 2 * l
          /\ 2 * k <= 2 * l => 2 * k \in 1 .. 2 * l
      BY <1>3
    <2> QED BY <1>7, <2>1
  <1>13. <<>> \in Seq(Nat) /\ w.disk \in 0 .. Len(w.items) /\ Len(w.items) = 2 * Len(w.index) + 1
         /\ w.items[Len(w.items)].t = "end"
    BY <1>3, <1>6, <1>7, <1>10 DEF l
  <1>14. FileOK(f, w)
    BY <1>3, <1>7, <1>10, <1>11, <1>12, <1>13 DEF FileOK, l
  <1> QED BY <1>1, <1>9, <1>14, OneWritten DEF Good

LEMMA KillGood ==
    ASSUME Given, FilesOK, NEW f \in Images, Kill(f)
    PROVE  Given' /\ FilesOK'
  <1> DEFINE o == file[f]
             s == SubSeq(o.items, 1, o.disk)
             w == [o EXCEPT !.items = s, !.fill = 0, !.list = <<>>, !.state = "cut"]
  <1>1. /\ o \in FileType /\ FileOK(f, o) /\ o.disk \in 0 .. Len(o.items) /\ o.items \in Seq(ItemType)
    BY FileFacts
  <1>2. file' = [file EXCEPT ![f] = w] /\ UNCHANGED <<size, level>> /\ o.state \in {"new", "ending"}
    BY DEF Kill, FilesOK
  <1>3. Paired(f, o.items, Len(o.items)) /\ o.index = None /\ Len(o.items) \in Nat
    BY <1>1, <1>2 DEF FileOK, Pairs
  <1> HIDE DEF o
  <1>4. s \in Seq(ItemType) /\ Len(s) = o.disk /\ \A k \in 1 .. o.disk : s[k] = o.items[k]
    BY <1>1, <1>3
  <1> HIDE DEF s
  <1>5. w \in FileType
    <2>1. <<>> \in Seq(Nat) /\ "cut" \in States
      BY DEF States
    <2> QED BY <1>1, <1>4, <2>1 DEF FileType
  <1>6. /\ w.items = s /\ w.disk = o.disk /\ w.list = <<>> /\ w.index = None /\ w.state = "cut"
    BY <1>1, <1>3 DEF FileType
  <1> HIDE DEF w
  <1>7. Pairs(w) = o.disk /\ o.disk \in Nat
    BY <1>1, <1>3, <1>4, <1>6 DEF Pairs
  <1>8. Paired(f, s, o.disk)
    <2> SUFFICES ASSUME NEW k \in Nat \ {0}
                 PROVE  /\ 2 * k - 1 <= o.disk => 2 * k - 1 <= Len(o.items) /\ s[2 * k - 1] = o.items[2 * k - 1]
                        /\ 2 * k <= o.disk => 2 * k <= Len(o.items) /\ s[2 * k] = o.items[2 * k]
      BY <1>3 DEF Paired
    <2>1. /\ 2 * k - 1 <= o.disk => 2 * k - 1 \in 1 .. o.disk /\ 2 * k - 1 <= Len(o.items)
          /\ 2 * k <= o.disk => 2 * k \in 1 .. o.disk /\ 2 * k <= Len(o.items)
      BY <1>1, <1>3
    <2> QED BY <1>4, <2>1
  <1>9. w.list \in Seq(Nat) /\ w.disk \in 0 .. Len(w.items)
    BY <1>4, <1>6, <1>7
  <1>10. FileOK(f, w)
    BY <1>4, <1>6, <1>7, <1>8, <1>9 DEF FileOK
  <1> QED BY <1>2, <1>5, <1>10, OneWritten DEF Good

Inv == Given /\ FilesOK

LEMMA InitGood == Init => Inv
  <1> SUFFICES ASSUME Init PROVE Inv
    OBVIOUS
  <1>1. Given
    <2>1. Sizes \subseteq Nat /\ Levels \subseteq 0 .. 9
      BY SgzipAssumption
    <2>2. \A l \in Levels : l \in Nat
      BY <2>1
    <2>3. size \in [Images -> Sizes] /\ level \in [Images -> Levels]
      BY DEF Init
    <2> QED BY <2>1, <2>2, <2>3 DEF Given
  <1>2. NewFile \in FileType
    BY DEF NewFile, FileType, States
  <1>3. ASSUME NEW f \in Images PROVE FileOK(f, NewFile)
    <2>1. /\ NewFile.items = <<>> /\ NewFile.disk = 0 /\ NewFile.list = <<>> /\ NewFile.index = None
          /\ NewFile.state = "new"
      BY DEF NewFile
    <2>2. Len(<<>>) = 0 /\ <<>> \in Seq(ItemType) /\ <<>> \in Seq(Nat)
      OBVIOUS
    <2>3. Paired(f, <<>>, 0)
      BY DEF Paired
    <2>4. Sums(f, <<>>) /\ Started(f, 0)
      BY DEF Sums, Started
    <2>5. Pairs(NewFile) = 0
      BY <2>1, <2>2 DEF Pairs
    <2> QED BY <2>1, <2>2, <2>3, <2>4, <2>5 DEF FileOK
  <1>4. file \in [Images -> FileType] /\ \A f \in Images : file[f] \in Good(f)
    BY <1>2, <1>3 DEF Init, Good
  <1> QED BY <1>1, <1>4 DEF Inv, FilesOK

LEMMA NothingWritten ==
    ASSUME Inv, UNCHANGED <<size, level, file>>
    PROVE  Inv'
  <1>1. Given'
    BY DEF Inv, Given
  <1>2. \A f \in Images : Good(f)' = Good(f)
    BY GoodSame
  <1> QED BY <1>1, <1>2 DEF Inv, FilesOK

LEMMA NextGood == Inv /\ [Next]_vars => Inv'
  <1> SUFFICES ASSUME Inv, [Next]_vars PROVE Inv'
    OBVIOUS
  <1>1. Given /\ FilesOK
    BY DEF Inv
  <1>2. ASSUME NEW f \in Images, CompressBlock(f) PROVE Inv'
    BY <1>1, <1>2, CompressBlockGood DEF Inv
  <1>3. ASSUME NEW f \in Images, WriteIndex(f) PROVE Inv'
    BY <1>1, <1>3, WriteIndexGood DEF Inv
  <1>4. ASSUME NEW f \in Images, Kill(f) PROVE Inv'
    BY <1>1, <1>4, KillGood DEF Inv
  <1>5. ASSUME NEW f \in Images, Open(f) PROVE Inv'
    BY <1>5, NothingWritten DEF Open
  <1>6. ASSUME NEW f \in Images, Decompress(f) PROVE Inv'
    BY <1>6, NothingWritten DEF Decompress
  <1>7. ASSUME NEW f \in Images, NEW o \in Offsets(f), NEW n \in 1 .. MaxLen, Read(f, o, n) PROVE Inv'
    BY <1>7, NothingWritten DEF Read
  <1>8. CASE UNCHANGED vars
    BY <1>8, NothingWritten DEF vars
  <1> QED BY <1>2, <1>3, <1>4, <1>5, <1>6, <1>7, <1>8 DEF Next

-----------------------------------------------------------------------------
(* The index.                                                               *)

AddStep(list, k, p) == AddItem(list, p[2][k].d)
SumsTo(p, k, list) == list \in Seq(Nat) /\ Len(list) = k /\ Sums(p[1], list)

Adding == INSTANCE Iteration WITH Step <- AddStep, Holds <- SumsTo

LEMMA SizesAddUp ==
    ASSUME Given, NEW f \in Images, NEW x \in Seq(ItemType),
           \A j \in 1 .. Len(x) : x[j] = Size(Comp(f, j).n)
    PROVE  AddSizes(x) \in Seq(Nat) /\ Len(AddSizes(x)) = Len(x) /\ Sums(f, AddSizes(x))
  <1> DEFINE p == <<f, x>>
             n == Len(x)
  <1>0. p[1] = f /\ p[2] = x /\ n \in Nat
    OBVIOUS
  <1>1. SumsTo(p, 0, <<>>)
    <2> HIDE DEF p
    <2> QED BY <1>0 DEF SumsTo, Sums
  <1>2. ASSUME NEW k \in 1 .. n, NEW list, SumsTo(p, k - 1, list)
        PROVE  SumsTo(p, k, AddStep(list, k, p))
    <2> HIDE DEF p
    <2>1. list \in Seq(Nat) /\ Len(list) = k - 1 /\ Sums(f, list)
      BY <1>0, <1>2 DEF SumsTo
    <2>2. Len(list) + 1 = k
      BY <1>0, <2>1
    <2>3. x[k].d = Comp(f, k).n
      <3>1. x[k] = Size(Comp(f, k).n)
        OBVIOUS
      <3> QED BY <3>1 DEF Size
    <2>4. AddStep(list, k, p) = AddItem(list, Comp(f, Len(list) + 1).n)
      BY <1>0, <2>2, <2>3 DEF AddStep
    <2>5. /\ AddStep(list, k, p) \in Seq(Nat) /\ Len(AddStep(list, k, p)) = Len(list) + 1
          /\ Sums(f, AddStep(list, k, p))
      BY <2>1, <2>4, AddItemFacts
    <2> QED BY <1>0, <2>2, <2>5 DEF SumsTo
  <1>3. SumsTo(p, n, Adding!Iterate(p, <<>>, n))
    <2> HIDE DEF p, n
    <2> QED BY <1>0, <1>1, <1>2, Adding!IterateHolds
  <1>4. AddSizes(x) = Adding!Iterate(p, <<>>, n)
    BY DEF AddSizes, Adding!Iterate, AddStep
  <1> QED BY <1>0, <1>3, <1>4 DEF SumsTo

\* The lengths of the blocks determine the offsets.
LEMMA SumsUnique ==
    ASSUME NEW f \in Images, NEW a \in Seq(Nat), NEW c \in Seq(Nat), Sums(f, a), Sums(f, c),
           NEW i \in Nat \ {0}, i <= Len(a), i <= Len(c)
    PROVE  a[i] = c[i]
  <1> DEFINE T == {k \in 1 .. i : a[k] # c[k]}
  <1> SUFFICES ASSUME T # {} PROVE FALSE
    OBVIOUS
  <1>1. PICK k \in T : \A y \in T : k <= y
    <2>1. T \subseteq Nat
      OBVIOUS
    <2> HIDE DEF T
    <2> QED BY <2>1, Adding!LeastNumber
  <1>2. k \in 1 .. Len(a) /\ k \in 1 .. Len(c) /\ a[k] # c[k]
    OBVIOUS
  <1>3. k # 1 => a[k - 1] = c[k - 1]
    BY <1>1, <1>2
  <1> QED BY <1>2, <1>3 DEF Sums

LEMMA ItemsFacts ==
    ASSUME Inv, NEW f \in Images
    PROVE  /\ Items(f, "size") \in Seq(ItemType) /\ Items(f, "block") \in Seq(ItemType)
           /\ \A j \in 1 .. Len(Items(f, "size")) : Items(f, "size")[j] = Size(Comp(f, j).n)
           /\ \A j \in 1 .. Len(Items(f, "block")) : Items(f, "block")[j].d \in Packed \cup {Junk}
           /\ Len(Items(f, "block")) <= Len(Items(f, "size"))
           /\ file[f].state = "whole" =>
                /\ Len(Items(f, "block")) = Len(Items(f, "size"))
                /\ Len(Items(f, "size")) = Len(file[f].index)
           /\ BlocksFit /\ level[f] > 0 =>
                \A j \in 1 .. Len(Items(f, "block")) : Items(f, "block")[j] = BlockOf(Comp(f, j))
  <1> DEFINE w == file[f]
             x == Select(w.items, w.disk, "size")
             y == Select(w.items, w.disk, "block")
             P == Pairs(w)
  <1>1. /\ FileOK(f, w) /\ w.items \in Seq(ItemType) /\ Len(w.items) \in Nat
        /\ w.disk \in 0 .. Len(w.items) /\ w.disk \in Nat
        /\ P \in Nat /\ Paired(f, w.items, P) /\ Marked(w.items, w.disk, P)
    BY FileFacts DEF Inv
  <1>2. Items(f, "size") = x /\ Items(f, "block") = y
    BY DEF Items
  <1> HIDE DEF w, P
  <1>3. /\ x \in Seq(ItemType) /\ 2 * Len(x) <= w.disk + 1
        /\ IF w.disk <= P THEN w.disk <= 2 * Len(x) ELSE P = 2 * Len(x)
        /\ \A j \in 1 .. Len(x) : x[j] = Size(Comp(f, j).n)
    BY <1>1, SelectSizes
  <1>4. /\ y \in Seq(ItemType) /\ 2 * Len(y) <= w.disk /\ w.disk <= 2 * Len(y) + 1
        /\ \A j \in 1 .. Len(y) : y[j] = w.items[2 * j]
    BY <1>1, SelectBlocks
  <1> HIDE DEF x, y
  <1>5. Len(x) \in Nat /\ Len(y) \in Nat
    BY <1>3, <1>4, LenProperties
  <1>6. Len(y) <= Len(x)
    BY <1>1, <1>3, <1>4, <1>5 DEF Marked
  <1>7. w.state = "whole" => Len(y) = Len(x) /\ Len(x) = Len(w.index)
    <2> SUFFICES ASSUME w.state = "whole" PROVE Len(y) = Len(x) /\ Len(x) = Len(w.index)
      OBVIOUS
    <2>1. w.index \in Seq(Nat) /\ Len(w.items) = 2 * Len(w.index) + 1 /\ w.disk = Len(w.items)
      BY <1>1 DEF FileOK
    <2>2. Len(w.index) \in Nat
      BY <2>1, LenProperties
    <2>3. P = 2 * Len(w.index)
      BY <2>1, <2>2 DEF Pairs, P
    <2> QED BY <1>3, <1>4, <1>5, <2>1, <2>2, <2>3
  <1>8. ASSUME NEW j \in 1 .. Len(y)
        PROVE  y[j].d \in Packed \cup {Junk} /\ (BlocksFit /\ level[f] > 0 => y[j] = BlockOf(Comp(f, j)))
    <2>1. j \in Nat \ {0} /\ 2 * j <= P
      <3>1. j \in Nat \ {0} /\ 2 * j <= w.disk
        BY <1>1, <1>4, <1>5
      <3>2. w.disk <= P \/ (w.disk = P + 1 /\ \E m \in Nat : P = 2 * m)
        BY <1>1 DEF Marked
      <3> QED BY <1>1, <3>1, <3>2
    <2>2. /\ w.items[2 * j].d \in Packed \cup {Junk}
          /\ BlocksFit /\ level[f] > 0 => w.items[2 * j] = BlockOf(Comp(f, j))
      BY <1>1, <2>1 DEF Paired
    <2> QED BY <1>4, <2>2
  <1> QED BY <1>2, <1>3, <1>4, <1>6, <1>7, <1>8 DEF w

LEMMA IndexSame == Inv => IndexRedundant
  <1> SUFFICES ASSUME Inv, NEW f \in Images, file[f].state = "whole", NEW k \in 1 .. ReadIndex(f).max - 1
               PROVE  CalculateIndex(f, 0).index[k] = ReadIndex(f).index[k]
    BY DEF IndexRedundant
  <1> DEFINE x == Items(f, "size")
             a == AddSizes(x)
             c == file[f].index
             n == Len(c)
  <1>1. c \in Seq(Nat) /\ Sums(f, c) /\ n \in Nat
    BY FileFacts DEF Inv, FileOK
  <1>2. x \in Seq(ItemType) /\ Len(x) = n /\ \A j \in 1 .. Len(x) : x[j] = Size(Comp(f, j).n)
    BY ItemsFacts
  <1> HIDE DEF x
  <1>3. a \in Seq(Nat) /\ Len(a) = n /\ Sums(f, a)
    BY <1>2, SizesAddUp DEF Inv
  <1>4. ReadIndex(f).max = n
    BY DEF ReadIndex
  <1> HIDE DEF c, n, a
  <1>5. k \in Nat \ {0} /\ k < n /\ k \in 0 .. n /\ k \in 0 .. n + 1 /\ k # n + 1
    BY <1>1, <1>4
  <1>6. ReadIndex(f).index[k] = c[k]
    BY <1>5 DEF ReadIndex, c, n
  <1>7. CalculateIndex(f, 0).index[k] = a[k]
    <2>1. CalculateIndex(f, 0).index = [i \in 0 .. Len(a) + 1 |-> IF i = 0 THEN 0 ELSE IF i = Len(a) + 1 THEN 0 ELSE a[i]]
      BY DEF CalculateIndex, a, x
    <2> QED BY <1>3, <1>5, <2>1
  <1>8. a[k] = c[k]
    BY <1>1, <1>3, <1>5, SumsUnique DEF n
  <1> QED BY <1>6, <1>7, <1>8

(* The offsets that sgzip_calculate_index_from_stream adds up from the      *)
(* sizes in a whole file are the ones sgzip_write_index wrote, for any      *)
(* sizes, levels, block size and write buffer.                              *)
THEOREM IndexCorrect == Spec => []IndexRedundant
  <1>1. Init => Inv
    BY InitGood
  <1>2. Inv /\ [Next]_vars => Inv'
    BY NextGood
  <1>3. Inv => IndexRedundant
    BY IndexSame
  <1> QED BY <1>1, <1>2, <1>3, PTL DEF Spec

-----------------------------------------------------------------------------
(* Decompressing.                                                           *)

ByteItem == [t : {"bytes"}, n : Nat, d : Seq(Byte)]
StreamType == [items : Seq(ByteItem), disk : Nat, fill : Nat, list : {<<>>}, index : {None}, state : {"new"}]

LEMMA StreamFlush ==
    ASSUME NEW w \in StreamType
    PROVE  /\ Flush(w) \in StreamType /\ Flush(w).items = w.items /\ Flush(w).disk = Len(w.items)
           /\ w.items \in Seq(ByteItem) /\ Len(w.items) \in Nat /\ w.fill \in Nat /\ w.disk \in Nat
  <1>1. w.items \in Seq(ByteItem) /\ w.fill \in Nat /\ w.disk \in Nat
    BY DEF StreamType
  <1>2. Len(w.items) \in Nat
    BY <1>1, LenProperties
  <1>3. Flush(w) \in StreamType
    BY <1>2 DEF StreamType, Flush
  <1> QED BY <1>1, <1>2, <1>3 DEF StreamType, Flush

\* A block is written behind the others; an empty one flushes the buffer.
LEMMA StreamBytes ==
    ASSUME NEW w \in StreamType, w.disk <= Len(w.items), NEW e \in ByteItem, e.n <= BufferSize
    PROVE  LET r == StreamWrite(w, e)
           IN  /\ r \in StreamType /\ r.disk <= Len(r.items)
               /\ e.n = 0 => r.items = w.items /\ r.disk = Len(w.items)
               /\ e.n # 0 => r.items = Append(w.items, e)
  <1> DEFINE v == IF e.n = 0 \/ w.fill + e.n > BufferSize THEN Flush(w) ELSE w
             r == StreamWrite(w, e)
  <1>1. e.n \in Nat /\ ~(e.n > BufferSize)
    BY Numbers DEF ByteItem
  <1>2. r = IF e.n = 0 THEN v ELSE [v EXCEPT !.items = Append(@, e), !.fill = @ + e.n]
    BY <1>1 DEF StreamWrite
  <1>3. v \in StreamType /\ v.items = w.items /\ v.disk <= Len(w.items) /\ (e.n = 0 => v.disk = Len(w.items))
    <2>1. v = Flush(w) \/ (v = w /\ e.n # 0)
      OBVIOUS
    <2> HIDE DEF v
    <2> QED BY <2>1, StreamFlush
  <1> HIDE DEF v
  <1>4. CASE e.n = 0
    BY <1>2, <1>3, <1>4
  <1>5. CASE e.n # 0
    <2> DEFINE s == Append(v.items, e)
    <2>1. v.items \in Seq(ByteItem) /\ Len(v.items) \in Nat /\ v.fill + e.n \in Nat /\ v.disk \in Nat
      BY <1>1, <1>3, StreamFlush
    <2>2. s \in Seq(ByteItem) /\ Len(s) = Len(v.items) + 1
      BY <2>1, AppendFacts
    <2>3. r = [v EXCEPT !.items = s, !.fill = v.fill + e.n]
      BY <1>2, <1>5
    <2> HIDE DEF s, r
    <2>4. r \in StreamType
      BY <1>3, <2>1, <2>2, <2>3 DEF StreamType
    <2>5. r.items = s /\ r.disk = v.disk
      BY <1>3, <2>3 DEF StreamType
    <2>6. r.disk <= Len(r.items)
      BY <1>3, <2>1, <2>2, <2>5
    <2> QED BY <1>3, <1>5, <2>4, <2>5, <2>6 DEF s, r
  <1> QED BY <1>4, <1>5

\* The bytes in the first k blocks of f.
Reach(f, k) == IF size[f] <= k * BlockSize THEN size[f] ELSE k * BlockSize

LEMMA ReachFacts ==
    ASSUME Given, NEW f \in Images, NEW k \in Nat
    PROVE  /\ Reach(f, k) \in Nat /\ Reach(f, k) <= size[f]
           /\ Reach(f, 0) = 0
           /\ k >= 1 => Reach(f, k) = Reach(f, k - 1) + BlockLen(f, k - 1)
           /\ k >= 1 /\ BlockLen(f, k - 1) # 0 => Reach(f, k - 1) = (k - 1) * BlockSize
  <1>1. /\ k * BlockSize \in Nat /\ 0 * BlockSize = 0 /\ size[f] \in Nat /\ BlockSize \in Nat \ {0}
        /\ k >= 1 => (k - 1) * BlockSize = k * BlockSize - BlockSize
    BY Times, Numbers DEF Given
  <1>2. Reach(f, k) \in Nat /\ Reach(f, k) <= size[f] /\ Reach(f, 0) = 0
    BY <1>1 DEF Reach
  <1>3. ASSUME k >= 1
        PROVE  /\ Reach(f, k) = Reach(f, k - 1) + BlockLen(f, k - 1)
               /\ BlockLen(f, k - 1) # 0 => Reach(f, k - 1) = (k - 1) * BlockSize
    <2>1. (k - 1) * BlockSize \in Nat /\ k * BlockSize = (k - 1) * BlockSize + BlockSize
      <3>1. k - 1 \in Nat
        BY <1>3
      <3>2. (k - 1) * BlockSize \in Nat
        BY <3>1, Times
      <3> QED BY <1>1, <1>3, <3>2
    <2> DEFINE z == (k - 1) * BlockSize
    <2>2. Reach(f, k) = IF size[f] <= z + BlockSize THEN size[f] ELSE z + BlockSize
      BY <2>1 DEF Reach
    <2>3. Reach(f, k - 1) = IF size[f] <= z THEN size[f] ELSE z
      BY DEF Reach
    <2>4. BlockLen(f, k - 1) = IF size[f] <= z THEN 0
                               ELSE IF size[f] <= z + BlockSize THEN size[f] - z ELSE BlockSize
      BY DEF BlockLen
    <2>5. z \in Nat
      BY <2>1
    <2> HIDE DEF z
    <2>6. /\ Reach(f, k) = Reach(f, k - 1) + BlockLen(f, k - 1)
          /\ BlockLen(f, k - 1) # 0 => Reach(f, k - 1) = z
      BY <1>1, <2>2, <2>3, <2>4, <2>5
    <2> QED BY <2>6 DEF z
  <1> QED BY <1>2, <1>3

ContentStep(out, k, p) == out \o p[2][k].d
IsStart(f, out, n) == out \in Seq(Byte) /\ Len(out) = n /\ \A i \in 1 .. n : out[i] = <<f, i>>
StartsImage(p, k, out) == IsStart(p[1], out, Reach(p[1], k))

Joining == INSTANCE Iteration WITH Step <- ContentStep, Holds <- StartsImage

\* The blocks of an image one after the other are the start of the image.
LEMMA BlocksJoin ==
    ASSUME Given, NEW f \in Images, NEW s, NEW n \in Nat, \A i \in 1 .. n : s[i].d = Block(f, i - 1)
    PROVE  IsStart(f, Contents(s, n), Reach(f, n))
  <1> DEFINE p == <<f, s>>
  <1>0. p[1] = f /\ p[2] = s
    OBVIOUS
  <1>1. StartsImage(p, 0, <<>>)
    <2>1. Reach(f, 0) = 0
      BY ReachFacts
    <2>2. IsStart(f, <<>>, 0)
      BY DEF IsStart
    <2> HIDE DEF p
    <2> QED BY <1>0, <2>1, <2>2 DEF StartsImage
  <1>2. ASSUME NEW k \in 1 .. n, NEW out, StartsImage(p, k - 1, out)
        PROVE  StartsImage(p, k, ContentStep(out, k, p))
    <2> HIDE DEF p
    <2> DEFINE a == Reach(f, k - 1)
               m == BlockLen(f, k - 1)
               d == Block(f, k - 1)
               z == (k - 1) * BlockSize
    <2>1. out \in Seq(Byte) /\ Len(out) = a /\ \A i \in 1 .. a : out[i] = <<f, i>>
      BY <1>0, <1>2 DEF StartsImage, IsStart
    <2>2. k - 1 \in Nat /\ k \in Nat /\ k >= 1
      OBVIOUS
    <2>3. d \in Seq(Byte) /\ Len(d) = m /\ m \in Nat /\ \A i \in 1 .. m : d[i] = <<f, z + i>>
      <3>1. m \in 0 .. BlockSize
        BY <2>2, BlockFacts
      <3>2. m \in Nat
        BY <3>1, Numbers
      <3> QED BY <2>2, <3>2, BlockFacts
    <2>4. Reach(f, k) = a + m /\ (m # 0 => a = z) /\ a \in Nat
      BY <2>2, ReachFacts
    <2>5. ContentStep(out, k, p) = out \o d
      BY <1>0 DEF ContentStep
    <2> HIDE DEF a, m, d, z
    <2>6. /\ out \o d \in Seq(Byte) /\ Len(out \o d) = a + m
          /\ \A i \in 1 .. a + m : (out \o d)[i] = IF i <= a THEN out[i] ELSE d[i - a]
      BY <2>1, <2>3, ConcatProperties
    <2>7. ASSUME NEW i \in 1 .. a + m PROVE (out \o d)[i] = <<f, i>>
      <3>1. CASE i <= a
        <4>1. i \in 1 .. a
          BY <2>4, <3>1
        <4> QED BY <2>1, <2>6, <3>1, <4>1
      <3>2. CASE ~(i <= a)
        <4>1. i - a \in 1 .. m /\ m # 0
          BY <2>3, <2>4, <3>2
        <4>2. z + (i - a) = i
          BY <2>4, <4>1
        <4>3. d[i - a] = <<f, z + (i - a)>>
          BY <2>3, <4>1
        <4> QED BY <2>6, <3>2, <4>2, <4>3
      <3> QED BY <3>1, <3>2
    <2>8. IsStart(f, out \o d, a + m)
      BY <2>6, <2>7 DEF IsStart
    <2> QED BY <1>0, <2>4, <2>5, <2>8 DEF StartsImage
  <1>3. StartsImage(p, n, Joining!Iterate(p, <<>>, n))
    <2> HIDE DEF p
    <2> QED BY <1>1, <1>2, Joining!IterateHolds
  <1>4. Contents(s, n) = Joining!Iterate(p, <<>>, n)
    BY DEF Contents, Joining!Iterate, ContentStep
  <1> QED BY <1>0, <1>3, <1>4 DEF StartsImage

RestoreStep(w, k, p) == StreamWrite(w, Bytes(p[2][k].d))

\* What has been written after k blocks, and that an empty one has flushed it.
Restored(p, k, w) ==
    /\ w \in StreamType
    /\ w.disk <= Len(w.items)
    /\ \A i \in 1 .. Len(w.items) : w.items[i].d = Block(p[1], i - 1)
    /\ k = 0 \/ (k - 1) * BlockSize < size[p[1]] => Len(w.items) = k
    /\ k # 0 /\ size[p[1]] <= (k - 1) * BlockSize =>
         w.disk = Len(w.items) /\ size[p[1]] <= Len(w.items) * BlockSize

Restoring == INSTANCE Iteration WITH Step <- RestoreStep, Holds <- Restored

LEMMA RestoreOne ==
    ASSUME Given, BlocksFit, NEW f \in Images, level[f] > 0, NEW p, p[1] = f,
           NEW k \in Nat \ {0}, p[2][k] = BlockOf(Comp(f, k)), NEW w, Restored(p, k - 1, w)
    PROVE  Restored(p, k, RestoreStep(w, k, p))
  <1> DEFINE d == Block(f, k - 1)
             m == BlockLen(f, k - 1)
             e == [t |-> "bytes", n |-> Len(d), d |-> d]
             r == StreamWrite(w, e)
             l == Len(w.items)
             z == (k - 1) * BlockSize
  <1>1. k - 1 \in Nat
    OBVIOUS
  <1>2. /\ d \in Seq(Byte) /\ Len(d) = m /\ m \in 0 .. BlockSize
        /\ m = 0 <=> size[f] <= z
    <2>1. z \in Nat /\ size[f] \in Nat
      BY <1>1, Times DEF Given
    <2>2. d \in Seq(Byte) /\ Len(d) = m /\ m \in 0 .. BlockSize
      BY <1>1, BlockFacts
    <2>3. m = 0 <=> size[f] <= z
      <3> HIDE DEF z
      <3>1. m = IF size[f] <= z THEN 0 ELSE IF size[f] <= z + BlockSize THEN size[f] - z ELSE BlockSize
        BY DEF BlockLen, z
      <3> HIDE DEF m
      <3> QED BY <2>1, <3>1, Numbers
    <2> QED BY <2>2, <2>3
  <1>3. RestoreStep(w, k, p) = r
    <2>1. p[2][k].d = Comp(f, k)
      BY DEF BlockOf
    <2>2. Comp(f, k).d = d /\ ~Comp(f, k).raw
      BY CompFacts
    <2>3. Bytes(Comp(f, k)) = e
      BY <2>2 DEF Bytes
    <2> QED BY <2>1, <2>3 DEF RestoreStep
  <1> HIDE DEF d, m, z
  <1>4. e \in ByteItem /\ e.n = m /\ e.d = d /\ e.n <= BufferSize
    BY <1>2, Numbers DEF ByteItem, BlocksFit
  <1>5. /\ w \in StreamType /\ w.disk <= l /\ l \in Nat /\ w.items \in Seq(ByteItem)
        /\ \A i \in 1 .. l : w.items[i].d = Block(f, i - 1)
        /\ k - 1 = 0 \/ ((k - 1) - 1) * BlockSize < size[f] => l = k - 1
        /\ k - 1 # 0 /\ size[f] <= ((k - 1) - 1) * BlockSize =>
             w.disk = l /\ size[f] <= l * BlockSize
    BY StreamFlush DEF Restored
  <1> HIDE DEF e
  <1>6. /\ r \in StreamType /\ r.disk <= Len(r.items)
        /\ m = 0 => r.items = w.items /\ r.disk = l
        /\ m # 0 => r.items = Append(w.items, e)
    BY <1>4, <1>5, StreamBytes
  <1> HIDE DEF r, l
  <1>7. /\ z \in Nat /\ size[f] \in Nat
        /\ k - 1 # 0 => ((k - 1) - 1) * BlockSize \in Nat /\ ((k - 1) - 1) * BlockSize < z
    <2>1. z \in Nat /\ size[f] \in Nat
      BY <1>1, Times DEF Given, z
    <2>2. ASSUME k - 1 # 0
          PROVE  ((k - 1) - 1) * BlockSize \in Nat /\ ((k - 1) - 1) * BlockSize < z
      <3>1. (k - 1) - 1 \in Nat /\ k - 1 >= 1
        BY <2>2
      <3>2. ((k - 1) - 1) * BlockSize = (k - 1) * BlockSize - BlockSize
        BY <1>1, <3>1, Times
      <3>3. ((k - 1) - 1) * BlockSize \in Nat
        BY <3>1, Times
      <3>4. ((k - 1) - 1) * BlockSize = z - BlockSize
        BY <3>2 DEF z
      <3> DEFINE y == ((k - 1) - 1) * BlockSize
      <3> HIDE DEF y
      <3>5. y = z - BlockSize
        BY <3>4 DEF y
      <3>6. y < z
        BY <2>1, <3>5, Numbers
      <3> QED BY <3>3, <3>6 DEF y
    <2> QED BY <2>1, <2>2
  <1>8. CASE m = 0
    <2>1. r.items = w.items /\ r.disk = l /\ Len(r.items) = l /\ size[f] <= z
      BY <1>2, <1>6, <1>8 DEF l
    <2>2. size[f] <= l * BlockSize
      <3>1. CASE l = k - 1
        BY <2>1, <3>1 DEF z
      <3>2. CASE l # k - 1
        <4> DEFINE y == ((k - 1) - 1) * BlockSize
        <4>1. k - 1 # 0 /\ ~(y < size[f])
          BY <1>5, <3>2
        <4>2. y \in Nat
          BY <1>7, <4>1
        <4>3. size[f] <= y
          <5> HIDE DEF y
          <5> QED BY <1>7, <4>1, <4>2
        <4> QED BY <1>5, <4>1, <4>3
      <3> QED BY <3>1, <3>2
    <2>3. ~((k - 1) * BlockSize < size[f])
      <3>1. ~(z < size[f])
        BY <1>7, <2>1
      <3> QED BY <3>1 DEF z
    <2> QED BY <1>3, <1>5, <1>6, <2>1, <2>2, <2>3 DEF Restored
  <1>9. CASE m # 0
    <2>1. ~(size[f] <= z) /\ z < size[f]
      BY <1>2, <1>7, <1>9
    <2>2. l = k - 1
      <3>1. CASE k - 1 = 0
        BY <1>5, <3>1
      <3>2. CASE k - 1 # 0
        <4> DEFINE y == ((k - 1) - 1) * BlockSize
        <4>1. y \in Nat /\ y < z
          BY <1>7, <3>2
        <4>2. y < size[f]
          <5> HIDE DEF y
          <5> QED BY <1>7, <2>1, <4>1
        <4> QED BY <1>5, <4>2
      <3> QED BY <3>1, <3>2
    <2> DEFINE s == Append(w.items, e)
    <2>3. /\ s \in Seq(ByteItem) /\ Len(s) = l + 1 /\ s[l + 1] = e /\ \A i \in 1 .. l : s[i] = w.items[i]
      BY <1>4, <1>5, AppendFacts DEF l
    <2>4. r.items = s
      BY <1>6, <1>9
    <2> HIDE DEF s
    <2>5. ASSUME NEW i \in 1 .. Len(s) PROVE s[i].d = Block(f, i - 1)
      <3>1. CASE i = l + 1
        <4>1. i = k
          BY <2>2, <3>1
        <4> QED BY <1>4, <2>3, <3>1, <4>1 DEF d
      <3>2. CASE i # l + 1
        <4>1. i \in 1 .. l
          BY <1>5, <2>3, <3>2
        <4> QED BY <1>5, <2>3, <4>1
      <3> QED BY <3>1, <3>2
    <2>6. Len(s) = k /\ k # 0
      BY <2>2, <2>3
    <2>7. ~(size[f] <= (k - 1) * BlockSize)
      BY <2>1 DEF z
    <2> QED BY <1>3, <1>6, <2>4, <2>5, <2>6, <2>7 DEF Restored
  <1> QED BY <1>8, <1>9

\* What the loop has written of a file, flushed or not.
LEMMA StreamWritten ==
    ASSUME Inv, BlocksFit, NEW f \in Images, level[f] > 0
    PROVE  Restored(<<f, Items(f, "block")>>, Len(Items(f, "block")), DecompressStream(f))
  <1> DEFINE b == Items(f, "block")
             p == <<f, b>>
             n == Len(b)
  <1>0. p[1] = f /\ p[2] = b
    OBVIOUS
  <1>1. n \in Nat /\ \A j \in 1 .. n : b[j] = BlockOf(Comp(f, j))
    BY ItemsFacts, LenProperties
  <1>2. Restored(p, 0, NewFile)
    <2>1. NewFile \in StreamType /\ NewFile.disk = 0 /\ NewFile.items = <<>> /\ Len(NewFile.items) = 0
      BY DEF NewFile, StreamType
    <2> QED BY <2>1 DEF Restored
  <1>3. ASSUME NEW k \in 1 .. n, NEW w, Restored(p, k - 1, w)
        PROVE  Restored(p, k, RestoreStep(w, k, p))
    <2>1. k \in Nat \ {0} /\ p[2][k] = BlockOf(Comp(f, k))
      BY <1>0, <1>1
    <2> HIDE DEF p
    <2> QED BY <1>0, <1>3, <2>1, RestoreOne DEF Inv
  <1>4. Restored(p, n, Restoring!Iterate(p, NewFile, n))
    <2> HIDE DEF p, n
    <2> QED BY <1>1, <1>2, <1>3, Restoring!IterateHolds
  <1>5. DecompressStream(f) = Restoring!Iterate(p, NewFile, n)
    BY DEF DecompressStream, Restoring!Iterate, RestoreStep
  <1> QED BY <1>4, <1>5

LEMMA StartIsPrefix ==
    ASSUME Given, NEW f \in Images, NEW out, NEW n \in Nat, n <= size[f], IsStart(f, out, n)
    PROVE  IsPrefix(out, Data(f)) /\ (n = size[f] => out = Data(f))
  <1> DEFINE D == Data(f)
  <1>1. D \in Seq(Byte) /\ Len(D) = size[f] /\ size[f] \in Nat /\ \A i \in 1 .. size[f] : D[i] = <<f, i>>
    BY DataFacts
  <1>2. out \in Seq(Byte) /\ Len(out) = n /\ \A i \in 1 .. n : out[i] = <<f, i>>
    BY DEF IsStart
  <1> HIDE DEF D
  <1>3. ASSUME NEW i \in 1 .. n PROVE D[i] = out[i]
    <2>1. i \in 1 .. size[f]
      BY <1>1
    <2> QED BY <1>1, <1>2, <2>1
  <1>4. SubSeq(out, 1, n) = SubSeq(D, 1, n)
    <2> DEFINE a == SubSeq(out, 1, n)
               c == SubSeq(D, 1, n)
    <2>1. a \in Seq(Byte) /\ Len(a) = n /\ \A i \in 1 .. n : a[i] = out[i]
      BY <1>2
    <2>2. c \in Seq(Byte) /\ Len(c) = n /\ \A i \in 1 .. n : c[i] = D[i]
      BY <1>1
    <2> HIDE DEF a, c
    <2>3. a = c
      BY <1>3, <2>1, <2>2, SeqEqual
    <2> QED BY <2>3 DEF a, c
  <1>5. n = size[f] => out = D
    BY <1>1, <1>2, <1>3, SeqEqual
  <1>6. IsPrefix(out, D)
    BY <1>1, <1>2, <1>4 DEF IsPrefix
  <1> QED BY <1>5, <1>6 DEF D

LEMMA DecompressRestores ==
    ASSUME Inv, BlocksFit, NEW f \in Images, level[f] > 0
    PROVE  LET w   == DecompressStream(f)
               out == Contents(w.items, w.disk)
           IN  /\ IsPrefix(out, Data(f))
               /\ file[f].state = "whole" =>
                    out = Data(f) /\ Len(Items(f, "size")) = Len(Items(f, "block"))
  <1> DEFINE w == DecompressStream(f)
             n == Len(Items(f, "block"))
             out == Contents(w.items, w.disk)
             p == <<f, Items(f, "block")>>
  <1>1. Restored(p, n, w) /\ p[1] = f
    BY StreamWritten
  <1> HIDE DEF w, p
  <1>2. /\ w \in StreamType /\ w.disk <= Len(w.items) /\ w.disk \in Nat /\ Len(w.items) \in Nat
        /\ \A i \in 1 .. Len(w.items) : w.items[i].d = Block(f, i - 1)
        /\ n # 0 /\ size[f] <= (n - 1) * BlockSize =>
             w.disk = Len(w.items) /\ size[f] <= Len(w.items) * BlockSize
    BY <1>1, StreamFlush DEF Restored
  <1>3. \A i \in 1 .. w.disk : w.items[i].d = Block(f, i - 1)
    BY <1>2
  <1>4. IsStart(f, out, Reach(f, w.disk))
    BY <1>2, <1>3, BlocksJoin DEF Inv
  <1> HIDE DEF out
  <1>5. Reach(f, w.disk) \in Nat /\ Reach(f, w.disk) <= size[f]
    BY <1>2, ReachFacts DEF Inv
  <1>6. IsPrefix(out, Data(f)) /\ (Reach(f, w.disk) = size[f] => out = Data(f))
    BY <1>4, <1>5, StartIsPrefix DEF Inv
  <1>7. ASSUME file[f].state = "whole"
        PROVE  Reach(f, w.disk) = size[f] /\ Len(Items(f, "size")) = n
    <2>1. n = Len(file[f].index) /\ Len(Items(f, "size")) = n
      BY <1>7, ItemsFacts
    <2>2. Ended(f, Len(file[f].index)) /\ Len(file[f].index) \in Nat
      BY <1>7, FileFacts, LenProperties DEF Inv, FileOK
    <2>3. n # 0 /\ size[f] <= (n - 1) * BlockSize
      <3> HIDE DEF n
      <3> QED BY <2>1, <2>2 DEF Ended
    <2> QED BY <1>2, <2>1, <2>3 DEF Reach
  <1> QED BY <1>6, <1>7 DEF out, w

\* A file that has been decompressed is not written any more.
StreamOK ==
    last.how = "stream" =>
        /\ last.image \in Images
        /\ file[last.image].state \in {"whole", "cut"}
        /\ StreamRestores

LEMMA StreamNext == ASSUME BlocksFit, Inv, StreamOK, [Next]_vars PROVE StreamOK'
  <1>1. ASSUME NEW f \in Images, Decompress(f) PROVE StreamOK'
    <2> DEFINE w   == DecompressStream(f)
               out == Contents(w.items, w.disk)
               bad == Len(Items(f, "size")) # Len(Items(f, "block"))
    <2>1. /\ last' = [NoRead EXCEPT !.how = "stream", !.image = f, !.error = bad, !.out = out]
          /\ UNCHANGED <<size, level, file>> /\ file[f].state \in {"whole", "cut"}
      BY <1>1 DEF Decompress
    <2>2. level[f] > 0 => IsPrefix(out, Data(f)) /\ (file[f].state = "whole" => out = Data(f) /\ ~bad)
      BY DecompressRestores
    <2> HIDE DEF out, bad
    <2>3. last'.how = "stream" /\ last'.image = f /\ last'.error = bad /\ last'.out = out
      BY <2>1 DEF NoRead
    <2>4. Data(f)' = Data(f)
      BY <2>1 DEF Data
    <2> QED BY <2>1, <2>2, <2>3, <2>4 DEF StreamOK, StreamRestores
  <1>2. ASSUME NEW f \in Images, NEW o, NEW n, Read(f, o, n) PROVE StreamOK'
    <2>1. last'.how = "read"
      BY <1>2 DEF Read
    <2> QED BY <2>1 DEF StreamOK
  <1>3. ASSUME UNCHANGED <<size, level, last>>,
               \A g \in Images : file[g].state \in {"whole", "cut"} => file'[g] = file[g]
        PROVE  StreamOK'
    <2> SUFFICES ASSUME last'.how = "stream"
                 PROVE  last'.image \in Images /\ file'[last'.image].state \in {"whole", "cut"} /\ StreamRestores'
      BY DEF StreamOK
    <2>1. last.image \in Images /\ file[last.image].state \in {"whole", "cut"} /\ StreamRestores
      BY <1>3 DEF StreamOK
    <2>2. file'[last.image] = file[last.image]
      BY <1>3, <2>1
    <2>3. Data(last.image)' = Data(last.image)
      BY <1>3 DEF Data
    <2> QED BY <1>3, <2>1, <2>2, <2>3 DEF StreamRestores
  <1>4. ASSUME NEW f \in Images, CompressBlock(f) \/ WriteIndex(f) \/ Kill(f) PROVE StreamOK'
    <2>1. UNCHANGED <<size, level, last>> /\ file[f].state \in {"new", "ending"}
      BY <1>4 DEF CompressBlock, WriteIndex, Kill
    <2>2. \A g \in Images : g # f => file'[g] = file[g]
      BY <1>4 DEF CompressBlock, WriteIndex, Kill, Inv, FilesOK
    <2>3. file[f].state \notin {"whole", "cut"}
      BY <2>1
    <2> QED BY <1>3, <2>1, <2>2, <2>3
  <1>5. ASSUME NEW f \in Images, Open(f) PROVE StreamOK'
    BY <1>3, <1>5 DEF Open
  <1>6. CASE UNCHANGED vars
    BY <1>3, <1>6 DEF vars
  <1> QED BY <1>1, <1>2, <1>4, <1>5, <1>6 DEF Next

(* Decompressing a whole file that was compressed restores the image to the *)
(* last byte, and decompressing a file that was cut off gives a prefix, for *)
(* any image if the blocks fit the write buffer (sgzip_decompress_fds).     *)
THEOREM StreamCorrect ==
    ASSUME BlocksFit
    PROVE  Spec => []StreamRestores
  <1>1. Init => Inv /\ StreamOK
    BY InitGood DEF Init, NoRead, StreamOK
  <1>2. Inv /\ StreamOK /\ [Next]_vars => (Inv /\ StreamOK)'
    BY NextGood, StreamNext
  <1>3. StreamOK => StreamRestores
    BY DEF StreamOK, StreamRestores
  <1> QED BY <1>1, <1>2, <1>3, PTL DEF Spec

-----------------------------------------------------------------------------
(* Open files and the block cache.                                          *)

Handled(f) ==
    \/ handle[f] = None
    \/ file[f].state = "whole" /\ handle[f] = ReadIndex(f)
    \/ file[f].state = "cut" /\ \E place0 \in {0, 1} : handle[f] = CalculateIndex(f, place0)

HandlesOK == handle = [f \in Images |-> handle[f]] /\ \A f \in Images : Handled(f)

CacheType == [block : Nat \cup {None}, len : Nat, data : [1 .. Room -> Byte \cup {Junk}],
              cdata : Packed \cup {Junk}]

LEMMA HandledSame ==
    ASSUME NEW f \in Images, file'[f] = file[f], handle'[f] = handle[f], Handled(f)
    PROVE  Handled(f)'
  <1>1. ReadIndex(f)' = ReadIndex(f)
    BY DEF ReadIndex
  <1>2. Items(f, "size")' = Items(f, "size")
    BY DEF Items
  <1>3. ASSUME NEW z PROVE CalculateIndex(f, z)' = CalculateIndex(f, z)
    BY <1>2 DEF CalculateIndex, Unbounded
  <1> QED BY <1>1, <1>3 DEF Handled

LEMMA OpenHandled ==
    ASSUME Inv, HandlesOK, NEW f \in Images, Open(f)
    PROVE  HandlesOK'
  <1>1. file' = file /\ file[f].state \in {"whole", "cut"}
    BY DEF Open
  <1>2. PICK h : /\ handle' = [handle EXCEPT ![f] = h]
                 /\ \/ file[f].index # None /\ h = ReadIndex(f)
                    \/ file[f].index = None /\ \E place0 \in {0, 1} : h = CalculateIndex(f, place0)
    BY DEF Open
  <1>3. handle' = [g \in Images |-> IF g = f THEN h ELSE handle[g]]
    BY <1>2 DEF HandlesOK
  <1>4. /\ file[f].state = "whole" => file[f].index # None
        /\ file[f].state = "cut" => file[f].index = None
    <2>1. FileOK(f, file[f])
      BY FileFacts DEF Inv
    <2>2. None \notin Seq(Nat)
      BY SgzipAssumption
    <2> QED BY <2>1, <2>2 DEF FileOK
  <1>5. \/ file[f].state = "whole" /\ h = ReadIndex(f)
        \/ file[f].state = "cut" /\ \E place0 \in {0, 1} : h = CalculateIndex(f, place0)
    BY <1>1, <1>2, <1>4
  <1>6. ReadIndex(f)' = ReadIndex(f) /\ \A z : CalculateIndex(f, z)' = CalculateIndex(f, z)
    BY <1>1 DEF ReadIndex, CalculateIndex, Items, Unbounded
  <1>7. Handled(f)'
    BY <1>1, <1>3, <1>5, <1>6 DEF Handled
  <1>8. ASSUME NEW g \in Images, g # f PROVE Handled(g)'
    BY <1>1, <1>3, <1>8, HandledSame DEF HandlesOK
  <1>9. handle' = [g \in Images |-> handle'[g]]
    BY <1>3
  <1> QED BY <1>7, <1>8, <1>9 DEF HandlesOK

\* The offset of block b.
Off(f, b) == IF b = 0 THEN 0 ELSE AddSizes(Items(f, "size"))[b]

LEMMA OffFacts ==
    ASSUME Inv, NEW f \in Images, NEW k \in Nat \ {0}, k <= Len(Items(f, "size"))
    PROVE  /\ Off(f, k) \in Nat /\ Off(f, k - 1) \in Nat
           /\ Off(f, k) = Off(f, k - 1) + Comp(f, k).n
           /\ Items(f, "size")[k].d = Comp(f, k).n
  <1> DEFINE x == Items(f, "size")
             a == AddSizes(x)
  <1>1. x \in Seq(ItemType) /\ Len(x) \in Nat /\ \A j \in 1 .. Len(x) : x[j] = Size(Comp(f, j).n)
    BY ItemsFacts, LenProperties
  <1> HIDE DEF x
  <1>2. a \in Seq(Nat) /\ Len(a) = Len(x) /\ Sums(f, a)
    BY <1>1, SizesAddUp DEF Inv
  <1> HIDE DEF a
  <1>3. k \in 1 .. Len(x)
    BY <1>1 DEF x
  <1>4. x[k].d = Comp(f, k).n
    <2>1. x[k] = Size(Comp(f, k).n)
      BY <1>1, <1>3
    <2> QED BY <2>1 DEF Size
  <1>5. a[k] \in Nat /\ a[k] = Comp(f, k).n + (IF k = 1 THEN 0 ELSE a[k - 1])
    BY <1>2, <1>3 DEF Sums
  <1>6. k # 1 => a[k - 1] \in Nat
    <2>1. k # 1 => k - 1 \in 1 .. Len(a)
      BY <1>1, <1>2, <1>3
    <2> QED BY <1>2, <2>1
  <1>7. Off(f, k) = a[k] /\ Off(f, k - 1) = (IF k = 1 THEN 0 ELSE a[k - 1])
    BY DEF Off, a, x
  <1>8. Comp(f, k).n \in Nat
    BY CompFacts DEF Inv
  <1> QED BY <1>4, <1>5, <1>6, <1>7, <1>8 DEF x

PlaceStep(x, k, f) == x + IF k <= Len(Items(f, "size")) THEN Items(f, "size")[k].d ELSE 0
Placed(f, k, x) == x = Off(f, k)

Placing == INSTANCE Iteration WITH Step <- PlaceStep, Holds <- Placed

LEMMA PlaceFacts ==
    ASSUME Inv, NEW f \in Images, NEW b \in Nat, b <= Len(Items(f, "size"))
    PROVE  Place(f, b) = Off(f, b)
  <1>1. Placed(f, 0, 0)
    BY DEF Placed, Off
  <1>2. ASSUME NEW k \in 1 .. b, NEW x, Placed(f, k - 1, x)
        PROVE  Placed(f, k, PlaceStep(x, k, f))
    <2>1. k \in Nat \ {0} /\ k <= Len(Items(f, "size"))
      <3>1. Len(Items(f, "size")) \in Nat
        BY ItemsFacts, LenProperties
      <3> QED BY <3>1
    <2>2. Off(f, k) = Off(f, k - 1) + Comp(f, k).n /\ Items(f, "size")[k].d = Comp(f, k).n
      BY <2>1, OffFacts
    <2> QED BY <1>2, <2>1, <2>2 DEF Placed, PlaceStep
  <1>3. Placed(f, b, Placing!Iterate(f, 0, b))
    BY <1>1, <1>2, Placing!IterateHolds
  <1>4. Place(f, b) = Placing!Iterate(f, 0, b)
    BY DEF Place, Placing!Iterate, PlaceStep
  <1> QED BY <1>3, <1>4 DEF Placed

ReadType == [left : Nat, skip : Nat, c : CacheType, out : Seq(Byte \cup {Junk}), stop : BOOLEAN,
             error : BOOLEAN]

\* A fetched block is a compressed one or none at all, whatever the index says.
LEMMA LoadType ==
    ASSUME Inv, NEW f \in Images, NEW b \in Nat, NEW c \in CacheType
    PROVE  Load(f, b, c).c \in CacheType /\ Load(f, b, c).ok \in BOOLEAN
  <1> DEFINE n == handle[f].index[b + 1] - handle[f].index[b]
             z == Fetch(f, b, c.cdata)
             l == Load(f, b, c)
  <1>1. z \in Packed \cup {Junk}
    <2>1. c.cdata \in Packed \cup {Junk}
      BY DEF CacheType
    <2>2. ASSUME b < Len(Items(f, "block")) PROVE Items(f, "block")[b + 1].d \in Packed \cup {Junk}
      <3>1. Len(Items(f, "block")) \in Nat
        BY ItemsFacts, LenProperties
      <3>2. b + 1 \in 1 .. Len(Items(f, "block"))
        BY <2>2, <3>1
      <3> QED BY <3>2, ItemsFacts
    <2>3. Junk \in Packed \cup {Junk}
      OBVIOUS
    <2> QED BY <2>1, <2>2, <2>3 DEF Fetch
  <1>2. l = IF n < 0 \/ n >= Room THEN [ok |-> FALSE, c |-> c]
            ELSE IF Inflates(z, n)
            THEN [ok |-> TRUE, c |-> [block |-> b, len |-> Len(z.d), cdata |-> z, data |-> Overlay(c.data, z.d)]]
            ELSE [ok |-> FALSE, c |-> [c EXCEPT !.cdata = z, !.data = [i \in DOMAIN @ |-> Junk]]]
    BY DEF Load
  <1> HIDE DEF n, z, l
  <1>3. c.data \in [1 .. Room -> Byte \cup {Junk}]
    BY DEF CacheType
  <1>4. CASE n < 0 \/ n >= Room
    <2>1. l = [ok |-> FALSE, c |-> c]
      BY <1>2, <1>4
    <2> QED BY <2>1 DEF l
  <1>5. CASE ~(n < 0 \/ n >= Room) /\ Inflates(z, n)
    <2> DEFINE o == Overlay(c.data, z.d)
    <2>1. l = [ok |-> TRUE, c |-> [block |-> b, len |-> Len(z.d), cdata |-> z, data |-> o]]
      BY <1>2, <1>5
    <2>2. z \in Packed
      BY <1>1, <1>5 DEF Inflates
    <2>3. z.d \in Seq(Byte) /\ Len(z.d) \in Nat
      <3>1. z.d \in Seq(Byte)
        BY <2>2 DEF Packed
      <3> QED BY <3>1, LenProperties
    <2>4. o \in [1 .. Room -> Byte \cup {Junk}]
      <3>1. ASSUME NEW i \in 1 .. Room, i <= Len(z.d) PROVE z.d[i] \in Byte
        <4>1. i \in 1 .. Len(z.d)
          BY <2>3, <3>1, Numbers
        <4> QED BY <2>3, <4>1, ElementOfSeq
      <3> QED BY <1>3, <3>1 DEF Overlay
    <2> HIDE DEF o
    <2>5. [block |-> b, len |-> Len(z.d), cdata |-> z, data |-> o] \in CacheType
      BY <2>2, <2>3, <2>4 DEF CacheType
    <2> QED BY <2>1, <2>5 DEF l
  <1>6. CASE ~(n < 0 \/ n >= Room) /\ ~Inflates(z, n)
    <2> DEFINE o == [i \in 1 .. Room |-> Junk]
    <2>1. l = [ok |-> FALSE, c |-> [c EXCEPT !.cdata = z, !.data = o]]
      BY <1>2, <1>3, <1>6
    <2>2. o \in [1 .. Room -> Byte \cup {Junk}]
      OBVIOUS
    <2> HIDE DEF o
    <2>3. [c EXCEPT !.cdata = z, !.data = o] \in CacheType
      BY <1>1, <2>2 DEF CacheType
    <2> QED BY <2>1, <2>3 DEF l
  <1> QED BY <1>4, <1>5, <1>6

\* What one turn hands over.
Available(r, c) == IF c.len < r.skip THEN r.left ELSE Min({c.len - r.skip, r.left})
Handed(r, c) == [i \in 1 .. Available(r, c) |-> IF r.skip + i \in DOMAIN c.data THEN c.data[r.skip + i] ELSE Junk]

LEMMA HandedFacts ==
    ASSUME NEW r \in ReadType, NEW c \in CacheType
    PROVE  /\ Available(r, c) \in Nat /\ Available(r, c) <= r.left /\ r.left \in Nat /\ r.skip \in Nat
           /\ Handed(r, c) \in Seq(Byte \cup {Junk}) /\ Len(Handed(r, c)) = Available(r, c)
           /\ \A i \in 1 .. Available(r, c) :
                Handed(r, c)[i] = IF r.skip + i \in 1 .. Room THEN c.data[r.skip + i] ELSE Junk
           /\ r.skip <= c.len =>
                Available(r, c) = IF c.len - r.skip <= r.left THEN c.len - r.skip ELSE r.left
  <1> DEFINE a == Available(r, c)
  <1>1. r.left \in Nat /\ r.skip \in Nat /\ c.len \in Nat /\ c.data \in [1 .. Room -> Byte \cup {Junk}]
    BY DEF ReadType, CacheType
  <1>2. Min({c.len - r.skip, r.left}) = IF c.len - r.skip <= r.left THEN c.len - r.skip ELSE r.left
    BY <1>1, MinPair
  <1>3. a = IF c.len < r.skip THEN r.left ELSE IF c.len - r.skip <= r.left THEN c.len - r.skip ELSE r.left
    BY <1>2 DEF Available
  <1> HIDE DEF a
  <1>4. a \in Nat /\ a <= r.left /\ (r.skip <= c.len => a = IF c.len - r.skip <= r.left THEN c.len - r.skip ELSE r.left)
    BY <1>1, <1>3
  <1> DEFINE h == [i \in 1 .. a |-> IF r.skip + i \in 1 .. Room THEN c.data[r.skip + i] ELSE Junk]
  <1>5. Handed(r, c) = h
    BY <1>1 DEF Handed, a
  <1>6. h \in Seq(Byte \cup {Junk}) /\ Len(h) = a
    <2>1. \A i \in 1 .. a : (IF r.skip + i \in 1 .. Room THEN c.data[r.skip + i] ELSE Junk) \in Byte \cup {Junk}
      BY <1>1
    <2> QED BY <1>4, <2>1
  <1> QED BY <1>1, <1>4, <1>5, <1>6 DEF a

\* The three outcomes of a turn.
LEMMA TurnFacts ==
    ASSUME Inv, NEW f \in Images, NEW b \in Nat, NEW r \in ReadType
    PROVE  LET t == ReadBlock(f, r, b)
               c == IF r.c.block = b THEN r.c ELSE Load(f, b, r.c).c
               ok == r.c.block = b \/ Load(f, b, r.c).ok
               over == r.left = 0 \/ r.stop \/ AtEnd(f, b)
           IN  /\ t \in ReadType /\ c \in CacheType
               /\ over => /\ t.stop /\ t.left = r.left /\ t.skip = r.skip /\ t.c = r.c /\ t.out = r.out
                          /\ t.error = r.error
               /\ ~over /\ ~ok => t.stop /\ t.error /\ t.c = c
               /\ ~over /\ ok => /\ t.c = c /\ t.left = r.left - Available(r, c) /\ t.skip = 0
                                 /\ t.out = r.out \o Handed(r, c) /\ t.stop = r.stop /\ t.error = r.error
  <1> DEFINE t == ReadBlock(f, r, b)
             c == IF r.c.block = b THEN r.c ELSE Load(f, b, r.c).c
             ok == r.c.block = b \/ Load(f, b, r.c).ok
             over == r.left = 0 \/ r.stop \/ AtEnd(f, b)
  <1>1. r.c \in CacheType /\ r.left \in Nat /\ r.out \in Seq(Byte \cup {Junk})
    BY DEF ReadType
  <1>2. c \in CacheType
    BY <1>1, LoadType
  <1>3. t = IF over THEN [r EXCEPT !.stop = TRUE]
            ELSE IF ~ok THEN [r EXCEPT !.c = c, !.stop = TRUE, !.error = TRUE]
            ELSE [r EXCEPT !.c = c, !.left = @ - Available(r, c), !.skip = 0, !.out = @ \o Handed(r, c)]
    <2>1. CASE r.c.block = b
      BY <2>1 DEF ReadBlock, Available, Handed
    <2>2. CASE r.c.block # b
      BY <2>2 DEF ReadBlock, Available, Handed
    <2> QED BY <2>1, <2>2
  <1> HIDE DEF t, c, ok, over
  <1>4. CASE over
    <2>1. t = [r EXCEPT !.stop = TRUE]
      BY <1>3, <1>4
    <2>2. t \in ReadType
      BY <2>1 DEF ReadType
    <2>3. /\ t.stop /\ t.left = r.left /\ t.skip = r.skip /\ t.c = r.c /\ t.out = r.out /\ t.error = r.error
      BY <2>1 DEF ReadType
    <2> QED BY <1>2, <1>4, <2>2, <2>3 DEF t, c, ok, over
  <1>5. CASE ~over /\ ~ok
    <2>1. t = [r EXCEPT !.c = c, !.stop = TRUE, !.error = TRUE]
      BY <1>3, <1>5
    <2>2. t \in ReadType
      BY <1>2, <2>1 DEF ReadType
    <2>3. t.stop /\ t.error /\ t.c = c
      BY <2>1 DEF ReadType
    <2> QED BY <1>2, <1>5, <2>2, <2>3 DEF t, c, ok, over
  <1>6. CASE ~over /\ ok
    <2> DEFINE m == r.left - Available(r, c)
               o == r.out \o Handed(r, c)
    <2>1. t = [r EXCEPT !.c = c, !.left = m, !.skip = 0, !.out = o]
      BY <1>3, <1>6
    <2>2. m \in Nat /\ o \in Seq(Byte \cup {Junk})
      BY <1>1, <1>2, HandedFacts, ConcatProperties
    <2> HIDE DEF m, o
    <2>3. t \in ReadType
      BY <1>2, <2>1, <2>2 DEF ReadType
    <2>4. t.c = c /\ t.left = m /\ t.skip = 0 /\ t.out = o /\ t.stop = r.stop /\ t.error = r.error
      BY <2>1 DEF ReadType
    <2> QED BY <1>2, <1>6, <2>3, <2>4 DEF t, c, ok, over, m, o
  <1> QED BY <1>4, <1>5, <1>6

-----------------------------------------------------------------------------
(* Reading.                                                                 *)

LEMMA DivFacts ==
    ASSUME NEW o \in Nat
    PROVE  /\ o \div BlockSize \in Nat /\ o % BlockSize \in Nat /\ o % BlockSize < BlockSize
           /\ o = (o \div BlockSize) * BlockSize + (o % BlockSize)
  <1> DEFINE d == BlockSize
  <1>1. d \in Nat \ {0}
    BY Numbers
  <1> HIDE DEF d
  <1>2. o % d \in 0 .. d - 1
    BY <1>1
  <1>3. o = d * (o \div d) + (o % d)
    BY <1>1
  <1>4. o \div d \in Int
    BY <1>1
  <1> DEFINE q == o \div d
             m == o % d
  <1>5. q \in Int /\ m \in 0 .. d - 1 /\ o = d * q + m
    BY <1>2, <1>3, <1>4
  <1> HIDE DEF q, m
  <1>6. ASSUME q < 0 PROVE FALSE
    <2>1. d * q <= -d
      BY <1>1, <1>5, <1>6
    <2> QED BY <1>1, <1>5, <2>1
  <1>7. d * q = q * d
    BY <1>1, <1>5
  <1>8. q \in Nat /\ m \in Nat /\ m < d /\ o = q * d + m
    BY <1>1, <1>5, <1>6, <1>7
  <1> QED BY <1>8 DEF q, m, d

ReadStep(r, k, p) == ReadBlock(p[1], r, p[2] \div BlockSize + (k - 1))
ReadTyped(p, k, r) == r \in ReadType

Turning == INSTANCE Iteration WITH Step <- ReadStep, Holds <- ReadTyped

ReadStart(f, o, n) ==
    [left |-> n, skip |-> o % BlockSize, c |-> cache, out |-> <<>>,
     stop |-> o \div BlockSize > handle[f].max, error |-> FALSE]

LEMMA MaxFacts ==
    ASSUME Inv, HandlesOK, NEW f \in Images, handle[f] # None
    PROVE  handle[f].max \in Nat
  <1>1. CASE file[f].state = "whole" /\ handle[f] = ReadIndex(f)
    <2>1. file[f].index \in Seq(Nat)
      BY <1>1, FileFacts DEF Inv, FileOK
    <2>2. Len(file[f].index) \in Nat
      BY <2>1, LenProperties
    <2>3. handle[f].max = Len(file[f].index)
      BY <1>1 DEF ReadIndex
    <2> QED BY <2>2, <2>3
  <1>2. ASSUME NEW z \in {0, 1}, handle[f] = CalculateIndex(f, z)
        PROVE  handle[f].max \in Nat
    <2>1. handle[f].max = 1000
      BY <1>2 DEF CalculateIndex, Unbounded
    <2> QED BY <2>1
  <1> QED BY <1>1, <1>2 DEF HandlesOK, Handled

LEMMA StartType ==
    ASSUME Inv, HandlesOK, cache \in CacheType, NEW f \in Images, handle[f] # None,
           NEW o \in Nat, NEW n \in Nat
    PROVE  ReadStart(f, o, n) \in ReadType
  <1>1. o \div BlockSize \in Nat /\ o % BlockSize \in Nat /\ handle[f].max \in Nat
    BY DivFacts, MaxFacts
  <1>2. (o \div BlockSize > handle[f].max) \in BOOLEAN
    BY <1>1
  <1>3. <<>> \in Seq(Byte \cup {Junk})
    OBVIOUS
  <1> QED BY <1>1, <1>2, <1>3 DEF ReadStart, ReadType

\* Whatever is read, the cache stays a cache.
LEMMA ReadKeepsCache ==
    ASSUME Inv, HandlesOK, cache \in CacheType, NEW f \in Images, handle[f] # None,
           NEW o \in Nat, NEW n \in Nat
    PROVE  ReadRandom(f, o, n).c \in CacheType
  <1> DEFINE p == <<f, o, n>>
             s == ReadStart(f, o, n)
  <1>0. p[1] = f /\ p[2] = o
    OBVIOUS
  <1>1. ReadTyped(p, 0, s)
    BY StartType DEF ReadTyped
  <1>2. ASSUME NEW k \in 1 .. n + 1, NEW r, ReadTyped(p, k - 1, r)
        PROVE  ReadTyped(p, k, ReadStep(r, k, p))
    <2> DEFINE b == o \div BlockSize + (k - 1)
    <2>1. b \in Nat
      <3>1. o \div BlockSize \in Nat
        BY DivFacts
      <3> DEFINE q == o \div BlockSize
      <3>2. q \in Nat
        BY <3>1
      <3> HIDE DEF q
      <3>3. q + (k - 1) \in Nat
        BY <3>2
      <3> QED BY <3>3 DEF q
    <2>2. ReadStep(r, k, p) = ReadBlock(f, r, b)
      BY <1>0 DEF ReadStep
    <2>3. r \in ReadType
      BY <1>2 DEF ReadTyped
    <2> HIDE DEF b
    <2>4. ReadBlock(f, r, b) \in ReadType
      BY <2>1, <2>3, TurnFacts
    <2> QED BY <2>2, <2>4 DEF ReadTyped
  <1>3. ReadTyped(p, n + 1, Turning!Iterate(p, s, n + 1))
    <2>1. n + 1 \in Nat
      OBVIOUS
    <2> HIDE DEF p, s
    <2> QED BY <1>1, <1>2, <2>1, Turning!IterateHolds
  <1>4. ReadRandom(f, o, n) = Turning!Iterate(p, s, n + 1)
    BY DEF ReadRandom, Turning!Iterate, ReadStep, ReadStart
  <1> QED BY <1>3, <1>4 DEF ReadTyped, ReadType

\* No image has more blocks than the name of the compression read as a number.
FewBlocks == \A s \in Sizes : s <= (Unbounded - 1) * BlockSize
Few == \A f \in Images : size[f] <= (Unbounded - 1) * BlockSize

\* A read that the library can serve.
Ready(f, o, n) ==
    /\ level[f] > 0 /\ o \in Nat /\ n \in Nat \ {0}
    /\ \/ file[f].state = "whole" /\ handle[f] = ReadIndex(f) /\ o <= size[f]
       \/ /\ file[f].state = "cut" /\ o + n <= Held(f)
          /\ \E place0 \in {0, 1} : handle[f] = CalculateIndex(f, place0)

LEMMA CalculatedFacts ==
    ASSUME Inv, NEW f \in Images, NEW z, NEW k \in Nat, k <= Len(Items(f, "size"))
    PROVE  CalculateIndex(f, z).index[k] = IF k = 0 THEN z ELSE Off(f, k)
  <1> DEFINE x == Items(f, "size")
             a == AddSizes(x)
  <1>1. x \in Seq(ItemType) /\ Len(x) \in Nat /\ \A j \in 1 .. Len(x) : x[j] = Size(Comp(f, j).n)
    BY ItemsFacts, LenProperties
  <1> HIDE DEF x
  <1>2. Len(a) = Len(x)
    BY <1>1, SizesAddUp DEF Inv
  <1>3. CalculateIndex(f, z).index = [i \in 0 .. Len(a) + 1 |-> IF i = 0 THEN z ELSE IF i = Len(a) + 1 THEN 0 ELSE a[i]]
    BY DEF CalculateIndex, x
  <1> HIDE DEF a
  <1>4. k \in 0 .. Len(a) + 1 /\ k # Len(a) + 1
    BY <1>1, <1>2 DEF x
  <1> QED BY <1>3, <1>4 DEF Off, a, x

LEMMA ReadIndexFacts ==
    ASSUME Inv, NEW f \in Images, file[f].state = "whole"
    PROVE  LET n == Len(file[f].index)
           IN  /\ n \in Nat /\ ReadIndex(f).max = n /\ ReadIndex(f).index[0] = 0
               /\ Ended(f, n)
               /\ Len(Items(f, "size")) = n /\ Len(Items(f, "block")) = n
               /\ \A k \in 1 .. n - 1 : ReadIndex(f).index[k] = Off(f, k)
  <1> DEFINE n == Len(file[f].index)
  <1>1. file[f].index \in Seq(Nat) /\ Ended(f, n)
    BY FileFacts DEF Inv, FileOK
  <1>2. n \in Nat
    BY <1>1, LenProperties
  <1>3. Len(Items(f, "size")) = n /\ Len(Items(f, "block")) = n
    BY ItemsFacts
  <1>4. ReadIndex(f).max = n /\ ReadIndex(f).index[0] = 0
    <2>1. 0 \in 0 .. n
      BY <1>2
    <2> QED BY <2>1 DEF ReadIndex
  <1> HIDE DEF n
  <1>5. ASSUME NEW k \in 1 .. n - 1 PROVE ReadIndex(f).index[k] = Off(f, k)
    <2>1. k \in Nat /\ k # 0 /\ k <= Len(Items(f, "size")) /\ k \in 1 .. ReadIndex(f).max - 1
      BY <1>2, <1>3, <1>4
    <2>2. CalculateIndex(f, 0).index[k] = Off(f, k)
      BY <2>1, CalculatedFacts
    <2>3. CalculateIndex(f, 0).index[k] = ReadIndex(f).index[k]
      BY <2>1, IndexSame DEF IndexRedundant
    <2> QED BY <2>2, <2>3
  <1> QED BY <1>1, <1>2, <1>3, <1>4, <1>5 DEF n

LEMMA HeldFacts ==
    ASSUME Inv, NEW f \in Images
    PROVE  Held(f) \in Nat /\ Held(f) <= size[f]
  <1> DEFINE y == Len(Items(f, "block")) * BlockSize
  <1>1. Len(Items(f, "block")) \in Nat /\ size[f] \in Nat
    BY ItemsFacts, LenProperties DEF Inv, Given
  <1>2. y \in Nat
    BY <1>1, Times
  <1>3. Held(f) = Min({size[f], y})
    BY DEF Held
  <1> HIDE DEF y
  <1> QED BY <1>1, <1>2, <1>3, MinPair

\* Where a read that is not at its end looks block b up.
LEMMA LookUp ==
    ASSUME Inv, Few, NEW f \in Images, NEW o, NEW n, Ready(f, o, n),
           NEW b \in Nat, NEW at \in Nat, b * BlockSize <= at, at < o + n, at <= size[f]
    PROVE  /\ AtEnd(f, b) => size[f] <= b * BlockSize
           /\ ~AtEnd(f, b) =>
                /\ b * BlockSize < size[f]
                /\ b < Len(Items(f, "block"))
                /\ handle[f].index[b + 1] = Off(f, b + 1)
                /\ \/ handle[f].index[b] = Off(f, b)
                   \/ b = 0 /\ handle[f].index[0] # 0 /\ file[f].state = "cut"
  <1>1. o \in Nat /\ n \in Nat \ {0} /\ size[f] \in Nat /\ b * BlockSize \in Nat
    BY Times DEF Ready, Inv, Given
  <1>2. CASE file[f].state = "whole" /\ handle[f] = ReadIndex(f)
    <2> DEFINE l == Len(file[f].index)
    <2>1. /\ l \in Nat /\ handle[f].max = l /\ handle[f].index[0] = 0 /\ Ended(f, l)
          /\ Len(Items(f, "block")) = l /\ \A k \in 1 .. l - 1 : handle[f].index[k] = Off(f, k)
      BY <1>2, ReadIndexFacts
    <2> HIDE DEF l
    <2>2. l >= 1 /\ l - 1 \in Nat /\ size[f] <= (l - 1) * BlockSize /\ Started(f, l - 1)
      BY <2>1 DEF Ended
    <2>3. AtEnd(f, b) <=> b >= l - 1
      BY <2>1 DEF AtEnd
    <2>4. ASSUME b >= l - 1 PROVE size[f] <= b * BlockSize
      <3>1. CASE b = l - 1
        BY <2>2, <3>1
      <3>2. CASE b # l - 1
        <4>1. (l - 1) * BlockSize + BlockSize <= b * BlockSize /\ (l - 1) * BlockSize \in Nat
          <5>1. l - 1 < b
            BY <2>1, <2>2, <2>4, <3>2
          <5> QED BY <2>2, <5>1, TimesMonotone, Times
        <4> DEFINE y == (l - 1) * BlockSize
                   z == b * BlockSize
        <4>2. y + BlockSize <= z /\ y \in Nat /\ z \in Nat /\ size[f] <= y
          BY <1>1, <2>2, <4>1
        <4> HIDE DEF y, z
        <4>3. size[f] <= z
          BY <1>1, <4>2, Numbers
        <4> QED BY <4>3 DEF z
      <3> QED BY <3>1, <3>2
    <2>5. ASSUME ~(b >= l - 1)
          PROVE  /\ b * BlockSize < size[f] /\ b < l /\ b + 1 \in 1 .. l - 1
                 /\ b = 0 \/ b \in 1 .. l - 1
      <3>1. b < l - 1 /\ b < l /\ b + 1 \in 1 .. l - 1 /\ (b = 0 \/ b \in 1 .. l - 1) /\ l - 1 >= 1
        BY <2>1, <2>2, <2>5
      <3>2. ((l - 1) - 1) * BlockSize < size[f]
        BY <2>2, <3>1 DEF Started
      <3>3. b * BlockSize <= ((l - 1) - 1) * BlockSize /\ ((l - 1) - 1) * BlockSize \in Nat
        <4>1. (l - 1) - 1 \in Nat /\ (b = (l - 1) - 1 \/ b < (l - 1) - 1)
          BY <2>2, <3>1
        <4>2. ((l - 1) - 1) * BlockSize \in Nat
          BY <4>1, Times
        <4>3. CASE b = (l - 1) - 1
          BY <1>1, <4>2, <4>3
        <4>4. CASE b < (l - 1) - 1
          <5> DEFINE y == ((l - 1) - 1) * BlockSize
                     z == b * BlockSize
          <5>1. z + BlockSize <= y /\ y \in Nat /\ z \in Nat
            BY <1>1, <4>1, <4>2, <4>4, TimesMonotone
          <5> HIDE DEF y, z
          <5>2. z <= y
            BY <5>1, Numbers
          <5> QED BY <4>2, <5>2 DEF y, z
        <4> QED BY <4>1, <4>3, <4>4
      <3> DEFINE y == ((l - 1) - 1) * BlockSize
                 z == b * BlockSize
      <3>4. z <= y /\ y < size[f] /\ y \in Nat /\ z \in Nat
        BY <1>1, <3>2, <3>3
      <3> HIDE DEF y, z
      <3>5. z < size[f]
        BY <1>1, <3>4
      <3> QED BY <3>1, <3>5 DEF z
    <2>6. Off(f, 0) = 0
      BY DEF Off
    <2> QED BY <2>1, <2>3, <2>4, <2>5, <2>6
  <1>3. ASSUME NEW z \in {0, 1}, file[f].state = "cut", o + n <= Held(f), handle[f] = CalculateIndex(f, z)
        PROVE  /\ ~AtEnd(f, b)
               /\ b * BlockSize < size[f]
               /\ b < Len(Items(f, "block"))
               /\ handle[f].index[b + 1] = Off(f, b + 1)
               /\ \/ handle[f].index[b] = Off(f, b)
                  \/ b = 0 /\ handle[f].index[0] # 0 /\ file[f].state = "cut"
    <2> DEFINE l == Len(Items(f, "block"))
               y == l * BlockSize
               x == b * BlockSize
    <2>1. l \in Nat /\ Len(Items(f, "size")) \in Nat /\ l <= Len(Items(f, "size"))
      BY ItemsFacts, LenProperties
    <2>2. y \in Nat /\ x \in Nat
      BY <1>1, <2>1, Times
    <2>3. Held(f) = IF size[f] <= y THEN size[f] ELSE y
      <3> HIDE DEF y
      <3>1. Held(f) = Min({size[f], y})
        BY DEF Held, y
      <3> QED BY <1>1, <2>2, <3>1, MinPair
    <2>4. x < size[f] /\ x < y
      <3>1. x <= at
        OBVIOUS
      <3> HIDE DEF x, y, l
      <3> QED BY <1>1, <1>3, <2>2, <2>3, <3>1
    <2>5. b < l
      <3>1. ASSUME l <= b PROVE FALSE
        <4>1. CASE l = b
          BY <2>2, <2>4, <4>1
        <4>2. CASE l # b
          <5>1. l < b
            BY <2>1, <3>1, <4>2
          <5>2. y + BlockSize <= x
            BY <2>1, <5>1, TimesMonotone
          <5> HIDE DEF x, y, l
          <5> QED BY <2>2, <2>4, <5>2, Numbers
        <4> QED BY <4>1, <4>2
      <3> QED BY <2>1, <3>1
    <2>6. b < Unbounded - 1
      <3> DEFINE u == Unbounded - 1
                 v == u * BlockSize
      <3>1. u \in Nat /\ v \in Nat /\ size[f] <= v
        <4>1. u \in Nat
          BY DEF Unbounded
        <4>2. size[f] <= v
          BY DEF Few
        <4> HIDE DEF u
        <4> QED BY <4>1, <4>2, Times
      <3> HIDE DEF u
      <3>2. ASSUME u <= b PROVE FALSE
        <4>1. v <= x
          <5>1. CASE u = b
            BY <2>2, <5>1
          <5>2. CASE u # b
            <6>1. v + BlockSize <= x
              <7>1. u < b
                BY <3>1, <3>2, <5>2
              <7> QED BY <3>1, <7>1, TimesMonotone
            <6> HIDE DEF v, x
            <6> QED BY <2>2, <3>1, <6>1, Numbers
          <5> QED BY <5>1, <5>2
        <4> HIDE DEF v, x
        <4> QED BY <1>1, <2>2, <2>4, <3>1, <4>1
      <3>3. b < u
        BY <3>1, <3>2
      <3> QED BY <3>3 DEF u
    <2>7. ~AtEnd(f, b)
      <3>1. handle[f].max = Unbounded
        BY <1>3 DEF CalculateIndex
      <3>2. Unbounded - 1 \in Nat
        BY DEF Unbounded
      <3> QED BY <2>6, <3>1, <3>2 DEF AtEnd
    <2>8. handle[f].index[b + 1] = Off(f, b + 1)
      <3>1. b + 1 \in Nat /\ b + 1 # 0 /\ b + 1 <= Len(Items(f, "size"))
        BY <2>1, <2>5
      <3> QED BY <1>3, <3>1, CalculatedFacts
    <2>9. handle[f].index[b] = IF b = 0 THEN z ELSE Off(f, b)
      <3>1. b <= Len(Items(f, "size"))
        BY <2>1, <2>5
      <3> QED BY <1>3, <3>1, CalculatedFacts
    <2>10. Off(f, 0) = 0
      BY DEF Off
    <2> QED BY <1>3, <2>4, <2>5, <2>7, <2>8, <2>9, <2>10
  <1> QED BY <1>2, <1>3 DEF Ready

\* A read that has come to the end of the image stops.
LEMMA AtItsEnd ==
    ASSUME Inv, NEW f \in Images, NEW o, NEW n, Ready(f, o, n), size[f] < o + n,
           NEW b \in Nat, size[f] <= b * BlockSize
    PROVE  AtEnd(f, b)
  <1>1. o \in Nat /\ n \in Nat \ {0} /\ size[f] \in Nat /\ b * BlockSize \in Nat
    BY Times DEF Ready, Inv, Given
  <1>2. CASE file[f].state = "whole" /\ handle[f] = ReadIndex(f)
    <2> DEFINE l == Len(file[f].index)
    <2>1. l \in Nat /\ handle[f].max = l /\ Ended(f, l)
      BY <1>2, ReadIndexFacts
    <2> HIDE DEF l
    <2>2. l >= 1 /\ Started(f, l - 1)
      BY <2>1 DEF Ended
    <2>3. ASSUME b < l - 1 PROVE FALSE
      <3> DEFINE y == ((l - 1) - 1) * BlockSize
                 z == b * BlockSize
      <3>1. l - 1 >= 1 /\ (l - 1) - 1 \in Nat /\ (b = (l - 1) - 1 \/ b < (l - 1) - 1)
        BY <2>1, <2>2, <2>3
      <3>2. y < size[f] /\ y \in Nat
        BY <2>2, <3>1, Times DEF Started
      <3>3. z <= y
        <4>1. CASE b = (l - 1) - 1
          BY <3>2, <4>1
        <4>2. CASE b < (l - 1) - 1
          <5>1. z + BlockSize <= y /\ z \in Nat
            BY <1>1, <3>1, <4>2, TimesMonotone
          <5> HIDE DEF y, z
          <5> QED BY <3>2, <5>1, Numbers
        <4> QED BY <3>1, <4>1, <4>2
      <3>4. size[f] <= z /\ z \in Nat
        BY <1>1
      <3> HIDE DEF y, z
      <3> QED BY <1>1, <3>2, <3>3, <3>4
    <2> QED BY <2>1, <2>2, <2>3 DEF AtEnd
  <1>3. CASE o + n <= Held(f)
    <2>1. Held(f) <= size[f] /\ Held(f) \in Nat
      BY HeldFacts
    <2> QED BY <1>1, <1>3, <2>1
  <1> QED BY <1>2, <1>3 DEF Ready

\* Cache c holds the block of f it says it holds, or nothing.
Serves(f, c) ==
    c.block # None =>
        /\ c.len = BlockLen(f, c.block)
        /\ \A i \in 1 .. c.len : c.data[i] = <<f, c.block * BlockSize + i>>

LEMMA CacheIsServed ==
    ASSUME Given, NEW f \in Images, cache \in CacheType, CacheServes(f)
    PROVE  Serves(f, cache)
  <1> SUFFICES ASSUME cache.block # None
               PROVE  /\ cache.len = BlockLen(f, cache.block)
                      /\ \A i \in 1 .. cache.len : cache.data[i] = <<f, cache.block * BlockSize + i>>
    BY DEF Serves
  <1> DEFINE b == cache.block
             d == cache.data
             n == cache.len
             s == SubSeq(d, 1, n)
             T == {d[i] : i \in 1 .. n}
  <1>1. b \in Nat /\ n \in Nat
    BY DEF CacheType
  <1>2. s = Block(f, b)
    BY DEF CacheServes
  <1> HIDE DEF b, d, n
  <1>3. /\ Len(s) = IF 1 <= n THEN n - 1 + 1 ELSE 0
        /\ \A i \in 1 .. n - 1 + 1 : s[i] = d[1 + i - 1]
    <2>1. \A i \in 1 .. n : d[i] \in T
      OBVIOUS
    <2>2. 1 \in Int /\ n \in Int
      BY <1>1
    <2> HIDE DEF T
    <2> QED BY <2>1, <2>2, SubSeqProperties
  <1>4. Len(s) = n
    BY <1>1, <1>3
  <1>5. /\ Len(s) = BlockLen(f, b)
        /\ \A i \in 1 .. BlockLen(f, b) : s[i] = <<f, b * BlockSize + i>>
    BY <1>1, <1>2, BlockFacts
  <1>6. ASSUME NEW i \in 1 .. n PROVE d[i] = <<f, b * BlockSize + i>>
    <2>1. i \in 1 .. n - 1 + 1 /\ 1 + i - 1 = i
      BY <1>1
    <2>2. s[i] = d[i]
      BY <1>3, <2>1
    <2> HIDE DEF s
    <2> QED BY <1>4, <1>5, <2>2
  <1> QED BY <1>4, <1>5, <1>6 DEF b, d, n

\* A block that is looked up where it is comes into the cache.
LEMMA LoadServes ==
    ASSUME Inv, BlocksFit, NEW f \in Images, level[f] > 0, NEW c \in CacheType,
           NEW b \in Nat, b < Len(Items(f, "block")),
           handle[f].index[b + 1] = Off(f, b + 1), handle[f].index[b] = Off(f, b)
    PROVE  Load(f, b, c).ok /\ Load(f, b, c).c.block = b /\ Serves(f, Load(f, b, c).c)
  <1> DEFINE z == Comp(f, b + 1)
             n == handle[f].index[b + 1] - handle[f].index[b]
             l == Load(f, b, c)
  <1>1. /\ Len(Items(f, "block")) \in Nat /\ Len(Items(f, "size")) \in Nat
        /\ Len(Items(f, "block")) <= Len(Items(f, "size"))
    BY ItemsFacts, LenProperties
  <1>2. /\ b + 1 \in Nat \ {0} /\ b + 1 <= Len(Items(f, "size")) /\ b <= Len(Items(f, "size"))
        /\ b + 1 \in 1 .. Len(Items(f, "block")) /\ (b + 1) - 1 = b
    BY <1>1
  <1>3. z \in Packed /\ z.d = Block(f, b) /\ z.n = BlockLen(f, b) + 1 /\ ~z.raw
    BY <1>2, CompFacts DEF Inv
  <1>4. /\ BlockLen(f, b) \in 0 .. BlockSize /\ Len(Block(f, b)) = BlockLen(f, b)
        /\ \A i \in 1 .. BlockLen(f, b) : Block(f, b)[i] = <<f, b * BlockSize + i>>
    BY BlockFacts DEF Inv
  <1>5. n = BlockLen(f, b) + 1
    <2>1. Off(f, b + 1) \in Nat /\ Off(f, b) \in Nat /\ Off(f, b + 1) = Off(f, b) + z.n
      BY <1>2, OffFacts
    <2> HIDE DEF z
    <2> QED BY <1>3, <1>4, <2>1
  <1>6. ~(n < 0 \/ n >= Room)
    <2> HIDE DEF n
    <2> QED BY <1>4, <1>5, Numbers DEF Room
  <1>7. Fetch(f, b, c.cdata) = z
    <2>1. Place(f, b) = handle[f].index[b]
      BY <1>2, PlaceFacts
    <2>2. Items(f, "block")[b + 1] = BlockOf(z)
      BY <1>2, ItemsFacts
    <2>3. BlockOf(z).d = z
      BY DEF BlockOf
    <2> QED BY <2>1, <2>2, <2>3 DEF Fetch
  <1>8. Inflates(z, n)
    <2>1. z # Junk
      BY <1>3, SgzipAssumption DEF Packed, Byte
    <2>2. z.n <= n
      BY <1>3, <1>4, <1>5
    <2> HIDE DEF z
    <2> QED BY <1>3, <2>1, <2>2 DEF Inflates
  <1>9. l = [ok |-> TRUE, c |-> [block |-> b, len |-> Len(z.d), cdata |-> z, data |-> Overlay(c.data, z.d)]]
    <2> HIDE DEF z
    <2> QED BY <1>6, <1>7, <1>8 DEF Load
  <1> HIDE DEF z, n, l
  <1>10. l.ok /\ l.c.block = b /\ l.c.len = BlockLen(f, b) /\ l.c.data = Overlay(c.data, Block(f, b))
    BY <1>3, <1>4, <1>9
  <1>11. ASSUME NEW i \in 1 .. BlockLen(f, b)
         PROVE  Overlay(c.data, Block(f, b))[i] = <<f, b * BlockSize + i>>
    <2>1. DOMAIN c.data = 1 .. Room
      BY DEF CacheType
    <2>2. i \in 1 .. Room /\ i <= Len(Block(f, b))
      BY <1>4, Numbers DEF Room
    <2>3. Overlay(c.data, Block(f, b))[i] = Block(f, b)[i]
      BY <2>1, <2>2 DEF Overlay
    <2> QED BY <1>4, <2>3
  <1>12. Serves(f, l.c)
    BY <1>10, <1>11 DEF Serves
  <1> QED BY <1>10, <1>12 DEF l

\* A first place that is not the start of the file makes the first block unreadable.
LEMMA LoadFails ==
    ASSUME Inv, NEW f \in Images, NEW c \in CacheType, handle[f].index[0] # 0
    PROVE  ~Load(f, 0, c).ok
  <1>1. Place(f, 0) = 0
    <2>1. 0 <= Len(Items(f, "size"))
      BY ItemsFacts, LenProperties
    <2>2. Place(f, 0) = Off(f, 0)
      BY <2>1, PlaceFacts
    <2> QED BY <2>2 DEF Off
  <1>2. Fetch(f, 0, c.cdata) = Junk
    BY <1>1 DEF Fetch
  <1>3. ASSUME NEW n PROVE ~Inflates(Fetch(f, 0, c.cdata), n)
    BY <1>2 DEF Inflates
  <1> DEFINE n == handle[f].index[0 + 1] - handle[f].index[0]
             z == Fetch(f, 0, c.cdata)
  <1>4. Load(f, 0, c) = IF n < 0 \/ n >= Room THEN [ok |-> FALSE, c |-> c]
                        ELSE IF Inflates(z, n)
                        THEN [ok |-> TRUE, c |-> [block |-> 0, len |-> Len(z.d), cdata |-> z, data |-> Overlay(c.data, z.d)]]
                        ELSE [ok |-> FALSE, c |-> [c EXCEPT !.cdata = z, !.data = [i \in DOMAIN @ |-> Junk]]]
    BY DEF Load
  <1>5. ~Inflates(z, n)
    BY <1>3
  <1> HIDE DEF n, z
  <1> QED BY <1>4, <1>5

(* What a read of n bytes from o has after k turns: the first bytes of what *)
(* was asked for, and it is through, or at the end of the image, or at the  *)
(* start of the next block.  The only error is that of the first place.     *)
Handing(f, o, n, k, r) ==
    LET at == o + Len(r.out)
        b  == o \div BlockSize + k
    IN  /\ ~r.error /\ Serves(f, r.c)
        /\ Len(r.out) + r.left = n
        /\ \A i \in 1 .. Len(r.out) : r.out[i] = <<f, o + i>>
        /\ at <= size[f]
        /\ \/ r.left = 0
           \/ at = size[f] /\ (r.stop \/ size[f] <= b * BlockSize)
           \/ ~r.stop /\ r.skip < BlockSize /\ at = b * BlockSize + r.skip

Failed(f, o, r) ==
    /\ r.error /\ r.stop
    /\ file[f].state = "cut" /\ o < BlockSize /\ handle[f].index[0] # 0

ReadsOn(p, k, r) == r \in ReadType /\ (Failed(p[1], p[2], r) \/ Handing(p[1], p[2], p[3], k, r))

Reading == INSTANCE Iteration WITH Step <- ReadStep, Holds <- ReadsOn


\* The block in cache c, the one from y of an image of z bytes, is where a read goes on.
CanHand(f, z, o, n, y, r, c) ==
    /\ z \in Nat /\ o \in Nat /\ n \in Nat /\ y \in Nat /\ r \in ReadType /\ c \in CacheType
    /\ c.len = (IF z <= y + BlockSize THEN z - y ELSE BlockSize)
    /\ \A i \in 1 .. c.len : c.data[i] = <<f, y + i>>
    /\ r.left # 0 /\ r.skip < BlockSize
    /\ Len(r.out) + r.left = n /\ \A i \in 1 .. Len(r.out) : r.out[i] = <<f, o + i>>
    /\ o + Len(r.out) <= z /\ o + Len(r.out) = y + r.skip /\ y < z

GoesOn(f, z, o, n, y, out, left) ==
    /\ Len(out) + left = n
    /\ \A i \in 1 .. Len(out) : out[i] = <<f, o + i>>
    /\ o + Len(out) <= z
    /\ \/ left = 0
       \/ o + Len(out) = z /\ z <= y + BlockSize
       \/ o + Len(out) = y + BlockSize

LEMMA HandOver ==
    ASSUME NEW f, NEW z, NEW o, NEW n, NEW y, NEW r, NEW c, CanHand(f, z, o, n, y, r, c)
    PROVE  GoesOn(f, z, o, n, y, r.out \o Handed(r, c), r.left - Available(r, c))
  <1> DEFINE e == c.len
             a == Available(r, c)
             h == Handed(r, c)
             m == Len(r.out)
             l == r.left
             s == r.skip
             out == r.out \o h
  <1>1. BlockSize \in Nat \ {0} /\ z \in Nat /\ o \in Nat /\ n \in Nat /\ y \in Nat
    BY Numbers DEF CanHand
  <1>2. e = (IF z <= y + BlockSize THEN z - y ELSE BlockSize) /\ \A i \in 1 .. e : c.data[i] = <<f, y + i>>
    BY DEF CanHand
  <1>3. /\ a \in Nat /\ a <= l /\ l \in Nat /\ s \in Nat
        /\ h \in Seq(Byte \cup {Junk}) /\ Len(h) = a
        /\ \A i \in 1 .. a : h[i] = IF s + i \in 1 .. Room THEN c.data[s + i] ELSE Junk
        /\ s <= e => a = IF e - s <= l THEN e - s ELSE l
    BY HandedFacts DEF CanHand
  <1>4. r.out \in Seq(Byte \cup {Junk}) /\ m \in Nat
    <2>1. r.out \in Seq(Byte \cup {Junk})
      BY DEF ReadType, CanHand
    <2> QED BY <2>1, LenProperties
  <1>5. out = r.out \o h
    OBVIOUS
  <1>6. /\ m + l = n /\ \A i \in 1 .. m : r.out[i] = <<f, o + i>>
        /\ o + m <= z /\ o + m = y + s /\ y < z /\ l # 0 /\ s < BlockSize
    BY DEF CanHand
  <1> HIDE DEF e, a, h, m, l, s, out
  <1>7. Len(out) = m + a
    <2>1. h \in Seq(Byte \cup {Junk}) /\ r.out \in Seq(Byte \cup {Junk})
      BY <1>3, <1>4
    <2>2. Len(r.out \o h) = Len(r.out) + Len(h)
      BY <2>1, ConcatProperties
    <2>3. Len(r.out) = m /\ Len(h) = a
      BY <1>3 DEF m
    <2> QED BY <1>5, <2>2, <2>3
  <1>8. \A i \in 1 .. m + a : out[i] = IF i <= m THEN r.out[i] ELSE h[i - m]
    BY <1>3, <1>4, <1>5, ConcatProperties DEF m
  <1>9. e \in Nat /\ e <= BlockSize /\ s <= e /\ y + e <= z
    BY <1>1, <1>2, <1>3, <1>4, <1>6
  <1>10. a = IF e - s <= l THEN e - s ELSE l
    BY <1>3, <1>9
  <1>11. m + a + (l - a) = n /\ o + (m + a) <= z
    BY <1>1, <1>3, <1>4, <1>6, <1>9, <1>10
  <1>12. \/ l - a = 0
         \/ o + (m + a) = z /\ z <= y + BlockSize
         \/ o + (m + a) = y + BlockSize
    BY <1>1, <1>2, <1>3, <1>4, <1>6, <1>9, <1>10
  <1>13. ASSUME NEW i \in 1 .. m + a PROVE out[i] = <<f, o + i>>
    <2>1. CASE i <= m
      <3>1. i \in 1 .. m
        BY <1>3, <1>4, <2>1
      <3> QED BY <1>6, <1>8, <2>1, <3>1
    <2>2. CASE ~(i <= m)
      <3>1. i - m \in 1 .. a /\ s + (i - m) \in 1 .. e /\ y + (s + (i - m)) = o + i
        BY <1>1, <1>3, <1>4, <1>6, <1>9, <1>10, <2>2
      <3>2. s + (i - m) \in 1 .. Room
        BY <1>1, <1>9, <3>1, Numbers DEF Room
      <3>3. out[i] = h[i - m]
        BY <1>8, <2>2
      <3>4. h[i - m] = c.data[s + (i - m)]
        BY <1>3, <3>1, <3>2
      <3>5. c.data[s + (i - m)] = <<f, y + (s + (i - m))>>
        BY <1>2, <3>1
      <3> QED BY <3>1, <3>3, <3>4, <3>5
    <2> QED BY <2>1, <2>2
  <1>14. GoesOn(f, z, o, n, y, out, l - a)
    BY <1>7, <1>11, <1>12, <1>13 DEF GoesOn
  <1> QED BY <1>14 DEF out, h, l, a

\* One turn of the loop keeps what was read right.
LEMMA ReadTurn ==
    ASSUME Inv, Few, BlocksFit, NEW f \in Images, NEW o, NEW n, Ready(f, o, n),
           NEW k \in Nat \ {0}, NEW r \in ReadType, Handing(f, o, n, k - 1, r)
    PROVE  LET t == ReadBlock(f, r, o \div BlockSize + (k - 1))
           IN  Failed(f, o, t) \/ Handing(f, o, n, k, t)
  <1> DEFINE q  == o \div BlockSize
             b  == q + (k - 1)
             y  == b * BlockSize
             at == o + Len(r.out)
             t  == ReadBlock(f, r, b)
             c  == IF r.c.block = b THEN r.c ELSE Load(f, b, r.c).c
             ok == r.c.block = b \/ Load(f, b, r.c).ok
             over == r.left = 0 \/ r.stop \/ AtEnd(f, b)
  <1>1. o \in Nat /\ n \in Nat \ {0} /\ size[f] \in Nat /\ BlockSize \in Nat \ {0} /\ level[f] > 0
    BY Numbers DEF Ready, Inv, Given
  <1>2. q \in Nat /\ o % BlockSize \in Nat /\ o % BlockSize < BlockSize /\ o = q * BlockSize + (o % BlockSize)
    BY <1>1, DivFacts
  <1> HIDE DEF q
  <1>3. b \in Nat /\ b + 1 = q + k
    BY <1>2
  <1> HIDE DEF b
  <1>4. y \in Nat
    BY <1>3, Times
  <1>5. r.left \in Nat /\ r.skip \in Nat /\ r.out \in Seq(Byte \cup {Junk}) /\ Len(r.out) \in Nat /\ r.c \in CacheType
    <2>1. r.left \in Nat /\ r.skip \in Nat /\ r.out \in Seq(Byte \cup {Junk}) /\ r.c \in CacheType
      BY DEF ReadType
    <2> QED BY <2>1, LenProperties
  <1>6. /\ ~r.error /\ Serves(f, r.c) /\ Len(r.out) + r.left = n
        /\ \A i \in 1 .. Len(r.out) : r.out[i] = <<f, o + i>>
        /\ at <= size[f]
        /\ \/ r.left = 0
           \/ at = size[f] /\ (r.stop \/ size[f] <= y)
           \/ ~r.stop /\ r.skip < BlockSize /\ at = y + r.skip
    BY DEF Handing, q, b
  <1>7. /\ t \in ReadType /\ c \in CacheType
        /\ over => /\ t.stop /\ t.left = r.left /\ t.skip = r.skip /\ t.c = r.c /\ t.out = r.out
                   /\ t.error = r.error
        /\ ~over /\ ~ok => t.stop /\ t.error /\ t.c = c
        /\ ~over /\ ok => /\ t.c = c /\ t.left = r.left - Available(r, c) /\ t.skip = 0
                          /\ t.out = r.out \o Handed(r, c) /\ t.stop = r.stop /\ t.error = r.error
    BY <1>3, TurnFacts
  <1>8. (b + 1) * BlockSize = y + BlockSize
    BY <1>3, Times
  <1> HIDE DEF y, t, c, ok, over
  <1>9. ASSUME at = y + r.skip, r.left # 0 PROVE at \in Nat /\ y <= at /\ at < o + n
    <2> DEFINE m == Len(r.out)
               l == r.left
               s == r.skip
    <2>1. m \in Nat /\ l \in Nat /\ s \in Nat /\ m + l = n /\ o + m = y + s /\ l # 0
      BY <1>5, <1>6, <1>9
    <2> HIDE DEF m, l, s
    <2>2. o + m \in Nat /\ y <= o + m /\ o + m < o + n
      BY <1>1, <1>4, <2>1
    <2> QED BY <2>2 DEF m
  <1>10. CASE over
    <2>1. r.left = 0 \/ at = size[f]
      <3>1. ASSUME r.left # 0, at # size[f] PROVE FALSE
        <4>1. AtEnd(f, b) /\ at = y + r.skip
          BY <1>6, <1>10, <3>1 DEF over
        <4>2. at \in Nat /\ y <= at /\ at < o + n
          BY <1>9, <3>1, <4>1
        <4>3. size[f] <= y
          <5> HIDE DEF at
          <5> QED BY <1>3, <1>6, <4>1, <4>2, LookUp DEF y
        <4>4. at <= size[f]
          BY <1>6
        <4> HIDE DEF at
        <4> QED BY <1>1, <1>4, <3>1, <4>2, <4>3, <4>4
      <3> QED BY <3>1
    <2>2. /\ t.stop /\ t.left = r.left /\ t.c = r.c /\ t.out = r.out /\ ~t.error
      BY <1>6, <1>7, <1>10
    <2>3. Handing(f, o, n, k, t)
      BY <1>6, <2>1, <2>2 DEF Handing
    <2> QED BY <2>3 DEF t, b, q
  <1>11. CASE ~over
    <2>1. r.left # 0 /\ ~r.stop /\ ~AtEnd(f, b)
      BY <1>11 DEF over
    <2>2. r.skip < BlockSize /\ at = y + r.skip
      <3>1. ASSUME at = size[f], size[f] <= y PROVE FALSE
        <4>1. size[f] < o + n
          BY <1>1, <1>5, <1>6, <2>1, <3>1
        <4>2. AtEnd(f, b)
          BY <1>3, <3>1, <4>1, AtItsEnd DEF y
        <4> QED BY <2>1, <4>2
      <3> QED BY <1>6, <2>1, <3>1
    <2>3. /\ y < size[f]
          /\ b < Len(Items(f, "block"))
          /\ handle[f].index[b + 1] = Off(f, b + 1)
          /\ \/ handle[f].index[b] = Off(f, b)
             \/ b = 0 /\ handle[f].index[0] # 0 /\ file[f].state = "cut"
      <3>1. at \in Nat /\ y <= at /\ at < o + n
        BY <1>9, <2>1, <2>2
      <3> HIDE DEF at
      <3> QED BY <1>3, <1>6, <2>1, <3>1, LookUp DEF y
    <2>4. CASE ~ok
      <3>1. ~Load(f, b, r.c).ok
        BY <2>4 DEF ok
      <3>2. handle[f].index[b] # Off(f, b)
        BY <1>1, <1>3, <1>5, <2>3, <3>1, LoadServes
      <3>3. b = 0 /\ handle[f].index[0] # 0 /\ file[f].state = "cut"
        BY <2>3, <3>2
      <3>4. q = 0
        BY <1>2, <3>3 DEF b
      <3>5. o < BlockSize
        BY <1>1, <1>2, <3>4
      <3>6. Failed(f, o, t)
        BY <1>7, <1>11, <2>4, <3>3, <3>5 DEF Failed
      <3> QED BY <3>6 DEF t, b, q
    <2>5. CASE ok
      <3>1. c.block = b /\ Serves(f, c)
        <4>1. CASE r.c.block = b
          BY <1>6, <4>1 DEF c
        <4>2. CASE r.c.block # b
          <5>1. c = Load(f, b, r.c).c /\ Load(f, b, r.c).ok
            BY <2>5, <4>2 DEF c, ok
          <5>2. handle[f].index[b] = Off(f, b)
            <6>1. ASSUME b = 0, handle[f].index[0] # 0 PROVE FALSE
              BY <1>5, <5>1, <6>1, LoadFails
            <6> QED BY <2>3, <6>1
          <5> QED BY <1>1, <1>3, <1>5, <2>3, <5>1, <5>2, LoadServes
        <4> QED BY <4>1, <4>2
      <3>2. /\ c.len = IF size[f] <= y + BlockSize THEN size[f] - y ELSE BlockSize
            /\ \A i \in 1 .. c.len : c.data[i] = <<f, y + i>>
        <4>1. b # None
          BY <1>3, SgzipAssumption
        <4>2. c.len = BlockLen(f, b) /\ \A i \in 1 .. c.len : c.data[i] = <<f, b * BlockSize + i>>
          BY <3>1, <4>1 DEF Serves
        <4>3. BlockLen(f, b) = IF size[f] <= y THEN 0
                               ELSE IF size[f] <= y + BlockSize THEN size[f] - y ELSE BlockSize
          BY DEF BlockLen, y
        <4>4. ~(size[f] <= y)
          BY <1>1, <1>4, <2>3
        <4> QED BY <4>2, <4>3, <4>4 DEF y
      <3>3. /\ t.c = c /\ t.left = r.left - Available(r, c) /\ t.skip = 0
            /\ t.out = r.out \o Handed(r, c) /\ ~t.stop /\ ~t.error
        BY <1>6, <1>7, <1>11, <2>1, <2>5
      <3>4. /\ Len(t.out) + t.left = n
            /\ \A i \in 1 .. Len(t.out) : t.out[i] = <<f, o + i>>
            /\ o + Len(t.out) <= size[f]
            /\ \/ t.left = 0
               \/ o + Len(t.out) = size[f] /\ size[f] <= y + BlockSize
               \/ o + Len(t.out) = y + BlockSize
        <4>1. CanHand(f, size[f], o, n, y, r, c)
          BY <1>1, <1>4, <1>6, <1>7, <2>1, <2>2, <2>3, <3>2 DEF CanHand
        <4>2. GoesOn(f, size[f], o, n, y, t.out, t.left)
          BY <3>3, <4>1, HandOver
        <4> QED BY <4>2 DEF GoesOn
      <3>5. y + BlockSize = (q + k) * BlockSize /\ y + BlockSize = y + BlockSize + 0 /\ 0 < BlockSize
        BY <1>1, <1>3, <1>4, <1>8
      <3>6. Handing(f, o, n, k, t)
        <4> DEFINE x == (q + k) * BlockSize
        <4>1. x = y + BlockSize
          BY <3>5
        <4>2. x \in Nat /\ x + 0 = x
          BY <1>1, <1>4, <4>1
        <4>3. (o + Len(t.out) = x => o + Len(t.out) = x + t.skip) /\ t.skip < BlockSize
          BY <3>3, <3>5, <4>2
        <4> HIDE DEF x
        <4>4. \/ t.left = 0
              \/ o + Len(t.out) = size[f] /\ (t.stop \/ size[f] <= x)
              \/ ~t.stop /\ t.skip < BlockSize /\ o + Len(t.out) = x + t.skip
          BY <3>3, <3>4, <4>1, <4>3
        <4> QED BY <3>1, <3>3, <3>4, <4>4 DEF Handing, x, q
      <3> QED BY <3>6 DEF t, b, q
    <2> QED BY <2>4, <2>5
  <1> QED BY <1>10, <1>11

LEMMA QuotientBound ==
    ASSUME NEW o \in Nat, NEW m \in Nat, o <= m * BlockSize
    PROVE  o \div BlockSize <= m
  <1> DEFINE q == o \div BlockSize
             x == q * BlockSize
             y == m * BlockSize
  <1>1. q \in Nat /\ o % BlockSize \in Nat /\ o = x + (o % BlockSize)
    BY DivFacts
  <1> HIDE DEF q
  <1>2. x \in Nat /\ y \in Nat /\ BlockSize \in Nat \ {0}
    BY <1>1, Times, Numbers
  <1>3. ASSUME m < q PROVE FALSE
    <2>1. y + BlockSize <= x
      BY <1>1, <1>3, TimesMonotone
    <2>2. o <= y
      OBVIOUS
    <2> HIDE DEF x, y
    <2> QED BY <1>1, <1>2, <2>1, <2>2
  <1>4. q <= m
    BY <1>1, <1>3
  <1> QED BY <1>4 DEF q

\* A read starts with nothing, at a place of the first block.
LEMMA ReadStarts ==
    ASSUME Inv, Few, NEW f \in Images, cache \in CacheType, CacheServes(f), NEW o, NEW n, Ready(f, o, n)
    PROVE  Handing(f, o, n, 0, ReadStart(f, o, n))
  <1> DEFINE q == o \div BlockSize
             r == ReadStart(f, o, n)
  <1>1. o \in Nat /\ n \in Nat \ {0} /\ size[f] \in Nat
    BY DEF Ready, Inv, Given
  <1>2. o <= size[f]
    <2>1. Held(f) \in Nat /\ Held(f) <= size[f]
      BY HeldFacts
    <2> QED BY <1>1, <2>1 DEF Ready
  <1>3. q \in Nat /\ o % BlockSize \in Nat /\ o % BlockSize < BlockSize /\ o = q * BlockSize + (o % BlockSize)
    BY <1>1, DivFacts
  <1>4. ~(q > handle[f].max)
    <2>1. CASE file[f].state = "whole" /\ handle[f] = ReadIndex(f)
      <3> DEFINE l == Len(file[f].index)
                 y == (l - 1) * BlockSize
      <3>1. l \in Nat /\ handle[f].max = l /\ Ended(f, l)
        BY <2>1, ReadIndexFacts
      <3> HIDE DEF l
      <3>2. l - 1 \in Nat /\ size[f] <= y
        BY <3>1 DEF Ended
      <3>3. y \in Nat
        BY <3>2, Times
      <3>4. o <= y
        <4> HIDE DEF y
        <4> QED BY <1>1, <1>2, <3>2, <3>3
      <3>5. q <= l - 1
        BY <1>1, <3>2, <3>4, QuotientBound
      <3> HIDE DEF q
      <3> QED BY <1>3, <3>1, <3>5
    <2>2. ASSUME NEW z, handle[f] = CalculateIndex(f, z) PROVE ~(q > handle[f].max)
      <3> DEFINE u == Unbounded - 1
                 y == u * BlockSize
      <3>1. handle[f].max = Unbounded
        BY <2>2 DEF CalculateIndex
      <3>2. u \in Nat /\ size[f] <= y /\ u + 1 = Unbounded
        BY DEF Unbounded, Few
      <3> HIDE DEF u
      <3>3. y \in Nat
        BY <3>2, Times
      <3>4. o <= y
        <4> HIDE DEF y
        <4> QED BY <1>1, <1>2, <3>2, <3>3
      <3>5. q <= u
        BY <1>1, <3>2, <3>4, QuotientBound
      <3> HIDE DEF q
      <3> QED BY <1>3, <3>1, <3>2, <3>5
    <2> QED BY <2>1, <2>2 DEF Ready
  <1>5. r.left = n /\ r.skip = o % BlockSize /\ r.c = cache /\ r.out = <<>> /\ ~r.stop /\ ~r.error
    BY <1>4 DEF ReadStart
  <1>6. Serves(f, cache)
    BY CacheIsServed DEF Inv
  <1>7. Len(r.out) = 0 /\ o + Len(r.out) = o /\ Len(r.out) + r.left = n
    BY <1>1, <1>5
  <1>8. q + 0 = q
    BY <1>3
  <1> HIDE DEF r
  <1>9. o + Len(r.out) = (q + 0) * BlockSize + r.skip
    BY <1>3, <1>5, <1>7, <1>8
  <1>10. Handing(f, o, n, 0, r)
    BY <1>2, <1>3, <1>5, <1>6, <1>7, <1>9 DEF Handing
  <1> QED BY <1>10 DEF r

\* After n + 1 turns a read is through or at the end of the image.
LEMMA ReadEnds ==
    ASSUME Given, NEW f \in Images, NEW o \in Nat, NEW n \in Nat, NEW r \in ReadType,
           Handing(f, o, n, n + 1, r)
    PROVE  r.out = Slice(Data(f), o, n)
  <1> DEFINE q == o \div BlockSize
             x == q * BlockSize
             b == (q + (n + 1)) * BlockSize
             m == Len(r.out)
             w == n * BlockSize
             s == Slice(Data(f), o, n)
  <1>1. /\ r.left \in Nat /\ r.skip \in Nat /\ m \in Nat /\ size[f] \in Nat /\ BlockSize \in Nat \ {0}
        /\ r.out \in Seq(Byte \cup {Junk})
    <2>1. r.out \in Seq(Byte \cup {Junk})
      BY DEF ReadType
    <2> QED BY <2>1, LenProperties, Numbers DEF ReadType, Given
  <1>2. q \in Nat /\ o % BlockSize \in Nat /\ o % BlockSize < BlockSize /\ o = x + (o % BlockSize)
    BY DivFacts
  <1>3. /\ m + r.left = n /\ o + m <= size[f] /\ \A i \in 1 .. m : r.out[i] = <<f, o + i>>
        /\ \/ r.left = 0
           \/ o + m = size[f]
           \/ o + m = b + r.skip
    BY DEF Handing
  <1> HIDE DEF q, m
  <1>4. x \in Nat /\ w \in Nat /\ w >= n /\ b = x + w + BlockSize
    <2>1. x \in Nat /\ w \in Nat /\ w >= n
      BY <1>2, Times
    <2>2. b = (q + n) * BlockSize + BlockSize
      <3>1. q + (n + 1) = (q + n) + 1 /\ q + n \in Nat
        BY <1>2
      <3> QED BY <3>1, Times
    <2>3. (q + n) * BlockSize = x + w
      BY <1>1, <1>2
    <2> QED BY <2>1, <2>2, <2>3
  <1> HIDE DEF x, w, b
  <1>5. r.left = 0 \/ o + m = size[f]
    BY <1>1, <1>2, <1>3, <1>4
  <1>6. /\ s \in Seq(Byte)
        /\ Len(s) = (IF (IF size[f] <= o + n THEN size[f] ELSE o + n) <= o THEN 0
                     ELSE (IF size[f] <= o + n THEN size[f] ELSE o + n) - o)
        /\ \A i \in 1 .. Len(s) : s[i] = <<f, o + i>>
    BY PartFacts
  <1> HIDE DEF s
  <1>7. Len(s) = m
    <2> DEFINE e == IF size[f] <= o + n THEN size[f] ELSE o + n
               l == r.left
    <2>1. m + l = n /\ o + m <= size[f] /\ l \in Nat /\ m \in Nat /\ size[f] \in Nat /\ (l = 0 \/ o + m = size[f])
      BY <1>1, <1>3, <1>5
    <2> HIDE DEF l
    <2>2. e = o + m
      BY <2>1
    <2>3. Len(s) = IF e <= o THEN 0 ELSE e - o
      BY <1>6
    <2> HIDE DEF e
    <2> QED BY <2>1, <2>2, <2>3
  <1>8. s \in Seq(Byte \cup {Junk})
    <2>1. s \in [1 .. Len(s) -> Byte]
      BY <1>6, LenProperties
    <2>2. s \in [1 .. Len(s) -> Byte \cup {Junk}] /\ Len(s) \in Nat
      BY <1>1, <1>7, <2>1
    <2> QED BY <2>2
  <1>9. r.out = s
    <2>1. Len(r.out) = Len(s) /\ \A i \in 1 .. Len(r.out) : r.out[i] = s[i]
      BY <1>3, <1>6, <1>7 DEF m
    <2> QED BY <1>1, <1>8, <2>1, SeqEqual
  <1> QED BY <1>9 DEF s

\* A read that can be served returns what was asked for, or is the allowed error.
LEMMA ReadsRight ==
    ASSUME Inv, HandlesOK, Few, BlocksFit, cache \in CacheType,
           NEW f \in Images, handle[f] # None, CacheServes(f), NEW o, NEW n, Ready(f, o, n)
    PROVE  LET r == ReadRandom(f, o, n)
           IN  Failed(f, o, r) \/ (~r.error /\ r.out = Slice(Data(f), o, n))
  <1> DEFINE p == <<f, o, n>>
             s == ReadStart(f, o, n)
  <1>0. p[1] = f /\ p[2] = o /\ p[3] = n
    OBVIOUS
  <1>1. o \in Nat /\ n \in Nat
    BY DEF Ready
  <1>2. ReadsOn(p, 0, s)
    <2>1. s \in ReadType
      BY <1>1, StartType
    <2>2. Handing(f, o, n, 0, s)
      BY ReadStarts
    <2> HIDE DEF p, s
    <2> QED BY <1>0, <2>1, <2>2 DEF ReadsOn
  <1>3. ASSUME NEW k \in 1 .. n + 1, NEW r, ReadsOn(p, k - 1, r)
        PROVE  ReadsOn(p, k, ReadStep(r, k, p))
    <2> DEFINE b == o \div BlockSize + (k - 1)
               t == ReadBlock(f, r, b)
    <2>1. ReadStep(r, k, p) = t
      BY <1>0 DEF ReadStep
    <2>2. k \in Nat \ {0} /\ k - 1 \in Nat
      BY <1>1
    <2>3. b \in Nat
      <3> DEFINE q == o \div BlockSize
      <3>1. q \in Nat
        BY <1>1, DivFacts
      <3> HIDE DEF q
      <3>2. q + (k - 1) \in Nat
        BY <2>2, <3>1
      <3> QED BY <3>2 DEF q
    <2> HIDE DEF p
    <2>4. r \in ReadType /\ (Failed(f, o, r) \/ Handing(f, o, n, k - 1, r))
      BY <1>0, <1>3 DEF ReadsOn
    <2>5. t \in ReadType
      <3> HIDE DEF b
      <3> QED BY <2>3, <2>4, TurnFacts
    <2>6. CASE Failed(f, o, r)
      <3>1. r.stop /\ r.error
        BY <2>6 DEF Failed
      <3>2. t.stop /\ t.error = r.error
        <4> HIDE DEF b
        <4> QED BY <2>3, <2>4, <3>1, TurnFacts
      <3>3. Failed(f, o, t)
        <4> HIDE DEF t
        <4> QED BY <2>6, <3>1, <3>2 DEF Failed
      <3> HIDE DEF t
      <3> QED BY <1>0, <2>1, <2>5, <3>3 DEF ReadsOn
    <2>7. CASE Handing(f, o, n, k - 1, r)
      <3>1. Failed(f, o, t) \/ Handing(f, o, n, k, t)
        BY <2>2, <2>4, <2>7, ReadTurn
      <3> HIDE DEF t
      <3> QED BY <1>0, <2>1, <2>5, <3>1 DEF ReadsOn
    <2> QED BY <2>4, <2>6, <2>7
  <1>4. ReadsOn(p, n + 1, Reading!Iterate(p, s, n + 1))
    <2>1. n + 1 \in Nat
      BY <1>1
    <2> HIDE DEF p, s
    <2> QED BY <1>2, <1>3, <2>1, Reading!IterateHolds
  <1>5. ReadRandom(f, o, n) = Reading!Iterate(p, s, n + 1)
    BY DEF ReadRandom, Reading!Iterate, ReadStep, ReadStart
  <1> DEFINE r == ReadRandom(f, o, n)
  <1>6. r \in ReadType /\ (Failed(f, o, r) \/ Handing(f, o, n, n + 1, r))
    <2> HIDE DEF p, s, r
    <2>1. ReadsOn(p, n + 1, r)
      BY <1>4, <1>5 DEF r
    <2> QED BY <1>0, <2>1 DEF ReadsOn
  <1> HIDE DEF r
  <1>7. CASE Handing(f, o, n, n + 1, r)
    <2>1. ~r.error
      BY <1>7 DEF Handing
    <2>2. r.out = Slice(Data(f), o, n)
      BY <1>1, <1>6, <1>7, ReadEnds DEF Inv
    <2> QED BY <2>1, <2>2 DEF r
  <1> QED BY <1>6, <1>7 DEF r

\* What opening and reading keep.
ReadInv == Inv /\ HandlesOK /\ cache \in CacheType /\ Few

LEMMA OpenInit == ASSUME FewBlocks, Init PROVE ReadInv
  <1>1. Inv
    BY InitGood
  <1>2. HandlesOK
    BY DEF Init, HandlesOK, Handled
  <1>3. cache \in CacheType
    <2>1. NoCache \in CacheType
      BY Numbers DEF NoCache, CacheType
    <2> QED BY <2>1 DEF Init
  <1>4. Few
    BY DEF Init, Few, FewBlocks
  <1> QED BY <1>1, <1>2, <1>3, <1>4 DEF ReadInv

LEMMA OpenNext == ASSUME ReadInv, [Next]_vars PROVE ReadInv'
  <1>0. Inv /\ HandlesOK /\ cache \in CacheType /\ Few
    BY DEF ReadInv
  <1>1. Inv'
    BY <1>0, NextGood
  <1>2. size' = size
    BY DEF Next, vars, CompressBlock, WriteIndex, Kill, Open, Decompress, Read
  <1>3. Few'
    BY <1>0, <1>2 DEF Few, Unbounded
  <1>4. ASSUME UNCHANGED <<file, handle>> PROVE HandlesOK'
    BY <1>0, <1>4, HandledSame DEF HandlesOK
  <1>5. CASE UNCHANGED vars
    BY <1>0, <1>1, <1>3, <1>4, <1>5 DEF ReadInv, vars
  <1>6. ASSUME NEW f \in Images, CompressBlock(f) \/ WriteIndex(f) \/ Kill(f) PROVE ReadInv'
    <2>1. handle' = handle /\ cache' = cache /\ file[f].state \in {"new", "ending"}
      BY <1>6 DEF CompressBlock, WriteIndex, Kill
    <2>2. \A g \in Images : g # f => file'[g] = file[g]
      BY <1>0, <1>6 DEF CompressBlock, WriteIndex, Kill, Inv, FilesOK
    <2>3. handle[f] = None
      BY <1>0, <2>1 DEF HandlesOK, Handled
    <2>4. Handled(f)'
      BY <2>1, <2>3 DEF Handled
    <2>5. ASSUME NEW g \in Images, g # f PROVE Handled(g)'
      BY <1>0, <2>1, <2>2, <2>5, HandledSame DEF HandlesOK
    <2>6. HandlesOK'
      BY <1>0, <2>1, <2>4, <2>5 DEF HandlesOK
    <2> QED BY <1>0, <1>1, <1>3, <2>1, <2>6 DEF ReadInv
  <1>7. ASSUME NEW f \in Images, Open(f) PROVE ReadInv'
    <2>1. HandlesOK' /\ cache' = cache
      BY <1>0, <1>7, OpenHandled DEF Open
    <2> QED BY <1>0, <1>1, <1>3, <2>1 DEF ReadInv
  <1>8. ASSUME NEW f \in Images, Decompress(f) PROVE ReadInv'
    <2>1. UNCHANGED <<file, handle>> /\ cache' = cache
      BY <1>8 DEF Decompress
    <2> QED BY <1>0, <1>1, <1>3, <1>4, <2>1 DEF ReadInv
  <1>9. ASSUME NEW f \in Images, handle[f] # None, NEW o \in Offsets(f), NEW n \in 1 .. MaxLen, Read(f, o, n)
        PROVE  ReadInv'
    <2>1. UNCHANGED <<file, handle>> /\ cache' = ReadRandom(f, o, n).c
      BY <1>9 DEF Read
    <2>2. o \in Nat /\ n \in Nat
      BY <1>0, SgzipAssumption DEF Offsets, Inv, Given
    <2>3. cache' \in CacheType
      BY <1>0, <1>9, <2>1, <2>2, ReadKeepsCache
    <2>4. CacheType' = CacheType
      OBVIOUS
    <2> QED BY <1>1, <1>3, <1>4, <2>1, <2>3 DEF ReadInv
  <1> QED BY <1>5, <1>6, <1>7, <1>8, <1>9 DEF Next

ReadExactly ==
    LET f == last'.image  o == last'.offs  n == last'.len
    IN  UNCHANGED <<file, handle>> /\ last'.how = "read" /\ CacheServes(f) /\ level[f] > 0 =>
          /\ file[f].state = "whole" /\ o <= size[f] => Exact(f, o, n)
          /\ file[f].state = "cut" /\ o + n <= Held(f) =>
               Exact(f, o, n) \/ (o < BlockSize /\ handle[f].index[0] # 0 /\ last'.error)

LEMMA ReadStepExact == ASSUME BlocksFit, ReadInv, [Next]_vars PROVE [ReadExactly]_vars
  <1>0. Inv /\ HandlesOK /\ cache \in CacheType /\ Few
    BY DEF ReadInv
  <1>1. ASSUME NEW f \in Images, CompressBlock(f) \/ WriteIndex(f) \/ Kill(f) \/ Open(f)
        PROVE  [ReadExactly]_vars
    BY <1>1 DEF CompressBlock, WriteIndex, Kill, Open, ReadExactly, vars
  <1>2. ASSUME NEW f \in Images, Decompress(f) PROVE [ReadExactly]_vars
    <2>1. last'.how = "stream"
      BY <1>2 DEF Decompress, NoRead
    <2> QED BY <2>1 DEF ReadExactly
  <1>3. ASSUME NEW f \in Images, handle[f] # None, NEW o \in Offsets(f), NEW n \in 1 .. MaxLen, Read(f, o, n)
        PROVE  [ReadExactly]_vars
    <2> DEFINE r == ReadRandom(f, o, n)
    <2>1. /\ last'.image = f /\ last'.offs = o /\ last'.len = n
          /\ last'.out = (IF r.error THEN <<>> ELSE r.out) /\ last'.error = r.error
      BY <1>3 DEF Read
    <2> HIDE DEF r
    <2>2. o \in Nat /\ n \in Nat \ {0}
      BY <1>0, SgzipAssumption DEF Offsets, Inv, Given
    <2>3. ASSUME CacheServes(f), Ready(f, o, n)
          PROVE  Exact(f, o, n) \/ (file[f].state = "cut" /\ o < BlockSize /\ handle[f].index[0] # 0 /\ last'.error)
      <3>1. Failed(f, o, r) \/ (~r.error /\ r.out = Slice(Data(f), o, n))
        BY <1>0, <1>3, <2>3, ReadsRight DEF r
      <3> QED BY <2>1, <3>1 DEF Exact, Failed
    <2>4. ASSUME level[f] > 0, file[f].state = "whole", o <= size[f] PROVE Ready(f, o, n)
      BY <1>0, <1>3, <2>2, <2>4 DEF Ready, HandlesOK, Handled
    <2>5. ASSUME level[f] > 0, file[f].state = "cut", o + n <= Held(f) PROVE Ready(f, o, n)
      BY <1>0, <1>3, <2>2, <2>5 DEF Ready, HandlesOK, Handled
    <2>6. "whole" # "cut"
      OBVIOUS
    <2>7. ReadExactly
      BY <2>1, <2>3, <2>4, <2>5, <2>6 DEF ReadExactly
    <2> QED BY <2>7
  <1>4. CASE UNCHANGED vars
    BY <1>4
  <1> QED BY <1>1, <1>2, <1>3, <1>4 DEF Next

(* A read from inside a whole image returns the bytes of the image, short   *)
(* only at its end, whatever was read before it, if the cache is the        *)
(* image's own; and what is there of a file that was cut off can be read,   *)
(* except where the first place of the index makes the read an error        *)
(* (sgzip_read_random).                                                     *)
THEOREM ReadCorrect ==
    ASSUME BlocksFit, FewBlocks
    PROVE  Spec => ReadExact
  <1>1. Init => ReadInv
    BY OpenInit
  <1>2. ReadInv /\ [Next]_vars => ReadInv'
    BY OpenNext
  <1>3. ReadInv /\ [Next]_vars => [ReadExactly]_vars
    BY ReadStepExact
  <1> QED BY <1>1, <1>2, <1>3, PTL DEF Spec, ReadExact, ReadExactly
=============================================================================
