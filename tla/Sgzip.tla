------------------------------- MODULE Sgzip -------------------------------
(***************************************************************************)
(* The seekable compressed image format of src/lib/sgzlib.c.  Images are   *)
(* compressed block by block through a write buffer, and the compressor    *)
(* may be killed at any time; the files it leaves are opened by one        *)
(* process (SgzipIOSource), which reads ranges of them through the one     *)
(* block cache of the library, or decompresses them as a stream.           *)
(*                                                                         *)
(* A byte of an image is the pair of the image and its position.  A file   *)
(* is a sequence of items, each with the length it takes; a compressed     *)
(* block is the block and its compressed length, and uncompress succeeds   *)
(* on a whole compressed block only.  A block is one byte longer when it   *)
(* is compressed, so that all lengths differ.  Sizes and offsets of the    *)
(* header and of the size fields are left out: the position of a block is  *)
(* what the index says of it.                                              *)
(***************************************************************************)
EXTENDS Integers, Sequences, SequencesExt, FiniteSetsExt

CONSTANTS
    Images,
    Sizes,        \* the sizes of the images
    Levels,       \* the compression levels
    BlockSize,    \* header->blocksize
    Slack,        \* the 1024 bytes a compressed block may be longer
    BufferSize,   \* BUFFER_SIZE
    MaxLen,       \* bound: the longest read
    FarOffset,    \* an offset past all blocks
    Junk, None

ASSUME SgzipAssumption ==
    /\ Sizes \subseteq Nat /\ Levels \subseteq 0 .. 9
    /\ BlockSize \in Nat \ {0} /\ Slack \in Nat \ {0, 1} /\ BufferSize \in Nat \ {0}
    /\ MaxLen \in Nat /\ FarOffset \in Nat
    /\ None \notin Nat /\ None \notin Seq(Nat)
    /\ Junk \notin [n : Nat, d : Seq(Images \X Nat), raw : BOOLEAN]

VARIABLES
    size,    \* the size of each image
    level,   \* the compression level of each image
    file,    \* each compressed file: its items, how many are on disk, the
             \* bytes in the write buffer, its offsets, its index, its state
    handle,  \* each open file: the index in memory and max_chunks
    cache,   \* data, cdata, cached_block_offs and cached_length
    last     \* what was read last

vars == <<size, level, file, handle, cache, last>>

Data(f) == [i \in 1 .. size[f] |-> <<f, i>>]
Slice(s, o, n) == SubSeq(s, o + 1, Min({Len(s), o + n}))
Block(f, b) == Slice(Data(f), b * BlockSize, BlockSize)

Room == BlockSize + Slack

NewFile == [items |-> <<>>, disk |-> 0, fill |-> 0, list |-> <<>>, index |-> None, state |-> "new"]
NoCache == [block |-> None, len |-> 0, data |-> [i \in 1 .. Room |-> Junk], cdata |-> Junk]
NoRead  == [how |-> "none", image |-> None, offs |-> 0, len |-> 0, out |-> <<>>, error |-> FALSE]

Init ==
    /\ size \in [Images -> Sizes]
    /\ level \in [Images -> Levels]
    /\ file = [f \in Images |-> NewFile]
    /\ handle = [f \in Images |-> None]
    /\ cache = NoCache
    /\ last = NoRead

(***************************************************************************)
(* Writing: stream_write and sgzip_compress_fds.                           *)
(***************************************************************************)
Flush(w) == [w EXCEPT !.disk = Len(w.items), !.fill = 0]

(* What does not fit flushes the buffer, and so does an item of no length. *)
(* An item longer than the buffer is not written: the buffer is, as many   *)
(* bytes of it.                                                            *)
StreamWrite(w, item) ==
    LET v == IF item.n = 0 \/ w.fill + item.n > BufferSize THEN Flush(w) ELSE w
    IN  IF item.n > BufferSize
        THEN Flush([v EXCEPT !.items = Append(@, [item EXCEPT !.d = Junk])])
        ELSE IF item.n = 0 THEN v
        ELSE [v EXCEPT !.items = Append(@, item), !.fill = @ + item.n]

Size(n)    == [t |-> "size", n |-> 1, d |-> n]
BlockOf(c) == [t |-> "block", n |-> c.n, d |-> c]
End        == [t |-> "end", n |-> 2, d |-> 0]

\* compress2; at level 0 the block is copied and all the room is written.
Compress(f, d) == IF level[f] = 0 THEN [n |-> Room, d |-> d, raw |-> TRUE]
                                  ELSE [n |-> Len(d) + 1, d |-> d, raw |-> FALSE]

\* The items of type t among the first n of s.
Select(s, n, t) ==
    LET kept[k \in 0 .. n] == IF k = 0 THEN <<>>
                              ELSE IF s[k].t = t THEN Append(kept[k - 1], s[k]) ELSE kept[k - 1]
    IN  kept[n]

Items(f, t) == Select(file[f].items, file[f].disk, t)
Written(f)  == Select(file[f].items, Len(file[f].items), "block")

\* add_item: each offset is the one before plus the length of the block.
AddItem(list, n) == Append(list, n + IF list = <<>> THEN 0 ELSE Last(list))

NextBlock(f) == Block(f, Len(Written(f)))

\* Mutant: the turn that reads a short block is the last.
CompressBlockShort(f) ==
    LET c == Compress(f, NextBlock(f))
        w == StreamWrite(StreamWrite(file[f], Size(c.n)), BlockOf(c))
    IN  /\ file[f].state = "new"
        /\ file' = [file EXCEPT ![f] =
                       [w EXCEPT !.list = AddItem(@, c.n),
                                 !.state = IF Len(NextBlock(f)) < BlockSize THEN "ending" ELSE "new"]]
        /\ UNCHANGED <<size, level, handle, cache, last>>

(* One turn of the loop: a block is read, compressed and written after its *)
(* length.  The turn that reads nothing writes a block too and is the last.*)
CompressBlock(f) ==
    LET c == Compress(f, NextBlock(f))
        w == StreamWrite(StreamWrite(file[f], Size(c.n)), BlockOf(c))
    IN  /\ file[f].state = "new"
        /\ file' = [file EXCEPT ![f] =
                       [w EXCEPT !.list = AddItem(@, c.n),
                                 !.state = IF NextBlock(f) = <<>> THEN "ending" ELSE "new"]]
        /\ UNCHANGED <<size, level, handle, cache, last>>

\* The end mark, the flush, and the index with its magic.
WriteIndex(f) ==
    /\ file[f].state = "ending"
    /\ file' = [file EXCEPT ![f] = [Flush(StreamWrite(@, End)) EXCEPT !.index = file[f].list, !.list = <<>>,
                                                                     !.state = "whole"]]
    /\ UNCHANGED <<size, level, handle, cache, last>>

\* The compressor is killed: what was not flushed is lost.
Kill(f) ==
    /\ file[f].state \in {"new", "ending"}
    /\ file' = [file EXCEPT ![f].items = SubSeq(@, 1, file[f].disk), ![f].fill = 0,
                            ![f].list = <<>>, ![f].state = "cut"]
    /\ UNCHANGED <<size, level, handle, cache, last>>

(***************************************************************************)
(* Opening: sgzip_read_index, or sgzip_calculate_index_from_stream if the  *)
(* file has none.                                                          *)
(***************************************************************************)

(* The entries are read behind the first place, which is 0, and the last   *)
(* of them, the end of the empty block, is overwritten by the mark.        *)
ReadIndex(f) ==
    LET n == Len(file[f].index)
    IN  [index |-> [k \in 0 .. n |-> IF k \in {0, n} THEN 0 ELSE file[f].index[k]],
         max   |-> n]

\* The offsets that the sizes in s add up to.
AddSizes(s) ==
    LET list[k \in 0 .. Len(s)] == IF k = 0 THEN <<>> ELSE AddItem(list[k - 1], s[k].d)
    IN  list[Len(s)]

\* The name of the compression read as a number of blocks.
Unbounded == 1000

\* Mutant: the offsets start at the first place.
CalculateIndexFromFirst(f, place0) ==
    LET offsets == AddSizes(Items(f, "size"))
        n == Len(offsets)
    IN  [index |-> [k \in 0 .. n |-> IF k = n THEN 0 ELSE offsets[k + 1]],
         max   |-> Unbounded]

(* The sizes in the file are followed, the size of a block that is not     *)
(* there included.  The first place is never assigned: it holds what       *)
(* malloc returned, 0 or not.  max_chunks keeps the name of the            *)
(* compression, a number larger than any block.                            *)
CalculateIndex(f, place0) ==
    LET offsets == AddSizes(Items(f, "size"))
        n == Len(offsets)
    IN  [index |-> [k \in 0 .. n + 1 |-> IF k = 0 THEN place0
                                         ELSE IF k = n + 1 THEN 0 ELSE offsets[k]],
         max   |-> Unbounded]

Open(f) ==
    /\ file[f].state \in {"whole", "cut"} /\ handle[f] = None
    /\ \/ /\ file[f].index # None
          /\ handle' = [handle EXCEPT ![f] = ReadIndex(f)]
       \/ /\ file[f].index = None
          /\ \E place0 \in {0, 1} : handle' = [handle EXCEPT ![f] = CalculateIndex(f, place0)]
    /\ UNCHANGED <<size, level, file, cache, last>>

(***************************************************************************)
(* sgzip_read_random.                                                      *)
(***************************************************************************)

\* Where the compressed blocks of a file are.
Place(f, b) ==
    LET offs[k \in 0 .. b] == IF k = 0 THEN 0
                              ELSE offs[k - 1] + IF k <= Len(Items(f, "size")) THEN Items(f, "size")[k].d ELSE 0
    IN  offs[b]

(* read() of block b from where the index says it is: it is not an error   *)
(* that the file ends there, and cdata stays as it was.                    *)
Fetch(f, b, cdata) ==
    IF handle[f].index[b] # Place(f, b) THEN Junk
    ELSE IF b < Len(Items(f, "block")) THEN Items(f, "block")[b + 1].d
    ELSE cdata

Inflates(cdata, n) == cdata # Junk /\ ~cdata.raw /\ cdata.n <= n

\* The buffer with the bytes of d at its start.
Overlay(data, d) == [i \in DOMAIN data |-> IF i <= Len(d) THEN d[i] ELSE data[i]]

(* A miss: the block is fetched and uncompressed.  Only a block that could *)
(* be uncompressed is noted as the one in the cache; one that could not    *)
(* has been written over it all the same.                                  *)
Load(f, b, c) ==
    LET n == handle[f].index[b + 1] - handle[f].index[b]
        cdata == Fetch(f, b, c.cdata)
    IN  IF n < 0 \/ n >= Room THEN [ok |-> FALSE, c |-> c]
        ELSE IF Inflates(cdata, n)
        THEN [ok |-> TRUE, c |-> [block |-> b, len |-> Len(cdata.d), cdata |-> cdata,
                                  data |-> Overlay(c.data, cdata.d)]]
        ELSE [ok |-> FALSE, c |-> [c EXCEPT !.cdata = cdata,
                                            !.data = [i \in DOMAIN @ |-> Junk]]]

\* Mutant: the empty block counts.
AtEndLate(f, b) == b >= handle[f].max

\* The last block of an indexed file is the empty one.
AtEnd(f, b) == b >= handle[f].max - 1

(* One turn of the loop.  An offset past the end of the last block makes   *)
(* available, which is unsigned, larger than any length.                   *)
ReadBlock(f, r, b) ==
    IF r.left = 0 \/ r.stop \/ AtEnd(f, b) THEN [r EXCEPT !.stop = TRUE]
    ELSE LET hit  == r.c.block = b
             load == IF hit THEN [ok |-> TRUE, c |-> r.c] ELSE Load(f, b, r.c)
             available == IF load.c.len < r.skip THEN r.left
                          ELSE Min({load.c.len - r.skip, r.left})
         IN  IF ~load.ok THEN [r EXCEPT !.c = load.c, !.stop = TRUE, !.error = TRUE]
             ELSE [r EXCEPT !.c = load.c, !.left = @ - available, !.skip = 0,
                            !.out = @ \o [i \in 1 .. available |->
                                            IF r.skip + i \in DOMAIN load.c.data
                                            THEN load.c.data[r.skip + i] ELSE Junk]]

ReadRandom(f, offs, len) ==
    LET first == offs \div BlockSize
        start == [left |-> len, skip |-> offs % BlockSize, c |-> cache, out |-> <<>>,
                  stop |-> first > handle[f].max, error |-> FALSE]
        turn[k \in 0 .. len + 1] == IF k = 0 THEN start ELSE ReadBlock(f, turn[k - 1], first + k - 1)
    IN  turn[len + 1]

(* Offsets beyond the array are left out: what the library reads there is  *)
(* not its own memory.                                                     *)
Offsets(f) == {o \in 0 .. size[f] + 1 \cup {FarOffset} :
                 \/ handle[f].max # Unbounded
                 \/ (o + MaxLen) \div BlockSize + 1 \in DOMAIN handle[f].index}

Read(f, offs, len) ==
    LET r == ReadRandom(f, offs, len)
    IN  /\ handle[f] # None
        /\ cache' = r.c
        /\ last' = [how |-> "read", image |-> f, offs |-> offs, len |-> len,
                     out |-> IF r.error THEN <<>> ELSE r.out, error |-> r.error]
        /\ UNCHANGED <<size, level, file, handle>>

(***************************************************************************)
(* sgzip_decompress_fds: a block that cannot be uncompressed is written as *)
(* zeros, all the room of them.  The write buffer is not flushed at the    *)
(* end: the empty block flushes it, if the file has one.                   *)
(***************************************************************************)
Bytes(b) == LET d == IF b.raw THEN [i \in 1 .. Room |-> 0] ELSE b.d
            IN  [t |-> "bytes", n |-> Len(d), d |-> d]

DecompressStream(f) ==
    LET blocks == Items(f, "block")
        w[k \in 0 .. Len(blocks)] == IF k = 0 THEN NewFile ELSE StreamWrite(w[k - 1], Bytes(blocks[k].d))
    IN  w[Len(blocks)]

\* The bytes of the first n items of s, one after the other.
Contents(s, n) ==
    LET out[k \in 0 .. n] == IF k = 0 THEN <<>> ELSE out[k - 1] \o s[k].d
    IN  out[n]

Decompress(f) ==
    LET w == DecompressStream(f)
    IN  /\ file[f].state \in {"whole", "cut"}
        /\ last' = [NoRead EXCEPT !.how = "stream", !.image = f,
                      !.error = Len(Items(f, "size")) # Len(Items(f, "block")),
                      !.out = Contents(w.items, w.disk)]
        /\ UNCHANGED <<size, level, file, handle, cache>>

Next ==
    \E f \in Images :
        \/ CompressBlock(f) \/ WriteIndex(f) \/ Kill(f)
        \/ Open(f) \/ Decompress(f)
        \/ handle[f] # None /\ \E o \in Offsets(f), n \in 1 .. MaxLen : Read(f, o, n)

Spec == Init /\ [][Next]_vars

(***************************************************************************)
(* Properties                                                              *)
(***************************************************************************)
\* The cache holds the block of f it says it holds, or nothing.
CacheServes(f) ==
    cache.block # None => SubSeq(cache.data, 1, cache.len) = Block(f, cache.block)

\* What is on disk of a file as whole blocks.
Held(f) == Min({size[f], Len(Items(f, "block")) * BlockSize})

Exact(f, o, n) == last'.out = Slice(Data(f), o, n) /\ ~last'.error

(* A read that starts inside an image returns the bytes of the image,      *)
(* short only at its end, whatever was read before it, if the cache is the *)
(* image's own.  Of a file that was cut off, what is there as whole blocks *)
(* can still be read through the calculated index, except that the first   *)
(* place of the index, never assigned, may make the read an error.         *)
ReadExact ==
    [][LET f == last'.image  o == last'.offs  n == last'.len
       IN  UNCHANGED <<file, handle>> /\ last'.how = "read" /\ CacheServes(f) /\ level[f] > 0 =>
             /\ file[f].state = "whole" /\ o <= size[f] => Exact(f, o, n)
             /\ file[f].state = "cut" /\ o + n <= Held(f) =>
                  Exact(f, o, n) \/ (o < BlockSize /\ handle[f].index[0] # 0 /\ last'.error)]_vars

(* "The information in the index is redundant" (sgzlib.h): the offsets     *)
(* calculated from the sizes in a whole file are the ones its index has.   *)
IndexRedundant ==
    \A f \in Images : file[f].state = "whole" =>
        \A k \in 1 .. ReadIndex(f).max - 1 :
            CalculateIndex(f, 0).index[k] = ReadIndex(f).index[k]

(* Decompressing a whole file restores the image, to the last byte though  *)
(* nothing flushes the buffer after the loop; decompressing a file that    *)
(* was cut off gives a prefix of it.                                       *)
StreamRestores ==
    last.how = "stream" /\ level[last.image] > 0 =>
        /\ file[last.image].state = "whole" => last.out = Data(last.image) /\ ~last.error
        /\ IsPrefix(last.out, Data(last.image))

(* "read a random buffer from the sgziped file" (sgzlib.c): a read from    *)
(* inside a whole image returns bytes of that image.                       *)
ReadFromImage ==
    last.how = "read" /\ ~last.error /\ file[last.image].state = "whole"
        /\ last.offs <= size[last.image] =>
            \A i \in DOMAIN last.out : last.out[i] = <<last.image, last.offs + i>>
=============================================================================
