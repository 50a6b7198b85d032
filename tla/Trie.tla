-------------------------------- MODULE Trie --------------------------------
(***************************************************************************)
(* The keyword index of src/indextools_ng: trie.c (the nodes, AddWord and  *)
(* Match) and index.c (the iterator).  A word is a sequence of tokens: a   *)
(* literal, a literal compared without regard to case, or a class of       *)
(* characters, each with the sign of repetition written after it.          *)
(* Characters are their codes, so that the hash is what it is in C.        *)
(* Only TLC uses this module: the trie is recursive.                       *)
(***************************************************************************)
EXTENDS Integers, Sequences, SequencesExt

MaxMatchLength == 100

(* check_for_repeat: a "?" means any number too, for the label it jumps to *)
(* sets the upper limit again.                                             *)
Lower(rep) == IF rep \in {"*", "?"} THEN 0 ELSE 1
Upper(rep) == CASE rep = "" -> 1 [] rep = "{1,2}" -> 2 [] OTHER -> MaxMatchLength

\* The codes of A to Z, and what the cmap adds to them.
Fold(c) == IF c \in 65 .. 90 THEN c + 32 ELSE c

\* Does the token accept the character: the compare methods.  A word that is
\* compared without regard to case is compared with the folded data.
Accepts(tok, c) == CASE tok.kind = "literal" -> c = tok.chars
                     [] tok.kind = "nocase"  -> Fold(c) = tok.chars
                     [] tok.kind = "class"   -> c \in tok.chars

IsLiteral(tok) == tok.kind \in {"literal", "nocase"}

\* Mutant: a table of 64 lists.
HashWide(c) == c % 64

Hash(c) == c % 16

Node(tok) == [tok |-> tok, hash |-> <<>>, child |-> <<>>]
Root      == Node([kind |-> "root", rep |-> ""])
DataNode(id) == [tok |-> [kind |-> "data", rep |-> ""], id |-> id]

\* Compare_literal_nodes: the limits are not compared.
SameLiteral(a, b) == IsLiteral(a) /\ IsLiteral(b) /\ a.chars = b.chars /\ a.kind = b.kind

(* add_unique_to_peer_list: the peers with a node for tok, and its place.  *)
Join(peers, tok) == IF \E i \in DOMAIN peers : SameLiteral(peers[i].tok, tok)
                    THEN peers ELSE <<Node(tok)>> \o peers
Place(peers, tok) == IF \E i \in DOMAIN peers : SameLiteral(peers[i].tok, tok)
                     THEN CHOOSE i \in DOMAIN peers : SameLiteral(peers[i].tok, tok) ELSE 1

\* Only a literal that must occur can be found by its hash.
InHash(tok) == IsLiteral(tok) /\ Lower(tok.rep) > 0

RECURSIVE AddWord(_, _, _)
AddWord(node, word, id) ==
    IF word = <<>> THEN [node EXCEPT !.child = <<DataNode(id)>> \o @]
    ELSE LET tok == Head(word)
             Into(peers) == LET ps == Join(peers, tok) i == Place(peers, tok)
                            IN  [ps EXCEPT ![i] = AddWord(ps[i], Tail(word), id)]
         IN  IF InHash(tok) THEN [node EXCEPT !.hash = Into(@)]
                            ELSE [node EXCEPT !.child = Into(@)]

\* The data is followed by the NUL that ends a string in memory.
At(data, p) == IF p \in DOMAIN data THEN data[p] ELSE 0

(* How many characters from p on tok consumes: as many as it can.  What is *)
(* behind the NUL is not read: no class of the words used here accepts it. *)
RECURSIVE Run(_, _, _, _)
Run(tok, data, p, n) ==
    IF n = Upper(tok.rep) \/ p + n > Len(data) + 1 \/ ~Accepts(tok, At(data, p + n)) THEN n
    ELSE Run(tok, data, p, n + 1)

(* Match, from p on: the words found with the positions where they end, in *)
(* the order they are reported: the literals with the hash of the next     *)
(* character first, then the other children.                               *)
RECURSIVE Match(_, _, _)
Match(node, data, p) ==
    IF node.tok.kind = "data" THEN <<[id |-> node.id, end |-> p]>>
    ELSE LET n == IF node.tok.kind = "root" THEN 0 ELSE Run(node.tok, data, p, 0)
             q == p + n
             bucket == SelectSeq(node.hash, LAMBDA k : Hash(k.tok.chars) = Hash(At(data, q)))
             kids == bucket \o node.child
         IN  IF node.tok.kind # "root" /\ n < Lower(node.tok.rep) THEN <<>>
             ELSE FlattenSeq([i \in DOMAIN kids |-> Match(kids[i], data, q)])

\* All the words, added in the order of their numbers.
Index(words) == FoldLeft(LAMBDA node, i : AddWord(node, words[i], i), Root,
                         [i \in DOMAIN words |-> i])

\* What the iterator returns for a buffer: the hits at each offset from 0.
IndexBuffer(trie, data) ==
    FlattenSeq([p \in 1 .. Len(data) |->
        LET found == Match(trie, data, p)
        IN  [i \in DOMAIN found |->
                [offset |-> p - 1, id |-> found[i].id, len |-> found[i].end - p]]])

(***************************************************************************)
(* A word by itself: each token consumes all it can from where the one     *)
(* before it ended.                                                        *)
(***************************************************************************)
RECURSIVE Ends(_, _, _)
Ends(word, data, p) ==
    IF word = <<>> THEN {p}
    ELSE LET n == Run(Head(word), data, p, 0)
         IN  IF n < Lower(Head(word).rep) THEN {} ELSE Ends(Tail(word), data, p + n)

Occurrences(words, data) ==
    UNION {{[offset |-> p - 1, id |-> i, len |-> e - p] : e \in Ends(words[i], data, p)} :
              i \in DOMAIN words, p \in DOMAIN data}
=============================================================================
