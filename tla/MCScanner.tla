----------------------------- MODULE MCScanner -----------------------------
(* Instances of Scanner for TLC, with the index of the code.                *)
EXTENDS Scanner, TLC
T == INSTANCE Trie

TrieIndex(words) == T!Index(words)
TrieBuffer(index, data) == T!IndexBuffer(index, data)

CONSTANTS s1, s2, s3, u, g, h1, h2

ThreeScanners == {s1, s2, s3}
NoScanner     == {u}
OneGroup      == g :> <<s3, s1>>

\* s3 may depend on s2 and s1, s2 on s1, and both on a scanner that is missing.
SomeRegistries ==
    {s1 :> <<>> @@ s2 :> d2 @@ s3 :> d3 :
        d2 \in {<<>>, <<s1>>, <<u, s1>>},
        d3 \in {<<>>, <<s1>>, <<s2>>, <<s1, s2>>, <<s2, s1>>, <<s2, u>>}}

SomeRequests ==
    {<<s1>>, <<s3>>, <<s1, s3>>, <<s3, s1>>, <<s2, s3>>, <<s2, g>>, <<u, s2>>, <<g>>}

\* Characters: a and q, and a and A, have the same hash.
chA == 65
cha == 97
chb == 98
chq == 113
Literal(c, rep) == [kind |-> "literal", chars |-> c, rep |-> rep]
NoCase(c)       == [kind |-> "nocase", chars |-> c, rep |-> ""]
Class(S, rep)   == [kind |-> "class", chars |-> S, rep |-> rep]

\* "ab" in any case; ab; abq; a*b; q[ab]+; [aq]{1,2}b.
SomeRules ==
    <<[handler |-> h1, from |-> 0, to |-> 1, word |-> <<NoCase(cha), NoCase(chb)>>],
      [handler |-> h1, from |-> 0, to |-> 0, word |-> <<Literal(cha, ""), Literal(chb, "")>>],
      [handler |-> h2, from |-> 0, to |-> 0,
       word |-> <<Literal(cha, ""), Literal(chb, ""), Literal(chq, "")>>],
      [handler |-> h1, from |-> 1, to |-> 3, word |-> <<Literal(cha, "*"), Literal(chb, "")>>],
      [handler |-> h2, from |-> 1, to |-> 2, word |-> <<Literal(chq, ""), Class({cha, chb}, "+")>>],
      [handler |-> h2, from |-> 0, to |-> 2,
       word |-> <<Class({cha, chq}, "{1,2}"), Literal(chb, "")>>]>>

SomeBuffers ==
    {<<>>, <<chq>>, <<cha, chb>>, <<chA, chb, chq>>, <<cha, chb, chq>>, <<cha, cha, chb>>,
     <<chb, chq, cha>>, <<chq, cha, chb, chb>>, <<chA, chb>>, <<cha, chA, chb>>,
     <<chb, chb>>, <<cha, chb, chb, chq>>}

BothHandlers == <<h1, h2>>
SomeScores   == h1 :> 40 @@ h2 :> 60
SomeInitial  == h1 :> 0 @@ h2 :> 20

(* The index finds what its words find by themselves: nodes shared by      *)
(* words, the hash of literals and the order of addition make no           *)
(* difference.  (Words that repeat a shared literal differently would: see *)
(* SameLiteral.  The words of the registered handlers do not.)             *)
HitsExact ==
    scan.pc = "typed" => ToSet(SearchIndex(indexer, scan.data)) = T!Occurrences(Words, scan.data)
=============================================================================
