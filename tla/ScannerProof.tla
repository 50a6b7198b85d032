---------------------------- MODULE ScannerProof ----------------------------
(***************************************************************************)
(* Proofs about the scanner framework.                                     *)
(***************************************************************************)
EXTENDS Scanner, SequenceTheorems, FiniteSetTheorems, WellFoundedInduction, TLAPS

-----------------------------------------------------------------------------
(* The store of factories.                                                  *)

Factory == [key : Scanners, obj : Scanners]

\* The keys of the store differ.
Unique(s) == \A i, j \in 1 .. Len(s) : s[i].key = s[j].key => i = j

\* The entries of r are entries of s.
Among(r, s) == \A i \in 1 .. Len(r) : \E j \in 1 .. Len(s) : r[i] = s[j]

\* The entry that get finds has the key.
LEMMA FindFacts ==
    ASSUME NEW S, NEW s \in Seq(S), NEW k, HasKey(s, k)
    PROVE  Find(s, k) \in 1 .. Len(s) /\ s[Find(s, k)].key = k
  <1> DEFINE U == {i \in DOMAIN s : s[i].key = k}
  <1>1. U \subseteq Nat /\ U # {}
    BY LenProperties DEF HasKey
  <1>2. PICK i \in U : \A j \in U : ~ (<<j, i>> \in OpToRel(<, Nat))
    BY <1>1, WFMin, NatLessThanWellFounded
  <1>3. \A j \in U : ~(j < i)
    BY <1>1, <1>2 DEF OpToRel
  <1>4. \A j \in U : i <= j
    BY <1>1, <1>3
  <1>5. Min(U) \in U
    BY <1>4 DEF Min
  <1> QED BY <1>5, LenProperties DEF Find

\* check_full takes entries from the old end, as many as are over the size.
LEMMA CheckFullFacts ==
    ASSUME NEW S, NEW s \in Seq(S), NEW size \in Nat, NEW old \in Nat, Unique(s)
    PROVE  LET r == CheckFull(s, size, old)
           IN  r \in Seq(S) /\ Unique(r) /\ Among(r, s) /\ Len(r) <= size
  <1> DEFINE m == Max({Len(s) - size, old, 0})
             r == SubSeq(s, m + 1, Len(s))
  <1>1. Len(s) \in Nat /\ \A i \in 1 .. Len(s) : s[i] \in S
    BY LenProperties, ElementOfSeq
  <1>2. \E x \in {Len(s) - size, old, 0} : \A y \in {Len(s) - size, old, 0} : x >= y
    BY <1>1
  <1>3. m \in {Len(s) - size, old, 0} /\ \A y \in {Len(s) - size, old, 0} : m >= y
    BY <1>2 DEF Max
  <1>4. m \in Nat /\ m >= Len(s) - size
    BY <1>1, <1>3
  <1>5. CheckFull(s, size, old) = r
    BY DEF CheckFull
  <1> HIDE DEF m
  <1>6. /\ r \in Seq(S)
        /\ Len(r) = IF m + 1 <= Len(s) THEN Len(s) - m ELSE 0
        /\ \A i \in 1 .. Len(r) : r[i] = s[m + i]
    <2>1. \A i \in m + 1 .. Len(s) : s[i] \in S
      BY <1>1, <1>4
    <2> QED BY <1>1, <1>4, <2>1, SubSeqProperties
  <1> HIDE DEF r
  <1>7. Len(r) \in Nat /\ Len(r) <= size /\ \A i \in 1 .. Len(r) : m + i \in 1 .. Len(s)
    BY <1>1, <1>4, <1>6
  <1>8. Among(r, s)
    BY <1>6, <1>7 DEF Among
  <1>9. Unique(r)
    <2> SUFFICES ASSUME NEW i \in 1 .. Len(r), NEW j \in 1 .. Len(r), r[i].key = r[j].key
                 PROVE  i = j
      BY DEF Unique
    <2>1. m + i = m + j
      BY <1>6, <1>7 DEF Unique
    <2> QED BY <2>1, <1>4, <1>7
  <1> QED BY <1>5, <1>6, <1>7, <1>8, <1>9

\* One more entry, with a key that is not there.
LEMMA AppendUnique ==
    ASSUME NEW S, NEW s \in Seq(S), NEW e \in S, Unique(s),
           \A i \in 1 .. Len(s) : s[i].key # e.key
    PROVE  /\ Append(s, e) \in Seq(S) /\ Unique(Append(s, e))
           /\ Len(Append(s, e)) = Len(s) + 1
  <1> DEFINE r == Append(s, e)
  <1>1. /\ r \in Seq(S) /\ Len(r) = Len(s) + 1 /\ Len(s) \in Nat
        /\ \A i \in 1 .. Len(s) : r[i] = s[i]
        /\ r[Len(s) + 1] = e
    BY AppendProperties, LenProperties
  <1> HIDE DEF r
  <1>2. Unique(r)
    BY <1>1 DEF Unique
  <1> QED BY <1>1, <1>2 DEF r

\* put of a key that is not in the store.
LEMMA StorePutFacts ==
    ASSUME NEW S, NEW s \in Seq(S), NEW size \in Nat, NEW old \in Nat, NEW k, NEW o,
           Unique(s), ~HasKey(s, k), Entry(k, o) \in S
    PROVE  LET r == StorePut(s, size, old, k, o)
           IN  r \in Seq(S) /\ Unique(r) /\ Len(r) <= size + 1
  <1> DEFINE c == CheckFull(s, size, old)
  <1>1. c \in Seq(S) /\ Unique(c) /\ Among(c, s) /\ Len(c) <= size
    BY CheckFullFacts
  <1> HIDE DEF c
  <1>2. DOMAIN s = 1 .. Len(s)
    BY LenProperties
  <1>3. \A i \in 1 .. Len(c) : c[i].key # Entry(k, o).key
    BY <1>1, <1>2 DEF Among, HasKey, Entry
  <1>4. Append(c, Entry(k, o)) \in Seq(S) /\ Unique(Append(c, Entry(k, o)))
        /\ Len(Append(c, Entry(k, o))) = Len(c) + 1
    BY <1>1, <1>3, AppendUnique
  <1>5. Len(c) \in Nat
    BY <1>1, LenProperties
  <1> QED BY <1>1, <1>4, <1>5 DEF StorePut, c

\* get of a key that is in the store.
LEMMA StoreGetFacts ==
    ASSUME NEW S, NEW s \in Seq(S), NEW size \in Nat, NEW old \in Nat, NEW k,
           Unique(s), HasKey(s, k)
    PROVE  LET r == StoreGet(s, size, old, k)
           IN  r \in Seq(S) /\ Unique(r) /\ Len(r) <= size
  <1> DEFINE n == Find(s, k)
             a == SubSeq(s, 1, n - 1)
             b == SubSeq(s, n + 1, Len(s))
             c == a \o b
  <1>1. n \in 1 .. Len(s) /\ s[n].key = k
    BY FindFacts
  <1>2. Len(s) \in Nat /\ \A i \in 1 .. Len(s) : s[i] \in S
    BY LenProperties, ElementOfSeq
  <1>3. StoreGet(s, size, old, k) = CheckFull(Append(c, s[n]), size, old)
    BY DEF StoreGet, RemoveAt
  <1> HIDE DEF n
  <1>4. a \in Seq(S) /\ Len(a) = n - 1 /\ \A i \in 1 .. n - 1 : a[i] = s[i]
    <2>1. \A i \in 1 .. n - 1 : s[i] \in S
      BY <1>1, <1>2
    <2> QED BY <1>1, <1>2, <2>1, SubSeqProperties
  <1>5. b \in Seq(S) /\ Len(b) = Len(s) - n /\ \A i \in 1 .. Len(s) - n : b[i] = s[n + i]
    <2>1. \A i \in n + 1 .. Len(s) : s[i] \in S
      BY <1>1, <1>2
    <2> QED BY <1>1, <1>2, <2>1, SubSeqProperties
  <1> HIDE DEF a, b
  <1>6. /\ c \in Seq(S) /\ Len(c) = Len(s) - 1
        /\ \A i \in 1 .. Len(c) : c[i] = IF i < n THEN s[i] ELSE s[i + 1]
    <2>1. c \in Seq(S) /\ Len(c) = Len(a) + Len(b)
      BY <1>4, <1>5, ConcatProperties
    <2> HIDE DEF c
    <2>3. Len(c) = Len(s) - 1
      BY <1>1, <1>2, <1>4, <1>5, <2>1
    <2>4. \A i \in 1 .. Len(c) : c[i] = IF i <= Len(a) THEN a[i] ELSE b[i - Len(a)]
      BY <1>4, <1>5, <2>1, ConcatProperties DEF c
    <2>2. ASSUME NEW i \in 1 .. Len(c) PROVE c[i] = IF i < n THEN s[i] ELSE s[i + 1]
      <3>1. CASE i < n
        BY <1>1, <1>2, <1>4, <2>3, <2>4, <3>1
      <3>2. CASE i >= n
        <4>1. c[i] = b[i - (n - 1)]
          BY <1>1, <1>2, <1>4, <2>3, <2>4, <3>2
        <4>2. i - (n - 1) \in 1 .. Len(s) - n /\ n + (i - (n - 1)) = i + 1
          BY <1>1, <1>2, <2>3, <3>2
        <4> QED BY <1>1, <1>5, <3>2, <4>1, <4>2
      <3> QED BY <1>1, <2>3, <3>1, <3>2
    <2> QED BY <2>1, <2>2, <2>3
  <1> HIDE DEF c
  <1>7. Unique(c)
    BY <1>1, <1>2, <1>6 DEF Unique
  <1>8. \A i \in 1 .. Len(c) : c[i].key # s[n].key
    BY <1>1, <1>2, <1>6 DEF Unique
  <1>9. Append(c, s[n]) \in Seq(S) /\ Unique(Append(c, s[n]))
    BY <1>1, <1>2, <1>6, <1>7, <1>8, AppendUnique
  <1> QED BY <1>3, <1>9, CheckFullFacts
-----------------------------------------------------------------------------
(* The list of scanners with what they depend on.                           *)

Names == Scanners \cup Unknown

\* Whatever is listed is followed by all it depends on.
Followed(reg, list) ==
    \A i \in 1 .. Len(list) : list[i] \in Scanners =>
        \A d \in ToSet(reg[list[i]]) : \E j \in i + 1 .. Len(list) : list[j] = d

\* Joining lists: what is true of the first k of them joined.
JoinStep(list, k, p) == list \o p.parts[k]
Joined(p, k, list) ==
    /\ list \in Seq(Names)
    /\ Followed(p.reg, list)
    /\ ToSet(list) = UNION {ToSet(p.parts[i]) : i \in 1 .. k}

Join == INSTANCE Iteration WITH Step <- JoinStep, Holds <- Joined

\* Going through a list for the places that are the last: the places kept.
LastStep(kept, k, list) == IF LastPlace(list, k) THEN Append(kept, list[k]) ELSE kept
KeptFrom(list, k, kept, place) ==
    /\ \A i \in 1 .. Len(kept) : kept[i] = list[place[i]] /\ LastPlace(list, place[i])
    /\ \A i, j \in 1 .. Len(kept) : i < j => place[i] < place[j]
    /\ \A n \in 1 .. k : LastPlace(list, n) => \E i \in 1 .. Len(kept) : place[i] = n
Kept(list, k, kept) ==
    /\ kept \in Seq(Names)
    /\ \E place \in [1 .. Len(kept) -> 1 .. k] : KeptFrom(list, k, kept, place)

Keep == INSTANCE Iteration WITH Step <- LastStep, Holds <- Kept

LEMMA ToSetFacts ==
    ASSUME NEW S, NEW s \in Seq(S)
    PROVE  /\ ToSet(s) = {s[i] : i \in 1 .. Len(s)} /\ ToSet(s) \subseteq S
           /\ Len(s) \in Nat /\ DOMAIN s = 1 .. Len(s)
           /\ \A i \in 1 .. Len(s) : s[i] \in S
  BY LenProperties, ElementOfSeq DEF ToSet

LEMMA ConcatFacts ==
    ASSUME NEW S, NEW a \in Seq(S), NEW b \in Seq(S)
    PROVE  /\ a \o b \in Seq(S) /\ Len(a \o b) = Len(a) + Len(b)
           /\ \A i \in 1 .. Len(a) : (a \o b)[i] = a[i]
           /\ \A i \in 1 .. Len(b) : (a \o b)[Len(a) + i] = b[i]
           /\ \A i \in 1 .. Len(a \o b) :
                \/ i \in 1 .. Len(a)
                \/ \E j \in 1 .. Len(b) : i = Len(a) + j
           /\ ToSet(a \o b) = ToSet(a) \cup ToSet(b)
  <1> DEFINE c == a \o b
  <1>1. Len(a) \in Nat /\ Len(b) \in Nat
    BY LenProperties
  <1>2. /\ c \in Seq(S) /\ Len(c) = Len(a) + Len(b)
        /\ \A i \in 1 .. Len(c) : c[i] = IF i <= Len(a) THEN a[i] ELSE b[i - Len(a)]
    BY ConcatProperties
  <1> HIDE DEF c
  <1>3. \A i \in 1 .. Len(a) : c[i] = a[i]
    BY <1>1, <1>2
  <1>4. ASSUME NEW i \in 1 .. Len(b) PROVE c[Len(a) + i] = b[i]
    <2>1. Len(a) + i \in 1 .. Len(c) /\ ~(Len(a) + i <= Len(a)) /\ (Len(a) + i) - Len(a) = i
      BY <1>1, <1>2
    <2> QED BY <1>2, <2>1
  <1>5. ASSUME NEW i \in 1 .. Len(c)
        PROVE  i \in 1 .. Len(a) \/ \E j \in 1 .. Len(b) : i = Len(a) + j
    <2>1. i <= Len(a) \/ (i - Len(a) \in 1 .. Len(b) /\ i = Len(a) + (i - Len(a)))
      BY <1>1, <1>2
    <2> QED BY <1>1, <1>2, <2>1
  <1>6. \A i \in 1 .. Len(a) : i \in 1 .. Len(c)
    BY <1>1, <1>2
  <1>7. \A i \in 1 .. Len(b) : Len(a) + i \in 1 .. Len(c)
    BY <1>1, <1>2
  <1>8. ToSet(c) = ToSet(a) \cup ToSet(b)
    <2>1. /\ ToSet(a) = {a[i] : i \in 1 .. Len(a)} /\ ToSet(b) = {b[i] : i \in 1 .. Len(b)}
          /\ ToSet(c) = {c[i] : i \in 1 .. Len(c)}
      BY <1>2, ToSetFacts
    <2>2. ASSUME NEW i \in 1 .. Len(c) PROVE c[i] \in ToSet(a) \cup ToSet(b)
      <3>1. CASE i \in 1 .. Len(a)
        BY <1>3, <2>1, <3>1
      <3>2. ASSUME NEW j \in 1 .. Len(b), i = Len(a) + j PROVE c[i] \in ToSet(b)
        BY <1>4, <2>1, <3>2
      <3> QED BY <1>5, <3>1, <3>2
    <2>3. \A x \in ToSet(a) : x \in ToSet(c)
      BY <1>3, <1>6, <2>1
    <2>4. \A x \in ToSet(b) : x \in ToSet(c)
      BY <1>4, <1>7, <2>1
    <2> QED BY <2>1, <2>2, <2>3, <2>4
  <1> QED BY <1>2, <1>3, <1>4, <1>5, <1>8 DEF c

\* What follows in a part follows in the whole.
LEMMA FollowedConcat ==
    ASSUME NEW reg, NEW a \in Seq(Names), NEW b \in Seq(Names),
           Followed(reg, a), Followed(reg, b)
    PROVE  Followed(reg, a \o b)
  <1> DEFINE c == a \o b
  <1>1. Len(a) \in Nat /\ Len(b) \in Nat
    BY LenProperties
  <1>2. /\ Len(c) = Len(a) + Len(b)
        /\ \A i \in 1 .. Len(a) : c[i] = a[i]
        /\ \A i \in 1 .. Len(b) : c[Len(a) + i] = b[i]
        /\ \A i \in 1 .. Len(c) :
             \/ i \in 1 .. Len(a)
             \/ \E j \in 1 .. Len(b) : i = Len(a) + j
    BY ConcatFacts
  <1> HIDE DEF c
  <1> SUFFICES ASSUME NEW i \in 1 .. Len(c), c[i] \in Scanners, NEW d \in ToSet(reg[c[i]])
               PROVE  \E j \in i + 1 .. Len(c) : c[j] = d
    BY DEF Followed, c
  <1>3. CASE i \in 1 .. Len(a)
    <2>1. PICK j \in i + 1 .. Len(a) : a[j] = d
      BY <1>2, <1>3 DEF Followed
    <2>2. j \in 1 .. Len(a) /\ j \in i + 1 .. Len(c)
      BY <1>1, <1>2, <1>3
    <2> QED BY <1>2, <2>1, <2>2
  <1>4. ASSUME NEW k \in 1 .. Len(b), i = Len(a) + k PROVE \E j \in i + 1 .. Len(c) : c[j] = d
    <2>1. PICK j \in k + 1 .. Len(b) : b[j] = d
      BY <1>2, <1>4 DEF Followed
    <2>2. j \in 1 .. Len(b) /\ Len(a) + j \in i + 1 .. Len(c)
      BY <1>1, <1>2, <1>4
    <2> QED BY <1>2, <2>1, <2>2
  <1> QED BY <1>2, <1>3, <1>4

\* The lists that are joined.
Parts(p) ==
    /\ p.parts \in Seq(Seq(Names))
    /\ \A i \in 1 .. Len(p.parts) : Followed(p.reg, p.parts[i])

LEMMA JoinStart ==
    ASSUME NEW p
    PROVE  Joined(p, 0, <<>>)
  <1>1. <<>> \in Seq(Names) /\ Len(<<>>) = 0 /\ ToSet(<<>>) = {}
    BY DEF ToSet
  <1>2. UNION {ToSet(p.parts[i]) : i \in 1 .. 0} = {}
    OBVIOUS
  <1> QED BY <1>1, <1>2 DEF Joined, Followed

LEMMA JoinKeeps ==
    ASSUME NEW p, Parts(p), NEW k \in 1 .. Len(p.parts), NEW x, Joined(p, k - 1, x)
    PROVE  Joined(p, k, JoinStep(x, k, p))
  <1> DEFINE y == p.parts[k]
  <1>1. y \in Seq(Names) /\ Followed(p.reg, y) /\ Len(p.parts) \in Nat
    BY LenProperties, ElementOfSeq DEF Parts
  <1>2. x \in Seq(Names) /\ Followed(p.reg, x)
        /\ ToSet(x) = UNION {ToSet(p.parts[i]) : i \in 1 .. k - 1}
    BY DEF Joined
  <1>3. 1 .. k = (1 .. k - 1) \cup {k}
    BY <1>1
  <1>4. UNION {ToSet(p.parts[i]) : i \in 1 .. k} = ToSet(x) \cup ToSet(y)
    BY <1>2, <1>3
  <1> HIDE DEF y
  <1>5. x \o y \in Seq(Names) /\ ToSet(x \o y) = ToSet(x) \cup ToSet(y)
    BY <1>1, <1>2, ConcatFacts
  <1>6. Followed(p.reg, x \o y)
    BY <1>1, <1>2, FollowedConcat
  <1>7. JoinStep(x, k, p) = x \o y
    BY DEF JoinStep, y
  <1> QED BY <1>4, <1>5, <1>6, <1>7 DEF Joined

\* FlattenSeq joins the lists.
LEMMA FlattenJoins ==
    ASSUME NEW p, Parts(p)
    PROVE  Joined(p, Len(p.parts), FlattenSeq(p.parts))
  <1> DEFINE q == p.parts
             n == Len(q)
             Rec(g) == g = [i \in 1 .. n |-> IF i = 1 THEN q[i] ELSE g[i - 1] \o q[i]]
  <1>1. q \in Seq(Seq(Names)) /\ n \in Nat /\ \A i \in 1 .. n : q[i] \in Seq(Names)
    BY LenProperties, ElementOfSeq DEF Parts
  <1>2. CASE n = 0
    <2>1. q = <<>>
      BY <1>1, <1>2, EmptySeq
    <2>2. FlattenSeq(q) = <<>>
      BY <1>2, <2>1 DEF FlattenSeq
    <2> QED BY <1>2, <2>2, JoinStart
  <1>3. CASE n # 0
    <2>1. PICK f : Join!Follows(f, p, <<>>, n)
      BY <1>1, Join!FunctionExists
    <2>2. f[0] = <<>> /\ \A k \in 1 .. n : f[k] = f[k - 1] \o q[k]
      BY <1>1, <2>1 DEF Join!Follows, JoinStep
    <2> DEFINE g0 == [i \in 1 .. n |-> f[i]]
    <2>3. Rec(g0)
      <3>1. ASSUME NEW i \in 1 .. n
            PROVE  f[i] = IF i = 1 THEN q[i] ELSE g0[i - 1] \o q[i]
        <4>1. CASE i = 1
          <5>1. f[1] = f[0] \o q[1] /\ f[0] = <<>>
            <6>1. 1 \in 1 .. n /\ 1 - 1 = 0
              BY <1>1, <1>3
            <6> QED BY <2>2, <6>1
          <5>2. <<>> \o q[1] = q[1]
            BY <1>1, <1>3, ConcatEmptySeq
          <5> QED BY <4>1, <5>1, <5>2
        <4>2. CASE i # 1
          <5>1. i - 1 \in 1 .. n
            BY <1>1, <4>2
          <5> QED BY <2>2, <4>2, <5>1
        <4> QED BY <4>1, <4>2
      <3> QED BY <3>1
    <2> DEFINE g == CHOOSE g : Rec(g)
    <2>4. Rec(g)
      <3> HIDE DEF g0, Rec
      <3> QED BY <2>3 DEF g
    <2>5. FlattenSeq(q) = g[n]
      BY <1>3 DEF FlattenSeq
    <2> HIDE DEF g
    <2>6. \A i \in 1 .. n : g[i] = IF i = 1 THEN q[i] ELSE g[i - 1] \o q[i]
      BY <2>4
    <2> HIDE DEF Rec
    <2> DEFINE U == {i \in 1 .. n : ~Joined(p, i, g[i])}
    <2>7. U = {}
      <3> SUFFICES ASSUME U # {} PROVE FALSE
        OBVIOUS
      <3>1. PICK i \in U : \A j \in U : i <= j
        <4>1. U \subseteq Nat
          BY <1>1
        <4> HIDE DEF U
        <4> QED BY <4>1, Join!LeastNumber
      <3>2. CASE i = 1
        <4>1. <<>> \o q[1] = q[1] /\ 1 \in 1 .. n
          BY <1>1, <1>3, ConcatEmptySeq
        <4>2. Joined(p, 1 - 1, <<>>)
          BY JoinStart
        <4>3. Joined(p, 1, JoinStep(<<>>, 1, p))
          BY <4>1, <4>2, JoinKeeps
        <4> QED BY <2>6, <3>2, <4>1, <4>3 DEF JoinStep
      <3>3. CASE i # 1
        <4>1. i - 1 \in 1 .. n /\ i - 1 < i
          BY <1>1, <3>3
        <4>2. Joined(p, i - 1, g[i - 1])
          BY <3>1, <4>1
        <4>3. Joined(p, i, JoinStep(g[i - 1], i, p))
          BY <4>2, JoinKeeps
        <4> QED BY <2>6, <3>3, <4>3 DEF JoinStep
      <3> QED BY <3>2, <3>3
    <2> QED BY <1>1, <1>3, <2>5, <2>7
  <1> QED BY <1>2, <1>3
\* LastOnly keeps the last places, in their order.
LEMMA LastOnlyKept ==
    ASSUME NEW list \in Seq(Names)
    PROVE  Kept(list, Len(list), LastOnly(list))
  <1>1. Len(list) \in Nat /\ \A i \in 1 .. Len(list) : list[i] \in Names
    BY LenProperties, ElementOfSeq
  <1>2. LastOnly(list) = Keep!Iterate(list, <<>>, Len(list))
    BY DEF LastOnly, Keep!Iterate, LastStep
  <1>3. Kept(list, 0, <<>>)
    <2>1. <<>> \in Seq(Names) /\ Len(<<>>) = 0
      OBVIOUS
    <2> DEFINE none == [i \in 1 .. 0 |-> 1]
    <2>2. none \in [1 .. 0 -> 1 .. 0]
      OBVIOUS
    <2> HIDE DEF none
    <2>3. KeptFrom(list, 0, <<>>, none)
      BY <2>1 DEF KeptFrom
    <2> QED BY <2>1, <2>2, <2>3 DEF Kept
  <1>4. ASSUME NEW k \in 1 .. Len(list), NEW x, Kept(list, k - 1, x)
        PROVE  Kept(list, k, LastStep(x, k, list))
    <2>1. x \in Seq(Names) /\ Len(x) \in Nat
      BY <1>4, LenProperties DEF Kept
    <2>2. PICK place \in [1 .. Len(x) -> 1 .. k - 1] : KeptFrom(list, k - 1, x, place)
      BY <1>4 DEF Kept
    <2>3. CASE ~LastPlace(list, k)
      <3>1. place \in [1 .. Len(x) -> 1 .. k]
        BY <2>2
      <3>2. KeptFrom(list, k, x, place)
        BY <1>1, <2>2, <2>3 DEF KeptFrom
      <3> QED BY <2>1, <2>3, <3>1, <3>2 DEF Kept, LastStep
    <2>4. CASE LastPlace(list, k)
      <3> DEFINE y == Append(x, list[k])
                 at == [i \in 1 .. Len(x) + 1 |-> IF i = Len(x) + 1 THEN k ELSE place[i]]
      <3>1. /\ y \in Seq(Names) /\ Len(y) = Len(x) + 1
            /\ \A i \in 1 .. Len(x) : y[i] = x[i]
            /\ y[Len(x) + 1] = list[k]
        BY <1>1, <2>1, AppendProperties
      <3> HIDE DEF y
      <3>2. at \in [1 .. Len(y) -> 1 .. k]
        BY <1>1, <2>1, <3>1
      <3>3. /\ \A i \in 1 .. Len(x) : i \in 1 .. Len(x) + 1 /\ at[i] = place[i] /\ place[i] \in 1 .. k - 1
            /\ Len(x) + 1 \in 1 .. Len(x) + 1 /\ at[Len(x) + 1] = k
            /\ \A i \in 1 .. Len(x) + 1 : i \in 1 .. Len(x) \/ i = Len(x) + 1
        <4>1. ASSUME NEW i \in 1 .. Len(x)
              PROVE  i \in 1 .. Len(x) + 1 /\ at[i] = place[i] /\ place[i] \in 1 .. k - 1
          <5>1. i \in 1 .. Len(x) + 1 /\ i # Len(x) + 1
            BY <2>1
          <5> QED BY <5>1
        <4>2. Len(x) + 1 \in 1 .. Len(x) + 1
          BY <2>1
        <4>3. at[Len(x) + 1] = k
          BY <4>2
        <4>4. \A i \in 1 .. Len(x) + 1 : i \in 1 .. Len(x) \/ i = Len(x) + 1
          BY <2>1
        <4> QED BY <4>1, <4>2, <4>3, <4>4
      <3> HIDE DEF at
      <3>4. \A i \in 1 .. Len(y) : y[i] = list[at[i]] /\ LastPlace(list, at[i])
        BY <2>2, <2>4, <3>1, <3>3 DEF KeptFrom
      <3>5. \A i, j \in 1 .. Len(y) : i < j => at[i] < at[j]
        <4> SUFFICES ASSUME NEW i \in 1 .. Len(y), NEW j \in 1 .. Len(y), i < j
                     PROVE  at[i] < at[j]
          OBVIOUS
        <4>1. i \in 1 .. Len(x) /\ (j \in 1 .. Len(x) \/ j = Len(x) + 1)
          BY <2>1, <3>1, <3>3
        <4>2. CASE j \in 1 .. Len(x)
          BY <2>2, <3>3, <4>1, <4>2 DEF KeptFrom
        <4>3. CASE j = Len(x) + 1
          BY <1>1, <3>3, <4>1, <4>3
        <4> QED BY <4>1, <4>2, <4>3
      <3>6. ASSUME NEW n \in 1 .. k, LastPlace(list, n)
            PROVE  \E i \in 1 .. Len(y) : at[i] = n
        <4>1. CASE n = k
          BY <3>1, <3>3, <4>1
        <4>2. CASE n # k
          <5>1. n \in 1 .. k - 1
            BY <1>1, <4>2
          <5>2. PICK i \in 1 .. Len(x) : place[i] = n
            BY <2>2, <3>6, <5>1 DEF KeptFrom
          <5> QED BY <3>1, <3>3, <5>2
        <4> QED BY <4>1, <4>2
      <3>7. KeptFrom(list, k, y, at)
        BY <3>4, <3>5, <3>6 DEF KeptFrom
      <3>8. LastStep(x, k, list) = y
        BY <2>4 DEF LastStep, y
      <3> QED BY <3>1, <3>2, <3>7, <3>8 DEF Kept
    <2> QED BY <2>3, <2>4
  <1>5. Kept(list, Len(list), Keep!Iterate(list, <<>>, Len(list)))
    BY <1>1, <1>3, <1>4, Keep!IterateHolds
  <1> QED BY <1>2, <1>5

\* What stands in a list has a last place there.
LEMMA HasLastPlace ==
    ASSUME NEW list \in Seq(Names), NEW i \in 1 .. Len(list)
    PROVE  \E n \in 1 .. Len(list) : i <= n /\ list[n] = list[i] /\ LastPlace(list, n)
  <1>1. Len(list) \in Nat
    BY LenProperties
  <1> DEFINE U == {m \in 0 .. Len(list) - i : list[Len(list) - m] = list[i]}
  <1>2. U \subseteq Nat /\ Len(list) - i \in U
    BY <1>1
  <1>3. PICK m \in U : \A y \in U : m <= y
    <2> HIDE DEF U
    <2> QED BY <1>2, Keep!LeastNumber
  <1> DEFINE n == Len(list) - m
  <1>4. n \in 1 .. Len(list) /\ i <= n /\ list[n] = list[i]
    BY <1>1
  <1>5. ASSUME NEW j \in n + 1 .. Len(list) PROVE list[j] # list[n]
    <2>1. Len(list) - j \in 0 .. Len(list) - i /\ Len(list) - (Len(list) - j) = j
          /\ ~(m <= Len(list) - j)
      BY <1>1, <1>4
    <2> QED BY <1>3, <1>4, <2>1
  <1> HIDE DEF n
  <1> QED BY <1>4, <1>5 DEF LastPlace

\* The list with each name once is as good as the list.
LEMMA LastOnlyFacts ==
    ASSUME NEW reg, NEW list \in Seq(Names), Followed(reg, list)
    PROVE  /\ LastOnly(list) \in Seq(Names)
           /\ IsInjective(LastOnly(list))
           /\ ToSet(LastOnly(list)) = ToSet(list)
           /\ Followed(reg, LastOnly(list))
  <1> DEFINE r == LastOnly(list)
  <1>1. Kept(list, Len(list), r)
    BY LastOnlyKept
  <1> HIDE DEF r
  <1>2. /\ r \in Seq(Names) /\ Len(r) \in Nat /\ DOMAIN r = 1 .. Len(r)
        /\ Len(list) \in Nat
    BY <1>1, LenProperties DEF Kept
  <1>3. PICK place \in [1 .. Len(r) -> 1 .. Len(list)] : KeptFrom(list, Len(list), r, place)
    BY <1>1 DEF Kept
  <1>4. /\ \A i \in 1 .. Len(r) : /\ place[i] \in 1 .. Len(list)
                                 /\ r[i] = list[place[i]] /\ LastPlace(list, place[i])
        /\ \A i, j \in 1 .. Len(r) : i < j => place[i] < place[j]
        /\ \A n \in 1 .. Len(list) :
              LastPlace(list, n) => \E i \in 1 .. Len(r) : place[i] = n
    BY <1>3 DEF KeptFrom
  <1>5. \A m, n \in 1 .. Len(list) :
           LastPlace(list, m) /\ LastPlace(list, n) /\ list[m] = list[n] => m = n
    BY <1>2 DEF LastPlace
  <1>6. IsInjective(r)
    <2> SUFFICES ASSUME NEW i \in 1 .. Len(r), NEW j \in 1 .. Len(r), r[i] = r[j], i # j
                 PROVE  FALSE
      BY <1>2 DEF IsInjective
    <2>1. place[i] = place[j]
      BY <1>4, <1>5
    <2>2. i < j \/ j < i
      BY <1>2
    <2> QED BY <1>4, <2>1, <2>2
  <1>7. ToSet(r) = ToSet(list)
    <2>1. ToSet(r) = {r[i] : i \in 1 .. Len(r)} /\ ToSet(list) = {list[i] : i \in 1 .. Len(list)}
      BY <1>2, ToSetFacts
    <2>2. ASSUME NEW i \in 1 .. Len(list) PROVE list[i] \in ToSet(r)
      <3>1. PICK n \in 1 .. Len(list) : list[n] = list[i] /\ LastPlace(list, n)
        BY HasLastPlace
      <3>2. PICK j \in 1 .. Len(r) : place[j] = n
        BY <1>4, <3>1
      <3> QED BY <1>4, <2>1, <3>1, <3>2
    <2>3. \A i \in 1 .. Len(r) : r[i] \in ToSet(list)
      BY <1>4, <2>1
    <2> QED BY <2>1, <2>2, <2>3
  <1>8. Followed(reg, r)
    <2> SUFFICES ASSUME NEW i \in 1 .. Len(r), r[i] \in Scanners, NEW d \in ToSet(reg[r[i]])
                 PROVE  \E j \in i + 1 .. Len(r) : r[j] = d
      BY DEF Followed
    <2>1. PICK m \in place[i] + 1 .. Len(list) : list[m] = d
      BY <1>4 DEF Followed
    <2>2. m \in 1 .. Len(list) /\ place[i] < m
      BY <1>2, <1>4, <2>1
    <2>3. PICK n \in 1 .. Len(list) : m <= n /\ list[n] = d /\ LastPlace(list, n)
      BY <2>1, <2>2, HasLastPlace
    <2>4. PICK j \in 1 .. Len(r) : place[j] = n
      BY <1>4, <2>3
    <2>5. i < j
      <3>1. place[i] < place[j] /\ place[i] \in Nat
        BY <1>2, <1>4, <2>2, <2>3, <2>4
      <3>2. ~(j < i) /\ j # i
        BY <1>4, <3>1
      <3> QED BY <1>2, <3>2
    <2> QED BY <1>2, <1>4, <2>3, <2>4, <2>5
  <1> QED BY <1>2, <1>6, <1>7, <1>8 DEF r
-----------------------------------------------------------------------------
(* What find_dependencies lists.                                            *)

\* A name and what was found for it.
Chunk(found, d) == <<d>> \o IF d \in Scanners THEN found[d] ELSE <<>>
Chunks(found, list) == [i \in 1 .. Len(list) |-> Chunk(found, list[i])]

\* All that a scanner depends on was found, each with what it depends on.
Good(reg, found, s) == Followed(reg, found[s]) /\ ToSet(reg[s]) \subseteq ToSet(found[s])

ClosedIn(reg, S) == \A s \in S : ToSet(reg[s]) \cap Scanners \subseteq S

\* A number for each scanner, above those of what it depends on.
Ranks(reg, rank) ==
    /\ rank \in [Scanners -> 0 .. Depth]
    /\ \A s \in Scanners : \A d \in ToSet(reg[s]) \cap Scanners : rank[d] < rank[s]

\* Calls k deep find all for the scanners below k, and never too much.
FindStep(found, k, p) == [s \in Scanners |-> Listing(p.reg, s, found)]
Found(p, k, found) ==
    /\ found \in [Scanners -> Seq(Names)]
    /\ \A s \in Scanners : p.rank[s] < k => Good(p.reg, found, s)
    /\ \A S \in SUBSET Scanners : ClosedIn(p.reg, S) =>
          \A s \in S : ToSet(found[s]) \cap Scanners \subseteq S

Search == INSTANCE Iteration WITH Step <- FindStep, Holds <- Found

LEMMA ChunkFacts ==
    ASSUME NEW found \in [Scanners -> Seq(Names)], NEW d \in Names
    PROVE  /\ Chunk(found, d) \in Seq(Names)
           /\ ToSet(Chunk(found, d)) = {d} \cup (IF d \in Scanners THEN ToSet(found[d]) ELSE {})
  <1> DEFINE rest == IF d \in Scanners THEN found[d] ELSE <<>>
  <1>1. rest \in Seq(Names)
    OBVIOUS
  <1>2. ToSet(rest) = IF d \in Scanners THEN ToSet(found[d]) ELSE {}
    BY DEF ToSet
  <1>3. <<d>> \in Seq(Names) /\ ToSet(<<d>>) = {d}
    BY DEF ToSet
  <1> HIDE DEF rest
  <1>4. <<d>> \o rest \in Seq(Names) /\ ToSet(<<d>> \o rest) = ToSet(<<d>>) \cup ToSet(rest)
    BY <1>1, <1>3, ConcatFacts
  <1> QED BY <1>2, <1>3, <1>4 DEF Chunk, rest

LEMMA ChunkFollowed ==
    ASSUME NEW reg, NEW found \in [Scanners -> Seq(Names)], NEW d \in Names,
           d \in Scanners => Good(reg, found, d)
    PROVE  Followed(reg, Chunk(found, d))
  <1> DEFINE rest == IF d \in Scanners THEN found[d] ELSE <<>>
             c == <<d>> \o rest
  <1>1. rest \in Seq(Names) /\ Len(rest) \in Nat
    <2>1. rest \in Seq(Names)
      OBVIOUS
    <2> QED BY <2>1, LenProperties
  <1>2. d \in Scanners => Followed(reg, rest) /\ ToSet(reg[d]) \subseteq ToSet(rest)
    BY DEF Good
  <1>3. d \notin Scanners => Len(rest) = 0
    OBVIOUS
  <1> HIDE DEF rest
  <1>4. <<d>> \in Seq(Names) /\ Len(<<d>>) = 1 /\ <<d>>[1] = d
    OBVIOUS
  <1>5. /\ Len(c) = 1 + Len(rest)
        /\ c[1] = d
        /\ \A i \in 1 .. Len(rest) : c[1 + i] = rest[i]
        /\ \A i \in 1 .. Len(c) : i = 1 \/ \E j \in 1 .. Len(rest) : i = 1 + j
    <2>1. /\ Len(c) = 1 + Len(rest)
          /\ \A i \in 1 .. 1 : c[i] = <<d>>[i]
          /\ \A i \in 1 .. Len(rest) : c[1 + i] = rest[i]
          /\ \A i \in 1 .. Len(c) : i \in 1 .. 1 \/ \E j \in 1 .. Len(rest) : i = 1 + j
      BY <1>1, <1>4, ConcatFacts
    <2> QED BY <2>1
  <1> HIDE DEF c
  <1>6. ToSet(rest) = {rest[i] : i \in 1 .. Len(rest)}
    BY <1>1, ToSetFacts
  <1> SUFFICES ASSUME NEW i \in 1 .. Len(c), c[i] \in Scanners, NEW e \in ToSet(reg[c[i]])
               PROVE  \E j \in i + 1 .. Len(c) : c[j] = e
    BY DEF Followed, Chunk, c, rest
  <1>7. CASE i = 1
    <2>1. PICK j \in 1 .. Len(rest) : rest[j] = e
      BY <1>2, <1>5, <1>6, <1>7
    <2>2. 1 + j \in i + 1 .. Len(c)
      BY <1>1, <1>5, <1>7
    <2> QED BY <1>5, <2>1, <2>2
  <1>8. ASSUME NEW k \in 1 .. Len(rest), i = 1 + k PROVE \E j \in i + 1 .. Len(c) : c[j] = e
    <2>1. d \in Scanners
      BY <1>1, <1>3, <1>8
    <2>2. PICK j \in k + 1 .. Len(rest) : rest[j] = e
      BY <1>2, <1>5, <1>8, <2>1 DEF Followed
    <2>3. 1 + j \in i + 1 .. Len(c) /\ j \in 1 .. Len(rest)
      BY <1>1, <1>5, <1>8
    <2> QED BY <1>5, <2>2, <2>3
  <1> QED BY <1>5, <1>7, <1>8

\* A list of names, each with what was found for it.
LEMMA ChunksJoined ==
    ASSUME NEW found \in [Scanners -> Seq(Names)], NEW list \in Seq(Names)
    PROVE  LET all == FlattenSeq(Chunks(found, list))
           IN  /\ all \in Seq(Names)
               /\ ToSet(all) = UNION {ToSet(Chunk(found, d)) : d \in ToSet(list)}
               /\ \A reg : (\A d \in ToSet(list) : d \in Scanners => Good(reg, found, d))
                             => Followed(reg, all)
  <1> DEFINE all == FlattenSeq(Chunks(found, list))
             P(reg) == [reg |-> reg, parts |-> Chunks(found, list)]
             none == [s \in Scanners |-> <<>>]
  <1>1. /\ Len(list) \in Nat /\ \A i \in 1 .. Len(list) : list[i] \in Names
        /\ ToSet(list) = {list[i] : i \in 1 .. Len(list)}
    BY ToSetFacts
  <1>2. /\ Chunks(found, list) \in Seq(Seq(Names)) /\ Len(Chunks(found, list)) = Len(list)
        /\ \A i \in 1 .. Len(list) : Chunks(found, list)[i] = Chunk(found, list[i])
    <2>1. \A i \in 1 .. Len(list) : Chunk(found, list[i]) \in Seq(Names)
      BY <1>1, ChunkFacts
    <2>2. Chunks(found, list) \in [1 .. Len(list) -> Seq(Names)]
      BY <2>1 DEF Chunks
    <2>3. Chunks(found, list) \in Seq(Seq(Names))
      BY <1>1, <2>2
    <2> QED BY <1>1, <2>2, <2>3 DEF Chunks
  <1>3. ASSUME NEW reg, \A d \in ToSet(list) : Followed(reg, Chunk(found, d))
        PROVE  Joined(P(reg), Len(list), all)
    <2>1. Parts(P(reg))
      BY <1>1, <1>2, <1>3 DEF Parts
    <2>2. Joined(P(reg), Len(P(reg).parts), FlattenSeq(P(reg).parts))
      <3> HIDE DEF P
      <3> QED BY <2>1, FlattenJoins
    <2> QED BY <1>2, <2>2
  <1>4. \A l : Followed(none, l)
    BY DEF Followed, ToSet
  <1>5. Joined(P(none), Len(list), all)
    BY <1>3, <1>4
  <1>6. all \in Seq(Names) /\ ToSet(all) = UNION {ToSet(Chunks(found, list)[i]) : i \in 1 .. Len(list)}
    BY <1>5 DEF Joined
  <1>7. {ToSet(Chunks(found, list)[i]) : i \in 1 .. Len(list)} = {ToSet(Chunk(found, d)) : d \in ToSet(list)}
    BY <1>1, <1>2
  <1>8. ASSUME NEW reg, \A d \in ToSet(list) : d \in Scanners => Good(reg, found, d)
        PROVE  Followed(reg, all)
    <2>1. \A d \in ToSet(list) : d \in Names
      BY <1>1
    <2>2. \A d \in ToSet(list) : Followed(reg, Chunk(found, d))
      BY <1>8, <2>1, ChunkFollowed
    <2>3. Joined(P(reg), Len(list), all)
      BY <1>3, <2>2
    <2> QED BY <2>3 DEF Joined
  <1> HIDE DEF all
  <1> QED BY <1>6, <1>7, <1>8 DEF all

\* The calls return all a scanner depends on, and nothing else.
LEMMA FindDependenciesFacts ==
    ASSUME NEW reg \in Registries
    PROVE  LET found == FindDependencies(reg)
           IN  /\ found \in [Scanners -> Seq(Names)]
               /\ \A s \in Scanners : Good(reg, found, s)
               /\ \A S \in SUBSET Scanners : ClosedIn(reg, S) =>
                     \A s \in S : ToSet(found[s]) \cap Scanners \subseteq S
  <1>1. reg \in [Scanners -> Seq(Names)] /\ Depth \in Nat
    BY ScannerAssumption, DepthAssumption DEF Names
  <1>2. PICK rank : Ranks(reg, rank)
    BY DepthAssumption DEF Ranks
  <1> DEFINE p == [reg |-> reg, rank |-> rank]
             none == [s \in Scanners |-> <<>>]
  <1>3. Found(p, 0, none)
    <2>1. none \in [Scanners -> Seq(Names)]
      OBVIOUS
    <2>2. \A s \in Scanners : ToSet(none[s]) = {}
      BY DEF ToSet
    <2>3. \A s \in Scanners : ~(rank[s] < 0)
      BY <1>1, <1>2 DEF Ranks
    <2> HIDE DEF none
    <2> QED BY <2>1, <2>2, <2>3 DEF Found
  <1>4. ASSUME NEW k \in 1 .. Depth + 1, NEW x, Found(p, k - 1, x)
        PROVE  Found(p, k, FindStep(x, k, p))
    <2> DEFINE y == FindStep(x, k, p)
    <2>1. x \in [Scanners -> Seq(Names)]
      BY <1>4 DEF Found
    <2>2. ASSUME NEW s \in Scanners
          PROVE  /\ y[s] \in Seq(Names)
                 /\ ToSet(y[s]) = UNION {ToSet(Chunk(x, d)) : d \in ToSet(reg[s])}
                 /\ (\A d \in ToSet(reg[s]) : d \in Scanners => Good(reg, x, d))
                       => Followed(reg, y[s])
      <3>1. reg[s] \in Seq(Names) /\ DOMAIN reg[s] = 1 .. Len(reg[s])
        BY <1>1, LenProperties
      <3>2. y[s] = FlattenSeq(Chunks(x, reg[s]))
        BY <3>1 DEF FindStep, Listing, Chunks, Chunk
      <3> QED BY <2>1, <3>1, <3>2, ChunksJoined
    <2>3. y \in [Scanners -> Seq(Names)]
      <3>1. y = [s \in Scanners |-> y[s]]
        BY DEF FindStep
      <3> HIDE DEF y
      <3> QED BY <2>2, <3>1
    <2> HIDE DEF y
    <2>4. \A s \in Scanners : ToSet(reg[s]) \subseteq Names
      BY <1>1, ToSetFacts
    <2>5. ASSUME NEW s \in Scanners, rank[s] < k PROVE Good(reg, y, s)
      <3>1. \A d \in ToSet(reg[s]) : d \in Scanners => Good(reg, x, d)
        <4> SUFFICES ASSUME NEW d \in ToSet(reg[s]), d \in Scanners PROVE Good(reg, x, d)
          OBVIOUS
        <4>1. rank[d] < rank[s] /\ rank[d] \in Int /\ rank[s] \in Int
          BY <1>1, <1>2 DEF Ranks
        <4>2. rank[d] < k - 1
          BY <1>1, <2>5, <4>1
        <4> QED BY <1>4, <4>2 DEF Found
      <3>2. Followed(reg, y[s])
        BY <2>2, <3>1
      <3>3. ToSet(reg[s]) \subseteq ToSet(y[s])
        <4> SUFFICES ASSUME NEW d \in ToSet(reg[s]) PROVE d \in ToSet(y[s])
          OBVIOUS
        <4>1. d \in ToSet(Chunk(x, d))
          BY <2>1, <2>4, ChunkFacts
        <4> QED BY <2>2, <4>1
      <3> QED BY <3>2, <3>3 DEF Good
    <2>6. ASSUME NEW S \in SUBSET Scanners, ClosedIn(reg, S), NEW s \in S
          PROVE  ToSet(y[s]) \cap Scanners \subseteq S
      <3> SUFFICES ASSUME NEW e \in ToSet(y[s]), e \in Scanners PROVE e \in S
        OBVIOUS
      <3>1. PICK d \in ToSet(reg[s]) : e \in ToSet(Chunk(x, d))
        BY <2>2
      <3>2. e = d \/ (d \in Scanners /\ e \in ToSet(x[d]))
        BY <2>1, <2>4, <3>1, ChunkFacts
      <3>3. d \in Scanners => d \in S
        BY <2>6 DEF ClosedIn
      <3>4. d \in S => ToSet(x[d]) \cap Scanners \subseteq S
        BY <1>4, <2>6 DEF Found
      <3> QED BY <3>2, <3>3, <3>4
    <2> QED BY <2>3, <2>5, <2>6 DEF Found, y
  <1>5. FindDependencies(reg) = Search!Iterate(p, none, Depth + 1)
    BY DEF FindDependencies, Search!Iterate, FindStep
  <1>6. Found(p, Depth + 1, FindDependencies(reg))
    <2> HIDE DEF p, none
    <2> QED BY <1>1, <1>3, <1>4, <1>5, Search!IterateHolds
  <1>7. \A s \in Scanners : rank[s] < Depth + 1
    BY <1>1, <1>2 DEF Ranks
  <1> QED BY <1>6, <1>7 DEF Found
\* The part of the list that a name of the request is responsible for.
LEMMA ListedFacts ==
    ASSUME depends \in Registries, NEW n \in Names \cup DOMAIN Groups
    PROVE  /\ Listed(n) \in Seq(Names)
           /\ Followed(depends, Listed(n))
           /\ Named(n) \subseteq ToSet(Listed(n))
           /\ \A S \in SUBSET Scanners : Closed(S) /\ Named(n) \subseteq S =>
                 ToSet(Listed(n)) \cap Scanners \subseteq S
  <1> DEFINE found == FindDependencies(depends)
  <1>1. /\ found \in [Scanners -> Seq(Names)]
        /\ \A s \in Scanners : Good(depends, found, s)
        /\ \A S \in SUBSET Scanners : ClosedIn(depends, S) =>
              \A s \in S : ToSet(found[s]) \cap Scanners \subseteq S
    BY FindDependenciesFacts
  <1>2. \A s \in Scanners : Expand(s) = Chunk(found, s) /\ s \in Names
    BY DEF Expand, Chunk, Names
  <1> HIDE DEF found
  <1>3. \A S \in SUBSET Scanners : Closed(S) => ClosedIn(depends, S)
    BY DEF Closed, ClosedIn
  <1>4. \A s \in Scanners : /\ Chunk(found, s) \in Seq(Names)
                            /\ ToSet(Chunk(found, s)) = {s} \cup ToSet(found[s])
    BY <1>1, <1>2, ChunkFacts
  <1>5. CASE n \in Scanners
    <2>1. Listed(n) = Chunk(found, n) /\ Named(n) = {n}
      BY <1>2, <1>5 DEF Listed, Named
    <2>2. Followed(depends, Chunk(found, n))
      BY <1>1, <1>2, <1>5, ChunkFollowed
    <2>3. ASSUME NEW S \in SUBSET Scanners, Closed(S), n \in S
          PROVE  ToSet(Listed(n)) \cap Scanners \subseteq S
      <3>1. ToSet(found[n]) \cap Scanners \subseteq S
        BY <1>1, <1>3, <2>3
      <3> QED BY <1>4, <1>5, <2>1, <2>3, <3>1
    <2> QED BY <1>4, <1>5, <2>1, <2>2, <2>3
  <1>6. CASE n \in DOMAIN Groups \ Scanners
    <2> DEFINE list == Groups[n]
    <2>1. list \in Seq(Scanners)
      BY <1>6, ScannerAssumption
    <2>2. /\ DOMAIN list = 1 .. Len(list) /\ \A i \in 1 .. Len(list) : list[i] \in Scanners
          /\ ToSet(list) \subseteq Scanners
      BY <2>1, ToSetFacts
    <2>3. list \in Seq(Names)
      BY <2>1 DEF Names
    <2>4. Named(n) = ToSet(list)
      BY <1>6 DEF Named
    <2>5. Listed(n) = FlattenSeq([i \in DOMAIN list |-> Expand(list[i])])
      BY <1>6 DEF Listed
    <2>6. [i \in DOMAIN list |-> Expand(list[i])] = Chunks(found, list)
      BY <1>2, <2>2 DEF Chunks
    <2> HIDE DEF list
    <2>7. /\ Listed(n) \in Seq(Names)
          /\ ToSet(Listed(n)) = UNION {ToSet(Chunk(found, d)) : d \in ToSet(list)}
          /\ Followed(depends, Listed(n))
      <3>1. \A d \in ToSet(list) : d \in Scanners => Good(depends, found, d)
        BY <1>1
      <3>2. Listed(n) = FlattenSeq(Chunks(found, list))
        BY <2>5, <2>6
      <3>3. /\ Listed(n) \in Seq(Names)
            /\ ToSet(Listed(n)) = UNION {ToSet(Chunk(found, d)) : d \in ToSet(list)}
            /\ \A reg : (\A d \in ToSet(list) : d \in Scanners => Good(reg, found, d))
                          => Followed(reg, Listed(n))
        BY <1>1, <2>3, <3>2, ChunksJoined
      <3> QED BY <3>1, <3>3
    <2>8. Named(n) \subseteq ToSet(Listed(n))
      BY <1>4, <2>2, <2>4, <2>7
    <2>9. ASSUME NEW S \in SUBSET Scanners, Closed(S), Named(n) \subseteq S,
                 NEW e \in ToSet(Listed(n)), e \in Scanners
          PROVE  e \in S
      <3>1. PICK d \in ToSet(list) : e \in ToSet(Chunk(found, d))
        BY <2>7, <2>9
      <3>2. d \in S /\ (e = d \/ e \in ToSet(found[d]))
        BY <1>4, <2>2, <2>4, <2>9, <3>1
      <3> QED BY <1>1, <1>3, <2>9, <3>2
    <2> QED BY <2>7, <2>8, <2>9
  <1>7. CASE n \notin Scanners /\ n \notin DOMAIN Groups
    <2>1. Listed(n) = <<>> /\ Named(n) = {}
      BY <1>7 DEF Listed, Named
    <2>2. <<>> \in Seq(Names) /\ Len(<<>>) = 0 /\ ToSet(<<>>) = {}
      BY DEF ToSet
    <2> QED BY <2>1, <2>2 DEF Followed
  <1> QED BY <1>5, <1>6, <1>7

\* What a list has in front: each is preceded by all it depends on.
Preceded(reg, list, before) ==
    \A i \in 1 .. Len(list) : list[i] \in Scanners =>
        \A d \in ToSet(reg[list[i]]) \cap Scanners :
            d \in before \/ \E j \in 1 .. i - 1 : list[j] = d

LEMMA ReverseFacts ==
    ASSUME NEW reg, NEW r \in Seq(Names), IsInjective(r), Followed(reg, r)
    PROVE  /\ Reverse(r) \in Seq(Names) /\ IsInjective(Reverse(r))
           /\ ToSet(Reverse(r)) = ToSet(r)
           /\ Preceded(reg, Reverse(r), {})
  <1> DEFINE v == Reverse(r)
             n == Len(r)
  <1>1. n \in Nat /\ DOMAIN r = 1 .. n /\ (\A i \in 1 .. n : r[i] \in Names)
        /\ ToSet(r) = {r[i] : i \in 1 .. n}
    BY ToSetFacts
  <1>2. \A i \in 1 .. n : (n - i) + 1 \in 1 .. n /\ (n - ((n - i) + 1)) + 1 = i
    BY <1>1
  <1>3. v \in [1 .. n -> Names] /\ \A i \in 1 .. n : v[i] = r[(n - i) + 1]
    BY <1>1, <1>2 DEF Reverse
  <1> HIDE DEF v
  <1>4. v \in Seq(Names) /\ Len(v) = n /\ DOMAIN v = 1 .. n
    BY <1>1, <1>3
  <1>5. IsInjective(v)
    <2> SUFFICES ASSUME NEW i \in 1 .. n, NEW j \in 1 .. n, v[i] = v[j] PROVE i = j
      BY <1>4 DEF IsInjective
    <2>1. (n - i) + 1 = (n - j) + 1
      BY <1>1, <1>2, <1>3 DEF IsInjective
    <2> QED BY <1>1, <2>1
  <1>6. ToSet(v) = {v[i] : i \in 1 .. n}
    BY <1>4, ToSetFacts
  <1>7. ToSet(v) = ToSet(r)
    <2>1. \A i \in 1 .. n : v[i] \in ToSet(r)
      BY <1>1, <1>2, <1>3
    <2>2. \A i \in 1 .. n : r[i] \in ToSet(v)
      <3> SUFFICES ASSUME NEW i \in 1 .. n PROVE r[i] \in ToSet(v)
        OBVIOUS
      <3>1. v[(n - i) + 1] = r[i] /\ (n - i) + 1 \in 1 .. n
        BY <1>2, <1>3
      <3> QED BY <1>6, <3>1
    <2> QED BY <1>1, <1>6, <2>1, <2>2
  <1>8. Preceded(reg, v, {})
    <2> SUFFICES ASSUME NEW i \in 1 .. n, v[i] \in Scanners, NEW d \in ToSet(reg[v[i]])
                 PROVE  \E j \in 1 .. i - 1 : v[j] = d
      BY <1>4 DEF Preceded
    <2> DEFINE m == (n - i) + 1
    <2>1. m \in 1 .. n /\ v[i] = r[m]
      BY <1>2, <1>3
    <2>2. PICK k \in m + 1 .. n : r[k] = d
      BY <2>1 DEF Followed
    <2>3. k \in 1 .. n /\ (n - k) + 1 \in 1 .. n /\ (n - k) + 1 \in 1 .. i - 1
      BY <1>1, <2>1
    <2>4. v[(n - k) + 1] = d
      BY <1>2, <1>3, <2>2, <2>3
    <2> QED BY <2>3, <2>4
  <1> QED BY <1>4, <1>5, <1>7, <1>8 DEF v

\* fill_in_dependancies lists all that is needed, once and in order.
LEMMA FillInFacts ==
    ASSUME depends \in Registries, NEW names \in Requests
    PROVE  LET list == FillInDependancies(names)
           IN  /\ list \in Seq(Names) /\ IsInjective(list)
               /\ ToSet(list) \cap Scanners = Closure(names)
               /\ Preceded(depends, list, {})
  <1> DEFINE parts == [i \in DOMAIN names |-> Listed(names[i])]
             p == [reg |-> depends, parts |-> parts]
             all == FlattenSeq(parts)
  <1>1. names \in Seq(Names \cup DOMAIN Groups)
    BY ScannerAssumption DEF Names
  <1>2. /\ Len(names) \in Nat /\ DOMAIN names = 1 .. Len(names)
        /\ \A i \in 1 .. Len(names) : names[i] \in Names \cup DOMAIN Groups
        /\ ToSet(names) = {names[i] : i \in 1 .. Len(names)}
    BY <1>1, ToSetFacts
  <1>3. parts \in [1 .. Len(names) -> Seq(Names)]
    BY <1>2, ListedFacts
  <1>4. /\ parts \in Seq(Seq(Names)) /\ Len(parts) = Len(names)
        /\ \A i \in 1 .. Len(names) : parts[i] = Listed(names[i])
    BY <1>2, <1>3
  <1> HIDE DEF parts
  <1>5. Parts(p)
    BY <1>2, <1>4, ListedFacts DEF Parts
  <1>6. Joined(p, Len(p.parts), FlattenSeq(p.parts))
    <2> HIDE DEF p
    <2> QED BY <1>5, FlattenJoins
  <1>7. /\ all \in Seq(Names) /\ Followed(depends, all)
        /\ ToSet(all) = UNION {ToSet(parts[i]) : i \in 1 .. Len(names)}
    BY <1>4, <1>6 DEF Joined
  <1>8. ToSet(all) = UNION {ToSet(Listed(n)) : n \in ToSet(names)}
    BY <1>2, <1>4, <1>7
  <1>9. FillInDependancies(names) = Reverse(LastOnly(all))
    BY DEF FillInDependancies, all, parts
  <1> HIDE DEF all
  <1>10. /\ LastOnly(all) \in Seq(Names) /\ IsInjective(LastOnly(all))
         /\ ToSet(LastOnly(all)) = ToSet(all) /\ Followed(depends, LastOnly(all))
    BY <1>7, LastOnlyFacts
  <1>11. /\ Reverse(LastOnly(all)) \in Seq(Names) /\ IsInjective(Reverse(LastOnly(all)))
         /\ ToSet(Reverse(LastOnly(all))) = ToSet(all)
         /\ Preceded(depends, Reverse(LastOnly(all)), {})
    BY <1>10, ReverseFacts
  <1>12. \A n \in ToSet(names) : n \in Names \cup DOMAIN Groups
    BY <1>2
  <1>13. Requested(names) \subseteq ToSet(all)
    BY <1>8, <1>12, ListedFacts DEF Requested
  <1>14. Requested(names) \subseteq Scanners
    <2>1. \A n \in DOMAIN Groups : ToSet(Groups[n]) \subseteq Scanners
      BY ScannerAssumption, ToSetFacts
    <2> QED BY <2>1 DEF Requested, Named
  <1>15. Closed(ToSet(all) \cap Scanners)
    <2> SUFFICES ASSUME NEW s \in ToSet(all) \cap Scanners, NEW d \in ToSet(depends[s]), d \in Scanners
                 PROVE  d \in ToSet(all)
      BY DEF Closed
    <2>1. ToSet(all) = {all[i] : i \in 1 .. Len(all)} /\ Len(all) \in Nat
      BY <1>7, ToSetFacts
    <2>2. PICK i \in 1 .. Len(all) : all[i] = s
      BY <2>1
    <2>3. PICK j \in i + 1 .. Len(all) : all[j] = d
      BY <1>7, <2>2 DEF Followed
    <2>4. j \in 1 .. Len(all)
      BY <2>1
    <2> QED BY <2>1, <2>3, <2>4
  <1>16. ASSUME NEW S \in SUBSET Scanners, Requested(names) \subseteq S, Closed(S),
                NEW s \in ToSet(all) \cap Scanners
         PROVE  s \in S
    <2>1. PICK n \in ToSet(names) : s \in ToSet(Listed(n))
      BY <1>8
    <2>2. Named(n) \subseteq S
      BY <1>16 DEF Requested
    <2> QED BY <1>12, <1>16, <2>1, <2>2, ListedFacts
  <1>17. ToSet(all) \cap Scanners = Closure(names)
    BY <1>13, <1>14, <1>15, <1>16 DEF Closure
  <1> QED BY <1>9, <1>11, <1>17
-----------------------------------------------------------------------------
(* The invariant of a scan.                                                 *)

ScanFields == {"pc", "data", "asked", "type", "names", "ready", "done"}

Stored ==
    factories \in Seq(Factory) /\ Unique(factories) /\ Len(factories) <= StoreSize + 1

(* A scanner waits for its factory, or to be run, or has run, and is       *)
(* preceded by what it depends on at each stage.                           *)
InOrder ==
    /\ scan.names \in Seq(Names) /\ scan.ready \in Seq(Scanners) /\ scan.done \in Seq(Scanners)
    /\ IsInjective(scan.names) /\ IsInjective(scan.ready) /\ IsInjective(scan.done)
    /\ ToSet(scan.names) \cap ToSet(scan.ready) = {}
    /\ ToSet(scan.names) \cap ToSet(scan.done) = {}
    /\ ToSet(scan.ready) \cap ToSet(scan.done) = {}
    /\ Preceded(depends, scan.done, {})
    /\ Preceded(depends, scan.ready, ToSet(scan.done))
    /\ Preceded(depends, scan.names, ToSet(scan.done) \cup ToSet(scan.ready))

Phases ==
    /\ DOMAIN scan = ScanFields
    /\ scan.pc \in {"idle", "magic", "typed", "prepare"}
    /\ scan.pc # "idle" => scan.asked \in Requests
    /\ scan.pc # "prepare" => scan.names = <<>> /\ scan.ready = <<>> /\ scan.done = <<>>
    /\ scan.pc = "prepare" =>
         ToSet(scan.done) \cup ToSet(scan.ready) \cup (ToSet(scan.names) \cap Scanners)
            = Closure(scan.asked)

ScanInv == depends \in Registries /\ Stored /\ InOrder /\ Phases

\* The first of a list leaves it.
LEMMA TailFacts ==
    ASSUME NEW S, NEW s \in Seq(S), s # <<>>, IsInjective(s)
    PROVE  /\ Head(s) \in S /\ Tail(s) \in Seq(S) /\ IsInjective(Tail(s))
           /\ ToSet(s) = {Head(s)} \cup ToSet(Tail(s)) /\ Head(s) \notin ToSet(Tail(s))
           /\ \A reg, before : Preceded(reg, s, before) =>
                /\ Head(s) \in Scanners => ToSet(reg[Head(s)]) \cap Scanners \subseteq before
                /\ Preceded(reg, Tail(s), before \cup {Head(s)})
                /\ Head(s) \notin Scanners => Preceded(reg, Tail(s), before)
  <1> DEFINE t == Tail(s)
             n == Len(s)
  <1>1. n \in Nat \ {0} /\ DOMAIN s = 1 .. n /\ (\A i \in 1 .. n : s[i] \in S)
        /\ ToSet(s) = {s[i] : i \in 1 .. n}
    BY ToSetFacts, EmptySeq
  <1>2. Head(s) = s[1] /\ t \in Seq(S) /\ Len(t) = n - 1 /\ \A i \in 1 .. n - 1 : t[i] = s[i + 1]
    BY HeadTailProperties
  <1> HIDE DEF t
  <1>3. DOMAIN t = 1 .. n - 1 /\ ToSet(t) = {t[i] : i \in 1 .. n - 1}
    BY <1>2, ToSetFacts
  <1>4. /\ \A i \in 1 .. n - 1 : i + 1 \in 1 .. n /\ i + 1 # 1
        /\ \A i \in 1 .. n : i = 1 \/ (i - 1 \in 1 .. n - 1 /\ (i - 1) + 1 = i)
        /\ 1 \in 1 .. n
    BY <1>1
  <1>5. IsInjective(t)
    <2> SUFFICES ASSUME NEW i \in 1 .. n - 1, NEW j \in 1 .. n - 1, t[i] = t[j] PROVE i = j
      BY <1>3 DEF IsInjective
    <2>1. i + 1 = j + 1
      BY <1>1, <1>2, <1>4 DEF IsInjective
    <2> QED BY <1>1, <2>1
  <1>6. Head(s) \notin ToSet(t)
    BY <1>1, <1>2, <1>3, <1>4 DEF IsInjective
  <1>7. ToSet(s) = {Head(s)} \cup ToSet(t)
    <2>1. \A i \in 1 .. n : s[i] = Head(s) \/ s[i] \in ToSet(t)
      <3> SUFFICES ASSUME NEW i \in 1 .. n, i # 1 PROVE s[i] \in ToSet(t)
        BY <1>2
      <3>1. i - 1 \in 1 .. n - 1 /\ t[i - 1] = s[i]
        BY <1>2, <1>4
      <3> QED BY <1>3, <3>1
    <2>2. \A i \in 1 .. n - 1 : t[i] \in ToSet(s)
      BY <1>1, <1>2, <1>4
    <2>3. Head(s) \in ToSet(s)
      BY <1>1, <1>2, <1>4
    <2> QED BY <1>1, <1>3, <2>1, <2>2, <2>3
  <1>8. ASSUME NEW reg, NEW before, Preceded(reg, s, before)
        PROVE  /\ Head(s) \in Scanners => ToSet(reg[Head(s)]) \cap Scanners \subseteq before
               /\ Preceded(reg, t, before \cup {Head(s)})
               /\ Head(s) \notin Scanners => Preceded(reg, t, before)
    <2>1. Head(s) \in Scanners => ToSet(reg[Head(s)]) \cap Scanners \subseteq before
      <3>1. \A j \in 1 .. 1 - 1 : FALSE
        OBVIOUS
      <3> QED BY <1>2, <1>4, <1>8, <3>1 DEF Preceded
    <2>2. ASSUME NEW i \in 1 .. n - 1, t[i] \in Scanners, NEW d \in ToSet(reg[t[i]]) \cap Scanners
          PROVE  d \in before \/ d = Head(s) \/ \E j \in 1 .. i - 1 : t[j] = d
      <3>1. d \in before \/ \E j \in 1 .. (i + 1) - 1 : s[j] = d
        BY <1>2, <1>4, <1>8, <2>2 DEF Preceded
      <3>2. ASSUME NEW j \in 1 .. (i + 1) - 1, s[j] = d, j # 1
            PROVE  j - 1 \in 1 .. i - 1 /\ t[j - 1] = d
        <4>1. j - 1 \in 1 .. i - 1 /\ j - 1 \in 1 .. n - 1 /\ (j - 1) + 1 = j
          BY <1>1, <3>2
        <4> QED BY <1>2, <3>2, <4>1
      <3> QED BY <1>2, <3>1, <3>2
    <2> QED BY <1>2, <2>1, <2>2 DEF Preceded
  <1> QED BY <1>1, <1>2, <1>4, <1>5, <1>6, <1>7, <1>8 DEF t

\* A scanner joins a list, and what it depends on is there.
LEMMA AppendFacts ==
    ASSUME NEW s \in Seq(Scanners), IsInjective(s), NEW e \in Scanners, e \notin ToSet(s)
    PROVE  LET a == Append(s, e)
           IN  /\ a \in Seq(Scanners) /\ IsInjective(a)
               /\ ToSet(a) = ToSet(s) \cup {e}
               /\ \A reg, before :
                    Preceded(reg, s, before)
                      /\ ToSet(reg[e]) \cap Scanners \subseteq before \cup ToSet(s)
                      => Preceded(reg, a, before)
  <1> DEFINE a == Append(s, e)
             n == Len(s)
  <1>1. n \in Nat /\ DOMAIN s = 1 .. n /\ ToSet(s) = {s[i] : i \in 1 .. n}
    BY ToSetFacts
  <1>2. /\ a \in Seq(Scanners) /\ Len(a) = n + 1
        /\ \A i \in 1 .. n : a[i] = s[i]
        /\ a[n + 1] = e
    BY AppendProperties
  <1> HIDE DEF a
  <1>3. DOMAIN a = 1 .. n + 1 /\ ToSet(a) = {a[i] : i \in 1 .. n + 1}
    BY <1>2, ToSetFacts
  <1>4. /\ \A i \in 1 .. n + 1 : i \in 1 .. n \/ i = n + 1
        /\ \A i \in 1 .. n : i \in 1 .. n + 1
        /\ n + 1 \in 1 .. n + 1
    BY <1>1
  <1>5. IsInjective(a)
    BY <1>1, <1>2, <1>3, <1>4 DEF IsInjective
  <1>6. ToSet(a) = ToSet(s) \cup {e}
    <2>1. \A i \in 1 .. n + 1 : a[i] \in ToSet(s) \cup {e}
      BY <1>1, <1>2, <1>4
    <2>2. \A i \in 1 .. n : s[i] \in ToSet(a)
      BY <1>2, <1>3, <1>4
    <2>3. e \in ToSet(a)
      BY <1>2, <1>3, <1>4
    <2> QED BY <1>1, <1>3, <2>1, <2>2, <2>3
  <1>7. ASSUME NEW reg, NEW before, Preceded(reg, s, before),
               ToSet(reg[e]) \cap Scanners \subseteq before \cup ToSet(s)
        PROVE  Preceded(reg, a, before)
    <2> SUFFICES ASSUME NEW i \in 1 .. n + 1, NEW d \in ToSet(reg[a[i]]) \cap Scanners
                 PROVE  d \in before \/ \E j \in 1 .. i - 1 : a[j] = d
      BY <1>2 DEF Preceded
    <2>1. CASE i \in 1 .. n
      <3>1. s[i] \in Scanners /\ a[i] = s[i]
        BY <1>2, <2>1, ElementOfSeq
      <3>2. d \in before \/ \E j \in 1 .. i - 1 : s[j] = d
        BY <1>7, <2>1, <3>1 DEF Preceded
      <3>3. \A j \in 1 .. i - 1 : j \in 1 .. n
        BY <1>1, <2>1
      <3> QED BY <1>2, <3>2, <3>3
    <2>2. CASE i = n + 1
      <3>1. d \in before \/ d \in ToSet(s)
        BY <1>2, <1>7, <2>2
      <3>2. i - 1 = n
        BY <1>1, <2>2
      <3> QED BY <1>1, <1>2, <3>1, <3>2
    <2> QED BY <1>4, <2>1, <2>2
  <1> QED BY <1>2, <1>5, <1>6, <1>7 DEF a

LEMMA EmptyFacts ==
    /\ \A S : <<>> \in Seq(S)
    /\ Len(<<>>) = 0 /\ IsInjective(<<>>) /\ ToSet(<<>>) = {}
    /\ \A reg, before : Preceded(reg, <<>>, before)
  <1>1. Len(<<>>) = 0 /\ DOMAIN <<>> = {} /\ \A S : <<>> \in Seq(S)
    OBVIOUS
  <1> QED BY <1>1 DEF IsInjective, ToSet, Preceded

LEMMA InitScan == Init => ScanInv
  <1> SUFFICES ASSUME Init PROVE ScanInv
    OBVIOUS
  <1>1. Stored
    <2>1. factories = <<>> /\ Len(<<>>) = 0 /\ StoreSize \in Nat
      BY ScannerAssumption DEF Init
    <2> QED BY <2>1, EmptyFacts DEF Stored, Unique
  <1>2. /\ DOMAIN scan = ScanFields /\ scan.pc = "idle"
        /\ scan.names = <<>> /\ scan.ready = <<>> /\ scan.done = <<>>
    BY DEF Init, NoScan, ScanFields
  <1>3. InOrder
    BY <1>2, EmptyFacts DEF InOrder
  <1>4. Phases
    BY <1>2 DEF Phases
  <1> QED BY <1>1, <1>3, <1>4 DEF ScanInv, Init
\* A step that leaves the store alone.
LEMMA StoreSame ==
    ASSUME Stored, UNCHANGED factories
    PROVE  Stored'
  BY DEF Stored, Unique

\* A state in which nothing is listed.
LEMMA NothingListed ==
    ASSUME scan'.names = <<>>, scan'.ready = <<>>, scan'.done = <<>>
    PROVE  InOrder'
  BY EmptyFacts DEF InOrder

LEMMA BeginKeeps ==
    ASSUME ScanInv, NEW data \in Buffers, NEW names \in Requests, Begin(data, names)
    PROVE  ScanInv'
  <1>1. /\ DOMAIN scan' = ScanFields /\ scan'.pc = "magic" /\ scan'.asked = names
        /\ scan'.names = <<>> /\ scan'.ready = <<>> /\ scan'.done = <<>>
    BY DEF Begin, NoScan, ScanFields
  <1>2. InOrder'
    BY <1>1, NothingListed
  <1>3. Phases'
    BY <1>1 DEF Phases
  <1> QED BY <1>2, <1>3, StoreSame DEF ScanInv, Begin

LEMMA FindMagicKeeps ==
    ASSUME ScanInv, FindMagic
    PROVE  ScanInv'
  <1> DEFINE best == EstimateType(indexer', scan.data).best
  <1>1. scan' = [scan EXCEPT !.pc = "typed", !.type = best]
    BY DEF FindMagic
  <1> HIDE DEF best
  <1>2. /\ DOMAIN scan = ScanFields /\ scan.pc = "magic" /\ scan.asked \in Requests
        /\ scan.names = <<>> /\ scan.ready = <<>> /\ scan.done = <<>>
    BY DEF ScanInv, Phases, FindMagic
  <1>3. /\ DOMAIN scan' = ScanFields /\ scan'.pc = "typed" /\ scan'.asked = scan.asked
        /\ scan'.names = <<>> /\ scan'.ready = <<>> /\ scan'.done = <<>>
    BY <1>1, <1>2 DEF ScanFields
  <1>4. InOrder'
    BY <1>3, NothingListed
  <1>5. Phases'
    BY <1>2, <1>3 DEF Phases
  <1> QED BY <1>4, <1>5, StoreSame DEF ScanInv, FindMagic

LEMMA GetFactoriesKeeps ==
    ASSUME ScanInv, GetFactories
    PROVE  ScanInv'
  <1> DEFINE list == FillInDependancies(scan.asked)
  <1>1. /\ DOMAIN scan = ScanFields /\ scan.pc = "typed" /\ scan.asked \in Requests
        /\ scan.names = <<>> /\ scan.ready = <<>> /\ scan.done = <<>>
        /\ depends \in Registries
    BY DEF ScanInv, Phases, GetFactories
  <1>2. /\ list \in Seq(Names) /\ IsInjective(list)
        /\ ToSet(list) \cap Scanners = Closure(scan.asked)
        /\ Preceded(depends, list, {})
    BY <1>1, FillInFacts
  <1>3. scan' = [scan EXCEPT !.pc = "prepare", !.data = <<>>, !.names = list] /\ UNCHANGED depends
    BY DEF GetFactories
  <1> HIDE DEF list
  <1>4. /\ DOMAIN scan' = ScanFields /\ scan'.pc = "prepare" /\ scan'.asked = scan.asked
        /\ scan'.names = list /\ scan'.ready = <<>> /\ scan'.done = <<>>
    BY <1>1, <1>3 DEF ScanFields
  <1>5. InOrder'
    BY <1>2, <1>3, <1>4, EmptyFacts DEF InOrder
  <1>6. Closure(scan.asked)' = Closure(scan.asked)
    BY <1>3, <1>4 DEF Closure, Closed
  <1>7. Phases'
    BY <1>1, <1>2, <1>4, <1>6, EmptyFacts DEF Phases
  <1> QED BY <1>3, <1>5, <1>7, StoreSame DEF ScanInv, GetFactories

\* The first name is skipped: there is no such scanner.
LEMMA SkipKeeps ==
    ASSUME ScanInv, scan.pc = "prepare", scan.names # <<>>, Head(scan.names) \notin Scanners,
           UNCHANGED <<depends, factories>>,
           scan' = [scan EXCEPT !.names = Tail(@)]
    PROVE  ScanInv'
  <1>1. /\ DOMAIN scan = ScanFields /\ scan.asked \in Requests /\ InOrder
        /\ ToSet(scan.done) \cup ToSet(scan.ready) \cup (ToSet(scan.names) \cap Scanners)
            = Closure(scan.asked)
    BY DEF ScanInv, Phases
  <1>2. /\ DOMAIN scan' = ScanFields /\ scan'.pc = "prepare" /\ scan'.asked = scan.asked
        /\ scan'.names = Tail(scan.names) /\ scan'.ready = scan.ready /\ scan'.done = scan.done
    BY <1>1 DEF ScanFields
  <1>3. /\ Tail(scan.names) \in Seq(Names) /\ IsInjective(Tail(scan.names))
        /\ ToSet(scan.names) = {Head(scan.names)} \cup ToSet(Tail(scan.names))
        /\ Preceded(depends, Tail(scan.names), ToSet(scan.done) \cup ToSet(scan.ready))
    <2>1. /\ scan.names \in Seq(Names) /\ IsInjective(scan.names)
          /\ Preceded(depends, scan.names, ToSet(scan.done) \cup ToSet(scan.ready))
      BY <1>1 DEF InOrder
    <2>2. \A reg, before : Preceded(reg, scan.names, before) => Preceded(reg, Tail(scan.names), before)
      BY <2>1, TailFacts
    <2> QED BY <2>1, <2>2, TailFacts
  <1>4. InOrder'
    BY <1>1, <1>2, <1>3 DEF InOrder
  <1>5. Closure(scan.asked)' = Closure(scan.asked)
    BY <1>2 DEF Closure, Closed
  <1>6. Phases'
    BY <1>1, <1>2, <1>3, <1>5 DEF Phases
  <1> QED BY <1>4, <1>6, StoreSame DEF ScanInv

\* The factory of the first name is ready.
LEMMA ReadyKeeps ==
    ASSUME ScanInv, scan.pc = "prepare", scan.names # <<>>, Head(scan.names) \in Scanners,
           UNCHANGED depends, Stored',
           scan' = [scan EXCEPT !.names = Tail(@), !.ready = Append(@, Head(scan.names))]
    PROVE  ScanInv'
  <1> DEFINE s == Head(scan.names)
  <1>1. /\ DOMAIN scan = ScanFields /\ scan.asked \in Requests /\ InOrder
        /\ ToSet(scan.done) \cup ToSet(scan.ready) \cup (ToSet(scan.names) \cap Scanners)
            = Closure(scan.asked)
    BY DEF ScanInv, Phases
  <1>2. /\ DOMAIN scan' = ScanFields /\ scan'.pc = "prepare" /\ scan'.asked = scan.asked
        /\ scan'.names = Tail(scan.names) /\ scan'.ready = Append(scan.ready, s)
        /\ scan'.done = scan.done
    BY <1>1 DEF ScanFields
  <1>3. /\ scan.names \in Seq(Names) /\ IsInjective(scan.names)
        /\ Preceded(depends, scan.names, ToSet(scan.done) \cup ToSet(scan.ready))
    BY <1>1 DEF InOrder
  <1>4. /\ Tail(scan.names) \in Seq(Names) /\ IsInjective(Tail(scan.names))
        /\ ToSet(scan.names) = {s} \cup ToSet(Tail(scan.names))
        /\ s \notin ToSet(Tail(scan.names))
        /\ ToSet(depends[s]) \cap Scanners \subseteq ToSet(scan.done) \cup ToSet(scan.ready)
        /\ Preceded(depends, Tail(scan.names), (ToSet(scan.done) \cup ToSet(scan.ready)) \cup {s})
    <2>1. \A reg, before : Preceded(reg, scan.names, before) =>
             /\ ToSet(reg[s]) \cap Scanners \subseteq before
             /\ Preceded(reg, Tail(scan.names), before \cup {s})
      BY <1>3, TailFacts
    <2>2. /\ Tail(scan.names) \in Seq(Names) /\ IsInjective(Tail(scan.names))
          /\ ToSet(scan.names) = {s} \cup ToSet(Tail(scan.names))
          /\ s \notin ToSet(Tail(scan.names))
      BY <1>3, TailFacts
    <2> HIDE DEF s
    <2> QED BY <1>3, <2>1, <2>2
  <1> HIDE DEF s
  <1>5. s \in Scanners
    BY DEF s
  <1>6. s \notin ToSet(scan.ready) /\ s \notin ToSet(scan.done)
    BY <1>1, <1>4 DEF InOrder
  <1>7. /\ scan.ready \in Seq(Scanners) /\ IsInjective(scan.ready)
        /\ Preceded(depends, scan.ready, ToSet(scan.done))
    BY <1>1 DEF InOrder
  <1>8. /\ Append(scan.ready, s) \in Seq(Scanners) /\ IsInjective(Append(scan.ready, s))
        /\ ToSet(Append(scan.ready, s)) = ToSet(scan.ready) \cup {s}
        /\ Preceded(depends, Append(scan.ready, s), ToSet(scan.done))
    BY <1>4, <1>5, <1>6, <1>7, AppendFacts
  <1>9. (ToSet(scan.done) \cup ToSet(scan.ready)) \cup {s}
          = ToSet(scan.done) \cup ToSet(Append(scan.ready, s))
    BY <1>8
  <1>10. InOrder'
    <2>1. /\ scan'.names \in Seq(Names) /\ scan'.ready \in Seq(Scanners) /\ scan'.done \in Seq(Scanners)
          /\ IsInjective(scan'.names) /\ IsInjective(scan'.ready) /\ IsInjective(scan'.done)
      BY <1>1, <1>2, <1>4, <1>8 DEF InOrder
    <2>2. /\ ToSet(scan'.names) \cap ToSet(scan'.ready) = {}
          /\ ToSet(scan'.names) \cap ToSet(scan'.done) = {}
          /\ ToSet(scan'.ready) \cap ToSet(scan'.done) = {}
      BY <1>1, <1>2, <1>4, <1>6, <1>8 DEF InOrder
    <2>3. /\ Preceded(depends, scan'.done, {})
          /\ Preceded(depends, scan'.ready, ToSet(scan'.done))
          /\ Preceded(depends, scan'.names, ToSet(scan'.done) \cup ToSet(scan'.ready))
      BY <1>1, <1>2, <1>4, <1>8, <1>9 DEF InOrder
    <2> QED BY <2>1, <2>2, <2>3 DEF InOrder
  <1>11. Closure(scan.asked)' = Closure(scan.asked)
    BY <1>2 DEF Closure, Closed
  <1>12. Phases'
    BY <1>1, <1>2, <1>4, <1>5, <1>8, <1>11 DEF Phases
  <1> QED BY <1>10, <1>12 DEF ScanInv

LEMMA PrepareKeeps ==
    ASSUME ScanInv, Prepare
    PROVE  ScanInv'
  <1> DEFINE s == Head(scan.names)
  <1>1. /\ scan.pc = "prepare" /\ scan.names # <<>> /\ UNCHANGED depends
        /\ StoreSize \in Nat
        /\ factories \in Seq(Factory) /\ Unique(factories) /\ Len(factories) \in Nat
    BY ScannerAssumption, LenProperties DEF Prepare, ScanInv, Stored
  <1>2. CASE /\ HasKey(factories, s)
             /\ \E old \in 0 .. Len(factories) - 1 :
                  factories' = StoreGet(factories, StoreSize, old, s)
             /\ scan' = [scan EXCEPT !.names = Tail(@), !.ready = Append(@, s)]
    <2>1. s \in Scanners
      <3>1. PICK i \in DOMAIN factories : factories[i].key = s
        BY <1>2 DEF HasKey
      <3>2. factories[i] \in Factory
        BY <1>1, ToSetFacts
      <3> QED BY <3>1, <3>2 DEF Factory
    <2>2. PICK old \in Nat : factories' = StoreGet(factories, StoreSize, old, s)
      BY <1>1, <1>2
    <2>3. factories' \in Seq(Factory) /\ Unique(factories') /\ Len(factories') <= StoreSize
      <3> HIDE DEF s
      <3> QED BY <1>1, <1>2, <2>2, StoreGetFacts
    <2>4. Stored'
      <3>1. Len(factories') \in Nat
        BY <2>3, LenProperties
      <3> QED BY <1>1, <2>3, <3>1 DEF Stored, Unique
    <2> QED BY <1>1, <1>2, <2>1, <2>4, ReadyKeeps
  <1>3. CASE /\ ~HasKey(factories, s) /\ s \in Scanners
             /\ \E old \in 0 .. Len(factories) :
                  factories' = StorePut(factories, StoreSize, old, s, s)
             /\ scan' = [scan EXCEPT !.names = Tail(@), !.ready = Append(@, s)]
    <2>1. PICK old \in Nat : factories' = StorePut(factories, StoreSize, old, s, s)
      BY <1>1, <1>3
    <2>2. Entry(s, s) \in Factory
      BY <1>3 DEF Entry, Factory
    <2>3. factories' \in Seq(Factory) /\ Unique(factories') /\ Len(factories') <= StoreSize + 1
      <3> HIDE DEF s
      <3> QED BY <1>1, <1>3, <2>1, <2>2, StorePutFacts
    <2>4. Stored'
      BY <2>3 DEF Stored, Unique
    <2> QED BY <1>1, <1>3, <2>4, ReadyKeeps
  <1>4. CASE /\ ~HasKey(factories, s) /\ s \notin Scanners
             /\ scan' = [scan EXCEPT !.names = Tail(@)]
             /\ UNCHANGED factories
    BY <1>1, <1>4, SkipKeeps
  <1> QED BY <1>2, <1>3, <1>4 DEF Prepare

LEMMA RunKeeps ==
    ASSUME ScanInv, Run
    PROVE  ScanInv'
  <1> DEFINE s == Head(scan.ready)
  <1>1. /\ DOMAIN scan = ScanFields /\ scan.asked \in Requests /\ InOrder
        /\ scan.pc = "prepare" /\ scan.names = <<>> /\ scan.ready # <<>>
        /\ scan' = [scan EXCEPT !.ready = Tail(@), !.done = Append(@, s)]
        /\ UNCHANGED <<depends, factories>>
        /\ ToSet(scan.done) \cup ToSet(scan.ready) \cup (ToSet(scan.names) \cap Scanners)
            = Closure(scan.asked)
    BY DEF ScanInv, Phases, Run
  <1>2. /\ DOMAIN scan' = ScanFields /\ scan'.pc = "prepare" /\ scan'.asked = scan.asked
        /\ scan'.names = <<>> /\ scan'.ready = Tail(scan.ready)
        /\ scan'.done = Append(scan.done, s)
    BY <1>1 DEF ScanFields
  <1>3. /\ scan.ready \in Seq(Scanners) /\ IsInjective(scan.ready)
        /\ Preceded(depends, scan.ready, ToSet(scan.done))
        /\ scan.done \in Seq(Scanners) /\ IsInjective(scan.done)
        /\ Preceded(depends, scan.done, {})
        /\ ToSet(scan.ready) \cap ToSet(scan.done) = {}
    BY <1>1 DEF InOrder
  <1>4. /\ s \in Scanners
        /\ Tail(scan.ready) \in Seq(Scanners) /\ IsInjective(Tail(scan.ready))
        /\ ToSet(scan.ready) = {s} \cup ToSet(Tail(scan.ready))
        /\ s \notin ToSet(Tail(scan.ready))
        /\ ToSet(depends[s]) \cap Scanners \subseteq ToSet(scan.done)
        /\ Preceded(depends, Tail(scan.ready), ToSet(scan.done) \cup {s})
    BY <1>1, <1>3, TailFacts
  <1> HIDE DEF s
  <1>5. s \notin ToSet(scan.done)
    BY <1>3, <1>4
  <1>6. /\ Append(scan.done, s) \in Seq(Scanners) /\ IsInjective(Append(scan.done, s))
        /\ ToSet(Append(scan.done, s)) = ToSet(scan.done) \cup {s}
        /\ Preceded(depends, Append(scan.done, s), {})
    <2>1. ToSet(depends[s]) \cap Scanners \subseteq {} \cup ToSet(scan.done)
      BY <1>4
    <2> QED BY <1>3, <1>4, <1>5, <2>1, AppendFacts
  <1>7. InOrder'
    <2>1. /\ scan'.names \in Seq(Names) /\ scan'.ready \in Seq(Scanners) /\ scan'.done \in Seq(Scanners)
          /\ IsInjective(scan'.names) /\ IsInjective(scan'.ready) /\ IsInjective(scan'.done)
      BY <1>2, <1>4, <1>6, EmptyFacts
    <2>2. /\ ToSet(scan'.names) \cap ToSet(scan'.ready) = {}
          /\ ToSet(scan'.names) \cap ToSet(scan'.done) = {}
          /\ ToSet(scan'.ready) \cap ToSet(scan'.done) = {}
      BY <1>2, <1>3, <1>4, <1>6, EmptyFacts
    <2>3. /\ Preceded(depends, scan'.done, {})
          /\ Preceded(depends, scan'.ready, ToSet(scan'.done))
          /\ Preceded(depends, scan'.names, ToSet(scan'.done) \cup ToSet(scan'.ready))
      BY <1>2, <1>4, <1>6, EmptyFacts
    <2> QED BY <1>1, <2>1, <2>2, <2>3 DEF InOrder
  <1>8. Closure(scan.asked)' = Closure(scan.asked)
    BY <1>1, <1>2 DEF Closure, Closed
  <1>9. Phases'
    <2>1. ToSet(scan.names) = {}
      BY <1>1, EmptyFacts
    <2> QED BY <1>1, <1>2, <1>4, <1>6, <1>8, <2>1 DEF Phases
  <1> QED BY <1>1, <1>7, <1>9, StoreSame DEF ScanInv

LEMMA FinishKeeps ==
    ASSUME ScanInv, Finish
    PROVE  ScanInv'
  <1>1. /\ DOMAIN scan' = ScanFields /\ scan'.pc = "idle"
        /\ scan'.names = <<>> /\ scan'.ready = <<>> /\ scan'.done = <<>>
    BY DEF Finish, NoScan, ScanFields
  <1>2. InOrder'
    BY <1>1, NothingListed
  <1>3. Phases'
    BY <1>1 DEF Phases
  <1> QED BY <1>2, <1>3, StoreSame DEF ScanInv, Finish

\* The invariant holds, whatever is scanned and however small the store is.
THEOREM ScanInductive == Spec => []ScanInv
  <1>1. ScanInv /\ [Next]_vars => ScanInv'
    <2> SUFFICES ASSUME ScanInv, [Next]_vars PROVE ScanInv'
      OBVIOUS
    <2>1. CASE UNCHANGED vars
      <3>1. UNCHANGED <<depends, factories, scan>>
        BY <2>1 DEF vars
      <3>2. InOrder' /\ Phases'
        BY <3>1 DEF ScanInv, InOrder, Phases, Closure, Closed
      <3> QED BY <3>1, <3>2, StoreSame DEF ScanInv
    <2>2. CASE Next
      BY <2>2, BeginKeeps, FindMagicKeeps, GetFactoriesKeeps, PrepareKeeps, RunKeeps,
         FinishKeeps DEF Next
    <2> QED BY <2>1, <2>2
  <1> QED BY <1>1, InitScan, PTL DEF Spec

(* When a scanner has run on an inode, the scanners it depends on have run *)
(* on it before (the order fill_in_dependancies makes and get_factories    *)
(* keeps).                                                                 *)
THEOREM OrderCorrect == Spec => []DependenciesRanBefore
  <1>1. ScanInv => DependenciesRanBefore
    <2> SUFFICES ASSUME ScanInv PROVE DependenciesRanBefore
      OBVIOUS
    <2>1. scan.done \in Seq(Scanners) /\ Preceded(depends, scan.done, {})
      BY DEF ScanInv, InOrder
    <2>2. DOMAIN scan.done = 1 .. Len(scan.done) /\ \A i \in 1 .. Len(scan.done) : scan.done[i] \in Scanners
      BY <2>1, ToSetFacts
    <2> QED BY <2>1, <2>2 DEF DependenciesRanBefore, Preceded
  <1> QED BY <1>1, ScanInductive, PTL

(* A scan that is finished has run each scanner it was for, or that one of *)
(* those depends on, once, and no other.                                   *)
THEOREM OnceCorrect == Spec => []EachRunsOnce
  <1>1. ScanInv => EachRunsOnce
    <2> SUFFICES ASSUME ScanInv, scan.pc = "prepare", scan.names = <<>>, scan.ready = <<>>
                 PROVE  /\ ToSet(scan.done) = Closure(scan.asked)
                        /\ Len(scan.done) = Cardinality(Closure(scan.asked))
      BY DEF EachRunsOnce
    <2>1. ToSet(scan.done) = Closure(scan.asked)
      BY EmptyFacts DEF ScanInv, Phases
    <2>2. scan.done \in Seq(Scanners) /\ IsInjective(scan.done)
      BY DEF ScanInv, InOrder
    <2>3. /\ Len(scan.done) \in Nat /\ DOMAIN scan.done = 1 .. Len(scan.done)
          /\ ToSet(scan.done) = {scan.done[i] : i \in 1 .. Len(scan.done)}
          /\ scan.done = [i \in 1 .. Len(scan.done) |-> scan.done[i]]
      BY <2>2, ToSetFacts
    <2>4. scan.done \in Bijection(1 .. Len(scan.done), ToSet(scan.done))
      <3>1. scan.done \in [1 .. Len(scan.done) -> ToSet(scan.done)]
        BY <2>3
      <3>2. \A i, j \in 1 .. Len(scan.done) : scan.done[i] = scan.done[j] => i = j
        BY <2>2, <2>3 DEF IsInjective
      <3>3. \A x \in ToSet(scan.done) : \E i \in 1 .. Len(scan.done) : scan.done[i] = x
        BY <2>3
      <3> QED BY <3>1, <3>2, <3>3 DEF Bijection, Injection, Surjection, IsInjective
    <2>5. Cardinality(ToSet(scan.done)) = Len(scan.done)
      <3>1. ExistsBijection(1 .. Len(scan.done), ToSet(scan.done))
        BY <2>4 DEF ExistsBijection
      <3>2. /\ IsFiniteSet(1 .. Len(scan.done))
            /\ Cardinality(1 .. Len(scan.done)) = Len(scan.done)
        BY <2>3, FS_Interval
      <3> QED BY <3>1, <3>2, FS_Bijection
    <2> QED BY <2>1, <2>5
  <1> QED BY <1>1, ScanInductive, PTL

(* There is one factory of a scanner in the store at a time, however get,  *)
(* put and check_full follow each other.                                   *)
THEOREM FactoryCorrect == Spec => []OneFactory
  <1>1. ScanInv => OneFactory
    <2> SUFFICES ASSUME ScanInv PROVE OneFactory
      OBVIOUS
    <2>1. factories \in Seq(Factory) /\ Unique(factories)
      BY DEF ScanInv, Stored
    <2>2. DOMAIN factories = 1 .. Len(factories)
      BY <2>1, LenProperties
    <2> QED BY <2>1, <2>2 DEF OneFactory, Unique
  <1> QED BY <1>1, ScanInductive, PTL

-----------------------------------------------------------------------------
(* The type detection.                                                      *)

H == ToSet(Handlers)
MagicFields == {"max", "best", "scores", "stop"}

\* The best of the first k handlers, by what they give the data itself.
RateStep(m, k, p) == Better(m, Handlers[k])
Rates(p, k, m) ==
    /\ DOMAIN m = MagicFields
    /\ m.max \in Nat /\ m.scores = Initial /\ m.stop = FALSE
    /\ \A i \in 1 .. k : Initial[Handlers[i]] <= m.max
    /\ (m.max = 0 \/ (m.best \in H /\ m.max = Initial[m.best]))

(* After k hits: the best of all handlers and no score of 100 so far, or   *)
(* the best when there first was one.                                      *)
Highest(hits, k, best) ==
    \A h \in H : ScoreAfter(hits, k, h) <= ScoreAfter(hits, k, best)
Stopped(hits, k, best) ==
    \E j \in 1 .. k : Sure(hits, j) /\ (\A i \in 1 .. j - 1 : ~Sure(hits, i)) /\ Highest(hits, j, best)
HitStep(m, k, hits) == ScoreHit(m, hits[k])
Scored(hits, k, m) ==
    /\ DOMAIN m = MagicFields
    /\ m.best \in H /\ m.scores \in [H -> Nat] /\ m.stop \in BOOLEAN
    /\ m.max = m.scores[m.best]
    /\ m.stop => Stopped(hits, k, m.best)
    /\ ~m.stop => /\ \A h \in H : m.scores[h] <= m.max /\ m.scores[h] = ScoreAfter(hits, k, h)
                  /\ \A i \in 1 .. k : ~Sure(hits, i)

Rating == INSTANCE Iteration WITH Step <- RateStep, Holds <- Rates
Hitting == INSTANCE Iteration WITH Step <- HitStep, Holds <- Scored

LEMMA RatedFacts == Rates(0, Len(Handlers), Rated)
  <1>1. /\ Len(Handlers) \in Nat /\ (\A i \in 1 .. Len(Handlers) : Handlers[i] \in H)
        /\ Initial \in [H -> Nat]
    BY MagicAssumption, ToSetFacts DEF H
  <1>2. Rates(0, 0, Unrated)
    BY DEF Rates, Unrated, MagicFields
  <1>3. ASSUME NEW k \in 1 .. Len(Handlers), NEW m, Rates(0, k - 1, m)
        PROVE  Rates(0, k, RateStep(m, k, 0))
    <2> DEFINE h == Handlers[k]
    <2>1. h \in H /\ Initial[h] \in Nat
      BY <1>1
    <2>2. /\ DOMAIN m = MagicFields /\ m.max \in Nat /\ m.scores = Initial /\ m.stop = FALSE
          /\ \A i \in 1 .. k - 1 : Initial[Handlers[i]] <= m.max
          /\ (m.max = 0 \/ (m.best \in H /\ m.max = Initial[m.best]))
      BY <1>3 DEF Rates
    <2>3. \A i \in 1 .. k - 1 : Initial[Handlers[i]] \in Nat
      BY <1>1
    <2>4. \A i \in 1 .. k : i \in 1 .. k - 1 \/ i = k
      BY <1>1
    <2>5. CASE Initial[h] > m.max
      <3> DEFINE b == [m EXCEPT !.max = Initial[h], !.best = h]
      <3>1. RateStep(m, k, 0) = b
        BY <2>2, <2>5 DEF RateStep, Better
      <3>2. DOMAIN b = MagicFields /\ b.max = Initial[h] /\ b.best = h
            /\ b.scores = Initial /\ b.stop = FALSE
        BY <2>2 DEF MagicFields
      <3> HIDE DEF b
      <3>3. \A i \in 1 .. k : Initial[Handlers[i]] <= b.max
        BY <2>1, <2>2, <2>3, <2>4, <2>5, <3>2
      <3> QED BY <2>1, <3>1, <3>2, <3>3 DEF Rates
    <2>6. CASE ~(Initial[h] > m.max)
      <3>1. RateStep(m, k, 0) = m
        BY <2>2, <2>6 DEF RateStep, Better
      <3>2. \A i \in 1 .. k : Initial[Handlers[i]] <= m.max
        BY <2>1, <2>2, <2>4, <2>6
      <3> QED BY <2>2, <3>1, <3>2 DEF Rates
    <2> QED BY <2>5, <2>6
  <1>4. Rated = Rating!Iterate(0, Unrated, Len(Handlers))
    BY DEF Rated, Rating!Iterate, RateStep
  <1> QED BY <1>1, <1>2, <1>3, <1>4, Rating!IterateHolds

\* A product grows with its factor.
LEMMA Product ==
    ASSUME NEW a \in Nat, NEW c \in Nat
    PROVE  a * c \in Nat /\ a * (c + 1) = a * c + a
  OBVIOUS

\* Finitely many hits count.
LEMMA SoFarFinite ==
    ASSUME NEW hits, NEW k \in Nat, NEW h \in H
    PROVE  IsFiniteSet(SoFar(hits, k, h)) /\ Cardinality(SoFar(hits, k, h)) \in Nat
  <1> DEFINE f == [i \in 1 .. k |-> hits[i]]
             D == {hits[i] : i \in 1 .. k}
  <1>1. IsFiniteSet(1 .. k)
    BY FS_Interval
  <1>2. f \in Surjection(1 .. k, D)
    BY DEF Surjection
  <1>3. SoFar(hits, k, h) \subseteq D
    BY DEF SoFar
  <1> HIDE DEF D, f
  <1>4. IsFiniteSet(D)
    BY <1>1, <1>2, FS_Surjection
  <1> QED BY <1>3, <1>4, FS_Subset, FS_CardinalityType

\* One more hit counts for its own handler, if it is within the range.
LEMMA ScoresStep ==
    ASSUME NEW hits, NEW n \in Nat, NEW k \in 1 .. n, NEW h \in H,
           \A i, j \in 1 .. n : hits[i] = hits[j] => i = j
    PROVE  /\ ScoreAfter(hits, k - 1, h) \in Nat
           /\ ScoreAfter(hits, k, h) = ScoreAfter(hits, k - 1, h)
                                     + IF Counts(h, hits[k]) THEN Score[h] ELSE 0
  <1> DEFINE A == SoFar(hits, k - 1, h)
             B == SoFar(hits, k, h)
  <1>1. Score[h] \in Nat /\ Initial[h] \in Nat
    BY MagicAssumption DEF H
  <1>2. IsFiniteSet(A) /\ Cardinality(A) \in Nat
    BY SoFarFinite
  <1>3. 1 .. k = (1 .. k - 1) \cup {k} /\ \A i \in 1 .. k - 1 : i \in 1 .. n /\ i # k
    OBVIOUS
  <1>4. {hits[i] : i \in 1 .. k} = {hits[i] : i \in 1 .. k - 1} \cup {hits[k]}
    BY <1>3
  <1>5. hits[k] \notin {hits[i] : i \in 1 .. k - 1}
    BY <1>3
  <1>6. B = IF Counts(h, hits[k]) THEN A \cup {hits[k]} ELSE A
    BY <1>4 DEF SoFar
  <1>7. hits[k] \notin A
    BY <1>5 DEF SoFar
  <1> HIDE DEF A, B
  <1>8. Cardinality(B) = IF Counts(h, hits[k]) THEN Cardinality(A) + 1 ELSE Cardinality(A)
    BY <1>2, <1>6, <1>7, FS_AddElement
  <1>9. ScoreAfter(hits, k - 1, h) = Initial[h] + Score[h] * Cardinality(A)
        /\ ScoreAfter(hits, k, h) = Initial[h] + Score[h] * Cardinality(B)
    BY DEF ScoreAfter, A, B
  <1> DEFINE c == Cardinality(A)
             s == Score[h]
  <1>10. c \in Nat /\ s \in Nat /\ s * c \in Nat /\ s * (c + 1) = s * c + s
    BY <1>1, <1>2, Product
  <1>11. Cardinality(B) = IF Counts(h, hits[k]) THEN c + 1 ELSE c
    BY <1>8
  <1>12. CASE Counts(h, hits[k])
    BY <1>1, <1>9, <1>10, <1>11, <1>12
  <1>13. CASE ~Counts(h, hits[k])
    BY <1>1, <1>9, <1>10, <1>11, <1>13
  <1> QED BY <1>12, <1>13

LEMMA BetterFacts ==
    ASSUME NEW m, DOMAIN m = MagicFields, NEW h \in H, m.scores \in [H -> Nat], m.max \in Nat,
           m.best \in H
    PROVE  LET b == Better(m, h)
           IN  /\ DOMAIN b = MagicFields /\ b.scores = m.scores /\ b.stop = m.stop
               /\ \/ m.scores[h] > m.max /\ b.max = m.scores[h] /\ b.best = h
                  \/ m.scores[h] <= m.max /\ b.max = m.max /\ b.best = m.best
  <1>1. m.scores[h] \in Nat
    OBVIOUS
  <1>2. CASE m.scores[h] > m.max
    <2>1. Better(m, h) = [m EXCEPT !.max = m.scores[h], !.best = h]
      BY <1>2 DEF Better
    <2> QED BY <1>2, <2>1 DEF MagicFields
  <1>3. CASE ~(m.scores[h] > m.max)
    BY <1>1, <1>3 DEF Better
  <1> QED BY <1>2, <1>3

\* One turn of the search: the hit counts, and the best is looked for.
LEMMA HitKeeps ==
    ASSUME NEW hits, NEW n \in Nat, NEW k \in 1 .. n, NEW m, Scored(hits, k - 1, m),
           \A i, j \in 1 .. n : hits[i] = hits[j] => i = j,
           hits[k].id \in DOMAIN Rules
    PROVE  Scored(hits, k, HitStep(m, k, hits))
  <1> DEFINE hit == hits[k]
             r == Rules[hit.id].handler
             t == ScoreHit(m, hit)
  <1>1. r \in H
    BY MagicAssumption DEF H, ToSet
  <1>2. /\ DOMAIN m = MagicFields
        /\ m.best \in H /\ m.scores \in [H -> Nat] /\ m.stop \in BOOLEAN
        /\ m.max = m.scores[m.best] /\ m.max \in Nat
        /\ m.stop => Stopped(hits, k - 1, m.best)
        /\ ~m.stop => /\ \A h \in H : m.scores[h] <= m.max /\ m.scores[h] = ScoreAfter(hits, k - 1, h)
                      /\ \A i \in 1 .. k - 1 : ~Sure(hits, i)
    BY DEF Scored
  <1>3. \A h \in H : /\ ScoreAfter(hits, k - 1, h) \in Nat /\ Score[h] \in Nat
                     /\ ScoreAfter(hits, k, h) = ScoreAfter(hits, k - 1, h)
                                               + IF Counts(h, hit) THEN Score[h] ELSE 0
    BY ScoresStep, MagicAssumption DEF H
  <1>4. HitStep(m, k, hits) = t
    BY DEF HitStep
  <1>5. CASE m.stop
    <2>1. t = m
      BY <1>5 DEF ScoreHit
    <2>2. Stopped(hits, k, m.best)
      <3>1. \A j \in 1 .. k - 1 : j \in 1 .. k
        OBVIOUS
      <3> QED BY <1>2, <1>5, <3>1 DEF Stopped
    <2> QED BY <1>2, <1>4, <1>5, <2>1, <2>2 DEF Scored
  <1>6. CASE ~m.stop
    <2> DEFINE a == IF hit.offset \in Rules[hit.id].from .. Rules[hit.id].to
                    THEN [m EXCEPT !.scores[r] = @ + Score[r]] ELSE m
               b == Better(a, r)
               c == [b EXCEPT !.stop = b.max >= 100]
    <2>1. t = c
      BY <1>6 DEF ScoreHit
    <2>2. /\ DOMAIN a = MagicFields /\ a.max = m.max /\ a.best = m.best /\ a.stop = m.stop
          /\ a.scores = IF Counts(r, hit) THEN [m.scores EXCEPT ![r] = @ + Score[r]] ELSE m.scores
      BY <1>2 DEF MagicFields, Counts
    <2> HIDE DEF a
    <2>3. a.scores \in [H -> Nat]
      BY <1>1, <1>2, <1>3, <2>2
    <2>4. \A h \in H : a.scores[h] = ScoreAfter(hits, k, h) /\ (h # r => a.scores[h] = m.scores[h])
                      /\ m.scores[h] <= a.scores[h]
      <3> SUFFICES ASSUME NEW h \in H
                   PROVE  a.scores[h] = ScoreAfter(hits, k, h) /\ (h # r => a.scores[h] = m.scores[h])
                          /\ m.scores[h] <= a.scores[h]
        OBVIOUS
      <3>1. m.scores[h] = ScoreAfter(hits, k - 1, h) /\ m.scores[h] \in Nat
        BY <1>2, <1>6
      <3>2. CASE h = r
        <4>1. CASE Counts(r, hit)
          <5>1. a.scores[h] = m.scores[h] + Score[h]
            BY <1>1, <1>2, <2>2, <3>2, <4>1
          <5> QED BY <1>3, <3>1, <3>2, <4>1, <5>1
        <4>2. CASE ~Counts(r, hit)
          BY <1>3, <2>2, <3>1, <3>2, <4>2
        <4> QED BY <4>1, <4>2
      <3>3. CASE h # r
        <4>1. ~Counts(h, hit)
          BY <3>3 DEF Counts
        <4>2. a.scores[h] = m.scores[h]
          BY <1>2, <2>2, <3>3
        <4> QED BY <1>3, <3>1, <4>1, <4>2
      <3> QED BY <3>2, <3>3
    <2>5. /\ DOMAIN b = MagicFields /\ b.scores = a.scores
          /\ \/ a.scores[r] > a.max /\ b.max = a.scores[r] /\ b.best = r
             \/ a.scores[r] <= a.max /\ b.max = a.max /\ b.best = a.best
      <3> HIDE DEF r
      <3> QED BY <1>1, <1>2, <2>2, <2>3, BetterFacts
    <2> HIDE DEF b
    <2>6. /\ DOMAIN c = MagicFields /\ c.scores = a.scores /\ c.max = b.max /\ c.best = b.best
          /\ c.stop = (b.max >= 100)
      BY <2>5 DEF MagicFields
    <2> HIDE DEF c, r, hit
    <2>7. /\ b.best \in H /\ b.max = a.scores[b.best]
          /\ \A h \in H : a.scores[h] <= b.max
      <3>1. CASE a.scores[r] > a.max /\ b.max = a.scores[r] /\ b.best = r
        <4>1. \A h \in H : a.scores[h] <= b.max
          BY <1>1, <1>2, <1>6, <2>2, <2>3, <2>4, <3>1
        <4> QED BY <1>1, <3>1, <4>1
      <3>2. CASE a.scores[r] <= a.max /\ b.max = a.max /\ b.best = a.best
        <4>1. \A h \in H : a.scores[h] <= b.max
          BY <1>2, <1>6, <2>2, <2>3, <2>4, <3>2
        <4>2. a.scores[m.best] \in Nat /\ m.scores[m.best] <= a.scores[m.best]
          BY <1>2, <2>3, <2>4
        <4> QED BY <1>2, <2>2, <3>2, <4>1, <4>2
      <3> QED BY <2>5, <3>1, <3>2
    <2>8. \A h \in H : a.scores[h] \in Nat
      BY <2>3
    <2>9. Highest(hits, k, b.best) /\ b.max \in Nat
      BY <2>4, <2>7, <2>8 DEF Highest
    <2>10. Sure(hits, k) <=> b.max >= 100
      <3>1. \A h \in H : ScoreAfter(hits, k, h) = a.scores[h]
        BY <2>4
      <3> QED BY <2>7, <2>8, <2>9, <3>1 DEF Sure, H
    <2>11. k \in 1 .. k /\ \A i \in 1 .. k : i \in 1 .. k - 1 \/ i = k
      OBVIOUS
    <2>12. CASE b.max >= 100
      <3>1. Stopped(hits, k, b.best)
        BY <1>2, <1>6, <2>9, <2>10, <2>11, <2>12 DEF Stopped
      <3>2. c.stop = TRUE
        BY <2>6, <2>12
      <3> QED BY <1>4, <2>1, <2>3, <2>6, <2>7, <3>1, <3>2 DEF Scored
    <2>13. CASE ~(b.max >= 100)
      <3>1. \A i \in 1 .. k : ~Sure(hits, i)
        BY <1>2, <1>6, <2>10, <2>11, <2>13
      <3>2. c.stop = FALSE
        <4>1. (b.max >= 100) = FALSE
          BY <2>13
        <4> QED BY <2>6, <4>1, Zenon
      <3>3. \A h \in H : c.scores[h] <= c.max /\ c.scores[h] = ScoreAfter(hits, k, h)
        BY <2>4, <2>6, <2>7
      <3> QED BY <1>4, <2>1, <2>3, <2>6, <2>7, <3>1, <3>2, <3>3 DEF Scored
    <2> QED BY <2>12, <2>13
  <1> QED BY <1>2, <1>5, <1>6

\* What the search returns for the data of an inode.
LEMMA EstimateFacts ==
    ASSUME NEW data \in Buffers
    PROVE  Scored(Hits(data), Len(Hits(data)), EstimateType(BuildIndex(Words), data))
  <1> DEFINE hits == Hits(data)
             n == Len(hits)
  <1>1. hits \in Seq(ToSet(hits)) /\ IsInjective(hits)
        /\ \A hit \in ToSet(hits) : hit.id \in DOMAIN Rules
    BY IndexAssumption
  <1>2. EstimateType(BuildIndex(Words), data) = ScoreHits(hits)
    BY DEF EstimateType, Hits
  <1> HIDE DEF hits
  <1>3. /\ n \in Nat /\ (\A i, j \in 1 .. n : hits[i] = hits[j] => i = j)
        /\ \A i \in 1 .. n : hits[i].id \in DOMAIN Rules
    <2>1. n \in Nat /\ DOMAIN hits = 1 .. n /\ \A i \in 1 .. n : hits[i] \in ToSet(hits)
      BY <1>1, ToSetFacts
    <2> QED BY <1>1, <2>1 DEF IsInjective
  <1>4. Scored(hits, 0, Rated)
    <2>1. /\ DOMAIN Rated = MagicFields
          /\ Rated.max \in Nat /\ Rated.scores = Initial /\ Rated.stop = FALSE
          /\ \A i \in 1 .. Len(Handlers) : Initial[Handlers[i]] <= Rated.max
          /\ (Rated.max = 0 \/ (Rated.best \in H /\ Rated.max = Initial[Rated.best]))
      BY RatedFacts DEF Rates
    <2>2. Initial \in [H -> Nat] /\ Score \in [H -> Nat] /\ \E h \in H : Initial[h] > 0
      BY MagicAssumption DEF H
    <2>3. H = {Handlers[i] : i \in 1 .. Len(Handlers)}
      BY MagicAssumption, ToSetFacts DEF H
    <2>4. \A h \in H : Initial[h] <= Rated.max
      BY <2>1, <2>3
    <2>5. Rated.max # 0
      BY <2>1, <2>2, <2>4
    <2>6. \A h \in H : ScoreAfter(hits, 0, h) = Initial[h]
      <3>1. \A h \in H : SoFar(hits, 0, h) = {}
        BY DEF SoFar
      <3>2. \A h \in H : Score[h] * 0 = 0 /\ Initial[h] \in Nat
        BY <2>2
      <3> QED BY <3>1, <3>2, FS_EmptySet DEF ScoreAfter
    <2>7. \A h \in H : Initial[h] \in Nat
      BY <2>2
    <2>8. \A h \in H : Rated.scores[h] <= Rated.max /\ Rated.scores[h] = ScoreAfter(hits, 0, h)
      BY <2>1, <2>4, <2>6, <2>7
    <2>9. /\ DOMAIN Rated = MagicFields /\ Rated.best \in H /\ Rated.scores \in [H -> Nat]
          /\ Rated.stop = FALSE /\ Rated.max = Rated.scores[Rated.best]
      BY <2>1, <2>2, <2>5
    <2>10. \A i \in 1 .. 0 : ~Sure(hits, i)
      OBVIOUS
    <2> QED BY <2>8, <2>9, <2>10 DEF Scored
  <1>5. \A k \in 1 .. n : \A m : Scored(hits, k - 1, m) => Scored(hits, k, HitStep(m, k, hits))
    BY <1>3, HitKeeps
  <1>6. ScoreHits(hits) = Hitting!Iterate(hits, Rated, n)
    BY DEF ScoreHits, Hitting!Iterate, HitStep
  <1>7. Scored(hits, n, ScoreHits(hits))
    BY <1>3, <1>4, <1>5, <1>6, Hitting!IterateHolds
  <1> QED BY <1>2, <1>7 DEF hits

MagicInv ==
    /\ indexer \in {None, BuildIndex(Words)}
    /\ scan.pc \in {"magic", "typed"} => scan.data \in Buffers
    /\ scan.pc = "typed" => scan.type = EstimateType(BuildIndex(Words), scan.data).best

LEMMA MagicStep ==
    ASSUME ScanInv, MagicInv, [Next]_vars
    PROVE  MagicInv'
  <1>0. DOMAIN scan = ScanFields
    BY DEF ScanInv, Phases
  <1>1. CASE UNCHANGED vars
    BY <1>1 DEF vars, MagicInv
  <1>2. ASSUME NEW data \in Buffers, NEW names \in Requests, Begin(data, names) PROVE MagicInv'
    <2>1. scan'.pc = "magic" /\ scan'.data = data /\ indexer' = indexer
      BY <1>2 DEF Begin, NoScan
    <2> QED BY <2>1 DEF MagicInv
  <1>3. CASE FindMagic
    <2>1. indexer' = BuildIndex(Words)
      BY <1>3 DEF FindMagic, MagicInv
    <2> DEFINE best == EstimateType(indexer', scan.data).best
    <2>2. scan' = [scan EXCEPT !.pc = "typed", !.type = best] /\ scan.data \in Buffers
      BY <1>3 DEF FindMagic, MagicInv
    <2>3. best = EstimateType(BuildIndex(Words), scan.data).best
      BY <2>1
    <2> HIDE DEF best
    <2>4. scan'.pc = "typed" /\ scan'.type = best /\ scan'.data = scan.data
      BY <1>0, <2>2 DEF ScanFields
    <2> QED BY <2>1, <2>2, <2>3, <2>4 DEF MagicInv
  <1>4. CASE GetFactories
    <2> DEFINE list == FillInDependancies(scan.asked)
    <2>1. scan' = [scan EXCEPT !.pc = "prepare", !.data = <<>>, !.names = list] /\ indexer' = indexer
      BY <1>4 DEF GetFactories
    <2> HIDE DEF list
    <2>2. scan'.pc = "prepare"
      BY <1>0, <2>1 DEF ScanFields
    <2> QED BY <2>1, <2>2 DEF MagicInv
  <1>5. CASE Prepare
    <2>1. scan'.pc = "prepare" /\ indexer' = indexer
      BY <1>0, <1>5 DEF Prepare, ScanFields
    <2> QED BY <2>1 DEF MagicInv
  <1>6. CASE Run
    <2>1. scan'.pc = "prepare" /\ indexer' = indexer
      BY <1>0, <1>6 DEF Run, ScanFields
    <2> QED BY <2>1 DEF MagicInv
  <1>7. CASE Finish
    <2>1. scan'.pc = "idle" /\ indexer' = indexer
      BY <1>7 DEF Finish, NoScan
    <2> QED BY <2>1 DEF MagicInv
  <1> QED BY <1>1, <1>2, <1>3, <1>4, <1>5, <1>6, <1>7 DEF Next

(* The type of an inode is that of the handler the hits first bring to a   *)
(* score of 100, or, if they bring none there, of a handler with the       *)
(* highest score: though the search ends early and the best is looked for  *)
(* only among the last best and the handler of the hit (estimate_type).    *)
THEOREM MagicCorrect == Spec => []BestTypeWins
  <1>1. Init => MagicInv
    BY DEF Init, NoScan, MagicInv
  <1>2. MagicInv => BestTypeWins
    <2> DEFINE hits == Hits(scan.data)
               n == Len(hits)
               m == EstimateType(BuildIndex(Words), scan.data)
    <2> SUFFICES ASSUME MagicInv, scan.pc = "typed"
                 PROVE  \E k \in 0 .. n : Ends(hits, k) /\ Highest(hits, k, scan.type)
      BY DEF BestTypeWins, Highest, H
    <2>1. Scored(hits, n, m) /\ scan.type = m.best /\ scan.data \in Buffers
      BY EstimateFacts DEF MagicInv
    <2>2. n \in Nat
      BY <2>1, IndexAssumption, ToSetFacts
    <2> HIDE DEF hits, m
    <2>3. /\ m.best \in H /\ m.scores \in [H -> Nat] /\ m.max = m.scores[m.best]
          /\ m.stop => Stopped(hits, n, m.best)
          /\ ~m.stop => /\ \A h \in H : m.scores[h] <= m.max /\ m.scores[h] = ScoreAfter(hits, n, h)
                        /\ \A i \in 1 .. n : ~Sure(hits, i)
      BY <2>1 DEF Scored
    <2>4. CASE m.stop
      <3> HIDE DEF n
      <3>1. PICK j \in 1 .. n : Sure(hits, j) /\ (\A i \in 1 .. j - 1 : ~Sure(hits, i))
                                /\ Highest(hits, j, m.best)
        BY <2>3, <2>4 DEF Stopped
      <3>2. j \in 0 .. n /\ j > 0
        BY <2>2
      <3> QED BY <2>1, <3>1, <3>2 DEF Ends
    <2>5. CASE ~m.stop
      <3>1. Highest(hits, n, m.best)
        BY <2>3, <2>5 DEF Highest
      <3>2. n \in 0 .. n /\ \A i \in 1 .. n - 1 : i \in 1 .. n
        <4> HIDE DEF n
        <4> QED BY <2>2
      <3>3. Ends(hits, n)
        BY <2>3, <2>5, <3>2 DEF Ends
      <3> QED BY <2>1, <3>1, <3>2, <3>3
    <2> QED BY <2>4, <2>5
  <1> QED BY <1>1, <1>2, MagicStep, ScanInductive, PTL DEF Spec
=============================================================================
