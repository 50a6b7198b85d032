--------------------------- MODULE DBHandleProof ---------------------------
(***************************************************************************)
(* Proofs about DBHandle, for any number of threads, cases and pools: type *)
(* correctness; no connection is ever in two places; a row is stored twice *)
(* only after a lost connection; no row is forgotten.                      *)
(***************************************************************************)
EXTENDS DBHandle, FiniteSetTheorems, SequenceTheorems, WellFoundedInduction, TLAPS

-----------------------------------------------------------------------------
(* The inductive invariant.                                                 *)

\* What a handle may hold at each place of its thread.
Phase(h) ==
    /\ h.pc # "idle" => h.case \in Cases
    /\ h.pc = "idle" => h.dbh = 0
    /\ h.pc \in {"look", "take"} => h.pool # 0
    /\ h.again => h.pc \notin {"idle", "held", "back"} /\ h.dbh # 0
    /\ h.pc # "send" /\ ~h.again => h.stmt = <<>> /\ ~h.bulk
    /\ h.pc \notin {"held", "send"} /\ ~h.again => h.buf = <<>>
    /\ h.bulk => h.stmt = h.buf
    /\ ~h.bulk => ToSet(h.stmt) \cap ToSet(h.buf) = {}
    /\ h.then = "back" /\ h.pc # "back" => h.bulk

Phases == \A t \in Threads : Phase(th[t])

\* The connections in the handles and in the pools are all different.
Apart ==
    /\ \A t, u \in Threads : t # u /\ th[t].dbh # 0 => th[t].dbh # th[u].dbh
    /\ \A t \in Threads, p \in DOMAIN pools : \A k \in DOMAIN pools[p] : pools[p][k] # th[t].dbh
    /\ \A p, q \in DOMAIN pools : \A k \in DOMAIN pools[p], l \in DOMAIN pools[q] :
          pools[p][k] = pools[q][l] => p = q /\ k = l

\* The rows a handle still has in hand.
InHand(h) == ToSet(h.buf) \cup ToSet(h.stmt)

\* A row is in one hand at most, and what is in a hand is not ahead of its losses.
RowsOwned ==
    /\ \A t, u \in Threads : t # u => InHand(th[t]) \cap InHand(th[u]) = {}
    /\ \A t \in Threads : \A r \in InHand(th[t]) : rows[r].copies <= rows[r].lost
    /\ \A r \in DOMAIN rows : rows[r].copies <= 1 + rows[r].lost

\* A row that nothing has happened to is in a hand.
RowsHeld == \A r \in DOMAIN rows : rows[r].fate = "given" => \E t \in Threads : r \in InHand(th[t])

-----------------------------------------------------------------------------
(* Sequences and the store.                                                 *)

\* A function on the positions of a sequence is a sequence.
LEMMA FunctionIsSeq ==
    ASSUME NEW n \in Nat, NEW T, NEW g \in [1 .. n -> T]
    PROVE  g \in Seq(T) /\ Len(g) = n /\ DOMAIN g = 1 .. n
<1>1. g \in Seq(T)
  BY SeqDef
<1>2. DOMAIN g = 1 .. n /\ DOMAIN g = 1 .. Len(g) /\ Len(g) \in Nat
  BY <1>1, LenProperties
<1> QED
  BY <1>1, <1>2

\* The elements of a sequence are the values at its positions.
LEMMA ToSetFacts ==
    ASSUME NEW S, NEW s \in Seq(S)
    PROVE  /\ ToSet(s) \subseteq S
           /\ (ToSet(s) = {} <=> s = <<>>)
           /\ \A e \in S : ToSet(Append(s, e)) = ToSet(s) \cup {e}
           /\ DOMAIN s = 1 .. Len(s) /\ Len(s) \in Nat
<1>1. DOMAIN s = 1 .. Len(s) /\ Len(s) \in Nat /\ \A i \in 1 .. Len(s) : s[i] \in S
  BY LenProperties, ElementOfSeq
<1>2. ToSet(s) \subseteq S
  BY <1>1 DEF ToSet
<1>3. ToSet(s) = {} <=> s = <<>>
  <2>1. s # <<>> => 1 \in DOMAIN s
    BY <1>1, EmptySeq
  <2>2. ToSet(<<>>) = {}
    BY DEF ToSet
  <2> QED
    BY <2>1, <2>2 DEF ToSet
<1>4. ASSUME NEW e \in S PROVE ToSet(Append(s, e)) = ToSet(s) \cup {e}
  <2>1. /\ Append(s, e) \in Seq(S) /\ Len(Append(s, e)) = Len(s) + 1
        /\ DOMAIN Append(s, e) = 1 .. Len(s) + 1
        /\ \A i \in 1 .. Len(s) : Append(s, e)[i] = s[i]
        /\ Append(s, e)[Len(s) + 1] = e
    BY <1>1, <1>4, AppendProperties, LenProperties
  <2>2. \A i \in 1 .. Len(s) + 1 : i \in 1 .. Len(s) \/ i = Len(s) + 1
    BY <1>1
  <2>3. \A i \in 1 .. Len(s) : i \in 1 .. Len(s) + 1
    BY <1>1
  <2>4. Len(s) + 1 \in 1 .. Len(s) + 1
    BY <1>1
  <2>5. ToSet(Append(s, e)) \subseteq ToSet(s) \cup {e}
    BY <1>1, <2>1, <2>2 DEF ToSet
  <2>6. ToSet(s) \cup {e} \subseteq ToSet(Append(s, e))
    BY <1>1, <2>1, <2>3, <2>4 DEF ToSet
  <2> QED
    BY <2>5, <2>6
<1> QED
  BY <1>1, <1>2, <1>3, <1>4

\* The elements of a concatenation are those of its parts.
LEMMA ToSetConcat ==
    ASSUME NEW S, NEW s \in Seq(S), NEW u \in Seq(S)
    PROVE  ToSet(s \o u) = ToSet(s) \cup ToSet(u)
<1>1. \A v \in Seq(S) : ToSet(v) = Range(v)
  BY DEF ToSet, Range
<1>2. s \o u \in Seq(S) /\ Range(s \o u) = Range(s) \cup Range(u)
  BY ConcatProperties, RangeConcatenation
<1> QED
  BY <1>1, <1>2

\* The entry that get finds has the key.
LEMMA FindFacts ==
    ASSUME NEW S, NEW s \in Seq(S), NEW k, HasKey(s, k)
    PROVE  Find(s, k) \in DOMAIN s /\ s[Find(s, k)].key = k
<1> DEFINE Less == OpToRel(<, Nat)
           T == {i \in DOMAIN s : s[i].key = k}
<1>1. T \subseteq Nat /\ T # {}
  BY LenProperties DEF HasKey
<1>2. PICK i \in T : \A j \in T : <<j, i>> \notin Less
  BY <1>1, WFMin, NatLessThanWellFounded
<1>3. \A j \in T : ~(j < i)
  BY <1>1, <1>2 DEF OpToRel
<1>4. \A j \in T : i <= j
  BY <1>1, <1>3
<1>5. Min(T) \in T
  BY <1>4 DEF Min
<1> QED
  BY <1>5 DEF Find

\* check_full takes entries away and adds none.
LEMMA CheckFullFacts ==
    ASSUME NEW S, NEW s \in Seq(S), NEW size \in Nat, NEW old \in Nat
    PROVE  CheckFull(s, size, old) \in Seq(S)
<1> DEFINE m == Max({Len(s) - size, old, 0})
<1>1. Len(s) \in Nat
  BY LenProperties
<1>2. \E x \in {Len(s) - size, old, 0} : \A y \in {Len(s) - size, old, 0} : x >= y
  BY <1>1
<1>3. m \in {Len(s) - size, old, 0} /\ \A y \in {Len(s) - size, old, 0} : m >= y
  BY <1>2 DEF Max
<1>4. m \in Nat
  BY <1>1, <1>3
<1> HIDE DEF m
<1>5. \A i \in m + 1 .. Len(s) : s[i] \in S
  BY <1>1, <1>4, ElementOfSeq
<1>6. SubSeq(s, m + 1, Len(s)) \in Seq(S)
  BY <1>1, <1>4, <1>5, SubSeqProperties
<1> QED
  BY <1>6 DEF CheckFull, m

\* put and get leave a store of the entries there were, and the one put.
LEMMA StoreFacts ==
    ASSUME NEW S, NEW s \in Seq(S), NEW size \in Nat, NEW old \in Nat, NEW k
    PROVE  /\ HasKey(s, k) => StoreGet(s, size, old, k) \in Seq(S)
           /\ \A o : Entry(k, o) \in S => StorePut(s, size, old, k, o) \in Seq(S)
<1>1. ASSUME HasKey(s, k) PROVE StoreGet(s, size, old, k) \in Seq(S)
  <2> DEFINE i == Find(s, k)
  <2>1. i \in 1 .. Len(s) /\ Len(s) \in Nat /\ s[i] \in S
    BY <1>1, FindFacts, LenProperties, ElementOfSeq
  <2> HIDE DEF i
  <2>2. \A j \in 1 .. i - 1 : s[j] \in S
    BY <2>1, ElementOfSeq
  <2>3. \A j \in i + 1 .. Len(s) : s[j] \in S
    BY <2>1, ElementOfSeq
  <2>4. SubSeq(s, 1, i - 1) \in Seq(S)
    BY <2>1, <2>2, SubSeqProperties
  <2>5. SubSeq(s, i + 1, Len(s)) \in Seq(S)
    BY <2>1, <2>3, SubSeqProperties
  <2>6. RemoveAt(s, i) \in Seq(S)
    BY <2>4, <2>5, ConcatProperties DEF RemoveAt
  <2>7. Append(RemoveAt(s, i), s[i]) \in Seq(S)
    BY <2>1, <2>6, AppendProperties
  <2> QED
    BY <2>7, CheckFullFacts DEF StoreGet, i
<1>2. ASSUME NEW o, Entry(k, o) \in S PROVE StorePut(s, size, old, k, o) \in Seq(S)
  BY <1>2, CheckFullFacts, AppendProperties DEF StorePut
<1> QED
  BY <1>1, <1>2

-----------------------------------------------------------------------------
(* Types and places.                                                        *)

Base == TypeOK /\ Phases

\* The types of what the threads share, and of the rows.
SharedOK ==
    /\ kind \in Kinds
    /\ store \in Seq([key : Cases, obj : DOMAIN pools])
    /\ pools \in Seq(Seq(DOMAIN conns))
    /\ args \in Cases \cup {None}
    /\ conns \in Seq([case : Cases, up : BOOLEAN])
    /\ rows \in Seq(RowType)
    /\ handles \in 0 .. MaxHandles /\ faults \in 0 .. MaxFaults

\* Nothing the handles refer to goes away.
Grows ==
    /\ DOMAIN pools \subseteq DOMAIN pools'
    /\ DOMAIN conns \subseteq DOMAIN conns'
    /\ DOMAIN rows \subseteq DOMAIN rows'

InUse == {"held", "send", "back"}

\* The handles that a step leaves alone stay well typed.
LEMMA HandleGrows ==
    ASSUME Grows PROVE HandleType \subseteq HandleType'
<1> SUFFICES ASSUME NEW h \in HandleType PROVE h \in HandleType'
  OBVIOUS
<1>1. h.buf \in Seq(DOMAIN rows') /\ h.stmt \in Seq(DOMAIN rows')
  BY SeqMonotonic DEF Grows, HandleType
<1>2. h.pool \in {0} \cup DOMAIN pools' /\ h.dbh \in {0} \cup DOMAIN conns'
  BY DEF Grows, HandleType
<1> QED
  BY <1>1, <1>2 DEF HandleType

\* A step of thread t that gives its handle a well typed value.
LEMMA BaseStep ==
    ASSUME Base, SharedOK', Grows, NEW t \in Threads, NEW R,
           th' = [th EXCEPT ![t] = R],
           R \in HandleType', Phase(R), R.pc \in InUse => R.dbh # 0
    PROVE  Base'
<1>1. DOMAIN th = Threads /\ th'[t] = R /\ \A u \in Threads : u # t => th'[u] = th[u]
  BY DEF Base, TypeOK
<1>2. th' \in [Threads -> HandleType']
  BY HandleGrows DEF Base, TypeOK
<1>3. Phases'
  BY <1>1 DEF Base, Phases
<1>4. \A u \in Threads : th'[u].pc \in {"held", "send", "back"} => th'[u].dbh # 0
  BY <1>1 DEF Base, TypeOK, InUse
<1>5. TypeOK'
  BY <1>2, <1>4 DEF SharedOK, TypeOK
<1> QED
  BY <1>3, <1>5 DEF Base

\* What the threads share is well typed.
LEMMA BaseShared ==
    ASSUME Base
    PROVE  /\ SharedOK
           /\ th \in [Threads -> HandleType]
           /\ DOMAIN pools = 1 .. Len(pools) /\ Len(pools) \in Nat
           /\ DOMAIN conns = 1 .. Len(conns) /\ Len(conns) \in Nat
           /\ DOMAIN rows = 1 .. Len(rows) /\ Len(rows) \in Nat
           /\ \A t \in Threads : Phase(th[t]) /\ (th[t].pc \in InUse => th[t].dbh # 0)
<1>1. SharedOK /\ th \in [Threads -> HandleType]
  BY DEF Base, TypeOK, SharedOK
<1>2. /\ DOMAIN pools = 1 .. Len(pools) /\ Len(pools) \in Nat
      /\ DOMAIN conns = 1 .. Len(conns) /\ Len(conns) \in Nat
      /\ DOMAIN rows = 1 .. Len(rows) /\ Len(rows) \in Nat
  BY <1>1, LenProperties DEF SharedOK
<1>3. \A t \in Threads : Phase(th[t]) /\ (th[t].pc \in InUse => th[t].dbh # 0)
  BY DEF Base, TypeOK, Phases, InUse
<1> QED
  BY <1>1, <1>2, <1>3

\* The pool the store has for a case is a pool.
LEMMA FoundPool ==
    ASSUME SharedOK, NEW k, HasKey(store, k)
    PROVE  store[Find(store, k)].obj \in DOMAIN pools
<1>1. Find(store, k) \in 1 .. Len(store)
  BY FindFacts, LenProperties DEF SharedOK
<1>2. store[Find(store, k)] \in [key : Cases, obj : DOMAIN pools]
  BY <1>1, ElementOfSeq DEF SharedOK
<1> QED
  BY <1>2

\* A handle that is not there.
LEMMA NoHandleFacts ==
    /\ NoHandle \in HandleType' /\ NoHandle \in HandleType
    /\ Phase(NoHandle) /\ NoHandle.pc = "idle" /\ NoHandle.dbh = 0 /\ NoHandle.pool = 0
    /\ NoHandle.buf = <<>> /\ NoHandle.stmt = <<>>
<1>1. PICK no \in BOOLEAN : no = FALSE
  OBVIOUS
<1>2. NoHandle = [pc |-> "idle", case |-> None, pool |-> 0, dbh |-> 0,
                  buf |-> <<>>, stmt |-> <<>>, bulk |-> no, then |-> "held", again |-> no]
  BY <1>1, Zenon DEF NoHandle
<1>3. NoHandle \in HandleType' /\ NoHandle \in HandleType
  <2>1. <<>> \in Seq(DOMAIN rows) /\ <<>> \in Seq(DOMAIN rows')
    BY EmptySeq
  <2> QED
    BY <1>2, <2>1 DEF HandleType
<1>4. /\ NoHandle.pc = "idle" /\ NoHandle.dbh = 0 /\ NoHandle.pool = 0 /\ NoHandle.then = "held"
      /\ NoHandle.buf = <<>> /\ NoHandle.stmt = <<>> /\ NoHandle.bulk = no /\ NoHandle.again = no
  BY <1>2
<1>5. ToSet(<<>>) = {}
  BY DEF ToSet
<1>6. Phase(NoHandle)
  BY <1>1, <1>4, <1>5 DEF Phase
<1> QED
  BY <1>3, <1>4, <1>6

\* A row that is lost or stored once more is a row.
LEMMA RowFields ==
    ASSUME NEW q \in RowType, NEW c \in Cases
    PROVE  /\ [q EXCEPT !.lost = @ + 1] \in RowType
           /\ [q EXCEPT !.copies = @ + 1, !.fate = "stored", !.at = @ \cup {c}] \in RowType
<1>1. q.lost + 1 \in Nat /\ q.copies + 1 \in Nat /\ q.at \cup {c} \in SUBSET Cases
  BY DEF RowType
<1>2. [q EXCEPT !.lost = q.lost + 1] \in RowType
  BY <1>1 DEF RowType
<1>3. [q EXCEPT !.copies = q.copies + 1] \in RowType
  BY <1>1 DEF RowType
<1>4. [q EXCEPT !.copies = q.copies + 1, !.fate = "stored"] \in RowType
  BY <1>1 DEF RowType
<1>5. [q EXCEPT !.copies = q.copies + 1, !.fate = "stored", !.at = q.at \cup {c}] \in RowType
  BY <1>1 DEF RowType
<1> QED
  BY <1>2, <1>5

\* What happens to rows leaves a row a row.
LEMMA RowChanges ==
    ASSUME Base, NEW t \in Threads, NEW Q \in Seq(RowType), DOMAIN Q = DOMAIN rows
    PROVE  /\ RowsAfterError(t) \in Seq(RowType) /\ DOMAIN RowsAfterError(t) = DOMAIN rows
           /\ CountLoss(t, Q) \in Seq(RowType) /\ DOMAIN CountLoss(t, Q) = DOMAIN rows
           /\ th[t].dbh # 0 => Stored(t, Q) \in Seq(RowType) /\ DOMAIN Stored(t, Q) = DOMAIN rows
<1>0. /\ DOMAIN rows = 1 .. Len(rows) /\ Len(rows) \in Nat
      /\ rows \in [1 .. Len(rows) -> RowType] /\ Q \in [1 .. Len(rows) -> RowType]
  <2>1. SharedOK /\ DOMAIN rows = 1 .. Len(rows) /\ Len(rows) \in Nat
    BY BaseShared
  <2>2. rows \in [1 .. Len(rows) -> RowType] /\ Q \in [1 .. Len(Q) -> RowType] /\ DOMAIN Q = 1 .. Len(Q)
    BY <2>1, LenProperties DEF SharedOK
  <2> QED
    BY <2>1, <2>2
<1>1. RowsAfterError(t) \in [1 .. Len(rows) -> RowType]
  BY <1>0 DEF RowsAfterError, RowType
<1>2. CountLoss(t, Q) \in [1 .. Len(rows) -> RowType]
  <2> SUFFICES ASSUME NEW r \in 1 .. Len(rows) PROVE [Q[r] EXCEPT !.lost = @ + 1] \in RowType
    BY <1>0 DEF CountLoss
  <2>1. Q[r] \in RowType /\ rows[r].case \in Cases
    BY <1>0 DEF RowType
  <2> QED
    BY <2>1, RowFields
<1>3. ASSUME th[t].dbh # 0 PROVE Stored(t, Q) \in [1 .. Len(rows) -> RowType]
  <2>1. SharedOK /\ th[t] \in HandleType
    BY BaseShared
  <2>2. th[t].dbh \in DOMAIN conns
    BY <1>3, <2>1 DEF HandleType
  <2>3. conns[th[t].dbh].case \in Cases
    <3>1. conns \in [DOMAIN conns -> [case : Cases, up : BOOLEAN]]
      BY <2>1, LenProperties DEF SharedOK
    <3> QED
      BY <2>2, <3>1
  <2>4. \A r \in 1 .. Len(rows) : [Q[r] EXCEPT !.copies = @ + 1, !.fate = "stored",
                                               !.at = @ \cup {conns[th[t].dbh].case}] \in RowType
    BY <1>0, <2>3, RowFields
  <2> QED
    BY <1>0, <2>4 DEF Stored
<1> QED
  BY <1>0, <1>1, <1>2, <1>3, FunctionIsSeq

\* A new row is the last one.
LEMMA NewRowFacts ==
    ASSUME Base, NEW t \in Threads, th[t].case \in Cases
    PROVE  /\ NewRow(t) \in Seq(RowType)
           /\ DOMAIN NewRow(t) = 1 .. Len(rows) + 1 /\ Len(rows) \in Nat
           /\ \A r \in DOMAIN rows : NewRow(t)[r] = rows[r]
           /\ NewRow(t)[Len(rows) + 1].copies = 0 /\ NewRow(t)[Len(rows) + 1].lost = 0
<1> DEFINE new == [case |-> th[t].case, at |-> {}, copies |-> 0, lost |-> 0, fate |-> "given"]
<1>1. new \in RowType /\ new.copies = 0 /\ new.lost = 0
  BY DEF RowType
<1> HIDE DEF new
<1>2. rows \in Seq(RowType) /\ DOMAIN rows = 1 .. Len(rows) /\ Len(rows) \in Nat
  BY BaseShared DEF SharedOK
<1>3. /\ Append(rows, new) \in Seq(RowType) /\ Len(Append(rows, new)) = Len(rows) + 1
      /\ \A i \in 1 .. Len(rows) : Append(rows, new)[i] = rows[i]
      /\ Append(rows, new)[Len(rows) + 1] = new
  BY <1>1, <1>2, AppendProperties
<1>4. NewRow(t) = Append(rows, new)
  BY DEF NewRow, new
<1>5. DOMAIN Append(rows, new) = 1 .. Len(rows) + 1
  BY <1>3, LenProperties
<1> QED
  BY <1>1, <1>2, <1>3, <1>4, <1>5

\* After an error the handle is gone, or held with its buffer as it was.
LEMMA AfterErrorFacts ==
    ASSUME Base, Grows, NEW t \in Threads, th[t].dbh # 0, th[t].pc # "idle", th' = AfterError(t)
    PROVE  \E R : /\ th' = [th EXCEPT ![t] = R]
                  /\ R \in HandleType' /\ Phase(R) /\ (R.pc \in InUse => R.dbh # 0)
                  /\ R.stmt = <<>>
                  /\ \/ R.dbh = 0 /\ R.buf = <<>> /\ th[t].then = "back"
                     \/ R.dbh = th[t].dbh /\ R.buf = th[t].buf /\ th[t].then = "held"
<1>0. /\ th[t] \in HandleType /\ th[t] \in HandleType' /\ DOMAIN th = Threads /\ Phase(th[t])
  BY BaseShared, HandleGrows
<1>1. CASE th[t].then = "held"
  <2>1. PICK no \in BOOLEAN : no = FALSE
    OBVIOUS
  <2> DEFINE R == [th[t] EXCEPT !.pc = "held", !.stmt = <<>>, !.bulk = no, !.again = no]
  <2>2. th' = [th EXCEPT ![t] = R]
    BY <1>1, <2>1, Zenon DEF AfterError
  <2>3. R \in HandleType'
    <3>1. <<>> \in Seq(DOMAIN rows')
      BY EmptySeq
    <3> QED
      BY <1>0, <2>1, <3>1 DEF HandleType
  <2>4. /\ R.pc = "held" /\ R.case = th[t].case /\ R.dbh = th[t].dbh /\ R.pool = th[t].pool
        /\ R.buf = th[t].buf /\ R.stmt = <<>> /\ R.bulk = no
        /\ R.then = th[t].then /\ R.again = no
    BY <1>0 DEF HandleType
  <2> HIDE DEF R
  <2>5. ToSet(<<>>) = {}
    BY DEF ToSet
  <2>6. Phase(R)
    BY <1>0, <1>1, <2>1, <2>4, <2>5 DEF Phase
  <2> QED
    BY <1>1, <2>2, <2>3, <2>4, <2>6
<1>2. CASE th[t].then # "held"
  <2>1. th' = [th EXCEPT ![t] = NoHandle]
    BY <1>2, Zenon DEF AfterError
  <2>2. NoHandle.pc \notin InUse
    BY NoHandleFacts DEF InUse
  <2>3. th[t].then = "back"
    BY <1>0, <1>2 DEF HandleType
  <2> QED
    BY <2>1, <2>2, <2>3, NoHandleFacts
<1> QED
  BY <1>1, <1>2

\* A connection got is the handle's, which goes on or sends again.
LEMMA GotFacts ==
    ASSUME Base, Grows, NEW t \in Threads, NEW c \in DOMAIN conns', c # 0,
           th[t].pc \in {"take", "open"}, th' = Got(t, c)
    PROVE  \E R : /\ th' = [th EXCEPT ![t] = R]
                  /\ R \in HandleType' /\ Phase(R) /\ R.dbh = c
                  /\ R.buf = th[t].buf /\ R.stmt = th[t].stmt
<1>0. /\ th[t] \in HandleType /\ th[t] \in HandleType' /\ DOMAIN th = Threads /\ Phase(th[t])
  BY BaseShared, HandleGrows
<1> DEFINE pc == IF th[t].again THEN "send" ELSE "held"
           R == [th[t] EXCEPT !.dbh = c, !.pool = 0, !.pc = pc]
<1>1. th' = [th EXCEPT ![t] = R]
  BY <1>0 DEF Got
<1>2. pc \in {"send", "held"}
  OBVIOUS
<1>3. (pc = "send" /\ th[t].again) \/ (pc = "held" /\ ~th[t].again)
  BY Zenon
<1> HIDE DEF pc
<1>4. R \in HandleType'
  BY <1>0, <1>2 DEF HandleType
<1>5. /\ R.pc = pc /\ R.case = th[t].case /\ R.dbh = c
      /\ R.buf = th[t].buf /\ R.stmt = th[t].stmt /\ R.bulk = th[t].bulk
      /\ R.then = th[t].then /\ R.again = th[t].again
  BY <1>0 DEF HandleType
<1> HIDE DEF R
<1>6. Phase(R)
  BY <1>0, <1>2, <1>3, <1>5 DEF Phase
<1> QED
  BY <1>1, <1>4, <1>5, <1>6

\* Making a handle and getting a connection for one keeps types and places.
LEMMA BaseObtain ==
    ASSUME Base, NEW t \in Threads, Obtain(t) \/ \E c \in Cases : New(t, c)
    PROVE  Base'
<1>0. /\ SharedOK /\ th[t] \in HandleType /\ DOMAIN th = Threads
      /\ Phase(th[t]) /\ (th[t].pc \in InUse => th[t].dbh # 0)
      /\ DOMAIN pools = 1 .. Len(pools) /\ Len(pools) \in Nat
      /\ DOMAIN conns = 1 .. Len(conns) /\ Len(conns) \in Nat
  BY BaseShared
<1>1. ASSUME NEW c \in Cases, New(t, c) PROVE Base'
  <2> DEFINE R == [NoHandle EXCEPT !.pc = FirstStep, !.case = c]
  <2>1. /\ th' = [th EXCEPT ![t] = R] /\ handles < MaxHandles /\ handles' = handles + 1
        /\ UNCHANGED <<shared, rows, faults>>
    BY <1>1 DEF New
  <2>2. FirstStep \in {"find", "connect"}
    BY DEF FirstStep
  <2>3. /\ R.pc = FirstStep /\ R.case = c /\ R.dbh = NoHandle.dbh /\ R.pool = NoHandle.pool
        /\ R.buf = NoHandle.buf /\ R.stmt = NoHandle.stmt /\ R.bulk = NoHandle.bulk
        /\ R.then = NoHandle.then /\ R.again = NoHandle.again
    BY NoHandleFacts DEF HandleType
  <2>4. R \in HandleType'
    BY <2>2, NoHandleFacts DEF HandleType
  <2> HIDE DEF R
  <2>5. Phase(R) /\ R.pc \notin InUse
    BY <2>2, <2>3, NoHandleFacts DEF Phase, InUse
  <2>6. SharedOK' /\ Grows
    BY <1>0, <2>1, HandleAssumption DEF SharedOK, Grows, shared
  <2> QED
    BY <2>1, <2>4, <2>5, <2>6, BaseStep
<1>2. CASE SetArgs(t)
  <2> DEFINE R == [th[t] EXCEPT !.pc = "open"]
  <2>1. /\ th' = [th EXCEPT ![t] = R] /\ args' = th[t].case /\ th[t].pc = "connect"
        /\ UNCHANGED <<kind, store, pools, conns, rows, handles, faults>>
    BY <1>0, <1>2 DEF SetArgs, Go, At
  <2>2. /\ R.pc = "open" /\ R.case = th[t].case /\ R.dbh = th[t].dbh /\ R.pool = th[t].pool
        /\ R.buf = th[t].buf /\ R.stmt = th[t].stmt /\ R.bulk = th[t].bulk
        /\ R.then = th[t].then /\ R.again = th[t].again
    BY <1>0 DEF HandleType
  <2>3. R \in HandleType'
    BY <1>0, <2>1 DEF HandleType
  <2> HIDE DEF R
  <2>4. Phase(R) /\ R.pc \notin InUse
    BY <1>0, <2>1, <2>2 DEF Phase, InUse
  <2>5. SharedOK' /\ Grows
    BY <1>0, <2>1 DEF SharedOK, Grows, Phase
  <2> QED
    BY <2>1, <2>3, <2>4, <2>5, BaseStep
<1>3. CASE FindPool(t)
  <2>1. CASE HasKey(store, th[t].case)
    <3> DEFINE p == store[Find(store, th[t].case)].obj
               R == [th[t] EXCEPT !.pc = "look", !.pool = p]
    <3>1. /\ th' = [th EXCEPT ![t] = R] /\ th[t].pc = "find"
          /\ UNCHANGED <<kind, pools, args, conns, rows, handles, faults>>
      BY <1>0, <1>3, <2>1 DEF FindPool, At
    <3>2. PICK old \in Olds(Len(store) - 1) : store' = StoreGet(store, StoreSize, old, th[t].case)
      BY <1>3, <2>1 DEF FindPool
    <3>3. p \in DOMAIN pools
      BY <1>0, <2>1, FoundPool
    <3> HIDE DEF p
    <3>4. /\ R.pc = "look" /\ R.case = th[t].case /\ R.dbh = th[t].dbh /\ R.pool = p
          /\ R.buf = th[t].buf /\ R.stmt = th[t].stmt /\ R.bulk = th[t].bulk
          /\ R.then = th[t].then /\ R.again = th[t].again
      BY <1>0 DEF HandleType
    <3>5. R \in HandleType'
      BY <1>0, <3>1, <3>3 DEF HandleType
    <3> HIDE DEF R
    <3>6. Phase(R) /\ R.pc \notin InUse
      BY <1>0, <3>1, <3>3, <3>4 DEF Phase, InUse
    <3>7. store' \in Seq([key : Cases, obj : DOMAIN pools])
      <4>1. old \in Nat /\ StoreSize \in Nat
        BY HandleAssumption DEF Olds
      <4> QED
        BY <1>0, <2>1, <3>2, <4>1, StoreFacts DEF SharedOK
    <3>8. SharedOK' /\ Grows
      BY <1>0, <3>1, <3>7 DEF SharedOK, Grows
    <3> QED
      BY <3>1, <3>5, <3>6, <3>8, BaseStep
  <2>2. CASE ~HasKey(store, th[t].case)
    <3> DEFINE R == [th[t] EXCEPT !.pc = "make"]
    <3>1. /\ th' = [th EXCEPT ![t] = R] /\ th[t].pc = "find"
          /\ UNCHANGED <<kind, store, pools, args, conns, rows, handles, faults>>
      BY <1>0, <1>3, <2>2 DEF FindPool, At, Go
    <3>2. /\ R.pc = "make" /\ R.case = th[t].case /\ R.dbh = th[t].dbh /\ R.pool = th[t].pool
          /\ R.buf = th[t].buf /\ R.stmt = th[t].stmt /\ R.bulk = th[t].bulk
          /\ R.then = th[t].then /\ R.again = th[t].again
      BY <1>0 DEF HandleType
    <3>3. R \in HandleType'
      BY <1>0, <3>1 DEF HandleType
    <3> HIDE DEF R
    <3>4. Phase(R) /\ R.pc \notin InUse
      BY <1>0, <3>1, <3>2 DEF Phase, InUse
    <3>5. SharedOK' /\ Grows
      BY <1>0, <3>1 DEF SharedOK, Grows
    <3> QED
      BY <3>1, <3>3, <3>4, <3>5, BaseStep
  <2> QED
    BY <2>1, <2>2
<1>4. CASE MakePool(t)
  <2> DEFINE p == Len(pools) + 1
             R == [th[t] EXCEPT !.pc = "look", !.pool = p]
  <2>1. /\ th' = [th EXCEPT ![t] = R] /\ th[t].pc = "make" /\ pools' = Append(pools, <<>>)
        /\ UNCHANGED <<kind, args, conns, rows, handles, faults>>
    BY <1>0, <1>4 DEF MakePool, At
  <2>2. PICK old \in Olds(Len(store)) : store' = StorePut(store, StoreSize, old, th[t].case, p)
    BY <1>4 DEF MakePool
  <2>3. pools' \in Seq(Seq(DOMAIN conns)) /\ DOMAIN pools' = 1 .. Len(pools) + 1
    <3>1. <<>> \in Seq(DOMAIN conns)
      BY EmptySeq
    <3>2. pools' \in Seq(Seq(DOMAIN conns)) /\ Len(pools') = Len(pools) + 1
      BY <1>0, <2>1, <3>1, AppendProperties DEF SharedOK
    <3> QED
      BY <3>2, LenProperties
  <2>4. p \in DOMAIN pools' /\ DOMAIN pools \subseteq DOMAIN pools' /\ p # 0
    BY <1>0, <2>3
  <2> HIDE DEF p
  <2>5. /\ R.pc = "look" /\ R.case = th[t].case /\ R.dbh = th[t].dbh /\ R.pool = p
        /\ R.buf = th[t].buf /\ R.stmt = th[t].stmt /\ R.bulk = th[t].bulk
        /\ R.then = th[t].then /\ R.again = th[t].again
    BY <1>0 DEF HandleType
  <2>6. R \in HandleType'
    BY <1>0, <2>1, <2>4 DEF HandleType
  <2> HIDE DEF R
  <2>7. Phase(R) /\ R.pc \notin InUse
    BY <1>0, <2>1, <2>4, <2>5 DEF Phase, InUse
  <2>8. store' \in Seq([key : Cases, obj : DOMAIN pools'])
    <3>1. old \in Nat /\ StoreSize \in Nat
      BY HandleAssumption DEF Olds
    <3>2. th[t].case \in Cases
      BY <1>0, <2>1 DEF Phase
    <3>3. Entry(th[t].case, p) \in [key : Cases, obj : DOMAIN pools']
      BY <2>4, <3>2 DEF Entry
    <3>4. store \in Seq([key : Cases, obj : DOMAIN pools'])
      <4>1. [key : Cases, obj : DOMAIN pools] \subseteq [key : Cases, obj : DOMAIN pools']
        BY <2>4
      <4> QED
        BY <1>0, <4>1, SeqMonotonic DEF SharedOK
    <3> QED
      BY <2>2, <3>1, <3>3, <3>4, StoreFacts
  <2>9. SharedOK' /\ Grows
    BY <1>0, <2>1, <2>3, <2>4, <2>8 DEF SharedOK, Grows
  <2> QED
    BY <2>1, <2>6, <2>7, <2>9, BaseStep
<1>5. CASE Look(t)
  <2> DEFINE pc == IF pools[th[t].pool] = <<>> THEN "connect" ELSE "take"
             R == [th[t] EXCEPT !.pc = pc]
  <2>1. /\ th' = [th EXCEPT ![t] = R] /\ th[t].pc = "look"
        /\ UNCHANGED <<shared, rows, handles, faults>>
    BY <1>0, <1>5 DEF Look, At, Go
  <2>2. pc \in {"connect", "take"}
    OBVIOUS
  <2> HIDE DEF pc
  <2>3. /\ R.pc = pc /\ R.case = th[t].case /\ R.dbh = th[t].dbh /\ R.pool = th[t].pool
        /\ R.buf = th[t].buf /\ R.stmt = th[t].stmt /\ R.bulk = th[t].bulk
        /\ R.then = th[t].then /\ R.again = th[t].again
    BY <1>0 DEF HandleType
  <2>4. R \in HandleType'
    BY <1>0, <2>1, <2>2 DEF HandleType, shared
  <2> HIDE DEF R
  <2>5. Phase(R) /\ R.pc \notin InUse
    BY <1>0, <2>1, <2>2, <2>3 DEF Phase, InUse
  <2>6. SharedOK' /\ Grows
    BY <1>0, <2>1 DEF SharedOK, Grows, shared
  <2> QED
    BY <2>1, <2>4, <2>5, <2>6, BaseStep
<1>6. CASE Take(t)
  <2> DEFINE p == th[t].pool
             c == Head(pools[p])
  <2>1. /\ th' = Got(t, c) /\ th[t].pc = "take" /\ pools[p] # <<>>
        /\ pools' = [pools EXCEPT ![p] = Tail(@)]
        /\ UNCHANGED <<kind, store, args, conns, rows, handles, faults>>
    BY <1>6 DEF Take, At
  <2>2. p \in 1 .. Len(pools) /\ pools[p] \in Seq(DOMAIN conns)
    <3>1. p \in 1 .. Len(pools)
      BY <1>0, <2>1 DEF Phase, HandleType
    <3> QED
      BY <1>0, <3>1, ElementOfSeq DEF SharedOK
  <2>3. c \in DOMAIN conns /\ Tail(pools[p]) \in Seq(DOMAIN conns)
    BY <2>1, <2>2, HeadTailProperties
  <2>4. pools' \in Seq(Seq(DOMAIN conns)) /\ DOMAIN pools' = DOMAIN pools
    BY <1>0, <2>1, <2>2, <2>3, ExceptSeq DEF SharedOK
  <2> HIDE DEF c
  <2>5. SharedOK' /\ Grows
    BY <1>0, <2>1, <2>4 DEF SharedOK, Grows
  <2>6. c \in DOMAIN conns' /\ c # 0
    BY <1>0, <2>1, <2>3
  <2>7. PICK R : /\ th' = [th EXCEPT ![t] = R]
                 /\ R \in HandleType' /\ Phase(R) /\ R.dbh = c
    BY <2>1, <2>5, <2>6, GotFacts
  <2> QED
    BY <2>5, <2>6, <2>7, BaseStep
<1>7. CASE Open(t)
  <2> DEFINE c == Len(conns) + 1
             conn == [case |-> args, up |-> TRUE]
  <2>1. /\ th' = Got(t, c) /\ th[t].pc = "open" /\ args # None
        /\ conns' = Append(conns, conn)
        /\ UNCHANGED <<kind, store, pools, args, rows, handles, faults>>
    BY <1>7 DEF Open, At
  <2>2. conn \in [case : Cases, up : BOOLEAN]
    BY <1>0, <2>1 DEF SharedOK
  <2> HIDE DEF conn
  <2>3. conns' \in Seq([case : Cases, up : BOOLEAN]) /\ DOMAIN conns' = 1 .. Len(conns) + 1
    <3>1. conns' \in Seq([case : Cases, up : BOOLEAN]) /\ Len(conns') = Len(conns) + 1
      BY <1>0, <2>1, <2>2, AppendProperties DEF SharedOK
    <3> QED
      BY <3>1, LenProperties
  <2>4. DOMAIN conns \subseteq DOMAIN conns' /\ c \in DOMAIN conns' /\ c # 0
    BY <1>0, <2>3
  <2> HIDE DEF c
  <2>5. pools \in Seq(Seq(DOMAIN conns'))
    <3>1. Seq(DOMAIN conns) \subseteq Seq(DOMAIN conns')
      BY <2>4, SeqMonotonic
    <3> QED
      BY <1>0, <3>1, SeqMonotonic DEF SharedOK
  <2>6. SharedOK' /\ Grows
    BY <1>0, <2>1, <2>3, <2>4, <2>5 DEF SharedOK, Grows
  <2>7. PICK R : /\ th' = [th EXCEPT ![t] = R]
                 /\ R \in HandleType' /\ Phase(R) /\ R.dbh = c
    BY <2>1, <2>4, <2>6, GotFacts
  <2> QED
    BY <2>4, <2>6, <2>7, BaseStep
<1>8. CASE Refused(t)
  <2>1. /\ th[t].pc = "open" /\ args' = None /\ rows' = RowsAfterError(t)
        /\ faults' = faults \/ (faults < MaxFaults /\ faults' = faults + 1)
        /\ UNCHANGED <<kind, store, pools, conns, handles>>
    BY <1>8 DEF Refused, At, Fault
  <2>2. rows \in Seq(RowType)
    BY <1>0 DEF SharedOK
  <2>3. rows' \in Seq(RowType) /\ DOMAIN rows' = DOMAIN rows
    BY <2>1, <2>2, RowChanges
  <2>4. faults' \in 0 .. MaxFaults
    BY <1>0, <2>1, HandleAssumption DEF SharedOK
  <2>5. SharedOK' /\ Grows
    BY <1>0, <2>1, <2>3, <2>4 DEF SharedOK, Grows
  <2>6. CASE th[t].again
    <3>1. th' = AfterError(t) /\ th[t].dbh # 0
      BY <1>0, <1>8, <2>6 DEF Refused, Phase
    <3>2. PICK R : /\ th' = [th EXCEPT ![t] = R]
                   /\ R \in HandleType' /\ Phase(R) /\ (R.pc \in InUse => R.dbh # 0)
      BY <2>1, <2>5, <3>1, AfterErrorFacts
    <3> QED
      BY <2>5, <3>2, BaseStep
  <2>7. CASE ~th[t].again
    <3>1. th' = [th EXCEPT ![t] = NoHandle] /\ NoHandle.pc \notin InUse
      BY <1>8, <2>7, NoHandleFacts DEF Refused, InUse
    <3> QED
      BY <2>5, <3>1, NoHandleFacts, BaseStep
  <2> QED
    BY <2>6, <2>7
<1> QED
  BY <1>1, <1>2, <1>3, <1>4, <1>5, <1>6, <1>7, <1>8 DEF Obtain
\* A statement that is sent is in the handle, its rows well typed.
LEMMA SendFacts ==
    ASSUME Base, Grows, NEW t \in Threads, NEW bulk \in BOOLEAN, NEW stmt \in Seq(DOMAIN rows'),
           NEW then \in {"held", "back"}, th[t].pc = "held", SendRows(t, bulk, stmt, then),
           bulk => stmt = th[t].buf,
           ~bulk => ToSet(stmt) \cap ToSet(th[t].buf) = {} /\ then = "held"
    PROVE  \E R : /\ th' = [th EXCEPT ![t] = R]
                  /\ R \in HandleType' /\ Phase(R) /\ R.dbh = th[t].dbh /\ R.dbh # 0
                  /\ R.buf = th[t].buf /\ R.stmt = stmt
<1>0. /\ th[t] \in HandleType /\ th[t] \in HandleType' /\ DOMAIN th = Threads /\ Phase(th[t])
      /\ th[t].dbh # 0
  BY BaseShared, HandleGrows DEF InUse
<1> DEFINE R == [th[t] EXCEPT !.pc = "send", !.bulk = bulk, !.stmt = stmt, !.then = then]
<1>1. th' = [th EXCEPT ![t] = R]
  BY <1>0 DEF SendRows
<1>2. R \in HandleType'
  BY <1>0 DEF HandleType
<1>3. /\ R.pc = "send" /\ R.case = th[t].case /\ R.dbh = th[t].dbh
      /\ R.buf = th[t].buf /\ R.stmt = stmt /\ R.bulk = bulk
      /\ R.then = then /\ R.again = th[t].again
  BY <1>0 DEF HandleType
<1> HIDE DEF R
<1>4. Phase(R)
  BY <1>0, <1>3 DEF Phase
<1> QED
  BY <1>0, <1>1, <1>2, <1>3, <1>4

\* After a statement that succeeded the handle is held, or its connection goes back.
LEMMA SentFacts ==
    ASSUME Base, Grows, NEW t \in Threads, th[t].pc = "send", th' = Sent(t)
    PROVE  \E R : /\ th' = [th EXCEPT ![t] = R]
                  /\ R \in HandleType' /\ Phase(R) /\ R.dbh = th[t].dbh /\ R.dbh # 0
                  /\ R.stmt = <<>> /\ R.buf = Cleared(t)
<1>0. /\ th[t] \in HandleType /\ th[t] \in HandleType' /\ DOMAIN th = Threads /\ Phase(th[t])
      /\ th[t].dbh # 0
  BY BaseShared, HandleGrows DEF InUse
<1>1. PICK no \in BOOLEAN : no = FALSE
  OBVIOUS
<1> DEFINE buf == Cleared(t)
           R == [th[t] EXCEPT !.pc = th[t].then, !.again = no, !.stmt = <<>>, !.bulk = no, !.buf = buf]
<1>2. th' = [th EXCEPT ![t] = R]
  <2>1. th' = [th EXCEPT ![t].pc = th[t].then, ![t].again = no, ![t].stmt = <<>>,
                         ![t].bulk = no, ![t].buf = buf]
    BY <1>1, Zenon DEF Sent
  <2> QED
    BY <1>0, <2>1
<1>3. (th[t].bulk /\ buf = <<>>) \/ (~th[t].bulk /\ buf = th[t].buf)
  BY DEF Cleared
<1> HIDE DEF buf
<1>4. buf \in Seq(DOMAIN rows') /\ <<>> \in Seq(DOMAIN rows')
  BY <1>0, <1>3, EmptySeq DEF HandleType
<1>5. R \in HandleType'
  BY <1>0, <1>4 DEF HandleType
<1>6. /\ R.pc = th[t].then /\ R.case = th[t].case /\ R.dbh = th[t].dbh
      /\ R.buf = buf /\ R.stmt = <<>> /\ R.bulk = no
      /\ R.then = th[t].then /\ R.again = no
  BY <1>0 DEF HandleType
<1> HIDE DEF R
<1>7. th[t].then \in {"held", "back"}
  BY <1>0 DEF HandleType
<1>8. ToSet(<<>>) = {}
  BY DEF ToSet
<1>9. Phase(R)
  BY <1>0, <1>1, <1>3, <1>6, <1>7, <1>8 DEF Phase
<1> QED
  BY <1>0, <1>2, <1>5, <1>6, <1>9 DEF buf

\* A row added to the bulk insert is in the buffer, and in the statement if that is sent.
LEMMA BufferFacts ==
    ASSUME Base, NEW t \in Threads, MassInsert(t)
    PROVE  \E R : /\ th' = [th EXCEPT ![t] = R]
                  /\ R \in HandleType' /\ Phase(R) /\ R.dbh = th[t].dbh /\ R.dbh # 0
                  /\ R.buf = Append(th[t].buf, Len(rows) + 1)
                  /\ (R.stmt = <<>> \/ R.stmt = R.buf)
<1>0. /\ th[t] \in HandleType /\ DOMAIN th = Threads /\ Phase(th[t])
      /\ th[t].pc = "held" /\ th[t].dbh # 0 /\ rows' = NewRow(t) /\ th[t].case \in Cases
      /\ UNCHANGED <<shared, handles, faults>>
      /\ DOMAIN rows = 1 .. Len(rows) /\ Len(rows) \in Nat
  BY BaseShared DEF InUse, MassInsert, At, Phase
<1> DEFINE buf == Append(th[t].buf, Len(rows) + 1)
           over == Len(buf) > Threshold
           stmt == IF over THEN buf ELSE <<>>
           pc == IF over THEN "send" ELSE "held"
           R == [th[t] EXCEPT !.buf = buf, !.bulk = over, !.stmt = stmt, !.pc = pc]
<1>1. DOMAIN rows' = 1 .. Len(rows) + 1
  BY <1>0, NewRowFacts
<1>2. Grows
  BY <1>0, <1>1 DEF Grows, shared
<1>3. th[t] \in HandleType'
  BY <1>0, <1>2, HandleGrows
<1>4. buf \in Seq(DOMAIN rows') /\ <<>> \in Seq(DOMAIN rows')
  <2>1. th[t].buf \in Seq(DOMAIN rows') /\ Len(rows) + 1 \in DOMAIN rows'
    BY <1>0, <1>1, <1>3 DEF HandleType
  <2> QED
    BY <2>1, AppendProperties, EmptySeq
<1>5. th' = [th EXCEPT ![t] = R]
  BY <1>0 DEF MassInsert
<1> HIDE DEF buf
<1>6. over \in BOOLEAN /\ ((over /\ stmt = buf /\ pc = "send") \/ (~over /\ stmt = <<>> /\ pc = "held"))
  <2>1. Len(buf) \in Nat /\ Threshold \in Nat
    BY <1>4, LenProperties, HandleAssumption
  <2>2. over \in BOOLEAN
    BY <2>1
  <2> HIDE DEF over
  <2> QED
    BY <2>2
<1> HIDE DEF over, stmt, pc
<1>7. R \in HandleType'
  <2>1. stmt \in Seq(DOMAIN rows') /\ pc \in {"send", "held"} /\ over \in BOOLEAN
    BY <1>4, <1>6
  <2> QED
    BY <1>3, <1>4, <2>1 DEF HandleType
<1>8. /\ R.pc = pc /\ R.case = th[t].case /\ R.dbh = th[t].dbh
      /\ R.buf = buf /\ R.stmt = stmt /\ R.bulk = over
      /\ R.then = th[t].then /\ R.again = th[t].again
  BY <1>0 DEF HandleType
<1> HIDE DEF R
<1>9. th[t].then = "held" /\ ~th[t].again
  BY <1>0 DEF Phase, HandleType
<1>10. ToSet(<<>>) = {}
  BY DEF ToSet
<1>11. Phase(R)
  BY <1>0, <1>6, <1>8, <1>9, <1>10 DEF Phase
<1> QED
  BY <1>0, <1>5, <1>6, <1>7, <1>8, <1>11 DEF buf
\* A connection that is lost stays one of the connections.
LEMMA LostConn ==
    ASSUME Base, NEW t \in Threads, th[t].dbh # 0,
           conns' = [conns EXCEPT ![th[t].dbh].up = FALSE]
    PROVE  conns' \in Seq([case : Cases, up : BOOLEAN]) /\ DOMAIN conns' = DOMAIN conns
<1>1. /\ th[t].dbh \in DOMAIN conns /\ conns \in Seq([case : Cases, up : BOOLEAN])
      /\ DOMAIN conns = 1 .. Len(conns)
  BY BaseShared DEF SharedOK, HandleType
<1> DEFINE d == th[t].dbh
           conn == [conns[d] EXCEPT !.up = FALSE]
<1>2. conns' = [conns EXCEPT ![d] = conn]
  BY <1>1, Zenon
<1>3. conn \in [case : Cases, up : BOOLEAN]
  <2>1. conns[d] \in [case : Cases, up : BOOLEAN]
    BY <1>1, ElementOfSeq
  <2>2. PICK no \in BOOLEAN : no = FALSE
    OBVIOUS
  <2>3. [conns[d] EXCEPT !.up = no] \in [case : Cases, up : BOOLEAN]
    BY <2>1
  <2> QED
    BY <2>2, <2>3, Zenon
<1> HIDE DEF conn, d
<1> QED
  BY <1>1, <1>2, <1>3, ExceptSeq DEF d

\* A lost connection under t's statement: Q is what the server did with its rows.
LostWith(t, Q) ==
    LET after == IF Up(t) THEN CountLoss(t, Q) ELSE Q
    IN  IF th[t].again
        THEN /\ th' = AfterError(t)
             /\ rows' = [r \in DOMAIN rows |->
                           IF RowsAfterError(t)[r] = rows[r] THEN after[r]
                           ELSE [after[r] EXCEPT !.fate = "error"]]
        ELSE /\ th' = [th EXCEPT ![t].pc = FirstStep, ![t].again = TRUE]
             /\ rows' = after

\* The rows of a statement under which the connection is lost stay rows.
LEMMA LostRows ==
    ASSUME Base, NEW t \in Threads, th[t].dbh # 0,
           NEW Q \in {rows} \cup (IF Up(t) THEN {Stored(t, rows)} ELSE {}), LostWith(t, Q)
    PROVE  rows' \in Seq(RowType) /\ DOMAIN rows' = DOMAIN rows
<1>0. rows \in Seq(RowType) /\ DOMAIN rows = 1 .. Len(rows) /\ Len(rows) \in Nat
  BY BaseShared DEF SharedOK
<1>1. Q = rows \/ Q = Stored(t, rows)
  OBVIOUS
<1>2. Q \in Seq(RowType) /\ DOMAIN Q = DOMAIN rows
  BY <1>0, <1>1, RowChanges
<1> DEFINE after == IF Up(t) THEN CountLoss(t, Q) ELSE Q
<1>3. after \in Seq(RowType) /\ DOMAIN after = DOMAIN rows
  BY <1>2, RowChanges
<1>4. CASE ~th[t].again
  BY <1>3, <1>4 DEF LostWith
<1>5. CASE th[t].again
  <2>1. rows' = [r \in DOMAIN rows |->
                   IF RowsAfterError(t)[r] = rows[r] THEN after[r]
                   ELSE [after[r] EXCEPT !.fate = "error"]]
    BY <1>5 DEF LostWith
  <2> HIDE DEF after
  <2>2. after \in [1 .. Len(rows) -> RowType]
    BY <1>0, <1>3, LenProperties
  <2>3. rows' \in [1 .. Len(rows) -> RowType]
    BY <1>0, <2>1, <2>2 DEF RowType
  <2> QED
    BY <1>0, <2>3, FunctionIsSeq
<1> QED
  BY <1>4, <1>5

\* Working with a handle and dropping it keeps types and places.
LEMMA BaseWork ==
    ASSUME Base, NEW t \in Threads,
           \/ Insert(t) \/ MassInsert(t) \/ MassInsertCommit(t) \/ MassInsertStart(t)
           \/ Work(t) \/ Drop(t) \/ GiveBack(t)
    PROVE  Base'
<1>0. /\ SharedOK /\ th[t] \in HandleType /\ DOMAIN th = Threads
      /\ Phase(th[t]) /\ (th[t].pc \in InUse => th[t].dbh # 0)
      /\ DOMAIN pools = 1 .. Len(pools) /\ Len(pools) \in Nat
      /\ DOMAIN conns = 1 .. Len(conns) /\ Len(conns) \in Nat
      /\ DOMAIN rows = 1 .. Len(rows) /\ Len(rows) \in Nat
      /\ rows \in Seq(RowType)
  BY BaseShared DEF SharedOK
<1>1. CASE Insert(t)
  <2>1. PICK no \in BOOLEAN : no = FALSE
    OBVIOUS
  <2> DEFINE stmt == <<Len(rows) + 1>>
  <2>2. /\ th[t].pc = "held" /\ rows' = NewRow(t) /\ UNCHANGED <<shared, handles, faults>>
    BY <1>1 DEF Insert, At
  <2>3. SendRows(t, no, stmt, "held")
    BY <1>1, <2>1, Zenon DEF Insert
  <2>4. rows' \in Seq(RowType) /\ DOMAIN rows' = 1 .. Len(rows) + 1
    BY <1>0, <2>2, NewRowFacts DEF Phase
  <2>5. SharedOK' /\ Grows
    BY <1>0, <2>2, <2>4 DEF SharedOK, Grows, shared
  <2>6. stmt \in Seq(DOMAIN rows') /\ ToSet(stmt) \cap ToSet(th[t].buf) = {}
    <3>1. Len(rows) + 1 \in DOMAIN rows' /\ Len(rows) + 1 \notin DOMAIN rows
      BY <1>0, <2>4
    <3>2. ToSet(th[t].buf) \subseteq DOMAIN rows
      BY <1>0, ToSetFacts DEF HandleType
    <3>3. ToSet(stmt) = {Len(rows) + 1}
      BY DEF ToSet
    <3> QED
      BY <3>1, <3>2, <3>3
  <2> HIDE DEF stmt
  <2>7. PICK R : /\ th' = [th EXCEPT ![t] = R]
                 /\ R \in HandleType' /\ Phase(R) /\ R.dbh # 0
    BY <2>1, <2>2, <2>3, <2>5, <2>6, SendFacts
  <2> QED
    BY <2>5, <2>7, BaseStep
<1>2. CASE MassInsert(t)
  <2>1. /\ th[t].pc = "held" /\ rows' = NewRow(t) /\ UNCHANGED <<shared, handles, faults>>
    BY <1>2 DEF MassInsert, At
  <2>2. rows' \in Seq(RowType) /\ DOMAIN rows' = 1 .. Len(rows) + 1
    BY <1>0, <2>1, NewRowFacts DEF Phase
  <2>3. SharedOK' /\ Grows
    BY <1>0, <2>1, <2>2 DEF SharedOK, Grows, shared
  <2>4. PICK R : /\ th' = [th EXCEPT ![t] = R]
                 /\ R \in HandleType' /\ Phase(R) /\ R.dbh # 0
    BY <1>2, BufferFacts
  <2> QED
    BY <2>3, <2>4, BaseStep
<1>3. ASSUME NEW then \in {"held", "back"}, th[t].pc = "held", SendRows(t, TRUE, th[t].buf, then),
             UNCHANGED <<shared, rows, handles, faults>>
      PROVE  Base'
  <2>1. PICK yes \in BOOLEAN : yes = TRUE
    OBVIOUS
  <2> DEFINE stmt == th[t].buf
  <2>2. SendRows(t, yes, stmt, then)
    BY <1>3, <2>1, Zenon
  <2>3. SharedOK' /\ Grows
    BY <1>0, <1>3 DEF SharedOK, Grows, shared
  <2>4. stmt \in Seq(DOMAIN rows') /\ stmt = th[t].buf
    BY <1>0, <1>3 DEF HandleType
  <2> HIDE DEF stmt
  <2>5. (yes => stmt = th[t].buf) /\ (~yes => ToSet(stmt) \cap ToSet(th[t].buf) = {} /\ then = "held")
    BY <2>1, <2>4
  <2>6. \E R : /\ th' = [th EXCEPT ![t] = R]
               /\ R \in HandleType' /\ Phase(R) /\ R.dbh = th[t].dbh /\ R.dbh # 0
               /\ R.buf = th[t].buf /\ R.stmt = stmt
    BY <1>3, <2>2, <2>3, <2>4, <2>5, SendFacts
  <2> QED
    BY <2>3, <2>6, BaseStep
<1>4. CASE MassInsertCommit(t)
  BY <1>3, <1>4 DEF MassInsertCommit, At
<1>5. CASE MassInsertStart(t)
  <2> DEFINE R == [th[t] EXCEPT !.buf = <<>>]
  <2>1. /\ th[t].pc = "held" /\ th' = [th EXCEPT ![t] = R]
        /\ UNCHANGED <<shared, handles, faults>>
    BY <1>0, <1>5 DEF MassInsertStart, At
  <2>2. rows' \in Seq(RowType) /\ DOMAIN rows' = DOMAIN rows
    <3>1. rows \in [1 .. Len(rows) -> RowType]
      BY <1>0, LenProperties
    <3>2. rows' = [r \in DOMAIN rows |->
                     IF r \in ToSet(th[t].buf) THEN [rows[r] EXCEPT !.fate = "dropped"] ELSE rows[r]]
      BY <1>5 DEF MassInsertStart
    <3>3. rows' \in [1 .. Len(rows) -> RowType]
      BY <1>0, <3>1, <3>2 DEF RowType
    <3> QED
      BY <1>0, <3>3, FunctionIsSeq
  <2>3. SharedOK' /\ Grows
    BY <1>0, <2>1, <2>2 DEF SharedOK, Grows, shared
  <2>4. R \in HandleType'
    <3>1. th[t] \in HandleType' /\ <<>> \in Seq(DOMAIN rows')
      BY <1>0, <2>3, HandleGrows, EmptySeq
    <3> QED
      BY <3>1 DEF HandleType
  <2>5. /\ R.pc = th[t].pc /\ R.case = th[t].case /\ R.dbh = th[t].dbh /\ R.pool = th[t].pool
        /\ R.buf = <<>> /\ R.stmt = th[t].stmt /\ R.bulk = th[t].bulk
        /\ R.then = th[t].then /\ R.again = th[t].again
    BY <1>0 DEF HandleType
  <2> HIDE DEF R
  <2>6. ToSet(<<>>) = {}
    BY DEF ToSet
  <2>7. Phase(R) /\ R.dbh # 0
    BY <1>0, <2>1, <2>5, <2>6 DEF Phase, InUse
  <2> QED
    BY <2>1, <2>3, <2>4, <2>7, BaseStep
<1>6. CASE Succeed(t)
  <2>1. /\ th[t].pc = "send" /\ th' = Sent(t) /\ rows' = Stored(t, rows)
        /\ UNCHANGED <<shared, handles, faults>>
    BY <1>6 DEF Succeed, At
  <2>2. rows' \in Seq(RowType) /\ DOMAIN rows' = DOMAIN rows
    BY <1>0, <2>1, RowChanges DEF InUse
  <2>3. SharedOK' /\ Grows
    BY <1>0, <2>1, <2>2 DEF SharedOK, Grows, shared
  <2>4. PICK R : /\ th' = [th EXCEPT ![t] = R]
                 /\ R \in HandleType' /\ Phase(R) /\ R.dbh # 0
    BY <2>1, <2>3, SentFacts
  <2> QED
    BY <2>3, <2>4, BaseStep
<1>7. CASE Fail(t)
  <2>1. /\ th[t].pc = "send" /\ th' = AfterError(t) /\ rows' = RowsAfterError(t)
        /\ faults < MaxFaults /\ faults' = faults + 1
        /\ UNCHANGED <<shared, handles>>
    BY <1>7 DEF Fail, At, Fault
  <2>2. rows' \in Seq(RowType) /\ DOMAIN rows' = DOMAIN rows
    BY <1>0, <2>1, RowChanges
  <2>3. SharedOK' /\ Grows
    BY <1>0, <2>1, <2>2, HandleAssumption DEF SharedOK, Grows, shared
  <2>4. PICK R : /\ th' = [th EXCEPT ![t] = R]
                 /\ R \in HandleType' /\ Phase(R) /\ (R.pc \in InUse => R.dbh # 0)
    BY <1>0, <2>1, <2>3, AfterErrorFacts DEF InUse
  <2> QED
    BY <2>3, <2>4, BaseStep
<1>8. CASE Lose(t)
  <2>1. th[t].pc = "send" /\ th[t].dbh # 0 /\ UNCHANGED <<kind, store, pools, args, handles>>
    BY <1>0, <1>8 DEF Lose, At, InUse
  <2>2. conns' \in Seq([case : Cases, up : BOOLEAN]) /\ DOMAIN conns' = DOMAIN conns
    BY <1>0, <1>8, <2>1, LostConn DEF Lose
  <2>3. faults' \in 0 .. MaxFaults
    BY <1>0, <1>8, HandleAssumption DEF Lose, Fault, SharedOK
  <2>4. PICK Q \in {rows} \cup (IF Up(t) THEN {Stored(t, rows)} ELSE {}) : LostWith(t, Q)
    BY <1>8 DEF Lose, LostWith
  <2>5. rows' \in Seq(RowType) /\ DOMAIN rows' = DOMAIN rows
    BY <2>1, <2>4, LostRows
  <2>6. SharedOK' /\ Grows
    BY <1>0, <2>1, <2>2, <2>3, <2>5 DEF SharedOK, Grows
  <2>7. CASE th[t].again
    <3>1. th' = AfterError(t)
      BY <2>4, <2>7 DEF LostWith
    <3>2. PICK R : /\ th' = [th EXCEPT ![t] = R]
                   /\ R \in HandleType' /\ Phase(R) /\ (R.pc \in InUse => R.dbh # 0)
      BY <2>1, <2>6, <3>1, AfterErrorFacts
    <3> QED
      BY <2>6, <3>2, BaseStep
  <2>8. CASE ~th[t].again
    <3>1. PICK yes \in BOOLEAN : yes = TRUE
      OBVIOUS
    <3> DEFINE R == [th[t] EXCEPT !.pc = FirstStep, !.again = yes]
    <3>2. th' = [th EXCEPT ![t] = R]
      <4>1. th' = [th EXCEPT ![t].pc = FirstStep, ![t].again = yes]
        BY <2>4, <2>8, <3>1, Zenon DEF LostWith
      <4> QED
        BY <1>0, <4>1
    <3>3. FirstStep \in {"find", "connect"}
      BY DEF FirstStep
    <3>4. th[t] \in HandleType'
      BY <1>0, <2>6, HandleGrows
    <3>5. R \in HandleType'
      BY <3>3, <3>4 DEF HandleType
    <3>6. /\ R.pc = FirstStep /\ R.case = th[t].case /\ R.dbh = th[t].dbh
          /\ R.buf = th[t].buf /\ R.stmt = th[t].stmt /\ R.bulk = th[t].bulk
          /\ R.then = th[t].then /\ R.again = yes
      BY <1>0 DEF HandleType
    <3> HIDE DEF R
    <3>7. Phase(R) /\ R.dbh # 0
      BY <1>0, <2>1, <3>1, <3>3, <3>6 DEF Phase
    <3> QED
      BY <2>6, <3>2, <3>5, <3>7, BaseStep
  <2> QED
    BY <2>7, <2>8
<1>9. CASE Drop(t)
  <2>1. CASE th[t].buf = <<>>
    <3> DEFINE R == [th[t] EXCEPT !.pc = "back"]
    <3>1. /\ th[t].pc = "held" /\ th' = [th EXCEPT ![t] = R]
          /\ UNCHANGED <<shared, rows, handles, faults>>
      BY <1>0, <1>9, <2>1 DEF Drop, At, Go
    <3>2. SharedOK' /\ Grows
      BY <1>0, <3>1 DEF SharedOK, Grows, shared
    <3>3. R \in HandleType'
      BY <1>0, <3>1 DEF HandleType, shared
    <3>4. /\ R.pc = "back" /\ R.case = th[t].case /\ R.dbh = th[t].dbh /\ R.pool = th[t].pool
          /\ R.buf = <<>> /\ R.stmt = th[t].stmt /\ R.bulk = th[t].bulk
          /\ R.then = th[t].then /\ R.again = th[t].again
      BY <1>0, <2>1 DEF HandleType
    <3> HIDE DEF R
    <3>5. Phase(R) /\ R.dbh # 0
      BY <1>0, <2>1, <3>1, <3>4 DEF Phase, InUse
    <3> QED
      BY <3>1, <3>2, <3>3, <3>5, BaseStep
  <2>2. CASE th[t].buf # <<>>
    BY <1>3, <1>9, <2>2 DEF Drop, At
  <2> QED
    BY <2>1, <2>2
<1>10. CASE GiveBack(t)
  <2>1. /\ th[t].pc = "back" /\ th' = [th EXCEPT ![t] = NoHandle]
        /\ UNCHANGED <<kind, args, conns, rows, handles, faults>>
    BY <1>10 DEF GiveBack, At
  <2>2. NoHandle.pc \notin InUse
    BY NoHandleFacts DEF InUse
  <2>3. /\ store' \in Seq([key : Cases, obj : DOMAIN pools])
        /\ pools' \in Seq(Seq(DOMAIN conns)) /\ DOMAIN pools' = DOMAIN pools
    <3>1. CASE kind = "pooled" /\ HasKey(store, th[t].case)
      <4> DEFINE p == store[Find(store, th[t].case)].obj
      <4>1. PICK old \in Olds(Len(store) - 1) : store' = StoreGet(store, StoreSize, old, th[t].case)
        BY <1>10, <3>1 DEF GiveBack
      <4>2. pools' = [pools EXCEPT ![p] = Append(@, th[t].dbh)]
        BY <1>10, <3>1 DEF GiveBack
      <4>3. store' \in Seq([key : Cases, obj : DOMAIN pools])
        <5>1. old \in Nat /\ StoreSize \in Nat
          BY HandleAssumption DEF Olds
        <5> QED
          BY <1>0, <3>1, <4>1, <5>1, StoreFacts DEF SharedOK
      <4>4. p \in DOMAIN pools
        BY <1>0, <3>1, FoundPool
      <4> HIDE DEF p
      <4>5. pools[p] \in Seq(DOMAIN conns)
        BY <1>0, <4>4, ElementOfSeq DEF SharedOK
      <4>6. th[t].dbh \in DOMAIN conns
        BY <1>0, <2>1 DEF InUse, HandleType
      <4>7. Append(pools[p], th[t].dbh) \in Seq(DOMAIN conns)
        BY <4>5, <4>6, AppendProperties
      <4> QED
        BY <1>0, <4>2, <4>3, <4>4, <4>7, ExceptSeq DEF SharedOK
    <3>2. CASE ~(kind = "pooled" /\ HasKey(store, th[t].case))
      BY <1>0, <1>10, <3>2 DEF GiveBack, SharedOK
    <3> QED
      BY <3>1, <3>2
  <2>4. SharedOK' /\ Grows
    BY <1>0, <2>1, <2>3 DEF SharedOK, Grows
  <2> QED
    BY <2>1, <2>2, <2>4, NoHandleFacts, BaseStep
<1> QED
  BY <1>1, <1>2, <1>4, <1>5, <1>6, <1>7, <1>8, <1>9, <1>10 DEF Work
-----------------------------------------------------------------------------
(* Type correctness.                                                        *)

LEMMA BaseInit == Init => Base
<1> SUFFICES ASSUME Init PROVE Base
  OBVIOUS
<1>1. /\ \A T : <<>> \in Seq(T) /\ kind \in Kinds /\ store = <<>> /\ pools = <<>>
      /\ args = None /\ conns = <<>> /\ rows = <<>> /\ handles = 0 /\ faults = 0
      /\ th = [t \in Threads |-> NoHandle]
  BY EmptySeq DEF Init
<1>2. /\ kind \in Kinds /\ store \in Seq([key : Cases, obj : DOMAIN pools])
      /\ pools \in Seq(Seq(DOMAIN conns)) /\ args \in Cases \cup {None}
      /\ conns \in Seq([case : Cases, up : BOOLEAN]) /\ rows \in Seq(RowType)
  BY <1>1
<1>3. handles \in 0 .. MaxHandles /\ faults \in 0 .. MaxFaults
  BY <1>1, HandleAssumption
<1>4. th \in [Threads -> HandleType] /\ Phases /\ \A t \in Threads : th[t].pc = "idle"
  BY <1>1, NoHandleFacts DEF Phases
<1>5. TypeOK
  BY <1>2, <1>3, <1>4 DEF TypeOK
<1> QED
  BY <1>4, <1>5 DEF Base

LEMMA BaseInductive == Base /\ [Next]_vars => Base'
<1> SUFFICES ASSUME Base, [Next]_vars PROVE Base'
  OBVIOUS
<1>1. CASE Next
  <2>1. PICK t \in Threads : Step(t)
    BY <1>1 DEF Next
  <2> QED
    BY <2>1, BaseObtain, BaseWork DEF Step
<1>2. CASE UNCHANGED vars
  BY <1>2 DEF vars, Base, TypeOK, Phases, HandleType
<1> QED
  BY <1>1, <1>2

(* Every variable stays in its type, and a handle that is used has a       *)
(* connection, whatever the number of threads, cases and pools: no path    *)
(* through get_dbh, execute and __del__ leaves a handle without one.       *)
THEOREM TypeCorrect == Spec => []TypeOK
<1>1. Init => Base
  BY BaseInit
<1>2. Base /\ [Next]_vars => Base'
  BY BaseInductive
<1>3. Base => TypeOK
  BY DEF Base
<1> QED
  BY <1>1, <1>2, <1>3, PTL DEF Spec

-----------------------------------------------------------------------------
(* Connections: Apart is inductive given Base.                              *)

\* The pools hold connections.
LEMMA PoolsHold ==
    ASSUME Base
    PROVE  \A p \in DOMAIN pools :
              /\ pools[p] \in Seq(DOMAIN conns)
              /\ DOMAIN pools[p] = 1 .. Len(pools[p]) /\ Len(pools[p]) \in Nat
              /\ \A k \in DOMAIN pools[p] : pools[p][k] \in DOMAIN conns /\ pools[p][k] # 0
<1>1. /\ pools \in Seq(Seq(DOMAIN conns)) /\ DOMAIN pools = 1 .. Len(pools)
      /\ DOMAIN conns = 1 .. Len(conns) /\ Len(conns) \in Nat
  BY BaseShared DEF SharedOK
<1> SUFFICES ASSUME NEW p \in DOMAIN pools
             PROVE  /\ pools[p] \in Seq(DOMAIN conns)
                    /\ DOMAIN pools[p] = 1 .. Len(pools[p]) /\ Len(pools[p]) \in Nat
                    /\ \A k \in DOMAIN pools[p] : pools[p][k] \in DOMAIN conns /\ pools[p][k] # 0
  OBVIOUS
<1>2. pools[p] \in Seq(DOMAIN conns)
  BY <1>1, ElementOfSeq
<1>3. DOMAIN pools[p] = 1 .. Len(pools[p]) /\ Len(pools[p]) \in Nat
  BY <1>2, LenProperties
<1>4. \A k \in DOMAIN pools[p] : pools[p][k] \in DOMAIN conns
  BY <1>2, <1>3, ElementOfSeq
<1>5. 0 \notin DOMAIN conns
  BY <1>1
<1> QED
  BY <1>2, <1>3, <1>4, <1>5

\* The steps that leave the pools alone and give the handle no other connection.
LEMMA ApartKept ==
    ASSUME Base, Apart, NEW t \in Threads, NEW R, th' = [th EXCEPT ![t] = R],
           R.dbh \in {0, th[t].dbh}, pools' = pools
    PROVE  Apart'
<1>0. DOMAIN th = Threads /\ pools \in Seq(Seq(DOMAIN conns))
  BY BaseShared DEF SharedOK
<1>1. th'[t] = R /\ \A u \in Threads : u # t => th'[u] = th[u]
  BY <1>0
<1>2. \A p \in DOMAIN pools : \A k \in DOMAIN pools[p] : pools[p][k] # 0
  BY PoolsHold
<1>3. \A u, v \in Threads : u # v /\ th'[u].dbh # 0 => th'[u].dbh # th'[v].dbh
  BY <1>1 DEF Apart
<1>4. \A u \in Threads, p \in DOMAIN pools : \A k \in DOMAIN pools[p] : pools[p][k] # th'[u].dbh
  BY <1>1, <1>2 DEF Apart
<1> QED
  BY <1>3, <1>4 DEF Apart
\* Getting a connection leaves the handle of another connection, the rows and the pools alone
\* until there is one; a new pool is empty.
LEMMA QuietHand ==
    ASSUME Base, NEW t \in Threads,
           FindPool(t) \/ MakePool(t) \/ Look(t) \/ SetArgs(t) \/ \E c \in Cases : New(t, c)
    PROVE  /\ th' = [th EXCEPT ![t] = th'[t]] /\ rows' = rows /\ conns' = conns
           /\ th'[t].dbh = th[t].dbh /\ th'[t].buf = th[t].buf /\ th'[t].stmt = th[t].stmt
           /\ pools' = pools \/ pools' = Append(pools, <<>>)
<1>0. th[t] \in HandleType /\ th \in [Threads -> HandleType] /\ Phase(th[t])
  BY BaseShared
<1>1. CASE FindPool(t)
  BY <1>0, <1>1 DEF FindPool, Go, HandleType
<1>2. CASE MakePool(t)
  BY <1>0, <1>2 DEF MakePool, HandleType
<1>3. CASE Look(t)
  BY <1>0, <1>3 DEF Look, Go, HandleType, shared
<1>4. CASE SetArgs(t)
  BY <1>0, <1>4 DEF SetArgs, Go, HandleType
<1>5. ASSUME NEW c \in Cases, New(t, c)
      PROVE  /\ th' = [th EXCEPT ![t] = th'[t]] /\ rows' = rows /\ conns' = conns
             /\ th'[t].dbh = th[t].dbh /\ th'[t].buf = th[t].buf /\ th'[t].stmt = th[t].stmt
             /\ pools' = pools
  <2> DEFINE R == [NoHandle EXCEPT !.pc = FirstStep, !.case = c]
  <2>1. th' = [th EXCEPT ![t] = R] /\ th[t].pc = "idle" /\ UNCHANGED <<shared, rows>>
    BY <1>5 DEF New, At
  <2>2. R.dbh = 0 /\ R.buf = <<>> /\ R.stmt = <<>>
    BY NoHandleFacts DEF HandleType
  <2> HIDE DEF R
  <2>3. th[t].dbh = 0 /\ th[t].buf = <<>> /\ th[t].stmt = <<>>
    BY <1>0, <2>1 DEF Phase
  <2> QED
    BY <1>0, <2>1, <2>2, <2>3 DEF shared
<1> QED
  BY <1>1, <1>2, <1>3, <1>4, <1>5

\* A connection got is the handle's; the rest of the handle is as it was.
LEMMA GotHand ==
    ASSUME Base, NEW t \in Threads, NEW c, th' = Got(t, c)
    PROVE  /\ th' = [th EXCEPT ![t] = th'[t]]
           /\ th'[t].dbh = c /\ th'[t].buf = th[t].buf /\ th'[t].stmt = th[t].stmt
<1>0. th[t] \in HandleType /\ th \in [Threads -> HandleType]
  BY BaseShared
<1> QED
  BY <1>0 DEF Got, HandleType

\* A statement sent is in the handle; the rest of the handle is as it was.
LEMMA SendHand ==
    ASSUME Base, NEW t \in Threads, NEW bulk, NEW stmt, NEW then, SendRows(t, bulk, stmt, then)
    PROVE  /\ th' = [th EXCEPT ![t] = th'[t]]
           /\ th'[t].dbh = th[t].dbh /\ th'[t].buf = th[t].buf /\ th'[t].stmt = stmt
<1>0. th[t] \in HandleType /\ th \in [Threads -> HandleType]
  BY BaseShared
<1> QED
  BY <1>0 DEF SendRows, HandleType

\* After an error the handle is gone, or as it was without its statement.
LEMMA ErrorHand ==
    ASSUME Base, NEW t \in Threads, th' = AfterError(t)
    PROVE  /\ th' = [th EXCEPT ![t] = th'[t]] /\ th'[t].stmt = <<>>
           /\ \/ th[t].then = "back" /\ th'[t].dbh = 0 /\ th'[t].buf = <<>>
              \/ th[t].then = "held" /\ th'[t].dbh = th[t].dbh /\ th'[t].buf = th[t].buf
<1>0. th[t] \in HandleType /\ th \in [Threads -> HandleType]
  BY BaseShared
<1>1. CASE th[t].then = "held"
  <2>1. th' = [th EXCEPT ![t] = [th[t] EXCEPT !.pc = "held", !.stmt = <<>>, !.bulk = FALSE,
                                              !.again = FALSE]]
    BY <1>1, Zenon DEF AfterError
  <2> QED
    BY <1>0, <1>1, <2>1 DEF HandleType
<1>2. CASE th[t].then # "held"
  <2>1. th' = [th EXCEPT ![t] = NoHandle]
    BY <1>2, Zenon DEF AfterError
  <2>2. th[t].then = "back"
    BY <1>0, <1>2 DEF HandleType
  <2> QED
    BY <1>0, <2>1, <2>2, NoHandleFacts
<1> QED
  BY <1>1, <1>2

\* After success the statement is gone, and the buffer if it was the statement.
LEMMA SentHand ==
    ASSUME Base, NEW t \in Threads, th' = Sent(t)
    PROVE  /\ th' = [th EXCEPT ![t] = th'[t]] /\ th'[t].stmt = <<>>
           /\ th'[t].dbh = th[t].dbh /\ th'[t].buf = Cleared(t)
<1>0. th[t] \in HandleType /\ th \in [Threads -> HandleType]
  BY BaseShared
<1>1. PICK no \in BOOLEAN : no = FALSE
  OBVIOUS
<1> DEFINE buf == Cleared(t)
           R == [th[t] EXCEPT !.pc = th[t].then, !.again = no, !.stmt = <<>>, !.bulk = no, !.buf = buf]
<1>2. th' = [th EXCEPT ![t].pc = th[t].then, ![t].again = no, ![t].stmt = <<>>,
                       ![t].bulk = no, ![t].buf = buf]
  BY <1>1, Zenon DEF Sent
<1> HIDE DEF buf
<1>3. th' = [th EXCEPT ![t] = R]
  BY <1>0, <1>2
<1>4. R.stmt = <<>> /\ R.dbh = th[t].dbh /\ R.buf = buf
  BY <1>0 DEF HandleType
<1> HIDE DEF R
<1> QED
  BY <1>0, <1>3, <1>4 DEF buf

\* A handle dropped for good holds nothing.
LEMMA GoneHand ==
    ASSUME Base, NEW t \in Threads, th' = [th EXCEPT ![t] = NoHandle]
    PROVE  /\ th' = [th EXCEPT ![t] = th'[t]] /\ th'[t].dbh = 0
           /\ th'[t].buf = <<>> /\ th'[t].stmt = <<>>
<1>0. th \in [Threads -> HandleType]
  BY BaseShared
<1> QED
  BY <1>0, NoHandleFacts
\* The steps of a thread that gets no connection and gives none back.
LEMMA ApartOther ==
    ASSUME Base, Apart, NEW t \in Threads,
           \/ FindPool(t) \/ Look(t) \/ SetArgs(t) \/ Refused(t) \/ \E c \in Cases : New(t, c)
           \/ Insert(t) \/ MassInsert(t) \/ MassInsertCommit(t) \/ MassInsertStart(t)
           \/ Work(t) \/ Drop(t)
    PROVE  Apart'
<1>0. th[t] \in HandleType /\ th \in [Threads -> HandleType]
  BY BaseShared
<1> DEFINE Same == /\ th' = [th EXCEPT ![t] = th'[t]]
                   /\ th'[t].dbh \in {0, th[t].dbh} /\ pools' = pools
<1> SUFFICES Same
  BY ApartKept
<1>1. CASE FindPool(t) \/ Look(t) \/ SetArgs(t) \/ \E c \in Cases : New(t, c)
  <2>1. pools' = pools
    BY <1>1 DEF FindPool, Look, SetArgs, New, shared
  <2> QED
    BY <1>1, <2>1, QuietHand
<1>2. CASE Refused(t)
  <2>1. pools' = pools /\ (th' = AfterError(t) \/ th' = [th EXCEPT ![t] = NoHandle])
    BY <1>2 DEF Refused
  <2> QED
    BY <2>1, ErrorHand, GoneHand
<1>3. CASE Insert(t) \/ MassInsertCommit(t)
  <2>1. pools' = pools
    BY <1>3 DEF Insert, MassInsertCommit, shared
  <2>2. \E bulk, stmt, then : SendRows(t, bulk, stmt, then)
    BY <1>3, Zenon DEF Insert, MassInsertCommit
  <2> QED
    BY <2>1, <2>2, SendHand
<1>4. CASE MassInsert(t)
  <2>1. pools' = pools
    BY <1>4 DEF MassInsert, shared
  <2>2. PICK R : th' = [th EXCEPT ![t] = R] /\ R.dbh = th[t].dbh
    BY <1>4, BufferFacts
  <2> QED
    BY <1>0, <2>1, <2>2
<1>5. CASE MassInsertStart(t)
  BY <1>0, <1>5 DEF MassInsertStart, HandleType, shared
<1>6. CASE Succeed(t)
  BY <1>6, SentHand DEF Succeed, shared
<1>7. CASE Fail(t)
  BY <1>7, ErrorHand DEF Fail, shared
<1>8. CASE Lose(t)
  <2>1. pools' = pools /\ (th' = AfterError(t) \/ th' = [th EXCEPT ![t].pc = FirstStep, ![t].again = TRUE])
    BY <1>8 DEF Lose
  <2>2. CASE th' = [th EXCEPT ![t].pc = FirstStep, ![t].again = TRUE]
    BY <1>0, <2>1, <2>2 DEF HandleType
  <2> QED
    BY <2>1, <2>2, ErrorHand
<1>9. CASE Drop(t)
  <2>1. pools' = pools
    BY <1>9 DEF Drop, shared
  <2>2. CASE th[t].buf = <<>>
    BY <1>0, <1>9, <2>1, <2>2 DEF Drop, Go, HandleType
  <2>3. CASE th[t].buf # <<>>
    <3>1. \E bulk, stmt, then : SendRows(t, bulk, stmt, then)
      BY <1>9, <2>3, Zenon DEF Drop
    <3> QED
      BY <2>1, <3>1, SendHand
  <2> QED
    BY <2>2, <2>3
<1> QED
  BY <1>1, <1>2, <1>3, <1>4, <1>5, <1>6, <1>7, <1>8, <1>9 DEF Work

\* A pool made is empty.
LEMMA ApartMake ==
    ASSUME Base, Apart, NEW t \in Threads, MakePool(t)
    PROVE  Apart'
<1>0. /\ th \in [Threads -> HandleType] /\ pools \in Seq(Seq(DOMAIN conns))
      /\ DOMAIN pools = 1 .. Len(pools) /\ Len(pools) \in Nat
  BY BaseShared DEF SharedOK
<1>1. th' = [th EXCEPT ![t] = th'[t]] /\ th'[t].dbh = th[t].dbh /\ pools' = Append(pools, <<>>)
  BY QuietHand DEF MakePool
<1>2. \A u \in Threads : th'[u].dbh = th[u].dbh
  BY <1>0, <1>1
<1>3. /\ DOMAIN pools' = 1 .. Len(pools) + 1
      /\ \A p \in DOMAIN pools : pools'[p] = pools[p]
      /\ DOMAIN pools'[Len(pools) + 1] = {}
  <2>1. <<>> \in Seq(DOMAIN conns)
    BY EmptySeq
  <2>2. /\ pools' \in Seq(Seq(DOMAIN conns)) /\ Len(pools') = Len(pools) + 1
        /\ pools'[Len(pools) + 1] = <<>> /\ \A p \in DOMAIN pools : pools'[p] = pools[p]
    BY <1>0, <1>1, <2>1, AppendProperties
  <2>3. DOMAIN pools' = 1 .. Len(pools')
    BY <2>2, LenProperties
  <2> QED
    BY <2>2, <2>3
<1>4. \A p \in DOMAIN pools' : DOMAIN pools'[p] # {} => p \in DOMAIN pools /\ pools'[p] = pools[p]
  BY <1>0, <1>3
<1> QED
  BY <1>2, <1>4 DEF Apart

\* A connection taken is no longer in the pool.
LEMMA ApartTake ==
    ASSUME Base, Apart, NEW t \in Threads, Take(t)
    PROVE  Apart'
<1> DEFINE p == th[t].pool
           c == Head(pools[p])
<1>0. /\ th \in [Threads -> HandleType] /\ pools \in Seq(Seq(DOMAIN conns))
      /\ Phase(th[t]) /\ th[t] \in HandleType
  BY BaseShared DEF SharedOK
<1>1. /\ th' = Got(t, c) /\ th[t].pc = "take" /\ pools[p] # <<>>
      /\ pools' = [pools EXCEPT ![p] = Tail(@)]
  BY DEF Take, At
<1>2. p \in DOMAIN pools
  BY <1>0, <1>1 DEF Phase, HandleType
<1>3. /\ pools[p] \in Seq(DOMAIN conns) /\ DOMAIN pools[p] = 1 .. Len(pools[p])
      /\ Len(pools[p]) \in Nat
  BY <1>2, PoolsHold
<1>4. /\ c = pools[p][1] /\ 1 \in DOMAIN pools[p]
      /\ DOMAIN Tail(pools[p]) = 1 .. Len(pools[p]) - 1
      /\ \A k \in 1 .. Len(pools[p]) - 1 : Tail(pools[p])[k] = pools[p][k + 1]
  <2>1. /\ Tail(pools[p]) \in Seq(DOMAIN conns) /\ Len(Tail(pools[p])) = Len(pools[p]) - 1
        /\ \A k \in 1 .. Len(pools[p]) - 1 : Tail(pools[p])[k] = pools[p][k + 1]
    BY <1>1, <1>3, HeadTailProperties
  <2>2. DOMAIN Tail(pools[p]) = 1 .. Len(Tail(pools[p])) /\ Len(Tail(pools[p])) \in Nat
    BY <2>1, LenProperties
  <2>3. c = pools[p][1]
    BY <1>1, <1>3, HeadTailProperties
  <2> QED
    BY <1>3, <2>1, <2>2, <2>3
<1>5. \A k \in DOMAIN Tail(pools[p]) : k + 1 \in DOMAIN pools[p] /\ k + 1 # 1
  BY <1>3, <1>4
<1>6. th' = [th EXCEPT ![t] = th'[t]] /\ th'[t].dbh = c
  <2> HIDE DEF c
  <2> QED
    BY <1>1, GotHand
<1>7. /\ DOMAIN pools' = DOMAIN pools /\ pools'[p] = Tail(pools[p])
      /\ \A q \in DOMAIN pools : q # p => pools'[q] = pools[q]
  BY <1>0, <1>1, <1>2
<1> DEFINE rest == Tail(pools[p])
<1> HIDE DEF c, p, rest
\* Where each entry of the pools was before.
<1>8. \A q \in DOMAIN pools' : \A k \in DOMAIN pools'[q] :
        /\ q # p => k \in DOMAIN pools[q] /\ pools'[q][k] = pools[q][k]
        /\ q = p => k + 1 \in DOMAIN pools[q] /\ k + 1 # 1 /\ pools'[q][k] = pools[q][k + 1]
                    /\ k \in Int
  <2> SUFFICES ASSUME NEW q \in DOMAIN pools', NEW k \in DOMAIN pools'[q]
               PROVE  /\ q # p => k \in DOMAIN pools[q] /\ pools'[q][k] = pools[q][k]
                      /\ q = p => /\ k + 1 \in DOMAIN pools[q] /\ k + 1 # 1
                                  /\ pools'[q][k] = pools[q][k + 1] /\ k \in Int
    OBVIOUS
  <2>1. CASE q # p
    BY <1>7, <2>1
  <2>2. CASE q = p
    <3>0. /\ pools'[q] = rest /\ DOMAIN rest = 1 .. Len(pools[p]) - 1
          /\ \A i \in 1 .. Len(pools[p]) - 1 : rest[i] = pools[p][i + 1]
      BY <1>4, <1>7, <2>2 DEF rest
    <3>1. k \in 1 .. Len(pools[p]) - 1 /\ pools'[q][k] = rest[k] /\ k \in Int
      BY <1>3, <3>0
    <3>2. rest[k] = pools[p][k + 1]
      BY <3>0, <3>1
    <3>3. k + 1 \in DOMAIN pools[p] /\ k + 1 # 1
      BY <1>3, <3>1
    <3> QED
      BY <2>2, <3>1, <3>2, <3>3
  <2> QED
    BY <2>1, <2>2
<1>9. \A q \in DOMAIN pools : \A k \in DOMAIN pools[q] : pools[q][k] = c => q = p /\ k = 1
  BY <1>2, <1>4 DEF Apart
<1>10. \A q \in DOMAIN pools' : \A k \in DOMAIN pools'[q] : pools'[q][k] # c
  BY <1>7, <1>8, <1>9
<1>11. \A u \in Threads : u # t => th'[u] = th[u]
  BY <1>0, <1>6
<1>12. \A u \in Threads : th[u].dbh # c
  BY <1>2, <1>4 DEF Apart
<1>13. \A u, v \in Threads : u # v /\ th'[u].dbh # 0 => th'[u].dbh # th'[v].dbh
  BY <1>6, <1>11, <1>12 DEF Apart
<1>14. \A u \in Threads, q \in DOMAIN pools' : \A k \in DOMAIN pools'[q] : pools'[q][k] # th'[u].dbh
  BY <1>6, <1>7, <1>8, <1>10, <1>11 DEF Apart
<1>15. \A q, s \in DOMAIN pools' : \A k \in DOMAIN pools'[q], l \in DOMAIN pools'[s] :
          pools'[q][k] = pools'[s][l] => q = s /\ k = l
  <2> SUFFICES ASSUME NEW q \in DOMAIN pools', NEW s \in DOMAIN pools',
                      NEW k \in DOMAIN pools'[q], NEW l \in DOMAIN pools'[s],
                      pools'[q][k] = pools'[s][l]
               PROVE  q = s /\ k = l
    OBVIOUS
  <2>1. q = s
    BY <1>7, <1>8 DEF Apart
  <2>2. CASE q # p
    BY <1>7, <1>8, <2>1, <2>2 DEF Apart
  <2>3. CASE q = p
    <3>1. k + 1 = l + 1 /\ k \in Int /\ l \in Int
      BY <1>2, <1>8, <2>1, <2>3 DEF Apart
    <3> QED
      BY <2>1, <3>1
  <2> QED
    BY <2>2, <2>3
<1> QED
  BY <1>13, <1>14, <1>15 DEF Apart

\* A connection opened is new.
LEMMA ApartOpen ==
    ASSUME Base, Apart, NEW t \in Threads, Open(t)
    PROVE  Apart'
<1> DEFINE c == Len(conns) + 1
<1>0. /\ th \in [Threads -> HandleType] /\ DOMAIN conns = 1 .. Len(conns) /\ Len(conns) \in Nat
  BY BaseShared
<1>1. th' = Got(t, c) /\ pools' = pools
  BY DEF Open
<1>2. c \notin DOMAIN conns /\ c # 0
  BY <1>0
<1> HIDE DEF c
<1>3. th' = [th EXCEPT ![t] = th'[t]] /\ th'[t].dbh = c
  BY <1>1, GotHand
<1>4. \A u \in Threads : u # t => th'[u] = th[u]
  BY <1>0, <1>3
<1>5. \A u \in Threads : th[u].dbh # c
  BY <1>0, <1>2 DEF HandleType
<1>6. \A p \in DOMAIN pools : \A k \in DOMAIN pools[p] : pools[p][k] # c
  BY <1>2, PoolsHold
<1>7. \A u, v \in Threads : u # v /\ th'[u].dbh # 0 => th'[u].dbh # th'[v].dbh
  BY <1>3, <1>4, <1>5 DEF Apart
<1>8. \A u \in Threads, q \in DOMAIN pools' : \A k \in DOMAIN pools'[q] : pools'[q][k] # th'[u].dbh
  BY <1>1, <1>3, <1>4, <1>6 DEF Apart
<1> QED
  BY <1>1, <1>7, <1>8 DEF Apart

\* A connection given back leaves the handle as it enters the pool.
LEMMA ApartGiveBack ==
    ASSUME Base, Apart, NEW t \in Threads, GiveBack(t)
    PROVE  Apart'
<1>0. /\ SharedOK /\ th \in [Threads -> HandleType] /\ th[t] \in HandleType
      /\ (th[t].pc \in InUse => th[t].dbh # 0) /\ pools \in Seq(Seq(DOMAIN conns))
  BY BaseShared DEF SharedOK
<1>1. th' = [th EXCEPT ![t] = NoHandle] /\ th[t].pc = "back"
  BY DEF GiveBack, At
<1>2. th' = [th EXCEPT ![t] = th'[t]] /\ th'[t].dbh = 0
  BY <1>1, GoneHand
<1>3. CASE kind = "pooled" /\ HasKey(store, th[t].case)
  <2> DEFINE p == store[Find(store, th[t].case)].obj
             d == th[t].dbh
             n == Len(pools[p])
  <2>1. pools' = [pools EXCEPT ![p] = Append(@, d)]
    BY <1>3 DEF GiveBack
  <2>2. p \in DOMAIN pools
    BY <1>0, <1>3, FoundPool
  <2>3. d \in DOMAIN conns /\ d # 0
    BY <1>0, <1>1 DEF InUse, HandleType
  <2> HIDE DEF p
  <2>4. pools[p] \in Seq(DOMAIN conns) /\ DOMAIN pools[p] = 1 .. n /\ n \in Nat
    BY <2>2, PoolsHold
  <2>5. /\ DOMAIN Append(pools[p], d) = 1 .. n + 1
        /\ \A k \in 1 .. n : Append(pools[p], d)[k] = pools[p][k]
        /\ Append(pools[p], d)[n + 1] = d
    <3> HIDE DEF d
    <3>1. /\ Append(pools[p], d) \in Seq(DOMAIN conns) /\ Len(Append(pools[p], d)) = n + 1
          /\ \A k \in 1 .. n : Append(pools[p], d)[k] = pools[p][k]
          /\ Append(pools[p], d)[n + 1] = d
      BY <2>3, <2>4, AppendProperties
    <3> QED
      BY <3>1, LenProperties
  <2>6. /\ DOMAIN pools' = DOMAIN pools /\ pools'[p] = Append(pools[p], d)
        /\ \A q \in DOMAIN pools : q # p => pools'[q] = pools[q]
    BY <1>0, <2>1, <2>2
  \* Every entry was there, or is the one given back.
  <2>7. \A q \in DOMAIN pools' : \A k \in DOMAIN pools'[q] :
           \/ k \in DOMAIN pools[q] /\ pools'[q][k] = pools[q][k]
           \/ q = p /\ k = n + 1 /\ pools'[q][k] = d
    <3>1. \A k \in 1 .. n + 1 : k \in 1 .. n \/ k = n + 1
      BY <2>4
    <3> QED
      BY <2>4, <2>5, <2>6, <3>1
  <2>8. \A q \in DOMAIN pools : \A k \in DOMAIN pools[q] : pools[q][k] # d /\ pools[q][k] # 0
    BY PoolsHold DEF Apart
  <2> HIDE DEF n
  <2>9. \A u \in Threads : u # t => th'[u] = th[u] /\ th[u].dbh # d
    BY <1>0, <1>2, <2>3 DEF Apart
  <2> HIDE DEF d
  <2>10. \A u, v \in Threads : u # v /\ th'[u].dbh # 0 => th'[u].dbh # th'[v].dbh
    BY <1>2, <2>9 DEF Apart
  <2>11. \A u \in Threads, q \in DOMAIN pools' : \A k \in DOMAIN pools'[q] :
            pools'[q][k] # th'[u].dbh
    <3> SUFFICES ASSUME NEW u \in Threads, NEW q \in DOMAIN pools', NEW k \in DOMAIN pools'[q]
                 PROVE  pools'[q][k] # th'[u].dbh
      OBVIOUS
    <3>1. CASE u = t
      BY <1>2, <2>3, <2>6, <2>7, <2>8, <3>1
    <3>2. CASE u # t
      BY <2>6, <2>7, <2>9, <3>2 DEF Apart
    <3> QED
      BY <3>1, <3>2
  <2>12. \A q, s \in DOMAIN pools' : \A k \in DOMAIN pools'[q], l \in DOMAIN pools'[s] :
            pools'[q][k] = pools'[s][l] => q = s /\ k = l
    BY <2>6, <2>7, <2>8 DEF Apart
  <2> QED
    BY <2>10, <2>11, <2>12 DEF Apart
<1>4. CASE ~(kind = "pooled" /\ HasKey(store, th[t].case))
  <2>1. pools' = pools
    BY <1>4 DEF GiveBack
  <2> QED
    BY <1>2, <2>1, ApartKept
<1> QED
  BY <1>3, <1>4

LEMMA ApartInductive == Base /\ Apart /\ [Next]_vars => Apart'
<1> SUFFICES ASSUME Base, Apart, [Next]_vars PROVE Apart'
  OBVIOUS
<1>1. CASE Next
  <2>1. PICK t \in Threads : Step(t)
    BY <1>1 DEF Next
  <2> QED
    BY <2>1, ApartOther, ApartMake, ApartTake, ApartOpen, ApartGiveBack DEF Step, Obtain
<1>2. CASE UNCHANGED vars
  BY <1>2 DEF vars, Apart
<1> QED
  BY <1>1, <1>2
\* A set of which no two elements differ has at most one.
LEMMA AtMostOne ==
    ASSUME NEW S, \A x, y \in S : x = y
    PROVE  Cardinality(S) \in {0, 1} /\ (Cardinality(S) = 1 => S # {})
<1>1. CASE S = {}
  BY <1>1, FS_EmptySet
<1>2. CASE S # {}
  <2>1. PICK x \in S : TRUE
    BY <1>2
  <2>2. S = {x}
    BY <2>1
  <2> QED
    BY <1>2, <2>2, FS_Singleton
<1> QED
  BY <1>1, <1>2

LEMMA ApartSuffices == Base /\ Apart => NeverShared
<1> SUFFICES ASSUME Base, Apart, NEW c \in DOMAIN conns
             PROVE  Cardinality(Idle(c)) + Cardinality({t \in Threads : Uses(t, c)}) <= 1
  BY DEF NeverShared
<1> DEFINE users == {t \in Threads : Uses(t, c)}
<1>0. c # 0
  BY BaseShared
<1>1. \A t, u \in users : t = u
  BY <1>0 DEF Uses, Apart
<1>2. \A x \in Idle(c) : /\ x = <<x[1], x[2]>> /\ x[1] \in DOMAIN pools /\ x[2] \in DOMAIN pools[x[1]]
                         /\ pools[x[1]][x[2]] = c
  BY DEF Idle
<1>3. \A x, y \in Idle(c) : x = y
  <2> SUFFICES ASSUME NEW x \in Idle(c), NEW y \in Idle(c) PROVE x = y
    OBVIOUS
  <2>1. x[1] = y[1] /\ x[2] = y[2]
    BY <1>2 DEF Apart
  <2> QED
    BY <1>2, <2>1
<1>4. Idle(c) = {} \/ users = {}
  BY <1>2 DEF Uses, Apart
<1> HIDE DEF users
<1>5. /\ Cardinality(Idle(c)) \in {0, 1} /\ (Cardinality(Idle(c)) = 1 => Idle(c) # {})
      /\ Cardinality(users) \in {0, 1} /\ (Cardinality(users) = 1 => users # {})
  BY <1>1, <1>3, AtMostOne
<1>6. Cardinality(Idle(c)) + Cardinality(users) <= 1
  BY <1>4, <1>5
<1> QED
  BY <1>6 DEF users

(* A connection is idle in one pool, once, or in the handle of one thread, *)
(* for any number of threads and pools: Pool.get takes what it returns out *)
(* of the queue, __del__ puts back what the handle held last, and a        *)
(* connection that replaces a lost one is new or was idle.                 *)
THEOREM SharingCorrect == Spec => []NeverShared
<1>1. Init => Base
  BY BaseInit
<1>2. Base /\ [Next]_vars => Base'
  BY BaseInductive
<1>3. Init => Apart
  <2> SUFFICES ASSUME Init PROVE Apart
    OBVIOUS
  <2>1. pools = <<>> /\ \A t \in Threads : th[t].dbh = 0
    BY NoHandleFacts DEF Init
  <2> QED
    BY <2>1 DEF Apart
<1>4. Base /\ Apart /\ [Next]_vars => Apart'
  BY ApartInductive
<1>5. Base /\ Apart => NeverShared
  BY ApartSuffices
<1> QED
  BY <1>1, <1>2, <1>3, <1>4, <1>5, PTL DEF Spec
-----------------------------------------------------------------------------
(* Rows: what one step of thread t may do with them.  RowsOwned and         *)
(* RowsHeld follow from it.                                                 *)

RowStep(t) ==
    /\ th' = [th EXCEPT ![t] = th'[t]]
    /\ DOMAIN rows \subseteq DOMAIN rows'
    /\ InHand(th'[t]) \subseteq InHand(th[t]) \cup (DOMAIN rows' \ DOMAIN rows)
    /\ \A r \in DOMAIN rows \ InHand(th[t]) : rows'[r] = rows[r]
    /\ \A r \in InHand(th[t]) : rows[r].copies <= rows[r].lost =>
          /\ rows'[r].copies <= 1 + rows'[r].lost
          /\ r \in InHand(th'[t]) => rows'[r].copies <= rows'[r].lost
    /\ \A r \in InHand(th[t]) : rows'[r].fate = "given" => r \in InHand(th'[t])
    /\ \A r \in DOMAIN rows' \ DOMAIN rows :
          rows'[r].copies = 0 /\ rows'[r].lost = 0 /\ r \in InHand(th'[t])

\* What is in a hand is a row.
LEMMA HandFacts ==
    ASSUME Base, NEW t \in Threads
    PROVE  /\ ToSet(th[t].buf) \subseteq DOMAIN rows /\ ToSet(th[t].stmt) \subseteq DOMAIN rows
           /\ InHand(th[t]) \subseteq DOMAIN rows
           /\ ToSet(<<>>) = {}
           /\ \A r \in DOMAIN rows : rows[r] \in RowType
<1>1. th[t] \in HandleType /\ rows \in Seq(RowType) /\ DOMAIN rows = 1 .. Len(rows)
  BY BaseShared DEF SharedOK
<1>2. ToSet(th[t].buf) \subseteq DOMAIN rows /\ ToSet(th[t].stmt) \subseteq DOMAIN rows
  BY <1>1, ToSetFacts DEF HandleType
<1>3. \A r \in DOMAIN rows : rows[r] \in RowType
  BY <1>1, ElementOfSeq
<1>4. ToSet(<<>>) = {}
  BY DEF ToSet
<1> QED
  BY <1>2, <1>3, <1>4 DEF InHand

\* A step keeps who owns which row, and how often rows are stored.
LEMMA OwnedStep ==
    ASSUME Base, RowsOwned, NEW t \in Threads, RowStep(t)
    PROVE  RowsOwned'
<1>0. th \in [Threads -> HandleType]
  BY BaseShared
<1>1. \A u \in Threads : u # t => th'[u] = th[u] /\ InHand(th'[u]) = InHand(th[u])
  BY <1>0 DEF RowStep
<1>2. \A u \in Threads : InHand(th[u]) \subseteq DOMAIN rows
  BY HandFacts
<1>3. \A u, v \in Threads : u # v => InHand(th'[u]) \cap InHand(th'[v]) = {}
  <2>1. \A u \in Threads : u # t => InHand(th'[t]) \cap InHand(th[u]) = {}
    BY <1>2 DEF RowStep, RowsOwned
  <2> QED
    BY <1>1, <2>1 DEF RowsOwned
<1>4. \A u \in Threads : \A r \in InHand(th'[u]) : rows'[r].copies <= rows'[r].lost
  <2> SUFFICES ASSUME NEW u \in Threads, NEW r \in InHand(th'[u])
               PROVE  rows'[r].copies <= rows'[r].lost
    OBVIOUS
  <2>1. CASE u # t
    <3>1. r \in InHand(th[u]) /\ r \in DOMAIN rows /\ r \notin InHand(th[t])
      BY <1>1, <1>2, <2>1 DEF RowsOwned
    <3>2. rows'[r] = rows[r]
      BY <3>1 DEF RowStep
    <3> QED
      BY <3>1, <3>2 DEF RowsOwned
  <2>2. CASE u = t /\ r \in InHand(th[t])
    <3>1. rows[r].copies <= rows[r].lost
      BY <2>2 DEF RowsOwned
    <3> QED
      BY <2>2, <3>1 DEF RowStep
  <2>3. CASE u = t /\ r \in DOMAIN rows' \ DOMAIN rows
    <3>1. rows'[r].copies = 0 /\ rows'[r].lost = 0
      BY <2>3 DEF RowStep
    <3> QED
      BY <3>1
  <2>4. u = t => r \in InHand(th[t]) \/ r \in DOMAIN rows' \ DOMAIN rows
    BY DEF RowStep
  <2> QED
    BY <2>1, <2>2, <2>3, <2>4
<1>5. \A r \in DOMAIN rows' : rows'[r].copies <= 1 + rows'[r].lost
  <2> SUFFICES ASSUME NEW r \in DOMAIN rows' PROVE rows'[r].copies <= 1 + rows'[r].lost
    OBVIOUS
  <2>1. CASE r \in InHand(th[t])
    <3>1. rows[r].copies <= rows[r].lost
      BY <2>1 DEF RowsOwned
    <3> QED
      BY <2>1, <3>1 DEF RowStep
  <2>2. CASE r \in DOMAIN rows /\ r \notin InHand(th[t])
    <3>1. rows'[r] = rows[r]
      BY <2>2 DEF RowStep
    <3> QED
      BY <2>2, <3>1 DEF RowsOwned
  <2>3. CASE r \notin DOMAIN rows
    <3>1. rows'[r].copies = 0 /\ rows'[r].lost = 0
      BY <2>3 DEF RowStep
    <3> QED
      BY <3>1
  <2> QED
    BY <2>1, <2>2, <2>3
<1> QED
  BY <1>3, <1>4, <1>5 DEF RowsOwned

\* A step forgets no row.
LEMMA HeldStep ==
    ASSUME Base, RowsHeld, NEW t \in Threads, RowStep(t)
    PROVE  RowsHeld'
<1>0. th \in [Threads -> HandleType]
  BY BaseShared
<1>1. \A u \in Threads : u # t => th'[u] = th[u]
  BY <1>0 DEF RowStep
<1> SUFFICES ASSUME NEW r \in DOMAIN rows', rows'[r].fate = "given"
             PROVE  \E u \in Threads : r \in InHand(th'[u])
  BY DEF RowsHeld
<1>2. CASE r \notin DOMAIN rows
  BY <1>2 DEF RowStep
<1>3. CASE r \in InHand(th[t])
  BY <1>3 DEF RowStep
<1>4. CASE r \in DOMAIN rows /\ r \notin InHand(th[t])
  <2>1. rows'[r] = rows[r]
    BY <1>4 DEF RowStep
  <2>2. PICK u \in Threads : r \in InHand(th[u])
    BY <1>4, <2>1 DEF RowsHeld
  <2>3. u # t
    BY <1>4, <2>2
  <2> QED
    BY <1>1, <2>2, <2>3
<1> QED
  BY <1>2, <1>3, <1>4

\* A step that leaves the rows alone, and the hand at least what it had that matters.
LEMMA RowStepKept ==
    ASSUME Base, NEW t \in Threads, th' = [th EXCEPT ![t] = th'[t]], rows' = rows,
           InHand(th'[t]) = InHand(th[t])
    PROVE  RowStep(t)
<1>1. \A r \in InHand(th[t]) : rows[r].copies \in Nat /\ rows[r].lost \in Nat
  BY HandFacts DEF RowType
<1> QED
  BY <1>1 DEF RowStep

\* A new row in the hand.
LEMMA RowStepNew ==
    ASSUME Base, NEW t \in Threads, th' = [th EXCEPT ![t] = th'[t]], th[t].case \in Cases,
           rows' = NewRow(t), InHand(th'[t]) = InHand(th[t]) \cup {Len(rows) + 1}
    PROVE  RowStep(t)
<1>1. /\ DOMAIN rows' = 1 .. Len(rows) + 1 /\ Len(rows) \in Nat
      /\ \A r \in DOMAIN rows : rows'[r] = rows[r]
      /\ rows'[Len(rows) + 1].copies = 0 /\ rows'[Len(rows) + 1].lost = 0
  BY NewRowFacts
<1>2. DOMAIN rows = 1 .. Len(rows)
  BY BaseShared
<1>3. DOMAIN rows \subseteq DOMAIN rows' /\ DOMAIN rows' \ DOMAIN rows = {Len(rows) + 1}
  BY <1>1, <1>2
<1>4. /\ InHand(th[t]) \subseteq DOMAIN rows
      /\ \A r \in InHand(th[t]) : rows[r].copies \in Nat /\ rows[r].lost \in Nat
  BY HandFacts DEF RowType
<1> QED
  BY <1>1, <1>3, <1>4 DEF RowStep

\* What the changes do to one row.
LEMMA RowValues ==
    ASSUME Base, NEW t \in Threads, NEW Q, DOMAIN Q = DOMAIN rows,
           NEW r \in DOMAIN rows, Q[r] \in RowType
    PROVE  /\ RowsAfterError(t)[r].copies = rows[r].copies
           /\ RowsAfterError(t)[r].lost = rows[r].lost
           /\ IF r \in ToSet(th[t].stmt) /\ (~th[t].bulk \/ th[t].then = "back")
              THEN RowsAfterError(t)[r].fate = "error" ELSE RowsAfterError(t)[r] = rows[r]
           /\ r \notin ToSet(th[t].stmt) => Stored(t, Q)[r] = Q[r] /\ CountLoss(t, Q)[r] = Q[r]
           /\ r \in ToSet(th[t].stmt) =>
                /\ Stored(t, Q)[r].copies = Q[r].copies + 1
                /\ Stored(t, Q)[r].lost = Q[r].lost /\ Stored(t, Q)[r].fate = "stored"
                /\ CountLoss(t, Q)[r].copies = Q[r].copies
                /\ CountLoss(t, Q)[r].lost = Q[r].lost + 1 /\ CountLoss(t, Q)[r].fate = Q[r].fate
<1>1. rows[r] \in RowType
  BY HandFacts
<1>2. /\ RowsAfterError(t)[r].copies = rows[r].copies
      /\ RowsAfterError(t)[r].lost = rows[r].lost
      /\ IF r \in ToSet(th[t].stmt) /\ (~th[t].bulk \/ th[t].then = "back")
         THEN RowsAfterError(t)[r].fate = "error" ELSE RowsAfterError(t)[r] = rows[r]
  BY <1>1 DEF RowsAfterError, RowType
<1>3. r \notin ToSet(th[t].stmt) => Stored(t, Q)[r] = Q[r] /\ CountLoss(t, Q)[r] = Q[r]
  BY DEF Stored, CountLoss
<1>4. ASSUME r \in ToSet(th[t].stmt)
      PROVE  /\ Stored(t, Q)[r].copies = Q[r].copies + 1
             /\ Stored(t, Q)[r].lost = Q[r].lost /\ Stored(t, Q)[r].fate = "stored"
  <2> DEFINE at == Q[r].at \cup {conns[th[t].dbh].case}
  <2>1. Stored(t, Q)[r] = [Q[r] EXCEPT !.copies = Q[r].copies + 1, !.fate = "stored", !.at = at]
    BY <1>4, Zenon DEF Stored
  <2> HIDE DEF at
  <2> QED
    BY <2>1 DEF RowType
<1>5. ASSUME r \in ToSet(th[t].stmt)
      PROVE  /\ CountLoss(t, Q)[r].copies = Q[r].copies
             /\ CountLoss(t, Q)[r].lost = Q[r].lost + 1 /\ CountLoss(t, Q)[r].fate = Q[r].fate
  BY <1>5 DEF CountLoss, RowType
<1> QED
  BY <1>2, <1>3, <1>4, <1>5

\* The statement of a handle that sends, or connects again to send.
LEMMA Stranded ==
    ASSUME Base, NEW t \in Threads, th[t].pc = "send" \/ th[t].again
    PROVE  /\ th[t].bulk => th[t].stmt = th[t].buf
           /\ th[t].then = "back" => th[t].bulk
           /\ th[t].bulk \in BOOLEAN
<1>1. Phase(th[t]) /\ th[t] \in HandleType
  BY BaseShared
<1> QED
  BY <1>1 DEF Phase, HandleType

\* The error of a statement: the buffer stays, or the rows are known to be in error.
LEMMA RowStepError ==
    ASSUME Base, NEW t \in Threads, th[t].pc = "send" \/ th[t].again, th' = AfterError(t),
           DOMAIN rows' = DOMAIN rows,
           \A r \in DOMAIN rows \ ToSet(th[t].stmt) : rows'[r] = rows[r],
           \A r \in ToSet(th[t].stmt) :
              /\ rows[r].copies <= rows[r].lost => rows'[r].copies <= rows'[r].lost
              /\ (~th[t].bulk \/ th[t].then = "back") => rows'[r].fate # "given"
              /\ rows'[r].lost \in Nat /\ rows'[r].copies \in Nat
    PROVE  RowStep(t)
<1>1. /\ th' = [th EXCEPT ![t] = th'[t]] /\ th'[t].stmt = <<>>
      /\ \/ th[t].then = "back" /\ th'[t].buf = <<>>
         \/ th[t].then = "held" /\ th'[t].buf = th[t].buf
  BY ErrorHand
<1>2. /\ th[t].bulk => th[t].stmt = th[t].buf
      /\ th[t].then = "back" => th[t].bulk
      /\ th[t].bulk \in BOOLEAN
  BY Stranded
<1>3. /\ ToSet(th[t].buf) \subseteq DOMAIN rows /\ ToSet(th[t].stmt) \subseteq DOMAIN rows
      /\ ToSet(<<>>) = {} /\ \A r \in DOMAIN rows : rows[r].copies \in Nat /\ rows[r].lost \in Nat
  BY HandFacts DEF RowType
<1>4. InHand(th'[t]) \subseteq InHand(th[t])
  BY <1>1, <1>3 DEF InHand
<1>5. \A r \in InHand(th[t]) : rows'[r].fate = "given" => r \in InHand(th'[t])
  <2> SUFFICES ASSUME NEW r \in InHand(th[t]), rows'[r].fate = "given" PROVE r \in InHand(th'[t])
    OBVIOUS
  <2>1. CASE th[t].then = "back"
    <3>1. r \in ToSet(th[t].stmt)
      BY <1>2, <2>1 DEF InHand
    <3> QED
      BY <2>1, <3>1
  <2>2. CASE th[t].then # "back"
    <3>1. th'[t].buf = th[t].buf
      BY <1>1, <2>2
    <3>2. r \in ToSet(th[t].buf)
      BY <1>2 DEF InHand
    <3> QED
      BY <3>1, <3>2 DEF InHand
  <2> QED
    BY <2>1, <2>2
<1>6. \A r \in InHand(th[t]) : rows[r].copies <= rows[r].lost =>
          rows'[r].copies <= 1 + rows'[r].lost /\ rows'[r].copies <= rows'[r].lost
  <2> SUFFICES ASSUME NEW r \in InHand(th[t]), rows[r].copies <= rows[r].lost
               PROVE  rows'[r].copies <= 1 + rows'[r].lost /\ rows'[r].copies <= rows'[r].lost
    OBVIOUS
  <2>1. r \in DOMAIN rows
    BY <1>3 DEF InHand
  <2>2. rows'[r].copies <= rows'[r].lost /\ rows'[r].copies \in Nat /\ rows'[r].lost \in Nat
    BY <1>3, <2>1
  <2> QED
    BY <2>2
<1>7. \A r \in DOMAIN rows \ InHand(th[t]) : rows'[r] = rows[r]
  BY DEF InHand
<1> QED
  BY <1>1, <1>4, <1>5, <1>6, <1>7 DEF RowStep
\* Refused and Fail: rows that are only in the statement are in error.
LEMMA RowStepRefused ==
    ASSUME Base, NEW t \in Threads, th[t].pc = "send" \/ th[t].again, th' = AfterError(t),
           rows' = RowsAfterError(t)
    PROVE  RowStep(t)
<1>1. DOMAIN rows' = DOMAIN rows
  BY DEF RowsAfterError
<1>2. ToSet(th[t].stmt) \subseteq DOMAIN rows /\ \A r \in DOMAIN rows : rows[r] \in RowType
  BY HandFacts
<1>3. \A r \in DOMAIN rows :
        /\ rows'[r].copies = rows[r].copies /\ rows'[r].lost = rows[r].lost
        /\ IF r \in ToSet(th[t].stmt) /\ (~th[t].bulk \/ th[t].then = "back")
           THEN rows'[r].fate = "error" ELSE rows'[r] = rows[r]
  BY <1>2, RowValues
<1>4. \A r \in DOMAIN rows \ ToSet(th[t].stmt) : rows'[r] = rows[r]
  BY <1>3
<1>5. \A r \in ToSet(th[t].stmt) :
         /\ rows[r].copies <= rows[r].lost => rows'[r].copies <= rows'[r].lost
         /\ (~th[t].bulk \/ th[t].then = "back") => rows'[r].fate # "given"
         /\ rows'[r].lost \in Nat /\ rows'[r].copies \in Nat
  <2> SUFFICES ASSUME NEW r \in ToSet(th[t].stmt)
               PROVE  /\ rows[r].copies <= rows[r].lost => rows'[r].copies <= rows'[r].lost
                      /\ (~th[t].bulk \/ th[t].then = "back") => rows'[r].fate # "given"
                      /\ rows'[r].lost \in Nat /\ rows'[r].copies \in Nat
    OBVIOUS
  <2>1. r \in DOMAIN rows /\ rows[r].copies \in Nat /\ rows[r].lost \in Nat
    BY <1>2 DEF RowType
  <2> QED
    BY <1>3, <2>1
<1> QED
  BY <1>1, <1>4, <1>5, RowStepError

\* What a lost connection leaves of the rows, before the error is known.
LEMMA LostValues ==
    ASSUME Base, NEW t \in Threads, th[t].dbh # 0,
           NEW Q \in {rows} \cup (IF Up(t) THEN {Stored(t, rows)} ELSE {}), NEW r \in DOMAIN rows,
           NEW after, after = IF Up(t) THEN CountLoss(t, Q) ELSE Q
    PROVE  /\ after[r] \in RowType
           /\ r \notin ToSet(th[t].stmt) => after[r] = rows[r]
           /\ rows[r].copies <= rows[r].lost => after[r].copies <= after[r].lost
           /\ after[r].fate \in {rows[r].fate, "stored"}
<1>0. /\ rows \in Seq(RowType) /\ rows[r] \in RowType /\ DOMAIN rows = 1 .. Len(rows)
  BY BaseShared, HandFacts DEF SharedOK
<1>1. Q = rows \/ (Q = Stored(t, rows) /\ Up(t))
  OBVIOUS
<1>2. Q \in Seq(RowType) /\ DOMAIN Q = DOMAIN rows
  BY <1>0, <1>1, RowChanges
<1>3. after \in Seq(RowType) /\ DOMAIN after = DOMAIN rows
  BY <1>2, RowChanges
<1>4. Q[r] \in RowType /\ after[r] \in RowType
  <2>1. r \in 1 .. Len(Q) /\ r \in 1 .. Len(after)
    BY <1>2, <1>3, LenProperties
  <2> QED
    BY <1>2, <1>3, <2>1, ElementOfSeq
<1>5. /\ r \notin ToSet(th[t].stmt) => Q[r] = rows[r] /\ after[r] = Q[r]
      /\ after[r].fate = Q[r].fate
      /\ Q[r].fate \in {rows[r].fate, "stored"}
  BY <1>0, <1>1, <1>2, <1>4, RowValues
<1>6. ASSUME r \in ToSet(th[t].stmt), rows[r].copies <= rows[r].lost
      PROVE  after[r].copies <= after[r].lost
  <2>1. rows[r].copies \in Nat /\ rows[r].lost \in Nat
    BY <1>0 DEF RowType
  <2>2. CASE Up(t)
    <3>1. /\ Q[r].copies = rows[r].copies \/ Q[r].copies = rows[r].copies + 1
          /\ Q[r].lost = rows[r].lost
      BY <1>0, <1>1, <1>6, RowValues
    <3>2. after[r].copies = Q[r].copies /\ after[r].lost = Q[r].lost + 1
      BY <1>2, <1>4, <1>6, <2>2, RowValues
    <3> QED
      BY <1>6, <2>1, <3>1, <3>2
  <2>3. CASE ~Up(t)
    BY <1>1, <1>6, <2>3
  <2> QED
    BY <2>2, <2>3
<1> QED
  BY <1>4, <1>5, <1>6

\* A connection lost under a statement.
LEMMA RowStepLose ==
    ASSUME Base, NEW t \in Threads, Lose(t)
    PROVE  RowStep(t)
<1>0. /\ th[t] \in HandleType /\ th \in [Threads -> HandleType]
      /\ th[t].pc = "send" /\ th[t].dbh # 0
  BY BaseShared DEF Lose, At, InUse
<1>1. PICK Q \in {rows} \cup (IF Up(t) THEN {Stored(t, rows)} ELSE {}) : LostWith(t, Q)
  BY DEF Lose, LostWith
<1>2. DOMAIN rows' = DOMAIN rows
  BY <1>0, <1>1, LostRows
<1>3. PICK after : after = IF Up(t) THEN CountLoss(t, Q) ELSE Q
  OBVIOUS
<1>4. \A r \in DOMAIN rows :
        /\ after[r] \in RowType
        /\ r \notin ToSet(th[t].stmt) => after[r] = rows[r]
        /\ rows[r].copies <= rows[r].lost => after[r].copies <= after[r].lost
        /\ after[r].fate \in {rows[r].fate, "stored"}
  BY <1>0, <1>3, LostValues
<1>5. /\ ToSet(th[t].buf) \subseteq DOMAIN rows /\ ToSet(th[t].stmt) \subseteq DOMAIN rows
      /\ \A r \in DOMAIN rows : rows[r] \in RowType
  BY HandFacts
<1>6. CASE th[t].again
  <2>1. /\ th' = AfterError(t)
        /\ rows' = [r \in DOMAIN rows |->
                      IF RowsAfterError(t)[r] = rows[r] THEN after[r]
                      ELSE [after[r] EXCEPT !.fate = "error"]]
    BY <1>1, <1>3, <1>6 DEF LostWith
  <2>2. \A r \in DOMAIN rows :
          IF r \in ToSet(th[t].stmt) /\ (~th[t].bulk \/ th[t].then = "back")
          THEN RowsAfterError(t)[r].fate = "error" ELSE RowsAfterError(t)[r] = rows[r]
    BY <1>5, RowValues
  <2>3. \A r \in DOMAIN rows \ ToSet(th[t].stmt) : rows'[r] = rows[r]
    BY <1>4, <2>1, <2>2
  <2>4. ASSUME NEW r \in ToSet(th[t].stmt)
        PROVE  /\ rows[r].copies <= rows[r].lost => rows'[r].copies <= rows'[r].lost
               /\ (~th[t].bulk \/ th[t].then = "back") => rows'[r].fate # "given"
               /\ rows'[r].lost \in Nat /\ rows'[r].copies \in Nat
    <3>1. r \in DOMAIN rows /\ after[r] \in RowType
      BY <1>4, <1>5, <2>4
    <3>2. /\ rows'[r].copies = after[r].copies /\ rows'[r].lost = after[r].lost
          /\ rows'[r].fate = "error" \/ (RowsAfterError(t)[r] = rows[r] /\ rows'[r].fate = after[r].fate)
      BY <2>1, <3>1 DEF RowType
    <3>3. (~th[t].bulk \/ th[t].then = "back") => RowsAfterError(t)[r].fate = "error"
      BY <2>2, <2>4, <3>1
    <3>4. (~th[t].bulk \/ th[t].then = "back") => rows'[r].fate # "given"
      BY <1>4, <3>1, <3>2, <3>3
    <3>5. after[r].lost \in Nat /\ after[r].copies \in Nat
      BY <3>1 DEF RowType
    <3>6. rows[r].copies <= rows[r].lost => rows'[r].copies <= rows'[r].lost
      BY <1>4, <3>1, <3>2
    <3> QED
      BY <3>2, <3>4, <3>5, <3>6
  <2> QED
    BY <1>0, <1>2, <2>1, <2>3, <2>4, RowStepError
<1>7. CASE ~th[t].again
  <2>1. th' = [th EXCEPT ![t].pc = FirstStep, ![t].again = TRUE] /\ rows' = after
    BY <1>1, <1>3, <1>7 DEF LostWith
  <2>2. th' = [th EXCEPT ![t] = th'[t]] /\ th'[t].buf = th[t].buf /\ th'[t].stmt = th[t].stmt
    BY <1>0, <2>1 DEF HandleType
  <2>3. InHand(th'[t]) = InHand(th[t]) /\ InHand(th[t]) \subseteq DOMAIN rows
    BY <1>5, <2>2 DEF InHand
  <2>4. \A r \in DOMAIN rows \ InHand(th[t]) : rows'[r] = rows[r]
    BY <1>4, <2>1 DEF InHand
  <2>5. \A r \in InHand(th[t]) : rows[r].copies <= rows[r].lost =>
          rows'[r].copies <= 1 + rows'[r].lost /\ rows'[r].copies <= rows'[r].lost
    <3> SUFFICES ASSUME NEW r \in InHand(th[t]), rows[r].copies <= rows[r].lost
                 PROVE  rows'[r].copies <= 1 + rows'[r].lost /\ rows'[r].copies <= rows'[r].lost
      OBVIOUS
    <3>1. rows'[r] \in RowType /\ rows'[r].copies <= rows'[r].lost
      BY <1>4, <2>1, <2>3
    <3>2. rows'[r].copies \in Nat /\ rows'[r].lost \in Nat
      BY <3>1 DEF RowType
    <3> QED
      BY <3>1, <3>2
  <2> QED
    BY <1>2, <2>2, <2>3, <2>4, <2>5 DEF RowStep
<1> QED
  BY <1>6, <1>7

\* A statement that succeeded: its rows are stored and leave the hand.
LEMMA RowStepSucceed ==
    ASSUME Base, NEW t \in Threads, Succeed(t)
    PROVE  RowStep(t)
<1>0. th[t].pc = "send" /\ th' = Sent(t) /\ rows' = Stored(t, rows) /\ Phase(th[t])
  BY BaseShared DEF Succeed, At
<1>1. /\ th' = [th EXCEPT ![t] = th'[t]] /\ th'[t].stmt = <<>>
      /\ th'[t].buf = IF th[t].bulk THEN <<>> ELSE th[t].buf
  BY <1>0, SentHand DEF Cleared
<1>2. /\ th[t].bulk => th[t].stmt = th[t].buf
      /\ ~th[t].bulk => ToSet(th[t].stmt) \cap ToSet(th[t].buf) = {}
      /\ th[t].bulk \in BOOLEAN
  BY <1>0, Stranded DEF Phase
<1>3. /\ ToSet(th[t].buf) \subseteq DOMAIN rows /\ ToSet(th[t].stmt) \subseteq DOMAIN rows
      /\ ToSet(<<>>) = {} /\ \A r \in DOMAIN rows : rows[r] \in RowType
  BY HandFacts
<1>4. DOMAIN rows' = DOMAIN rows
  BY <1>0 DEF Stored
<1>5. \A r \in DOMAIN rows :
        /\ r \notin ToSet(th[t].stmt) => rows'[r] = rows[r]
        /\ r \in ToSet(th[t].stmt) =>
             rows'[r].copies = rows[r].copies + 1 /\ rows'[r].lost = rows[r].lost
             /\ rows'[r].fate = "stored"
  BY <1>0, <1>3, RowValues
<1>6. InHand(th'[t]) = InHand(th[t]) \ ToSet(th[t].stmt)
  <2>1. CASE th[t].bulk
    BY <1>1, <1>2, <1>3, <2>1 DEF InHand
  <2>2. CASE ~th[t].bulk
    BY <1>1, <1>2, <1>3, <2>2 DEF InHand
  <2> QED
    BY <2>1, <2>2
<1>7. \A r \in InHand(th[t]) : r \in DOMAIN rows
  BY <1>3 DEF InHand
<1>8. \A r \in InHand(th[t]) : rows[r].copies <= rows[r].lost =>
        /\ rows'[r].copies <= 1 + rows'[r].lost
        /\ r \in InHand(th'[t]) => rows'[r].copies <= rows'[r].lost
  <2> SUFFICES ASSUME NEW r \in InHand(th[t]), rows[r].copies <= rows[r].lost
               PROVE  /\ rows'[r].copies <= 1 + rows'[r].lost
                      /\ r \in InHand(th'[t]) => rows'[r].copies <= rows'[r].lost
    OBVIOUS
  <2>1. r \in DOMAIN rows /\ rows[r].copies \in Nat /\ rows[r].lost \in Nat
    BY <1>3, <1>7 DEF RowType
  <2> QED
    BY <1>5, <1>6, <2>1
<1>9. \A r \in InHand(th[t]) : rows'[r].fate = "given" => r \in InHand(th'[t])
  BY <1>5, <1>6, <1>7
<1>10. \A r \in DOMAIN rows \ InHand(th[t]) : rows'[r] = rows[r]
  BY <1>5 DEF InHand
<1> QED
  BY <1>1, <1>4, <1>6, <1>8, <1>9, <1>10 DEF RowStep

\* mass_insert_start: the rows of the buffer are dropped.
LEMMA RowStepStart ==
    ASSUME Base, NEW t \in Threads, MassInsertStart(t)
    PROVE  RowStep(t)
<1>0. /\ th[t] \in HandleType /\ th \in [Threads -> HandleType] /\ Phase(th[t])
      /\ th[t].pc = "held" /\ th' = [th EXCEPT ![t].buf = <<>>]
      /\ rows' = [r \in DOMAIN rows |->
                    IF r \in ToSet(th[t].buf) THEN [rows[r] EXCEPT !.fate = "dropped"] ELSE rows[r]]
  BY BaseShared DEF MassInsertStart, At
<1>1. th' = [th EXCEPT ![t] = th'[t]] /\ th'[t].buf = <<>> /\ th'[t].stmt = th[t].stmt
  BY <1>0 DEF HandleType
<1>2. th[t].stmt = <<>>
  BY <1>0 DEF Phase
<1>3. /\ ToSet(th[t].buf) \subseteq DOMAIN rows /\ ToSet(<<>>) = {}
      /\ \A r \in DOMAIN rows : rows[r] \in RowType
  BY HandFacts
<1>4. InHand(th'[t]) = {} /\ InHand(th[t]) = ToSet(th[t].buf)
  BY <1>1, <1>2, <1>3 DEF InHand
<1>5. \A r \in ToSet(th[t].buf) :
        rows'[r].copies = rows[r].copies /\ rows'[r].lost = rows[r].lost /\ rows'[r].fate = "dropped"
        /\ rows[r].copies \in Nat /\ rows[r].lost \in Nat
  BY <1>0, <1>3 DEF RowType
<1>6. \A r \in ToSet(th[t].buf) : rows[r].copies <= rows[r].lost => rows'[r].copies <= 1 + rows'[r].lost
  BY <1>5
<1>7. DOMAIN rows' = DOMAIN rows /\ \A r \in DOMAIN rows \ ToSet(th[t].buf) : rows'[r] = rows[r]
  BY <1>0
<1> QED
  BY <1>1, <1>4, <1>5, <1>6, <1>7 DEF RowStep
\* A row added goes to the statement or to the buffer.
LEMMA RowStepInsert ==
    ASSUME Base, NEW t \in Threads, Insert(t) \/ MassInsert(t)
    PROVE  RowStep(t)
<1>0. /\ th[t] \in HandleType /\ th \in [Threads -> HandleType] /\ Phase(th[t])
      /\ th[t].pc = "held" /\ rows' = NewRow(t)
  BY BaseShared DEF Insert, MassInsert, At
<1>1. th[t].stmt = <<>> /\ th[t].case \in Cases
  BY <1>0 DEF Phase
<1>2. ToSet(<<>>) = {}
  BY HandFacts
<1>3. /\ th' = [th EXCEPT ![t] = th'[t]]
      /\ InHand(th'[t]) = ToSet(th[t].buf) \cup {Len(rows) + 1}
  <2>1. CASE Insert(t)
    <3> DEFINE stmt == <<Len(rows) + 1>>
    <3>1. ToSet(stmt) = {Len(rows) + 1}
      BY DEF ToSet
    <3>2. \E bulk, then : SendRows(t, bulk, stmt, then)
      BY <2>1, Zenon DEF Insert
    <3> HIDE DEF stmt
    <3>3. th' = [th EXCEPT ![t] = th'[t]] /\ th'[t].buf = th[t].buf /\ th'[t].stmt = stmt
      BY <3>2, SendHand
    <3> QED
      BY <3>1, <3>3 DEF InHand
  <2>2. CASE MassInsert(t)
    <3>1. PICK R : /\ th' = [th EXCEPT ![t] = R] /\ R.buf = Append(th[t].buf, Len(rows) + 1)
                   /\ R.stmt = <<>> \/ R.stmt = R.buf
      BY <2>2, BufferFacts
    <3>2. ToSet(Append(th[t].buf, Len(rows) + 1)) = ToSet(th[t].buf) \cup {Len(rows) + 1}
      <4>1. DOMAIN rows = 1 .. Len(rows) /\ Len(rows) \in Nat
        BY BaseShared
      <4>2. DOMAIN rows \subseteq 1 .. Len(rows) + 1 /\ Len(rows) + 1 \in 1 .. Len(rows) + 1
        BY <4>1
      <4>3. th[t].buf \in Seq(1 .. Len(rows) + 1)
        BY <1>0, <4>2, SeqMonotonic DEF HandleType
      <4> QED
        BY <4>2, <4>3, ToSetFacts
    <3>3. InHand(R) = ToSet(th[t].buf) \cup {Len(rows) + 1}
      BY <1>2, <3>1, <3>2 DEF InHand
    <3> QED
      BY <1>0, <3>1, <3>3
  <2> QED
    BY <2>1, <2>2
<1>4. InHand(th[t]) = ToSet(th[t].buf)
  BY <1>1, <1>2 DEF InHand
<1> QED
  BY <1>0, <1>1, <1>3, <1>4, RowStepNew

\* Every step does with rows what RowStep says.
LEMMA RowStepAll ==
    ASSUME Base, NEW t \in Threads, Step(t)
    PROVE  RowStep(t)
<1>0. /\ th[t] \in HandleType /\ th \in [Threads -> HandleType] /\ Phase(th[t])
      /\ rows \in Seq(RowType) /\ ToSet(<<>>) = {}
  BY BaseShared, HandFacts DEF SharedOK
<1>1. CASE FindPool(t) \/ MakePool(t) \/ Look(t) \/ SetArgs(t) \/ \E c \in Cases : New(t, c)
  <2>1. /\ th' = [th EXCEPT ![t] = th'[t]] /\ rows' = rows
        /\ th'[t].buf = th[t].buf /\ th'[t].stmt = th[t].stmt
    BY <1>1, QuietHand
  <2> QED
    BY <2>1, RowStepKept DEF InHand
<1>2. CASE Take(t) \/ Open(t)
  <2>1. rows' = rows /\ \E c : th' = Got(t, c)
    BY <1>2 DEF Take, Open
  <2>2. th' = [th EXCEPT ![t] = th'[t]] /\ th'[t].buf = th[t].buf /\ th'[t].stmt = th[t].stmt
    BY <2>1, GotHand
  <2> QED
    BY <2>1, <2>2, RowStepKept DEF InHand
<1>3. CASE Refused(t)
  <2>1. th[t].pc = "open" /\ rows' = RowsAfterError(t)
    BY <1>3 DEF Refused, At
  <2>2. CASE th[t].again
    <3>1. th' = AfterError(t)
      BY <1>3, <2>2 DEF Refused
    <3> QED
      BY <2>1, <2>2, <3>1, RowStepRefused
  <2>3. CASE ~th[t].again
    <3>1. th' = [th EXCEPT ![t] = NoHandle] /\ th[t].buf = <<>> /\ th[t].stmt = <<>>
      BY <1>0, <1>3, <2>1, <2>3 DEF Refused, Phase
    <3>2. th' = [th EXCEPT ![t] = th'[t]] /\ th'[t].buf = <<>> /\ th'[t].stmt = <<>>
      BY <3>1, GoneHand
    <3>3. rows' = rows
      BY <1>0, <2>1, <3>1 DEF RowsAfterError
    <3> QED
      BY <3>1, <3>2, <3>3, RowStepKept DEF InHand
  <2> QED
    BY <2>2, <2>3
<1>4. CASE Insert(t) \/ MassInsert(t)
  BY <1>4, RowStepInsert
<1>5. ASSUME th[t].pc = "held", rows' = rows, NEW bulk, NEW then, SendRows(t, bulk, th[t].buf, then)
      PROVE  RowStep(t)
  <2>1. th' = [th EXCEPT ![t] = th'[t]] /\ th'[t].buf = th[t].buf /\ th'[t].stmt = th[t].buf
    BY <1>5, SendHand
  <2>2. th[t].stmt = <<>>
    BY <1>0, <1>5 DEF Phase
  <2>3. InHand(th'[t]) = InHand(th[t])
    BY <1>0, <2>1, <2>2 DEF InHand
  <2> QED
    BY <1>5, <2>1, <2>3, RowStepKept
<1>6. CASE MassInsertCommit(t)
  BY <1>5, <1>6 DEF MassInsertCommit, At
<1>7. CASE MassInsertStart(t)
  BY <1>7, RowStepStart
<1>8. CASE Succeed(t)
  BY <1>8, RowStepSucceed
<1>9. CASE Fail(t)
  BY <1>9, RowStepRefused DEF Fail, At
<1>10. CASE Lose(t)
  BY <1>10, RowStepLose
<1>11. CASE Drop(t)
  <2>1. CASE th[t].buf = <<>>
    <3>1. /\ rows' = rows /\ th' = [th EXCEPT ![t] = th'[t]]
          /\ th'[t].buf = th[t].buf /\ th'[t].stmt = th[t].stmt
      BY <1>0, <1>11, <2>1 DEF Drop, Go, HandleType
    <3> QED
      BY <3>1, RowStepKept DEF InHand
  <2>2. CASE th[t].buf # <<>>
    BY <1>5, <1>11, <2>2 DEF Drop, At
  <2> QED
    BY <2>1, <2>2
<1>12. CASE GiveBack(t)
  <2>1. th[t].pc = "back" /\ th' = [th EXCEPT ![t] = NoHandle] /\ rows' = rows
    BY <1>12 DEF GiveBack, At
  <2>2. th[t].buf = <<>> /\ th[t].stmt = <<>>
    BY <1>0, <2>1 DEF Phase
  <2>3. th' = [th EXCEPT ![t] = th'[t]] /\ th'[t].buf = <<>> /\ th'[t].stmt = <<>>
    BY <2>1, GoneHand
  <2> QED
    BY <2>1, <2>2, <2>3, RowStepKept DEF InHand
<1> QED
  BY <1>1, <1>2, <1>3, <1>4, <1>6, <1>7, <1>8, <1>9, <1>10, <1>11, <1>12
     DEF Step, Obtain, Work

LEMMA RowsInductive ==
    /\ Base /\ RowsOwned /\ [Next]_vars => RowsOwned'
    /\ Base /\ RowsHeld /\ [Next]_vars => RowsHeld'
<1>1. ASSUME Base, Next PROVE \E t \in Threads : RowStep(t)
  BY <1>1, RowStepAll DEF Next
<1>2. ASSUME Base, RowsOwned, [Next]_vars PROVE RowsOwned'
  <2>1. CASE Next
    BY <1>1, <1>2, <2>1, OwnedStep
  <2>2. CASE UNCHANGED vars
    BY <1>2, <2>2 DEF vars, RowsOwned
  <2> QED
    BY <1>2, <2>1, <2>2
<1>3. ASSUME Base, RowsHeld, [Next]_vars PROVE RowsHeld'
  <2>1. CASE Next
    BY <1>1, <1>3, <2>1, HeldStep
  <2>2. CASE UNCHANGED vars
    BY <1>3, <2>2 DEF vars, RowsHeld
  <2> QED
    BY <1>3, <2>1, <2>2
<1> QED
  BY <1>2, <1>3

\* There are no rows at first.
LEMMA RowsInit == Init => RowsOwned /\ RowsHeld
<1> SUFFICES ASSUME Init PROVE RowsOwned /\ RowsHeld
  OBVIOUS
<1>1. rows = <<>> /\ \A t \in Threads : InHand(th[t]) = {}
  <2>1. ToSet(<<>>) = {}
    BY DEF ToSet
  <2> QED
    BY <2>1, NoHandleFacts DEF Init, InHand
<1>2. DOMAIN rows = {}
  BY <1>1
<1>3. RowsOwned
  BY <1>1, <1>2 DEF RowsOwned
<1>4. RowsHeld
  BY <1>2 DEF RowsHeld
<1> QED
  BY <1>3, <1>4

(* A row is in the database once, and once more for each connection lost   *)
(* under a statement that carried it, for any number of threads, rows and  *)
(* faults: execute's second attempt and the commits after an error repeat  *)
(* only rows whose statement met a lost connection.                        *)
THEOREM CopiesCorrect == Spec => []CopiesHaveCause
<1>1. Init => Base /\ RowsOwned
  BY BaseInit, RowsInit
<1>2. Base /\ RowsOwned /\ [Next]_vars => Base' /\ RowsOwned'
  BY BaseInductive, RowsInductive
<1>3. RowsOwned => CopiesHaveCause
  BY DEF RowsOwned, CopiesHaveCause
<1> QED
  BY <1>1, <1>2, <1>3, PTL DEF Spec

(* A row handed to a handle is in its buffer or its statement until it is  *)
(* stored, an error met it or mass_insert_start was called over it, for    *)
(* any number of threads, rows and faults: no retry, failed commit or      *)
(* destructor loses a row silently.                                        *)
THEOREM RowsCorrect == Spec => []NoRowForgotten
<1>1. Init => Base /\ RowsHeld
  BY BaseInit, RowsInit
<1>2. Base /\ RowsHeld /\ [Next]_vars => Base' /\ RowsHeld'
  BY BaseInductive, RowsInductive
<1>3. Base /\ RowsHeld => NoRowForgotten
  <2> SUFFICES ASSUME Base, RowsHeld, NEW t \in Threads
               PROVE  ToSet(th[t].buf \o th[t].stmt) = InHand(th[t])
    BY DEF RowsHeld, NoRowForgotten
  <2>1. th[t].buf \in Seq(DOMAIN rows) /\ th[t].stmt \in Seq(DOMAIN rows)
    BY BaseShared DEF HandleType
  <2> QED
    BY <2>1, ToSetConcat DEF InHand
<1> QED
  BY <1>1, <1>2, <1>3, PTL DEF Spec
=============================================================================
