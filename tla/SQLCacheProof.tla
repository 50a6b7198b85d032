--------------------------- MODULE SQLCacheProof ---------------------------
(***************************************************************************)
(* Proofs about SQLCache, for any number of readers, writers, tables and   *)
(* queries: type correctness; a row that says 'cached' has its table; the  *)
(* rows a reader asks for are in the table it reads; and in realtime mode  *)
(* only entries made while a writer was under way are out of date.  Each   *)
(* rests on an inductive invariant of its own, all of them on Base.        *)
(***************************************************************************)
EXTENDS SQLCache, FiniteSetTheorems, WellFoundedInduction, TLAPS

-----------------------------------------------------------------------------
(* The inductive invariant.                                                 *)

\* Ids up to last have been given out, the others have left no trace.
Issued == 1 .. last

\* The places where a reader has an entry.
Holding == {"select", "spin", "link", "join"}

\* Threads hold ids that have been given out.
IdsKnown ==
    /\ \A i \in Ids : IF i <= last
                      THEN entry[i].query \in Queries
                      ELSE status[i] = "none" /\ cache[i] = None /\ entry[i].pc = "none"
    /\ \A r \in Readers : reader[r].pc \in Holding =>
          reader[r].id \in Issued
    /\ refresher.pc \in {"create", "update", "delete"} => refresher.id \in Issued
    /\ refresher.pc \notin {"idle", "prune"} => refresher.todo \subseteq Issued

\* The ids still to be given out to calls and to the refresher are in the bound.
Pending == {r \in Readers : reader[r].pc \in {"expire", "lookup", "make"}}
Owed == IF refresher.pc \in {"idle", "prune"} THEN 0 ELSE Cardinality(refresher.todo)
Budget == last + Cardinality(Pending) + Owed <= MaxIds

\* What is published, or about to be, has its table.
TablePresent ==
    \A i \in Rows :
        \/ status[i] = "cached"
        \/ entry[i].pc = "update"
        \/ refresher.pc = "update" /\ refresher.id = i
        => cache[i] # None

\* WindowCovered, from the moment the entry is made.
WindowFits ==
    \A r \in Readers : reader[r].pc \in Holding =>
        /\ entry[reader[r].id].lower <= reader[r].limit
        /\ reader[r].limit + Length <= entry[reader[r].id].lower + CacheLength

\* A reader that links an entry is alone with it and has linked what it says.
Linking ==
    /\ \A r \in Readers : reader[r].pc = "link" =>
          /\ entry[reader[r].id].pc = "new"
          /\ entry[reader[r].id].query = reader[r].query
          /\ reader[r].id \in Rows =>
                \A t \in TablesOf[reader[r].query] \ reader[r].todo : <<reader[r].id, t>> \in links
    /\ \A r, s \in Readers : reader[r].pc = "link" /\ reader[s].pc = "link" /\ r # s =>
          reader[r].id # reader[s].id

\* An entry that is being filled or has its table is linked to all its tables.
Linked ==
    \A i \in Rows : entry[i].pc \in {"create", "update"} \/ cache[i] # None =>
        \A t \in TablesOf[entry[i].query] : <<i, t>> \in links

\* A writer has every table filled before it began on its list.
WriterSees ==
    \A w \in Writers, i \in Rows :
        writer[w].pc = "write" /\ writer[w].table \in TablesOf[entry[i].query] /\ i \notin overlap =>
            /\ ~Filling(i)
            /\ cache[i] # None => i \in writer[w].todo

UpToDate == \A i \in Rows : cache[i] # None /\ i \notin overlap => cache[i] = Snapshot(entry[i].query)

Realtime == mode = "realtime" => refresher.pc = "idle" /\ Linking /\ Linked /\ WriterSees /\ UpToDate

-----------------------------------------------------------------------------
(* Types, ids and the bound on them.                                        *)

Base == TypeOK /\ IdsKnown /\ Budget

\* What a query reads is an answer to it.
LEMMA SnapshotFacts ==
    ASSUME version \in [Tables -> Nat], NEW q \in Queries
    PROVE  Snapshot(q) \in Answers(q) /\ Snapshot(q) # None
<1>1. TablesOf[q] \subseteq Tables
  BY QueriesAssumption
<1>2. Snapshot(q) \in Answers(q)
  BY <1>1 DEF Snapshot, Answers
<1> QED
  BY <1>2, NoneAssumption

\* The counts of the bound are numbers.
LEMMA Counts ==
    ASSUME TypeOK
    PROVE  /\ IsFiniteSet(Pending) /\ Cardinality(Pending) \in Nat
           /\ IsFiniteSet(refresher.todo) /\ Cardinality(refresher.todo) \in Nat
           /\ Owed \in Nat
<1>1. IsFiniteSet(Pending) /\ Cardinality(Pending) \in Nat
  BY ReadersAssumption, FS_Subset, FS_CardinalityType DEF Pending
<1>2. IsFiniteSet(Ids) /\ refresher.todo \subseteq Ids
  BY FS_Interval, BoundsAssumption DEF TypeOK, Ids, RefresherType
<1>3. IsFiniteSet(refresher.todo) /\ Cardinality(refresher.todo) \in Nat
  BY <1>2, FS_Subset, FS_CardinalityType
<1> QED
  BY <1>1, <1>3 DEF Owed

\* A step that gives out no id and admits no call or refresh keeps the bound.
LEMMA BudgetKept ==
    ASSUME TypeOK, Budget, last' = last, refresher' = refresher, Pending' \subseteq Pending
    PROVE  Budget'
<1>1. Cardinality(Pending') <= Cardinality(Pending) /\ Cardinality(Pending') \in Nat
  BY Counts, FS_Subset, FS_CardinalityType
<1>2. Owed' = Owed /\ Owed \in Nat /\ last \in Nat
  BY Counts, BoundsAssumption DEF Owed, TypeOK
<1> QED
  BY <1>1, <1>2, Counts, BoundsAssumption DEF Budget

\* A step of one reader that touches nothing else.
LEMMA ReaderOnly ==
    ASSUME Base, OnlyReader, NEW r \in Readers, NEW R,
           reader' = [reader EXCEPT ![r] = R],
           R \in ReaderType(R.query),
           R.pc # "idle" => R.query \in Queries,
           R.pc \in {"select", "spin", "link", "join"} => R.id \in Issued
    PROVE  /\ TypeOK' /\ IdsKnown'
           /\ (R.pc \in {"expire", "lookup", "make"} => r \in Pending) => Base'
<1>1. /\ DOMAIN reader' = Readers /\ reader'[r] = R
      /\ \A s \in Readers : s # r => reader'[s] = reader[s]
  BY DEF Base, TypeOK
<1>2. TypeOK'
  BY <1>1 DEF Base, TypeOK, OnlyReader, rest, db, Rows, At
<1>3. IdsKnown'
  BY <1>1 DEF Base, TypeOK, IdsKnown, OnlyReader, rest, db, Issued, Holding
<1>4. ASSUME R.pc \in {"expire", "lookup", "make"} => r \in Pending PROVE Base'
  <2>1. Pending' \subseteq Pending
    BY <1>1, <1>4 DEF Pending
  <2>2. Budget'
    BY <2>1, BudgetKept DEF Base, OnlyReader
  <2> QED
    BY <1>2, <1>3, <2>2 DEF Base
<1> QED
  BY <1>2, <1>3, <1>4

\* Removing an entry leaves the types of the database's part alone.
LEMMA RemoveFacts ==
    ASSUME TypeOK, NEW i \in Ids, Remove(i)
    PROVE  /\ status' \in [Ids -> {"none", "progress", "cached"}]
           /\ Rows' = Rows \ {i} /\ old' \subseteq Rows'
           /\ links' = {l \in links : l[1] # i} /\ links' \subseteq Ids \X Tables
           /\ DOMAIN cache' = Ids /\ cache'[i] = None
           /\ \A j \in Ids : j # i => cache'[j] = cache[j] /\ status'[j] = status[j]
BY DEF TypeOK, Remove, Rows

\* A row is deleted by its id, and its links and its table are left.
LEMMA DeleteRowFacts ==
    ASSUME TypeOK, NEW i \in Ids, status' = [status EXCEPT ![i] = "none"], old' = old \ {i}
    PROVE  /\ status' \in [Ids -> {"none", "progress", "cached"}]
           /\ Rows' = Rows \ {i} /\ old' \subseteq Rows'
           /\ \A j \in Ids : j # i => status'[j] = status[j]
BY DEF TypeOK, Rows

\* Publishing an entry makes no row.
LEMMA SetCachedFacts ==
    ASSUME TypeOK, NEW i \in Ids, SetCached(i)
    PROVE  /\ status' \in [Ids -> {"none", "progress", "cached"}]
           /\ Rows' = Rows /\ old' \subseteq Rows'
           /\ \A j \in Ids : j # i => status'[j] = status[j]
BY DEF TypeOK, SetCached, Rows

\* The worker of an entry changes only how far its making has come.
LEMMA StepFacts ==
    ASSUME TypeOK, NEW i \in Ids,
           NEW pc \in {"none", "new", "create", "update", "done", "dead", "refresh"}, Step(i, pc)
    PROVE  /\ entry' \in [Ids -> EntryType]
           /\ entry'[i].pc = pc
           /\ \A j \in Ids : /\ j # i => entry'[j] = entry[j]
                             /\ entry'[j].query = entry[j].query
                             /\ entry'[j].lower = entry[j].lower
BY DEF TypeOK, Step, EntryType

\* The parts of TypeOK and IdsKnown that are about the entries.
DatabaseOK ==
    /\ status \in [Ids -> {"none", "progress", "cached"}]
    /\ old \subseteq Rows
    /\ links \subseteq Ids \X Tables
    /\ entry \in [Ids -> EntryType]
    /\ DOMAIN cache = Ids
    /\ \A i \in Ids : cache[i] # None => cache[i] \in Answers(entry[i].query)
    /\ last \in 0 .. MaxIds
    /\ \A i \in Rows : i <= last
    /\ overlap \subseteq Ids
    /\ \A i \in Ids : IF i <= last
                      THEN entry[i].query \in Queries
                      ELSE status[i] = "none" /\ cache[i] = None /\ entry[i].pc = "none"

\* A new entry is the one after the last, about which nothing was known.
LEMMA NewEntryFacts ==
    ASSUME TypeOK, IdsKnown, last < MaxIds,
           NEW q \in Queries, NEW lower \in Nat, NEW pc \in {"new", "refresh"},
           NewEntry(q, lower, pc)
    PROVE  /\ last' = last + 1 /\ last' \in Ids /\ last' \in 0 .. MaxIds
           /\ status' \in [Ids -> {"none", "progress", "cached"}]
           /\ Rows' = Rows \cup {last'} /\ last' \notin Rows /\ status'[last'] = "progress"
           /\ entry' \in [Ids -> EntryType]
           /\ entry'[last'] = [query |-> q, lower |-> lower, pc |-> pc]
           /\ cache[last'] = None /\ entry[last'].pc = "none"
           /\ \A j \in Ids : j # last' => status'[j] = status[j] /\ entry'[j] = entry[j]
           /\ overlap \subseteq overlap' /\ overlap' \subseteq overlap \cup {last'}
           /\ Writing(q) # {} => last' \in overlap'
           /\ old' = old /\ links' = links /\ cache' = cache
           /\ DatabaseOK'
<1>1. last \in Nat /\ last' = last + 1 /\ last' \in Ids /\ last' \in 0 .. MaxIds
  BY BoundsAssumption DEF TypeOK, NewEntry, Ids
<1>2. status[last'] = "none" /\ cache[last'] = None /\ entry[last'].pc = "none"
  BY <1>1 DEF IdsKnown, Holding
<1>3. /\ status' = [status EXCEPT ![last'] = "progress"]
      /\ entry' = [entry EXCEPT ![last'] = [query |-> q, lower |-> lower, pc |-> pc]]
  BY DEF NewEntry
<1>4. /\ status' \in [Ids -> {"none", "progress", "cached"}]
      /\ status'[last'] = "progress" /\ entry'[last'] = [query |-> q, lower |-> lower, pc |-> pc]
      /\ \A j \in Ids : j # last' => status'[j] = status[j] /\ entry'[j] = entry[j]
  BY <1>1, <1>3 DEF TypeOK
<1>5. entry' \in [Ids -> EntryType]
  BY <1>1, <1>3 DEF TypeOK, EntryType
<1>6. Rows' = Rows \cup {last'} /\ last' \notin Rows
  BY <1>1, <1>2, <1>4 DEF Rows
<1>7. /\ overlap \subseteq overlap' /\ overlap' \subseteq overlap \cup {last'}
      /\ Writing(q) # {} => last' \in overlap'
      /\ old' = old /\ links' = links /\ cache' = cache
  BY DEF NewEntry
<1>8. \A i \in Ids : cache'[i] # None => cache'[i] \in Answers(entry'[i].query)
  BY <1>1, <1>2, <1>4, <1>7 DEF TypeOK
<1>9. \A i \in Ids : IF i <= last'
                     THEN entry'[i].query \in Queries
                     ELSE status'[i] = "none" /\ cache'[i] = None /\ entry'[i].pc = "none"
  BY <1>1, <1>2, <1>4, <1>7 DEF IdsKnown, Ids, Holding
<1>10. \A i \in Rows' : i <= last'
  BY <1>1, <1>6 DEF TypeOK, Ids, Rows
<1>11. DatabaseOK'
  BY <1>1, <1>4, <1>5, <1>6, <1>7, <1>8, <1>9, <1>10 DEF TypeOK, DatabaseOK
<1> QED
  BY <1>1, <1>2, <1>4, <1>5, <1>6, <1>7, <1>11

\* A reader whose call is over.
Resting(late) == [IdleReader EXCEPT !.late = late]

\* The record of a reader whose call is over is well typed.
LEMMA RestingFacts ==
    ASSUME NEW late \in BOOLEAN
    PROVE  /\ Resting(late) \in ReaderType(Resting(late).query)
           /\ Resting(late).pc = "idle"
<1>1. Resting(late) = [pc |-> "idle", query |-> None, limit |-> 0, id |-> 0, todo |-> {},
                       left |-> 0, floor |-> None, late |-> late]
  BY DEF Resting, IdleReader
<1>2. Resting(late).query = None /\ Resting(late).pc = "idle"
  BY <1>1
<1>3. 0 \in 0 .. QueryTimeout /\ 0 \in 0 .. MaxIds /\ 0 \in Nat
  BY BoundsAssumption
<1> QED
  BY <1>1, <1>2, <1>3 DEF ReaderType

\* An idle reader is one whose call is over.
LEMMA IdleFacts ==
    /\ IdleReader \in ReaderType(IdleReader.query) /\ IdleReader \in ReaderType(None)
    /\ IdleReader.pc = "idle"
<1>1. PICK no \in BOOLEAN : no = FALSE
  OBVIOUS
<1>2. IdleReader = [pc |-> "idle", query |-> None, limit |-> 0, id |-> 0, todo |-> {},
                    left |-> 0, floor |-> None, late |-> no]
  BY <1>1, Zenon DEF IdleReader
<1>3. IdleReader = Resting(no) /\ IdleReader.query = None
  BY <1>2 DEF Resting
<1> QED
  BY <1>3, RestingFacts

\* Whatever the answer, the call is over.
LEMMA ReturnFacts ==
    ASSUME NEW r \in Readers, NEW answer, Return(r, answer)
    PROVE  \E late \in BOOLEAN : reader' = [reader EXCEPT ![r] = Resting(late)]
<1> DEFINE late == answer # None /\ \E t \in DOMAIN answer : answer[t] < reader[r].floor[t]
<1>1. late \in BOOLEAN
  BY Zenon
<1>2. reader' = [reader EXCEPT ![r] = Resting(late)]
  BY DEF Return, Resting
<1> QED
  BY <1>1, <1>2

\* A call that returns leaves the invariant of types and ids.
LEMMA ReturnBase ==
    ASSUME Base, NEW r \in Readers, NEW answer, Return(r, answer), OnlyReader
    PROVE  Base'
<1>1. PICK late \in BOOLEAN : reader' = [reader EXCEPT ![r] = Resting(late)]
  BY ReturnFacts
<1> QED
  BY <1>1, RestingFacts, ReaderOnly

\* The entry that a lookup picks covers what is asked for.
LEMMA FirstFacts ==
    ASSUME NEW ids \in SUBSET Ids, ids # {}
    PROVE  First(ids) \in ids
<1> DEFINE Less == OpToRel(<, Nat)
<1>1. ids \subseteq Nat
  BY DEF Ids
<1>2. PICK i \in ids : \A j \in ids : <<j, i>> \notin Less
  BY <1>1, WFMin, NatLessThanWellFounded
<1>3. \A j \in ids : ~(j < i)
  BY <1>1, <1>2 DEF OpToRel
<1>4. \A j \in ids : i <= j
  BY <1>1, <1>3
<1> QED
  BY <1>4 DEF First

\* The steps of cached_execute, and of its entry, keep types, ids and bound.
LEMMA BaseReader ==
    ASSUME Base, NEW r \in Readers, ReaderStep(r)
    PROVE  Base'
<1> USE BoundsAssumption
<1>0. /\ reader[r] \in ReaderType(reader[r].query) /\ DOMAIN reader = Readers
      /\ reader[r].pc # "idle" => reader[r].query \in Queries
  BY DEF Base, TypeOK, At
<1>1. CASE ExpireCache(r)
  <2> DEFINE R == [reader[r] EXCEPT !.pc = "lookup", !.todo = old]
  <2>1. reader' = [reader EXCEPT ![r] = R] /\ OnlyReader /\ reader[r].pc = "expire"
    BY <1>0, <1>1 DEF ExpireCache, At
  <2>2. R \in ReaderType(R.query) /\ R.pc = "lookup" /\ R.query = reader[r].query
    BY <1>0 DEF ReaderType, Base, TypeOK, Rows
  <2> HIDE DEF R
  <2> QED
    BY <1>0, <2>1, <2>2, ReaderOnly DEF Pending
<1>2. ASSUME NEW i \in Ids, ExpireOne(r, i) PROVE Base'
  <2>1. /\ reader' = [reader EXCEPT ![r].todo = @ \ {i}] /\ Remove(i)
        /\ UNCHANGED <<rest, version, entry, last, writer, refresher, overlap>>
    BY <1>2 DEF ExpireOne
  <2>2. /\ reader'[r] \in ReaderType(reader'[r].query) /\ DOMAIN reader' = Readers
        /\ reader'[r].pc = reader[r].pc /\ reader'[r].query = reader[r].query
        /\ reader'[r].id = reader[r].id
        /\ \A s \in Readers : s # r => reader'[s] = reader[s]
    BY <1>0, <2>1 DEF ReaderType
  <2>3. TypeOK'
    BY <2>1, <2>2, RemoveFacts DEF Base, TypeOK, rest, At, Rows
  <2>4. IdsKnown'
    <3>1. \A j \in Ids : cache[j] = None => cache'[j] = None
      BY <2>1, RemoveFacts DEF Base
    <3>2. \A j \in Ids : status[j] = "none" => status'[j] = "none"
      BY <2>1, RemoveFacts DEF Base, Rows
    <3> QED
      BY <2>1, <2>2, <3>1, <3>2 DEF Base, IdsKnown, Issued, Holding
  <2>5. Budget'
    BY <2>1, <2>2, BudgetKept DEF Base, Pending
  <2> QED
    BY <2>3, <2>4, <2>5 DEF Base
<1>3. CASE Lookup(r)
  <2> DEFINE found == {i \in Ids : Covers(i, reader[r].query, reader[r].limit)}
             i == First(found)
             R == IF found = {} THEN [reader[r] EXCEPT !.pc = "make"]
                  ELSE IF status[i] = "cached" THEN [reader[r] EXCEPT !.pc = "select", !.id = i]
                  ELSE [reader[r] EXCEPT !.pc = "spin", !.id = i, !.left = QueryTimeout]
  <2>1. reader' = [reader EXCEPT ![r] = R] /\ OnlyReader /\ reader[r].pc = "lookup"
    BY <1>0, <1>3 DEF Lookup, At
  <2>2. found # {} => i \in Rows
    BY FirstFacts DEF Covers
  <2> HIDE DEF found, i
  <2>3. found # {} => i \in Ids /\ i \in Issued /\ i \in 0 .. MaxIds
    BY <2>2 DEF Base, TypeOK, Rows, Issued, Ids
  <2>4. R \in ReaderType(R.query) /\ R.query = reader[r].query
    <3>1. CASE found = {}
      BY <1>0, <3>1 DEF ReaderType
    <3>2. CASE found # {} /\ status[i] = "cached"
      BY <1>0, <2>3, <3>2 DEF ReaderType
    <3>3. CASE found # {} /\ status[i] # "cached"
      <4>1. R = [[[reader[r] EXCEPT !.pc = "spin"] EXCEPT !.id = i] EXCEPT !.left = QueryTimeout]
        BY <3>3
      <4>2. QueryTimeout \in 0 .. QueryTimeout
        OBVIOUS
      <4> HIDE DEF R
      <4> QED
        BY <1>0, <2>3, <3>3, <4>1, <4>2 DEF ReaderType
    <3> QED
      BY <3>1, <3>2, <3>3
  <2>5. R.pc \in {"make", "select", "spin"} /\ (R.pc \in {"select", "spin"} => R.id \in Issued)
    BY <1>0, <2>3 DEF ReaderType
  <2> HIDE DEF R
  <2> QED
    BY <1>0, <2>1, <2>4, <2>5, ReaderOnly DEF Pending
<1>4. CASE Select(r)
  BY <1>4, ReturnBase DEF Select
<1>5. CASE Spin(r)
  <2>1. CASE reader[r].left = 0
    BY <1>5, <2>1, ReturnBase DEF Spin
  <2>2. CASE reader[r].left # 0 /\ Ready(reader[r].id)
    <3> DEFINE R == [reader[r] EXCEPT !.pc = "select"]
    <3>1. reader' = [reader EXCEPT ![r] = R] /\ OnlyReader /\ reader[r].pc = "spin"
      BY <1>0, <1>5, <2>2 DEF Spin, At, Move
    <3>2. R \in ReaderType(R.query) /\ R.query = reader[r].query /\ R.pc = "select" /\ R.id = reader[r].id
      BY <1>0 DEF ReaderType
    <3> HIDE DEF R
    <3> QED
      BY <1>0, <3>1, <3>2, ReaderOnly DEF Base, IdsKnown, Holding
  <2>3. CASE reader[r].left # 0 /\ ~Ready(reader[r].id)
    <3> DEFINE R == [reader[r] EXCEPT !.left = @ - 1]
    <3>1. reader' = [reader EXCEPT ![r] = R] /\ OnlyReader /\ reader[r].pc = "spin"
      BY <1>0, <1>5, <2>3 DEF Spin, At, Move
    <3>2. reader[r].left - 1 \in 0 .. QueryTimeout
      BY <1>0, <2>3 DEF ReaderType
    <3>3. R \in ReaderType(R.query) /\ R.query = reader[r].query /\ R.pc = "spin" /\ R.id = reader[r].id
      BY <1>0, <3>1, <3>2 DEF ReaderType
    <3> HIDE DEF R
    <3> QED
      BY <1>0, <3>1, <3>3, ReaderOnly DEF Base, IdsKnown, Holding
  <2> QED
    BY <2>1, <2>2, <2>3
<1>6. CASE Make(r)
  <2> DEFINE q == reader[r].query
             lower == LowerLimit(reader[r].limit)
  <2>1. /\ NewEntry(q, lower, "new") /\ reader[r].pc = "make"
        /\ reader' = [reader EXCEPT ![r].pc = "link", ![r].id = last', ![r].todo = TablesOf[q]]
        /\ UNCHANGED <<rest, version, writer, refresher>>
    BY <1>6 DEF Make, At
  <2>2. q \in Queries /\ TablesOf[q] \in SUBSET Tables
    BY <1>0, <2>1, QueriesAssumption
  <2>3. lower \in Nat
    BY <1>0, LengthAssumption DEF LowerLimit, ReaderType
  <2>4. r \in Pending /\ Cardinality(Pending \ {r}) = Cardinality(Pending) - 1
    BY <2>1, Counts, FS_RemoveElement DEF Pending, Base
  <2>5. last < MaxIds /\ last \in Nat
    <3>1. Pending # {} /\ Cardinality(Pending) # 0
      BY <2>4, Counts, FS_EmptySet DEF Base
    <3> QED
      BY <3>1, Counts DEF Base, Budget, TypeOK
  <2> HIDE DEF q, lower
  <2>6. /\ reader'[r] \in ReaderType(reader'[r].query) /\ DOMAIN reader' = Readers
        /\ reader'[r].pc = "link" /\ reader'[r].query = reader[r].query
        /\ reader'[r].id = last'
        /\ \A s \in Readers : s # r => reader'[s] = reader[s]
    <3>1. last' \in 0 .. MaxIds
      BY <2>1, <2>2, <2>3, <2>5, NewEntryFacts DEF Base
    <3> QED
      BY <1>0, <2>1, <2>2, <3>1 DEF ReaderType
  <2>7. DatabaseOK' /\ last' \in Ids /\ last' = last + 1
    BY <2>1, <2>2, <2>3, <2>5, NewEntryFacts DEF Base
  <2>8. TypeOK'
    BY <2>1, <2>6, <2>7 DEF Base, TypeOK, DatabaseOK, rest, At
  <2>9. IdsKnown'
    BY <2>1, <2>5, <2>6, <2>7 DEF Base, TypeOK, DatabaseOK, IdsKnown, Issued, Holding
  <2>10. Budget'
    <3>1. Pending' = Pending \ {r}
      BY <2>1, <2>6 DEF Pending
    <3>2. last' = last + 1 /\ Owed' = Owed
      BY <2>1 DEF NewEntry, Owed
    <3> QED
      BY <2>4, <2>5, <3>1, <3>2, Counts DEF Base, Budget
  <2> QED
    BY <2>8, <2>9, <2>10 DEF Base
<1>7. ASSUME NEW t \in Tables, Link(r, t) PROVE Base'
  <2>1. /\ reader' = [reader EXCEPT ![r].todo = @ \ {t}] /\ links' = links \cup {<<reader[r].id, t>>}
        /\ reader[r].pc = "link"
        /\ UNCHANGED <<rest, version, status, old, cache, entry, last, writer, refresher, overlap>>
    BY <1>7 DEF Link, At
  <2>2. /\ reader'[r] \in ReaderType(reader'[r].query) /\ DOMAIN reader' = Readers
        /\ reader'[r].pc = reader[r].pc /\ reader'[r].query = reader[r].query
        /\ reader'[r].id = reader[r].id
        /\ \A s \in Readers : s # r => reader'[s] = reader[s]
    BY <1>0, <2>1 DEF ReaderType
  <2>3. links' \subseteq Ids \X Tables
    BY <2>1 DEF Base, TypeOK, IdsKnown, Issued, Ids, Holding
  <2>4. TypeOK'
    BY <2>1, <2>2, <2>3 DEF Base, TypeOK, rest, At, Rows
  <2>5. IdsKnown'
    BY <2>1, <2>2 DEF Base, IdsKnown, Issued, TypeOK, Holding
  <2>6. Budget'
    BY <2>1, <2>2, BudgetKept DEF Base, Pending
  <2> QED
    BY <2>4, <2>5, <2>6 DEF Base
<1>8. CASE StartWorker(r)
  <2>1. /\ reader' = [reader EXCEPT ![r].pc = "join"] /\ Step(reader[r].id, "create")
        /\ reader[r].pc = "link"
        /\ UNCHANGED <<rest, version, db, last, writer, refresher, overlap>>
    BY <1>8 DEF StartWorker, Move, At, Step
  <2>2. /\ reader'[r] \in ReaderType(reader'[r].query) /\ DOMAIN reader' = Readers
        /\ reader'[r].pc = "join" /\ reader'[r].query = reader[r].query
        /\ reader'[r].id = reader[r].id
        /\ \A s \in Readers : s # r => reader'[s] = reader[s]
    BY <1>0, <2>1 DEF ReaderType
  <2>3. reader[r].id \in Ids /\ reader[r].id <= last
    BY <2>1 DEF Base, TypeOK, IdsKnown, Issued, Ids, Holding
  <2>4. TypeOK'
    BY <1>0, <2>1, <2>2, <2>3, StepFacts DEF Base, TypeOK, rest, db, At, Rows
  <2>5. IdsKnown'
    BY <2>1, <2>2, <2>3, StepFacts DEF Base, IdsKnown, Issued, TypeOK, db, Holding
  <2>6. Budget'
    BY <2>1, <2>2, BudgetKept DEF Base, Pending
  <2> QED
    BY <2>4, <2>5, <2>6 DEF Base
<1>9. CASE Join(r)
  <2>1. CASE entry[reader[r].id].pc = "done"
    <3> DEFINE R == [reader[r] EXCEPT !.pc = "select"]
    <3>1. reader' = [reader EXCEPT ![r] = R] /\ OnlyReader /\ reader[r].pc = "join"
      BY <1>0, <1>9, <2>1 DEF Join, At, Move
    <3>2. R \in ReaderType(R.query) /\ R.query = reader[r].query /\ R.pc = "select" /\ R.id = reader[r].id
      BY <1>0 DEF ReaderType
    <3> HIDE DEF R
    <3> QED
      BY <1>0, <3>1, <3>2, ReaderOnly DEF Base, IdsKnown, Holding
  <2> QED
    BY <1>9, <2>1, ReturnBase DEF Join
<1> QED
  BY <1>1, <1>2, <1>3, <1>4, <1>5, <1>6, <1>7, <1>8, <1>9 DEF ReaderStep

\* A call begins only when the ids it may need are within the bound.
LEMMA BaseAsk ==
    ASSUME Base, NEW r \in Readers, NEW q \in Queries, NEW limit \in Limits, Ask(r, q, limit)
    PROVE  Base'
<1> DEFINE pc == IF mode = "realtime" THEN "expire" ELSE "lookup"
           R == [IdleReader EXCEPT !.pc = pc, !.query = q, !.limit = limit, !.floor = Snapshot(q)]
<1>1. /\ reader' = [reader EXCEPT ![r] = R] /\ OnlyReader
      /\ reader[r].pc = "idle" /\ last + Reserved < MaxIds
  BY DEF Ask, At
<1>2. /\ IdleReader \in ReaderType(None) /\ q # None /\ Snapshot(q) \in Answers(q)
      /\ limit \in Nat /\ pc \in {"expire", "lookup"}
  BY IdleFacts, SnapshotFacts, NoneAssumption, LengthAssumption DEF Base, TypeOK
<1> HIDE DEF pc
<1>3. R \in ReaderType(R.query) /\ R.query = q /\ R.pc \in {"expire", "lookup"}
  BY <1>2 DEF ReaderType
<1> HIDE DEF R
<1>4. TypeOK' /\ IdsKnown'
  BY <1>1, <1>2, <1>3, ReaderOnly
<1>5. Budget'
  <2> DEFINE Busy == {s \in Readers : ~At(s, "idle")}
  <2>1. Pending \subseteq Busy /\ IsFiniteSet(Busy)
    BY FS_Subset, ReadersAssumption DEF Pending, At
  <2>2. Cardinality(Pending) <= Cardinality(Busy) /\ Cardinality(Busy) \in Nat
    BY <2>1, FS_Subset, FS_CardinalityType
  <2>3. Reserved = Cardinality(Busy) + Owed
    BY DEF Reserved, Owed
  <2>4. Pending' \subseteq Pending \cup {r}
    BY <1>1 DEF Pending, Base, TypeOK
  <2>5. Cardinality(Pending') <= Cardinality(Pending) + 1 /\ Cardinality(Pending') \in Nat
    <3>0. IsFiniteSet(Pending) /\ Cardinality(Pending) \in Nat
      BY Counts DEF Base
    <3>3. /\ IsFiniteSet(Pending \cup {r})
          /\ Cardinality(Pending \cup {r}) =
               IF r \in Pending THEN Cardinality(Pending) ELSE Cardinality(Pending) + 1
      BY <3>0, FS_AddElement
    <3>1. /\ IsFiniteSet(Pending \cup {r}) /\ Cardinality(Pending \cup {r}) <= Cardinality(Pending) + 1
          /\ Cardinality(Pending \cup {r}) \in Nat /\ Cardinality(Pending) \in Nat
      BY <3>0, <3>3
    <3>2. IsFiniteSet(Pending') /\ Cardinality(Pending') <= Cardinality(Pending \cup {r})
      BY <2>4, <3>1, FS_Subset
    <3> QED
      BY <3>1, <3>2, FS_CardinalityType
  <2>6. last' = last /\ Owed' = Owed /\ last \in Nat
    BY <1>1 DEF OnlyReader, Owed, Base, TypeOK
  <2> QED
    BY <1>1, <2>2, <2>3, <2>5, <2>6, Counts, BoundsAssumption DEF Base, Budget
<1> QED
  BY <1>4, <1>5 DEF Base

\* The steps of a worker, the end of its process, and time, keep types, ids and bound.
LEMMA BaseWorker ==
    ASSUME Base, NEW i \in Ids, WorkerStep(i) \/ Kill(i) \/ Age(i)
    PROVE  Base'
<1>0. /\ entry[i].pc # "none" => i <= last /\ entry[i].query \in Queries
      /\ TypeOK /\ IdsKnown /\ version \in [Tables -> Nat]
  BY DEF Base, TypeOK, IdsKnown, Holding
<1>1. CASE Create(i)
  <2>1. /\ entry[i].pc = "create" /\ Step(i, "update")
        /\ cache' = [cache EXCEPT ![i] = Snapshot(entry[i].query)]
        /\ UNCHANGED <<rest, version, status, old, links, last, reader, writer, refresher, overlap>>
    BY <1>1 DEF Create
  <2>2. cache'[i] \in Answers(entry[i].query)
    BY <1>0, <2>1, SnapshotFacts DEF TypeOK
  <2>3. TypeOK'
    BY <1>0, <2>1, <2>2, StepFacts DEF TypeOK, rest, Rows, At
  <2>4. IdsKnown'
    BY <1>0, <2>1, StepFacts DEF IdsKnown, Issued, TypeOK, Holding
  <2>5. Budget'
    BY <2>1, BudgetKept DEF Base, Pending
  <2> QED
    BY <2>3, <2>4, <2>5 DEF Base
<1>2. CASE CreateFails(i)
  <2>1. /\ entry[i].pc \in {"create", "update"} /\ Step(i, "done")
        /\ status' = [status EXCEPT ![i] = "none"] /\ old' = old \ {i}
        /\ UNCHANGED <<rest, version, links, cache, last, reader, writer, refresher, overlap>>
    BY <1>2 DEF CreateFails
  <2>5. /\ status' \in [Ids -> {"none", "progress", "cached"}]
        /\ Rows' = Rows \ {i} /\ old' \subseteq Rows'
    BY <1>0, <2>1, DeleteRowFacts
  <2>2. TypeOK'
    BY <1>0, <2>1, <2>5, StepFacts DEF TypeOK, rest, At
  <2>3. IdsKnown'
    BY <1>0, <2>1, StepFacts DEF IdsKnown, Issued, TypeOK, Holding
  <2>4. Budget'
    BY <2>1, BudgetKept DEF Base, Pending
  <2> QED
    BY <2>2, <2>3, <2>4 DEF Base
<1>3. CASE Publish(i)
  <2>1. /\ entry[i].pc = "update" /\ Step(i, "done") /\ SetCached(i)
        /\ UNCHANGED <<rest, version, links, cache, last, reader, writer, refresher, overlap>>
    BY <1>3 DEF Publish
  <2>2. TypeOK'
    BY <1>0, <2>1, StepFacts, SetCachedFacts DEF TypeOK, rest, At
  <2>3. IdsKnown'
    BY <1>0, <2>1, StepFacts, SetCachedFacts DEF IdsKnown, Issued, Holding
  <2>4. Budget'
    BY <2>1, BudgetKept DEF Base, Pending
  <2> QED
    BY <2>2, <2>3, <2>4 DEF Base
<1>4. CASE Kill(i)
  <2>1. /\ entry[i].pc # "none" /\ Step(i, "dead") /\ kills' = kills + 1 /\ kills < MaxKills
        /\ reader' = [r \in Readers |->
                        IF reader[r].id = i /\ reader[r].pc \in {"link", "join"}
                        THEN IdleReader ELSE reader[r]]
        /\ UNCHANGED <<mode, writes, version, db, last, writer, refresher, overlap>>
    BY <1>4 DEF Kill, Filling
  <2>2. IdleReader \in ReaderType(IdleReader.query) /\ IdleReader.pc = "idle"
    BY IdleFacts
  <2>3. kills' \in 0 .. MaxKills
    BY <1>0, <2>1, BoundsAssumption DEF TypeOK
  <2>4. TypeOK'
    BY <1>0, <2>1, <2>2, <2>3, StepFacts DEF TypeOK, db, Rows, At
  <2>5. IdsKnown'
    BY <1>0, <2>1, <2>2, StepFacts DEF IdsKnown, Issued, db, Holding
  <2>6. Budget'
    BY <2>1, <2>2, BudgetKept DEF Base, Pending
  <2> QED
    BY <2>4, <2>5, <2>6 DEF Base
<1>5. CASE Age(i)
  <2>1. /\ i \in Rows /\ old' = old \cup {i}
        /\ UNCHANGED <<rest, version, status, links, cache, entry, last, reader, writer,
                       refresher, overlap>>
    BY <1>5 DEF Age
  <2>2. TypeOK'
    BY <1>0, <2>1 DEF TypeOK, rest, Rows, At
  <2>3. IdsKnown'
    BY <1>0, <2>1 DEF IdsKnown, Issued, Holding
  <2>4. Budget'
    BY <2>1, BudgetKept DEF Base, Pending
  <2> QED
    BY <2>2, <2>3, <2>4 DEF Base
<1> QED
  BY <1>1, <1>2, <1>3, <1>4, <1>5 DEF WorkerStep

\* The steps of a writer keep types, ids and bound.
LEMMA BaseWriter ==
    ASSUME Base, NEW w \in Writers, WriterStep(w) \/ \E t \in Tables : Invalidate(w, t)
    PROVE  Base'
<1>0. /\ TypeOK /\ IdsKnown /\ writer[w] \in WriterType /\ DOMAIN writer = Writers
      /\ version \in [Tables -> Nat]
  BY DEF Base, TypeOK
<1>1. ASSUME NEW t \in Tables, Invalidate(w, t) PROVE Base'
  <2>1. /\ writes < MaxWrites /\ writes' = writes + 1
        /\ writer' = [writer EXCEPT ![w] =
              [pc |-> "write", table |-> t,
               todo |-> IF mode = "realtime" THEN {i \in Ids : <<i, t>> \in links} ELSE {}]]
        /\ overlap' \subseteq overlap \cup Ids
        /\ UNCHANGED <<mode, kills, version, db, entry, last, reader, refresher>>
    BY <1>1 DEF Invalidate
  <2>2. writer' \in [Writers -> WriterType]
    BY <1>0, <2>1 DEF TypeOK, WriterType
  <2>3. writes' \in 0 .. MaxWrites /\ overlap' \subseteq Ids
    BY <1>0, <2>1, BoundsAssumption DEF TypeOK
  <2>4. TypeOK'
    BY <1>0, <2>1, <2>2, <2>3 DEF TypeOK, db, Rows, At
  <2>5. IdsKnown'
    BY <1>0, <2>1 DEF IdsKnown, Issued, db, Holding
  <2>6. Budget'
    BY <2>1, BudgetKept DEF Base, Pending
  <2> QED
    BY <2>4, <2>5, <2>6 DEF Base
<1>2. ASSUME NEW i \in Ids, InvalidateOne(w, i) PROVE Base'
  <2>1. /\ Remove(i) /\ writer' = [writer EXCEPT ![w].todo = @ \ {i}]
        /\ UNCHANGED <<rest, version, entry, last, reader, refresher, overlap>>
    BY <1>2 DEF InvalidateOne
  <2>2. writer' \in [Writers -> WriterType]
    BY <1>0, <2>1 DEF TypeOK, WriterType
  <2>3. /\ status' \in [Ids -> {"none", "progress", "cached"}]
        /\ Rows' = Rows \ {i} /\ old' \subseteq Rows'
        /\ links' \subseteq Ids \X Tables /\ DOMAIN cache' = Ids
        /\ \A j \in Ids : cache'[j] = None \/ cache'[j] = cache[j]
    BY <1>0, <2>1, RemoveFacts
  <2>4. TypeOK'
    BY <1>0, <2>1, <2>2, <2>3 DEF TypeOK, rest, At
  <2>5. \A j \in Ids : status[j] = "none" => status'[j] = "none"
    BY <2>3 DEF Rows
  <2>6. IdsKnown'
    BY <1>0, <2>1, <2>3, <2>5 DEF IdsKnown, Issued, Holding
  <2>7. Budget'
    BY <2>1, BudgetKept DEF Base, Pending
  <2> QED
    BY <2>4, <2>6, <2>7 DEF Base
<1>3. CASE Write(w)
  <2>1. /\ version' = [version EXCEPT ![writer[w].table] = @ + 1]
        /\ writer' = [writer EXCEPT ![w] = IdleWriter]
        /\ UNCHANGED <<rest, db, entry, last, reader, refresher, overlap>>
    BY <1>3 DEF Write
  <2>2. writer' \in [Writers -> WriterType]
    BY <1>0, <2>1 DEF TypeOK, WriterType, IdleWriter
  <2>3. version' \in [Tables -> Nat]
    <3>1. CASE writer[w].table \in Tables
      BY <1>0, <2>1, <3>1
    <3>2. CASE writer[w].table \notin Tables
      BY <1>0, <2>1, <3>2
    <3> QED
      BY <3>1, <3>2
  <2>4. TypeOK'
    BY <1>0, <2>1, <2>2, <2>3 DEF TypeOK, rest, db, Rows, At
  <2>5. IdsKnown'
    BY <1>0, <2>1 DEF IdsKnown, Issued, db, Holding
  <2>6. Budget'
    BY <2>1, BudgetKept DEF Base, Pending
  <2> QED
    BY <2>4, <2>5, <2>6 DEF Base
<1> QED
  BY <1>1, <1>2, <1>3 DEF WriterStep

\* The steps of the refresher that give out no id.
LEMMA RefresherBudget ==
    ASSUME Base, TypeOK', last' = last, reader' = reader,
           Owed' <= Owed \/ last + Reserved + Owed' <= MaxIds
    PROVE  Budget'
<1>1. Pending' = Pending /\ Owed \in Nat /\ Cardinality(Pending) \in Nat /\ last \in Nat
  BY Counts DEF Pending, Base, TypeOK
<1>2. Owed' \in Nat
  <2>1. IsFiniteSet(Ids) /\ refresher'.todo \subseteq Ids
    BY FS_Interval, BoundsAssumption DEF TypeOK, Ids, RefresherType
  <2> QED
    BY <2>1, FS_Subset, FS_CardinalityType DEF Owed
<1>3. Cardinality(Pending) <= Reserved /\ Reserved \in Nat
  <2> DEFINE Busy == {s \in Readers : ~At(s, "idle")}
  <2>1. Pending \subseteq Busy /\ IsFiniteSet(Busy)
    BY FS_Subset, ReadersAssumption DEF Pending, At
  <2>2. Cardinality(Pending) <= Cardinality(Busy) /\ Cardinality(Busy) \in Nat
    BY <2>1, FS_Subset, FS_CardinalityType
  <2>3. Reserved = Cardinality(Busy) + Owed
    BY DEF Reserved, Owed
  <2> QED
    BY <1>1, <2>2, <2>3
<1>4. last + Cardinality(Pending) + Owed' <= MaxIds
  <2>1. CASE Owed' <= Owed
    BY <1>1, <1>2, <2>1, BoundsAssumption DEF Base, Budget
  <2>2. CASE last + Reserved + Owed' <= MaxIds
    <3>1. \A a, b, c, d \in Nat : b <= c /\ a + c + d <= MaxIds => a + b + d <= MaxIds
      BY BoundsAssumption
    <3> QED
      BY <1>1, <1>2, <1>3, <2>2, <3>1
  <2> QED
    BY <2>1, <2>2
<1> QED
  BY <1>1, <1>4 DEF Budget

\* The steps of the refresher keep types, ids and bound.
LEMMA BaseRefresh ==
    ASSUME Base, Refresh
    PROVE  Base'
<1>0. /\ TypeOK /\ IdsKnown /\ refresher \in RefresherType
      /\ version \in [Tables -> Nat] /\ Rows \subseteq Ids /\ \A i \in Rows : i <= last
  BY DEF Base, TypeOK, Rows
<1>10. Issued \subseteq Ids /\ \A i \in Issued : i <= last
  BY <1>0, BoundsAssumption DEF Issued, Ids, TypeOK
<1>1. CASE RefreshStart
  <2>1. /\ refresher' = [refresher EXCEPT !.pc = "insert", !.todo = Rows] /\ refresher.pc = "idle"
        /\ last + Reserved + Cardinality(Rows) <= MaxIds
        /\ UNCHANGED <<rest, version, db, entry, last, reader, writer, overlap>>
    BY <1>1 DEF RefreshStart, RefresherAt
  <2>2. refresher' \in RefresherType /\ refresher'.pc = "insert" /\ refresher'.todo = Rows
    BY <1>0, <2>1 DEF RefresherType
  <2>3. TypeOK'
    BY <1>0, <2>1, <2>2 DEF TypeOK, rest, db, Rows, At
  <2>4. IdsKnown'
    BY <1>0, <2>1, <2>2 DEF IdsKnown, Issued, db, Ids, Holding
  <2>5. Budget'
    BY <2>1, <2>2, <2>3, RefresherBudget DEF Owed
  <2> QED
    BY <2>3, <2>4, <2>5 DEF Base
<1>2. ASSUME NEW i \in Ids, RefreshInsert(i) PROVE Base'
  <2> DEFINE q == entry[i].query
             lower == entry[i].lower
  <2>1. /\ NewEntry(q, lower, "refresh") /\ refresher.pc = "insert" /\ i \in refresher.todo
        /\ refresher' = [pc |-> "create", todo |-> refresher.todo \ {i}, from |-> i, id |-> last']
        /\ UNCHANGED <<rest, version, reader, writer>>
    BY <1>2 DEF RefreshInsert, RefresherAt
  <2>2. q \in Queries /\ lower \in Nat
    BY <1>0, <2>1 DEF TypeOK, IdsKnown, EntryType, Issued, Holding
  <2>3. Owed \in Nat /\ Owed # 0 /\ Cardinality(refresher.todo \ {i}) = Owed - 1
    <3>1. IsFiniteSet(refresher.todo) /\ Owed = Cardinality(refresher.todo)
      BY <1>0, <2>1, Counts DEF Owed
    <3> QED
      BY <2>1, <3>1, FS_RemoveElement, FS_EmptySet, FS_CardinalityType
  <2>4. last < MaxIds /\ last \in Nat /\ Cardinality(Pending) \in Nat
    BY <1>0, <2>3, Counts, BoundsAssumption DEF Base, Budget, TypeOK
  <2> HIDE DEF q, lower
  <2>5. DatabaseOK' /\ last' \in Ids /\ last' = last + 1
    BY <1>0, <2>1, <2>2, <2>4, NewEntryFacts
  <2>6. refresher' \in RefresherType
    BY <1>0, <2>1, <2>5 DEF RefresherType, Ids
  <2>7. TypeOK'
    BY <1>0, <2>1, <2>5, <2>6 DEF TypeOK, DatabaseOK, rest, At
  <2>8. IdsKnown'
    BY <1>0, <2>1, <2>4, <2>5 DEF IdsKnown, DatabaseOK, Issued, Ids, Holding
  <2>9. Budget'
    <3>1. Pending' = Pending /\ Owed' = Owed - 1
      BY <2>1, <2>3 DEF Pending, Owed
    <3> QED
      BY <2>3, <2>4, <2>5, <3>1, BoundsAssumption DEF Base, Budget
  <2> QED
    BY <2>7, <2>8, <2>9 DEF Base
<1>3. ASSUME NEW i \in Ids, RefreshPrune(i) PROVE Base'
  <2>1. /\ refresher.pc = "prune"
        /\ cache' = IF status[i] = "none" THEN [cache EXCEPT ![i] = None] ELSE cache
        /\ refresher' = [refresher EXCEPT !.todo = @ \ {i}]
        /\ UNCHANGED <<rest, version, status, old, links, entry, last, reader, writer, overlap>>
    BY <1>3 DEF RefreshPrune, RefresherAt
  <2>2. refresher' \in RefresherType /\ refresher'.pc = "prune"
    BY <1>0, <2>1 DEF RefresherType
  <2>3. DOMAIN cache' = Ids /\ \A j \in Ids : cache'[j] = None \/ cache'[j] = cache[j]
    BY <1>0, <2>1 DEF TypeOK
  <2>4. TypeOK'
    BY <1>0, <2>1, <2>2, <2>3 DEF TypeOK, rest, Rows, At
  <2>5. IdsKnown'
    BY <1>0, <2>1, <2>2, <2>3 DEF IdsKnown, Issued, Holding
  <2>6. Budget'
    BY <1>0, <2>1, <2>2, <2>4, RefresherBudget DEF Owed
  <2> QED
    BY <2>4, <2>5, <2>6 DEF Base
<1>4. CASE RefreshCreate
  <2>1. /\ refresher.pc = "create" /\ refresher' = [refresher EXCEPT !.pc = "update"]
        /\ cache' = [cache EXCEPT ![refresher.id] = Snapshot(entry[refresher.id].query)]
        /\ UNCHANGED <<rest, version, status, old, links, entry, last, reader, writer, overlap>>
    BY <1>4 DEF RefreshCreate, RefresherAt
  <2>2. /\ refresher' \in RefresherType /\ refresher'.pc = "update"
        /\ refresher'.todo = refresher.todo /\ refresher'.id = refresher.id
    BY <1>0, <2>1 DEF RefresherType
  <2>3. refresher.id \in Ids /\ refresher.id <= last /\ entry[refresher.id].query \in Queries
    BY <1>0, <1>10, <2>1 DEF IdsKnown, Holding
  <2>4. /\ DOMAIN cache' = Ids /\ \A j \in Ids : j # refresher.id => cache'[j] = cache[j]
        /\ cache'[refresher.id] \in Answers(entry[refresher.id].query)
    BY <1>0, <2>1, <2>3, SnapshotFacts DEF TypeOK
  <2>5. TypeOK'
    BY <1>0, <2>1, <2>2, <2>4 DEF TypeOK, rest, Rows, At
  <2>6. IdsKnown'
    BY <1>0, <2>1, <2>2, <2>3, <2>4 DEF IdsKnown, Issued, Holding
  <2>7. Budget'
    BY <1>0, <2>1, <2>2, <2>5, Counts, RefresherBudget DEF Owed
  <2> QED
    BY <2>5, <2>6, <2>7 DEF Base
<1>5. CASE RefreshFails
  <2>1. /\ refresher.pc = "create" /\ refresher' = [refresher EXCEPT !.pc = "idle", !.todo = {}]
        /\ UNCHANGED <<rest, version, db, entry, last, reader, writer, overlap>>
    BY <1>5 DEF RefreshFails, RefresherAt
  <2>2. refresher' \in RefresherType /\ refresher'.pc = "idle"
    BY <1>0, <2>1 DEF RefresherType
  <2>3. TypeOK'
    BY <1>0, <2>1, <2>2 DEF TypeOK, rest, db, Rows, At
  <2>4. IdsKnown'
    BY <1>0, <2>1, <2>2 DEF IdsKnown, Issued, db, Holding
  <2>5. Budget'
    <3>1. Owed' <= Owed
      BY <1>0, <2>2, Counts DEF Owed
    <3> QED
      BY <2>1, <2>3, <3>1, RefresherBudget
  <2> QED
    BY <2>3, <2>4, <2>5 DEF Base
<1>6. CASE RefreshPublish
  <2>1. /\ refresher.pc = "update" /\ refresher' = [refresher EXCEPT !.pc = "delete"]
        /\ SetCached(refresher.id)
        /\ UNCHANGED <<rest, version, links, cache, entry, last, reader, writer, overlap>>
    BY <1>6 DEF RefreshPublish, RefresherAt
  <2>2. /\ refresher' \in RefresherType /\ refresher'.pc = "delete"
        /\ refresher'.todo = refresher.todo /\ refresher'.id = refresher.id
    BY <1>0, <2>1 DEF RefresherType
  <2>3. refresher.id \in Ids
    BY <1>0, <1>10, <2>1 DEF IdsKnown, Holding
  <2>4. /\ status' \in [Ids -> {"none", "progress", "cached"}]
        /\ Rows' = Rows /\ old' \subseteq Rows'
    BY <1>0, <2>1, <2>3, SetCachedFacts
  <2>5. TypeOK'
    BY <1>0, <2>1, <2>2, <2>4 DEF TypeOK, rest, At
  <2>6. IdsKnown'
    <3>1. \A j \in Ids : status[j] = "none" => status'[j] = "none"
      BY <2>4 DEF Rows
    <3> QED
      BY <1>0, <2>1, <2>2, <3>1 DEF IdsKnown, Issued, Holding
  <2>7. Budget'
    BY <1>0, <2>1, <2>2, <2>5, Counts, RefresherBudget DEF Owed
  <2> QED
    BY <2>5, <2>6, <2>7 DEF Base
<1>7. CASE RefreshDelete
  <2>1. /\ refresher.pc = "delete" /\ refresher' = [refresher EXCEPT !.pc = "insert"]
        /\ status' = [status EXCEPT ![refresher.from] = "none"] /\ old' = old \ {refresher.from}
        /\ UNCHANGED <<rest, version, links, cache, entry, last, reader, writer, overlap>>
    BY <1>7 DEF RefreshDelete, RefresherAt
  <2>2. /\ refresher' \in RefresherType /\ refresher'.pc = "insert"
        /\ refresher'.todo = refresher.todo
    BY <1>0, <2>1 DEF RefresherType
  <2>3. /\ status' \in [Ids -> {"none", "progress", "cached"}]
        /\ Rows' = Rows \ {refresher.from} /\ old' \subseteq Rows'
    BY <1>0, <2>1 DEF TypeOK, Rows
  <2>4. TypeOK'
    BY <1>0, <2>1, <2>2, <2>3 DEF TypeOK, rest, At
  <2>5. IdsKnown'
    <3>1. \A j \in Ids : status[j] = "none" => status'[j] = "none"
      BY <2>3 DEF Rows
    <3> QED
      BY <1>0, <2>1, <2>2, <3>1 DEF IdsKnown, Issued, Holding
  <2>6. Budget'
    BY <1>0, <2>1, <2>2, <2>4, Counts, RefresherBudget DEF Owed
  <2> QED
    BY <2>4, <2>5, <2>6 DEF Base
<1>8. CASE RefreshTables
  <2>1. /\ refresher' = [refresher EXCEPT !.pc = "prune", !.todo = {i \in Ids : cache[i] # None}]
        /\ UNCHANGED <<rest, version, db, entry, last, reader, writer, overlap>>
    BY <1>8 DEF RefreshTables
  <2>2. refresher' \in RefresherType /\ refresher'.pc = "prune"
    BY <1>0, <2>1 DEF RefresherType
  <2>3. TypeOK'
    BY <1>0, <2>1, <2>2 DEF TypeOK, rest, db, Rows, At
  <2>4. IdsKnown'
    BY <1>0, <2>1, <2>2 DEF IdsKnown, Issued, db, Holding
  <2>5. Budget'
    <3>1. Owed' <= Owed
      BY <1>0, <2>2, Counts DEF Owed
    <3> QED
      BY <2>1, <2>3, <3>1, RefresherBudget
  <2> QED
    BY <2>3, <2>4, <2>5 DEF Base
<1>9. CASE RefreshEnd
  <2>1. /\ refresher' = [refresher EXCEPT !.pc = "idle"]
        /\ UNCHANGED <<rest, version, db, entry, last, reader, writer, overlap>>
    BY <1>9 DEF RefreshEnd
  <2>2. refresher' \in RefresherType /\ refresher'.pc = "idle"
    BY <1>0, <2>1 DEF RefresherType
  <2>3. TypeOK'
    BY <1>0, <2>1, <2>2 DEF TypeOK, rest, db, Rows, At
  <2>4. IdsKnown'
    BY <1>0, <2>1, <2>2 DEF IdsKnown, Issued, db, Holding
  <2>5. Budget'
    <3>1. Owed' <= Owed
      BY <1>0, <2>2, Counts DEF Owed
    <3> QED
      BY <2>1, <2>3, <3>1, RefresherBudget
  <2> QED
    BY <2>3, <2>4, <2>5 DEF Base
<1> QED
  BY <1>1, <1>2, <1>3, <1>4, <1>5, <1>6, <1>7, <1>8, <1>9 DEF Refresh

\* The initial state is well typed, and nothing has been given out.
LEMMA BaseInit == Init => Base
<1> SUFFICES ASSUME Init PROVE Base
  OBVIOUS
<1>1. \A r \in Readers : reader[r] = IdleReader
  BY DEF Init
<1>2. TypeOK
  BY <1>1, IdleFacts, BoundsAssumption DEF Init, TypeOK, Rows, At, EntryType, WriterType,
     IdleWriter, RefresherType
<1>3. IdsKnown
  BY <1>1, IdleFacts DEF Init, IdsKnown, Ids, Holding
<1>4. Budget
  <2>1. Pending = {} /\ Owed = 0 /\ last = 0
    BY <1>1, IdleFacts DEF Init, Pending, Owed
  <2> QED
    BY <2>1, FS_EmptySet, BoundsAssumption DEF Budget
<1> QED
  BY <1>2, <1>3, <1>4 DEF Base

\* Every step keeps types, ids and bound.
LEMMA BaseInductive == Base /\ [Next]_vars => Base'
<1> SUFFICES ASSUME Base, [Next]_vars PROVE Base'
  OBVIOUS
<1>1. ASSUME NEW r \in Readers, NEW q \in Queries, NEW limit \in Limits, Ask(r, q, limit)
      PROVE  Base'
  BY <1>1, BaseAsk
<1>2. ASSUME NEW r \in Readers, ReaderStep(r) PROVE Base'
  BY <1>2, BaseReader
<1>3. ASSUME NEW i \in Ids, WorkerStep(i) \/ Kill(i) \/ Age(i) PROVE Base'
  BY <1>3, BaseWorker
<1>4. ASSUME NEW w \in Writers, WriterStep(w) \/ \E t \in Tables : Invalidate(w, t) PROVE Base'
  BY <1>4, BaseWriter
<1>5. CASE Refresh
  BY <1>5, BaseRefresh
<1>6. CASE UNCHANGED vars
  BY <1>6 DEF Base, TypeOK, IdsKnown, Budget, vars, rest, db, Rows, At, Issued, Pending, Owed, Holding
<1> QED
  BY <1>1, <1>2, <1>3, <1>4, <1>5, <1>6 DEF Next

(***************************************************************************)
(* The cache's variables keep their types for any number of readers,       *)
(* writers, tables and queries: only rows have an age, every cache table   *)
(* holds an answer to the query of its entry, and the ids given out stay   *)
(* within what the calls and refreshes admitted may need.                  *)
(***************************************************************************)
THEOREM TypeCorrect == Spec => []TypeOK
<1>1. Init => Base
  BY BaseInit
<1>2. Base /\ [Next]_vars => Base'
  BY BaseInductive
<1>3. Base => TypeOK
  BY DEF Base
<1> QED
  BY <1>1, <1>2, <1>3, PTL DEF Spec

-----------------------------------------------------------------------------
(* What is published has its table.                                         *)

\* Ids in use have been given out.
LEMMA BaseFacts ==
    ASSUME Base
    PROVE  /\ TypeOK /\ IdsKnown /\ Rows \subseteq Ids /\ Issued \subseteq Ids
           /\ \A i \in Rows : i <= last
           /\ \A i \in Ids : entry[i].pc # "none" => entry[i].query \in Queries
<1>1. TypeOK /\ IdsKnown /\ Rows \subseteq Ids /\ last \in 0 .. MaxIds
  BY DEF Base, TypeOK, Rows
<1>2. Issued \subseteq Ids
  BY <1>1, BoundsAssumption DEF Issued, Ids
<1>3. \A i \in Rows : i <= last
  BY <1>1 DEF TypeOK
<1>4. \A i \in Ids : entry[i].pc # "none" => entry[i].query \in Queries
  BY <1>1 DEF IdsKnown, Holding
<1> QED
  BY <1>1, <1>2, <1>3, <1>4

\* Removing a row, with or without its table, publishes nothing.
LEMMA TableRemove ==
    ASSUME Base, TablePresent, NEW i \in Ids, Remove(i), entry' = entry, refresher' = refresher
    PROVE  TablePresent'
<1>1. /\ Rows' = Rows \ {i}
      /\ \A j \in Ids : j # i => cache'[j] = cache[j] /\ status'[j] = status[j]
  BY RemoveFacts DEF Base
<1>2. \A j \in Rows' : j \in Ids
  BY DEF Rows
<1> QED
  BY <1>1, <1>2 DEF TablePresent

\* A new entry is not published, and its id is nobody else's.
LEMMA TableNew ==
    ASSUME Base, Base', TablePresent, NEW q \in Queries, NEW lower \in Nat,
           NEW pc \in {"new", "refresh"}, NewEntry(q, lower, pc), last < MaxIds,
           refresher' = refresher \/ refresher'.pc = "create"
    PROVE  TablePresent'
<1>1. /\ last' = last + 1 /\ last \in Nat
      /\ Rows' = Rows \cup {last'} /\ status'[last'] = "progress" /\ cache' = cache
      /\ entry'[last'] = [query |-> q, lower |-> lower, pc |-> pc]
      /\ \A j \in Ids : j # last' => status'[j] = status[j] /\ entry'[j] = entry[j]
  <2>1. TypeOK /\ IdsKnown /\ last \in Nat
    BY DEF Base, TypeOK
  <2> QED
    BY <2>1, NewEntryFacts
<1>2. refresher.pc = "update" => refresher.id # last'
  BY <1>1 DEF Base, IdsKnown, Issued, Holding
<1>3. \A j \in Rows : j \in Ids /\ j # last'
  BY <1>1 DEF Base, TypeOK, Rows, Ids
<1> QED
  BY <1>1, <1>2, <1>3 DEF TablePresent

\* Every step keeps the tables of what is published or about to be.
LEMMA TableInductive == Base /\ Base' /\ TablePresent /\ [Next]_vars => TablePresent'
<1> SUFFICES ASSUME Base, Base', TablePresent, [Next]_vars PROVE TablePresent'
  OBVIOUS
<1>0. /\ TypeOK /\ IdsKnown /\ Rows \subseteq Ids /\ Issued \subseteq Ids
      /\ \A i \in Rows : i <= last
      /\ \A i \in Ids : entry[i].pc # "none" => entry[i].query \in Queries
  BY BaseFacts
<1>1. CASE UNCHANGED <<status, cache, entry, refresher>>
  BY <1>1 DEF TablePresent, Rows
<1>2. ASSUME NEW r \in Readers, NEW q \in Queries, NEW limit \in Limits, Ask(r, q, limit)
      PROVE  TablePresent'
  BY <1>1, <1>2 DEF Ask, OnlyReader, db
<1>3. ASSUME NEW r \in Readers, ReaderStep(r) PROVE TablePresent'
  <2>1. CASE ExpireCache(r) \/ Lookup(r) \/ Select(r) \/ Spin(r) \/ Join(r)
    BY <1>1, <2>1 DEF ExpireCache, Lookup, Select, Spin, Join, OnlyReader, db
  <2>2. ASSUME NEW i \in Ids, ExpireOne(r, i) PROVE TablePresent'
    BY <2>2, TableRemove DEF ExpireOne
  <2>3. CASE Make(r)
    <3> DEFINE q == reader[r].query
               lower == LowerLimit(reader[r].limit)
    <3>1. NewEntry(q, lower, "new") /\ refresher' = refresher /\ reader[r].pc = "make"
      BY <2>3 DEF Make, At
    <3>2. q \in Queries /\ lower \in Nat
      BY <1>0, <3>1, LengthAssumption DEF TypeOK, At, LowerLimit, ReaderType
    <3>3. last < MaxIds
      BY <1>0, <3>1, BoundsAssumption DEF Base, TypeOK, NewEntry
    <3> HIDE DEF q, lower
    <3> QED
      BY <3>1, <3>2, <3>3, TableNew
  <2>4. ASSUME NEW t \in Tables, Link(r, t) PROVE TablePresent'
    BY <1>1, <2>4 DEF Link
  <2>5. CASE StartWorker(r)
    <3>1. /\ Step(reader[r].id, "create") /\ reader[r].id \in Ids
          /\ UNCHANGED <<status, cache, refresher>>
      BY <1>0, <2>5 DEF StartWorker, Step, db, IdsKnown, At, Holding
    <3> QED
      BY <1>0, <3>1, StepFacts DEF TablePresent, Rows
  <2> QED
    BY <1>3, <2>1, <2>2, <2>3, <2>4, <2>5 DEF ReaderStep
<1>4. ASSUME NEW i \in Ids, WorkerStep(i) \/ Kill(i) \/ Age(i) PROVE TablePresent'
  <2>1. CASE Create(i)
    <3>1. /\ cache'[i] # None /\ \A j \in Ids : j # i => cache'[j] = cache[j]
          /\ Step(i, "update") /\ UNCHANGED <<status, refresher>>
      BY <1>0, <2>1, SnapshotFacts DEF Create, TypeOK
    <3> QED
      BY <1>0, <3>1, StepFacts DEF TablePresent, Rows
  <2>2. CASE CreateFails(i)
    <3>1. /\ Step(i, "done") /\ status' = [status EXCEPT ![i] = "none"] /\ old' = old \ {i}
          /\ UNCHANGED <<cache, refresher>>
      BY <2>2 DEF CreateFails
    <3> QED
      BY <1>0, <3>1, StepFacts, DeleteRowFacts DEF TablePresent
  <2>3. CASE Publish(i)
    <3>1. Step(i, "done") /\ SetCached(i) /\ UNCHANGED <<cache, refresher>> /\ entry[i].pc = "update"
      BY <2>3 DEF Publish
    <3> QED
      BY <1>0, <3>1, StepFacts, SetCachedFacts DEF TablePresent
  <2>4. CASE Kill(i)
    <3>1. Step(i, "dead") /\ UNCHANGED <<status, cache, refresher>>
      BY <2>4 DEF Kill, db
    <3> QED
      BY <1>0, <3>1, StepFacts DEF TablePresent, Rows
  <2>5. CASE Age(i)
    BY <1>1, <2>5 DEF Age
  <2> QED
    BY <1>4, <2>1, <2>2, <2>3, <2>4, <2>5 DEF WorkerStep
<1>5. ASSUME NEW w \in Writers, WriterStep(w) \/ \E t \in Tables : Invalidate(w, t)
      PROVE  TablePresent'
  <2>1. ASSUME NEW t \in Tables, Invalidate(w, t) PROVE TablePresent'
    BY <1>1, <2>1 DEF Invalidate, db
  <2>2. ASSUME NEW i \in Ids, InvalidateOne(w, i) PROVE TablePresent'
    BY <2>2, TableRemove DEF InvalidateOne
  <2>3. CASE Write(w)
    BY <1>1, <2>3 DEF Write, db
  <2> QED
    BY <1>5, <2>1, <2>2, <2>3 DEF WriterStep
<1>6. CASE Refresh
  <2>0. refresher \in RefresherType
    BY <1>0 DEF TypeOK
  <2>1. CASE RefreshStart \/ RefreshFails \/ RefreshTables \/ RefreshEnd
    <3>1. UNCHANGED <<status, cache, entry>> /\ refresher'.pc # "update"
      BY <2>0, <2>1 DEF RefreshStart, RefreshFails, RefreshTables, RefreshEnd, db, RefresherType
    <3> QED
      BY <3>1 DEF TablePresent, Rows
  <2>2. ASSUME NEW i \in Ids, RefreshInsert(i) PROVE TablePresent'
    <3> DEFINE q == entry[i].query
               lower == entry[i].lower
    <3>1. /\ NewEntry(q, lower, "refresh") /\ refresher'.pc = "create"
          /\ refresher.pc = "insert" /\ i \in refresher.todo
      BY <2>2 DEF RefreshInsert, RefresherAt
    <3>2. q \in Queries /\ lower \in Nat
      BY <1>0, <3>1 DEF TypeOK, IdsKnown, EntryType, Issued, Holding
    <3>3. last < MaxIds
      BY <1>0, <3>1, BoundsAssumption DEF Base, TypeOK, NewEntry
    <3> HIDE DEF q, lower
    <3> QED
      BY <3>1, <3>2, <3>3, TableNew
  <2>3. ASSUME NEW i \in Ids, RefreshPrune(i) PROVE TablePresent'
    <3>1. UNCHANGED <<status, entry>> /\ refresher'.pc = "prune"
      BY <2>0, <2>3 DEF RefreshPrune, RefresherAt, RefresherType
    <3>2. \A j \in Rows : cache'[j] = cache[j]
      BY <1>0, <2>3 DEF RefreshPrune, Rows, TypeOK
    <3> QED
      BY <3>1, <3>2 DEF TablePresent, Rows
  <2>4. CASE RefreshCreate
    <3>1. refresher.pc = "create" /\ refresher.id \in Ids
      BY <1>0, <2>4 DEF RefreshCreate, RefresherAt, IdsKnown, Holding
    <3>2. entry[refresher.id].query \in Queries /\ version \in [Tables -> Nat]
      BY <1>0, <3>1 DEF IdsKnown, Issued, TypeOK, Holding
    <3>3. /\ cache'[refresher.id] # None
          /\ \A j \in Ids : j # refresher.id => cache'[j] = cache[j]
          /\ UNCHANGED <<status, entry>> /\ refresher'.id = refresher.id
      BY <1>0, <2>0, <2>4, <3>1, <3>2, SnapshotFacts DEF RefreshCreate, TypeOK, RefresherType
    <3> QED
      BY <1>0, <3>3 DEF TablePresent, Rows
  <2>5. CASE RefreshPublish
    <3>1. refresher.pc = "update" /\ refresher.id \in Ids /\ SetCached(refresher.id)
      BY <1>0, <2>5 DEF RefreshPublish, RefresherAt, IdsKnown, Holding
    <3>2. UNCHANGED <<cache, entry>> /\ refresher'.pc = "delete"
      BY <2>0, <2>5 DEF RefreshPublish, RefresherType
    <3> QED
      BY <1>0, <3>1, <3>2, SetCachedFacts DEF TablePresent
  <2>6. CASE RefreshDelete
    <3>1. UNCHANGED <<cache, entry>> /\ refresher'.pc = "insert"
      BY <2>0, <2>6 DEF RefreshDelete, RefresherType
    <3>2. \A j \in Rows' : j \in Rows /\ status'[j] = status[j]
      BY <1>0, <2>6 DEF RefreshDelete, Rows, TypeOK
    <3> QED
      BY <3>1, <3>2 DEF TablePresent
  <2> QED
    BY <1>6, <2>1, <2>2, <2>3, <2>4, <2>5, <2>6 DEF Refresh
<1>7. CASE UNCHANGED vars
  BY <1>1, <1>7 DEF vars, db
<1> QED
  BY <1>2, <1>3, <1>4, <1>5, <1>6, <1>7 DEF Next

(***************************************************************************)
(* A row that says 'cached' has its table, for any number of readers,      *)
(* writers and refreshes: the order of create and update in run_query and  *)
(* in the refresher, and the removal of rows before or with their tables,  *)
(* are enough.                                                             *)
(***************************************************************************)
THEOREM CachedCorrect == Spec => []CachedHasTable
<1>1. Init => Base /\ TablePresent
  <2>1. Init => TablePresent
    BY DEF Init, TablePresent, Rows
  <2> QED
    BY <2>1, BaseInit
<1>2. (Base /\ TablePresent) /\ [Next]_vars => (Base /\ TablePresent)'
  BY BaseInductive, TableInductive
<1>3. TablePresent => CachedHasTable
  BY DEF TablePresent, CachedHasTable
<1> QED
  BY <1>1, <1>2, <1>3, PTL DEF Spec

-----------------------------------------------------------------------------
(* The rows asked for are in the table read.                                *)

\* Readers that keep their entries keep their windows: entries do not move.
LEMMA WindowKept ==
    ASSUME Base, WindowFits,
           \A i \in Issued : entry'[i].lower = entry[i].lower,
           \A s \in Readers : reader'[s].pc \in Holding =>
               /\ reader[s].pc \in Holding
               /\ reader'[s].id = reader[s].id /\ reader'[s].limit = reader[s].limit
    PROVE  WindowFits'
<1>1. \A s \in Readers : reader[s].pc \in Holding => reader[s].id \in Issued
  BY DEF Base, IdsKnown, Holding
<1> QED
  BY <1>1 DEF WindowFits, Holding

\* The window of a reader that another reader's step leaves alone.
LEMMA WindowOther ==
    ASSUME Base, WindowFits, NEW r \in Readers,
           \A i \in Issued : entry'[i].lower = entry[i].lower,
           \A s \in Readers : s # r => reader'[s] = reader[s],
           reader'[r].pc \in Holding =>
               /\ entry'[reader'[r].id].lower <= reader'[r].limit
               /\ reader'[r].limit + Length <= entry'[reader'[r].id].lower + CacheLength
    PROVE  WindowFits'
<1>1. \A s \in Readers : reader[s].pc \in Holding => reader[s].id \in Issued
  BY DEF Base, IdsKnown, Holding
<1> QED
  BY <1>1 DEF WindowFits, Holding

\* Every step keeps the windows.
LEMMA WindowInductive == Base /\ Base' /\ WindowFits /\ [Next]_vars => WindowFits'
<1> SUFFICES ASSUME Base, Base', WindowFits, [Next]_vars PROVE WindowFits'
  OBVIOUS
<1>0. /\ TypeOK /\ IdsKnown /\ Rows \subseteq Ids /\ Issued \subseteq Ids
      /\ \A i \in Rows : i <= last
      /\ \A i \in Ids : entry[i].pc # "none" => entry[i].query \in Queries
  BY BaseFacts
<1>1. CASE UNCHANGED <<entry, reader>>
  BY <1>1, WindowKept
<1>2. ASSUME NEW r \in Readers, NEW q \in Queries, NEW limit \in Limits, Ask(r, q, limit)
      PROVE  WindowFits'
  <2>1. entry' = entry /\ \A s \in Readers : s # r => reader'[s] = reader[s]
    BY <1>0, <1>2 DEF Ask, OnlyReader, TypeOK
  <2>2. reader'[r].pc \in {"expire", "lookup"}
    BY <1>0, <1>2 DEF Ask, TypeOK, IdleReader
  <2> QED
    BY <2>1, <2>2, WindowOther DEF Holding
<1>3. ASSUME NEW r \in Readers, ReaderStep(r) PROVE WindowFits'
  <2>0. /\ reader[r] \in ReaderType(reader[r].query) /\ DOMAIN reader = Readers
        /\ reader[r].pc # "idle" => reader[r].query \in Queries
    BY <1>0 DEF TypeOK, At
  <2>10. ASSUME NEW answer, Return(r, answer), entry' = entry PROVE WindowFits'
    <3>1. PICK late \in BOOLEAN : reader' = [reader EXCEPT ![r] = Resting(late)]
      BY <2>10, ReturnFacts
    <3>2. reader'[r].pc = "idle" /\ \A s \in Readers : s # r => reader'[s] = reader[s]
      BY <2>0, <3>1, RestingFacts
    <3> QED
      BY <2>10, <3>2, WindowOther DEF Holding
  <2>11. ASSUME NEW pc, Move(r, pc), entry' = entry, reader[r].pc \in Holding PROVE WindowFits'
    <3>1. /\ \A s \in Readers : s # r => reader'[s] = reader[s]
          /\ reader'[r].id = reader[r].id /\ reader'[r].limit = reader[r].limit
      BY <2>0, <2>11 DEF Move, ReaderType
    <3> QED
      BY <2>11, <3>1, WindowKept
  <2>1. CASE ExpireCache(r)
    <3>1. entry' = entry /\ \A s \in Readers : s # r => reader'[s] = reader[s]
      BY <2>0, <2>1 DEF ExpireCache, OnlyReader
    <3>2. reader'[r].pc = "lookup"
      BY <2>0, <2>1 DEF ExpireCache, ReaderType
    <3> QED
      BY <3>1, <3>2, WindowOther DEF Holding
  <2>2. ASSUME NEW i \in Ids, ExpireOne(r, i) PROVE WindowFits'
    <3>1. entry' = entry /\ \A s \in Readers : s # r => reader'[s] = reader[s]
      BY <2>0, <2>2 DEF ExpireOne
    <3>2. reader'[r].pc = "lookup"
      BY <2>0, <2>2 DEF ExpireOne, ReaderType, At
    <3> QED
      BY <3>1, <3>2, WindowOther DEF Holding
  <2>3. CASE Lookup(r)
    <3> DEFINE found == {i \in Ids : Covers(i, reader[r].query, reader[r].limit)}
               i == First(found)
    <3>1. entry' = entry /\ \A s \in Readers : s # r => reader'[s] = reader[s]
      BY <2>0, <2>3 DEF Lookup, OnlyReader
    <3>2. found # {} => /\ entry[i].lower <= reader[r].limit
                        /\ entry[i].lower + CacheLength >= reader[r].limit + Length
                        /\ i \in Ids
      BY FirstFacts DEF Covers
    <3>3. reader'[r] = IF found = {} THEN [reader[r] EXCEPT !.pc = "make"]
                       ELSE IF status[i] = "cached" THEN [reader[r] EXCEPT !.pc = "select", !.id = i]
                       ELSE [reader[r] EXCEPT !.pc = "spin", !.id = i, !.left = QueryTimeout]
      BY <2>0, <2>3 DEF Lookup
    <3> HIDE DEF found, i
    <3>4. /\ reader'[r].limit = reader[r].limit
          /\ reader'[r].pc \in Holding => found # {} /\ reader'[r].id = i
      BY <2>0, <3>3 DEF ReaderType, Holding
    <3>5. CacheLength \in Nat /\ Length \in Nat /\ reader[r].limit \in Nat
      BY <2>0, LengthAssumption DEF ReaderType
    <3>6. found # {} => entry[i].lower \in Nat
      BY <1>0, <3>2 DEF TypeOK, EntryType
    <3>7. reader'[r].pc \in Holding =>
              /\ entry'[reader'[r].id].lower <= reader'[r].limit
              /\ reader'[r].limit + Length <= entry'[reader'[r].id].lower + CacheLength
      BY <3>1, <3>2, <3>4, <3>5, <3>6
    <3> QED
      BY <3>1, <3>7, WindowOther
  <2>4. CASE Select(r)
    BY <2>4, <2>10 DEF Select, OnlyReader
  <2>5. CASE Spin(r)
    <3>1. CASE reader[r].left = 0
      BY <2>5, <2>10, <3>1 DEF Spin, OnlyReader
    <3>2. CASE reader[r].left # 0 /\ Ready(reader[r].id)
      BY <2>5, <2>11, <3>2 DEF Spin, OnlyReader, Holding, At
    <3>3. CASE reader[r].left # 0 /\ ~Ready(reader[r].id)
      <4>1. entry' = entry /\ reader' = [reader EXCEPT ![r].left = @ - 1] /\ reader[r].pc = "spin"
        BY <2>5, <3>3 DEF Spin, OnlyReader, At
      <4>2. /\ \A s \in Readers : s # r => reader'[s] = reader[s]
            /\ reader'[r].id = reader[r].id /\ reader'[r].limit = reader[r].limit
        BY <2>0, <4>1 DEF ReaderType
      <4> QED
        BY <4>1, <4>2, WindowKept DEF Holding
    <3> QED
      BY <3>1, <3>2, <3>3
  <2>6. CASE Make(r)
    <3> DEFINE lower == LowerLimit(reader[r].limit)
    <3>1. /\ entry' = [entry EXCEPT ![last'] = [query |-> reader[r].query, lower |-> lower, pc |-> "new"]]
          /\ last' = last + 1
          /\ reader' = [reader EXCEPT ![r].pc = "link", ![r].id = last',
                                      ![r].todo = TablesOf[reader[r].query]]
      BY <2>6 DEF Make, NewEntry
    <3>2. last' \in Ids /\ \A i \in Issued : i # last'
      BY <1>0, <3>1, BoundsAssumption DEF Base, TypeOK, Ids, Issued
    <3>3. /\ \A s \in Readers : s # r => reader'[s] = reader[s]
          /\ reader'[r].id = last' /\ reader'[r].limit = reader[r].limit
      BY <2>0, <3>1 DEF ReaderType
    <3>4. lower \in Nat /\ lower <= reader[r].limit /\ reader[r].limit + Length <= lower + CacheLength
      <4>1. /\ reader[r].limit \in Nat /\ CacheLength \in Nat /\ Length \in Nat
            /\ Length <= CacheLength \div 2 /\ CacheLength \div 2 \in Nat
            /\ 2 * (CacheLength \div 2) <= CacheLength
        BY <2>0, LengthAssumption DEF ReaderType
      <4>2. CASE reader[r].limit > CacheLength \div 2
        BY <4>1, <4>2 DEF LowerLimit
      <4>3. CASE ~(reader[r].limit > CacheLength \div 2)
        BY <4>1, <4>3 DEF LowerLimit
      <4> QED
        BY <4>2, <4>3
    <3> HIDE DEF lower
    <3>5. /\ entry'[last'].lower = lower
          /\ \A i \in Issued : entry'[i].lower = entry[i].lower
      BY <1>0, <3>1, <3>2 DEF TypeOK
    <3> QED
      BY <3>3, <3>4, <3>5, WindowOther
  <2>7. ASSUME NEW t \in Tables, Link(r, t) PROVE WindowFits'
    <3>1. entry' = entry /\ reader' = [reader EXCEPT ![r].todo = @ \ {t}] /\ reader[r].pc = "link"
      BY <2>7 DEF Link, At
    <3>2. /\ \A s \in Readers : s # r => reader'[s] = reader[s]
          /\ reader'[r].id = reader[r].id /\ reader'[r].limit = reader[r].limit
      BY <2>0, <3>1 DEF ReaderType
    <3> QED
      BY <3>1, <3>2, WindowKept DEF Holding
  <2>8. CASE StartWorker(r)
    <3>1. /\ Step(reader[r].id, "create") /\ Move(r, "join") /\ reader[r].pc = "link"
          /\ reader[r].id \in Ids
      BY <1>0, <2>8 DEF StartWorker, Step, At, IdsKnown, Holding
    <3>2. \A i \in Issued : entry'[i].lower = entry[i].lower
      BY <1>0, <3>1, StepFacts
    <3>3. /\ \A s \in Readers : s # r => reader'[s] = reader[s]
          /\ reader'[r].id = reader[r].id /\ reader'[r].limit = reader[r].limit
      BY <2>0, <3>1 DEF Move, ReaderType
    <3> QED
      BY <3>1, <3>2, <3>3, WindowKept DEF Holding
  <2>9. CASE Join(r)
    <3>1. CASE entry[reader[r].id].pc = "done"
      BY <2>9, <2>11, <3>1 DEF Join, OnlyReader, Holding, At
    <3> QED
      BY <2>9, <2>10, <3>1 DEF Join, OnlyReader
  <2> QED
    BY <1>3, <2>1, <2>2, <2>3, <2>4, <2>5, <2>6, <2>7, <2>8, <2>9 DEF ReaderStep
<1>4. ASSUME NEW i \in Ids, WorkerStep(i) \/ Kill(i) \/ Age(i) PROVE WindowFits'
  <2>1. CASE Age(i)
    BY <1>1, <2>1 DEF Age
  <2>2. ASSUME NEW pc \in {"update", "done", "dead"}, Step(i, pc)
        PROVE  \A j \in Issued : entry'[j].lower = entry[j].lower
    BY <1>0, <2>2, StepFacts
  <2>3. CASE WorkerStep(i)
    BY <2>2, <2>3, WindowKept DEF WorkerStep, Create, CreateFails, Publish
  <2>4. CASE Kill(i)
    <3>1. /\ Step(i, "dead")
          /\ \A s \in Readers : reader'[s] = reader[s] \/ reader'[s].pc = "idle"
      BY <2>4, IdleFacts DEF Kill
    <3> QED
      BY <2>2, <3>1, WindowKept DEF Holding
  <2> QED
    BY <1>4, <2>1, <2>3, <2>4
<1>5. ASSUME NEW w \in Writers, WriterStep(w) \/ \E t \in Tables : Invalidate(w, t)
      PROVE  WindowFits'
  BY <1>1, <1>5 DEF WriterStep, Write, InvalidateOne, Invalidate
<1>6. CASE Refresh
  <2>1. ASSUME NEW i \in Ids, RefreshInsert(i) PROVE WindowFits'
    <3>1. /\ entry' = [entry EXCEPT ![last'] = [query |-> entry[i].query, lower |-> entry[i].lower,
                                                pc |-> "refresh"]]
          /\ last' = last + 1 /\ reader' = reader
      BY <2>1 DEF RefreshInsert, NewEntry
    <3>2. \A j \in Issued : j \in Ids /\ j # last'
      BY <1>0, <3>1 DEF TypeOK, Issued
    <3>3. \A j \in Issued : entry'[j] = entry[j]
      BY <1>0, <3>1, <3>2 DEF TypeOK
    <3> QED
      BY <3>1, <3>3, WindowKept
  <2> QED
    BY <1>1, <1>6, <2>1 DEF Refresh, RefreshStart, RefreshPrune, RefreshCreate, RefreshFails,
       RefreshPublish, RefreshDelete, RefreshTables, RefreshEnd
<1>7. CASE UNCHANGED vars
  BY <1>1, <1>7 DEF vars
<1> QED
  BY <1>2, <1>3, <1>4, <1>5, <1>6, <1>7 DEF Next

(***************************************************************************)
(* A table that a reader selects from has the rows it asked for, for every *)
(* offset, as long as a window holds two pages: both the entry that lookup *)
(* finds and the one _make_sql_cache_entry centres on the offset.          *)
(***************************************************************************)
THEOREM WindowCorrect == Spec => []WindowCovered
<1>1. Init => Base /\ WindowFits
  <2>1. Init => WindowFits
    BY DEF Init, WindowFits, IdleReader, Holding
  <2> QED
    BY <2>1, BaseInit
<1>2. (Base /\ WindowFits) /\ [Next]_vars => (Base /\ WindowFits)'
  BY BaseInductive, WindowInductive
<1>3. Base /\ WindowFits => WindowCovered
  <2> SUFFICES ASSUME Base, WindowFits, NEW r \in Readers, reader[r].pc \in {"select", "spin", "join"}
               PROVE  LET offset == reader[r].limit - entry[reader[r].id].lower
                      IN  offset >= 0 /\ offset + Length <= CacheLength
    BY DEF WindowCovered
  <2>1. reader[r].id \in Ids /\ reader[r].limit \in Nat
    BY BaseFacts DEF TypeOK, IdsKnown, ReaderType, Holding
  <2>2. entry[reader[r].id].lower \in Nat
    BY <2>1, BaseFacts DEF TypeOK, EntryType
  <2>3. /\ entry[reader[r].id].lower <= reader[r].limit
        /\ reader[r].limit + Length <= entry[reader[r].id].lower + CacheLength
    BY DEF WindowFits, Holding
  <2> QED
    BY <2>1, <2>2, <2>3, LengthAssumption
<1> QED
  BY <1>1, <1>2, <1>3, PTL DEF Spec

-----------------------------------------------------------------------------
(* In realtime mode only overlapping entries are out of date.               *)

Coherent == Linking /\ Linked /\ WriterSees /\ UpToDate

\* Steps that change neither entries, writers nor versions, and start no linking.
LEMMA CoherentReader ==
    ASSUME Base, Coherent,
           UNCHANGED <<status, links, cache, entry, version, writer, overlap>>,
           \A s \in Readers : reader'[s].pc = "link" => reader'[s] = reader[s]
    PROVE  Coherent'
<1>1. Linking'
  BY DEF Coherent, Linking, Rows
<1>2. Linked' /\ WriterSees'
  BY DEF Coherent, Linked, WriterSees, Rows, Filling
<1>3. UpToDate'
  BY DEF Coherent, UpToDate, Rows, Snapshot
<1> QED
  BY <1>1, <1>2, <1>3 DEF Coherent

\* Removing an entry, by a reader or by a writer that has it on its list.
LEMMA CoherentRemove ==
    ASSUME Base, Coherent, NEW i \in Ids, Remove(i),
           UNCHANGED <<entry, version, overlap>>,
           \A s \in Readers : reader'[s].pc = "link" => reader'[s] = reader[s],
           \A w \in Writers : /\ writer'[w].pc = writer[w].pc /\ writer'[w].table = writer[w].table
                              /\ writer[w].todo \ {i} \subseteq writer'[w].todo
    PROVE  Coherent'
<1>1. /\ Rows' = Rows \ {i} /\ i \notin Rows'
      /\ links' = {l \in links : l[1] # i}
      /\ \A j \in Rows' : j \in Rows /\ j # i /\ cache'[j] = cache[j]
  BY RemoveFacts, BaseFacts
<1>2. Linking'
  BY <1>1 DEF Coherent, Linking
<1>3. Linked'
  BY <1>1 DEF Coherent, Linked
<1>4. WriterSees'
  BY <1>1 DEF Coherent, WriterSees, Filling
<1>5. UpToDate'
  BY <1>1 DEF Coherent, UpToDate, Snapshot
<1> QED
  BY <1>2, <1>3, <1>4, <1>5 DEF Coherent

\* A new entry has no table yet, and overlaps every writer of its tables.
LEMMA CoherentMake ==
    ASSUME Base, Base', Coherent, NEW r \in Readers, Make(r)
    PROVE  Coherent'
<1> DEFINE q == reader[r].query
           lower == LowerLimit(reader[r].limit)
<1>0. /\ TypeOK /\ IdsKnown /\ Rows \subseteq Ids /\ Issued \subseteq Ids
      /\ \A i \in Rows : i <= last
      /\ reader[r] \in ReaderType(reader[r].query) /\ DOMAIN reader = Readers
  BY BaseFacts DEF TypeOK
<1>1. /\ NewEntry(q, lower, "new") /\ reader[r].pc = "make"
      /\ reader' = [reader EXCEPT ![r].pc = "link", ![r].id = last', ![r].todo = TablesOf[q]]
      /\ UNCHANGED <<version, writer>>
  BY DEF Make, At
<1>2. q \in Queries /\ lower \in Nat
  BY <1>0, <1>1, LengthAssumption DEF TypeOK, At, LowerLimit, ReaderType
<1>3. last < MaxIds /\ last \in Nat
  BY <1>0, <1>1, BoundsAssumption DEF Base, TypeOK, NewEntry
<1> HIDE DEF lower
<1>4. /\ reader'[r].pc = "link" /\ reader'[r].id = last' /\ reader'[r].todo = TablesOf[q]
      /\ reader'[r].query = q
      /\ \A s \in Readers : s # r => reader'[s] = reader[s]
  BY <1>0, <1>1 DEF ReaderType
<1> HIDE DEF q
<1>5. /\ last' = last + 1 /\ last' \in Ids
      /\ Rows' = Rows \cup {last'} /\ last' \notin Rows
      /\ entry'[last'] = [query |-> q, lower |-> lower, pc |-> "new"]
      /\ cache[last'] = None
      /\ \A j \in Ids : j # last' => entry'[j] = entry[j]
      /\ overlap \subseteq overlap' /\ overlap' \subseteq overlap \cup {last'}
      /\ Writing(q) # {} => last' \in overlap'
      /\ links' = links /\ cache' = cache
  BY <1>0, <1>1, <1>2, <1>3, NewEntryFacts
<1>6. /\ entry'[last'].pc = "new" /\ entry'[last'].query = q
      /\ \A j \in Rows : j \in Ids /\ j # last' /\ entry'[j] = entry[j]
      /\ \A j \in Issued : j \in Ids /\ j # last' /\ entry'[j] = entry[j]
  BY <1>0, <1>3, <1>5 DEF Issued
<1>7. Linking'
  <2>1. \A s \in Readers : reader[s].pc = "link" => reader[s].id \in Issued
    BY <1>0 DEF IdsKnown, Holding
  <2>2. ASSUME NEW s \in Readers, reader'[s].pc = "link"
        PROVE  /\ entry'[reader'[s].id].pc = "new"
               /\ entry'[reader'[s].id].query = reader'[s].query
               /\ reader'[s].id \in Rows' =>
                     \A t \in TablesOf[reader'[s].query] \ reader'[s].todo :
                         <<reader'[s].id, t>> \in links'
    <3>1. CASE s = r
      BY <1>4, <1>6, <3>1
    <3>2. CASE s # r
      <4>1. reader'[s] = reader[s] /\ reader[s].id \in Issued
        BY <1>4, <2>1, <2>2, <3>2
      <4>2. entry'[reader[s].id] = entry[reader[s].id] /\ (reader[s].id \in Rows' => reader[s].id \in Rows)
        BY <1>5, <1>6, <4>1
      <4> QED
        BY <1>5, <2>2, <4>1, <4>2 DEF Coherent, Linking
    <3> QED
      BY <3>1, <3>2
  <2>3. \A s, u \in Readers : reader'[s].pc = "link" /\ reader'[u].pc = "link" /\ s # u =>
            reader'[s].id # reader'[u].id
    BY <1>4, <1>6, <2>1 DEF Coherent, Linking
  <2> QED
    BY <2>2, <2>3 DEF Linking
<1>8. Linked'
  BY <1>5, <1>6 DEF Coherent, Linked
<1>9. WriterSees'
  <2>1. \A w \in Writers : writer[w].pc = "write" /\ writer[w].table \in TablesOf[q] => last' \in overlap'
    BY <1>5 DEF Writing
  <2> QED
    BY <1>1, <1>5, <1>6, <2>1 DEF Coherent, WriterSees, Filling
<1>10. UpToDate'
  BY <1>1, <1>5, <1>6 DEF Coherent, UpToDate, Snapshot
<1> QED
  BY <1>7, <1>8, <1>9, <1>10 DEF Coherent

\* A link made is a link owed less.
LEMMA CoherentLink ==
    ASSUME Base, Coherent, NEW r \in Readers, NEW t \in Tables, Link(r, t)
    PROVE  Coherent'
<1>1. /\ links' = links \cup {<<reader[r].id, t>>} /\ reader[r].pc = "link"
      /\ reader' = [reader EXCEPT ![r].todo = @ \ {t}]
      /\ UNCHANGED <<status, cache, entry, version, writer, overlap>>
  BY DEF Link, At
<1>2. /\ reader'[r].pc = "link" /\ reader'[r].id = reader[r].id
      /\ reader'[r].todo = reader[r].todo \ {t} /\ reader'[r].query = reader[r].query
      /\ \A s \in Readers : s # r => reader'[s] = reader[s]
  BY <1>1 DEF Base, TypeOK, ReaderType
<1>3. Linking'
  BY <1>1, <1>2 DEF Coherent, Linking, Rows
<1>4. Linked' /\ WriterSees'
  BY <1>1 DEF Coherent, Linked, WriterSees, Rows, Filling
<1>5. UpToDate'
  BY <1>1 DEF Coherent, UpToDate, Rows, Snapshot
<1> QED
  BY <1>3, <1>4, <1>5 DEF Coherent

\* The worker starts when the entry has all its links, if it is still there.
LEMMA CoherentStart ==
    ASSUME Base, Coherent, NEW r \in Readers, StartWorker(r)
    PROVE  Coherent'
<1> DEFINE i == reader[r].id
<1>1. /\ reader[r].pc = "link" /\ reader[r].todo = {} /\ Step(i, "create")
      /\ reader' = [reader EXCEPT ![r].pc = "join"]
      /\ UNCHANGED <<status, links, cache, version, writer, overlap>>
  BY DEF StartWorker, Move, At, Step, db
<1>2. i \in Ids /\ TypeOK
  BY <1>1, BaseFacts DEF IdsKnown, Holding
<1>3. /\ entry'[i].pc = "create" /\ \A j \in Ids : j # i => entry'[j] = entry[j]
      /\ \A j \in Ids : entry'[j].query = entry[j].query
  BY <1>1, <1>2, StepFacts
<1>4. entry[i].pc = "new" /\ entry[i].query = reader[r].query
  BY <1>1 DEF Coherent, Linking
<1>5. reader'[r].pc = "join" /\ \A s \in Readers : s # r => reader'[s] = reader[s]
  BY <1>1 DEF Base, TypeOK, ReaderType
<1>6. i \in Rows => \A t \in TablesOf[entry[i].query] : <<i, t>> \in links
  BY <1>1, <1>4 DEF Coherent, Linking
<1>7. Rows' = Rows /\ Rows \subseteq Ids
  BY <1>1 DEF Rows
<1>8. Linking'
  <2>1. \A s \in Readers : reader'[s].pc = "link" =>
            reader'[s] = reader[s] /\ reader[s].id # i /\ reader[s].id \in Ids
    BY <1>1, <1>5, BaseFacts DEF Coherent, Linking, IdsKnown, Holding
  <2> QED
    BY <1>1, <1>3, <1>7, <2>1 DEF Coherent, Linking
<1> HIDE DEF i
<1>9. Linked'
  BY <1>1, <1>2, <1>3, <1>6, <1>7 DEF Coherent, Linked
<1>10. WriterSees'
  BY <1>1, <1>2, <1>3, <1>4, <1>7 DEF Coherent, WriterSees, Filling
<1>11. UpToDate'
  BY <1>1, <1>2, <1>3, <1>7 DEF Coherent, UpToDate, Snapshot
<1> QED
  BY <1>8, <1>9, <1>10, <1>11 DEF Coherent

\* A worker that fills, fails, publishes or dies leaves only overlapping entries stale.
LEMMA CoherentWorker ==
    ASSUME Base, Coherent, NEW i \in Ids, WorkerStep(i) \/ Kill(i) \/ Age(i)
    PROVE  Coherent'
<1>0. TypeOK /\ Rows \subseteq Ids
  BY BaseFacts
<1>9. \A s \in Readers : reader[s].pc = "link" =>
          reader[s].id \in Ids /\ entry[reader[s].id].pc = "new"
  BY BaseFacts DEF IdsKnown, Coherent, Linking, Holding
<1>1. CASE Create(i)
  <2>1. /\ entry[i].pc = "create" /\ Step(i, "update")
        /\ cache' = [cache EXCEPT ![i] = Snapshot(entry[i].query)]
        /\ UNCHANGED <<status, links, version, reader, writer, overlap>>
    BY <1>1 DEF Create
  <2>2. /\ entry'[i].pc = "update" /\ \A j \in Ids : j # i => entry'[j] = entry[j]
        /\ \A j \in Ids : entry'[j].query = entry[j].query
    BY <1>0, <2>1, StepFacts
  <2>3. /\ cache'[i] = Snapshot(entry[i].query) /\ \A j \in Ids : j # i => cache'[j] = cache[j]
        /\ Rows' = Rows
    BY <1>0, <2>1 DEF TypeOK, Rows
  <2>4. Linking'
    BY <1>9, <2>1, <2>2, <2>3 DEF Coherent, Linking
  <2>5. Linked'
    BY <1>0, <2>1, <2>2, <2>3 DEF Coherent, Linked
  <2>6. WriterSees'
    BY <1>0, <2>1, <2>2, <2>3 DEF Coherent, WriterSees, Filling
  <2>7. UpToDate'
    BY <1>0, <2>1, <2>2, <2>3 DEF Coherent, UpToDate, Snapshot
  <2> QED
    BY <2>4, <2>5, <2>6, <2>7 DEF Coherent
<1>2. ASSUME NEW pc \in {"done", "dead"}, Step(i, pc), Filling(i), Rows' \subseteq Rows,
             \A s \in Readers : reader'[s].pc = "link" =>
                 reader'[s] = reader[s] /\ reader[s].id # i,
             UNCHANGED <<links, cache, version, writer, overlap>>
      PROVE  Coherent'
  <2>1. /\ entry'[i].pc = pc /\ \A j \in Ids : j # i => entry'[j] = entry[j]
        /\ \A j \in Ids : entry'[j].query = entry[j].query
    BY <1>0, <1>2, StepFacts
  <2>2. Linking'
    BY <1>2, <1>9, <2>1 DEF Coherent, Linking
  <2>3. Linked'
    BY <1>0, <1>2, <2>1 DEF Coherent, Linked
  <2>4. WriterSees'
    BY <1>0, <1>2, <2>1 DEF Coherent, WriterSees, Filling
  <2>5. UpToDate'
    BY <1>0, <1>2, <2>1 DEF Coherent, UpToDate, Snapshot
  <2> QED
    BY <2>2, <2>3, <2>4, <2>5 DEF Coherent
<1>3. CASE CreateFails(i)
  <2>1. /\ entry[i].pc \in {"create", "update"} /\ Step(i, "done")
        /\ status' = [status EXCEPT ![i] = "none"] /\ old' = old \ {i}
        /\ UNCHANGED <<links, cache, version, reader, writer, overlap>>
    BY <1>3 DEF CreateFails
  <2>2. Rows' \subseteq Rows
    BY <1>0, <2>1, DeleteRowFacts
  <2> QED
    BY <1>2, <1>9, <2>1, <2>2 DEF Filling
<1>4. CASE Publish(i)
  <2>1. /\ entry[i].pc = "update" /\ Step(i, "done") /\ SetCached(i)
        /\ UNCHANGED <<links, cache, version, reader, writer, overlap>>
    BY <1>4 DEF Publish
  <2>2. Rows' \subseteq Rows
    BY <1>0, <2>1, SetCachedFacts
  <2> QED
    BY <1>2, <1>9, <2>1, <2>2 DEF Filling
<1>5. CASE Kill(i)
  <2>1. /\ Filling(i) /\ Step(i, "dead")
        /\ reader' = [s \in Readers |->
                        IF reader[s].id = i /\ reader[s].pc \in {"link", "join"}
                        THEN IdleReader ELSE reader[s]]
        /\ UNCHANGED <<status, links, cache, version, writer, overlap>>
    BY <1>5 DEF Kill, db
  <2>2. \A s \in Readers : reader'[s].pc = "link" => reader'[s] = reader[s] /\ reader[s].id # i
    BY <2>1, IdleFacts
  <2>3. Rows' \subseteq Rows
    BY <2>1 DEF Rows
  <2> QED
    BY <1>2, <2>1, <2>2, <2>3
<1>6. CASE Age(i)
  BY <1>6, CoherentReader DEF Age
<1> QED
  BY <1>1, <1>3, <1>4, <1>5, <1>6 DEF WorkerStep

(* A writer begins with every filled table of its own on its list, and     *)
(* writes when it has removed them all.                                    *)
LEMMA CoherentWriter ==
    ASSUME Base, Coherent, mode = "realtime", NEW w \in Writers,
           WriterStep(w) \/ \E t \in Tables : Invalidate(w, t)
    PROVE  Coherent'
<1>0. /\ TypeOK /\ Rows \subseteq Ids /\ writer[w] \in WriterType /\ DOMAIN writer = Writers
      /\ version \in [Tables -> Nat]
  BY BaseFacts DEF TypeOK
<1>1. ASSUME NEW t \in Tables, Invalidate(w, t) PROVE Coherent'
  <2>1. /\ writer' = [writer EXCEPT ![w] = [pc |-> "write", table |-> t,
                                            todo |-> {i \in Ids : <<i, t>> \in links}]]
        /\ overlap' = overlap \cup {i \in Ids : Filling(i) /\ t \in TablesOf[entry[i].query]}
        /\ UNCHANGED <<status, links, cache, version, entry, reader>>
    BY <1>1 DEF Invalidate, db
  <2>2. /\ writer'[w].table = t /\ writer'[w].todo = {i \in Ids : <<i, t>> \in links}
        /\ \A v \in Writers : v # w => writer'[v] = writer[v]
    BY <1>0, <2>1
  <2>3. Linking' /\ Linked'
    BY <2>1 DEF Coherent, Linking, Linked, Rows
  <2>4. WriterSees'
    <3> SUFFICES ASSUME NEW v \in Writers, NEW i \in Rows, writer'[v].pc = "write",
                        writer'[v].table \in TablesOf[entry[i].query], i \notin overlap'
                 PROVE  ~Filling(i) /\ (cache[i] # None => i \in writer'[v].todo)
      BY <2>1 DEF WriterSees, Rows, Filling
    <3>1. CASE v = w
      BY <1>0, <2>1, <2>2, <3>1 DEF Coherent, Linked
    <3>2. CASE v # w
      BY <2>1, <2>2, <3>2 DEF Coherent, WriterSees
    <3> QED
      BY <3>1, <3>2
  <2>5. UpToDate'
    BY <2>1 DEF Coherent, UpToDate, Rows, Snapshot
  <2> QED
    BY <2>3, <2>4, <2>5 DEF Coherent
<1>2. ASSUME NEW i \in Ids, InvalidateOne(w, i) PROVE Coherent'
  <2>1. /\ Remove(i) /\ writer' = [writer EXCEPT ![w].todo = @ \ {i}]
        /\ UNCHANGED <<entry, version, reader, overlap>>
    BY <1>2 DEF InvalidateOne
  <2>2. \A v \in Writers : /\ writer'[v].pc = writer[v].pc /\ writer'[v].table = writer[v].table
                           /\ writer[v].todo \ {i} \subseteq writer'[v].todo
    BY <1>0, <2>1 DEF TypeOK, WriterType
  <2> QED
    BY <2>1, <2>2, CoherentRemove
<1>3. CASE Write(w)
  <2> DEFINE t == writer[w].table
  <2>1. /\ writer[w].pc = "write" /\ writer[w].todo = {}
        /\ version' = [version EXCEPT ![t] = @ + 1]
        /\ writer' = [writer EXCEPT ![w] = IdleWriter]
        /\ UNCHANGED <<status, links, cache, entry, reader, overlap>>
    BY <1>3 DEF Write, db
  <2>2. \A v \in Writers : writer'[v] = writer[v] \/ writer'[v].pc = "idle"
    BY <1>0, <2>1 DEF IdleWriter
  <2>3. Linking' /\ Linked'
    BY <2>1 DEF Coherent, Linking, Linked, Rows
  <2>4. WriterSees'
    BY <2>1, <2>2 DEF Coherent, WriterSees, Rows, Filling
  <2>5. UpToDate'
    <3> SUFFICES ASSUME NEW i \in Rows, cache[i] # None, i \notin overlap
                 PROVE  cache[i] = Snapshot(entry[i].query)'
      BY <2>1 DEF UpToDate, Rows
    <3>1. t \notin TablesOf[entry[i].query]
      BY <2>1 DEF Coherent, WriterSees
    <3>2. entry[i].query \in Queries
      BY BaseFacts DEF IdsKnown, Holding
    <3>3. TablesOf[entry[i].query] \subseteq Tables
      BY <3>2, QueriesAssumption
    <3>4. \A u \in TablesOf[entry[i].query] : version'[u] = version[u]
      BY <1>0, <2>1, <3>1, <3>3
    <3>5. cache[i] = Snapshot(entry[i].query)
      BY DEF Coherent, UpToDate
    <3> QED
      BY <2>1, <3>4, <3>5 DEF Snapshot
  <2> QED
    BY <2>3, <2>4, <2>5 DEF Coherent
<1> QED
  BY <1>1, <1>2, <1>3 DEF WriterStep

\* Every step in realtime mode keeps entries coherent; there is no refresher.
LEMMA RealtimeInductive == Base /\ Base' /\ Realtime /\ [Next]_vars => Realtime'
<1> SUFFICES ASSUME Base, Base', Realtime, [Next]_vars, mode' = "realtime" PROVE refresher'.pc = "idle" /\ Coherent'
  BY DEF Realtime, Coherent
<1>0. mode' = mode
  BY DEF Next, Ask, ReaderStep, ExpireCache, ExpireOne, Lookup, Select, Spin, Make, Link, StartWorker,
     Join, OnlyReader, WorkerStep, Create, CreateFails, Publish, Kill, Age, WriterStep, Write,
     InvalidateOne, Invalidate, Refresh, RefreshStart, RefreshInsert, RefreshPrune, RefreshCreate,
     RefreshFails, RefreshPublish, RefreshDelete, RefreshTables, RefreshEnd, vars, rest
<1>1. mode = "realtime" /\ refresher.pc = "idle" /\ Coherent
  BY <1>0 DEF Realtime, Coherent
<1>2. ASSUME NEW r \in Readers, NEW q \in Queries, NEW limit \in Limits, Ask(r, q, limit)
      PROVE  refresher'.pc = "idle" /\ Coherent'
  <2>1. \A s \in Readers : reader'[s].pc = "link" => reader'[s] = reader[s]
    BY <1>2 DEF Ask, Base, TypeOK, IdleReader
  <2> QED
    BY <1>1, <1>2, <2>1, CoherentReader DEF Ask, OnlyReader, db
<1>3. ASSUME NEW r \in Readers, ReaderStep(r)
      PROVE  refresher'.pc = "idle" /\ Coherent'
  <2>0. reader[r] \in ReaderType(reader[r].query) /\ DOMAIN reader = Readers
    BY DEF Base, TypeOK
  <2>1. ASSUME NEW answer, Return(r, answer)
        PROVE  \A s \in Readers : reader'[s].pc = "link" => reader'[s] = reader[s]
    <3>1. PICK late \in BOOLEAN : reader' = [reader EXCEPT ![r] = Resting(late)]
      BY <2>1, ReturnFacts
    <3> QED
      BY <2>0, <3>1, RestingFacts
  <2>2. CASE Select(r)
    BY <1>1, <2>1, <2>2, CoherentReader DEF Select, OnlyReader, db
  <2>3. CASE ExpireCache(r)
    <3>1. \A s \in Readers : reader'[s].pc = "link" => reader'[s] = reader[s]
      BY <2>0, <2>3 DEF ExpireCache, ReaderType
    <3> QED
      BY <1>1, <2>3, <3>1, CoherentReader DEF ExpireCache, OnlyReader, db
  <2>4. ASSUME NEW i \in Ids, ExpireOne(r, i) PROVE refresher'.pc = "idle" /\ Coherent'
    <3>1. \A s \in Readers : reader'[s].pc = "link" => reader'[s] = reader[s]
      BY <2>0, <2>4 DEF ExpireOne, At, ReaderType
    <3> QED
      BY <1>1, <2>4, <3>1, CoherentRemove DEF ExpireOne
  <2>5. CASE Lookup(r)
    <3>1. PICK R : /\ reader' = [reader EXCEPT ![r] = R]
                   /\ \/ R = [reader[r] EXCEPT !.pc = "make"]
                      \/ \E i : R = [reader[r] EXCEPT !.pc = "select", !.id = i]
                      \/ \E i : R = [reader[r] EXCEPT !.pc = "spin", !.id = i, !.left = QueryTimeout]
      BY <2>0, <2>5 DEF Lookup
    <3>2. R.pc # "link"
      BY <2>0, <3>1 DEF ReaderType
    <3>3. \A s \in Readers : reader'[s].pc = "link" => reader'[s] = reader[s]
      BY <2>0, <3>1, <3>2
    <3> QED
      BY <1>1, <2>5, <3>3, CoherentReader DEF Lookup, OnlyReader, db
  <2>6. CASE Spin(r)
    <3>1. \A s \in Readers : reader'[s].pc = "link" => reader'[s] = reader[s]
      BY <2>0, <2>1, <2>6 DEF Spin, At, Move, ReaderType
    <3> QED
      BY <1>1, <2>6, <3>1, CoherentReader DEF Spin, OnlyReader, db
  <2>7. CASE Join(r)
    <3>1. \A s \in Readers : reader'[s].pc = "link" => reader'[s] = reader[s]
      BY <2>0, <2>1, <2>7 DEF Join, At, Move, ReaderType
    <3> QED
      BY <1>1, <2>7, <3>1, CoherentReader DEF Join, OnlyReader, db
  <2>8. CASE Make(r)
    BY <1>1, <2>8, CoherentMake DEF Make
  <2>9. ASSUME NEW t \in Tables, Link(r, t) PROVE refresher'.pc = "idle" /\ Coherent'
    BY <1>1, <2>9, CoherentLink DEF Link
  <2>10. CASE StartWorker(r)
    BY <1>1, <2>10, CoherentStart DEF StartWorker
  <2> QED
    BY <1>3, <2>2, <2>3, <2>4, <2>5, <2>6, <2>7, <2>8, <2>9, <2>10 DEF ReaderStep
<1>4. ASSUME NEW i \in Ids, WorkerStep(i) \/ Kill(i) \/ Age(i)
      PROVE  refresher'.pc = "idle" /\ Coherent'
  <2>1. refresher' = refresher
    BY <1>4 DEF WorkerStep, Create, CreateFails, Publish, Kill, Age
  <2> QED
    BY <1>1, <1>4, <2>1, CoherentWorker
<1>5. ASSUME NEW w \in Writers, WriterStep(w) \/ \E t \in Tables : Invalidate(w, t)
      PROVE  refresher'.pc = "idle" /\ Coherent'
  <2>1. refresher' = refresher
    BY <1>5 DEF WriterStep, Write, InvalidateOne, Invalidate
  <2> QED
    BY <1>1, <1>5, <2>1, CoherentWriter
<1>6. CASE Refresh
  BY <1>1, <1>6 DEF Refresh, RefreshStart, RefreshInsert, RefreshPrune, RefreshCreate,
     RefreshFails, RefreshPublish, RefreshDelete, RefreshTables, RefreshEnd, RefresherAt
<1>7. CASE UNCHANGED vars
  BY <1>1, <1>7, CoherentReader DEF vars, db
<1> QED
  BY <1>2, <1>3, <1>4, <1>5, <1>6, <1>7 DEF Next

(***************************************************************************)
(* In realtime mode a cached entry that is still a row is out of date only *)
(* if a writer of one of its tables was under way while it was made, for   *)
(* any number of readers, writers, tables, expiries, failures and deaths:  *)
(* invalidate misses no entry that was complete, or not begun, when it     *)
(* looked.                                                                 *)
(***************************************************************************)
THEOREM StaleCorrect == Spec => []StaleOnlyByOverlap
<1>1. Init => Base /\ Realtime
  <2>1. Init => Realtime
    BY DEF Init, Realtime, Linking, Linked, WriterSees, UpToDate, Rows, IdleReader
  <2> QED
    BY <2>1, BaseInit
<1>2. (Base /\ Realtime) /\ [Next]_vars => (Base /\ Realtime)'
  BY BaseInductive, RealtimeInductive
<1>3. Realtime => StaleOnlyByOverlap
  BY DEF Realtime, UpToDate, StaleOnlyByOverlap, Stale
<1> QED
  BY <1>1, <1>2, <1>3, PTL DEF Spec
=============================================================================
