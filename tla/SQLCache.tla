------------------------------ MODULE SQLCache ------------------------------
(***************************************************************************)
(* The SQL result cache of src/pyflag/DB.py: cached_execute and            *)
(* _make_sql_cache_entry with its worker thread, the writers that          *)
(* invalidate entries (insert, update, delete, drop, mass_insert_commit),  *)
(* expiry, and the periodic refresher.  Readers, writers and the refresher *)
(* are threads of several processes that share nothing but the database.   *)
(*                                                                         *)
(* A step is a statement: handles are in autocommit mode, and a DROP TABLE *)
(* commits, so removing one entry (its row, its links, its table) is a     *)
(* step too.  The content of a table is a version number; what a query     *)
(* returned is the versions it was computed from.  The status 'dirty' is   *)
(* assigned nowhere and left out.                                          *)
(***************************************************************************)
EXTENDS Integers, FiniteSets

CONSTANTS
    Readers, Writers,
    Tables, Queries,
    TablesOf,        \* the tables EXPLAIN lists for a query
    Limits,          \* the offsets asked for
    Length,          \* the rows asked for
    CacheLength,     \* DBCACHE_LENGTH
    QueryTimeout,    \* TABLE_QUERY_TIMEOUT
    Modes,           \* the values of SQL_CACHE_MODE considered
    MaxIds,          \* bound: entries ever made
    MaxWrites,       \* bound: writes
    MaxKills,        \* bound: processes that end while they fill an entry
    None

ASSUME QueriesAssumption ==
    TablesOf \in [Queries -> SUBSET Tables] /\ \A q \in Queries : TablesOf[q] # {}
ASSUME LengthAssumption ==
    /\ CacheLength \in Nat /\ Length \in Nat /\ 2 * Length <= CacheLength
    /\ Limits \subseteq Nat
ASSUME BoundsAssumption ==
    /\ MaxIds \in Nat /\ MaxWrites \in Nat /\ MaxKills \in Nat /\ QueryTimeout \in Nat
    /\ Modes \subseteq {"realtime", "periodic"}

Ids == 1 .. MaxIds

\* What a query returns: the versions of the tables it was computed from.
Answers(q) == [TablesOf[q] -> Nat]

ASSUME ReadersAssumption == IsFiniteSet(Readers)
ASSUME NoneAssumption == None \notin Queries /\ \A q \in Queries : None \notin Answers(q)

VARIABLES
    mode,        \* SQL_CACHE_MODE
    version,     \* what is in each table
    status,      \* sql_cache: the status of each row, "none" if there is no row
    old,         \* the rows with a timestamp older than DBCACHE_AGE
    links,       \* sql_cache_tables: <<sql_id, table_name>>
    cache,       \* the tables cache_<id>: None, or what was read into it
    entry,       \* query and limit of each id given out, and how far its
                 \* making has come: "new", "create", "update", "done"
    last,        \* the last id given out
    reader, writer, refresher,
    writes, kills,
    overlap      \* history: entries made while one of their tables was written

db   == <<status, old, links, cache>>
rest == <<mode, kills, writes>>
vars == <<rest, version, db, entry, last, reader, writer, refresher, overlap>>

Snapshot(q) == [t \in TablesOf[q] |-> version[t]]
Rows == {i \in Ids : status[i] # "none"}

\* floor: the versions when the call began; late: the last call returned
\* something older (both are history).
IdleReader == [pc |-> "idle", query |-> None, limit |-> 0, id |-> 0, todo |-> {},
               left |-> 0, floor |-> None, late |-> FALSE]
IdleWriter == [pc |-> "idle", table |-> None, todo |-> {}]

Init ==
    /\ mode \in Modes
    /\ version = [t \in Tables |-> 0]
    /\ status = [i \in Ids |-> "none"]
    /\ old = {} /\ links = {}
    /\ cache = [i \in Ids |-> None]
    /\ entry = [i \in Ids |-> [query |-> None, lower |-> 0, pc |-> "none"]]
    /\ last = 0
    /\ reader = [r \in Readers |-> IdleReader]
    /\ writer = [w \in Writers |-> IdleWriter]
    /\ refresher = [pc |-> "idle", todo |-> {}, from |-> 0, id |-> 0]
    /\ writes = 0 /\ kills = 0
    /\ overlap = {}

-----------------------------------------------------------------------------
\* One entry is deleted, by expiry or by invalidation.
Remove(i) ==
    /\ status' = [status EXCEPT ![i] = "none"]
    /\ links' = {l \in links : l[1] # i}
    /\ cache' = [cache EXCEPT ![i] = None]
    /\ old' = old \ {i}

\* Time passes (only expire_cache looks at the age of a row).
Age(i) ==
    /\ mode = "realtime"
    /\ i \in Rows \ old
    /\ old' = old \cup {i}
    /\ UNCHANGED <<rest, version, status, links, cache, entry, last, reader, writer,
                   refresher, overlap>>

-----------------------------------------------------------------------------
(***************************************************************************)
(* cached_execute.  pc: "expire", "lookup" (once the entries in todo have  *)
(* been removed), then "select", "spin", or "make", "link" and "join".     *)
(***************************************************************************)
At(r, where) == reader[r].pc = where
Move(r, where) == reader' = [reader EXCEPT ![r].pc = where]

\* The call returns the answer, or raises (None).
Return(r, answer) ==
    reader' = [reader EXCEPT ![r] = [IdleReader EXCEPT !.late =
        answer # None /\ \E t \in DOMAIN answer : answer[t] < reader[r].floor[t]]]

OnlyReader == UNCHANGED <<rest, version, db, entry, last, writer, refresher, overlap>>

\* Ids that readers and the refresher may still need (for the bound).
Reserved == Cardinality({r \in Readers : ~At(r, "idle")})
            + IF refresher.pc \in {"idle", "prune"} THEN 0 ELSE Cardinality(refresher.todo)

Ask(r, q, limit) ==
    /\ At(r, "idle")
    /\ last + Reserved < MaxIds
    /\ reader' = [reader EXCEPT ![r] =
          [IdleReader EXCEPT !.pc = IF mode = "realtime" THEN "expire" ELSE "lookup",
                             !.query = q, !.limit = limit, !.floor = Snapshot(q)]]
    /\ OnlyReader

ExpireCache(r) ==
    /\ At(r, "expire")
    /\ reader' = [reader EXCEPT ![r].pc = "lookup", ![r].todo = old]
    /\ OnlyReader

ExpireOne(r, i) ==
    /\ At(r, "lookup") /\ i \in reader[r].todo
    /\ Remove(i)
    /\ reader' = [reader EXCEPT ![r].todo = @ \ {i}]
    /\ UNCHANGED <<rest, version, entry, last, writer, refresher, overlap>>

\* Mutant: an entry that has the first row asked for will do.
CoversFirst(i, q, limit) ==
    /\ i \in Rows /\ entry[i].query = q
    /\ entry[i].lower <= limit
    /\ entry[i].lower + CacheLength >= limit

Covers(i, q, limit) ==
    /\ i \in Rows /\ entry[i].query = q
    /\ entry[i].lower <= limit
    /\ entry[i].lower + CacheLength >= limit + Length

\* "order by id limit 1"
First(ids) == CHOOSE i \in ids : \A j \in ids : i <= j

Lookup(r) ==
    LET found == {i \in Ids : Covers(i, reader[r].query, reader[r].limit)}
        i     == First(found)
    IN  /\ At(r, "lookup") /\ reader[r].todo = {}
        /\ reader' = [reader EXCEPT ![r] =
              IF found = {} THEN [@ EXCEPT !.pc = "make"]
              ELSE IF status[i] = "cached" THEN [@ EXCEPT !.pc = "select", !.id = i]
              ELSE [@ EXCEPT !.pc = "spin", !.id = i, !.left = QueryTimeout]]
        /\ OnlyReader

\* select * from cache_<id>: an error if the entry has been removed since.
Select(r) ==
    /\ At(r, "select")
    /\ Return(r, cache[reader[r].id])
    /\ OnlyReader

Ready(i) == status[i] = "cached"

\* Mutant: it waits as long as it takes.
SpinForever(r) ==
    /\ At(r, "spin")
    /\ IF Ready(reader[r].id) THEN Move(r, "select") ELSE UNCHANGED reader
    /\ OnlyReader

\* One turn of the loop that waits for another reader's entry.
Spin(r) ==
    /\ At(r, "spin")
    /\ IF reader[r].left = 0 THEN Return(r, None)
       ELSE IF Ready(reader[r].id) THEN Move(r, "select")
       ELSE reader' = [reader EXCEPT ![r].left = @ - 1]
    /\ OnlyReader

-----------------------------------------------------------------------------
(***************************************************************************)
(* _make_sql_cache_entry: insert the row, link it to its tables, start the *)
(* worker, and wait for it as long as QueryTimeout.                        *)
(***************************************************************************)
\* Mutant: the window may begin before the first row.
LowerLimitUnclamped(limit) == limit - CacheLength \div 2

LowerLimit(limit) ==
    IF limit > CacheLength \div 2 THEN limit - CacheLength \div 2 ELSE 0

\* The writers that have begun on a table of query q.
Writing(q) == {w \in Writers : writer[w].pc # "idle" /\ writer[w].table \in TablesOf[q]}

\* insert into sql_cache, and autoincrement.
NewEntry(q, lower, pc) ==
    /\ last' = last + 1
    /\ status' = [status EXCEPT ![last'] = "progress"]
    /\ entry' = [entry EXCEPT ![last'] = [query |-> q, lower |-> lower, pc |-> pc]]
    /\ overlap' = IF Writing(q) = {} THEN overlap ELSE overlap \cup {last'}
    /\ UNCHANGED <<old, links, cache>>

Make(r) ==
    /\ At(r, "make")
    /\ NewEntry(reader[r].query, LowerLimit(reader[r].limit), "new")
    /\ reader' = [reader EXCEPT ![r].pc = "link", ![r].id = last',
                                ![r].todo = TablesOf[reader[r].query]]
    /\ UNCHANGED <<rest, version, writer, refresher>>

Link(r, t) ==
    /\ At(r, "link") /\ t \in reader[r].todo
    /\ links' = links \cup {<<reader[r].id, t>>}
    /\ reader' = [reader EXCEPT ![r].todo = @ \ {t}]
    /\ UNCHANGED <<rest, version, status, old, cache, entry, last, writer, refresher, overlap>>

StartWorker(r) ==
    /\ At(r, "link") /\ reader[r].todo = {}
    /\ entry' = [entry EXCEPT ![reader[r].id].pc = "create"]
    /\ Move(r, "join")
    /\ UNCHANGED <<rest, version, db, last, writer, refresher, overlap>>

\* The worker has ended, or the wait is over: "Query still executing".
Join(r) ==
    /\ At(r, "join")
    /\ IF entry[reader[r].id].pc = "done" THEN Move(r, "select") ELSE Return(r, None)
    /\ OnlyReader

-----------------------------------------------------------------------------
(***************************************************************************)
(* run_query, the worker thread of entry i.  It goes on when the reader    *)
(* has given up, and when the entry has been removed.                      *)
(***************************************************************************)
Step(i, pc) == entry' = [entry EXCEPT ![i].pc = pc]

Create(i) ==
    /\ entry[i].pc = "create"
    /\ cache' = [cache EXCEPT ![i] = Snapshot(entry[i].query)]
    /\ Step(i, "update")
    /\ UNCHANGED <<rest, version, status, old, links, last, reader, writer, refresher, overlap>>

\* Mutant: the row stays when the query fails.
CreateFailsQuietly(i) ==
    /\ entry[i].pc = "create"
    /\ Step(i, "done")
    /\ UNCHANGED <<rest, version, db, last, reader, writer, refresher, overlap>>

\* The query fails, or the update that should publish its table: the row is
\* deleted, its links and the table are not.
CreateFails(i) ==
    /\ entry[i].pc \in {"create", "update"}
    /\ status' = [status EXCEPT ![i] = "none"]
    /\ old' = old \ {i}
    /\ Step(i, "done")
    /\ UNCHANGED <<rest, version, links, cache, last, reader, writer, refresher, overlap>>

\* Mutant: the row is put back if it has gone.
SetCachedAlways(i) ==
    /\ status' = [status EXCEPT ![i] = "cached"]
    /\ old' = old \ {i}

\* update sql_cache set status='cached' where id=...; the timestamp follows.
SetCached(i) ==
    /\ status' = [status EXCEPT ![i] = IF i \in Rows THEN "cached" ELSE "none"]
    /\ old' = old \ {i}

Publish(i) ==
    /\ entry[i].pc = "update"
    /\ SetCached(i)
    /\ Step(i, "done")
    /\ UNCHANGED <<rest, version, links, cache, last, reader, writer, refresher, overlap>>

Filling(i) == entry[i].pc \in {"new", "create", "update"}

\* The process that makes entry i ends: its reader and its worker with it.
Kill(i) ==
    /\ kills < MaxKills
    /\ Filling(i)
    /\ kills' = kills + 1
    /\ Step(i, "dead")
    /\ reader' = [r \in Readers |->
          IF reader[r].id = i /\ reader[r].pc \in {"link", "join"}
          THEN IdleReader ELSE reader[r]]
    /\ UNCHANGED <<mode, writes, version, db, last, writer, refresher, overlap>>

-----------------------------------------------------------------------------
(***************************************************************************)
(* insert, update, delete, drop and mass_insert_commit: invalidate, then   *)
(* write.  invalidate does nothing in the other modes.                     *)
(***************************************************************************)
Invalidate(w, t) ==
    /\ writer[w].pc = "idle"
    /\ writes < MaxWrites
    /\ writes' = writes + 1
    /\ writer' = [writer EXCEPT ![w] =
          [pc |-> "write", table |-> t,
           todo |-> IF mode = "realtime" THEN {i \in Ids : <<i, t>> \in links} ELSE {}]]
    /\ overlap' = overlap \cup {i \in Ids : Filling(i) /\ t \in TablesOf[entry[i].query]}
    /\ UNCHANGED <<mode, kills, version, db, entry, last, reader, refresher>>

InvalidateOne(w, i) ==
    /\ writer[w].pc = "write" /\ i \in writer[w].todo
    /\ Remove(i)
    /\ writer' = [writer EXCEPT ![w].todo = @ \ {i}]
    /\ UNCHANGED <<rest, version, entry, last, reader, refresher, overlap>>

\* Mutant: the table is written while entries are still to be removed.
WriteEarly(w) ==
    /\ writer[w].pc = "write"
    /\ version' = [version EXCEPT ![writer[w].table] = @ + 1]
    /\ writer' = [writer EXCEPT ![w] = IdleWriter]
    /\ UNCHANGED <<rest, db, entry, last, reader, refresher, overlap>>

Write(w) ==
    /\ writer[w].pc = "write" /\ writer[w].todo = {}
    /\ version' = [version EXCEPT ![writer[w].table] = @ + 1]
    /\ writer' = [writer EXCEPT ![w] = IdleWriter]
    /\ UNCHANGED <<rest, db, entry, last, reader, refresher, overlap>>

-----------------------------------------------------------------------------
(***************************************************************************)
(* The refresher (DB.py run as a program), for the periodic mode: every    *)
(* row is made again under a new id, then tables without a row go.         *)
(***************************************************************************)
RefresherAt(pc) == mode = "periodic" /\ refresher.pc = pc

\* select * from sql_cache
RefreshStart ==
    /\ RefresherAt("idle")
    /\ Rows # {} /\ last + Reserved + Cardinality(Rows) <= MaxIds
    /\ refresher' = [refresher EXCEPT !.pc = "insert", !.todo = Rows]
    /\ UNCHANGED <<rest, version, db, entry, last, reader, writer, overlap>>

RefreshInsert(i) ==
    /\ RefresherAt("insert") /\ i \in refresher.todo
    /\ NewEntry(entry[i].query, entry[i].lower, "refresh")
    /\ refresher' = [pc |-> "create", todo |-> refresher.todo \ {i}, from |-> i, id |-> last']
    /\ UNCHANGED <<rest, version, reader, writer>>

RefreshCreate ==
    /\ RefresherAt("create")
    /\ cache' = [cache EXCEPT ![refresher.id] = Snapshot(entry[refresher.id].query)]
    /\ refresher' = [refresher EXCEPT !.pc = "update"]
    /\ UNCHANGED <<rest, version, status, old, links, entry, last, reader, writer, overlap>>

\* The query fails: this round is over and the new row stays in progress.
RefreshFails ==
    /\ RefresherAt("create")
    /\ refresher' = [refresher EXCEPT !.pc = "idle", !.todo = {}]
    /\ UNCHANGED <<rest, version, db, entry, last, reader, writer, overlap>>

RefreshPublish ==
    /\ RefresherAt("update")
    /\ SetCached(refresher.id)
    /\ refresher' = [refresher EXCEPT !.pc = "delete"]
    /\ UNCHANGED <<rest, version, links, cache, entry, last, reader, writer, overlap>>

RefreshDelete ==
    /\ RefresherAt("delete")
    /\ status' = [status EXCEPT ![refresher.from] = "none"]
    /\ old' = old \ {refresher.from}
    /\ refresher' = [refresher EXCEPT !.pc = "insert"]
    /\ UNCHANGED <<rest, version, links, cache, entry, last, reader, writer, overlap>>

\* show tables
RefreshTables ==
    /\ RefresherAt("insert") /\ refresher.todo = {}
    /\ refresher' = [refresher EXCEPT !.pc = "prune", !.todo = {i \in Ids : cache[i] # None}]
    /\ UNCHANGED <<rest, version, db, entry, last, reader, writer, overlap>>

RefreshPrune(i) ==
    /\ RefresherAt("prune") /\ i \in refresher.todo
    /\ cache' = IF status[i] = "none" THEN [cache EXCEPT ![i] = None] ELSE cache
    /\ refresher' = [refresher EXCEPT !.todo = @ \ {i}]
    /\ UNCHANGED <<rest, version, status, old, links, entry, last, reader, writer, overlap>>

RefreshEnd ==
    /\ RefresherAt("prune") /\ refresher.todo = {}
    /\ refresher' = [refresher EXCEPT !.pc = "idle"]
    /\ UNCHANGED <<rest, version, db, entry, last, reader, writer, overlap>>

-----------------------------------------------------------------------------
ReaderStep(r) ==
    \/ ExpireCache(r)
    \/ \E i \in Ids : ExpireOne(r, i)
    \/ Lookup(r)
    \/ Select(r)
    \/ Spin(r)
    \/ Make(r)
    \/ \E t \in Tables : Link(r, t)
    \/ StartWorker(r)
    \/ Join(r)

WorkerStep(i) == Create(i) \/ CreateFails(i) \/ Publish(i)

WriterStep(w) == Write(w) \/ \E i \in Ids : InvalidateOne(w, i)

Refresh ==
    \/ RefreshStart
    \/ \E i \in Ids : RefreshInsert(i) \/ RefreshPrune(i)
    \/ RefreshCreate \/ RefreshFails \/ RefreshPublish \/ RefreshDelete
    \/ RefreshTables \/ RefreshEnd

Next ==
    \/ \E r \in Readers :
          \/ \E q \in Queries, limit \in Limits : Ask(r, q, limit)
          \/ ReaderStep(r)
    \/ \E i \in Ids : WorkerStep(i) \/ Kill(i) \/ Age(i)
    \/ \E w \in Writers : WriterStep(w) \/ \E t \in Tables : Invalidate(w, t)
    \/ Refresh

\* Threads that have begun go on; no call, write or refresh is owed.
Fairness ==
    /\ \A r \in Readers : WF_vars(ReaderStep(r))
    /\ \A i \in Ids : WF_vars(WorkerStep(i))
    /\ \A w \in Writers : WF_vars(WriterStep(w))

Spec == Init /\ [][Next]_vars /\ Fairness
-----------------------------------------------------------------------------
EntryType == [query : Queries \cup {None}, lower : Nat,
              pc : {"none", "new", "create", "update", "done", "dead", "refresh"}]
ReaderType(q) ==
    [pc : {"idle", "expire", "lookup", "select", "spin", "make", "link", "join"},
     query : Queries \cup {None}, limit : Nat, id : 0 .. MaxIds,
     todo : SUBSET (Ids \cup Tables), left : 0 .. QueryTimeout,
     floor : IF q = None THEN {None} ELSE Answers(q), late : BOOLEAN]
WriterType == [pc : {"idle", "write"}, table : Tables \cup {None}, todo : SUBSET Ids]
RefresherType == [pc : {"idle", "insert", "create", "update", "delete", "prune"},
                  todo : SUBSET Ids, from : 0 .. MaxIds, id : 0 .. MaxIds]

\* Every variable stays in its type: only rows have an age, a cache table holds
\* an answer to the query of its entry, and no more ids are given out than the
\* calls and refreshes admitted may need.
TypeOK ==
    /\ mode \in Modes
    /\ version \in [Tables -> Nat]
    /\ status \in [Ids -> {"none", "progress", "cached"}]
    /\ old \subseteq Rows
    /\ links \subseteq Ids \X Tables
    /\ entry \in [Ids -> EntryType]
    /\ DOMAIN cache = Ids
    /\ \A i \in Ids : cache[i] # None => cache[i] \in Answers(entry[i].query)
    /\ last \in 0 .. MaxIds
    /\ \A i \in Rows : i <= last
    /\ DOMAIN reader = Readers
    /\ \A r \in Readers : /\ reader[r] \in ReaderType(reader[r].query)
                          /\ ~At(r, "idle") => reader[r].query \in Queries
    /\ writer \in [Writers -> WriterType]
    /\ refresher \in RefresherType
    /\ overlap \subseteq Ids
    /\ writes \in 0 .. MaxWrites /\ kills \in 0 .. MaxKills

(***************************************************************************)
(* A row that says 'cached' has its table, whoever makes, removes,         *)
(* refreshes or prunes entries meanwhile: a reader that finds such a row   *)
(* and reads on at once gets an answer.                                    *)
(***************************************************************************)
CachedHasTable == \A i \in Rows : status[i] = "cached" => cache[i] # None

(***************************************************************************)
(* A table that a reader selects from has the rows it asked for: the       *)
(* offset into it is not negative and the last row is inside, for an entry *)
(* found and for one just made.                                            *)
(***************************************************************************)
WindowCovered ==
    \A r \in Readers : reader[r].pc \in {"select", "spin", "join"} =>
        LET offset == reader[r].limit - entry[reader[r].id].lower
        IN  offset >= 0 /\ offset + Length <= CacheLength

(***************************************************************************)
(* In realtime mode a cached entry is out of date only while a writer of   *)
(* one of its tables is under way, or if one was under way while the entry *)
(* was made.                                                               *)
(***************************************************************************)
Stale(i) == cache[i] # None /\ cache[i] # Snapshot(entry[i].query)

StaleOnlyByOverlap ==
    mode = "realtime" =>
        \A i \in Rows : Stale(i) => i \in overlap

\* Every call of cached_execute returns or raises, though rows it waits for
\* may be removed and workers may fail, hang on or die.
ReadersReturn == \A r \in Readers : reader[r].pc # "idle" ~> reader[r].pc = "idle"

(***************************************************************************)
(* In realtime mode, if no process dies, a row does not stay 'progress':   *)
(* its worker publishes it or deletes it, so later readers are not left    *)
(* waiting for nobody.                                                     *)
(***************************************************************************)
ProgressEnds ==
    [](mode = "realtime" /\ kills = 0) =>
        \A i \in Ids : status[i] = "progress" ~> status[i] # "progress"

(***************************************************************************)
(* The methods that write a table "ensure the cache is properly            *)
(* invalidated": an answer is not older than what was in the tables when   *)
(* cached_execute was called.                                              *)
(***************************************************************************)
Fresh == mode = "realtime" => \A r \in Readers : ~reader[r].late
=============================================================================
