----------------------------- MODULE DBHandle -----------------------------
(***************************************************************************)
(* Database handles (src/pyflag/DB.py): the threads of one process make    *)
(* handles on the databases of cases (PooledDBO or DirectDBO), add rows    *)
(* through them one at a time or in bulk, lose connections, and drop the   *)
(* handles, whose destructor commits the bulk insert and gives the         *)
(* connection back.  The threads share the Store of pools, the pools, and  *)
(* mysql_connection_args.                                                  *)
(*                                                                         *)
(* What a handle keeps is th[t]; a row is a number and its content is left *)
(* out.  A statement that fails because the connection is lost may have    *)
(* been carried out by the server all the same.  The cursor is the default *)
(* PyFlagDirectCursor, which has no kill_connection: execute's attempt to  *)
(* call it ends in the AttributeError it ignores, and dbh keeps the dead   *)
(* connection until get_dbh replaces it.                                   *)
(***************************************************************************)
EXTENDS Integers, Sequences, FiniteSets, SequencesExt, Store

CONSTANTS
    Threads, Cases,
    Kinds,          \* the values of DB_CONNECTION_TYPE considered
    StoreSize,      \* max_size of the store of pools
    Threshold,      \* MASS_INSERT_THRESHOLD
    MaxHandles,     \* bound: handles made
    MaxRows,        \* bound: rows added
    MaxFaults,      \* bound: connections lost, statements and connects refused
    MaxPools,       \* bound: pools made
    MaxConns,       \* bound: connections opened
    None

ASSUME HandleAssumption ==
    /\ Kinds \subseteq {"direct", "pooled"}
    /\ \A n \in {StoreSize, Threshold, MaxHandles, MaxRows, MaxFaults, MaxPools, MaxConns} :
         n \in Nat
    /\ None \notin Cases

VARIABLES
    kind,     \* config.DB_CONNECTION_TYPE
    store,    \* PooledDBO.DBH: the pools by case
    pools,    \* the idle connections of each pool made
    args,     \* the db in mysql_connection_args, None if there are no args
    conns,    \* the connections opened: the case they are on, and if they live
    th,       \* the handle of each thread and where the thread is in it
    rows,     \* the rows added, and what became of them
    handles,  \* handles made
    faults    \* faults suffered

vars == <<kind, store, pools, args, conns, th, rows, handles, faults>>
shared == <<kind, store, pools, args, conns>>

NoHandle == [pc |-> "idle", case |-> None, pool |-> 0, dbh |-> 0,
             buf |-> <<>>, stmt |-> <<>>, bulk |-> FALSE, then |-> "held", again |-> FALSE]

Init ==
    /\ kind \in Kinds
    /\ store = <<>> /\ pools = <<>> /\ args = None /\ conns = <<>>
    /\ th = [t \in Threads |-> NoHandle]
    /\ rows = <<>>
    /\ handles = 0 /\ faults = 0

At(t, pc) == th[t].pc = pc
Go(t, pc) == th' = [th EXCEPT ![t].pc = pc]
Fault == faults < MaxFaults /\ faults' = faults + 1

\* The store expires by age too: any number of the pools that nobody asked
\* for just now may be too old.
Olds(n) == 0 .. n

(***************************************************************************)
(* Making a handle, and getting another connection for one: get_dbh,       *)
(* Pool.get and mysql_connect.                                             *)
(***************************************************************************)
FirstStep == IF kind = "pooled" THEN "find" ELSE "connect"

New(t, c) ==
    /\ At(t, "idle") /\ handles < MaxHandles
    /\ handles' = handles + 1
    /\ th' = [th EXCEPT ![t] = [NoHandle EXCEPT !.pc = FirstStep, !.case = c]]
    /\ UNCHANGED <<shared, rows, faults>>

FindPool(t) ==
    /\ At(t, "find")
    /\ \/ /\ HasKey(store, th[t].case)
          /\ th' = [th EXCEPT ![t].pc = "look",
                              ![t].pool = store[Find(store, th[t].case)].obj]
          /\ \E old \in Olds(Len(store) - 1) : store' = StoreGet(store, StoreSize, old, th[t].case)
       \/ ~HasKey(store, th[t].case) /\ Go(t, "make") /\ UNCHANGED store
    /\ UNCHANGED <<kind, pools, args, conns, rows, handles, faults>>

\* The store does not check that the key is not there already.
MakePool(t) ==
    /\ At(t, "make") /\ Len(pools) < MaxPools
    /\ pools' = Append(pools, <<>>)
    /\ \E old \in Olds(Len(store)) :
         store' = StorePut(store, StoreSize, old, th[t].case, Len(pools) + 1)
    /\ th' = [th EXCEPT ![t].pc = "look", ![t].pool = Len(pools) + 1]
    /\ UNCHANGED <<kind, args, conns, rows, handles, faults>>

\* Pool.get looks first and takes later.
Look(t) ==
    /\ At(t, "look")
    /\ Go(t, IF pools[th[t].pool] = <<>> THEN "connect" ELSE "take")
    /\ UNCHANGED <<shared, rows, handles, faults>>

Got(t, c) == [th EXCEPT ![t].dbh = c, ![t].pool = 0,
                        ![t].pc = IF th[t].again THEN "send" ELSE "held"]

\* Mutant: the connection taken stays in the queue.
TakeKeeps(t) ==
    /\ At(t, "take") /\ pools[th[t].pool] # <<>>
    /\ th' = Got(t, Head(pools[th[t].pool]))
    /\ UNCHANGED <<shared, rows, handles, faults>>

\* Queue.get waits until there is a connection.
Take(t) ==
    /\ At(t, "take") /\ pools[th[t].pool] # <<>>
    /\ th' = Got(t, Head(pools[th[t].pool]))
    /\ pools' = [pools EXCEPT ![th[t].pool] = Tail(@)]
    /\ UNCHANGED <<kind, store, args, conns, rows, handles, faults>>

\* mysql_connect writes the case into the global arguments ...
SetArgs(t) ==
    /\ At(t, "connect")
    /\ args' = th[t].case
    /\ Go(t, "open")
    /\ UNCHANGED <<kind, store, pools, conns, rows, handles, faults>>

\* Mutant: get_dbh returns the connection the handle had.
OpenForgets(t) ==
    /\ At(t, "open") /\ args # None /\ Len(conns) < MaxConns
    /\ conns' = Append(conns, [case |-> args, up |-> TRUE])
    /\ Go(t, "held")
    /\ UNCHANGED <<kind, store, pools, args, rows, handles, faults>>

\* ... and then connects with whatever is in them.
Open(t) ==
    /\ At(t, "open") /\ args # None /\ Len(conns) < MaxConns
    /\ conns' = Append(conns, [case |-> args, up |-> TRUE])
    /\ th' = Got(t, Len(conns) + 1)
    /\ UNCHANGED <<kind, store, pools, args, rows, handles, faults>>

\* Mutant: the bulk insert starts anew whether or not its statement succeeded.
AfterErrorClears(t) ==
    [th EXCEPT ![t] = IF @.then = "held" THEN [@ EXCEPT !.pc = "held", !.stmt = <<>>, !.buf = <<>>,
                                                        !.bulk = FALSE, !.again = FALSE]
                                         ELSE NoHandle]

(* What is left to do after a statement or the connect before it failed:   *)
(* the caller has the error, or the destructor ends without returning the  *)
(* connection.  The rows of the bulk insert stay in the buffer.            *)
AfterError(t) ==
    [th EXCEPT ![t] = IF @.then = "held" THEN [@ EXCEPT !.pc = "held", !.stmt = <<>>, !.bulk = FALSE,
                                                        !.again = FALSE]
                                         ELSE NoHandle]

\* No argument of the statement is kept by anybody but the buffer.
RowsAfterError(t) ==
    [r \in DOMAIN rows |->
        IF r \in ToSet(th[t].stmt) /\ (~th[t].bulk \/ th[t].then = "back")
        THEN [rows[r] EXCEPT !.fate = "error"] ELSE rows[r]]

\* The connect is refused, or another thread has just thrown the args away.
Refused(t) ==
    /\ At(t, "open")
    /\ IF args = None THEN UNCHANGED faults ELSE Fault
    /\ args' = None
    /\ rows' = RowsAfterError(t)
    /\ th' = IF th[t].again THEN AfterError(t) ELSE [th EXCEPT ![t] = NoHandle]
    /\ UNCHANGED <<kind, store, pools, conns, handles>>

(***************************************************************************)
(* Statements: execute, insert and the bulk insert.                        *)
(***************************************************************************)
NewRow(t) == Append(rows, [case |-> th[t].case, at |-> {}, copies |-> 0, lost |-> 0,
                           fate |-> "given"])

\* The rows of t's statement are in the table of its connection's case.
Stored(t, R) ==
    [r \in DOMAIN R |->
        IF r \in ToSet(th[t].stmt)
        THEN [R[r] EXCEPT !.copies = @ + 1, !.fate = "stored",
                          !.at = @ \cup {conns[th[t].dbh].case}]
        ELSE R[r]]

CountLoss(t, R) ==
    [r \in DOMAIN R |-> IF r \in ToSet(th[t].stmt) THEN [R[r] EXCEPT !.lost = @ + 1] ELSE R[r]]

SendRows(t, bulk, stmt, then) ==
    th' = [th EXCEPT ![t].pc = "send", ![t].bulk = bulk, ![t].stmt = stmt, ![t].then = then]

Insert(t) ==
    /\ At(t, "held") /\ Len(rows) < MaxRows
    /\ rows' = NewRow(t)
    /\ SendRows(t, FALSE, <<Len(rows) + 1>>, "held")
    /\ UNCHANGED <<shared, handles, faults>>

\* The row goes to the buffer, which is sent when it is over the threshold.
MassInsert(t) ==
    /\ At(t, "held") /\ Len(rows) < MaxRows
    /\ rows' = NewRow(t)
    /\ LET buf == Append(th[t].buf, Len(rows) + 1)
       IN  th' = [th EXCEPT ![t].buf = buf,
                            ![t].bulk = Len(buf) > Threshold,
                            ![t].stmt = IF Len(buf) > Threshold THEN buf ELSE <<>>,
                            ![t].pc = IF Len(buf) > Threshold THEN "send" ELSE "held"]
    /\ UNCHANGED <<shared, handles, faults>>

MassInsertCommit(t) ==
    /\ At(t, "held") /\ th[t].buf # <<>>
    /\ SendRows(t, TRUE, th[t].buf, "held")
    /\ UNCHANGED <<shared, rows, handles, faults>>

\* mass_insert_start forgets what the last bulk insert did not commit.
MassInsertStart(t) ==
    /\ At(t, "held") /\ th[t].buf # <<>>
    /\ th' = [th EXCEPT ![t].buf = <<>>]
    /\ rows' = [r \in DOMAIN rows |->
                  IF r \in ToSet(th[t].buf) THEN [rows[r] EXCEPT !.fate = "dropped"] ELSE rows[r]]
    /\ UNCHANGED <<shared, handles, faults>>

Up(t) == conns[th[t].dbh].up

\* Mutant: the bulk insert is not started anew after its statement.
ClearedNever(t) == th[t].buf

Cleared(t) == IF th[t].bulk THEN <<>> ELSE th[t].buf

\* The bulk insert starts anew only after its statement has succeeded.
Sent(t) == [th EXCEPT ![t].pc = th[t].then, ![t].again = FALSE, ![t].stmt = <<>>,
                      ![t].bulk = FALSE, ![t].buf = Cleared(t)]

\* Mutant: the destructor ends with its commit.
SucceedEnds(t) ==
    /\ At(t, "send") /\ Up(t)
    /\ rows' = Stored(t, rows)
    /\ th' = IF th[t].then = "back" THEN [th EXCEPT ![t] = NoHandle] ELSE Sent(t)
    /\ UNCHANGED <<shared, handles, faults>>

Succeed(t) ==
    /\ At(t, "send") /\ Up(t)
    /\ rows' = Stored(t, rows)
    /\ th' = Sent(t)
    /\ UNCHANGED <<shared, handles, faults>>

\* The server refuses the statement: a DBError.
Fail(t) ==
    /\ At(t, "send") /\ Up(t) /\ Fault
    /\ rows' = RowsAfterError(t)
    /\ th' = AfterError(t)
    /\ UNCHANGED <<shared, handles>>

(* The connection is lost, now or since its last use.  The first time, the *)
(* statement is sent again on another connection; the second time, the     *)
(* error is the caller's.                                                  *)
Lose(t) ==
    /\ At(t, "send")
    /\ \E R \in {rows} \cup (IF Up(t) THEN {Stored(t, rows)} ELSE {}) :
         LET after == IF Up(t) THEN CountLoss(t, R) ELSE R
         IN  IF th[t].again
             THEN /\ th' = AfterError(t)
                  /\ rows' = [r \in DOMAIN rows |->
                                IF RowsAfterError(t)[r] = rows[r] THEN after[r]
                                ELSE [after[r] EXCEPT !.fate = "error"]]
             ELSE /\ th' = [th EXCEPT ![t].pc = FirstStep, ![t].again = TRUE]
                  /\ rows' = after
    /\ IF Up(t) THEN Fault ELSE UNCHANGED faults
    /\ conns' = [conns EXCEPT ![th[t].dbh].up = FALSE]
    /\ UNCHANGED <<kind, store, pools, args, handles>>

(***************************************************************************)
(* __del__: the bulk insert is committed, then the connection goes back to *)
(* the pool the store has for the case now, if it has one.                 *)
(***************************************************************************)
Drop(t) ==
    /\ At(t, "held")
    /\ IF th[t].buf = <<>> THEN Go(t, "back") ELSE SendRows(t, TRUE, th[t].buf, "back")
    /\ UNCHANGED <<shared, rows, handles, faults>>

GiveBack(t) ==
    /\ At(t, "back")
    /\ IF kind = "pooled" /\ HasKey(store, th[t].case)
       THEN /\ \E old \in Olds(Len(store) - 1) :
                 store' = StoreGet(store, StoreSize, old, th[t].case)
            /\ pools' = [pools EXCEPT ![store[Find(store, th[t].case)].obj] = Append(@, th[t].dbh)]
       ELSE UNCHANGED <<store, pools>>
    /\ th' = [th EXCEPT ![t] = NoHandle]
    /\ UNCHANGED <<kind, args, conns, rows, handles, faults>>

Obtain(t) == \/ FindPool(t) \/ MakePool(t) \/ Look(t) \/ Take(t)
             \/ SetArgs(t) \/ Open(t) \/ Refused(t)
Work(t) == Succeed(t) \/ Fail(t) \/ Lose(t)
Step(t) ==
    \/ Obtain(t) \/ Work(t)
    \/ \E c \in Cases : New(t, c)
    \/ Insert(t) \/ MassInsert(t) \/ MassInsertCommit(t) \/ MassInsertStart(t)
    \/ Drop(t) \/ GiveBack(t)

Next == \E t \in Threads : Step(t)

(* A thread that runs takes its next step, and a handle is dropped some    *)
(* day: handles are local variables of the functions that use them.        *)
Live == \A t \in Threads : WF_vars(Obtain(t) \/ Work(t) \/ GiveBack(t)) /\ WF_vars(Drop(t))

Spec == Init /\ [][Next]_vars /\ Live

(***************************************************************************)
(* Properties                                                              *)
(***************************************************************************)
HandleType ==
    [pc : {"idle", "find", "make", "look", "take", "connect", "open", "held", "send", "back"},
     case : Cases \cup {None}, pool : {0} \cup DOMAIN pools, dbh : {0} \cup DOMAIN conns,
     buf : Seq(DOMAIN rows), stmt : Seq(DOMAIN rows),
     bulk : BOOLEAN, then : {"held", "back"}, again : BOOLEAN]
RowType == [case : Cases, at : SUBSET Cases, copies : Nat, lost : Nat,
            fate : {"given", "stored", "error", "dropped"}]

(* Every variable stays in its type; a handle that is used has a           *)
(* connection.                                                             *)
TypeOK ==
    /\ kind \in Kinds
    /\ store \in Seq([key : Cases, obj : DOMAIN pools])
    /\ pools \in Seq(Seq(DOMAIN conns))
    /\ args \in Cases \cup {None}
    /\ conns \in Seq([case : Cases, up : BOOLEAN])
    /\ th \in [Threads -> HandleType]
    /\ rows \in Seq(RowType)
    /\ \A t \in Threads : th[t].pc \in {"held", "send", "back"} => th[t].dbh # 0
    /\ handles \in 0 .. MaxHandles /\ faults \in 0 .. MaxFaults

Uses(t, c) == th[t].dbh = c
Idle(c) == {place \in UNION {{p} \X DOMAIN pools[p] : p \in DOMAIN pools} :
               pools[place[1]][place[2]] = c}

(* A connection is in one place: idle in one pool, once, or in the handle  *)
(* of one thread ("the same connection will never be shared by two         *)
(* different threads", Pool).                                              *)
NeverShared ==
    \A c \in DOMAIN conns :
        Cardinality(Idle(c)) + Cardinality({t \in Threads : Uses(t, c)}) <= 1

(* A row is in the database once, and once more for each connection that   *)
(* was lost under a statement carrying it: nothing but execute's second    *)
(* attempt, or the destructor's commit of rows whose commit failed, may    *)
(* repeat a row.                                                           *)
CopiesHaveCause == \A r \in DOMAIN rows : rows[r].copies <= 1 + rows[r].lost

(* A row handed to a handle is never forgotten: until it is in the         *)
(* database it is in the buffer or the statement of a handle, unless an    *)
(* error met it or mass_insert_start was called over it.                   *)
NoRowForgotten ==
    \A r \in DOMAIN rows :
        rows[r].fate = "given" => \E t \in Threads : r \in ToSet(th[t].buf \o th[t].stmt)

(* Threads wait in a pool only for a pool's own connections: as long as    *)
(* there has been no fault and the pool each thread uses is the one the    *)
(* store has for its case, a thread that waits is served when the handles  *)
(* before it are dropped.                                                  *)
Intact ==
    /\ faults = 0
    /\ \A t \in Threads : th[t].pool # 0 =>
         /\ HasKey(store, th[t].case)
         /\ store[Find(store, th[t].case)].obj = th[t].pool
WaitersServed == [](Intact) => \A t \in Threads : At(t, "take") ~> At(t, "held")

(* "Connect specified case and return a new connection handle"             *)
(* (mysql_connect): a row added through a handle on a case is put into the *)
(* database of that case.                                                  *)
RowsInTheirCase == \A r \in DOMAIN rows : rows[r].at \subseteq {rows[r].case}
=============================================================================
