----------------------------- MODULE FarmProof -----------------------------
(***************************************************************************)
(* Proofs about Farm: type correctness, and for a cookie used by one       *)
(* client that the count is exact, that wait_for_scan is a barrier, and    *)
(* that the farm implements ScanBarrier.                                   *)
(***************************************************************************)
EXTENDS Farm, FiniteSetTheorems, TLAPS

-----------------------------------------------------------------------------
(* Types.                                                                   *)

\* The initial state is well typed.
LEMMA TypeInit == Init => TypeOK
<1> SUFFICES ASSUME Init PROVE TypeOK
  OBVIOUS
<1>1. present \in BOOLEAN /\ sigchld \in BOOLEAN /\ waiting \in BOOLEAN
  BY Zenon DEF Init
<1> QED
  BY <1>1, ProcsAssumption, BoundsAssumption DEF Init, TypeOK, Places, Procs

\* What the nanny does, and what is done to it without a death.
NannyStep ==
    \/ \E w \in Workers : Stray(w)
    \/ Handler \/ Interrupted \/ Collect \/ NoChild \/ Fork

\* None of it touches a job or the pipe's contents, and no worker ends by it.
LEMMA NannyKeepsJobs ==
    NannyStep => UNCHANGED <<tdb, fifo, job, top, mode>> /\ alive \subseteq alive'
<1>1. ASSUME NEW w \in Workers, Stray(w)
      PROVE  UNCHANGED <<tdb, fifo, job, top, mode>> /\ alive \subseteq alive'
  BY <1>1 DEF Stray
<1>2. CASE Fork
  BY <1>2 DEF Fork
<1>3. CASE Handler \/ Interrupted \/ Collect \/ NoChild
  BY <1>3 DEF Handler, Interrupted, Collect, NoChild
<1> QED
  BY <1>1, <1>2, <1>3 DEF NannyStep

\* The nanny's variables keep their types.
LEMMA NannyTypes ==
    ASSUME TypeOK, NannyStep
    PROVE  /\ alive' \subseteq Workers /\ zombies' \subseteq Workers \ alive'
           /\ sigchld' \in BOOLEAN /\ waiting' \in BOOLEAN
           /\ deaths' \in Nat /\ strays' \in Nat /\ merged' \in Nat
           /\ pipe' \subseteq Procs
<1> DEFINE Goal == /\ alive' \subseteq Workers /\ zombies' \subseteq Workers \ alive'
                   /\ sigchld' \in BOOLEAN /\ waiting' \in BOOLEAN
                   /\ deaths' \in Nat /\ strays' \in Nat /\ merged' \in Nat
                   /\ pipe' \subseteq Procs
<1>1. ASSUME NEW w \in Workers, Stray(w) PROVE Goal
  BY <1>1 DEF Stray, TypeOK
<1>2. CASE Fork
  BY <1>2 DEF Fork, Collected, TypeOK, Procs
<1>3. CASE Collect
  BY <1>3 DEF Collect, TypeOK
<1>4. CASE Handler \/ Interrupted \/ NoChild
  BY <1>4 DEF Handler, Interrupted, NoChild, TypeOK
<1> QED
  BY <1>1, <1>2, <1>3, <1>4 DEF NannyStep

\* Losing jobs and closing the pipe keep the types.
LEMMA PipeTypes ==
    ASSUME TypeOK, NEW R, NEW W
    PROVE  PipeAfter(R, W) \in Seq(Jobs) /\ InFifo \subseteq Jobs
BY DEF TypeOK, PipeAfter, InFifo

\* Every step keeps the types.
LEMMA TypeInductive == TypeOK /\ [Next]_vars => TypeOK'
<1> SUFFICES ASSUME TypeOK, [Next]_vars PROVE TypeOK'
  OBVIOUS
<1> USE ProcsAssumption, BoundsAssumption
<1>1. ASSUME NEW p \in Procs, NEW j \in Jobs, Post(p, j) PROVE TypeOK'
  <2>1. top[p] \in Jobs \cup {None}
    BY <1>1 DEF TypeOK
  <2>2. (IF top[p] = None THEN p ELSE root[top[p]]) \in Clients \cup {None}
    BY <1>1, <2>1 DEF TypeOK, Post, MayPost
  <2>3. count' \in Int /\ present' \in BOOLEAN
    BY <1>1 DEF TypeOK, Post, CountUp
  <2>4. pipe' \subseteq Procs
    BY <1>1 DEF TypeOK, Post
  <2> QED
    BY <1>1, <2>1, <2>2, <2>3, <2>4 DEF TypeOK, Post, Places, Procs, nanny
<1>2. ASSUME NEW p \in Procs, Select(p) PROVE TypeOK'
  BY <1>2 DEF TypeOK, Select, At, Places, tdb, nanny
<1>3. ASSUME NEW p \in Procs, Send(p) PROVE TypeOK'
  <2>1. top[p] \in Jobs
    BY <1>3 DEF TypeOK, Send, At
  <2>2. fifo' \in Seq(Jobs)
    BY <1>3, <2>1 DEF TypeOK, Send
  <2> QED
    BY <1>3, <2>1, <2>2 DEF TypeOK, Send, Places, tdb, nanny
<1>4. ASSUME NEW p \in Procs, WriteFails(p) PROVE TypeOK'
  <2>1. fifo' \in Seq(Jobs)
    BY <1>4, PipeTypes DEF WriteFails
  <2>2. place' \in [Jobs -> Places]
    BY <1>4 DEF TypeOK, WriteFails, Places
  <2> QED
    BY <1>4, <2>1, <2>2 DEF TypeOK, WriteFails, tdb, nanny
<1>5. ASSUME NEW p \in Procs, Finish(p) PROVE TypeOK'
  <2>1. top[p] \in Jobs
    BY <1>5 DEF TypeOK, Finish, At
  <2> QED
    BY <1>5, <2>1 DEF TypeOK, Finish, CountDown, Leave, Places, nanny
<1>6. ASSUME NEW p \in Procs, SkipUnknown(p) PROVE TypeOK'
  <2>1. top[p] \in Jobs
    BY <1>6 DEF TypeOK, SkipUnknown, At
  <2> QED
    BY <1>6, <2>1 DEF TypeOK, SkipUnknown, Leave, Places, tdb, nanny
<1>7. ASSUME NEW w \in Workers, Take(w) PROVE TypeOK'
  <2>1. Head(fifo) \in Jobs /\ Tail(fifo) \in Seq(Jobs)
    BY <1>7 DEF TypeOK, Take
  <2> QED
    BY <1>7, <2>1 DEF TypeOK, Take, Places, Procs, tdb, nanny
<1>8. ASSUME NEW w \in Workers, Ends(w), deaths' \in Nat PROVE TypeOK'
  <2>1. fifo' \in Seq(Jobs)
    BY <1>8, PipeTypes DEF Ends
  <2>2. place' \in [Jobs -> Places]
    BY <1>8 DEF TypeOK, Ends, Places
  <2>3. alive' \subseteq Workers /\ zombies' \subseteq Workers \ alive' /\ merged' \in Nat
    BY <1>8 DEF TypeOK, Ends
  <2>4. top' \in [Procs -> Jobs \cup {None}]
    BY <1>8 DEF TypeOK, Ends
  <2> QED
    BY <1>8, <2>1, <2>2, <2>3, <2>4 DEF TypeOK, Ends, tdb
<1>9. ASSUME NEW w \in Workers, Die(w) PROVE TypeOK'
  <2>1. deaths' \in Nat
    BY <1>9 DEF TypeOK, Die
  <2> QED
    BY <1>8, <1>9, <2>1 DEF Die
<1>10. ASSUME NEW w \in Workers, Eof(w) PROVE TypeOK'
  <2>1. deaths' \in Nat
    BY <1>10 DEF TypeOK, Eof
  <2> QED
    BY <1>8, <1>10, <2>1 DEF Eof
<1>11. ASSUME NannyStep PROVE TypeOK'
  BY <1>11, NannyTypes, NannyKeepsJobs DEF TypeOK, tdb, job
<1>12. ASSUME NEW c \in Clients, StartWaiting(c) PROVE TypeOK'
  BY <1>12 DEF TypeOK, StartWaiting, tdb, job, nanny
<1>13. ASSUME NEW c \in Clients, Poll(c) PROVE TypeOK'
  BY <1>13 DEF TypeOK, Poll, tdb, job, nanny
<1>14. ASSUME NEW c \in Clients, Delete(c) PROVE TypeOK'
  <2>1. present' \in BOOLEAN
    BY <1>14, Zenon DEF Delete
  <2> QED
    BY <1>14, <2>1 DEF TypeOK, Delete, job, nanny
<1>15. ASSUME NEW c \in Clients, Exit(c) PROVE TypeOK'
  <2>1. fifo' \in Seq(Jobs)
    BY <1>15, PipeTypes DEF Exit
  <2>2. place' \in [Jobs -> Places]
    BY <1>15 DEF TypeOK, Exit, Places
  <2> QED
    BY <1>15, <2>1, <2>2 DEF TypeOK, Exit, tdb, nanny
<1>16. CASE UNCHANGED vars
  BY <1>16 DEF TypeOK, vars, tdb, job, nanny
<1> QED
  BY <1>1, <1>2, <1>3, <1>4, <1>5, <1>6, <1>7, <1>9, <1>10, <1>11, <1>12,
     <1>13, <1>14, <1>15, <1>16 DEF Next, NannyStep

(***************************************************************************)
(* The variables of the job framework keep their types, for any number of  *)
(* clients, workers and jobs; in particular no worker that runs is one the *)
(* nanny has yet to wait for.                                              *)
(***************************************************************************)
THEOREM TypeCorrect == Spec => []TypeOK
<1>1. Init => TypeOK
  BY TypeInit
<1>2. TypeOK /\ [Next]_vars => TypeOK'
  BY TypeInductive
<1> QED
  BY <1>1, <1>2, PTL DEF Spec

-----------------------------------------------------------------------------
(***************************************************************************)
(* The nanny's signals.                                                    *)
(***************************************************************************)

\* Dead workers are finitely many.
LEMMA ZombiesFinite ==
    ASSUME TypeOK
    PROVE  /\ IsFiniteSet(zombies) /\ Cardinality(zombies) \in Nat
           /\ Cardinality(zombies) = 0 <=> zombies = {}
<1>1. zombies \subseteq Workers
  BY DEF TypeOK
<1>2. IsFiniteSet(zombies)
  BY <1>1, FS_Subset, WorkersFinite
<1> QED
  BY <1>2, FS_CardinalityType, FS_EmptySet

\* At most two signals are under way.
LEMMA UnderWayRange ==
    /\ UnderWay \in 0 .. 2
    /\ sigchld /\ waiting => UnderWay = 2
    /\ waiting => UnderWay >= 1
BY DEF UnderWay

\* A death sends a signal or merges with the one that is pending.
LEMMA DeathAccounted ==
    ASSUME TypeOK, SignalsAccounted, NEW w \in Workers, Ends(w)
    PROVE  SignalsAccounted'
<1>1. w \notin zombies /\ zombies' = zombies \cup {w}
  BY DEF Ends, TypeOK
<1>2. Cardinality(zombies') = Cardinality(zombies) + 1
  BY <1>1, ZombiesFinite, FS_AddElement
<1>3. sigchld' = TRUE /\ waiting' = waiting /\ strays' = strays
      /\ merged' = IF sigchld THEN merged + 1 ELSE merged
  BY DEF Ends
<1>4. UnderWay' = IF sigchld THEN UnderWay ELSE UnderWay + 1
  BY <1>3 DEF UnderWay
<1>5. merged \in Nat /\ strays \in Nat
  BY DEF TypeOK
<1> QED
  BY <1>2, <1>3, <1>4, <1>5, ZombiesFinite, UnderWayRange DEF SignalsAccounted

\* A child that is collected settles the signal that was waited for.
LEMMA CollectAccounted ==
    ASSUME TypeOK, SignalsAccounted, Collect
    PROVE  SignalsAccounted'
<1>1. PICK w \in zombies : zombies' = zombies \ {w}
  BY DEF Collect
<1>2. Cardinality(zombies') = Cardinality(zombies) - 1
  BY <1>1, ZombiesFinite, FS_RemoveElement
<1>3. waiting /\ waiting' = FALSE /\ UNCHANGED <<sigchld, strays, merged>>
  BY DEF Collect
<1>4. UnderWay' = UnderWay - 1
  BY <1>3 DEF UnderWay
<1>5. merged \in Nat /\ strays \in Nat
  BY DEF TypeOK
<1> QED
  BY <1>2, <1>3, <1>4, <1>5, ZombiesFinite, UnderWayRange DEF SignalsAccounted

\* The other steps of the nanny, and signals that no death sends.
LEMMA NannyAccounted ==
    ASSUME TypeOK, SignalsAccounted, NannyStep
    PROVE  SignalsAccounted'
<1>0. merged \in Nat /\ strays \in Nat
  BY DEF TypeOK
<1>1. ASSUME NEW w \in Workers, Stray(w) PROVE SignalsAccounted'
  <2>1. sigchld' = TRUE /\ strays' = strays + 1 /\ UNCHANGED <<zombies, waiting, merged>>
    BY <1>1 DEF Stray
  <2>2. UnderWay' = IF sigchld THEN UnderWay ELSE UnderWay + 1
    BY <2>1 DEF UnderWay
  <2> QED
    BY <1>0, <2>1, <2>2, ZombiesFinite, UnderWayRange DEF SignalsAccounted
<1>2. CASE Handler
  <2>1. UnderWay' = UnderWay /\ UNCHANGED <<zombies, strays, merged>>
    BY <1>2 DEF Handler, UnderWay
  <2> QED
    BY <2>1 DEF SignalsAccounted
<1>3. CASE Interrupted \/ NoChild
  <2>1. zombies = {} /\ UNCHANGED <<zombies, strays, merged>>
    BY <1>3 DEF Interrupted, NoChild
  <2>2. UnderWay' = UnderWay - 1
    BY <1>3 DEF Interrupted, NoChild, UnderWay
  <2>3. UnderWay >= 1
    BY <1>3, UnderWayRange DEF Interrupted, NoChild
  <2> QED
    BY <1>0, <2>1, <2>2, <2>3, ZombiesFinite, UnderWayRange DEF SignalsAccounted
<1>4. CASE Fork
  <2>1. UNCHANGED <<zombies, sigchld, waiting, strays, merged>>
    BY <1>4 DEF Fork
  <2> QED
    BY <2>1 DEF SignalsAccounted, UnderWay
<1> QED
  BY <1>1, <1>2, <1>3, <1>4, CollectAccounted DEF NannyStep

(***************************************************************************)
(* For any number of workers, deaths and stray signals, in any order: a    *)
(* dead worker is left uncollected only by a signal that was merged, and   *)
(* the nanny's waitpid is without a dead worker only for a signal that a   *)
(* stopped or continued worker sent.                                       *)
(***************************************************************************)
THEOREM NannyKeepsBooks == Spec => []SignalsAccounted
<1>1. Init => TypeOK /\ SignalsAccounted
  <2> SUFFICES ASSUME Init PROVE TypeOK /\ SignalsAccounted
    OBVIOUS
  <2>1. TypeOK
    BY TypeInit
  <2>2. zombies = {} /\ strays = 0 /\ merged = 0 /\ sigchld = FALSE /\ waiting = FALSE
    BY Zenon DEF Init
  <2>3. UnderWay = 0 /\ Cardinality(zombies) = 0
    BY <2>1, <2>2, ZombiesFinite DEF UnderWay
  <2> QED
    BY <2>1, <2>2, <2>3 DEF SignalsAccounted
<1>2. TypeOK /\ SignalsAccounted /\ [Next]_vars => TypeOK' /\ SignalsAccounted'
  <2> SUFFICES ASSUME TypeOK, SignalsAccounted, [Next]_vars PROVE SignalsAccounted'
    BY TypeInductive
  <2>1. ASSUME UNCHANGED nanny PROVE SignalsAccounted'
    BY <2>1 DEF nanny, SignalsAccounted, UnderWay
  <2>2. ASSUME NEW p \in Procs, NEW j \in Jobs, Post(p, j) PROVE UNCHANGED nanny
    BY <2>2 DEF Post
  <2>3. ASSUME NEW p \in Procs,
               \/ Select(p) \/ Send(p) \/ WriteFails(p)
               \/ Finish(p) \/ SkipUnknown(p)
        PROVE  UNCHANGED nanny
    BY <2>3 DEF Select, Send, WriteFails, Finish, SkipUnknown, Leave
  <2>4. ASSUME NEW w \in Workers, Take(w) PROVE UNCHANGED nanny
    BY <2>4 DEF Take
  <2>5. ASSUME NEW c \in Clients, StartWaiting(c) \/ Poll(c) \/ Delete(c) \/ Exit(c)
        PROVE  UNCHANGED nanny
    BY <2>5 DEF StartWaiting, Poll, Delete, Exit
  <2>6. ASSUME NEW w \in Workers, Die(w) \/ Eof(w) PROVE SignalsAccounted'
    BY <2>6, DeathAccounted DEF Die, Eof
  <2>7. CASE UNCHANGED vars
    BY <2>1, <2>7 DEF vars
  <2> QED
    BY <2>1, <2>2, <2>3, <2>4, <2>5, <2>6, <2>7, NannyAccounted DEF Next, NannyStep
<1> QED
  BY <1>1, <1>2, PTL DEF Spec

-----------------------------------------------------------------------------
(***************************************************************************)
(* The counted jobs.                                                       *)
(***************************************************************************)

\* There are finitely many counted jobs, and none exactly when there are 0.
LEMMA CountedFinite ==
    /\ IsFiniteSet(Counted)
    /\ Cardinality(Counted) \in Nat
    /\ Cardinality(Counted) = 0 <=> Counted = {}
<1>1. IsFiniteSet(Counted)
  BY FS_Subset, JobsFinite DEF Counted
<1> QED
  BY <1>1, FS_CardinalityType, FS_EmptySet

\* A step that neither starts nor completes a job and leaves the record
\* alone keeps the count exact.
LEMMA CountKept ==
    ASSUME CountExact, Counted' = Counted, UNCHANGED tdb
    PROVE  CountExact'
BY DEF CountExact, tdb

\* post_job counts a job that was not counted before.
LEMMA CountPosted ==
    ASSUME CountExact, TypeOK, NEW j \in Jobs, j \notin Counted,
           Counted' = Counted \cup {j}, CountUp
    PROVE  CountExact'
<1>1. Cardinality(Counted') = Cardinality(Counted) + 1
  BY CountedFinite, FS_AddElement
<1>2. count \in Int
  BY DEF TypeOK
<1>3. CASE present
  BY <1>1, <1>2, <1>3, CountedFinite DEF CountExact, CountUp
<1>4. CASE ~present
  BY <1>1, <1>2, <1>4, CountedFinite DEF CountExact, CountUp
<1> QED
  BY <1>3, <1>4

\* run_task counts down a job that was counted.
LEMMA CountFinished ==
    ASSUME CountExact, TypeOK, NEW j \in Counted,
           Counted' = Counted \ {j}, CountDown
    PROVE  CountExact'
<1>1. Cardinality(Counted') = Cardinality(Counted) - 1
  BY CountedFinite, FS_RemoveElement
<1>2. count \in Int /\ Counted # {}
  BY DEF TypeOK
<1>3. present
  BY <1>2, CountedFinite DEF CountExact
<1> QED
  BY <1>1, <1>2, <1>3, CountedFinite DEF CountExact, CountDown

-----------------------------------------------------------------------------
(***************************************************************************)
(* One step under the inductive invariant, for one client.                 *)
(***************************************************************************)

\* The initial state satisfies the inductive invariant.
LEMMA IInvInit == Init => IInv
<1> SUFFICES ASSUME Init PROVE IInv
  OBVIOUS
<1>1. TypeOK
  BY TypeInit
<1>2. Counted = {}
  BY DEF Init, Counted
<1>3. CountExact
  BY <1>2, CountedFinite DEF Init, CountExact
<1>4. FifoQueued /\ NewHasNoRoot /\ QuietWhenReleased
  BY <1>2 DEF Init, FifoQueued, NewHasNoRoot, QuietWhenReleased
<1> QED
  BY <1>1, <1>3, <1>4 DEF IInv

\* With one client nothing is posted once the client has read a zero.
LEMMA NoPostWhenQuiet ==
    ASSUME IInv, OneClient, NEW p \in Procs, NEW j \in Jobs, Post(p, j),
           NEW c \in Clients
    PROVE  mode[c] \in {"posting", "waiting"}
<1>1. CASE top[p] = None
  <2>1. p \in Clients /\ mode[p] = "posting"
    BY <1>1 DEF Post, MayPost
  <2> QED
    BY <2>1 DEF OneClient
<1>2. CASE top[p] # None
  <2>1. top[p] \in Jobs /\ place[top[p]] = "running"
    BY <1>2 DEF IInv, TypeOK, Post, MayPost
  <2>2. top[p] \in Counted
    BY <2>1 DEF Counted
  <2>3. mode[c] \notin {"deleting", "done", "gone"}
    BY <2>2 DEF IInv, QuietWhenReleased
  <2> QED
    BY <2>3 DEF IInv, TypeOK
<1> QED
  BY <1>1, <1>2

\* Jobs that the pipe loses were queued.
LEMMA LostWereQueued ==
    ASSUME IInv, NEW R, NEW W, NEW j \in Lost(R, W)
    PROVE  j \in Jobs /\ place[j] = "queued" /\ R = {} /\ W = {}
<1>1. R = {} /\ W = {} /\ j \in InFifo
  BY DEF Lost
<1>2. PICK i \in 1 .. Len(fifo) : j = fifo[i]
  BY <1>1 DEF InFifo
<1> QED
  BY <1>1, <1>2 DEF IInv, TypeOK, FifoQueued

\* The pipe keeps or loses everything: what it still holds is queued.
LEMMA PipeStaysQueued ==
    ASSUME IInv, NEW R, NEW W, fifo' = PipeAfter(R, W), TypeOK',
           \A i \in 1 .. Len(fifo) : R # {} \/ W # {} => place'[fifo[i]] = place[fifo[i]]
    PROVE  FifoQueued'
<1>1. CASE R = {} /\ W = {}
  <2>1. fifo' = <<>>
    BY <1>1 DEF PipeAfter
  <2> QED
    BY <2>1 DEF FifoQueued
<1>2. CASE ~(R = {} /\ W = {})
  <2>1. fifo' = fifo
    BY <1>2 DEF PipeAfter
  <2> QED
    BY <1>2, <2>1 DEF FifoQueued, IInv
<1> QED
  BY <1>1, <1>2

\* A step after which no further job is counted keeps the client's view.
LEMMA QuietKept ==
    ASSUME QuietWhenReleased, Counted' \subseteq Counted, UNCHANGED mode
    PROVE  QuietWhenReleased'
BY DEF QuietWhenReleased

\* Jobs that are not new stay so, and the others keep having no client.
LEMMA NewKept ==
    ASSUME NewHasNoRoot, UNCHANGED root,
           \A j \in Jobs : place'[j] = "new" => place[j] = "new"
    PROVE  NewHasNoRoot'
BY DEF NewHasNoRoot

\* One job of a process changes hands and remains counted.
LEMMA JobMoves ==
    ASSUME TypeOK, NEW j \in Jobs, j \in Counted, NEW where \in Places,
           where \notin {"new", "finished"},
           place' = [place EXCEPT ![j] = where]
    PROVE  /\ Counted' = Counted
           /\ \A i \in Jobs : place'[i] = "new" => place[i] = "new"
BY DEF TypeOK, Counted, Places

\* Some counted jobs are lost, all others stay where they are.
LEMMA JobsLost ==
    ASSUME TypeOK, NEW L, L \subseteq Counted,
           \A j \in Jobs : place'[j] = IF j \in L THEN "lost" ELSE place[j]
    PROVE  /\ Counted' = Counted
           /\ \A i \in Jobs : place'[i] = "new" => place[i] = "new"
BY DEF Counted

\* Every step keeps the inductive invariant.
LEMMA IInvInductive ==
    ASSUME OneClient, IInv, [Next]_vars
    PROVE  IInv'
<1> USE ProcsAssumption
<1> DEFINE Seqs == CountExact' /\ FifoQueued' /\ NewHasNoRoot' /\ QuietWhenReleased'
<1>0. TypeOK /\ CountExact /\ FifoQueued /\ NewHasNoRoot /\ QuietWhenReleased
  BY DEF IInv
<1>t. TypeOK'
  BY <1>0, TypeInductive
<1>1. ASSUME NEW p \in Procs, NEW j \in Jobs, Post(p, j) PROVE Seqs
  <2>1. j \notin Counted /\ Counted' = Counted \cup {j}
    BY <1>0, <1>1 DEF Post, Counted, TypeOK
  <2>2. CountExact'
    BY <1>0, <1>1, <2>1, CountPosted DEF Post
  <2>3. FifoQueued'
    <3>1. \A i \in 1 .. Len(fifo) : place[fifo[i]] = "queued" /\ fifo[i] \in Jobs
      BY <1>0 DEF TypeOK, FifoQueued
    <3>2. \A i \in 1 .. Len(fifo) : place'[fifo[i]] = place[fifo[i]]
      BY <1>0, <1>1, <3>1 DEF Post, TypeOK
    <3> QED
      BY <1>0, <1>1, <3>1, <3>2 DEF Post, FifoQueued
  <2>4. NewHasNoRoot'
    BY <1>0, <1>1 DEF Post, NewHasNoRoot, TypeOK
  <2>5. QuietWhenReleased'
    BY <1>1, NoPostWhenQuiet DEF Post, QuietWhenReleased
  <2> QED
    BY <2>2, <2>3, <2>4, <2>5
<1>2. ASSUME NEW j \in Jobs, j \in Counted, place[j] # "queued",
             NEW where \in {"writing", "running", "lost"},
             place' = [place EXCEPT ![j] = where],
             UNCHANGED <<tdb, fifo, root, mode>>
      PROVE  Seqs
  <2>1. /\ Counted' = Counted
        /\ \A i \in Jobs : place'[i] = "new" => place[i] = "new"
    BY <1>0, <1>2, JobMoves DEF Places
  <2>2. CountExact'
    BY <1>0, <1>2, <2>1, CountKept
  <2>3. FifoQueued'
    <3>1. \A i \in 1 .. Len(fifo) : place[fifo[i]] = "queued" /\ fifo[i] \in Jobs
      BY <1>0 DEF TypeOK, FifoQueued
    <3>2. \A i \in 1 .. Len(fifo) : place'[fifo[i]] = place[fifo[i]]
      BY <1>0, <1>2, <3>1 DEF TypeOK
    <3> QED
      BY <1>0, <1>2, <3>1, <3>2 DEF FifoQueued
  <2>4. NewHasNoRoot'
    BY <1>0, <1>2, <2>1, NewKept
  <2>5. QuietWhenReleased'
    BY <1>0, <1>2, <2>1, QuietKept
  <2> QED
    BY <2>2, <2>3, <2>4, <2>5
<1>3. ASSUME NEW p \in Procs, Select(p) PROVE Seqs
  <2>1. top[p] \in Jobs /\ top[p] \in Counted /\ place[top[p]] # "queued"
    BY <1>0, <1>3 DEF Select, At, TypeOK, Counted
  <2> QED
    BY <1>2, <1>3, <2>1 DEF Select
<1>4. ASSUME NEW p \in Procs, SkipUnknown(p) PROVE Seqs
  <2>1. top[p] \in Jobs /\ top[p] \in Counted /\ place[top[p]] # "queued"
    BY <1>0, <1>4 DEF SkipUnknown, At, TypeOK, Counted
  <2> QED
    BY <1>2, <1>4, <2>1 DEF SkipUnknown, Leave
<1>5. ASSUME NEW p \in Procs, Send(p) PROVE Seqs
  <2>1. top[p] \in Jobs /\ top[p] \in Counted /\ place[top[p]] = "writing"
    BY <1>0, <1>5 DEF Send, At, TypeOK, Counted
  <2>2. /\ Counted' = Counted
        /\ \A i \in Jobs : place'[i] = "new" => place[i] = "new"
    BY <1>0, <1>5, <2>1, JobMoves DEF Send, Places
  <2>3. CountExact'
    BY <1>0, <1>5, <2>2, CountKept DEF Send
  <2>4. FifoQueued'
    <3>1. \A i \in 1 .. Len(fifo) : /\ place[fifo[i]] = "queued" /\ fifo[i] \in Jobs
                                    /\ fifo[i] # top[p]
      BY <1>0, <2>1 DEF TypeOK, FifoQueued
    <3>2. /\ fifo' = Append(fifo, top[p])
          /\ place' = [place EXCEPT ![top[p]] = "queued"]
      BY <1>5 DEF Send
    <3>3. fifo \in Seq(Jobs) /\ Len(fifo) \in Nat /\ Len(fifo') = Len(fifo) + 1
      BY <1>0, <2>1, <3>2 DEF TypeOK
    <3>4. \A i \in 1 .. Len(fifo') : fifo'[i] = IF i <= Len(fifo) THEN fifo[i] ELSE top[p]
      BY <2>1, <3>2, <3>3
    <3>5. \A i \in 1 .. Len(fifo') : place'[fifo'[i]] = "queued"
      BY <1>0, <2>1, <3>1, <3>2, <3>3, <3>4 DEF TypeOK
    <3>6. \A i, k \in 1 .. Len(fifo) : fifo[i] = fifo[k] => i = k
      BY <1>0 DEF FifoQueued
    <3>7. \A i, k \in 1 .. Len(fifo') : fifo'[i] = fifo'[k] => i = k
      BY <3>1, <3>3, <3>4, <3>6
    <3> QED
      BY <3>5, <3>7 DEF FifoQueued
  <2>5. NewHasNoRoot'
    BY <1>0, <1>5, <2>2, NewKept DEF Send
  <2>6. QuietWhenReleased'
    BY <1>0, <1>5, <2>2, QuietKept DEF Send
  <2> QED
    BY <2>3, <2>4, <2>5, <2>6
<1>6. ASSUME NEW p \in Procs, WriteFails(p) PROVE Seqs
  <2>1. top[p] \in Jobs /\ place[top[p]] = "writing"
    BY <1>0, <1>6 DEF WriteFails, At, TypeOK
  <2>2. \A j \in Lost(alive, pipe') : j \in Jobs /\ place[j] = "queued"
    BY LostWereQueued
  <2>3. \A j \in Jobs : place'[j] = IF j = top[p] THEN "running"
                                    ELSE IF j \in Lost(alive, pipe') THEN "lost"
                                    ELSE place[j]
    BY <1>6 DEF WriteFails
  <2>4. /\ Counted' = Counted
        /\ \A i \in Jobs : place'[i] = "new" => place[i] = "new"
    BY <2>1, <2>2, <2>3 DEF Counted
  <2>5. CountExact'
    BY <1>0, <1>6, <2>4, CountKept DEF WriteFails
  <2>6. FifoQueued'
    <3>1. \A i \in 1 .. Len(fifo) : place[fifo[i]] = "queued" /\ fifo[i] \in Jobs
      BY <1>0 DEF TypeOK, FifoQueued
    <3>2. alive # {} \/ pipe' # {} => Lost(alive, pipe') = {}
      BY DEF Lost
    <3>3. \A i \in 1 .. Len(fifo) : alive # {} \/ pipe' # {} => place'[fifo[i]] = place[fifo[i]]
      BY <2>1, <2>3, <3>1, <3>2
    <3> QED
      BY <1>6, <1>t, <3>3, PipeStaysQueued DEF WriteFails
  <2>7. NewHasNoRoot'
    BY <1>0, <1>6, <2>4, NewKept DEF WriteFails
  <2>8. QuietWhenReleased'
    BY <1>0, <1>6, <2>4, QuietKept DEF WriteFails
  <2> QED
    BY <2>5, <2>6, <2>7, <2>8
<1>7. ASSUME NEW p \in Procs, Finish(p) PROVE Seqs
  <2>1. top[p] \in Jobs /\ top[p] \in Counted /\ place[top[p]] = "running"
    BY <1>0, <1>7 DEF Finish, At, TypeOK, Counted
  <2>2. place' = [place EXCEPT ![top[p]] = "finished"]
    BY <1>7 DEF Finish, Leave
  <2>3. Counted' = Counted \ {top[p]}
    BY <1>0, <2>1, <2>2 DEF Counted, TypeOK
  <2>4. CountExact'
    BY <1>0, <1>7, <2>1, <2>3, CountFinished DEF Finish
  <2>5. FifoQueued'
    <3>1. \A i \in 1 .. Len(fifo) : place[fifo[i]] = "queued" /\ fifo[i] \in Jobs
      BY <1>0 DEF TypeOK, FifoQueued
    <3>2. \A i \in 1 .. Len(fifo) : place'[fifo[i]] = place[fifo[i]]
      BY <1>0, <2>1, <2>2, <3>1 DEF TypeOK
    <3> QED
      BY <1>0, <1>7, <3>1, <3>2 DEF FifoQueued, Finish, Leave
  <2>6. NewHasNoRoot'
    <3>1. \A i \in Jobs : place'[i] = "new" => place[i] = "new"
      BY <1>0, <2>1, <2>2 DEF TypeOK
    <3> QED
      BY <1>0, <1>7, <3>1, NewKept DEF Finish, Leave
  <2>7. QuietWhenReleased'
    BY <1>0, <1>7, <2>3, QuietKept DEF Finish, Leave
  <2> QED
    BY <2>4, <2>5, <2>6, <2>7
<1>8. ASSUME NEW w \in Workers, Take(w) PROVE Seqs
  <2>1. /\ fifo \in Seq(Jobs) /\ Len(fifo) \in Nat \ {0}
        /\ fifo' = Tail(fifo) /\ Head(fifo) = fifo[1] /\ fifo[1] \in Jobs
    BY <1>0, <1>8 DEF TypeOK, Take
  <2>2. place[fifo[1]] = "queued" /\ fifo[1] \in Counted
    BY <1>0, <2>1 DEF FifoQueued, Counted
  <2>3. place' = [place EXCEPT ![fifo[1]] = "running"]
    BY <1>8, <2>1 DEF Take
  <2>4. /\ Counted' = Counted
        /\ \A i \in Jobs : place'[i] = "new" => place[i] = "new"
    BY <1>0, <2>1, <2>2, <2>3, JobMoves DEF Places
  <2>5. CountExact'
    BY <1>0, <1>8, <2>4, CountKept DEF Take
  <2>6. FifoQueued'
    <3>1. \A i \in 1 .. Len(fifo) : place[fifo[i]] = "queued" /\ fifo[i] \in Jobs
      BY <1>0 DEF TypeOK, FifoQueued
    <3>2. \A i, k \in 1 .. Len(fifo) : fifo[i] = fifo[k] => i = k
      BY <1>0 DEF FifoQueued
    <3>3. /\ Len(fifo') = Len(fifo) - 1
          /\ \A i \in 1 .. Len(fifo') : fifo'[i] = fifo[i + 1]
      BY <2>1
    <3>4. \A i \in 1 .. Len(fifo') : fifo'[i] # fifo[1]
      BY <2>1, <3>2, <3>3
    <3>5. \A i \in 1 .. Len(fifo') : place[fifo'[i]] = "queued" /\ fifo'[i] \in Jobs
      BY <2>1, <3>1, <3>3
    <3>6. \A i \in 1 .. Len(fifo') : place'[fifo'[i]] = "queued"
      BY <1>0, <2>1, <2>3, <3>4, <3>5 DEF TypeOK
    <3>7. \A i, k \in 1 .. Len(fifo') : fifo'[i] = fifo'[k] => i = k
      BY <2>1, <3>2, <3>3
    <3> QED
      BY <3>6, <3>7 DEF FifoQueued
  <2>7. NewHasNoRoot'
    BY <1>0, <1>8, <2>4, NewKept DEF Take
  <2>8. QuietWhenReleased'
    BY <1>0, <1>8, <2>4, QuietKept DEF Take
  <2> QED
    BY <2>5, <2>6, <2>7, <2>8
<1>9. ASSUME NEW w \in Workers, Ends(w) PROVE Seqs
  <2> DEFINE lost == Active(w) \cup Lost(alive', pipe')
  <2>1. \A j \in Lost(alive', pipe') : j \in Jobs /\ place[j] = "queued"
    BY LostWereQueued
  <2>2. lost \subseteq Counted
    BY <2>1 DEF Active, InHand, Counted
  <2>3. \A j \in Jobs : place'[j] = IF j \in lost THEN "lost" ELSE place[j]
    BY <1>9 DEF Ends
  <2>4. /\ Counted' = Counted
        /\ \A i \in Jobs : place'[i] = "new" => place[i] = "new"
    BY <1>0, <2>2, <2>3, JobsLost
  <2>5. CountExact'
    BY <1>0, <1>9, <2>4, CountKept DEF Ends
  <2>6. FifoQueued'
    <3>1. \A i \in 1 .. Len(fifo) : place[fifo[i]] = "queued" /\ fifo[i] \in Jobs
      BY <1>0 DEF TypeOK, FifoQueued
    <3>2. alive' # {} \/ pipe' # {} => Lost(alive', pipe') = {}
      BY DEF Lost
    <3>3. \A i \in 1 .. Len(fifo) : fifo[i] \notin Active(w)
      BY <3>1 DEF Active, InHand
    <3>4. \A i \in 1 .. Len(fifo) : alive' # {} \/ pipe' # {} => place'[fifo[i]] = place[fifo[i]]
      BY <2>3, <3>1, <3>2, <3>3
    <3> QED
      BY <1>9, <1>t, <3>4, PipeStaysQueued DEF Ends
  <2>7. NewHasNoRoot'
    BY <1>0, <1>9, <2>4, NewKept DEF Ends
  <2>8. QuietWhenReleased'
    BY <1>0, <1>9, <2>4, QuietKept DEF Ends
  <2> QED
    BY <2>5, <2>6, <2>7, <2>8
<1>10. ASSUME UNCHANGED <<tdb, fifo, place, root, mode>> PROVE Seqs
  <2>1. Counted' = Counted
    BY <1>10 DEF Counted
  <2> QED
    BY <1>0, <1>10, <2>1, CountKept, QuietKept, NewKept DEF FifoQueued
<1>11. ASSUME NEW c \in Clients, StartWaiting(c) PROVE Seqs
  <2>1. Counted' = Counted
    BY <1>11 DEF Counted, StartWaiting, job
  <2>2. QuietWhenReleased'
    BY <1>0, <1>11, <2>1 DEF QuietWhenReleased, StartWaiting, TypeOK
  <2> QED
    BY <1>0, <1>11, <2>1, <2>2, CountKept, NewKept DEF FifoQueued, StartWaiting, job
<1>12. ASSUME NEW c \in Clients, Poll(c) PROVE Seqs
  <2>1. Counted' = Counted
    BY <1>12 DEF Counted, Poll, job
  <2>2. mode'[c] # "waiting" => Counted = {}
    <3>1. mode'[c] = IF ~present \/ count < 0 THEN "done"
                     ELSE IF count = 0 THEN "deleting" ELSE "waiting"
      BY <1>0, <1>12 DEF Poll, TypeOK
    <3> QED
      BY <1>0, <3>1, CountedFinite DEF CountExact, TypeOK
  <2>3. QuietWhenReleased'
    BY <1>0, <1>12, <2>1, <2>2 DEF QuietWhenReleased, Poll, TypeOK
  <2> QED
    BY <1>0, <1>12, <2>1, <2>3, CountKept, NewKept DEF FifoQueued, Poll, job
<1>13. ASSUME NEW c \in Clients, Delete(c) PROVE Seqs
  <2>1. Counted = {} /\ Counted' = {}
    BY <1>0, <1>13 DEF Counted, Delete, job, QuietWhenReleased
  <2>2. CountExact'
    <3>1. Cardinality(Counted') = 0
      BY <2>1, FS_EmptySet
    <3> QED
      BY <1>13, <3>1 DEF CountExact, Delete
  <2>3. QuietWhenReleased'
    BY <2>1 DEF QuietWhenReleased
  <2> QED
    BY <1>0, <1>13, <2>2, <2>3, NewKept DEF FifoQueued, Delete, job
<1>14. ASSUME NEW c \in Clients, Exit(c) PROVE Seqs
  <2>1. Counted = {}
    BY <1>0, <1>14 DEF Exit, QuietWhenReleased
  <2>2. Lost(alive, pipe') = {}
    BY <2>1, LostWereQueued DEF Counted
  <2>3. \A j \in Jobs : place'[j] = place[j]
    BY <1>14, <2>2 DEF Exit
  <2>4. Counted' = {}
    BY <2>1, <2>3 DEF Counted
  <2>5. CountExact'
    BY <1>0, <1>14, <2>1, <2>4, CountKept DEF Exit
  <2>6. FifoQueued'
    <3>1. \A i \in 1 .. Len(fifo) : fifo[i] \in Jobs
      BY <1>0 DEF TypeOK
    <3> QED
      BY <1>14, <1>t, <2>3, <3>1, PipeStaysQueued DEF Exit
  <2>7. NewHasNoRoot'
    BY <1>0, <1>14, <2>3, NewKept DEF Exit
  <2>8. QuietWhenReleased'
    BY <2>4 DEF QuietWhenReleased
  <2> QED
    BY <2>5, <2>6, <2>7, <2>8
<1>15. ASSUME NannyStep PROVE Seqs
  <2>1. UNCHANGED <<tdb, fifo, place, root, mode>>
    BY <1>15, NannyKeepsJobs DEF job
  <2> QED
    BY <1>10, <2>1
<1>16. ASSUME UNCHANGED vars PROVE Seqs
  <2>1. UNCHANGED <<tdb, fifo, place, root, mode>>
    BY <1>16 DEF vars, job
  <2> QED
    BY <1>10, <2>1
<1>17. Seqs
  <2> HIDE DEF Seqs
  <2> QED
    BY <1>1, <1>3, <1>4, <1>5, <1>6, <1>7, <1>8, <1>9, <1>11, <1>12, <1>13,
       <1>14, <1>15, <1>16, Zenon DEF Next, NannyStep, Die, Eof
<1> QED
  BY <1>t, <1>17 DEF IInv

-----------------------------------------------------------------------------
(***************************************************************************)
(* What one client can rely on.                                            *)
(***************************************************************************)

\* The inductive invariant holds throughout.
LEMMA Invariance == ASSUME OneClient PROVE Spec => []IInv
<1>1. Init => IInv
  BY IInvInit
<1>2. IInv /\ [Next]_vars => IInv'
  BY IInvInductive
<1> QED
  BY <1>1, <1>2, PTL DEF Spec

(***************************************************************************)
(* The record in jobs.tdb is the number of jobs outstanding at every       *)
(* moment, for any number of workers, jobs and deaths, as long as one      *)
(* client uses the cookie.                                                 *)
(***************************************************************************)
THEOREM CountIsExact == ASSUME OneClient PROVE Spec => []CountExact
<1>1. IInv => CountExact
  BY DEF IInv
<1> QED
  BY <1>1, Invariance, PTL

(***************************************************************************)
(* wait_for_scan is a barrier: it returns only when every job of the scan, *)
(* nested ones included, has completed.                                    *)
(***************************************************************************)
THEOREM ScanWaits == ASSUME OneClient PROVE Spec => []BarrierHolds
<1>1. IInv => BarrierHolds
  <2> SUFFICES ASSUME IInv, NEW c \in Clients, Released(c),
                      NEW j \in Jobs, root[j] = c
               PROVE  place[j] = "finished"
    BY DEF BarrierHolds
  <2>1. Counted = {}
    BY DEF IInv, QuietWhenReleased, Released
  <2>2. place[j] # "new"
    BY ProcsAssumption DEF IInv, NewHasNoRoot
  <2> QED
    BY <2>1, <2>2 DEF Counted
<1> QED
  BY <1>1, Invariance, PTL

-----------------------------------------------------------------------------
(* The refinement.                                                          *)

\* The barrier's variables, as Farm's INSTANCE maps them.
Posted == {j \in Jobs : place[j] # "new"}
Completed == {j \in Jobs : place[j] = "finished"}
SomeReleased == \E c \in Clients : Released(c)

\* A step that starts, completes and releases nothing is a stutter.
LEMMA BarrierStutters ==
    ASSUME UNCHANGED <<Posted, Completed, SomeReleased>>
    PROVE  UNCHANGED Barrier!vars
BY DEF Barrier!vars, Posted, Completed, SomeReleased

\* Every step of the farm is a step of the barrier or leaves it unchanged.
LEMMA BarrierStep ==
    ASSUME OneClient, IInv, IInv', [Next]_vars
    PROVE  [Barrier!Next]_(Barrier!vars)
<1> DEFINE Goal == [Barrier!Next]_(Barrier!vars)
<1>0. TypeOK
  BY DEF IInv
<1>1. ASSUME UNCHANGED <<Posted, Completed, SomeReleased>> PROVE Goal
  BY <1>1, BarrierStutters
<1>2. ASSUME UNCHANGED mode PROVE UNCHANGED SomeReleased
  BY <1>2 DEF SomeReleased, Released
<1>3. ASSUME NEW p \in Procs, NEW j \in Jobs, Post(p, j) PROVE Goal
  <2>1. ~SomeReleased
    BY <1>3, NoPostWhenQuiet DEF SomeReleased, Released
  <2>2. UNCHANGED SomeReleased
    BY <1>2, <1>3 DEF Post
  <2>3. j \in Jobs \ Posted /\ Posted' = Posted \cup {j} /\ UNCHANGED Completed
    BY <1>0, <1>3 DEF Post, Posted, Completed, TypeOK
  <2>4. Barrier!Submit(j)
    BY <2>1, <2>2, <2>3 DEF Barrier!Submit, Posted, Completed, SomeReleased
  <2> QED
    BY <2>4 DEF Barrier!Next
<1>4. ASSUME NEW p \in Procs, Finish(p) PROVE Goal
  <2>1. top[p] \in Jobs /\ place[top[p]] = "running"
    BY <1>0, <1>4 DEF Finish, At, TypeOK
  <2>2. UNCHANGED SomeReleased
    BY <1>2, <1>4 DEF Finish, Leave
  <2>3. /\ top[p] \in Posted \ Completed
        /\ Completed' = Completed \cup {top[p]} /\ UNCHANGED Posted
    BY <1>0, <1>4, <2>1 DEF Finish, Leave, Posted, Completed, TypeOK
  <2>4. PICK j \in Jobs : j = top[p]
    BY <2>1
  <2>5. Barrier!Complete(j)
    BY <2>2, <2>3, <2>4 DEF Barrier!Complete, Posted, Completed, SomeReleased
  <2> QED
    BY <2>5 DEF Barrier!Next
<1>5. ASSUME UNCHANGED <<place, mode>> PROVE Goal
  <2>1. UNCHANGED <<Posted, Completed>>
    BY <1>5 DEF Posted, Completed
  <2> QED
    BY <1>1, <1>2, <1>5, <2>1
<1>6. ASSUME NEW p \in Procs, Select(p) \/ Send(p) \/ SkipUnknown(p) PROVE Goal
  <2>1. top[p] \in Jobs /\ place[top[p]] \in {"posting", "writing", "running"}
    BY <1>0, <1>6 DEF Select, Send, SkipUnknown, At, TypeOK
  <2>2. PICK where \in {"writing", "running", "queued", "lost"} :
           place' = [place EXCEPT ![top[p]] = where]
    BY <1>6 DEF Select, Send, SkipUnknown, Leave
  <2>3. UNCHANGED <<Posted, Completed>>
    BY <1>0, <2>1, <2>2 DEF Posted, Completed, TypeOK
  <2>4. UNCHANGED mode
    BY <1>6 DEF Select, Send, SkipUnknown, Leave
  <2> QED
    BY <1>1, <1>2, <2>3, <2>4
<1>7. ASSUME NEW p \in Procs, WriteFails(p) PROVE Goal
  <2>1. top[p] \in Jobs /\ place[top[p]] = "writing"
    BY <1>0, <1>7 DEF WriteFails, At, TypeOK
  <2>2. \A j \in Lost(alive, pipe') : place[j] = "queued"
    BY LostWereQueued
  <2>3. UNCHANGED <<Posted, Completed>>
    BY <1>7, <2>1, <2>2 DEF WriteFails, Posted, Completed
  <2> QED
    BY <1>1, <1>2, <1>7, <2>3 DEF WriteFails
<1>8. ASSUME NEW w \in Workers, Take(w) PROVE Goal
  <2>1. Head(fifo) \in Jobs /\ place[Head(fifo)] = "queued"
    BY <1>8 DEF Take, IInv, TypeOK, FifoQueued
  <2>2. UNCHANGED <<Posted, Completed>>
    BY <1>0, <1>8, <2>1 DEF Take, Posted, Completed, TypeOK
  <2> QED
    BY <1>1, <1>2, <1>8, <2>2 DEF Take
<1>9. ASSUME NEW w \in Workers, Ends(w) PROVE Goal
  <2>1. \A j \in Lost(alive', pipe') : place[j] = "queued"
    BY LostWereQueued
  <2>2. \A j \in Jobs :
           place'[j] = IF j \in Active(w) \cup Lost(alive', pipe') THEN "lost" ELSE place[j]
    BY <1>9 DEF Ends
  <2>3. \A j \in Active(w) : place[j] \in {"posting", "writing", "running"}
    BY DEF Active, InHand
  <2>4. UNCHANGED <<Posted, Completed>>
    BY <2>1, <2>2, <2>3 DEF Posted, Completed
  <2> QED
    BY <1>1, <1>2, <1>9, <2>4 DEF Ends
<1>10. ASSUME NEW c \in Clients, UNCHANGED place,
              StartWaiting(c) \/ Poll(c) \/ Delete(c)
       PROVE  Goal
  <2>1. UNCHANGED <<Posted, Completed>>
    BY <1>10 DEF Posted, Completed
  <2>2. ~SomeReleased
    BY <1>10 DEF StartWaiting, Poll, Delete, SomeReleased, Released, OneClient
  <2>3. CASE ~SomeReleased'
    <3>1. UNCHANGED SomeReleased
      BY <2>2, <2>3 DEF SomeReleased
    <3> QED
      BY <1>1, <2>1, <3>1
  <2>4. CASE SomeReleased'
    <3>1. Counted' = {}
      BY <2>4 DEF SomeReleased, Released, IInv, QuietWhenReleased
    <3>2. Posted = Completed
      BY <1>10, <3>1 DEF Counted, Posted, Completed
    <3>3. Barrier!Release
      BY <2>1, <2>2, <2>4, <3>2 DEF Barrier!Release, Posted, Completed, SomeReleased
    <3> QED
      BY <3>3 DEF Barrier!Next
  <2> QED
    BY <2>3, <2>4
<1>11. ASSUME NEW c \in Clients, Exit(c) PROVE Goal
  <2>1. Counted = {}
    BY <1>11 DEF Exit, IInv, QuietWhenReleased
  <2>2. Lost(alive, pipe') = {}
    BY <2>1, LostWereQueued DEF Counted
  <2>3. UNCHANGED <<Posted, Completed>>
    BY <1>11, <2>2 DEF Exit, Posted, Completed
  <2>4. SomeReleased /\ SomeReleased'
    BY <1>0, <1>11 DEF Exit, SomeReleased, Released, TypeOK
  <2> QED
    BY <1>1, <2>3, <2>4
<1>12. ASSUME NEW c \in Clients, StartWaiting(c) \/ Poll(c) \/ Delete(c)
       PROVE  UNCHANGED place
  BY <1>12 DEF StartWaiting, Poll, Delete, job
<1>13. ASSUME NannyStep PROVE UNCHANGED <<place, mode>>
  BY <1>13, NannyKeepsJobs DEF job
<1>14. ASSUME UNCHANGED vars PROVE UNCHANGED <<place, mode>>
  BY <1>14 DEF vars, job
<1>15. Goal
  <2> HIDE DEF Goal
  <2>1. CASE NannyStep \/ UNCHANGED vars
    BY <1>5, <1>13, <1>14, <2>1
  <2>2. ASSUME NEW c \in Clients,
               StartWaiting(c) \/ Poll(c) \/ Delete(c) \/ Exit(c)
        PROVE  Goal
    BY <1>10, <1>11, <1>12, <2>2
  <2>3. ASSUME NEW w \in Workers, Take(w) \/ Die(w) \/ Eof(w) PROVE Goal
    BY <1>8, <1>9, <2>3 DEF Die, Eof
  <2> QED
    BY <1>3, <1>4, <1>6, <1>7, <2>1, <2>2, <2>3, Zenon DEF Next, NannyStep
<1> QED
  BY <1>15

(***************************************************************************)
(* For one client the farm implements the barrier's safety specification,  *)
(* with jobs queued, run by whoever posted them, or lost in any order.     *)
(***************************************************************************)
THEOREM FarmImplementsBarrier ==
    ASSUME OneClient PROVE Spec => ImplementsBarrierSafety
<1>1. Init => Barrier!Init
  BY DEF Init, Barrier!Init, Released
<1>2. IInv /\ IInv' /\ [Next]_vars => [Barrier!Next]_(Barrier!vars)
  BY BarrierStep
<1> QED
  BY <1>1, <1>2, Invariance, PTL DEF Spec, ImplementsBarrierSafety, Barrier!SafeSpec
-----------------------------------------------------------------------------
(***************************************************************************)
(* Where the jobs are.  JobsPlaced is not inductive by itself: it allows a *)
(* job to be called by the innermost job of its process, which then may    *)
(* leave it behind.  TopIsLast excludes that.                              *)
(***************************************************************************)
Held(j) == place[j] \in InHand

\* The pipe holds exactly the queued jobs, each once.
FifoExact ==
    /\ InFifo = {j \in Jobs : place[j] = "queued"}
    /\ \A i, k \in 1 .. Len(fifo) : fifo[i] = fifo[k] => i = k

\* Nothing was called by the innermost job of a process.
TopIsLast == \A j \in Jobs : Held(j) /\ caller[j] # None => caller[j] # top[owner[j]]

\* Jobs in hand make a chain for each process.
Chained ==
    /\ \A p \in Procs : top[p] # None => Held(top[p]) /\ owner[top[p]] = p
    /\ \A j \in Jobs : Held(j) =>
          /\ owner[j] \in Clients \cup alive
          /\ caller[j] # None => owner[caller[j]] = owner[j] /\ place[caller[j]] = "running"
          /\ j # top[owner[j]] => \E k \in Jobs : Held(k) /\ owner[k] = owner[j] /\ caller[k] = j
    /\ \A j, k \in Jobs : Held(j) /\ Held(k) /\ caller[j] = caller[k] /\ caller[j] # None => j = k

Hands == Chained /\ TopIsLast

\* The parts say what JobsPlaced says.
LEMMA PlacedParts == ASSUME TypeOK PROVE FifoExact /\ Hands => JobsPlaced
<1> SUFFICES ASSUME FifoExact, Hands PROVE JobsPlaced
  OBVIOUS
<1>1. \A p \in Procs : top[p] # None => top[p] \in Active(p)
  BY DEF TypeOK, Hands, Chained, Held, Active
<1>2. \A j \in Jobs : place[j] \in InHand =>
          /\ owner[j] \in Clients \cup alive
          /\ caller[j] # None => /\ caller[j] \in Active(owner[j])
                                 /\ place[caller[j]] = "running"
          /\ j # top[owner[j]] => \E k \in Active(owner[j]) : caller[k] = j
  BY DEF TypeOK, Hands, Chained, Held, Active, InHand
<1>3. \A j, k \in Counted : /\ place[j] \in InHand /\ place[k] \in InHand
                            /\ caller[j] = caller[k] /\ caller[j] # None
                            => j = k
  BY DEF Hands, Chained, Held, Counted
<1> QED
  BY <1>1, <1>2, <1>3 DEF JobsPlaced, FifoExact

\* Steps after which the same jobs are in hand, and those that ran still run.
LEMMA HandsKept ==
    ASSUME TypeOK, Hands, UNCHANGED <<owner, caller, top>>, alive \subseteq alive',
           \A j \in Jobs : /\ (place'[j] \in InHand <=> place[j] \in InHand)
                           /\ (place[j] = "running" => place'[j] = "running")
    PROVE  Hands'
<1>1. \A j \in Jobs : Held(j)' <=> Held(j)
  BY DEF Held
<1>2. \A p \in Procs : top[p] # None => top[p] \in Jobs
  BY DEF TypeOK
<1>3. \A j \in Jobs : caller[j] # None => caller[j] \in Jobs
  BY DEF TypeOK
<1>4. TopIsLast'
  BY <1>1 DEF Hands, TopIsLast
<1>5. \A p \in Procs : top'[p] # None => place'[top'[p]] \in InHand /\ owner'[top'[p]] = p
  BY <1>1, <1>2 DEF Hands, Chained, Held
<1>6. ASSUME NEW j \in Jobs, Held(j)'
      PROVE  /\ owner'[j] \in Clients \cup alive'
             /\ caller'[j] # None => owner'[caller'[j]] = owner'[j] /\ place'[caller'[j]] = "running"
             /\ j # top'[owner'[j]] => \E k \in Jobs : Held(k)' /\ owner'[k] = owner'[j] /\ caller'[k] = j
  <2>1. Held(j)
    BY <1>1, <1>6
  <2>2. owner[j] \in Clients \cup alive
    BY <2>1 DEF Hands, Chained
  <2>3. caller[j] # None => owner[caller[j]] = owner[j] /\ place'[caller[j]] = "running"
    BY <1>3, <2>1 DEF Hands, Chained
  <2>4. j # top[owner[j]] => \E k \in Jobs : Held(k) /\ owner[k] = owner[j] /\ caller[k] = j
    BY <2>1 DEF Hands, Chained
  <2> QED
    BY <1>1, <2>2, <2>3, <2>4
<1>7. \A j, k \in Jobs :
        Held(j)' /\ Held(k)' /\ caller'[j] = caller'[k] /\ caller'[j] # None => j = k
  BY <1>1 DEF Hands, Chained
<1> QED
  BY <1>4, <1>5, <1>6, <1>7 DEF Hands, Chained, Held

\* post_job: the new job is the innermost one.
LEMMA HandsPost ==
    ASSUME TypeOK, Hands, NEW p \in Procs, NEW j \in Jobs, Post(p, j)
    PROVE  Hands'
<1>0. /\ place[j] = "new" /\ place' = [place EXCEPT ![j] = "posting"]
      /\ owner' = [owner EXCEPT ![j] = p] /\ caller' = [caller EXCEPT ![j] = top[p]]
      /\ top' = [top EXCEPT ![p] = j] /\ alive' = alive
      /\ MayPost(p)
  BY DEF Post, nanny
<1>1. /\ place'[j] = "posting" /\ owner'[j] = p /\ caller'[j] = top[p] /\ top'[p] = j
      /\ \A k \in Jobs : k # j => place'[k] = place[k] /\ owner'[k] = owner[k] /\ caller'[k] = caller[k]
      /\ \A q \in Procs : q # p => top'[q] = top[q]
  BY <1>0 DEF TypeOK
<1>2. Held(j)' /\ ~Held(j) /\ \A k \in Jobs : k # j => (Held(k)' <=> Held(k))
  BY <1>0, <1>1 DEF Held, InHand
<1>3. /\ \A q \in Procs : top[q] # None => top[q] \in Jobs
      /\ \A k \in Jobs : caller[k] # None => caller[k] \in Jobs
      /\ None \notin Jobs
  BY ProcsAssumption DEF TypeOK
<1>4. /\ top[p] # None => Held(top[p]) /\ owner[top[p]] = p /\ place[top[p]] = "running" /\ top[p] # j
      /\ p \in Clients \cup alive
  <2>1. CASE top[p] = None
    BY <1>0, <2>1 DEF MayPost
  <2>2. CASE top[p] # None
    BY <1>0, <1>2, <1>3, <2>2 DEF MayPost, Hands, Chained
  <2> QED
    BY <2>1, <2>2
<1>5. \A k \in Jobs : Held(k) /\ caller[k] # None => caller[k] # j
  BY <1>0 DEF Hands, Chained
<1>6. \A k \in Jobs : Held(k) => owner[k] \in Procs
  BY DEF Hands, Chained, TypeOK, Procs
<1>7. ASSUME NEW k \in Jobs, Held(k)', k # j
      PROVE  /\ owner'[k] \in Clients \cup alive'
             /\ caller'[k] # None => owner'[caller'[k]] = owner'[k] /\ place'[caller'[k]] = "running"
             /\ k # top'[owner'[k]] => \E i \in Jobs : Held(i)' /\ owner'[i] = owner'[k] /\ caller'[i] = k
             /\ caller'[k] # None => caller'[k] # top'[owner'[k]]
  <2>1. Held(k) /\ owner'[k] = owner[k] /\ caller'[k] = caller[k]
    BY <1>1, <1>2, <1>7
  <2>2. owner'[k] \in Clients \cup alive'
    BY <1>0, <2>1 DEF Hands, Chained
  <2>3. caller[k] # None => owner'[caller[k]] = owner[k] /\ place'[caller[k]] = "running"
    BY <1>1, <1>3, <1>5, <2>1 DEF Hands, Chained
  <2>4. caller[k] # None => caller[k] # top'[owner[k]]
    BY <1>1, <1>5, <1>6, <2>1 DEF Hands, TopIsLast
  <2>5. ASSUME k # top'[owner[k]]
        PROVE  \E i \in Jobs : Held(i)' /\ owner'[i] = owner[k] /\ caller'[i] = k
    <3>1. CASE k # top[owner[k]]
      <4>1. PICK i \in Jobs : Held(i) /\ owner[i] = owner[k] /\ caller[i] = k
        BY <2>1, <3>1 DEF Hands, Chained
      <4> QED
        BY <1>1, <1>2, <4>1
    <3>2. CASE k = top[owner[k]]
      <4>1. owner[k] = p
        BY <1>1, <1>6, <2>1, <2>5, <3>2
      <4> QED
        BY <1>1, <1>2, <3>2, <4>1
    <3> QED
      BY <3>1, <3>2
  <2> QED
    BY <2>1, <2>2, <2>3, <2>4, <2>5
<1>8. /\ owner'[j] \in Clients \cup alive'
      /\ caller'[j] # None => owner'[caller'[j]] = owner'[j] /\ place'[caller'[j]] = "running"
      /\ j = top'[owner'[j]]
      /\ caller'[j] # None => caller'[j] # top'[owner'[j]]
  BY <1>0, <1>1, <1>3, <1>4
<1>9. \A q \in Procs : top'[q] # None => place'[top'[q]] \in InHand /\ owner'[top'[q]] = q
  <2> SUFFICES ASSUME NEW q \in Procs, top'[q] # None PROVE place'[top'[q]] \in InHand /\ owner'[top'[q]] = q
    OBVIOUS
  <2>1. CASE q = p
    BY <1>1, <1>2, <2>1 DEF Held
  <2>2. CASE q # p
    <3>1. top'[q] = top[q] /\ Held(top[q]) /\ owner[top[q]] = q /\ top[q] \in Jobs /\ top[q] # j
      BY <1>1, <1>2, <1>3, <2>2 DEF Hands, Chained
    <3> QED
      BY <1>1, <1>2, <3>1 DEF Held
  <2> QED
    BY <2>1, <2>2
<1>10. \A k, i \in Jobs :
         Held(k)' /\ Held(i)' /\ caller'[k] = caller'[i] /\ caller'[k] # None => k = i
  <2>1. \A k \in Jobs : Held(k) /\ top[p] # None => caller[k] # top[p]
    BY <1>3, <1>4 DEF Hands, Chained, TopIsLast
  <2> QED
    BY <1>1, <1>2, <2>1 DEF Hands, Chained
<1> QED
  BY <1>7, <1>8, <1>9, <1>10 DEF Hands, Chained, TopIsLast, Held
\* Send and the end of run_task: the innermost job leaves the hand of its process.
LEMMA HandsLeave ==
    ASSUME TypeOK, Hands, NEW p \in Procs, top[p] # None, NEW where, where \notin InHand,
           place' = [place EXCEPT ![top[p]] = where], top' = [top EXCEPT ![p] = caller[top[p]]],
           UNCHANGED <<owner, caller, alive>>
    PROVE  Hands'
<1>j. PICK j : j = top[p]
  OBVIOUS
<1>0. /\ j \in Jobs /\ Held(j) /\ owner[j] = p
      /\ \A q \in Procs : top[q] # None => top[q] \in Jobs /\ Held(top[q]) /\ owner[top[q]] = q
      /\ \A k \in Jobs : caller[k] # None => caller[k] \in Jobs
  BY <1>j DEF TypeOK, Hands, Chained
<1>1. /\ place'[j] = where /\ top'[p] = caller[j]
      /\ \A k \in Jobs : k # j => place'[k] = place[k]
      /\ \A q \in Procs : q # p => top'[q] = top[q]
  BY <1>j, <1>0 DEF TypeOK
<1>2. ~Held(j)' /\ \A k \in Jobs : k # j => (Held(k)' <=> Held(k))
  BY <1>1 DEF Held
<1>3. \A k \in Jobs : Held(k) => owner[k] \in Procs
  BY DEF Hands, Chained, TypeOK, Procs
<1>4. \A k \in Jobs : Held(k) /\ caller[k] # None => caller[k] # j
  <2> SUFFICES ASSUME NEW k \in Jobs, Held(k), caller[k] # None, caller[k] = j PROVE FALSE
    OBVIOUS
  <2>1. owner[k] = p
    BY <1>0 DEF Hands, Chained
  <2> QED
    BY <1>j, <2>1 DEF Hands, TopIsLast
<1>5. caller[j] # None => /\ caller[j] \in Jobs /\ caller[j] # j /\ owner[caller[j]] = p
                          /\ place[caller[j]] = "running"
  BY <1>0, <1>4 DEF Hands, Chained
<1>6. ASSUME NEW k \in Jobs, Held(k)'
      PROVE  /\ owner'[k] \in Clients \cup alive'
             /\ caller'[k] # None => owner'[caller'[k]] = owner'[k] /\ place'[caller'[k]] = "running"
             /\ k # top'[owner'[k]] => \E i \in Jobs : Held(i)' /\ owner'[i] = owner'[k] /\ caller'[i] = k
             /\ caller'[k] # None => caller'[k] # top'[owner'[k]]
  <2>1. Held(k) /\ k # j
    BY <1>2, <1>6
  <2>2. owner[k] \in Clients \cup alive
    BY <2>1 DEF Hands, Chained
  <2>3. caller[k] # None => owner[caller[k]] = owner[k] /\ place'[caller[k]] = "running"
    BY <1>0, <1>1, <1>4, <2>1 DEF Hands, Chained
  <2>4. ASSUME k # top'[owner[k]]
        PROVE  \E i \in Jobs : Held(i)' /\ owner[i] = owner[k] /\ caller[i] = k
    <3>1. k # top[owner[k]]
      BY <1>j, <1>1, <1>3, <2>1, <2>4
    <3>2. PICK i \in Jobs : Held(i) /\ owner[i] = owner[k] /\ caller[i] = k
      BY <2>1, <3>1 DEF Hands, Chained
    <3>3. i # j
      BY <1>0, <1>1, <2>4, <3>2
    <3> QED
      BY <1>2, <3>2, <3>3
  <2>5. caller[k] # None => caller[k] # top'[owner[k]]
    <3>1. CASE owner[k] = p
      BY <1>0, <1>1, <2>1, <3>1 DEF Hands, Chained
    <3>2. CASE owner[k] # p
      BY <1>1, <1>3, <2>1, <3>2 DEF Hands, TopIsLast
    <3> QED
      BY <3>1, <3>2
  <2> QED
    BY <2>2, <2>3, <2>4, <2>5
<1>7. \A q \in Procs : top'[q] # None => place'[top'[q]] \in InHand /\ owner'[top'[q]] = q
  <2> SUFFICES ASSUME NEW q \in Procs, top'[q] # None
               PROVE  place'[top'[q]] \in InHand /\ owner'[top'[q]] = q
    OBVIOUS
  <2>1. CASE q = p
    BY <1>1, <1>5, <2>1 DEF InHand
  <2>2. CASE q # p
    <3>1. top'[q] = top[q] /\ top[q] \in Jobs /\ Held(top[q]) /\ owner[top[q]] = q /\ top[q] # j
      BY <1>0, <1>1, <2>2
    <3> QED
      BY <1>1, <3>1 DEF Held
  <2> QED
    BY <2>1, <2>2
<1>8. \A k, i \in Jobs :
        Held(k)' /\ Held(i)' /\ caller'[k] = caller'[i] /\ caller'[k] # None => k = i
  BY <1>2 DEF Hands, Chained
<1> QED
  BY <1>6, <1>7, <1>8 DEF Hands, Chained, TopIsLast, Held

\* A worker takes a queued job: it is the first of a chain.
LEMMA HandsTake ==
    ASSUME TypeOK, Hands, NEW w \in Workers, NEW j \in Jobs, place[j] = "queued",
           w \in alive, top[w] = None,
           place' = [place EXCEPT ![j] = "running"], owner' = [owner EXCEPT ![j] = w],
           caller' = [caller EXCEPT ![j] = None], top' = [top EXCEPT ![w] = j], alive' = alive
    PROVE  Hands'
<1>0. /\ w \in Procs
      /\ \A q \in Procs : top[q] # None => top[q] \in Jobs /\ Held(top[q]) /\ owner[top[q]] = q
      /\ \A k \in Jobs : caller[k] # None => caller[k] \in Jobs
      /\ None \notin Jobs
  BY ProcsAssumption DEF TypeOK, Hands, Chained, Procs
<1>1. /\ place'[j] = "running" /\ owner'[j] = w /\ caller'[j] = None /\ top'[w] = j
      /\ \A k \in Jobs : k # j => place'[k] = place[k] /\ owner'[k] = owner[k] /\ caller'[k] = caller[k]
      /\ \A q \in Procs : q # w => top'[q] = top[q]
  BY <1>0 DEF TypeOK
<1>2. Held(j)' /\ ~Held(j) /\ \A k \in Jobs : k # j => (Held(k)' <=> Held(k))
  BY <1>1 DEF Held, InHand
<1>3. \A k \in Jobs : Held(k) => owner[k] \in Procs
  BY DEF Hands, Chained, TypeOK, Procs
<1>4. \A k \in Jobs : Held(k) /\ caller[k] # None => caller[k] # j
  BY DEF Hands, Chained
<1>5. ASSUME NEW k \in Jobs, Held(k)', k # j
      PROVE  /\ owner'[k] \in Clients \cup alive'
             /\ caller'[k] # None => owner'[caller'[k]] = owner'[k] /\ place'[caller'[k]] = "running"
             /\ k # top'[owner'[k]] => \E i \in Jobs : Held(i)' /\ owner'[i] = owner'[k] /\ caller'[i] = k
             /\ caller'[k] # None => caller'[k] # top'[owner'[k]]
  <2>1. Held(k) /\ owner'[k] = owner[k] /\ caller'[k] = caller[k]
    BY <1>1, <1>2, <1>5
  <2>2. owner[k] \in Clients \cup alive
    BY <2>1 DEF Hands, Chained
  <2>3. caller[k] # None => owner'[caller[k]] = owner[k] /\ place'[caller[k]] = "running"
    BY <1>0, <1>1, <1>4, <2>1 DEF Hands, Chained
  <2>4. ASSUME k # top'[owner[k]]
        PROVE  \E i \in Jobs : Held(i)' /\ owner'[i] = owner[k] /\ caller'[i] = k
    <3>1. k # top[owner[k]]
      BY <1>0, <1>1, <1>3, <2>1, <2>4
    <3>2. PICK i \in Jobs : Held(i) /\ owner[i] = owner[k] /\ caller[i] = k
      BY <2>1, <3>1 DEF Hands, Chained
    <3> QED
      BY <1>1, <1>2, <3>2
  <2>5. caller[k] # None => caller[k] # top'[owner[k]]
    <3>1. CASE owner[k] = w
      BY <1>1, <1>4, <2>1, <3>1
    <3>2. CASE owner[k] # w
      BY <1>1, <1>3, <2>1, <3>2 DEF Hands, TopIsLast
    <3> QED
      BY <3>1, <3>2
  <2> QED
    BY <2>1, <2>2, <2>3, <2>4, <2>5
<1>6. owner'[j] \in Clients \cup alive' /\ caller'[j] = None /\ j = top'[owner'[j]]
  BY <1>1
<1>7. \A q \in Procs : top'[q] # None => place'[top'[q]] \in InHand /\ owner'[top'[q]] = q
  <2> SUFFICES ASSUME NEW q \in Procs, top'[q] # None
               PROVE  place'[top'[q]] \in InHand /\ owner'[top'[q]] = q
    OBVIOUS
  <2>1. CASE q = w
    BY <1>1, <2>1 DEF InHand
  <2>2. CASE q # w
    <3>1. top'[q] = top[q] /\ top[q] \in Jobs /\ Held(top[q]) /\ owner[top[q]] = q /\ top[q] # j
      BY <1>0, <1>1, <1>2, <2>2
    <3> QED
      BY <1>1, <3>1 DEF Held
  <2> QED
    BY <2>1, <2>2
<1>8. \A k, i \in Jobs :
        Held(k)' /\ Held(i)' /\ caller'[k] = caller'[i] /\ caller'[k] # None => k = i
  BY <1>1, <1>2 DEF Hands, Chained
<1> QED
  BY <1>5, <1>6, <1>7, <1>8 DEF Hands, Chained, TopIsLast, Held

\* A worker ends, and with it the whole chain of its jobs.
LEMMA HandsEnds ==
    ASSUME TypeOK, Hands, NEW w \in Workers, UNCHANGED <<owner, caller>>,
           alive' = alive \ {w}, top' = [top EXCEPT ![w] = None],
           \A j \in Jobs : /\ Held(j) /\ owner[j] = w => place'[j] = "lost"
                           /\ Held(j) /\ owner[j] # w => place'[j] = place[j]
                           /\ ~Held(j) => place'[j] \notin InHand
    PROVE  Hands'
<1>0. /\ w \in Procs /\ w \notin Clients
      /\ \A q \in Procs : top[q] # None => top[q] \in Jobs /\ Held(top[q]) /\ owner[top[q]] = q
      /\ \A k \in Jobs : caller[k] # None => caller[k] \in Jobs
  BY ProcsAssumption DEF TypeOK, Hands, Chained, Procs
<1>1. top'[w] = None /\ \A q \in Procs : q # w => top'[q] = top[q]
  BY <1>0 DEF TypeOK
<1>2. \A k \in Jobs : /\ Held(k)' <=> Held(k) /\ owner[k] # w
                      /\ Held(k)' => place'[k] = place[k]
  BY DEF Held, InHand
<1>3. \A k \in Jobs : Held(k) => owner[k] \in Procs
  BY DEF Hands, Chained, TypeOK, Procs
<1>4. ASSUME NEW k \in Jobs, Held(k)'
      PROVE  /\ owner'[k] \in Clients \cup alive'
             /\ caller'[k] # None => owner'[caller'[k]] = owner'[k] /\ place'[caller'[k]] = "running"
             /\ k # top'[owner'[k]] => \E i \in Jobs : Held(i)' /\ owner'[i] = owner'[k] /\ caller'[i] = k
             /\ caller'[k] # None => caller'[k] # top'[owner'[k]]
  <2>1. Held(k) /\ owner[k] # w /\ owner[k] \in Procs
    BY <1>2, <1>3, <1>4
  <2>2. owner[k] \in Clients \cup alive'
    BY <2>1 DEF Hands, Chained
  <2>3. caller[k] # None => owner[caller[k]] = owner[k] /\ place'[caller[k]] = "running"
    <3>1. caller[k] # None => /\ caller[k] \in Jobs /\ owner[caller[k]] = owner[k]
                              /\ place[caller[k]] = "running"
      BY <1>0, <2>1 DEF Hands, Chained
    <3> QED
      BY <2>1, <3>1 DEF Held, InHand
  <2>4. k # top[owner[k]] => \E i \in Jobs : Held(i)' /\ owner[i] = owner[k] /\ caller[i] = k
    BY <1>2, <2>1 DEF Hands, Chained
  <2>5. caller[k] # None => caller[k] # top'[owner[k]]
    BY <1>1, <2>1 DEF Hands, TopIsLast
  <2> QED
    BY <1>1, <2>1, <2>2, <2>3, <2>4, <2>5
<1>5. \A q \in Procs : top'[q] # None => place'[top'[q]] \in InHand /\ owner'[top'[q]] = q
  <2> SUFFICES ASSUME NEW q \in Procs, top'[q] # None
               PROVE  place'[top'[q]] \in InHand /\ owner'[top'[q]] = q
    OBVIOUS
  <2>1. q # w /\ top'[q] = top[q]
    BY <1>1
  <2>2. top[q] \in Jobs /\ Held(top[q]) /\ owner[top[q]] = q
    BY <1>0, <2>1
  <2> QED
    BY <2>1, <2>2 DEF Held
<1>6. \A k, i \in Jobs :
        Held(k)' /\ Held(i)' /\ caller'[k] = caller'[i] /\ caller'[k] # None => k = i
  BY <1>2 DEF Hands, Chained
<1> QED
  BY <1>4, <1>5, <1>6 DEF Hands, Chained, TopIsLast, Held
\* Steps that leave the pipe alone.
LEMMA FifoKept ==
    ASSUME FifoExact, fifo' = fifo,
           \A j \in Jobs : place'[j] = "queued" <=> place[j] = "queued"
    PROVE  FifoExact'
BY DEF FifoExact, InFifo

\* The pipe is closed by somebody, and loses everything or nothing.
LEMMA FifoClosed ==
    ASSUME FifoExact, NEW R, NEW W, fifo' = PipeAfter(R, W),
           \A j \in Jobs : place'[j] = "queued" <=> place[j] = "queued" /\ j \notin Lost(R, W)
    PROVE  FifoExact'
<1>1. CASE R = {} /\ W = {}
  <2>1. fifo' = <<>> /\ Lost(R, W) = InFifo
    BY <1>1 DEF PipeAfter, Lost
  <2>2. \A j \in Jobs : place'[j] # "queued"
    BY <2>1 DEF FifoExact
  <2> QED
    BY <2>1, <2>2 DEF FifoExact, InFifo
<1>2. CASE ~(R = {} /\ W = {})
  <2>1. fifo' = fifo /\ Lost(R, W) = {}
    BY <1>2 DEF PipeAfter, Lost
  <2> QED
    BY <2>1, FifoKept
<1> QED
  BY <1>1, <1>2

\* A job is written to the pipe.
LEMMA FifoSent ==
    ASSUME TypeOK, FifoExact, NEW j \in Jobs, place[j] # "queued",
           fifo' = Append(fifo, j), place' = [place EXCEPT ![j] = "queued"]
    PROVE  FifoExact'
<1>0. fifo \in Seq(Jobs) /\ Len(fifo) \in Nat
  BY DEF TypeOK
<1>1. /\ Len(fifo') = Len(fifo) + 1 /\ fifo'[Len(fifo) + 1] = j
      /\ \A i \in 1 .. Len(fifo) : fifo'[i] = fifo[i]
  BY <1>0
<1>2. \A i \in 1 .. Len(fifo') : i \in 1 .. Len(fifo) \/ i = Len(fifo) + 1
  BY <1>0, <1>1
<1>3. \A i \in 1 .. Len(fifo) : i \in 1 .. Len(fifo') /\ fifo[i] # j
  BY <1>0, <1>1 DEF FifoExact, InFifo
<1>4. Len(fifo) + 1 \in 1 .. Len(fifo')
  BY <1>0, <1>1
<1>5. InFifo' = InFifo \cup {j}
  <2>1. InFifo' \subseteq InFifo \cup {j}
    BY <1>1, <1>2 DEF InFifo
  <2>2. InFifo \cup {j} \subseteq InFifo'
    BY <1>1, <1>3, <1>4 DEF InFifo
  <2> QED
    BY <2>1, <2>2
<1>6. {k \in Jobs : place'[k] = "queued"} = {k \in Jobs : place[k] = "queued"} \cup {j}
  BY DEF TypeOK
<1>7. \A i, k \in 1 .. Len(fifo') : fifo'[i] = fifo'[k] => i = k
  BY <1>1, <1>2, <1>3 DEF FifoExact
<1> QED
  BY <1>5, <1>6, <1>7 DEF FifoExact

\* A job is read from the pipe.
LEMMA FifoTaken ==
    ASSUME TypeOK, FifoExact, fifo # <<>>, fifo' = Tail(fifo), NEW j, j = Head(fifo),
           place' = [place EXCEPT ![j] = "running"]
    PROVE  FifoExact' /\ j \in Jobs /\ place[j] = "queued"
<1>0. /\ fifo \in Seq(Jobs) /\ Len(fifo) \in Nat \ {0} /\ j = fifo[1] /\ j \in Jobs
      /\ Len(fifo') = Len(fifo) - 1
      /\ \A i \in 1 .. Len(fifo) - 1 : fifo'[i] = fifo[i + 1]
  BY DEF TypeOK
<1>1. \A i \in 1 .. Len(fifo') : i + 1 \in 1 .. Len(fifo) /\ i + 1 # 1 /\ fifo'[i] = fifo[i + 1]
  BY <1>0
<1>2. \A i \in 1 .. Len(fifo) : i # 1 => i - 1 \in 1 .. Len(fifo') /\ fifo'[i - 1] = fifo[i]
  <2> SUFFICES ASSUME NEW i \in 1 .. Len(fifo), i # 1
               PROVE  i - 1 \in 1 .. Len(fifo') /\ fifo'[i - 1] = fifo[i]
    OBVIOUS
  <2>1. i - 1 \in 1 .. Len(fifo') /\ (i - 1) + 1 = i
    BY <1>0
  <2> QED
    BY <1>1, <2>1
<1>3. 1 \in 1 .. Len(fifo)
  BY <1>0
<1>4. InFifo' = InFifo \ {j}
  <2>1. InFifo' \subseteq InFifo \ {j}
    <3> SUFFICES ASSUME NEW i \in 1 .. Len(fifo') PROVE fifo'[i] \in InFifo /\ fifo'[i] # j
      BY DEF InFifo
    <3>1. i + 1 \in 1 .. Len(fifo) /\ i + 1 # 1 /\ fifo'[i] = fifo[i + 1]
      BY <1>1
    <3> QED
      BY <1>0, <1>3, <3>1 DEF InFifo, FifoExact
  <2>2. InFifo \ {j} \subseteq InFifo'
    BY <1>0, <1>2 DEF InFifo
  <2> QED
    BY <2>1, <2>2
<1>5. place[j] = "queued"
  BY <1>0, <1>3 DEF FifoExact, InFifo
<1>6. {k \in Jobs : place'[k] = "queued"} = {k \in Jobs : place[k] = "queued"} \ {j}
  BY <1>0 DEF TypeOK
<1>7. \A i, k \in 1 .. Len(fifo') : fifo'[i] = fifo'[k] => i = k
  <2> SUFFICES ASSUME NEW i \in 1 .. Len(fifo'), NEW k \in 1 .. Len(fifo'), fifo'[i] = fifo'[k]
               PROVE  i = k
    OBVIOUS
  <2>1. i + 1 = k + 1
    BY <1>1 DEF FifoExact
  <2> QED
    BY <2>1
<1> QED
  BY <1>0, <1>4, <1>5, <1>6, <1>7 DEF FifoExact

\* Every step keeps every job in its place.
LEMMA PlacedInductive == TypeOK /\ FifoExact /\ Hands /\ [Next]_vars => FifoExact' /\ Hands'
<1> SUFFICES ASSUME TypeOK, FifoExact, Hands, [Next]_vars PROVE FifoExact' /\ Hands'
  OBVIOUS
<1>0. \A p \in Procs : top[p] # None => top[p] \in Jobs
  BY DEF TypeOK
<1>1. ASSUME NEW p \in Procs, NEW j \in Jobs, Post(p, j) PROVE FifoExact' /\ Hands'
  <2>1. Hands'
    BY <1>1, HandsPost
  <2>2. fifo' = fifo /\ \A k \in Jobs : place'[k] = "queued" <=> place[k] = "queued"
    BY <1>1 DEF Post, TypeOK
  <2> QED
    BY <2>1, <2>2, FifoKept
<1>2. ASSUME NEW p \in Procs, Select(p) PROVE FifoExact' /\ Hands'
  <2> DEFINE where == IF p \in pipe /\ (alive = {} \/ Len(fifo) < PipeCap)
                      THEN "writing" ELSE "running"
  <2>1. /\ top[p] \in Jobs /\ place[top[p]] = "posting" /\ place' = [place EXCEPT ![top[p]] = where]
        /\ UNCHANGED <<fifo, owner, caller, top, alive>>
    BY <1>0, <1>2 DEF Select, At, nanny
  <2>2. where \in {"writing", "running"}
    OBVIOUS
  <2> HIDE DEF where
  <2>3. \A k \in Jobs : /\ place'[k] = "queued" <=> place[k] = "queued"
                        /\ place'[k] \in InHand <=> place[k] \in InHand
                        /\ place[k] = "running" => place'[k] = "running"
    BY <2>1, <2>2 DEF TypeOK, InHand
  <2> QED
    BY <2>1, <2>3, FifoKept, HandsKept
<1>3. ASSUME NEW p \in Procs, Send(p) PROVE FifoExact' /\ Hands'
  <2>1. /\ top[p] \in Jobs /\ top[p] # None /\ place[top[p]] = "writing"
        /\ place' = [place EXCEPT ![top[p]] = "queued"] /\ fifo' = Append(fifo, top[p])
        /\ top' = [top EXCEPT ![p] = caller[top[p]]]
        /\ UNCHANGED <<owner, caller, alive>>
    BY <1>0, <1>3 DEF Send, At, nanny
  <2>2. FifoExact'
    BY <2>1, FifoSent
  <2>3. "queued" \notin InHand
    BY DEF InHand
  <2> QED
    BY <2>1, <2>2, <2>3, HandsLeave
<1>4. ASSUME NEW p \in Procs, WriteFails(p) PROVE FifoExact' /\ Hands'
  <2> DEFINE L == Lost(alive, pipe')
  <2>1. /\ top[p] \in Jobs /\ place[top[p]] = "writing" /\ fifo' = PipeAfter(alive, pipe')
        /\ place' = [k \in Jobs |-> IF k = top[p] THEN "running"
                                    ELSE IF k \in L THEN "lost" ELSE place[k]]
        /\ UNCHANGED <<owner, caller, top, alive>>
    BY <1>0, <1>4 DEF WriteFails, At, nanny
  <2>2. L \subseteq {k \in Jobs : place[k] = "queued"}
    BY DEF Lost, FifoExact
  <2> HIDE DEF L
  <2>3. \A k \in Jobs : /\ place'[k] = "queued" <=> place[k] = "queued" /\ k \notin L
                        /\ place'[k] \in InHand <=> place[k] \in InHand
                        /\ place[k] = "running" => place'[k] = "running"
    BY <2>1, <2>2 DEF InHand
  <2>4. FifoExact'
    BY <2>1, <2>3, FifoClosed DEF L
  <2> QED
    BY <2>1, <2>3, <2>4, HandsKept
<1>5. ASSUME NEW p \in Procs, NEW where \in {"finished", "lost"}, At(p, "running"), Leave(p, where)
      PROVE  FifoExact' /\ Hands'
  <2>1. /\ top[p] \in Jobs /\ top[p] # None /\ place[top[p]] = "running"
        /\ place' = [place EXCEPT ![top[p]] = where] /\ fifo' = fifo
        /\ top' = [top EXCEPT ![p] = caller[top[p]]]
        /\ UNCHANGED <<owner, caller, alive>>
    BY <1>0, <1>5 DEF Leave, At, nanny
  <2>2. \A k \in Jobs : place'[k] = "queued" <=> place[k] = "queued"
    BY <2>1 DEF TypeOK
  <2>3. where \notin InHand
    BY DEF InHand
  <2> QED
    BY <2>1, <2>2, <2>3, FifoKept, HandsLeave
<1>6. ASSUME NEW w \in Workers, Take(w) PROVE FifoExact' /\ Hands'
  <2>1. PICK j : j = Head(fifo)
    OBVIOUS
  <2>2. /\ w \in alive /\ top[w] = None /\ fifo # <<>> /\ fifo' = Tail(fifo)
        /\ place' = [place EXCEPT ![j] = "running"] /\ owner' = [owner EXCEPT ![j] = w]
        /\ caller' = [caller EXCEPT ![j] = None] /\ top' = [top EXCEPT ![w] = j] /\ alive' = alive
    BY <1>6, <2>1 DEF Take, nanny
  <2>3. FifoExact' /\ j \in Jobs /\ place[j] = "queued"
    BY <2>1, <2>2, FifoTaken
  <2> QED
    BY <2>2, <2>3, HandsTake
<1>7. ASSUME NEW w \in Workers, Ends(w) PROVE FifoExact' /\ Hands'
  <2> DEFINE L == Lost(alive', pipe')
  <2>1. /\ alive' = alive \ {w} /\ fifo' = PipeAfter(alive', pipe')
        /\ place' = [k \in Jobs |-> IF k \in Active(w) \cup L THEN "lost" ELSE place[k]]
        /\ top' = [top EXCEPT ![w] = None]
        /\ UNCHANGED <<owner, caller>>
    BY <1>7 DEF Ends
  <2>2. L \subseteq {k \in Jobs : place[k] = "queued"}
    BY DEF Lost, FifoExact
  <2> HIDE DEF L
  <2>3. \A k \in Jobs : k \in Active(w) <=> Held(k) /\ owner[k] = w
    BY DEF Active, Held
  <2>4. \A k \in Jobs : Held(k) => place[k] # "queued"
    BY DEF Held, InHand
  <2>5. \A k \in Jobs : place'[k] = "queued" <=> place[k] = "queued" /\ k \notin L
    BY <2>1, <2>3, <2>4
  <2>6. \A k \in Jobs : /\ Held(k) /\ owner[k] = w => place'[k] = "lost"
                        /\ Held(k) /\ owner[k] # w => place'[k] = place[k]
                        /\ ~Held(k) => place'[k] \notin InHand
    BY <2>1, <2>2, <2>3, <2>4 DEF Held, InHand
  <2>7. FifoExact'
    BY <2>1, <2>5, FifoClosed DEF L
  <2> QED
    BY <2>1, <2>6, <2>7, HandsEnds
<1>8. ASSUME NEW c \in Clients, Exit(c) PROVE FifoExact' /\ Hands'
  <2> DEFINE L == Lost(alive, pipe')
  <2>1. /\ fifo' = PipeAfter(alive, pipe')
        /\ place' = [k \in Jobs |-> IF k \in L THEN "lost" ELSE place[k]]
        /\ UNCHANGED <<owner, caller, top, alive>>
    BY <1>8 DEF Exit, nanny
  <2>2. L \subseteq {k \in Jobs : place[k] = "queued"}
    BY DEF Lost, FifoExact
  <2> HIDE DEF L
  <2>3. \A k \in Jobs : /\ place'[k] = "queued" <=> place[k] = "queued" /\ k \notin L
                        /\ place'[k] \in InHand <=> place[k] \in InHand
                        /\ place[k] = "running" => place'[k] = "running"
    BY <2>1, <2>2 DEF InHand
  <2>4. FifoExact'
    BY <2>1, <2>3, FifoClosed DEF L
  <2> QED
    BY <2>1, <2>3, <2>4, HandsKept
<1>9. CASE UNCHANGED <<fifo, job, top>> /\ alive \subseteq alive'
  BY <1>9, FifoKept, HandsKept DEF job
<1>10. ASSUME NannyStep PROVE UNCHANGED <<fifo, job, top>> /\ alive \subseteq alive'
  BY <1>10, NannyKeepsJobs
<1>11. ASSUME NEW c \in Clients, StartWaiting(c) \/ Poll(c) \/ Delete(c)
       PROVE  UNCHANGED <<fifo, job, top>> /\ alive \subseteq alive'
  BY <1>11 DEF StartWaiting, Poll, Delete, nanny
<1>12. CASE UNCHANGED vars
  BY <1>9, <1>12 DEF vars, nanny
<1>13. ASSUME NEW p \in Procs, Finish(p) \/ SkipUnknown(p) PROVE FifoExact' /\ Hands'
  BY <1>5, <1>13 DEF Finish, SkipUnknown
<1>14. ASSUME NEW w \in Workers, Die(w) \/ Eof(w) PROVE FifoExact' /\ Hands'
  BY <1>7, <1>14 DEF Die, Eof
<1> QED
  BY <1>1, <1>2, <1>3, <1>4, <1>6, <1>8, <1>9, <1>10, <1>11, <1>12, <1>13, <1>14 DEF Next, NannyStep

(***************************************************************************)
(* A job is in one place, for any number of clients, workers and jobs:     *)
(* the pipe holds the queued jobs, each once; what a process has in hand   *)
(* is one chain of nested run_task calls that ends with its innermost job, *)
(* and the process is a client or a living worker.                         *)
(***************************************************************************)
THEOREM PlacesCorrect == Spec => []JobsPlaced
<1>1. Init => TypeOK
  BY TypeInit
<1>2. TypeOK /\ [Next]_vars => TypeOK'
  BY TypeInductive
<1>3. Init => FifoExact /\ Hands
  <2> SUFFICES ASSUME Init PROVE FifoExact /\ Hands
    OBVIOUS
  <2>1. /\ \A j \in Jobs : place[j] = "new" /\ ~Held(j)
        /\ \A p \in Procs : top[p] = None
        /\ fifo = <<>>
    BY DEF Init, Held, InHand
  <2> QED
    BY <2>1 DEF FifoExact, InFifo, Hands, Chained, TopIsLast
<1>4. TypeOK /\ FifoExact /\ Hands /\ [Next]_vars => FifoExact' /\ Hands'
  BY PlacedInductive
<1>5. TypeOK /\ FifoExact /\ Hands => JobsPlaced
  BY PlacedParts
<1> QED
  BY <1>1, <1>2, <1>3, <1>4, <1>5, PTL DEF Spec
=============================================================================
