-------------------------------- MODULE Farm --------------------------------
(***************************************************************************)
(* The distributed job framework of src/pyflag/Farm.py for one cookie:     *)
(* clients and workers post jobs through a fifo or run them themselves,    *)
(* the jobs tdb counts the jobs of the cookie, wait_for_scan in            *)
(* src/plugins/Flash/AdvancedCommands.py polls the count, and the nanny    *)
(* restarts workers that die.                                              *)
(*                                                                         *)
(* A task may post any number of further jobs, so a job is a name taken    *)
(* from Jobs when it is posted.  run_task nests when a poster has to run   *)
(* its own job: top[p] is the innermost job of process p and caller[j] the *)
(* one below it, None at the bottom.                                       *)
(***************************************************************************)
EXTENDS Integers, Sequences, FiniteSets

CONSTANTS
    Clients,    \* processes that scan and wait, all using the same cookie
    Workers,    \* worker slots of the nanny
    Jobs,       \* bound: the jobs that can ever be posted
    Unknown,    \* the jobs whose command no registered task has
    PipeCap,    \* packets the fifo holds
    MaxEvents,  \* bound: jobs posted, workers that die, are stopped or continued
    None

ASSUME ProcsAssumption ==
    /\ Clients \cap Workers = {}
    /\ None \notin Jobs \cup Clients \cup Workers
    /\ Unknown \subseteq Jobs
ASSUME JobsFinite == IsFiniteSet(Jobs)
ASSUME WorkersFinite == IsFiniteSet(Workers)
ASSUME BoundsAssumption == PipeCap \in Nat /\ MaxEvents \in Nat

Procs == Clients \cup Workers

VARIABLES
    present, count,   \* the cookie's record in jobs.tdb: is there one, and its value
    fifo,             \* packets in the named pipe
    place,            \* where a job is
    owner, caller,    \* of a job that is being posted or run
    root,             \* history: the client a job belongs to
    top,              \* what a process is doing
    pipe,             \* which processes have the fifo open for writing
    mode,             \* where a client is in execute and wait_for_scan
    alive, zombies,   \* workers that run, and dead ones nobody has waited for
    sigchld, waiting, \* the nanny: is a signal pending, is it in waitpid
    deaths, strays,   \* so far
    merged            \* history: deaths while the signal was already pending

tdb   == <<present, count>>
job   == <<place, owner, caller, root>>
nanny == <<alive, zombies, sigchld, waiting, deaths, strays, merged>>
vars  == <<tdb, fifo, job, top, pipe, mode, nanny>>

(***************************************************************************)
(* A job is counted, then offered to the pipe ("posting": before select,   *)
(* "writing": select found room), then in the pipe, then run.  It is lost  *)
(* when its process dies, when the pipe loses it, or when no task has its  *)
(* command.                                                                *)
(***************************************************************************)
Places == {"new", "posting", "writing", "queued", "running", "finished", "lost"}
InHand == {"posting", "writing", "running"}   \* of the process that owns it

Init ==
    /\ present = FALSE /\ count = 0
    /\ fifo = <<>>
    /\ place = [j \in Jobs |-> "new"]
    /\ owner = [j \in Jobs |-> None]
    /\ caller = [j \in Jobs |-> None]
    /\ root = [j \in Jobs |-> None]
    /\ top = [p \in Procs |-> None]
    /\ pipe = Workers
    /\ mode = [c \in Clients |-> "posting"]
    /\ alive = Workers
    /\ zombies = {}
    /\ sigchld = FALSE /\ waiting = FALSE
    /\ deaths = 0 /\ strays = 0 /\ merged = 0

\* What happens from outside, so far; bounded for TLC.
Events == Cardinality({j \in Jobs : place[j] # "new"}) + deaths + strays

-----------------------------------------------------------------------------
(***************************************************************************)
(* The named pipe.  Living workers are its readers; it loses its contents  *)
(* when nobody has it open.                                                *)
(***************************************************************************)
InFifo == {fifo[i] : i \in 1 .. Len(fifo)}

PipeAfter(readers, writers) == IF readers = {} /\ writers = {} THEN <<>> ELSE fifo

Lost(readers, writers) == IF readers = {} /\ writers = {} THEN InFifo ELSE {}

-----------------------------------------------------------------------------
(***************************************************************************)
(* post_job opens the pipe if it has none (which fails without a reader)   *)
(* and counts the job under the lock.  A job belongs to the client that    *)
(* posted it or that its parent job belongs to (history).                  *)
(***************************************************************************)
MayPost(p) ==
    IF top[p] = None THEN p \in Clients /\ mode[p] = "posting"
    ELSE place[top[p]] = "running" /\ top[p] \notin Unknown

\* A job's name means nothing but whether its command is known: the next one.
NextName(j) == j = CHOOSE k \in Jobs : place[k] = "new" /\ (k \in Unknown <=> j \in Unknown)

\* Mutants: the record starts again at one; the job is not counted.
CountUpResets == present' = TRUE /\ count' = 1
CountUpForgotten == UNCHANGED tdb

CountUp ==
    /\ present' = TRUE
    /\ count' = IF present THEN count + 1 ELSE 1

Post(p, j) ==
    /\ MayPost(p)
    /\ place[j] = "new" /\ NextName(j)
    /\ Events < MaxEvents
    /\ pipe' = IF alive # {} THEN pipe \cup {p} ELSE pipe
    /\ CountUp
    /\ place' = [place EXCEPT ![j] = "posting"]
    /\ owner' = [owner EXCEPT ![j] = p]
    /\ caller' = [caller EXCEPT ![j] = top[p]]
    /\ root' = [root EXCEPT ![j] = IF top[p] = None THEN p ELSE root[top[p]]]
    /\ top' = [top EXCEPT ![p] = j]
    /\ UNCHANGED <<fifo, mode, nanny>>

At(p, where) == top[p] # None /\ place[top[p]] = where

(***************************************************************************)
(* select: a pipe with room, or without any reader, counts as writable.    *)
(* If it is not, the poster runs the job itself.                           *)
(***************************************************************************)
Select(p) ==
    /\ At(p, "posting")
    /\ place' = [place EXCEPT ![top[p]] =
                   IF p \in pipe /\ (alive = {} \/ Len(fifo) < PipeCap)
                   THEN "writing" ELSE "running"]
    /\ UNCHANGED <<tdb, fifo, owner, caller, root, top, pipe, mode, nanny>>

CanWrite == alive # {} /\ Len(fifo) < PipeCap

Send(p) ==
    /\ At(p, "writing")
    /\ CanWrite
    /\ fifo' = Append(fifo, top[p])
    /\ place' = [place EXCEPT ![top[p]] = "queued"]
    /\ top' = [top EXCEPT ![p] = caller[top[p]]]
    /\ UNCHANGED <<tdb, owner, caller, root, pipe, mode, nanny>>

\* The readers have gone or the pipe has filled up since select: close the
\* pipe and run the job.
WriteFails(p) ==
    /\ At(p, "writing")
    /\ ~CanWrite
    /\ pipe' = pipe \ {p}
    /\ place' = [j \in Jobs |-> IF j = top[p] THEN "running"
                                ELSE IF j \in Lost(alive, pipe') THEN "lost"
                                ELSE place[j]]
    /\ fifo' = PipeAfter(alive, pipe')
    /\ UNCHANGED <<tdb, owner, caller, root, top, mode, nanny>>

(***************************************************************************)
(* run_task ends: the task returned or raised, and the job is counted      *)
(* down under the lock.                                                    *)
(***************************************************************************)
CountDown ==
    /\ present' = TRUE
    /\ count' = IF present THEN count - 1 ELSE 0

Leave(p, where) ==
    /\ place' = [place EXCEPT ![top[p]] = where]
    /\ top' = [top EXCEPT ![p] = caller[top[p]]]
    /\ UNCHANGED <<fifo, owner, caller, root, pipe, mode, nanny>>

\* Mutant: the job is not counted down (the task raised and run_task left).
FinishRaises(p) ==
    /\ At(p, "running") /\ top[p] \notin Unknown
    /\ UNCHANGED tdb
    /\ Leave(p, "finished")

Finish(p) ==
    /\ At(p, "running") /\ top[p] \notin Unknown
    /\ CountDown
    /\ Leave(p, "finished")

\* No task has the command: run_task returns without counting down.
SkipUnknown(p) ==
    /\ At(p, "running") /\ top[p] \in Unknown
    /\ Leave(p, "lost")
    /\ UNCHANGED tdb

-----------------------------------------------------------------------------
\* Mutant of Take: the packet can be read again.
TakePeeks(w) ==
    /\ w \in alive
    /\ top[w] = None
    /\ fifo # <<>>
    /\ place' = [place EXCEPT ![Head(fifo)] = "running"]
    /\ owner' = [owner EXCEPT ![Head(fifo)] = w]
    /\ caller' = [caller EXCEPT ![Head(fifo)] = None]
    /\ top' = [top EXCEPT ![w] = Head(fifo)]
    /\ UNCHANGED <<tdb, fifo, root, pipe, mode, nanny>>

(* worker_run.                                                              *)
Take(w) ==
    /\ w \in alive
    /\ top[w] = None
    /\ fifo # <<>>
    /\ fifo' = Tail(fifo)
    /\ place' = [place EXCEPT ![Head(fifo)] = "running"]
    /\ owner' = [owner EXCEPT ![Head(fifo)] = w]
    /\ caller' = [caller EXCEPT ![Head(fifo)] = None]
    /\ top' = [top EXCEPT ![w] = Head(fifo)]
    /\ UNCHANGED <<tdb, root, pipe, mode, nanny>>

(***************************************************************************)
(* A worker process ends: its jobs are gone but stay counted.              *)
(***************************************************************************)
Active(p) == {j \in Jobs : place[j] \in InHand /\ owner[j] = p}

Ends(w) ==
    /\ w \in alive
    /\ alive' = alive \ {w}
    /\ zombies' = zombies \cup {w}
    /\ sigchld' = TRUE
    /\ merged' = IF sigchld THEN merged + 1 ELSE merged
    /\ pipe' = pipe \ {w}
    /\ LET lost == Active(w) \cup Lost(alive', pipe')
       IN  place' = [j \in Jobs |-> IF j \in lost THEN "lost" ELSE place[j]]
    /\ fifo' = PipeAfter(alive', pipe')
    /\ top' = [top EXCEPT ![w] = None]
    /\ UNCHANGED <<tdb, owner, caller, root, mode, waiting, strays>>

\* check_mem, the exit for a packet that is too large, a crash.
Die(w) ==
    /\ Events < MaxEvents
    /\ deaths' = deaths + 1
    /\ Ends(w)

\* An empty pipe without a writer reads as end of file, which is not an
\* OSError: unpickling nothing ends the worker.
Eof(w) ==
    /\ top[w] = None /\ fifo = <<>> /\ pipe = {}
    /\ Ends(w)
    /\ UNCHANGED deaths

(***************************************************************************)
(* The nanny's SIGCHLD handler: waitpid, which blocks as long as no child  *)
(* is dead, then fork.  Pending signals are not counted, and a worker that *)
(* is stopped or continued sends the same signal.  Python runs the handler *)
(* between two bytecodes, also while an earlier call of it has collected a *)
(* child and not forked yet; that call goes on when the inner one returns. *)
(***************************************************************************)
Stray(w) ==
    /\ w \in alive
    /\ Events < MaxEvents
    /\ strays' = strays + 1
    /\ sigchld' = TRUE
    /\ UNCHANGED <<tdb, fifo, job, top, pipe, mode, alive, zombies, waiting, deaths, merged>>

\* The children that were collected and whose successor is not forked yet.
Collected == Workers \ (alive \cup zombies)

Handler ==
    /\ sigchld /\ ~waiting
    /\ sigchld' = FALSE
    /\ waiting' = TRUE
    /\ UNCHANGED <<tdb, fifo, job, top, pipe, mode, alive, zombies, deaths, strays, merged>>

\* A signal without a dead child interrupts waitpid: the handler called for
\* it waits in turn, and the interrupted one will return without a fork.
Interrupted ==
    /\ waiting /\ sigchld /\ zombies = {}
    /\ sigchld' = FALSE
    /\ UNCHANGED <<tdb, fifo, job, top, pipe, mode, alive, zombies, waiting, deaths, strays, merged>>

\* Mutants: a worker is forked and the child stays dead; waitpid in a loop.
CollectForgets ==
    /\ waiting
    /\ waiting' = FALSE
    /\ \E w \in zombies : alive' = alive \cup {w}
    /\ UNCHANGED <<tdb, fifo, job, top, pipe, mode, zombies, sigchld, deaths, strays, merged>>
CollectAll ==
    /\ waiting
    /\ \E w \in zombies : zombies' = zombies \ {w}
    /\ UNCHANGED <<tdb, fifo, job, top, pipe, mode, alive, sigchld, waiting, deaths, strays, merged>>
Collect ==
    /\ waiting
    /\ waiting' = FALSE
    /\ \E w \in zombies : zombies' = zombies \ {w}
    /\ UNCHANGED <<tdb, fifo, job, top, pipe, mode, alive, sigchld, deaths, strays, merged>>

\* waitpid fails: there is no child, dead or alive.
NoChild ==
    /\ waiting
    /\ alive \cup zombies = {}
    /\ waiting' = FALSE
    /\ UNCHANGED <<tdb, fifo, job, top, pipe, mode, alive, zombies, sigchld, deaths, strays, merged>>

\* Mutant: the handler returns without a fork.
ForkNever ==
    /\ ~waiting /\ Collected # {}
    /\ UNCHANGED vars
Fork ==
    /\ ~waiting
    /\ \E w \in Collected : alive' = alive \cup {w} /\ pipe' = pipe \cup {w}
    /\ UNCHANGED <<tdb, fifo, job, top, mode, zombies, sigchld, waiting, deaths, strays, merged>>

-----------------------------------------------------------------------------
(* The client: execute posts, then wait_for_scan polls.                     *)
StartWaiting(c) ==
    /\ mode[c] = "posting"
    /\ top[c] = None
    /\ mode' = [mode EXCEPT ![c] = "waiting"]
    /\ UNCHANGED <<tdb, fifo, job, top, pipe, nanny>>

\* Mutant: one job short.
PollEarly(c) ==
    /\ mode[c] = "waiting"
    /\ mode' = [mode EXCEPT ![c] = IF ~present \/ count < 1 THEN "done"
                                   ELSE IF count = 1 THEN "deleting"
                                   ELSE "waiting"]
    /\ UNCHANGED <<tdb, fifo, job, top, pipe, nanny>>

\* get_cookie_reference reads without the lock, and deletes a zero later.
Poll(c) ==
    /\ mode[c] = "waiting"
    /\ mode' = [mode EXCEPT ![c] = IF ~present \/ count < 0 THEN "done"
                                   ELSE IF count = 0 THEN "deleting"
                                   ELSE "waiting"]
    /\ UNCHANGED <<tdb, fifo, job, top, pipe, nanny>>

Delete(c) ==
    /\ mode[c] = "deleting"
    /\ mode' = [mode EXCEPT ![c] = "done"]
    /\ present' = FALSE
    /\ count' = 0
    /\ UNCHANGED <<fifo, job, top, pipe, nanny>>

\* The client process ends after its scan and the system closes its pipe.
Exit(c) ==
    /\ mode[c] = "done"
    /\ mode' = [mode EXCEPT ![c] = "gone"]
    /\ pipe' = pipe \ {c}
    /\ place' = [j \in Jobs |-> IF j \in Lost(alive, pipe') THEN "lost" ELSE place[j]]
    /\ fifo' = PipeAfter(alive, pipe')
    /\ UNCHANGED <<tdb, owner, caller, root, top, nanny>>

-----------------------------------------------------------------------------
ProcStep(p) == Select(p) \/ Send(p) \/ WriteFails(p) \/ Finish(p) \/ SkipUnknown(p)

Next ==
    \/ \E p \in Procs :
          \/ \E j \in Jobs : Post(p, j)
          \/ Select(p)
          \/ Send(p)
          \/ WriteFails(p)
          \/ Finish(p)
          \/ SkipUnknown(p)
    \/ \E w \in Workers : Take(w) \/ Die(w) \/ Eof(w) \/ Stray(w)
    \/ Handler \/ Interrupted \/ Collect \/ NoChild \/ Fork
    \/ \E c \in Clients : StartWaiting(c) \/ Poll(c) \/ Delete(c) \/ Exit(c)

(***************************************************************************)
(* Every process keeps running: tasks end, idle workers read the fifo,     *)
(* the client stops posting and polls, signals are delivered.  No process  *)
(* owes a death, an exit or a further job.                                 *)
(***************************************************************************)
Fairness ==
    /\ \A p \in Procs : WF_vars(ProcStep(p))
    /\ WF_vars(\E w \in Workers : Take(w))
    /\ WF_vars(Handler) /\ WF_vars(Collect) /\ WF_vars(NoChild) /\ WF_vars(Fork)
    /\ \A c \in Clients : WF_vars(StartWaiting(c)) /\ WF_vars(Poll(c) \/ Delete(c))

Spec == Init /\ [][Next]_vars /\ Fairness
-----------------------------------------------------------------------------
Counted == {j \in Jobs : place[j] \notin {"new", "finished"}}
Released(c) == mode[c] \in {"done", "gone"}

\* Every variable stays in its type.
TypeOK ==
    /\ present \in BOOLEAN /\ count \in Int
    /\ fifo \in Seq(Jobs)
    /\ place \in [Jobs -> Places]
    /\ owner \in [Jobs -> Procs \cup {None}]
    /\ caller \in [Jobs -> Jobs \cup {None}]
    /\ root \in [Jobs -> Clients \cup {None}]
    /\ top \in [Procs -> Jobs \cup {None}]
    /\ pipe \subseteq Procs
    /\ mode \in [Clients -> {"posting", "waiting", "deleting", "done", "gone"}]
    /\ alive \subseteq Workers /\ zombies \subseteq Workers \ alive
    /\ sigchld \in BOOLEAN /\ waiting \in BOOLEAN
    /\ deaths \in Nat /\ strays \in Nat /\ merged \in Nat

(***************************************************************************)
(* The cookie's record is the number of jobs posted and not completed,     *)
(* whichever process ran them, however posts, nested runs and completions  *)
(* interleave, and whatever is lost with a worker or a pipe.               *)
(***************************************************************************)
CountExact == (IF present THEN count ELSE 0) = Cardinality(Counted)

(***************************************************************************)
(* wait_for_scan "waits for scanners to complete": a client is released    *)
(* only when every job it posted, and every job those posted in turn, has  *)
(* been completed.                                                         *)
(***************************************************************************)
BarrierHolds ==
    \A c \in Clients : Released(c) =>
        \A j \in Jobs : root[j] = c => place[j] = "finished"

(***************************************************************************)
(* A job is in one place: the pipe holds exactly the queued jobs, each     *)
(* once; a job in hand belongs to a process that exists, and to one chain  *)
(* of nested run_task calls below that process's innermost job.            *)
(***************************************************************************)
JobsPlaced ==
    /\ InFifo = {j \in Jobs : place[j] = "queued"}
    /\ \A i, k \in 1 .. Len(fifo) : fifo[i] = fifo[k] => i = k
    /\ \A p \in Procs : top[p] # None => top[p] \in Active(p)
    /\ \A j \in Jobs : place[j] \in InHand =>
          /\ owner[j] \in Clients \cup alive
          /\ caller[j] # None => /\ caller[j] \in Active(owner[j])
                                 /\ place[caller[j]] = "running"
          /\ j # top[owner[j]] => \E k \in Active(owner[j]) : caller[k] = j
    /\ \A j, k \in Counted : /\ place[j] \in InHand /\ place[k] \in InHand
                             /\ caller[j] = caller[k] /\ caller[j] # None
                             => j = k

(***************************************************************************)
(* The nanny's books, however deaths, stops and nested handlers interleave.*)
(* A dead worker nobody has waited for has a signal under way (pending, or *)
(* its handler in waitpid) or one that was merged with another's; and      *)
(* waitpid without WNOHANG finds a dead worker for every signal under way  *)
(* but those that a stopped or continued worker sent: only these block it. *)
(***************************************************************************)
UnderWay == (IF sigchld THEN 1 ELSE 0) + (IF waiting THEN 1 ELSE 0)

SignalsAccounted ==
    /\ Cardinality(zombies) <= UnderWay + merged
    /\ UnderWay <= Cardinality(zombies) + strays

-----------------------------------------------------------------------------
(* What the client is promised, as a specification of its own.              *)
Barrier == INSTANCE ScanBarrier WITH
    posted   <- {j \in Jobs : place[j] # "new"},
    finished <- {j \in Jobs : place[j] = "finished"},
    released <- \E c \in Clients : Released(c)

\* For one client the farm never does what the barrier does not allow, even
\* when workers die and jobs are lost.
ImplementsBarrierSafety == Barrier!SafeSpec

(***************************************************************************)
(* As long as no job is lost the farm also keeps what the barrier owes:    *)
(* every job is completed and wait_for_scan returns, however the pipe      *)
(* fills, jobs nest, and workers die between two jobs and are replaced.    *)
(***************************************************************************)
BarrierLive == [](\A j \in Jobs : place[j] # "lost") => Barrier!Live

(***************************************************************************)
(* "If the worker exits the nanny restarts another worker", as far as the  *)
(* handler keeps it when workers die together: the workers missing come    *)
(* down to the deaths that were merged with another, unless the nanny is   *)
(* blocked in waitpid, where no worker is dead and one still runs.         *)
(***************************************************************************)
Missing == Cardinality(Workers \ alive)
Blocked == waiting /\ zombies = {} /\ alive # {}
WorkersRestored == Missing > merged ~> Missing <= merged \/ Blocked

-----------------------------------------------------------------------------
(***************************************************************************)
(* The inductive invariant behind BarrierHolds, for a cookie that one      *)
(* client uses.                                                            *)
(***************************************************************************)
OneClient == \A c, d \in Clients : c = d

\* What is in the pipe is queued, and there once.
FifoQueued ==
    /\ \A i \in 1 .. Len(fifo) : place[fifo[i]] = "queued"
    /\ \A i, k \in 1 .. Len(fifo) : fifo[i] = fifo[k] => i = k

NewHasNoRoot == \A j \in Jobs : place[j] = "new" => root[j] = None

\* From the moment the client reads a zero nothing is outstanding.
QuietWhenReleased ==
    \A c \in Clients : mode[c] \in {"deleting", "done", "gone"} => Counted = {}

\* The conjunction that every step preserves.
IInv == TypeOK /\ CountExact /\ FifoQueued /\ NewHasNoRoot /\ QuietWhenReleased
=============================================================================
