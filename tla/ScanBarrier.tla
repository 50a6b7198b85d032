---------------------------- MODULE ScanBarrier ----------------------------
(***************************************************************************)
(* What a scan command may rely on, whatever runs its jobs: jobs are       *)
(* submitted, each is completed once, and the command is released when     *)
(* everything submitted has been completed, and not before.                *)
(***************************************************************************)
CONSTANT Jobs

VARIABLES posted, finished, released

vars == <<posted, finished, released>>

Init == posted = {} /\ finished = {} /\ released = FALSE

Submit(j) ==
    /\ ~released
    /\ j \in Jobs \ posted
    /\ posted' = posted \cup {j}
    /\ UNCHANGED <<finished, released>>

Complete(j) ==
    /\ j \in posted \ finished
    /\ finished' = finished \cup {j}
    /\ UNCHANGED <<posted, released>>

Release ==
    /\ ~released
    /\ posted = finished
    /\ released' = TRUE
    /\ UNCHANGED <<posted, finished>>

Next == (\E j \in Jobs : Submit(j) \/ Complete(j)) \/ Release

\* What may happen ...
SafeSpec == Init /\ [][Next]_vars

\* ... and what must: every job is completed, and the command is released.
Live == WF_vars(Release) /\ \A j \in Jobs : WF_vars(Complete(j))

Spec == SafeSpec /\ Live
=============================================================================
