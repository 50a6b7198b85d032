------------------------------- MODULE MCFarm -------------------------------
(* Instances of Farm for TLC.                                               *)
EXTENDS Farm

CONSTANTS m1, m2, w1, w2, j1, j2, j3, j4

JustOne     == {m1}
TwoWorkers  == {w1, w2}
FourJobs    == {j1, j2, j3, j4}
OneJob      == {j1}

\* Two scans that got the same cookie: with these Clients the barrier does
\* not hold (see the README).
TwoClients  == {m1, m2}
=============================================================================
