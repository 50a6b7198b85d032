----------------------------- MODULE MCDBHandle -----------------------------
(* Instances of DBHandle for TLC.                                           *)
EXTENDS DBHandle

CONSTANTS t1, t2, c1, c2

TwoThreads == {t1, t2}
OneCase    == {c1}
TwoCases   == {c1, c2}
Pooled     == {"pooled"}
Direct     == {"direct"}
=============================================================================
