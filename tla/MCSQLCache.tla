----------------------------- MODULE MCSQLCache -----------------------------
(* Instances of SQLCache for TLC.                                           *)
EXTENDS SQLCache, TLC

CONSTANTS r1, r2, w1, t1, q1

TwoReaders == {r1, r2}
OneReader  == {r1}
OneWriter  == {w1}
OneTable   == {t1}
OneQuery   == {q1}
Uses       == q1 :> {t1}
BothModes  == {"realtime", "periodic"}
Realtime   == {"realtime"}

\* The entry made for offset 3 covers offset 1, but not the reverse; the one
\* for offset 1 would begin before the first row.
Offsets    == {1, 3}
=============================================================================
