------------------------------ MODULE MCSgzip ------------------------------
(* Instances of Sgzip for TLC.                                              *)
EXTENDS Sgzip

CONSTANTS a, b

TwoImages == {a, b}

\* A partial and a full last block.
SomeSizes == {3, 4}
SomeLevels == {0, 1}
OneLevel == {1}
=============================================================================
