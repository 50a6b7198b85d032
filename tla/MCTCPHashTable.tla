--------------------------- MODULE MCTCPHashTable ---------------------------
(* Instances of TCPHashTable for TLC.                                       *)
EXTENDS TCPHashTable

CONSTANTS c1, c2, c3

ThreeConns == {c1, c2, c3}
TwoConns   == {c1, c2}

\* c1 and c2 collide, c3 does not.
Collide == (c1 :> 1) @@ (c2 :> 1) @@ (c3 :> 2)
CollideTwo == (c1 :> 1) @@ (c2 :> 1)
OneUdp  == {c3}
NoUdp   == {}

Seg(seq, len, win, syn) == [seq |-> seq, data_len |-> len, window |-> win, syn |-> syn]

\* A SYN without data, the segment it announces, and one beyond a gap.
Traffic == {Seg(0, 0, 9, TRUE), Seg(1, 1, 1, FALSE), Seg(4, 1, 9, FALSE)}

\* With the segment that follows the announced one and may overtake it.
Reordered == Traffic \cup {Seg(2, 1, 9, FALSE)}

\* UDP packets of one byte.
OneDatagram == {Seg(1, 1, 1, FALSE)}
NoDatagram  == {}

\* The two connections that collide are interchangeable.
Swap == Permutations({c1, c2})
=============================================================================
