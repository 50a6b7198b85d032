---------------------------- MODULE MCTCPStream ----------------------------
(* Instances of TCPStream for TLC.                                          *)
EXTENDS TCPStream

\* Reordered, overlapping, repeated and missing segments; gaps on both
\* sides of MaxPad; a window that is exceeded and one that is not.
Segments ==
    [seq : {1, 2, 3, 5, 9}, data_len : {1, 2}, window : {1, 6}, syn : {FALSE}]
    \cup [seq : {1}, data_len : {0, 1}, window : {6}, syn : {TRUE}]

\* A stream that starts just below the end of the sequence space.
WrappingSegments ==
    [seq : {13, 14, 15, 0, 1}, data_len : {1, 2}, window : {4}, syn : {FALSE}]
=============================================================================
