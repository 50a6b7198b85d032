--------------------------- MODULE NetworkScanner ---------------------------
(***************************************************************************)
(* What PCAPScanner makes of the reassembler's events: the Callback of     *)
(* make_processor in src/plugins/NetworkForensics/NetworkScanner.py.  It   *)
(* keeps a map stream for each direction of a connection; a map does not   *)
(* hold data, it lists ranges of the capture file.                         *)
(*                                                                         *)
(* The two property dictionaries of a connection are the record            *)
(*   state  "none" before est; "open": the maps are there; "closed";       *)
(*          "dropped": never closed; "broken": a callback that found no    *)
(*          map or a closed one                                            *)
(*   urn    the endpoints of the first packet, which the maps are named    *)
(*          after: "/src-dst/sport-dport/"                                 *)
(*   map    the ranges written, by direction (the .pkt maps get a range    *)
(*          of the same length at the same time, and are left out)         *)
(*   jobs   the directions posted to the farm for scanning                 *)
(* A range is the sequence number of the payload byte it starts at, its    *)
(* length and, as history, the bytes the reassembler delivered: the first  *)
(* one and the number of zeros put in front of it.                         *)
(***************************************************************************)
EXTENDS Integers, Sequences

NoMaps ==
    [state |-> "none", urn |-> <<>>, map |-> [d \in 0 .. 1 |-> <<>>], jobs |-> <<>>]

\* est: four maps, unless the other direction has made them.
OnEst(con, e) ==
    CASE con.state = "none" -> [con EXCEPT !.state = "open", !.urn = e.urn]
      [] con.state = "open" -> con
      [] OTHER -> [con EXCEPT !.state = "broken"]

\* data: packet.offset + tcp.data_offset is where the payload of the packet
\* starts in the capture, len(tcp.data) its length after trimming or padding.
OnData(con, d, e) ==
    IF con.state # "open" THEN [con EXCEPT !.state = "broken"]
    ELSE IF e.len = 0 THEN con
    ELSE [con EXCEPT !.map[d] = Append(@, [start |-> e.start, len |-> e.len,
                                           seq |-> e.seq, pad |-> e.pad])]

HasBytes(con) == \E d \in 0 .. 1 : con.map[d] # <<>>

\* Mutant: both sizes must be positive.
OnDestroyBoth(con) ==
    IF con.state # "open" THEN [con EXCEPT !.state = "broken"]
    ELSE IF \A d \in 0 .. 1 : con.map[d] # <<>>
    THEN [con EXCEPT !.state = "closed", !.jobs = @ \o <<0, 1>>]
    ELSE [con EXCEPT !.state = "dropped"]

\* destroy: both directions are closed and posted for scanning if either
\* has a size; otherwise the maps are left as they are.
OnDestroy(con) ==
    IF con.state # "open" THEN [con EXCEPT !.state = "broken"]
    ELSE IF HasBytes(con)
    THEN [con EXCEPT !.state = "closed", !.jobs = @ \o <<0, 1>>]
    ELSE [con EXCEPT !.state = "dropped"]

\* Callback(mode, packet, connection); other modes are ignored.
PyCallback(con, d, e) ==
    CASE e.kind = "est"     -> OnEst(con, e)
      [] e.kind = "data"    -> OnData(con, d, e)
      [] e.kind = "destroy" -> OnDestroy(con)
      [] OTHER              -> con
=============================================================================
