------------------------------- MODULE Store -------------------------------
(***************************************************************************)
(* The object store of src/pyflag/Store.py (class Store): a sequence of    *)
(* entries, the least recently used first.  Each operation holds the       *)
(* store's mutex, so it is one step of whoever calls it.  The age of an    *)
(* entry is abstracted to how many of the oldest entries have outlived     *)
(* max_age, which the caller chooses.                                      *)
(***************************************************************************)
EXTENDS Integers, Sequences, SequencesExt

Entry(k, o) == [key |-> k, obj |-> o]

HasKey(s, k) == \E i \in DOMAIN s : s[i].key = k

\* get and the tests find the first entry with the key, the oldest one.
Find(s, k) == Min({i \in DOMAIN s : s[i].key = k})

(* check_full: entries leave from the old end, first those over the size,  *)
(* then those too old.                                                     *)
CheckFull(s, size, old) == SubSeq(s, Max({Len(s) - size, old, 0}) + 1, Len(s))

\* put makes room first and appends afterwards.
StorePut(s, size, old, k, o) == Append(CheckFull(s, size, old), Entry(k, o))

\* get moves the entry to the young end, then makes room.
StoreGet(s, size, old, k) ==
    CheckFull(Append(RemoveAt(s, Find(s, k)), s[Find(s, k)]), size, old)
=============================================================================
