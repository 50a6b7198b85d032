------------------------------ MODULE Scanner ------------------------------
(***************************************************************************)
(* The scanner framework: scan_inode and get_factories of                  *)
(* src/pyflag/Scanner.py, fill_in_dependancies of ScannerUtils.py, and the *)
(* type detection of Magic.py they start with, over the store of factories *)
(* (Store) and a keyword index, which is a parameter (Trie is the one the  *)
(* code has).  A worker scans one inode after the other; each scan is for  *)
(* the scanners its job names.  An inode is its first bytes.               *)
(***************************************************************************)
EXTENDS Integers, Sequences, FiniteSets, SequencesExt, Store

CONSTANTS
    Scanners,      \* the scanners in the registry
    Unknown,       \* names that are in no registry
    Groups,        \* the scanners of each group, by the name of the group
    Registries,    \* what each scanner may depend on: functions to sequences
    Depth,         \* the longest chain of dependencies
    Requests,      \* the lists of names jobs ask for
    StoreSize,     \* max_size of the store of factories
    Buffers,       \* the data of inodes
    Handlers,      \* the magic handlers, in the order of the registry
    Rules,         \* the words of the handlers with ranges, in that order
    Score,         \* default_score of each handler
    Initial,       \* what score() of each handler gives the data itself
    BuildIndex(_),     \* the index of a sequence of words
    SearchIndex(_, _), \* the hits its iterator returns for a buffer, in order
    None

ASSUME ScannerAssumption ==
    /\ Scanners \cap Unknown = {}
    /\ \A reg \in Registries : reg \in [Scanners -> Seq(Scanners \cup Unknown)]
    /\ \A g \in DOMAIN Groups : Groups[g] \in Seq(Scanners)
    /\ \A names \in Requests : names \in Seq(Scanners \cup Unknown \cup DOMAIN Groups)
    /\ StoreSize \in Nat

\* No scanner depends on itself: find_dependencies would not return.
ASSUME DepthAssumption ==
    /\ Depth \in Nat
    /\ \A reg \in Registries : \E rank \in [Scanners -> 0 .. Depth] :
          \A s \in Scanners : \A d \in ToSet(reg[s]) \cap Scanners : rank[d] < rank[s]

Words == [i \in DOMAIN Rules |-> Rules[i].word]
Hits(data) == SearchIndex(BuildIndex(Words), data)

ASSUME MagicAssumption ==
    /\ Handlers \in Seq(ToSet(Handlers)) /\ Rules \in Seq(ToSet(Rules))
    /\ \A r \in ToSet(Rules) : r.handler \in ToSet(Handlers)
    /\ Score \in [ToSet(Handlers) -> Nat] /\ Initial \in [ToSet(Handlers) -> Nat]
    /\ \E h \in ToSet(Handlers) : Initial[h] > 0     \* libmagic rates anything

\* A hit is of one of the words, and is returned once.
ASSUME IndexAssumption ==
    \A data \in Buffers :
        /\ Hits(data) \in Seq(ToSet(Hits(data))) /\ IsInjective(Hits(data))
        /\ \A hit \in ToSet(Hits(data)) : hit.id \in DOMAIN Rules

VARIABLES
    depends,     \* the registry: what each scanner depends on
    factories,   \* the store of factories
    indexer,     \* the index of MagicResolver, None before its first use
    scan         \* the scan under way

vars == <<depends, factories, indexer, scan>>

NoScan == [pc |-> "idle", data |-> <<>>, asked |-> <<>>, type |-> None,
           names |-> <<>>, ready |-> <<>>, done |-> <<>>]

Init ==
    /\ depends \in Registries
    /\ factories = <<>>
    /\ indexer = None
    /\ scan = NoScan

(***************************************************************************)
(* Magic: every handler rates the data, then every hit of one of its words *)
(* within the range of the rule adds to its score; the best so far is kept *)
(* and 100 ends the search.                                                *)
(***************************************************************************)
\* max_score changes only for a better score.
Better(m, h) == IF m.scores[h] > m.max THEN [m EXCEPT !.max = m.scores[h], !.best = h] ELSE m

\* Mutant: only the loop over the hits at one offset is left, not the search.
ScoreHitOn(m, hit) ==
    LET rule == Rules[hit.id]
        hits == IF hit.offset \in rule.from .. rule.to
                THEN [m EXCEPT !.scores[rule.handler] = @ + Score[rule.handler]] ELSE m
    IN  Better(hits, rule.handler)

\* The search ends after a hit that leaves a score of 100.
ScoreHit(m, hit) ==
    LET rule == Rules[hit.id]
        hits == IF hit.offset \in rule.from .. rule.to
                THEN [m EXCEPT !.scores[rule.handler] = @ + Score[rule.handler]] ELSE m
        best == Better(hits, rule.handler)
    IN  IF m.stop THEN m ELSE [best EXCEPT !.stop = best.max >= 100]

Unrated == [max |-> 0, best |-> None, scores |-> Initial, stop |-> FALSE]

Rated ==
    LET after[k \in 0 .. Len(Handlers)] ==
            IF k = 0 THEN Unrated ELSE Better(after[k - 1], Handlers[k])
    IN  after[Len(Handlers)]

ScoreHits(hits) ==
    LET after[k \in 0 .. Len(hits)] ==
            IF k = 0 THEN Rated ELSE ScoreHit(after[k - 1], hits[k])
    IN  after[Len(hits)]

EstimateType(index, data) == ScoreHits(SearchIndex(index, data))

(***************************************************************************)
(* Dependencies: every name is followed by those it depends on, whatever   *)
(* is repeated counts where it stands last, and the list is turned round.  *)
(***************************************************************************)
Listing(reg, s, found) ==
    FlattenSeq([i \in DOMAIN reg[s] |->
        <<reg[s][i]>> \o IF reg[s][i] \in Scanners THEN found[reg[s][i]] ELSE <<>>])

(* What find_dependencies lists for each scanner, with calls no deeper     *)
(* than k at turn k.                                                       *)
FindDependencies(reg) ==
    LET find[k \in 0 .. Depth + 1] ==
            IF k = 0 THEN [s \in Scanners |-> <<>>]
            ELSE [s \in Scanners |-> Listing(reg, s, find[k - 1])]
    IN  find[Depth + 1]

Expand(s) == <<s>> \o FindDependencies(depends)[s]

Listed(name) ==
    CASE name \in Scanners -> Expand(name)
      [] name \in DOMAIN Groups \ Scanners ->
           FlattenSeq([i \in DOMAIN Groups[name] |-> Expand(Groups[name][i])])
      [] OTHER -> <<>>

\* Is the place the last, or the first, of what stands there?
LastPlace(s, i)  == \A j \in i + 1 .. Len(s) : s[j] # s[i]
FirstPlace(s, i) == \A j \in 1 .. i - 1 : s[j] # s[i]

\* Mutant: what is repeated counts where it stands first.
FirstOnly(s) ==
    LET kept[i \in 0 .. Len(s)] ==
            IF i = 0 THEN <<>>
            ELSE IF FirstPlace(s, i) THEN Append(kept[i - 1], s[i]) ELSE kept[i - 1]
    IN  kept[Len(s)]

LastOnly(s) ==
    LET kept[i \in 0 .. Len(s)] ==
            IF i = 0 THEN <<>>
            ELSE IF LastPlace(s, i) THEN Append(kept[i - 1], s[i]) ELSE kept[i - 1]
    IN  kept[Len(s)]

FillInDependancies(names) ==
    Reverse(LastOnly(FlattenSeq([i \in DOMAIN names |-> Listed(names[i])])))

(***************************************************************************)
(* scan_inode.                                                             *)
(***************************************************************************)
Begin(data, names) ==
    /\ scan.pc = "idle"
    /\ scan' = [NoScan EXCEPT !.pc = "magic", !.data = data, !.asked = names]
    /\ UNCHANGED <<depends, factories, indexer>>

\* The first MagicResolver adds the words of all handlers to the index.
FindMagic ==
    /\ scan.pc = "magic"
    /\ indexer' = IF indexer = None THEN BuildIndex(Words) ELSE indexer
    /\ scan' = [scan EXCEPT !.pc = "typed", !.type = EstimateType(indexer', scan.data).best]
    /\ UNCHANGED <<depends, factories>>

GetFactories ==
    /\ scan.pc = "typed"
    /\ scan' = [scan EXCEPT !.pc = "prepare", !.data = <<>>,
                            !.names = FillInDependancies(scan.asked)]
    /\ UNCHANGED <<depends, factories, indexer>>

\* Mutant: a scanner that is not in the store is put there for the next time.
PrepareLate ==
    LET s == Head(scan.names)
    IN  /\ scan.pc = "prepare" /\ scan.names # <<>>
        /\ IF s \in Scanners THEN factories' = StorePut(factories, StoreSize, 0, s, s)
                             ELSE UNCHANGED factories
        /\ scan' = [scan EXCEPT !.names = Tail(@),
                                !.ready = IF HasKey(factories, s) THEN Append(@, s) ELSE @]
        /\ UNCHANGED <<depends, indexer>>

\* Mutant: the store is not asked first.
PrepareAnew ==
    LET s == Head(scan.names)
    IN  /\ scan.pc = "prepare" /\ scan.names # <<>>
        /\ factories' = IF s \in Scanners THEN StorePut(factories, StoreSize, 0, s, s) ELSE factories
        /\ scan' = [scan EXCEPT !.names = Tail(@),
                                !.ready = IF s \in Scanners THEN Append(@, s) ELSE @]
        /\ UNCHANGED <<depends, indexer>>

(* One factory of get_factories: from the store, or made and stored, or    *)
(* skipped if there is no such scanner.                                    *)
Prepare ==
    LET s == Head(scan.names)
    IN  /\ scan.pc = "prepare" /\ scan.names # <<>>
        /\ \/ /\ HasKey(factories, s)
              /\ \E old \in 0 .. Len(factories) - 1 :
                   factories' = StoreGet(factories, StoreSize, old, s)
              /\ scan' = [scan EXCEPT !.names = Tail(@), !.ready = Append(@, s)]
           \/ /\ ~HasKey(factories, s) /\ s \in Scanners
              /\ \E old \in 0 .. Len(factories) :
                   factories' = StorePut(factories, StoreSize, old, s, s)
              /\ scan' = [scan EXCEPT !.names = Tail(@), !.ready = Append(@, s)]
           \/ /\ ~HasKey(factories, s) /\ s \notin Scanners
              /\ scan' = [scan EXCEPT !.names = Tail(@)]
              /\ UNCHANGED factories
        /\ UNCHANGED <<depends, indexer>>

\* A scanner that raises an exception does not stop the others.
Run ==
    /\ scan.pc = "prepare" /\ scan.names = <<>> /\ scan.ready # <<>>
    /\ scan' = [scan EXCEPT !.ready = Tail(@), !.done = Append(@, Head(scan.ready))]
    /\ UNCHANGED <<depends, factories, indexer>>

\* scanner_cache is not written: the inode may be scanned again.
Finish ==
    /\ scan.pc = "prepare" /\ scan.names = <<>> /\ scan.ready = <<>>
    /\ scan' = NoScan
    /\ UNCHANGED <<depends, factories, indexer>>

Next ==
    \/ \E data \in Buffers, names \in Requests : Begin(data, names)
    \/ FindMagic \/ GetFactories \/ Prepare \/ Run \/ Finish

Spec == Init /\ [][Next]_vars

(***************************************************************************)
(* Properties                                                              *)
(***************************************************************************)
(* "scanners which depend on other scanners follow them in the list"       *)
(* (fill_in_dependancies): when a scanner has run on an inode, the ones it *)
(* depends on have run on it before.                                       *)
DependenciesRanBefore ==
    \A i \in DOMAIN scan.done :
        \A d \in ToSet(depends[scan.done[i]]) \cap Scanners :
            \E j \in 1 .. i - 1 : scan.done[j] = d

\* The scanners a scan is for: those asked for and all they depend on.
Named(n) == IF n \in Scanners THEN {n}
            ELSE IF n \in DOMAIN Groups THEN ToSet(Groups[n]) ELSE {}
Requested(names) == UNION {Named(n) : n \in ToSet(names)}
Closed(S) == \A s \in S : ToSet(depends[s]) \cap Scanners \subseteq S
Closure(names) ==
    {s \in Scanners : \A S \in SUBSET Scanners :
                          Requested(names) \subseteq S /\ Closed(S) => s \in S}

(* Each scanner that is asked for, or that one of them depends on, runs on *)
(* the inode once and no other does, whatever is in the store and however  *)
(* small it is.                                                            *)
EachRunsOnce ==
    scan.pc = "prepare" /\ scan.names = <<>> /\ scan.ready = <<>> =>
        /\ ToSet(scan.done) = Closure(scan.asked)
        /\ Len(scan.done) = Cardinality(Closure(scan.asked))

(* There is one factory of a scanner at a time: the store does not check  *)
(* that a key is new (put), so two of them would share the scans between   *)
(* them.  (After the store has let one go, a new one is made.)             *)
OneFactory ==
    \A i, j \in DOMAIN factories : factories[i].key = factories[j].key => i = j

\* A hit counts for its handler if it is within the range of the rule.
Counts(h, hit) ==
    /\ Rules[hit.id].handler = h
    /\ hit.offset \in Rules[hit.id].from .. Rules[hit.id].to

\* The hits that count for a handler among the first k, and its score then.
SoFar(hits, k, h) == {hit \in {hits[i] : i \in 1 .. k} : Counts(h, hit)}
ScoreAfter(hits, k, h) == Initial[h] + Score[h] * Cardinality(SoFar(hits, k, h))

\* The search looks at n hits: the first after which a score is 100 is the last.
Sure(hits, k) == \E h \in ToSet(Handlers) : ScoreAfter(hits, k, h) >= 100
Ends(hits, n) ==
    /\ \A k \in 1 .. n - 1 : ~Sure(hits, k)
    /\ n = Len(hits) \/ (n > 0 /\ Sure(hits, n))

(* "If a score is bigger or equal to 100% it wins automatically. Otherwise *)
(* the highest score wins" (Magic.py): the first handler that the hits, in *)
(* their order, bring to 100 wins, whatever those after it would add for   *)
(* another; without one, the handler that all hits together rate highest.  *)
(* What score() gives alone ends no search before its first hit.           *)
BestTypeWins ==
    LET hits == Hits(scan.data)
    IN  scan.pc = "typed" =>
            \E n \in 0 .. Len(hits) :
                /\ Ends(hits, n)
                /\ \A h \in ToSet(Handlers) :
                      ScoreAfter(hits, n, h) <= ScoreAfter(hits, n, scan.type)
=============================================================================
