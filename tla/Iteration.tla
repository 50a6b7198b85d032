----------------------------- MODULE Iteration ------------------------------
(***************************************************************************)
(* Induction for the loops that the models write as recursive functions on *)
(* 0 .. n.  A module that proves something of such a loop instantiates     *)
(* this one with the body of the loop and with what the loop keeps.        *)
(***************************************************************************)
EXTENDS Integers, WellFoundedInduction, TLAPS

CONSTANTS
    Step(_, _, _),  \* the body: what turn k makes of x, given the parameter p
    Holds(_, _, _)  \* Holds(p, k, x): what is true of x after k turns

\* The n-th value, as the LET of a recursive function gives it.
Iterate(p, s, n) ==
    LET after[k \in 0 .. n] == IF k = 0 THEN s ELSE Step(after[k - 1], k, p)
    IN  after[n]

\* f is that recursive function.
Follows(f, p, s, n) == f = [k \in 0 .. n |-> IF k = 0 THEN s ELSE Step(f[k - 1], k, p)]

\* A set of natural numbers that is not empty has a least element.
LEMMA LeastNumber ==
    ASSUME NEW T, T \subseteq Nat, T # {}
    PROVE  \E x \in T : \A y \in T : x <= y
  <1>1. PICK x \in T : \A y \in T : ~ (<<y, x>> \in OpToRel(<, Nat))
    BY WFMin, NatLessThanWellFounded
  <1>2. \A y \in T : ~ (y < x)
    BY <1>1 DEF OpToRel
  <1> QED BY <1>2

\* There is such a function: one for m - 1 turns extends to m.
LEMMA FunctionExists ==
    ASSUME NEW p, NEW s, NEW n \in Nat
    PROVE  \E f : Follows(f, p, s, n)
  <1> DEFINE T == {m \in Nat : ~ \E f : Follows(f, p, s, m)}
  <1> SUFFICES ASSUME n \in T PROVE FALSE
    OBVIOUS
  <1>1. PICK m \in T : \A y \in T : m <= y
    <2>1. T \subseteq Nat /\ T # {}
      OBVIOUS
    <2> HIDE DEF T
    <2> QED BY <2>1, LeastNumber
  <1>2. m # 0
    <2>1. Follows([k \in 0 .. 0 |-> s], p, s, 0)
      BY DEF Follows
    <2> QED BY <2>1
  <1>3. PICK g : Follows(g, p, s, m - 1)
    BY <1>1, <1>2
  <1> DEFINE h == [k \in 0 .. m |-> IF k = m THEN Step(g[m - 1], m, p) ELSE g[k]]
  <1>4. ASSUME NEW k \in 0 .. m
        PROVE  h[k] = IF k = 0 THEN s ELSE Step(h[k - 1], k, p)
    <2>1. CASE k = m
      BY <1>2, <2>1
    <2>2. CASE k # m
      <3>1. g[k] = IF k = 0 THEN s ELSE Step(g[k - 1], k, p)
        BY <1>3, <2>2 DEF Follows
      <3> QED BY <2>2, <3>1
    <2> QED BY <2>1, <2>2
  <1>5. h = [k \in 0 .. m |-> h[k]]
    OBVIOUS
  <1>6. Follows(h, p, s, m)
    <2> HIDE DEF h
    <2> QED BY <1>4, <1>5 DEF Follows
  <1> QED BY <1>6

\* What is true at the start and kept by every turn is true at the end.
LEMMA IterateHolds ==
    ASSUME NEW p, NEW s, NEW n \in Nat, Holds(p, 0, s),
           \A k \in 1 .. n : \A x : Holds(p, k - 1, x) => Holds(p, k, Step(x, k, p))
    PROVE  Holds(p, n, Iterate(p, s, n))
  <1> DEFINE f == CHOOSE f : Follows(f, p, s, n)
             T == {k \in 0 .. n : ~Holds(p, k, f[k])}
  <1>1. Iterate(p, s, n) = f[n]
    BY DEF Iterate, Follows
  <1>2. Follows(f, p, s, n)
    BY FunctionExists
  <1> HIDE DEF f
  <1>3. \A k \in 0 .. n : f[k] = IF k = 0 THEN s ELSE Step(f[k - 1], k, p)
    BY <1>2 DEF Follows
  <1>4. T = {}
    <2> SUFFICES ASSUME T # {} PROVE FALSE
      OBVIOUS
    <2>1. PICK k \in T : \A y \in T : k <= y
      <3>1. T \subseteq Nat
        OBVIOUS
      <3> HIDE DEF T
      <3> QED BY <3>1, LeastNumber
    <2>2. k # 0
      BY <1>3
    <2>3. Holds(p, k - 1, f[k - 1])
      BY <2>1, <2>2
    <2>4. Holds(p, k, Step(f[k - 1], k, p))
      BY <2>2, <2>3
    <2> QED BY <1>3, <2>2, <2>4
  <1> QED BY <1>1, <1>4
=============================================================================
