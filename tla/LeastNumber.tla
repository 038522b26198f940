---------------------------- MODULE LeastNumber ----------------------------
(***************************************************************************)
(* The induction the proofs about sequences go by: a set of numbers that   *)
(* is not empty has a least one, so of all counterexamples there is one    *)
(* with none before it.                                                    *)
(***************************************************************************)
EXTENDS Integers, WellFoundedInduction, TLAPS

(* A set of numbers that is not empty has a least one. *)
LEMMA Least ==
  ASSUME NEW T \in SUBSET Nat, T # {}
  PROVE  \E x \in T : \A y \in T : x <= y
<1>1. PICK x \in T : \A y \in T : ~(<<y, x>> \in OpToRel(<, Nat))
  BY NatLessThanWellFounded, WFMin
<1>2. \A y \in T : ~(y < x)
  BY <1>1 DEF OpToRel
<1> QED
  BY <1>2
(* f is defined by recursion over 0 .. n, with the steps g.                *)
Recurs(f, n, b, g) == \A i \in 0 .. n : f[i] = IF i = 0 THEN b ELSE g[<<i, f[i - 1]>>]

(* A function defined by recursion over 0 .. n exists: of all n without    *)
(* one, the least would have one that goes one further than that of n - 1. *)
LEMMA Recursion ==
  ASSUME NEW S, NEW b \in S, NEW n \in Nat, NEW g \in [(1 .. n) \X S -> S]
  PROVE  \E f \in [0 .. n -> S] : Recurs(f, n, b, g)
<1> DEFINE Has(m) == \E f \in [0 .. m -> S] : Recurs(f, m, b, g)
           T == {m \in 0 .. n : ~Has(m)}
<1>1. SUFFICES ASSUME T # {} PROVE FALSE
  BY <1>1
<1>2. PICK m \in T : \A k \in T : m <= k
  <2>1. T \in SUBSET Nat
    OBVIOUS
  <2> HIDE DEF T
  <2> QED
    BY <1>1, <2>1, Least
<1>3. m # 0
  <2>1. [i \in 0 .. 0 |-> b] \in [0 .. 0 -> S]
    OBVIOUS
  <2>2. \A i \in 0 .. 0 : i = 0
    OBVIOUS
  <2>3. Has(0)
    BY <2>1, <2>2 DEF Recurs
  <2> QED
    BY <2>3
<1>4. Has(m - 1)
  <2>1. m - 1 \in 0 .. n /\ ~(m <= m - 1)
    BY <1>3
  <2> QED
    BY <1>2, <2>1
<1>5. PICK f \in [0 .. m - 1 -> S] :
             \A i \in 0 .. m - 1 : f[i] = IF i = 0 THEN b ELSE g[<<i, f[i - 1]>>]
  BY <1>4 DEF Recurs
<1> DEFINE h == [i \in 0 .. m |-> IF i = m THEN g[<<m, f[m - 1]>>] ELSE f[i]]
<1>6. h \in [0 .. m -> S]
  BY <1>3
<1>7. ASSUME NEW i \in 0 .. m
      PROVE  h[i] = IF i = 0 THEN b ELSE g[<<i, h[i - 1]>>]
  <2>1. i # 0 => h[i - 1] = f[i - 1]
    BY <1>3
  <2>2. CASE i = m
    BY <1>3, <2>1, <2>2
  <2>3. CASE i # m
    <3>1. i \in 0 .. m - 1 /\ h[i] = f[i]
      BY <2>3
    <3> QED
      BY <1>5, <2>1, <3>1
  <2> QED
    BY <2>2, <2>3
<1>8. Has(m)
  BY <1>6, <1>7 DEF Recurs
<1> QED
  BY <1>2, <1>8
=============================================================================
