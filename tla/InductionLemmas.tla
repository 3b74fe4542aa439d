-------------------------- MODULE InductionLemmas --------------------------
(***************************************************************************)
(* The two facts the proofs about recursive functions rest on: a set of    *)
(* naturals has a least element, and what is defined step by step exists.  *)
(***************************************************************************)
EXTENDS Integers, WellFoundedInduction, TLAPS

\* A set of naturals that is not empty has a least element.
LEMMA LeastNatural ==
  ASSUME NEW T, T \subseteq Nat, T # {}
  PROVE  \E x \in T : \A y \in T : x <= y
<1> DEFINE R == OpToRel(<, Nat)
<1>1. IsWellFoundedOn(R, Nat)
  BY NatLessThanWellFounded
<1>2. \E x \in T : \A y \in T : <<y, x>> \notin R
  <2> HIDE DEF R
  <2> QED BY <1>1, WFMin
<1>3. \A x, y \in Nat : y < x => <<y, x>> \in R
  BY DEF OpToRel
<1> HIDE DEF R
<1>4. PICK x \in T : \A y \in T : <<y, x>> \notin R
  BY <1>2
<1>5. ASSUME NEW y \in T PROVE x <= y
  <2>1. x \in Nat /\ y \in Nat /\ ~(y < x)
    BY <1>3, <1>4
  <2> QED BY <2>1
<1> QED BY <1>5

\* The functions on 0..n whose value at 0 is start, and that F takes on from there.
Stepwise(n, S, start, F) ==
  {g \in [0..n -> S] : g[0] = start /\ \A i \in 1..n : g[i] = F[<<i, g[i - 1]>>]}

\* What is defined step by step exists: a walk along a path, what jq reads on
\* the way, a query's operands.
LEMMA StepwiseExists ==
  ASSUME NEW n \in Nat, NEW S, NEW start \in S, NEW F \in [(1..n) \X S -> S]
  PROVE  Stepwise(n, S, start, F) # {}
<1> DEFINE Upto(m) ==
      \E g \in [0..m -> S] : g[0] = start /\ \A i \in 1..m : g[i] = F[<<i, g[i - 1]>>]
           Short == {m \in 0..n : ~Upto(m)}
<1>1. Upto(0)
  <2> DEFINE g == [i \in 0..0 |-> start]
  <2>1. g \in [0..0 -> S] /\ g[0] = start /\ \A i \in 1..0 : g[i] = F[<<i, g[i - 1]>>]
    OBVIOUS
  <2> QED BY <2>1
<1>2. ASSUME NEW m \in 1..n, Upto(m - 1) PROVE Upto(m)
  <2>1. PICK g \in [0..(m - 1) -> S] :
          g[0] = start /\ \A i \in 1..(m - 1) : g[i] = F[<<i, g[i - 1]>>]
    BY <1>2
  <2> DEFINE h == [i \in 0..m |-> IF i = m THEN F[<<m, g[m - 1]>>] ELSE g[i]]
  <2>2. g[m - 1] \in S /\ F[<<m, g[m - 1]>>] \in S
    <3>1. m - 1 \in 0..(m - 1)
      OBVIOUS
    <3>2. g[m - 1] \in S
      BY <2>1, <3>1
    <3>3. <<m, g[m - 1]>> \in (1..n) \X S
      BY <3>2
    <3> QED BY <3>2, <3>3
  <2>3. h \in [0..m -> S] /\ h[0] = start
    BY <2>1, <2>2
  <2>4. ASSUME NEW i \in 1..m PROVE h[i] = F[<<i, h[i - 1]>>]
    <3>1. h[i - 1] = g[i - 1]
      OBVIOUS
    <3>2. CASE i = m
      <4>1. h[i] = F[<<m, g[m - 1]>>]
        BY <3>2
      <4> QED BY <3>1, <3>2, <4>1
    <3>3. CASE i # m
      <4>1. i \in 1..(m - 1) /\ h[i] = g[i]
        BY <3>3
      <4> QED BY <2>1, <3>1, <4>1
    <3> QED BY <3>2, <3>3
  <2> QED BY <2>3, <2>4
<1>3. Short = {}
  <2> HIDE DEF Upto
  <2>1. SUFFICES ASSUME Short # {} PROVE FALSE
    OBVIOUS
  <2>2. PICK m \in Short : \A k \in Short : m <= k
    <3>1. Short \subseteq Nat
      OBVIOUS
    <3> HIDE DEF Short
    <3> QED BY <2>1, <3>1, LeastNatural
  <2>3. m # 0
    BY <1>1, <2>2
  <2>4. m - 1 \in 0..n /\ m - 1 \notin Short
    BY <2>2, <2>3
  <2> QED BY <1>2, <2>2, <2>3, <2>4
<1> HIDE DEF Upto
<1>4. Upto(n)
  BY <1>3
<1> QED BY <1>4 DEF Upto, Stepwise
=============================================================================
