----------------------------- MODULE SetLemmas -----------------------------
(* Facts about quotients, and maxima and cardinalities of sets of          *)
(* naturals, with no program in them, that the proofs of this project      *)
(* rest on.                                                                *)
EXTENDS Integers, FiniteSets, FiniteSetsExt, FiniteSetTheorems,
        WellFoundedInduction, TLAPS

\* The least-number principle: a set of naturals that is not empty has a least
\* element.
LEMMA LeastNatural ==
  ASSUME NEW S \in SUBSET Nat, S # {}
  PROVE  \E n \in S : \A m \in S : n <= m
<1> DEFINE R == {p \in Nat \X Nat : p[1] < p[2]}
<1>1. IsWellFoundedOn(R, Nat)
  BY NatLessThanWellFounded DEF OpToRel
<1>2. PICK n \in S : \A m \in S : ~ (<<m, n>> \in R)
  <2> HIDE DEF R
  <2> QED  BY <1>1, WFMin
<1>3. ASSUME NEW m \in S PROVE n <= m
  <2>1. m \in Nat /\ n \in Nat
    OBVIOUS
  <2>2. <<m, n>> \notin R
    BY <1>2
  <2>3. ~ (m < n)
    BY <2>1, <2>2
  <2> QED  BY <2>1, <2>3
<1> QED  BY <1>3

\* What Min returns on a set of naturals that is not empty: its least element.
LEMMA MinIsLeast ==
  ASSUME NEW S \in SUBSET Nat, S # {}
  PROVE  Min(S) \in S /\ \A m \in S : Min(S) <= m
<1>1. \E x \in S : \A y \in S : x <= y
  BY LeastNatural
<1> QED  BY <1>1 DEF Min

\* What Max returns on a bounded set of naturals: its largest element.
LEMMA MaxIsLargest ==
  ASSUME NEW b \in Nat, NEW S \in SUBSET (0..b), S # {}
  PROVE  Max(S) \in S /\ \A m \in S : m <= Max(S)
<1> DEFINE U == {n \in Nat : \A m \in S : m <= n}
<1>1. U \in SUBSET Nat /\ b \in U
  OBVIOUS
<1>2. PICK n \in U : \A m \in U : n <= m
  <2> HIDE DEF U
  <2> QED  BY <1>1, LeastNatural
<1>3. n \in S
  <2> SUFFICES ASSUME n \notin S PROVE FALSE
    OBVIOUS
  <2>1. PICK x \in S : TRUE
    OBVIOUS
  <2>2. n \in Nat /\ \A m \in S : m \in Nat /\ m <= n /\ m # n
    OBVIOUS
  <2>3. n - 1 \in Nat /\ \A m \in S : m <= n - 1
    BY <2>1, <2>2
  <2>4. n - 1 \in U
    BY <2>3
  <2> QED  BY <1>2, <2>2, <2>4
<1>4. \E x \in S : \A y \in S : x >= y
  BY <1>2, <1>3
<1> QED  BY <1>4 DEF Max

\* The quotient of naturals, and how it grows with the dividend.
LEMMA QuotientIsNatural ==
  ASSUME NEW p \in Nat \ {0}, NEW a \in Nat
  PROVE  a \div p \in Nat
OBVIOUS

LEMMA QuotientGrows ==
  ASSUME NEW p \in Nat \ {0}, NEW a \in Nat, NEW b \in Nat
  PROVE  /\ a <= b => a \div p <= b \div p
         /\ a + p <= b => (a \div p) + 1 <= b \div p
<1>1. (a + p) \div p = (a \div p) + 1
  OBVIOUS
<1>2. a <= b => a \div p <= b \div p
  OBVIOUS
<1>3. a + p <= b => (a + p) \div p <= b \div p
  OBVIOUS
<1> QED  BY <1>1, <1>2, <1>3
=============================================================================
