-------------------------- MODULE ArithmeticLemmas --------------------------
(***************************************************************************)
(* Facts about numbers that the proofs of LayerPartition and TensorCodec   *)
(* share.  Induction is stated over sets rather than over predicates: the  *)
(* provers can instantiate a set.                                          *)
(***************************************************************************)
EXTENDS Integers, FiniteSetsExt, TLAPS, WellFoundedInduction

\* A nonempty set of natural numbers has a least element, which Min returns.
LEMMA MinOfNats ==
  ASSUME NEW S \in SUBSET Nat, S # {}
  PROVE  Min(S) \in S /\ \A y \in S : Min(S) <= y
<1>1. PICK x \in S : \A y \in S : <<y, x>> \notin OpToRel(<, Nat)
  BY NatLessThanWellFounded, WFMin
<1>2. \A y \in S : x <= y
  <2>1. SUFFICES ASSUME NEW y \in S, y < x PROVE FALSE
    OBVIOUS
  <2>2. <<y, x>> \in OpToRel(<, Nat)
    BY <2>1 DEF OpToRel
  <2> QED BY <1>1, <2>2
<1> QED BY <1>2 DEF Min

\* The larger one of two natural numbers.
LEMMA MaxOfTwo ==
  ASSUME NEW a \in Nat, NEW b \in Nat
  PROVE  Max({a, b}) \in Nat /\ Max({a, b}) = IF a >= b THEN a ELSE b
<1>1. \E x \in {a, b} : \A y \in {a, b} : x >= y
  <2>1. CASE a >= b  BY <2>1
  <2>2. CASE b > a   BY <2>2
  <2> QED BY <2>1, <2>2
<1> QED BY <1>1 DEF Max

\* Induction up to n.
LEMMA InductionUpTo ==
  ASSUME NEW n \in Nat, NEW S, 0 \in S, \A m \in 0 .. n : m < n /\ m \in S => m + 1 \in S
  PROVE  \A m \in 0 .. n : m \in S
<1> DEFINE Missing == {m \in 0 .. n : m \notin S}
<1>1. SUFFICES ASSUME Missing # {} PROVE FALSE
  OBVIOUS
<1>2. Missing \in SUBSET Nat
  OBVIOUS
<1>3. PICK m \in Missing : \A k \in Missing : m <= k
  BY <1>1, <1>2, MinOfNats
<1>4. m # 0 /\ m \in 0 .. n /\ m \notin S
  BY <1>3
<1>5. m - 1 \in 0 .. n /\ m - 1 < n /\ (m - 1) + 1 = m
  BY <1>4
<1>6. m - 1 \notin Missing
  BY <1>3, <1>4
<1> QED BY <1>4, <1>5, <1>6

\* Products of natural numbers grow with their factors.
LEMMA ProductGrows ==
  ASSUME NEW a \in Nat, NEW b \in Nat, NEW c \in Nat
  PROVE  /\ a <= b => a * c <= b * c
         /\ a < b /\ c > 0 => a * c < b * c
         /\ (a + b) * c = a * c + b * c
         /\ a * c \in Nat
  OBVIOUS

\* Quotients of natural numbers grow with the dividend.
LEMMA QuotientGrows ==
  ASSUME NEW a \in Nat, NEW b \in Nat, NEW p \in Nat \ {0}, a <= b
  PROVE  a \div p \in Nat /\ a \div p <= b \div p
<1> DEFINE q == a \div p
           r == b \div p
<1>1. q \in Nat /\ p * q <= a /\ r \in Nat /\ b < p * r + p
  OBVIOUS
<1> HIDE DEF q, r
<1>2. SUFFICES ASSUME r < q PROVE FALSE
  BY <1>1 DEF q, r
<1>3. (r + 1) * p <= q * p /\ (r + 1) * p = p * r + p /\ q * p = p * q
  BY <1>1, <1>2, ProductGrows
<1> QED BY <1>1, <1>3
=============================================================================
