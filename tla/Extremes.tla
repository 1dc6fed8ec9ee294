------------------------------- MODULE Extremes -------------------------------
(***************************************************************************)
(* The least and the greatest number of a set: what the proofs about       *)
(* counters and positions use in the place of induction.                   *)
(***************************************************************************)
EXTENDS Integers, WellFoundedInduction, TLAPS

\* Every set of naturals has a least element: a counterexample with the smallest
\* number is where an inductive argument starts.
LEMMA LeastExists ==
  ASSUME NEW S \in SUBSET Nat, S # {}
  PROVE  \E n \in S : \A k \in S : n <= k
<1>1. PICK n \in S : \A k \in S : ~(<<k, n>> \in OpToRel(<, Nat))
  BY NatLessThanWellFounded, WFMin
<1>2. \A k \in S : ~(k < n)
  BY <1>1 DEF OpToRel
<1> QED BY <1>2

\* A set of positions up to n has a last one.
LEMMA GreatestExists ==
  ASSUME NEW n \in Nat, NEW S \in SUBSET (0 .. n), S # {}
  PROVE  \E i \in S : \A j \in S : j <= i
<1> DEFINE T == {k \in Nat : n - k \in S}
<1>1. T # {}
  <2>1. PICK i \in S : TRUE
    OBVIOUS
  <2>2. n - i \in Nat /\ n - (n - i) = i
    BY <2>1
  <2> QED BY <2>1, <2>2
<1>2. PICK k \in T : \A l \in T : k <= l
  BY <1>1, LeastExists
<1>3. ASSUME NEW j \in S PROVE j <= n - k
  <2>1. n - j \in T
    <3>1. n - j \in Nat /\ n - (n - j) = j
      OBVIOUS
    <3> QED BY <3>1
  <2> QED BY <1>2, <2>1
<1> QED BY <1>2, <1>3
=============================================================================
