------------------------------ MODULE Extrema -------------------------------
(***************************************************************************)
(* Min and Max of a set of numbers are what their names say.               *)
(***************************************************************************)
EXTENDS Naturals, FiniteSetsExt, WellFoundedInduction, TLAPS

LEMMA MinExists ==
    ASSUME NEW S \in SUBSET Nat, S # {}
    PROVE  \E m \in S : \A j \in S : m <= j
  <1>1. PICK m \in S : \A j \in S : ~(<<j, m>> \in OpToRel(<, Nat))
    BY NatLessThanWellFounded, WFMin
  <1>2. \A j \in S : ~(j < m)
    BY <1>1 DEF OpToRel
  <1>3. QED
    BY <1>2

LEMMA MaxExists ==
    ASSUME NEW n \in Nat, NEW S \in SUBSET (0 .. n), S # {}
    PROVE  \E m \in S : \A j \in S : j <= m
  <1> DEFINE T == {n - i : i \in S}
  <1>1. T # {}
    OBVIOUS
  <1>2. T \in SUBSET Nat
    <2>1. \A i \in S : i \in 0 .. n
      OBVIOUS
    <2>2. \A i \in S : n - i \in Nat
      BY <2>1
    <2>3. QED
      BY <2>2
  <1>3. PICK x \in T : \A y \in T : x <= y
    BY <1>1, <1>2, MinExists
  <1>4. PICK m \in S : x = n - m
    BY <1>3
  <1>5. \A j \in S : n - m <= n - j
    BY <1>3, <1>4
  <1>6. QED
    BY <1>5

LEMMA MinIsLeast ==
    ASSUME NEW S \in SUBSET Nat, S # {}
    PROVE  Min(S) \in S /\ \A j \in S : Min(S) <= j
  BY MinExists DEF Min

LEMMA MaxIsGreatest ==
    ASSUME NEW n \in Nat, NEW S \in SUBSET (0 .. n), S # {}
    PROVE  Max(S) \in S /\ \A j \in S : j <= Max(S)
  <1>1. \E m \in S : \A j \in S : m >= j
    BY MaxExists
  <1>2. QED
    BY <1>1 DEF Max

=============================================================================
