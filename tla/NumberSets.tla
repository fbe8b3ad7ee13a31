----------------------------- MODULE NumberSets -----------------------------
(***************************************************************************)
(* Least elements and induction over the natural numbers, in terms of sets *)
(* and not of predicates: the other proof modules use them for the loops   *)
(* and the sequences of the code.                                          *)
(***************************************************************************)
EXTENDS Integers, WellFoundedInduction, TLAPS

LessThan == OpToRel(<, Nat)

\* The relation of the library, written out.
LEMMA LessThanIsLess == \A m, n \in Nat : m < n => <<m, n>> \in LessThan
<1>1. LessThan = {mn \in Nat \X Nat : mn[1] < mn[2]}
  BY Zenon DEF LessThan, OpToRel
<1> QED BY <1>1

\* A set of numbers that has an element has a least one.
LEMMA LeastNumber ==
  ASSUME NEW S \in SUBSET Nat, S # {}
  PROVE  \E n \in S : \A m \in S : n <= m
<1>1. IsWellFoundedOn(LessThan, Nat)
  BY NatLessThanWellFounded DEF LessThan
<1>2. PICK n \in S : \A m \in S : ~(<<m, n>> \in LessThan)
  BY <1>1, WFMin
<1>3. ASSUME NEW m \in S PROVE n <= m
  <2>1. m \in Nat /\ n \in Nat
    OBVIOUS
  <2>2. ~(m < n)
    BY <1>2, <2>1, LessThanIsLess
  <2> QED BY <2>1, <2>2
<1> QED BY <1>3

\* A set that has 0, and with a number also the next one, has every number.
LEMMA Induction ==
  ASSUME NEW S, 0 \in S, \A n \in Nat : n \in S => n + 1 \in S
  PROVE  Nat \subseteq S
<1> SUFFICES ASSUME Nat \ S # {} PROVE FALSE
  OBVIOUS
<1>1. PICK n \in Nat \ S : \A m \in Nat \ S : n <= m
  <2> DEFINE T == Nat \ S
  <2>1. T \in SUBSET Nat /\ T # {}
    OBVIOUS
  <2> HIDE DEF T
  <2>2. \E n \in T : \A m \in T : n <= m
    BY <2>1, LeastNumber
  <2> QED BY <2>2 DEF T
<1>2. n \in Nat /\ n # 0
  BY <1>1
<1>3. n - 1 \in Nat /\ ~(n <= n - 1)
  BY <1>2
<1>4. n - 1 \in S
  BY <1>1, <1>3
<1> QED BY <1>1, <1>2, <1>3, <1>4
=============================================================================
