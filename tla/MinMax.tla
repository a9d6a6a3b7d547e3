------------------------------- MODULE MinMax -------------------------------
(***************************************************************************)
(* Least and greatest elements: what Min and Max of FiniteSetsExt, by      *)
(* which the models say where a loop of the code stops, are.               *)
(***************************************************************************)
EXTENDS Integers, FiniteSetsExt, FiniteSetTheorems, WellFoundedInduction, TLAPS

(* Every set of naturals that is not empty has a least element: its finite *)
(* subsets are well-founded, so one of the sets of smaller elements is     *)
(* minimal.                                                                *)
LEMMA MinIsLeast ==
    ASSUME NEW S, S \subseteq Nat, S # {}
    PROVE  Min(S) \in S /\ \A y \in S : Min(S) <= y
<1> DEFINE Before(x) == {y \in S : y < x}
           R == StrictSubsetOrdering(S)
           T == {Before(x) : x \in S}
<1>1. T \subseteq FiniteSubsetsOf(S)
  <2>1. \A x \in S : IsFiniteSet(Before(x))
    <3> SUFFICES ASSUME NEW x \in S
                 PROVE  IsFiniteSet(Before(x))
      OBVIOUS
    <3>1. Before(x) \subseteq 0 .. x
      <4> SUFFICES ASSUME NEW y \in S, y < x
                   PROVE  y \in 0 .. x
        OBVIOUS
      <4>1. x \in Nat /\ y \in Nat
        OBVIOUS
      <4> QED
        BY <4>1
    <3>2. IsFiniteSet(0 .. x)
      BY FS_Interval
    <3> HIDE DEF Before
    <3> QED
      BY <3>1, <3>2, FS_Subset
  <2> QED
    BY <2>1 DEF FiniteSubsetsOf
<1>2. PICK B \in T : \A C \in T : ~(<<C, B>> \in R)
  <2>1. T # {}
    OBVIOUS
  <2> HIDE DEF T
  <2> QED
    BY <1>1, <2>1, FS_StrictSubsetOrderingWellFounded, WFMin
<1>3. PICK x \in S : B = Before(x)
  OBVIOUS
<1>4. \A y \in S : x <= y
  <2> SUFFICES ASSUME NEW y \in S, y < x
               PROVE  FALSE
    OBVIOUS
  <2>1. Before(y) \subseteq Before(x)
    <3> SUFFICES ASSUME NEW z \in S, z < y
                 PROVE  z < x
      OBVIOUS
    <3>1. x \in Nat /\ y \in Nat /\ z \in Nat
      OBVIOUS
    <3> QED
      BY <3>1
  <2>3. y \in Before(x) /\ y \notin Before(y)
    OBVIOUS
  <2>2. <<Before(y), B>> \in R
    BY <1>3, <2>1, <2>3 DEF StrictSubsetOrdering
  <2> QED
    BY <1>2, <2>2
<1> QED
  BY <1>4 DEF Min

(* A bounded one has a greatest element: the least when counted from the   *)
(* bound downwards.                                                        *)
LEMMA MaxIsGreatest ==
    ASSUME NEW S, S \subseteq Nat, S # {}, NEW b \in Nat, \A y \in S : y <= b
    PROVE  Max(S) \in S /\ \A y \in S : Max(S) >= y
<1> DEFINE T == {b - y : y \in S}
<1>1. T \subseteq Nat /\ T # {}
  <2>1. \A y \in S : b - y \in Nat
    <3> SUFFICES ASSUME NEW y \in S
                 PROVE  b - y \in Nat
      OBVIOUS
    <3>1. y \in Nat /\ y <= b
      OBVIOUS
    <3> QED
      BY <3>1
  <2> QED
    BY <2>1
<1> HIDE DEF T
<1>2. PICK m \in T : \A z \in T : m <= z
  BY <1>1, MinIsLeast
<1>3. PICK x \in S : m = b - x
  BY DEF T
<1>4. \A y \in S : x >= y
  <2> SUFFICES ASSUME NEW y \in S
               PROVE  x >= y
    OBVIOUS
  <2>1. b - y \in T
    BY DEF T
  <2>2. b - x <= b - y
    BY <1>2, <1>3, <2>1
  <2>3. x \in Nat /\ y \in Nat
    OBVIOUS
  <2> QED
    BY <2>2, <2>3
<1> QED
  BY <1>4 DEF Max
=============================================================================
