------------------------ MODULE IntervalInduction ------------------------
(***************************************************************************)
(* Induction over an interval as a fact about sets.  The induction         *)
(* theorems of the library take a predicate, which cannot be instantiated  *)
(* by the provers at hand; the set of the numbers that satisfy it can.     *)
(***************************************************************************)
EXTENDS WellFoundedInduction, TLAPS

\* Every set of naturals that is not empty has a smallest element.
LEMMA SmallestElement ==
    ASSUME NEW T, T \subseteq Nat, T # {}
    PROVE  \E m \in T : \A k \in T : m <= k
<1> DEFINE R == {p \in Nat \X Nat : p[1] < p[2]}
<1>1. IsWellFoundedOn(R, Nat)  BY NatLessThanWellFounded DEF OpToRel
<1>2. \A x, y \in Nat : x < y => <<x, y>> \in R  OBVIOUS
<1> HIDE DEF R
<1>3. PICK m \in T : \A k \in T : <<k, m>> \notin R  BY <1>1, WFMin
<1>4. \A k \in T : ~(k < m)  BY <1>2, <1>3
<1>5. \A k \in T : m <= k  BY <1>4
<1> QED  BY <1>5

\* A set that holds the first number of an interval, and the next of each it holds but
\* the last, holds the interval.
LEMMA IntervalInduction ==
    ASSUME NEW first \in Int, NEW last \in Int, NEW S,
           first \in S, \A i \in first..last - 1 : i \in S => i + 1 \in S
    PROVE  \A i \in first..last : i \in S
<1> SUFFICES ASSUME NEW j \in first..last, j \notin S PROVE FALSE  OBVIOUS
<1> DEFINE T == {n \in Nat : first + n <= last /\ first + n \notin S}
<1>1. j - first \in T  OBVIOUS
<1>2. PICK m \in T : \A k \in T : m <= k
  <2> HIDE DEF T
  <2>1. T \subseteq Nat  BY DEF T
  <2> QED  BY <1>1, <2>1, SmallestElement
<1>3. m # 0  OBVIOUS
<1>4. m - 1 \notin T  BY <1>2
<1>5. first + (m - 1) \in S /\ first + (m - 1) \in first..last - 1  BY <1>3, <1>4
<1> QED  BY <1>5
=============================================================================
