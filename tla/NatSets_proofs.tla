--------------------------- MODULE NatSets_proofs ---------------------------
(***************************************************************************)
(* What the other proofs need of sets of natural numbers: a least element, *)
(* and from it induction stated over sets, not over a parameter.           *)
(***************************************************************************)
EXTENDS Integers, WellFoundedInduction, TLAPS

\* Some well-founded relation holds the order of the natural numbers.
LEMMA OrderIsWellFounded ==
    \E R : IsWellFoundedOn(R, Nat) /\ \A x, y \in Nat : x < y => <<x, y>> \in R
<1>1. \A x, y \in Nat : x < y => <<x, y>> \in OpToRel(<, Nat)
  BY DEF OpToRel
<1> QED
  BY <1>1, NatLessThanWellFounded, Zenon

\* A set of natural numbers that is not empty has a least element.
LEMMA LeastElement ==
    ASSUME NEW S, S \subseteq Nat, S # {}
    PROVE  \E n \in S : \A m \in S : n <= m
<1>1. PICK R : IsWellFoundedOn(R, Nat) /\ \A x, y \in Nat : x < y => <<x, y>> \in R
  BY OrderIsWellFounded
<1>2. \A Rel, T, U : IsWellFoundedOn(Rel, T) /\ U \subseteq T /\ U # {} =>
                        \E x \in U : \A y \in U : ~(<<y, x>> \in Rel)
  <2> TAKE Rel, T, U
  <2> HAVE IsWellFoundedOn(Rel, T) /\ U \subseteq T /\ U # {}
  <2> QED
    BY WFMin
<1>3. \E x \in S : \A y \in S : ~(<<y, x>> \in R)
  <2>1. IsWellFoundedOn(R, Nat) /\ S \subseteq Nat /\ S # {} =>
            \E x \in S : \A y \in S : ~(<<y, x>> \in R)
    BY <1>2, Zenon
  <2> QED
    BY <1>1, <2>1, Zenon
<1>4. PICK x \in S : \A y \in S : ~(<<y, x>> \in R)
  BY <1>3, Zenon
<1>5. ASSUME NEW y \in S
      PROVE  x <= y
  <2>1. x \in Nat /\ y \in Nat
    OBVIOUS
  <2>2. ~(y < x)
    BY <1>1, <1>4, <2>1
  <2> QED
    BY <2>1, <2>2
<1> QED
  BY <1>5

\* Induction: a set that holds 0, and with a number the next one, holds them all.
LEMMA SetInduction ==
    ASSUME NEW S, 0 \in S, \A n \in Nat : n \in S => n + 1 \in S
    PROVE  Nat \subseteq S
<1> SUFFICES ASSUME Nat \ S # {}
             PROVE  FALSE
  OBVIOUS
<1>1. PICK n \in Nat \ S : \A m \in Nat \ S : n <= m
  BY LeastElement
<1>2. n # 0 /\ n - 1 \in Nat /\ n - 1 \in S
  BY <1>1
<1> QED
  BY <1>1, <1>2
=============================================================================
