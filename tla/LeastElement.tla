------------------------------ MODULE LeastElement ------------------------------
(***************************************************************************)
(* Every set of natural numbers that is not empty has a least element: the *)
(* form of induction the proofs of this project use.                       *)
(***************************************************************************)
EXTENDS Integers, FiniteSetTheorems, TLAPS

\* The intervals below the elements are finite sets, well-founded under inclusion.
LEMMA Least ==
    ASSUME NEW S \in SUBSET Nat, S # {}
    PROVE  \E x \in S : \A y \in S : x <= y
<1> DEFINE Below == { 0..n : n \in S }
<1>1. Below \subseteq FiniteSubsetsOf(Nat) /\ Below # {}
    <2>1. \A n \in S : 0..n \subseteq Nat /\ IsFiniteSet(0..n)
        BY FS_Interval
    <2>2. QED
        BY <2>1 DEF FiniteSubsetsOf
<1>2. PICK b \in Below : \A c \in Below : <<c, b>> \notin StrictSubsetOrdering(Nat)
    <2> HIDE DEF Below
    <2>1. QED
        BY <1>1, FS_StrictSubsetOrderingWellFounded, WFMin
<1>3. PICK x \in S : b = 0..x
    OBVIOUS
<1>4. ASSUME NEW y \in S, y < x
      PROVE  FALSE
    <2>1. 0..y \subseteq 0..x /\ x \in 0..x /\ x \notin 0..y
        BY <1>4
    <2>2. 0..y \in Below /\ 0..y \in SUBSET Nat /\ 0..x \in SUBSET Nat /\ 0..y # 0..x
        BY <2>1
    <2>3. <<0..y, 0..x>> \in StrictSubsetOrdering(Nat)
        BY <2>1, <2>2 DEF StrictSubsetOrdering
    <2>4. QED
        BY <1>2, <1>3, <2>2, <2>3
<1>5. QED
    BY <1>4

\* A set of natural numbers that has 0, and k whenever it has k - 1, up to n, has all up to n.
LEMMA UpTo ==
    ASSUME NEW n \in Nat, NEW S, 0 \in S, \A k \in 1..n : k - 1 \in S => k \in S
    PROVE  \A k \in 0..n : k \in S
<1> SUFFICES ASSUME NEW m \in 0..n, m \notin S
             PROVE  FALSE
    OBVIOUS
<1> DEFINE Out == { k \in 0..n : k \notin S }
<1>1. PICK x \in Out : \A y \in Out : x <= y
    <2>1. Out \in SUBSET Nat /\ Out # {}
        OBVIOUS
    <2> HIDE DEF Out
    <2>2. QED
        BY <2>1, Least
<1>2. x \in 1..n /\ x - 1 \in 0..n /\ x - 1 \notin Out
    BY <1>1
<1>3. QED
    BY <1>1, <1>2
=============================================================================
