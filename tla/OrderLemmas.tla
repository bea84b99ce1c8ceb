---------------------------- MODULE OrderLemmas ----------------------------
(***************************************************************************)
(* What the proofs of several components need of numbers and sequences:    *)
(* the least and the greatest of a set of ids, stamps or positions.        *)
(***************************************************************************)
EXTENDS Integers, SequenceTheorems, WellFoundedInduction, TLAPS

(* A nonempty set of numbers has a least one.                                *)
LEMMA LeastNat ==
    ASSUME NEW T, T \subseteq Nat, T # {}
    PROVE  \E x \in T : \A y \in T : x <= y
<1> DEFINE R == OpToRel(<, Nat)
<1>1. IsWellFoundedOn(R, Nat)
    BY NatLessThanWellFounded
<1>2. \A x, y \in Nat : <<y, x>> \in R <=> y < x
    BY Zenon DEF OpToRel
<1> HIDE DEF R
<1>3. \E x \in T : \A y \in T : ~ (<<y, x>> \in R)
    BY <1>1, WFMin
<1>4. PICK x \in T : \A y \in T : ~ (<<y, x>> \in R)
    BY <1>3
<1>5. ASSUME NEW y \in T PROVE x <= y
    <2>1. x \in Nat /\ y \in Nat /\ ~ (<<y, x>> \in R)
        BY <1>4
    <2>2. ~ (y < x)
        BY <1>2, <2>1, Zenon
    <2> QED BY <2>1, <2>2
<1> QED BY <1>5

(* A nonempty set of numbers below a bound has a greatest one. *)
LEMMA GreatestNat ==
    ASSUME NEW T, T \subseteq Nat, T # {}, NEW n \in Nat, \A x \in T : x <= n
    PROVE  \E x \in T : \A y \in T : y <= x
<1> DEFINE U == {u \in Nat : \A x \in T : x <= u}
<1>1. U \subseteq Nat /\ U # {}
    OBVIOUS
<1> HIDE DEF U
<1>2. PICK u \in U : \A v \in U : u <= v
    BY <1>1, LeastNat
<1>3. u \in Nat /\ \A x \in T : x <= u
    BY <1>2 DEF U
<1>4. CASE u \in T
    BY <1>3, <1>4
<1>5. CASE u \notin T
  <2>1. \A x \in T : x \in Nat /\ x < u
      BY <1>3, <1>5
  <2>2. u - 1 \in Nat /\ \A x \in T : x <= u - 1
    <3>1. PICK x \in T : x \in Nat /\ x < u
        BY <2>1
    <3> QED BY <1>3, <2>1, <3>1
  <2>3. u - 1 \in U
      BY <2>2 DEF U
  <2> QED BY <1>2, <1>3, <2>3
<1> QED BY <1>4, <1>5

(* A sequence over a set is one over any set that holds its elements. *)
LEMMA SeqOfElements ==
    ASSUME NEW S, NEW T, NEW s \in Seq(S), \A i \in 1..Len(s) : s[i] \in T
    PROVE  s \in Seq(T)
<1>1. Len(s) \in Nat /\ s \in [1..Len(s) -> S]
    BY LenProperties
<1>2. s \in [1..Len(s) -> T]
    BY <1>1
<1> QED BY <1>1, <1>2, SeqDef
=============================================================================
