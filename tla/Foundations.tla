---------------------------- MODULE Foundations -----------------------------
(***************************************************************************)
(* What the other proofs start from: quorums of a validator set of any     *)
(* size, and induction over the natural numbers.                           *)
(***************************************************************************)
EXTENDS ValidatorSet, FiniteSetTheorems, WellFoundedInduction, TLAPS

-----------------------------------------------------------------------------
(* Quorums.                                                                *)

\* The arithmetic of ValidatorSet::bft: a quorum is at least one validator and
\* at most all, and two quorums together exceed n by more than f.
LEMMA ThresholdArithmetic ==
    ASSUME NEW S, IsFiniteSet(S), S # {}
    PROVE  /\ Cardinality(S) \in Nat \ {0}
           /\ Bft(S) \in 1..Cardinality(S)
           /\ MaxFaulty(S) \in Nat
           /\ Bft(S) > MaxFaulty(S)
           /\ 2 * Bft(S) > Cardinality(S) + MaxFaulty(S)
<1>1. Cardinality(S) \in Nat /\ Cardinality(S) # 0
  BY FS_CardinalityType, FS_EmptySet
<1>2. QED
  BY <1>1, SMT DEF Bft, MaxFaulty

\* Two quorums of one set share a validator that is not among the faulty ones,
\* as long as these are no more than the f that ValidatorSet::bft allows for.
THEOREM QuorumIntersection ==
    ASSUME NEW S, IsFiniteSet(S), S # {},
           NEW B, Cardinality(S \cap B) <= MaxFaulty(S),
           NEW P \in SUBSET S, NEW Q \in SUBSET S,
           Cardinality(P) >= Bft(S), Cardinality(Q) >= Bft(S)
    PROVE  \E x \in P \cap Q : x \notin B
<1>1. /\ IsFiniteSet(P) /\ IsFiniteSet(Q)
      /\ IsFiniteSet(P \cup Q) /\ IsFiniteSet(P \cap Q) /\ IsFiniteSet(S \cap B)
  BY FS_Subset, P \cup Q \in SUBSET S, P \cap Q \in SUBSET S, S \cap B \in SUBSET S
<1>2. /\ Cardinality(P) \in Nat /\ Cardinality(Q) \in Nat /\ Cardinality(S) \in Nat
      /\ Cardinality(P \cup Q) \in Nat /\ Cardinality(P \cap Q) \in Nat
      /\ Cardinality(S \cap B) \in Nat
  BY <1>1, FS_CardinalityType
<1>3. Cardinality(P \cup Q) <= Cardinality(S)
  BY FS_Subset, P \cup Q \in SUBSET S
<1>4. Cardinality(P \cup Q) =
        Cardinality(P) + Cardinality(Q) - Cardinality(P \cap Q)
  BY <1>1, FS_Union
<1>5. Cardinality(P \cap Q) > Cardinality(S \cap B)
  <2>1. /\ Bft(S) \in Nat /\ MaxFaulty(S) \in Nat
        /\ 2 * Bft(S) > Cardinality(S) + MaxFaulty(S)
    BY ThresholdArithmetic
  <2>2. QED
    BY <1>2, <1>3, <1>4, <2>1, SMT
<1>6. ASSUME P \cap Q \subseteq B PROVE FALSE
  <2>1. P \cap Q \in SUBSET (S \cap B)
    BY <1>6
  <2>2. Cardinality(P \cap Q) <= Cardinality(S \cap B)
    BY <1>1, <2>1, FS_Subset
  <2>3. QED
    BY <1>2, <1>5, <2>2, SMT
<1>7. QED
  BY <1>6

\* A quorum holds a validator that is not faulty.
THEOREM QuorumHasCorrect ==
    ASSUME NEW S, IsFiniteSet(S), S # {},
           NEW B, Cardinality(S \cap B) <= MaxFaulty(S),
           NEW Q \in SUBSET S, Cardinality(Q) >= Bft(S)
    PROVE  \E x \in Q : x \notin B
BY QuorumIntersection

-----------------------------------------------------------------------------
(* Induction.                                                              *)

\* Every non-empty set of natural numbers has a least element.
LEMMA LeastNatural ==
    ASSUME NEW T, T \subseteq Nat, T # {}
    PROVE  \E x \in T : \A y \in T : x <= y
<1> DEFINE R == {ss \in Nat \X Nat : ss[1] < ss[2]}
<1>1. IsWellFoundedOn(R, Nat)
  BY NatLessThanWellFounded DEF OpToRel
<1> HIDE DEF R
<1>2. PICK x \in T : \A y \in T : ~ (<<y, x>> \in R)
  BY <1>1, WFMin, Zenon
<1>3. ASSUME NEW y \in T PROVE x <= y
  <2>1. x \in Nat /\ y \in Nat
    OBVIOUS
  <2>2. y < x => <<y, x>> \in R
    BY <2>1 DEF R
  <2>3. QED
    BY <1>2, <2>1, <2>2
<1>4. QED
  BY <1>3

\* A set that holds 0, and with every number the next one up to n, holds all
\* numbers up to n.
LEMMA Induction ==
    ASSUME NEW n \in Nat, NEW T, 0 \in T,
           \A i \in 0..n - 1 : i \in T => i + 1 \in T
    PROVE  \A i \in 0..n : i \in T
<1> SUFFICES ASSUME ~(\A i \in 0..n : i \in T) PROVE FALSE
  OBVIOUS
<1> DEFINE F == {i \in 0..n : i \notin T}
<1>1. F \subseteq Nat /\ F # {}
  OBVIOUS
<1> HIDE DEF F
<1>2. PICK x \in F : \A y \in F : x <= y
  BY <1>1, LeastNatural, Zenon
<1>3. x \in 0..n /\ x \notin T
  BY DEF F
<1>4. x - 1 \in 0..n - 1 /\ x - 1 < x /\ (x - 1) + 1 = x
  BY <1>3
<1>5. x - 1 \in T
  BY <1>2, <1>4 DEF F
<1> QED BY <1>3, <1>4, <1>5
=============================================================================
