-------------------------- MODULE EngineProperties --------------------------
(***************************************************************************)
(* What IndInv is for: from it follow, for every value of the constants    *)
(* that satisfies the assumptions of Engine,                               *)
(*   - agreement, one vote per round, certified blocks;                    *)
(*   - that Engine implements Ledger: what the nodes hold with             *)
(*     certificates that verify is a replicated log, and each node's       *)
(*     blocks are a chain;                                                 *)
(*   - how much of this the processes of Cluster keep when they restart.   *)
(***************************************************************************)
EXTENDS EngineHeight, Foundations, Cluster

\* Zenon proves a step that names no other prover.
USE Zenon

-----------------------------------------------------------------------------
(* Agreement.                                                              *)

\* The set in force is finite and not empty, and its faulty part is bounded.
LEMMA ActiveSets ==
    ASSUME NEW h \in Height
    PROVE  /\ IsFiniteSet(ActiveSet[h]) /\ ActiveSet[h] # {}
           /\ ActiveSet[h] \subseteq Node
           /\ Cardinality(ActiveSet[h] \cap Faulty) <= MaxFaulty(ActiveSet[h])
<1>1. ActiveSet[h] \in SUBSET Node /\ ActiveSet[h] # {}
  BY SetsAssumption
<1>2. IsFiniteSet(ActiveSet[h])
  BY <1>1, SetsAssumption, FS_Subset
<1>3. QED
  BY <1>1, <1>2, FaultBound

\* Two quorums of one height share a correct validator.
LEMMA CommonVoter ==
    ASSUME NEW h \in Height,
           NEW P \in SUBSET ActiveSet[h], NEW Q \in SUBSET ActiveSet[h],
           Cardinality(P) >= Quorum(h), Cardinality(Q) >= Quorum(h)
    PROVE  \E p \in ActiveSet[h] : p \in P \ Faulty /\ p \in Q \ Faulty
<1> DEFINE S == ActiveSet[h]
<1>1. /\ IsFiniteSet(S) /\ S # {}
      /\ Cardinality(S \cap Faulty) <= MaxFaulty(S)
  BY ActiveSets
<1>2. Cardinality(P) >= Bft(S) /\ Cardinality(Q) >= Bft(S)
  BY DEF Quorum
<1>3. P \in SUBSET S /\ Q \in SUBSET S
  OBVIOUS
<1> HIDE DEF S
<1>4. \E p \in P \cap Q : p \notin Faulty
  BY <1>1, <1>2, <1>3, QuorumIntersection, SMT
<1>5. QED
  BY <1>3, <1>4 DEF S

\* One round of a height backs one value at most.
LEMMA OneBacked ==
    ASSUME VoteOnce, NEW h \in Height, NEW type, NEW r, NEW x, NEW y,
           Backed(sentVotes, type, h, r, x), Backed(sentVotes, type, h, r, y)
    PROVE  x = y
<1>1. PICK P \in SUBSET ActiveSet[h] :
        /\ Cardinality(P) >= Quorum(h)
        /\ \A p \in P \ Faulty : Cast(sentVotes, p, type, h, r, x)
  BY DEF Backed
<1>2. PICK Q \in SUBSET ActiveSet[h] :
        /\ Cardinality(Q) >= Quorum(h)
        /\ \A p \in Q \ Faulty : Cast(sentVotes, p, type, h, r, y)
  BY DEF Backed
<1>3. PICK p \in ActiveSet[h] : p \in P \ Faulty /\ p \in Q \ Faulty
  BY <1>1, <1>2, CommonVoter
<1>4. Cast(sentVotes, p, type, h, r, x) /\ Cast(sentVotes, p, type, h, r, y)
  BY <1>1, <1>2, <1>3
<1>5. QED
  BY <1>4 DEF Cast, VoteOnce

\* Once a quorum has precommitted a block, no quorum prevotes another one in
\* that round or in a later one: the least such round has no justification.
LEMMA NoOtherPolka ==
    ASSUME IndInv, NEW h \in Height, NEW r \in Round, NEW x, x # Nil,
           Backed(sentVotes, "Precommit", h, r, x),
           NEW s \in Round, r <= s, NEW y, y # Nil,
           Backed(sentVotes, "Prevote", h, s, y)
    PROVE  x = y
<1>1. VoteOnce /\ PrecommitsLocked /\ LockRespected
  BY DEF IndInv
<1>2. PICK P \in SUBSET ActiveSet[h] :
        /\ Cardinality(P) >= Quorum(h)
        /\ \A p \in P \ Faulty : Cast(sentVotes, p, "Precommit", h, r, x)
  BY DEF Backed
<1>3. Backed(sentVotes, "Prevote", h, r, x)
  <2>1. PICK p \in ActiveSet[h] : p \in P \ Faulty
    BY <1>2, CommonVoter
  <2>2. Cast(sentVotes, p, "Precommit", h, r, x)
    BY <1>2, <2>1
  <2>3. QED
    BY <1>1, <2>1, <2>2 DEF PrecommitsLocked, Cast
<1> DEFINE T == {t \in Round : r <= t /\ Backed(sentVotes, "Prevote", h, t, y)}
<1>4. SUFFICES ASSUME x # y PROVE FALSE
  OBVIOUS
<1>5. T # {} /\ T \subseteq Nat
  BY ConstantTypes
<1>6. PICK t \in T : \A u \in T : t <= u
  BY <1>5, LeastNatural
<1>7. r \in Nat /\ t \in Nat /\ r <= t /\ Backed(sentVotes, "Prevote", h, t, y)
  BY <1>5, <1>6, ConstantTypes
<1>8. t # r
  BY <1>1, <1>3, <1>4, <1>7, OneBacked
<1>9. PICK Q \in SUBSET ActiveSet[h] :
        /\ Cardinality(Q) >= Quorum(h)
        /\ \A p \in Q \ Faulty : Cast(sentVotes, p, "Prevote", h, t, y)
  BY <1>7 DEF Backed
<1>10. PICK p \in ActiveSet[h] : p \in P \ Faulty /\ p \in Q \ Faulty
  BY <1>2, <1>9, CommonVoter
<1>11. /\ Cast(sentVotes, p, "Precommit", h, r, x)
       /\ Cast(sentVotes, p, "Prevote", h, t, y)
  BY <1>2, <1>9, <1>10
<1>12. PICK u \in Round : /\ r <= u /\ u < t
                          /\ Backed(sentVotes, "Prevote", h, u, y)
  <2> DEFINE c == [type |-> "Precommit", height |-> h, round |-> r,
                   id |-> x, voter |-> p]
             v == [type |-> "Prevote", height |-> h, round |-> t,
                   id |-> y, voter |-> p]
  <2>1. c \in sentVotes /\ v \in sentVotes
    BY <1>11 DEF Cast
  <2>2. r < t
    BY <1>7, <1>8, SMT
  <2>3. QED
    BY <1>1, <1>4, <1>10, <2>1, <2>2 DEF LockRespected
<1>13. u \in T /\ u \in Nat
  BY <1>12, ConstantTypes
<1>14. QED
  BY <1>6, <1>7, <1>12, <1>13, SMT

\* A certificate of one round that verifies stands for a quorum of precommits.
LEMMA CertificateBacked ==
    ASSUME IndInv, NEW n \in Correct, NEW h \in DOMAIN blocks[n],
           Certifies(blocks[n][h].qc, ActiveSet[h]), OfOneRound(h, blocks[n][h])
    PROVE  /\ h \in Height /\ blocks[n][h].value # Nil
           /\ \E r \in Round :
                 Backed(sentVotes, "Precommit", h, r, blocks[n][h].value)
<1> DEFINE block == blocks[n][h]
           Q == block.qc \cap ActiveSet[h]
<1>1. BlockBacked(n, h, block)
  BY DEF IndInv, BlocksBacked
<1>2. PICK r \in Round : \A p \in block.qc \ Faulty :
        Cast(sentVotes, p, "Precommit", h, r, block.value)
  BY DEF OfOneRound, CastPrecommit, Cast
<1>3. Q \in SUBSET ActiveSet[h] /\ Cardinality(Q) >= Quorum(h)
  BY DEF Certifies, Quorum
<1>4. Backed(sentVotes, "Precommit", h, r, block.value)
  BY <1>2, <1>3 DEF Backed
<1>5. h \in Height /\ h # 0 /\ Len(block.value) = h
  BY <1>1, ConstantTypes, SMT DEF BlockBacked, Height
<1>6. block.value # Nil
  BY <1>5, SMT DEF Nil
<1>7. QED
  BY <1>4, <1>5, <1>6

\* Two certificates of one height, each of one round, whichever the two rounds
\* are, are for one block.
LEMMA AgreementFromInv == IndInv => Agreement
<1>1. ASSUME IndInv, NEW h \in Height, NEW r \in Round, NEW s \in Round,
             r <= s, NEW x, NEW y, x # Nil, y # Nil,
             Backed(sentVotes, "Precommit", h, r, x),
             Backed(sentVotes, "Precommit", h, s, y)
      PROVE  x = y
  <2>1. PICK Q \in SUBSET ActiveSet[h] :
          /\ Cardinality(Q) >= Quorum(h)
          /\ \A p \in Q \ Faulty : Cast(sentVotes, p, "Precommit", h, s, y)
    BY <1>1 DEF Backed
  <2>2. PICK p \in ActiveSet[h] : p \in Q \ Faulty
    BY <2>1, CommonVoter
  <2>3. Cast(sentVotes, p, "Precommit", h, s, y)
    BY <2>1, <2>2
  <2>4. Backed(sentVotes, "Prevote", h, s, y)
    BY <1>1, <2>2, <2>3 DEF IndInv, PrecommitsLocked, Cast
  <2>5. QED
    BY <1>1, <2>4, NoOtherPolka
<1>2. ASSUME IndInv, NEW n \in Correct, NEW m \in Correct,
             NEW h \in DOMAIN blocks[n] \cap DOMAIN blocks[m],
             Certifies(blocks[n][h].qc, ActiveSet[h]), OfOneRound(h, blocks[n][h]),
             Certifies(blocks[m][h].qc, ActiveSet[h]), OfOneRound(h, blocks[m][h])
      PROVE  blocks[n][h].value = blocks[m][h].value
  <2>1. PICK r \in Round :
          Backed(sentVotes, "Precommit", h, r, blocks[n][h].value)
    BY <1>2, CertificateBacked
  <2>2. PICK s \in Round :
          Backed(sentVotes, "Precommit", h, s, blocks[m][h].value)
    BY <1>2, CertificateBacked
  <2>3. /\ h \in Height /\ blocks[n][h].value # Nil
        /\ blocks[m][h].value # Nil
    BY <1>2, CertificateBacked
  <2>4. r <= s \/ s <= r
    BY ConstantTypes, SMT
  <2>5. QED
    BY <1>1, <1>2, <2>1, <2>2, <2>3, <2>4
<1>3. QED
  BY <1>2 DEF Agreement

\* Finality: no two correct nodes ever hold different blocks of one height with
\* certificates whose precommits are each of one round, whether the blocks were
\* committed or synced, whatever is delayed, lost, reordered or sent by the
\* faulty (Engine::try_commit, try_precommit_on_polka and the prevote rules).
THEOREM AgreementHolds == Spec => []Agreement
BY InvariantHolds, AgreementFromInv, PTL

\* A correct node casts one vote of a type in a round, whatever races.
THEOREM VoteOnceHolds == Spec => []VoteOnce
<1>1. IndInv => VoteOnce
  BY DEF IndInv
<1>2. QED
  BY <1>1, InvariantHolds, PTL

\* What a validator of the height finalizes, the certificate's verifier accepts.
THEOREM CertifiedHolds == Spec => []MembersCommitCertified
<1>1. IndInv => MembersCommitCertified
  BY DEF IndInv, BlocksBacked, BlockBacked, MembersCommitCertified
<1>2. QED
  BY <1>1, InvariantHolds, PTL

-----------------------------------------------------------------------------
(* The certified part of a sequence of blocks.                             *)

\* k blocks of bs are certified, and not the one after them.
CertifiedTo(bs, k) ==
    /\ \A h \in 1..k : Certifies(bs[h].qc, ActiveSet[h])
    /\ k < Len(bs) => ~Certifies(bs[k + 1].qc, ActiveSet[k + 1])

\* CertifiedHeight of Engine, as a function of the blocks.
Certain(bs) == CHOOSE k \in 0..Len(bs) : CertifiedTo(bs, k)

\* There is such a number.
LEMMA CertainHolds ==
    ASSUME NEW bs \in Seq(Block)
    PROVE  Certain(bs) \in 0..Len(bs) /\ CertifiedTo(bs, Certain(bs))
<1> DEFINE T == {h \in 1..Len(bs) : ~Certifies(bs[h].qc, ActiveSet[h])}
<1>1. \E k \in 0..Len(bs) : CertifiedTo(bs, k)
  <2>1. CASE T = {}
    <3>1. CertifiedTo(bs, Len(bs))
      BY <2>1, SMT DEF CertifiedTo
    <3> QED BY <3>1, SMT
  <2>2. CASE T # {}
    <3>1. T \subseteq Nat
      BY SMT
    <3>2. PICK x \in T : \A y \in T : x <= y
      BY <2>2, <3>1, LeastNatural
    <3>3. x - 1 \in 0..Len(bs) /\ (x - 1) + 1 = x
      BY <3>2, SMT
    <3>4. \A h \in 1..(x - 1) : Certifies(bs[h].qc, ActiveSet[h])
      BY <3>2, SMT
    <3>5. ~Certifies(bs[x].qc, ActiveSet[x])
      BY <3>2
    <3>6. CertifiedTo(bs, x - 1)
      BY <3>3, <3>4, <3>5 DEF CertifiedTo
    <3> QED BY <3>3, <3>6
  <2> QED BY <2>1, <2>2
<1> QED BY <1>1 DEF Certain

\* And only one.
LEMMA CertainIs ==
    ASSUME NEW bs \in Seq(Block), NEW k \in 0..Len(bs), CertifiedTo(bs, k)
    PROVE  Certain(bs) = k
<1> DEFINE j == Certain(bs)
<1>1. j \in 0..Len(bs) /\ CertifiedTo(bs, j)
  BY CertainHolds
<1> HIDE DEF j
<1>2. ~(j < k) /\ ~(k < j)
  BY <1>1, SMT DEF CertifiedTo
<1>3. j = k
  BY <1>1, <1>2, SMT
<1> QED BY <1>3 DEF j

\* One more block: it counts if everything before it and it itself is certified.
LEMMA CertainAppend ==
    ASSUME NEW bs \in Seq(Block), NEW block \in Block
    PROVE  Certain(Append(bs, block)) =
             IF /\ Certain(bs) = Len(bs)
                /\ Certifies(block.qc, ActiveSet[Len(bs) + 1])
             THEN Len(bs) + 1 ELSE Certain(bs)
<1> DEFINE k == Certain(bs)
           cs == Append(bs, block)
<1>1. k \in 0..Len(bs) /\ CertifiedTo(bs, k)
  BY CertainHolds
<1>2. /\ cs \in Seq(Block) /\ Len(cs) = Len(bs) + 1 /\ cs[Len(bs) + 1] = block
      /\ \A h \in 1..Len(bs) : cs[h] = bs[h]
  BY SMT
<1> HIDE DEF k, cs
<1>3. CASE k = Len(bs) /\ Certifies(block.qc, ActiveSet[Len(bs) + 1])
  <2>1. CertifiedTo(cs, Len(bs) + 1)
    BY <1>1, <1>2, <1>3, SMT DEF CertifiedTo
  <2>2. Certain(cs) = Len(bs) + 1
    BY <1>2, <2>1, CertainIs, SMT
  <2> QED BY <1>3, <2>2 DEF cs, k
<1>4. CASE ~(k = Len(bs) /\ Certifies(block.qc, ActiveSet[Len(bs) + 1]))
  <2>1. \A h \in 1..k : Certifies(cs[h].qc, ActiveSet[h])
    BY <1>1, <1>2, SMT DEF CertifiedTo
  <2>2. ~Certifies(cs[k + 1].qc, ActiveSet[k + 1])
    <3>1. CASE k = Len(bs)
      BY <1>2, <1>4, <3>1
    <3>2. CASE k < Len(bs)
      <4>1. k + 1 \in 1..Len(bs)
        BY <1>1, <3>2, SMT
      <4> QED BY <1>1, <1>2, <3>2, <4>1 DEF CertifiedTo
    <3> QED BY <1>1, <3>1, <3>2, SMT
  <2>3. CertifiedTo(cs, k)
    BY <2>1, <2>2 DEF CertifiedTo
  <2>4. k \in 0..Len(cs)
    BY <1>1, <1>2, SMT
  <2>5. Certain(cs) = k
    BY <1>2, <2>3, <2>4, CertainIs
  <2> QED BY <1>4, <2>5 DEF cs, k
<1> QED BY <1>3, <1>4

-----------------------------------------------------------------------------
(* The refinement.                                                         *)

\* What the mapping of Engine says, in these words.
LEMMA LogIs ==
    /\ CertifiedLog = [n \in Correct |-> [h \in 1..Certain(blocks[n]) |-> blocks[n][h].value]]
    /\ CertifiedLog' =
         [n \in Correct |-> [h \in 1..Certain(blocks'[n]) |-> blocks'[n][h].value]]
BY DEF CertifiedLog, CertifiedHeight, Certain, CertifiedTo

\* A step of the engines leaves the blocks alone or appends one to one node's.
LEMMA BlocksGrow ==
    ASSUME IndInv, [Next]_vars
    PROVE  \/ blocks' = blocks
           \/ \E n \in Correct, block \in Block :
                blocks' = [blocks EXCEPT ![n] = Append(@, block)]
<1>1. StepKind
  BY Classify DEF IndInv
<1> QED BY <1>1 DEF StepKind, Still, Hear, NewRound, Prevoted, Precommitted, Rolled

\* The initial states of Engine are initial states of the ledger.
LEMMA LedgerInit == Init => Promise!Init
<1> SUFFICES ASSUME Init PROVE Promise!Init
  OBVIOUS
<1>1. \A n \in Correct : blocks[n] = <<>>
  BY DEF Init
<1>2. Certain(<<>>) = 0
  <2>1. <<>> \in Seq(Block) /\ Len(<<>>) = 0
    BY SMT
  <2>2. Certain(<<>>) \in 0..0
    BY <2>1, CertainHolds
  <2> QED BY <2>2, SMT
<1>3. \A n \in Correct : [h \in 1..Certain(blocks[n]) |-> blocks[n][h].value] = <<>>
  BY <1>1, <1>2, SMT
<1>4. CertifiedLog = [n \in Correct |-> <<>>]
  BY <1>3, LogIs
<1> QED BY <1>4 DEF Promise!Init

\* Two certified blocks of one height are the same.
CertifiedSame ==
    \A n, m \in Correct : \A h \in DOMAIN blocks[n] \cap DOMAIN blocks[m] :
        /\ Certifies(blocks[n][h].qc, ActiveSet[h])
        /\ Certifies(blocks[m][h].qc, ActiveSet[h])
        => blocks[n][h].value = blocks[m][h].value

\* They are when every certificate is of one round.
LEMMA SameFromInv == IndInv /\ OneRound => CertifiedSame
BY AgreementFromInv DEF Agreement, OneRound, CertifiedSame

\* Every step of Engine is a step of the ledger or leaves it alone.
LEMMA LedgerStep ==
    ASSUME IndInv, CertifiedSame', [Next]_vars
    PROVE  [Promise!Next]_CertifiedLog
<1>1. blocks \in [Correct -> Seq(Block)]
  BY DEF IndInv, TypeOK
<1>2. CASE blocks' = blocks
  <2>1. CertifiedLog' = CertifiedLog
    BY <1>2, LogIs
  <2> QED BY <2>1
<1>3. ASSUME NEW n \in Correct, NEW block \in Block,
             blocks' = [blocks EXCEPT ![n] = Append(@, block)]
      PROVE  [Promise!Next]_CertifiedLog
  <2> DEFINE bs == blocks[n]
             cs == Append(bs, block)
             k == Certain(bs)
  <2>1. bs \in Seq(Block)
    BY <1>1
  <2>2. blocks'[n] = cs /\ \A m \in Correct \ {n} : blocks'[m] = blocks[m]
    BY <1>1, <1>3
  <2>3. k \in 0..Len(bs) /\ CertifiedTo(bs, k)
    BY <2>1, CertainHolds
  <2>4. \A h \in 1..Len(bs) : cs[h] = bs[h]
    BY <2>1, SMT
  <2>5. /\ DOMAIN CertifiedLog' = Correct
        /\ \A m \in Correct \ {n} : CertifiedLog'[m] = CertifiedLog[m]
    BY <2>2, LogIs
  <2>6. CASE k = Len(bs) /\ Certifies(block.qc, ActiveSet[Len(bs) + 1])
    <3>1. Certain(cs) = k + 1
      BY <2>1, <2>6, CertainAppend
    <3>2. /\ CertifiedLog[n] = [h \in 1..k |-> bs[h].value]
          /\ CertifiedLog'[n] = [h \in 1..(k + 1) |-> cs[h].value]
      BY <2>2, <3>1, LogIs, ZenonT(40)
    <3>3. cs[k + 1] = block /\ k + 1 = Len(cs)
      BY <2>1, <2>6, SMT
    <3> HIDE DEF bs, cs, k
    <3>4. Len(CertifiedLog[n]) = k /\ Len(CertifiedLog'[n]) = k + 1
      BY <2>3, <3>2, SMT
    <3>5. SubSeq(CertifiedLog'[n], 1, Len(CertifiedLog[n])) = CertifiedLog[n]
      BY <2>3, <2>4, <2>6, <3>2, <3>4, SMT
    <3>6. ASSUME NEW m \in Correct, Len(CertifiedLog[m]) > k
          PROVE  CertifiedLog'[n][k + 1] = CertifiedLog[m][k + 1]
      <4>1. m # n
        BY <2>3, <3>4, <3>6, SMT
      <4>2. /\ Certain(blocks[m]) \in 0..Len(blocks[m])
            /\ CertifiedTo(blocks[m], Certain(blocks[m]))
        BY <1>1, CertainHolds
      <4>3. CertifiedLog[m] = [h \in 1..Certain(blocks[m]) |-> blocks[m][h].value]
        BY LogIs
      <4>4. k + 1 \in 1..Certain(blocks[m])
        BY <2>3, <3>6, <4>2, <4>3, SMT
      <4>5. Certifies(blocks[m][k + 1].qc, ActiveSet[k + 1])
        BY <4>2, <4>4 DEF CertifiedTo
      <4>6. k + 1 \in DOMAIN blocks'[n] /\ k + 1 \in DOMAIN blocks'[m]
        BY <1>1, <2>1, <2>2, <2>3, <3>3, <4>1, <4>2, <4>4, SMT DEF cs
      <4>7. Certifies(blocks'[n][k + 1].qc, ActiveSet[k + 1])
        BY <2>2, <2>6, <3>3
      <4>8. blocks'[m] = blocks[m]
        BY <2>2, <4>1
      <4>9. blocks'[n][k + 1].value = blocks'[m][k + 1].value
        BY <4>5, <4>6, <4>7, <4>8 DEF CertifiedSame
      <4> QED BY <2>2, <2>3, <3>2, <4>3, <4>4, <4>8, <4>9, SMT
    <3>7. \A m \in Correct : Len(CertifiedLog[m]) > Len(CertifiedLog[n]) =>
            CertifiedLog'[n][Len(CertifiedLog[n]) + 1] = CertifiedLog[m][Len(CertifiedLog[n]) + 1]
      BY <3>4, <3>6
    <3>8. Len(CertifiedLog'[n]) = Len(CertifiedLog[n]) + 1
      BY <3>4
    <3>9. Promise!Extend(n)
      BY <2>5, <3>5, <3>7, <3>8 DEF Promise!Extend
    <3> QED BY <3>9 DEF Promise!Next
  <2>7. CASE ~(k = Len(bs) /\ Certifies(block.qc, ActiveSet[Len(bs) + 1]))
    <3>1. Certain(cs) = k
      BY <2>1, <2>7, CertainAppend
    <3>2. CertifiedLog'[n] = CertifiedLog[n]
      <4>1. /\ CertifiedLog[n] = [h \in 1..k |-> bs[h].value]
            /\ CertifiedLog'[n] = [h \in 1..k |-> cs[h].value]
        BY <2>2, <3>1, LogIs
      <4> HIDE DEF bs, cs, k
      <4>2. \A h \in 1..k : cs[h].value = bs[h].value
        BY <2>3, <2>4, SMT
      <4> QED BY <4>1, <4>2
    <3>3. CertifiedLog' = CertifiedLog
      BY <2>5, <3>2, LogIs
    <3> QED BY <3>3
  <2> QED BY <2>6, <2>7
<1> QED BY <1>2, <1>3, BlocksGrow

\* The engines implement the abstract ledger, for every number of nodes, heights
\* and rounds, whatever is lost and whatever the faulty validators within the
\* bound send, in every behaviour whose certificates are each of precommits of
\* one round: what a node holds with certificates never changes, grows one block
\* at a time, and is what the others hold.  No signature says that the
\* precommits are of one round, hence the condition (sign_vote, messages.rs).
THEOREM RefinementHolds == Spec /\ []OneRound => ImplementsLedger
<1>1. IndInv /\ CertifiedSame' /\ [Next]_vars => [Promise!Next]_CertifiedLog
  BY LedgerStep
<1> QED BY <1>1, LedgerInit, InvariantHolds, SameFromInv, PTL
        DEF Spec, ImplementsLedger, Promise!Spec

\* The condition is met where nobody passes on a precommit under another round
\* and nobody but correct nodes answers a sync: then a certificate is of the
\* precommits of the round that was committed (Engine::try_commit).
THEOREM OneRoundHolds ==
    ASSUME Unaltered
    PROVE  Spec => []OneRound
<1>1. Init => OneRoundInv
  BY SMT DEF Init, OneRoundInv, SharesHeard, OneRound
<1>2. IndInv /\ OneRoundInv /\ [Next]_vars => OneRoundInv'
  BY Classify, OneRoundStep DEF IndInv
<1>3. OneRoundInv => OneRound
  BY DEF OneRoundInv
<1> QED BY <1>1, <1>2, <1>3, InvariantHolds, PTL DEF Spec

-----------------------------------------------------------------------------
(* The chain.                                                              *)

\* A step leaves the chains alone or extends one by a block valid on its tip.
LEMMA ChainGrows ==
    ASSUME TypeOK, [Next]_vars
    PROVE  \/ UNCHANGED chainVars
           \/ \E n \in Correct, block \in Block :
                IsValid(block.value, tip[n], height[n]) /\ RollForward(n, block)
<1>1. CASE UNCHANGED vars
  BY <1>1 DEF vars, chainVars
<1>2. ASSUME NEW n \in Correct, NEW block, ApplySyncedBlock(n, block)
      PROVE  /\ block \in Block
             /\ IsValid(block.value, tip[n], height[n]) /\ RollForward(n, block)
  BY <1>2, OfferedType DEF ApplySyncedBlock
<1>3. ASSUME NEW n \in Correct, TryCommit(n)
      PROVE  \E block \in Block :
                IsValid(block.value, tip[n], height[n]) /\ RollForward(n, block)
  <2>1. PICK pm \in proposals[n] :
          /\ Committable(n, pm)
          /\ RollForward(n, [value |-> pm.value,
                qc |-> VotersFor(precommits[n], pm.round, pm.value)])
    BY <1>3 DEF TryCommit
  <2>2. pm \in Proposal
    BY DEF TypeOK
  <2>3. [value |-> pm.value, qc |-> VotersFor(precommits[n], pm.round, pm.value)] \in Block
    BY <2>2 DEF Proposal, Block, VotersFor
  <2> QED BY <2>1, <2>3 DEF Committable
<1>4. ASSUME NEW n \in Correct, NEW a \in Item, AddAttestation(n, a)
      PROVE  UNCHANGED chainVars
  BY <1>4 DEF AddAttestation
<1>5. ASSUME NEW n \in Correct, OnMessage(n) \/ OnTimeout(n) \/ Resume(n)
      PROVE  UNCHANGED chainVars
  BY <1>5 DEF OnMessage, OnProposal, OnVote, OnTimeout, OnTimeoutPropose, OnTimeoutPrevote,
              OnTimeoutPrecommit, Resume
<1>6. ASSUME NEW n \in Correct, Advance(n), ~TryCommit(n)
      PROVE  UNCHANGED chainVars
  BY <1>6 DEF Advance, TrySkip, TryPrevoteOnProposal, TryPrevoteOnReproposal,
              TrySchedulePrevoteTimeout, TryPrecommitOnPolka, TryPrecommitNil,
              TrySchedulePrecommitTimeout, AdvanceDone
<1> QED BY <1>1, <1>2, <1>3, <1>4, <1>5, <1>6 DEF Next

\* A block valid on top of a chain makes a longer chain.
LEMMA ChainStep ==
    ASSUME TypeOK, ChainLinked, [Next]_vars
    PROVE  ChainLinked'
<1>1. CASE UNCHANGED chainVars
  BY <1>1 DEF chainVars, ChainLinked
<1>2. ASSUME NEW n \in Correct, NEW block \in Block,
             IsValid(block.value, tip[n], height[n]), RollForward(n, block)
      PROVE  ChainLinked'
  <2> DEFINE v == block.value
             bs == blocks[n]
             t == tip[n]
  <2>1. /\ blocks' = [blocks EXCEPT ![n] = Append(@, block)]
        /\ height' = [height EXCEPT ![n] = @ + 1]
        /\ tip' = [tip EXCEPT ![n] = v]
    BY <1>2 DEF RollForward, AppendBlock
  <2>2. /\ blocks \in [Correct -> Seq(Block)] /\ height \in [Correct -> Height]
        /\ tip \in [Correct -> Value]
    BY DEF TypeOK
  <2>3. v \in Seq(Header) /\ t \in Seq(Header) /\ bs \in Seq(Block)
    BY <2>2 DEF Block, Value
  <2>4. /\ height[n] = Len(bs) + 1 /\ Len(t) = Len(bs)
        /\ \A h \in DOMAIN bs : bs[h].value = SubSeq(t, 1, h)
    BY DEF ChainLinked
  <2>5. Len(v) = Len(bs) + 1 /\ SubSeq(v, 1, Len(v) - 1) = t
    BY <1>2, <2>4 DEF IsValid, Parent
  <2>6. \A m \in Correct \ {n} :
          blocks'[m] = blocks[m] /\ height'[m] = height[m] /\ tip'[m] = tip[m]
    BY <2>1, <2>2
  <2>7. blocks'[n] = Append(bs, block) /\ height'[n] = height[n] + 1 /\ tip'[n] = v
    BY <2>1, <2>2
  <2> HIDE DEF v, bs, t
  <2>8. ASSUME NEW h \in 1..Len(bs)
        PROVE  SubSeq(v, 1, h) = SubSeq(t, 1, h)
    <3>1. \A i \in 1..Len(bs) : t[i] = v[i]
      BY <2>3, <2>4, <2>5, SMT
    <3> QED BY <2>3, <2>4, <2>5, <3>1, SMT
  <2>9. SubSeq(v, 1, Len(v)) = v
    BY <2>3, SMT
  <2>10. /\ height'[n] = Len(blocks'[n]) + 1 /\ Len(tip'[n]) = Len(blocks'[n])
    BY <2>3, <2>4, <2>5, <2>7, SMT
  <2>11. ASSUME NEW h \in DOMAIN blocks'[n]
         PROVE  blocks'[n][h].value = SubSeq(tip'[n], 1, h)
    <3>1. CASE h = Len(bs) + 1
      BY <2>3, <2>5, <2>7, <2>9, <3>1, SMT DEF v
    <3>2. CASE h # Len(bs) + 1
      <4>1. h \in 1..Len(bs) /\ h \in DOMAIN bs
        BY <2>3, <2>7, <3>2, SMT
      <4> QED BY <2>3, <2>4, <2>7, <2>8, <4>1, SMT
    <3> QED BY <3>1, <3>2
  <2> QED BY <2>6, <2>10, <2>11, ZenonT(40) DEF ChainLinked
<1> QED BY <1>1, <1>2, ChainGrows

\* Whether a block came by commit or by sync, each block of a node is valid on
\* top of the one before it, and the node works on the height above its last.
THEOREM ChainHolds == Spec => []ChainLinked
<1>1. Init => ChainLinked
  BY SMT DEF Init, ChainLinked, Nil
<1>2. TypeOK /\ ChainLinked /\ [Next]_vars => ChainLinked'
  BY ChainStep
<1> QED BY <1>1, <1>2, TypeCorrect, PTL DEF Spec

-----------------------------------------------------------------------------
(***************************************************************************)
(* The cluster: what its nodes keep when they crash and restart, and what  *)
(* they keep only when they do not.  A restart keeps the chain and loses   *)
(* the votes and the lock of the current height.  So the part of IndInv    *)
(* that is about certificates survives any restart, and all of it survives *)
(* the restart of a node that has not voted yet at its height.             *)
(***************************************************************************)

-----------------------------------------------------------------------------
(* The steps of the cluster are steps of the engines.                      *)

\* An event that node.rs handles is a step of its engine, or changes nothing
\* of it, unless the process restarts.
LEMMA ClusterStep ==
    ASSUME [ClusterNext]_clusterVars
    PROVE  [Next]_vars \/ \E n \in Correct : Restart(n)
<1>1. CASE UNCHANGED clusterVars
  BY <1>1 DEF clusterVars
<1>2. ASSUME NEW n \in Correct, NEW a \in Item, Submit(n, a)
      PROVE  Next
  BY <1>2 DEF Submit, Next
<1>3. ASSUME NEW n \in Correct, NEW p \in Correct, NEW a \in Item,
             ReceiveAttestation(p, n, a)
      PROVE  [Next]_vars
  BY <1>3 DEF ReceiveAttestation, Next
<1>4. ASSUME NEW n \in Correct, ReceiveConsensus(n) PROVE Next
  BY <1>4 DEF ReceiveConsensus, OnMessage, Next
<1>5. ASSUME NEW n \in Correct, Timeout(n) PROVE Next
  BY <1>5 DEF Timeout, OnTimeout, Next
<1>6. ASSUME NEW n \in Correct, Sync(n) PROVE Next
  BY <1>6 DEF Sync, Next
<1>7. ASSUME NEW n \in Correct, EngineStep(n) PROVE Next
  BY <1>7 DEF EngineStep, Next
<1> QED BY <1>1, <1>2, <1>3, <1>4, <1>5, <1>6, <1>7 DEF ClusterNext

\* As long as no process restarts, the event loops do nothing that the engines
\* over an arbitrary network could not do: what is proved of Engine holds.
THEOREM ClusterImplementsEngine ==
    ASSUME MaxRestarts = 0
    PROVE  ClusterSpec => Spec
<1> DEFINE Counted == restarts = 0
<1>1. ClusterInit => Init /\ Counted
  BY DEF ClusterInit
<1>2. Counted => \A n \in Correct : ~Restart(n)
  BY SMT DEF Restart
<1>3. Counted /\ [ClusterNext]_clusterVars => Counted'
  <2> SUFFICES ASSUME Counted, [ClusterNext]_clusterVars PROVE restarts' = restarts
    OBVIOUS
  <2>1. CASE UNCHANGED clusterVars
    BY <2>1 DEF clusterVars
  <2>2. ASSUME NEW n \in Correct, NEW a \in Item, Submit(n, a) PROVE restarts' = restarts
    BY <2>2 DEF Submit
  <2>3. ASSUME NEW n \in Correct, NEW p \in Correct, NEW a \in Item,
               ReceiveAttestation(p, n, a)
        PROVE  restarts' = restarts
    BY <2>3 DEF ReceiveAttestation
  <2>4. ASSUME NEW n \in Correct,
               ReceiveConsensus(n) \/ Timeout(n) \/ Sync(n) \/ EngineStep(n)
        PROVE  restarts' = restarts
    BY <2>4 DEF ReceiveConsensus, Timeout, Sync, EngineStep
  <2> QED BY <1>2, <2>1, <2>2, <2>3, <2>4 DEF ClusterNext
<1>4. Counted /\ [ClusterNext]_clusterVars => [Next]_vars
  BY <1>2, ClusterStep
<1> HIDE DEF Counted
<1> QED BY <1>1, <1>3, <1>4, PTL DEF ClusterSpec, Spec

-----------------------------------------------------------------------------
(* Any restart.                                                            *)

\* What a restart does to the state of its node (Node::new, Engine::new).
LEMMA RestartState ==
    ASSUME NEW n \in Correct, Restart(n)
    PROVE  /\ round' = [round EXCEPT ![n] = 0]
           /\ step' = [step EXCEPT ![n] = "Propose"]
           /\ lockedValue' = [lockedValue EXCEPT ![n] = Nil]
           /\ lockedRound' = [lockedRound EXCEPT ![n] = -1]
           /\ prevotes' = [prevotes EXCEPT ![n] = {}]
           /\ precommits' = [precommits EXCEPT ![n] = {}]
           /\ phase' = [phase EXCEPT ![n] = "idle"]
           /\ UNCHANGED <<height, tip, blocks, sentProposals, sentVotes>>
BY DEF Restart, Reboot, ReleaseLock, SetPhase, StoredChain, chainVars

\* A restart keeps the types.
LEMMA RestartType ==
    ASSUME TypeOK, NEW n \in Correct, Restart(n)
    PROVE  TypeOK'
<1>1. /\ round' \in [Correct -> Round]
      /\ step' \in [Correct -> {"Propose", "Prevote", "Precommit"}]
      /\ lockedValue' \in [Correct -> Value]
      /\ lockedRound' \in [Correct -> Round \cup {-1}]
      /\ prevotes' \in [Correct -> SUBSET Vote]
      /\ precommits' \in [Correct -> SUBSET Vote]
      /\ phase' \in [Correct -> {"idle", "advance", "sync"}]
  <2>1. 0 \in Round /\ Nil \in Value
    BY ConstantTypes
  <2>2. round' \in [Correct -> Round] /\ lockedValue' \in [Correct -> Value]
    <3>1. round \in [Correct -> Round] /\ lockedValue \in [Correct -> Value]
      BY DEF TypeOK
    <3> QED BY <2>1, <3>1, RestartState
  <2>5. lockedRound' \in [Correct -> Round \cup {-1}]
    <3>1. lockedRound \in [Correct -> Round \cup {-1}]
      BY DEF TypeOK
    <3> QED BY <3>1, RestartState
  <2>3. /\ step' \in [Correct -> {"Propose", "Prevote", "Precommit"}]
        /\ phase' \in [Correct -> {"idle", "advance", "sync"}]
    BY RestartState, ZenonT(40) DEF TypeOK
  <2>4. /\ prevotes' \in [Correct -> SUBSET Vote]
        /\ precommits' \in [Correct -> SUBSET Vote]
    BY RestartState, ZenonT(40) DEF TypeOK
  <2> QED BY <2>2, <2>3, <2>4, <2>5
<1>2. /\ validValue' \in [Correct -> Value]
      /\ validRound' \in [Correct -> Round \cup {-1}]
      /\ mempool' \in [Correct -> SUBSET Item]
      /\ proposals' \in [Correct -> SUBSET Proposal]
      /\ prevoteTimeoutStarted' \in [Correct -> SUBSET Round]
      /\ precommitTimeoutStarted' \in [Correct -> SUBSET Round]
      /\ polkaApplied' \in [Correct -> SUBSET Round]
      /\ parked' \in [Correct -> BOOLEAN]
      /\ timers' \subseteq Timer
  BY ConstantTypes DEF TypeOK, Restart, Reboot
<1> QED BY <1>1, <1>2, RestartState DEF TypeOK

(***************************************************************************)
(* The part of IndInv that is about certificates: what a node has heard    *)
(* signed by its author, and the certificate of every block is of          *)
(* precommits for that block that were cast at its height.                 *)
(***************************************************************************)
CertInv == TypeOK /\ StoresAuthentic /\ SharesOfHeight /\ BlocksBacked /\ SyncAtStart

\* A restart empties the stores of its node and keeps its blocks.
LEMMA RestartCert ==
    ASSUME CertInv, NEW n \in Correct, Restart(n)
    PROVE  CertInv'
<1>1. TypeOK /\ StoresAuthentic /\ SharesOfHeight /\ BlocksBacked /\ SyncAtStart
  BY DEF CertInv
<1>2. TypeOK'
  BY <1>1, RestartType
<1>3. StoresAuthentic'
  <2>1. prevotes'[n] = {} /\ precommits'[n] = {}
    BY <1>1, RestartState, SMTT(40) DEF TypeOK
  <2>2. \A m \in Correct \ {n} : prevotes'[m] = prevotes[m] /\ precommits'[m] = precommits[m]
    BY <1>1, RestartState, SMT DEF TypeOK
  <2>3. sentVotes' = sentVotes /\ height' = height
    BY RestartState
  <2>4. \A vm : VerifySig(vm) => VerifySig(vm)'
    BY <2>3, SignaturesLast
  <2> QED BY <1>1, <2>1, <2>2, <2>3, <2>4, SMT DEF StoresAuthentic, Authentic
<1>4. BlocksBacked' /\ SharesOfHeight'
  BY <1>1, RestartState, SMT DEF BlocksBacked, BlockBacked, SignedId, SharesOfHeight
<1>5. SyncAtStart'
  <2>1. phase'[n] # "sync"
    BY <1>1, RestartState, SMT DEF TypeOK
  <2>2. \A m \in Correct \ {n} :
            phase'[m] = phase[m] /\ round'[m] = round[m] /\ step'[m] = step[m]
    BY <1>1, RestartState, SMT DEF TypeOK
  <2> QED BY <1>1, <2>1, <2>2 DEF SyncAtStart
<1> QED BY <1>2, <1>3, <1>4, <1>5 DEF CertInv

\* However often nodes crash, at whatever point of a handler, and whatever the
\* faulty send and answer: what a node has stored its author has signed, and
\* what it has finalized the signers of the certificate have precommitted, at
\* that height, each in some round (ingest_vote, apply_synced_block).
THEOREM CertificatesSurvive == ClusterSpec => []CertInv
<1>1. ClusterInit => CertInv
  BY InitInv DEF ClusterInit, IndInv, CertInv
<1>2. CertInv /\ [ClusterNext]_clusterVars => CertInv'
  <2> SUFFICES ASSUME CertInv, [ClusterNext]_clusterVars PROVE CertInv'
    OBVIOUS
  <2>1. CASE [Next]_vars
    <3>1. TypeOK /\ StoresAuthentic /\ SharesOfHeight /\ BlocksBacked /\ SyncAtStart
      BY DEF CertInv
    <3>2. StepKind
      BY <2>1, <3>1, Classify
    <3> QED BY <2>1, <3>1, <3>2, TypeStep, StoresStep, SharesStep, BlocksStep, SyncStep
            DEF CertInv
  <2> QED BY <2>1, ClusterStep, RestartCert
<1> QED BY <1>1, <1>2, PTL DEF ClusterSpec

\* A correct signer of a finalized block has precommitted it at its height.
LEMMA SignerPrecommitted ==
    ASSUME CertInv, NEW n \in Correct, NEW h \in DOMAIN blocks[n],
           NEW p \in blocks[n][h].qc, p \notin Faulty
    PROVE  \E r \in Round : CastPrecommit(p, h, r, blocks[n][h].value)
<1> DEFINE v == blocks[n][h].value
<1>1. BlockBacked(n, h, blocks[n][h])
  BY DEF CertInv, BlocksBacked
<1>2. Len(v) = h /\ h # 0 /\ SignedId(p, v)
  BY <1>1, ConstantTypes, SMT DEF BlockBacked, Height
<1> HIDE DEF v
<1>3. PICK w \in sentVotes : w.type = "Precommit" /\ w.voter = p /\ w.id = v
  BY <1>2 DEF SignedId
<1>4. w \in Vote /\ w.round \in Round
  BY DEF CertInv, TypeOK, Vote
<1>5. v # Nil
  BY <1>2, SMT DEF Nil
<1>6. w.height = h
  BY <1>2, <1>3, <1>5 DEF CertInv, SharesOfHeight
<1>7. CastPrecommit(p, h, w.round, v)
  BY <1>3, <1>4, <1>6, VoteFields DEF CastPrecommit
<1> QED BY <1>4, <1>7 DEF v

\* Two quorums have a correct validator in common, which has signed both blocks.
LEMMA ConflictFromCert == CertInv => ConflictSignedTwice
<1> SUFFICES ASSUME CertInv, NEW n \in Correct, NEW m \in Correct,
                    NEW h \in DOMAIN blocks[n] \cap DOMAIN blocks[m],
                    Certifies(blocks[n][h].qc, ActiveSet[h]),
                    Certifies(blocks[m][h].qc, ActiveSet[h])
             PROVE  \E p \in (blocks[n][h].qc \cap blocks[m][h].qc \cap ActiveSet[h]) \ Faulty :
                      /\ \E r \in Round : CastPrecommit(p, h, r, blocks[n][h].value)
                      /\ \E r \in Round : CastPrecommit(p, h, r, blocks[m][h].value)
  BY DEF ConflictSignedTwice
<1> DEFINE P == blocks[n][h].qc \cap ActiveSet[h]
           Q == blocks[m][h].qc \cap ActiveSet[h]
<1>1. h \in Height
  BY DEF CertInv, BlocksBacked, BlockBacked
<1>2. /\ P \in SUBSET ActiveSet[h] /\ Cardinality(P) >= Quorum(h)
      /\ Q \in SUBSET ActiveSet[h] /\ Cardinality(Q) >= Quorum(h)
  BY DEF Certifies, Quorum
<1>3. PICK p \in ActiveSet[h] : p \in P \ Faulty /\ p \in Q \ Faulty
  BY <1>1, <1>2, CommonVoter
<1>4. /\ \E r \in Round : CastPrecommit(p, h, r, blocks[n][h].value)
      /\ \E r \in Round : CastPrecommit(p, h, r, blocks[m][h].value)
  BY <1>3, SignerPrecommitted
<1> QED BY <1>3, <1>4

\* Over any network, and whatever rounds the shares of a certificate are from:
\* when two nodes finalize different blocks of one height with certificates
\* that verify, a correct validator has precommitted both (SPEC.md: safety
\* rests on one signed block per height, plus quorum intersection).
THEOREM ConflictHolds == Spec => []ConflictSignedTwice
<1>1. IndInv => CertInv
  BY DEF IndInv, CertInv
<1> QED BY <1>1, ConflictFromCert, InvariantHolds, PTL

\* So it is however often and whenever nodes restart.
THEOREM ClusterConflict == ClusterSpec => []ConflictSignedTwice
BY ConflictFromCert, CertificatesSurvive, PTL

\* What a validator of the height has finalized, the certificate's verifier
\* accepts, however often it and others have crashed (QuorumCertificate::verify).
THEOREM ClusterCertified == ClusterSpec => []MembersCommitCertified
<1>1. CertInv => MembersCommitCertified
  BY DEF CertInv, BlocksBacked, BlockBacked, MembersCommitCertified
<1> QED BY <1>1, CertificatesSurvive, PTL

\* A node that starts again from its store goes on with a chain: each of its
\* blocks is valid on the one before, and it works on the height above the last
\* (Node::new, BlockStore::tip).
THEOREM ClusterChained == ClusterSpec => []ChainLinked
<1>1. ClusterInit => ChainLinked
  BY SMT DEF ClusterInit, Init, ChainLinked, Nil
<1>2. CertInv /\ ChainLinked /\ [ClusterNext]_clusterVars => ChainLinked'
  <2> SUFFICES ASSUME CertInv, ChainLinked, [ClusterNext]_clusterVars PROVE ChainLinked'
    OBVIOUS
  <2>1. ASSUME NEW n \in Correct, Restart(n) PROVE ChainLinked'
    BY <2>1, RestartState DEF ChainLinked
  <2>2. CASE [Next]_vars
    BY <2>2, ChainStep DEF CertInv
  <2> QED BY <2>1, <2>2, ClusterStep
<1> QED BY <1>1, <1>2, CertificatesSurvive, PTL DEF ClusterSpec

\* Nor does a restart separate the value a node would propose again from its
\* lock: both are gone (Engine::new).
THEOREM ClusterCovers == ClusterSpec => []ValidCoversLock
<1> DEFINE Covers == LockApplied /\ ValidCoversLock
<1>1. ClusterInit => Covers
  BY ConstantTypes, SMT DEF ClusterInit, Init, LockApplied, ValidCoversLock
<1>2. CertInv /\ Covers /\ [ClusterNext]_clusterVars => Covers'
  <2> SUFFICES ASSUME CertInv, LockApplied, ValidCoversLock, [ClusterNext]_clusterVars
               PROVE  LockApplied' /\ ValidCoversLock'
    OBVIOUS
  <2>1. ASSUME NEW n \in Correct, Restart(n) PROVE LockApplied' /\ ValidCoversLock'
    <3>1. /\ validValue' = [validValue EXCEPT ![n] = Nil]
          /\ validRound' = [validRound EXCEPT ![n] = -1]
          /\ polkaApplied' = [polkaApplied EXCEPT ![n] = {}]
      BY <2>1 DEF Restart, Reboot
    <3>2. /\ round'[n] = 0 /\ lockedRound'[n] = -1 /\ lockedValue'[n] = Nil
          /\ validRound'[n] = -1 /\ validValue'[n] = Nil
      BY <2>1, <3>1, RestartState, SMT DEF CertInv, TypeOK
    <3>3. \A m \in Correct \ {n} :
            /\ round'[m] = round[m] /\ polkaApplied'[m] = polkaApplied[m]
            /\ lockedRound'[m] = lockedRound[m] /\ lockedValue'[m] = lockedValue[m]
            /\ validRound'[m] = validRound[m] /\ validValue'[m] = validValue[m]
      BY <2>1, <3>1, RestartState, SMT DEF CertInv, TypeOK
    <3> QED BY <3>2, <3>3, SMT DEF LockApplied, ValidCoversLock
  <2>2. CASE [Next]_vars
    BY <2>2, CoverStep DEF CertInv
  <2> QED BY <2>1, <2>2, ClusterStep
<1>3. Covers => ValidCoversLock
  OBVIOUS
<1> HIDE DEF Covers
<1> QED BY <1>1, <1>2, <1>3, CertificatesSurvive, PTL DEF ClusterSpec

-----------------------------------------------------------------------------
(* The restart of a node that has not voted at its height.                 *)

\* Node n has cast no vote at the height it works on.
NotVoted(n) == \A v \in sentVotes : v.voter = n => v.height # height[n]

\* Nodes restart only before they have voted at their height.
RestartsBeforeVoting ==
    [][\A n \in Correct : Restart(n) => NotVoted(n)]_clusterVars

\* Such a restart loses no vote and no lock that IndInv speaks of.
LEMMA RestartInv ==
    ASSUME IndInv, NEW n \in Correct, Restart(n), NotVoted(n)
    PROVE  IndInv'
<1>1. /\ TypeOK /\ StoresAuthentic /\ VotesInOrder /\ VoteOnce /\ LockBacked
      /\ PrecommitsLocked /\ LockRespected /\ SharesOfHeight
      /\ BlocksBacked /\ SyncAtStart
  BY DEF IndInv
<1>2. TypeOK' /\ StoresAuthentic' /\ SharesOfHeight' /\ BlocksBacked' /\ SyncAtStart'
  BY <1>1, RestartCert DEF CertInv
<1>3. VoteOnce' /\ LockRespected'
  BY <1>1, RestartState, ZenonT(40) DEF VoteOnce, LockRespected, Backed, Cast
<1>4. sentVotes' = sentVotes /\ height' = height
  BY RestartState
<1>5. \A m \in Correct \ {n} :
        /\ round'[m] = round[m] /\ step'[m] = step[m]
        /\ lockedRound'[m] = lockedRound[m] /\ lockedValue'[m] = lockedValue[m]
  BY <1>1, RestartState, SMT DEF TypeOK
<1>6. lockedRound'[n] = -1
  BY <1>1, RestartState, SMT DEF TypeOK
<1>7. VotesInOrder'
  <2> SUFFICES ASSUME NEW vm \in sentVotes
               PROVE  vm.voter \in Correct /\ VoteBehind(vm, vm.voter)'
    BY <1>4 DEF VotesInOrder, VoteBehind
  <2>1. vm.voter \in Correct /\ VoteBehind(vm, vm.voter)
    BY <1>1 DEF VotesInOrder
  <2>2. CASE vm.voter = n
    BY <1>4, <2>1, <2>2 DEF NotVoted, VoteBehind
  <2>3. CASE vm.voter # n
    BY <1>4, <1>5, <2>1, <2>3 DEF VoteBehind
  <2> QED BY <2>1, <2>2, <2>3
<1>8. LockBacked'
  BY <1>1, <1>4, <1>5, <1>6 DEF LockBacked, Backed, Cast
<1>9. PrecommitsLocked'
  <2>1. \A vm \in sentVotes : vm.voter \in Correct /\ (vm.voter = n => vm.height # height[n])
    BY <1>1 DEF VotesInOrder, NotVoted
  <2> QED BY <1>1, <1>4, <1>5, <2>1 DEF PrecommitsLocked, Backed, Cast
<1> QED BY <1>2, <1>3, <1>7, <1>8, <1>9 DEF IndInv

\* The invariant of the engines survives every step of the cluster and every
\* restart before voting.
THEOREM InvariantSurvives == ClusterSpec /\ RestartsBeforeVoting => []IndInv
<1>1. ClusterInit => IndInv
  BY InitInv DEF ClusterInit
<1>2. /\ IndInv /\ [ClusterNext]_clusterVars
      /\ [\A n \in Correct : Restart(n) => NotVoted(n)]_clusterVars
      => IndInv'
  <2> SUFFICES ASSUME IndInv, [ClusterNext]_clusterVars,
                      [\A n \in Correct : Restart(n) => NotVoted(n)]_clusterVars
               PROVE  IndInv'
    OBVIOUS
  <2>1. CASE [Next]_vars
    BY <2>1, InvStep
  <2>2. CASE UNCHANGED clusterVars
    BY <2>2, InvStep DEF clusterVars
  <2>3. ASSUME NEW n \in Correct, Restart(n), ~UNCHANGED clusterVars PROVE IndInv'
    BY <2>3, RestartInv
  <2> QED BY <2>1, <2>2, <2>3, ClusterStep
<1> QED BY <1>1, <1>2, PTL DEF ClusterSpec, RestartsBeforeVoting

\* Finality, of certificates of one round, holds in the cluster as long as no
\* node restarts after it has voted at its height: what a restart forgets is
\* all that endangers it (Engine::new).
THEOREM ClusterAgrees == ClusterSpec /\ RestartsBeforeVoting => []Agreement
BY InvariantSurvives, AgreementFromInv, PTL

\* So does one vote per round, and a lock is never contradicted.
THEOREM ClusterVotesOnce == ClusterSpec /\ RestartsBeforeVoting => []VoteOnce
<1>1. IndInv => VoteOnce
  BY DEF IndInv
<1> QED BY <1>1, InvariantSurvives, PTL

\* Then the nodes of the cluster implement the abstract ledger, restarts
\* included, if every certificate is of precommits of one round: what they hold
\* with certificates is one log that only grows.
THEOREM ClusterImplementsLedger ==
    ClusterSpec /\ RestartsBeforeVoting /\ []OneRound => ImplementsLedger
<1>1. IndInv /\ CertifiedSame' /\ [ClusterNext]_clusterVars => [Promise!Next]_CertifiedLog
  <2> SUFFICES ASSUME IndInv, CertifiedSame', [ClusterNext]_clusterVars
               PROVE  [Promise!Next]_CertifiedLog
    OBVIOUS
  <2>1. CASE [Next]_vars
    BY <2>1, LedgerStep
  <2>2. ASSUME NEW n \in Correct, Restart(n) PROVE [Promise!Next]_CertifiedLog
    <3>1. blocks' = blocks
      BY <2>2, RestartState
    <3>2. CertifiedLog' = CertifiedLog
      BY <3>1, LogIs DEF IndInv, TypeOK
    <3> QED BY <3>2
  <2> QED BY <2>1, <2>2, ClusterStep
<1>2. ClusterInit => Promise!Init
  BY LedgerInit DEF ClusterInit
<1> QED BY <1>1, <1>2, InvariantSurvives, SameFromInv, PTL
        DEF ClusterSpec, ImplementsLedger, Promise!Spec

\* And they are, restarts or not, where no vote is passed on altered and only
\* correct nodes answer a sync (Engine::try_commit).
THEOREM ClusterOneRound ==
    ASSUME Unaltered
    PROVE  ClusterSpec => []OneRound
<1>1. ClusterInit => OneRoundInv
  BY SMT DEF ClusterInit, Init, OneRoundInv, SharesHeard, OneRound
<1>2. CertInv /\ OneRoundInv /\ [ClusterNext]_clusterVars => OneRoundInv'
  <2> SUFFICES ASSUME CertInv, OneRoundInv, [ClusterNext]_clusterVars PROVE OneRoundInv'
    OBVIOUS
  <2>1. CASE [Next]_vars
    BY <2>1, Classify, OneRoundStep DEF CertInv
  <2>2. ASSUME NEW n \in Correct, Restart(n) PROVE OneRoundInv'
    <3>1. \A m \in Correct : precommits'[m] \subseteq precommits[m]
      BY <2>2, RestartState, StoreTypes DEF CertInv
    <3>2. sentVotes' = sentVotes /\ blocks' = blocks
      BY <2>2, RestartState
    <3> QED BY <3>1, <3>2 DEF OneRoundInv, SharesHeard, OneRound, OfOneRound, CastPrecommit
  <2> QED BY <2>1, <2>2, ClusterStep
<1>3. OneRoundInv => OneRound
  BY DEF OneRoundInv
<1> QED BY <1>1, <1>2, <1>3, CertificatesSurvive, PTL DEF ClusterSpec

\* Nodes restart only while they are parked.
RestartsWhileParked ==
    [][\A n \in Correct : Restart(n) => parked[n]]_clusterVars

\* A node that restarts is at the start of round 0 with no timer of its own, and
\* parks (Engine::start_round).
LEMMA RestartIdle ==
    ASSUME TypeOK, IdleInv, NEW n \in Correct, Restart(n)
    PROVE  IdleInv'
<1>1. /\ timers' \subseteq timers /\ \A t \in timers' : t.node # n
      /\ mempool' = [mempool EXCEPT ![n] = {}]
      /\ proposals' = [proposals EXCEPT ![n] = {}]
      /\ parked' = [parked EXCEPT ![n] = TRUE]
  BY DEF Restart, Reboot
<1>2. TimersPast'
  BY <1>1, RestartState DEF IdleInv, TimersPast
<1>3. ParkedAtStart(n)' /\ SyncUntouched(n)'
  <2>1. /\ round'[n] = 0 /\ step'[n] = "Propose" /\ phase'[n] = "idle"
        /\ mempool'[n] = {} /\ proposals'[n] = {}
    BY <1>1, RestartState, SMT DEF TypeOK
  <2> QED BY <1>1, <2>1 DEF ParkedAtStart, SyncUntouched, Due
<1>4. ASSUME NEW m \in Correct, m # n PROVE ParkedAtStart(m)' /\ SyncUntouched(m)'
  <2>1. /\ round'[m] = round[m] /\ step'[m] = step[m] /\ phase'[m] = phase[m]
        /\ mempool'[m] = mempool[m] /\ proposals'[m] = proposals[m]
        /\ parked'[m] = parked[m] /\ height'[m] = height[m]
    BY <1>1, <1>4, RestartState, SMT DEF TypeOK
  <2>2. ParkedAtStart(m) /\ SyncUntouched(m)
    BY DEF IdleInv
  <2> QED BY <1>1, <2>1, <2>2 DEF ParkedAtStart, SyncUntouched, Due
<1> QED BY <1>2, <1>3, <1>4 DEF IdleInv

\* Restarting nodes while they idle is harmless: a parked node has not voted at
\* its height, and the restarted one parks again (README.md: an idle chain is
\* silent).  Certificates of one round agree as without restarts, and whoever
\* idles still has nothing to do and no vote cast.
THEOREM IdleRestartsHarmless ==
    ClusterSpec /\ RestartsWhileParked => [](Agreement /\ ParkedMeansIdle)
<1> DEFINE Both == IndInv /\ IdleInv
<1>1. ClusterInit => Both
  <2>1. Init => IdleInv
    BY ConstantTypes, SMT DEF Init, IdleInv, TimersPast, ParkedAtStart, SyncUntouched, Due
  <2> QED BY <2>1, InitInv DEF ClusterInit
<1>2. /\ Both /\ [ClusterNext]_clusterVars
      /\ [\A n \in Correct : Restart(n) => parked[n]]_clusterVars
      => Both'
  <2> SUFFICES ASSUME IndInv, IdleInv, [ClusterNext]_clusterVars,
                      [\A n \in Correct : Restart(n) => parked[n]]_clusterVars
               PROVE  IndInv' /\ IdleInv'
    OBVIOUS
  <2>1. CASE [Next]_vars
    <3>1. IndInv'
      BY <2>1, InvStep
    <3> QED BY <2>1, <3>1, IdleStep DEF IndInv
  <2>2. ASSUME NEW n \in Correct, Restart(n), ~UNCHANGED clusterVars
        PROVE  IndInv' /\ IdleInv'
    <3>1. parked[n]
      BY <2>2
    <3>2. NotVoted(n)
      BY <3>1, IdleFromInv DEF ParkedMeansIdle, NotVoted
    <3> QED BY <2>2, <3>2, RestartInv, RestartIdle DEF IndInv
  <2>3. UNCHANGED clusterVars => UNCHANGED vars
    BY DEF clusterVars
  <2> QED BY <2>1, <2>2, <2>3, ClusterStep
<1>3. Both => Agreement /\ ParkedMeansIdle
  BY AgreementFromInv, IdleFromInv DEF IndInv
<1> HIDE DEF Both
<1> QED BY <1>1, <1>2, <1>3, PTL DEF ClusterSpec, RestartsWhileParked

-----------------------------------------------------------------------------
(* A network without followers.                                            *)

\* Every correct node is a validator at every height.
AllValidate == \A h \in Height : Correct \subseteq ActiveSet[h]

\* The blocks of two nodes at one height are the same, certified or not.
SameChains ==
    \A n, m \in Correct : \A h \in DOMAIN blocks[n] \cap DOMAIN blocks[m] :
        blocks[n][h].value = blocks[m][h].value

\* In a network without followers what the end-to-end test asserts is true: a
\* finalized block carries a certificate that verifies, restarts included
\* (crates/node/tests/devnet.rs, QuorumCertificate::verify).
THEOREM AllCertified ==
    ASSUME AllValidate
    PROVE  ClusterSpec => []CommittedCertified
<1>1. CertInv => CommittedCertified
  BY DEF CertInv, BlocksBacked, BlockBacked, AllValidate, CommittedCertified
<1> QED BY <1>1, CertificatesSurvive, PTL

\* There any two nodes have the same block at every height both have reached,
\* if every certificate is of precommits of one round (Engine::commit,
\* apply_synced_block).
THEOREM AllAgree ==
    ASSUME AllValidate
    PROVE  Spec /\ []OneRound => []SameChains
<1>1. IndInv /\ OneRound => SameChains
  <2> SUFFICES ASSUME IndInv, OneRound PROVE SameChains
    OBVIOUS
  <2>1. \A n \in Correct : \A h \in DOMAIN blocks[n] : Certifies(blocks[n][h].qc, ActiveSet[h])
    BY DEF IndInv, BlocksBacked, BlockBacked, AllValidate
  <2> QED BY <2>1, SameFromInv DEF CertifiedSame, SameChains
<1> QED BY <1>1, InvariantHolds, PTL
=============================================================================
