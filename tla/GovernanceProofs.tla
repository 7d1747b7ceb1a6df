-------------------------- MODULE GovernanceProofs --------------------------
(***************************************************************************)
(* That the validator set is a function of the chain, for any number of    *)
(* nodes, blocks and changes.                                              *)
(***************************************************************************)
EXTENDS Governance, Lemmas

\* Zenon proves a step that names no other prover.
USE Zenon

-----------------------------------------------------------------------------
(* The loop over changes.                                                  *)

\* The function f satisfies the equation of the one in AllApplied, up to n.
Applying(keys, changes, f, n) ==
    f = [i \in 0..n |-> IF i = 0 THEN keys ELSE Applied(f[i - 1], changes[i])]

\* The same, for each place.
LEMMA ApplyingAt ==
    ASSUME NEW keys, NEW changes, NEW f, NEW n \in Nat, Applying(keys, changes, f, n)
    PROVE  /\ f[0] = keys
           /\ \A i \in 0..n - 1 : f[i + 1] = Applied(f[i], changes[i + 1])
<1>1. f[0] = keys
  BY SMT DEF Applying
<1>2. ASSUME NEW i \in 0..n - 1 PROVE f[i + 1] = Applied(f[i], changes[i + 1])
  <2>1. i + 1 \in 0..n /\ i + 1 # 0 /\ (i + 1) - 1 = i
    BY SMT
  <2> QED BY <2>1 DEF Applying
<1> QED BY <1>1, <1>2

\* There is such a function.
LEMMA ApplyingExists ==
    ASSUME NEW keys, NEW changes, NEW n \in Nat
    PROVE  \E f : Applying(keys, changes, f, n)
<1> DEFINE T == {m \in Nat : \E f : Applying(keys, changes, f, m)}
<1>1. 0 \in T
  <2> DEFINE f == [i \in 0..0 |-> keys]
  <2>1. Applying(keys, changes, f, 0)
    BY SMT DEF Applying
  <2> HIDE DEF f
  <2> QED BY <2>1
<1>2. ASSUME NEW m \in Nat, m \in T PROVE m + 1 \in T
  <2>1. PICK f : Applying(keys, changes, f, m)
    BY <1>2
  <2> DEFINE next == Applied(f[m], changes[m + 1])
             g == [i \in 0..m + 1 |-> IF i = m + 1 THEN next ELSE f[i]]
  <2>2. \A i \in 0..m : g[i] = f[i]
    BY SMT
  <2>3. g[m + 1] = next
    BY SMT
  <2>4. ASSUME NEW i \in 0..m + 1
        PROVE  g[i] = IF i = 0 THEN keys ELSE Applied(g[i - 1], changes[i])
    <3>1. CASE i = m + 1
      BY <2>2, <2>3, <3>1, SMT
    <3>2. CASE i # m + 1
      <4>1. i \in 0..m /\ (i # 0 => i - 1 \in 0..m)
        BY <3>2, SMT
      <4>2. f[i] = IF i = 0 THEN keys ELSE Applied(f[i - 1], changes[i])
        BY <2>1, <4>1 DEF Applying
      <4> QED BY <2>2, <4>1, <4>2
    <3> QED BY <3>1, <3>2
  <2>5. Applying(keys, changes, g, m + 1)
    BY <2>4 DEF Applying
  <2> HIDE DEF g
  <2> QED BY <2>5, SMT
<1> HIDE DEF T
<1>3. n \in T
  BY <1>1, <1>2, Induction, SMT
<1> QED BY <1>3 DEF T

\* AllApplied is its last value.
LEMMA AllAppliedIs ==
    ASSUME NEW X, NEW changes \in Seq(X), NEW keys
    PROVE  \E f : /\ Applying(keys, changes, f, Len(changes))
                  /\ AllApplied(keys, changes) = f[Len(changes)]
<1> DEFINE f == CHOOSE f : Applying(keys, changes, f, Len(changes))
<1>1. Len(changes) \in Nat
  BY SMT
<1>2. Applying(keys, changes, f, Len(changes))
  BY <1>1, ApplyingExists
<1>3. AllApplied(keys, changes) = f[Len(changes)]
  BY DEF AllApplied, Applying
<1> HIDE DEF f
<1> QED BY <1>2, <1>3

\* Changes keep the set finite.
LEMMA AllAppliedFinite ==
    ASSUME NEW changes \in Seq(Signed), NEW keys, IsFiniteSet(keys)
    PROVE  IsFiniteSet(AllApplied(keys, changes))
<1> DEFINE N == Len(changes)
<1>1. PICK f : /\ Applying(keys, changes, f, N)
               /\ AllApplied(keys, changes) = f[N]
  BY AllAppliedIs
<1>2. N \in Nat /\ \A i \in 1..N : changes[i] \in Signed
  BY SMT
<1> HIDE DEF N
<1>3. f[0] = keys /\ \A i \in 0..N - 1 : f[i + 1] = Applied(f[i], changes[i + 1])
  BY <1>1, <1>2, ApplyingAt, SMT
<1> DEFINE T == {i \in Nat : IsFiniteSet(f[i])}
<1>4. 0 \in T
  BY <1>3
<1>5. ASSUME NEW i \in 0..N - 1, i \in T PROVE i + 1 \in T
  <2>1. changes[i + 1] \in Signed
    BY <1>2, SMT
  <2>2. IsFiniteSet(changes[i + 1].adds)
    BY <2>1, GovernanceAssumption
  <2>3. IsFiniteSet(f[i] \ changes[i + 1].removes)
    BY <1>5, FS_Difference
  <2>4. IsFiniteSet((f[i] \ changes[i + 1].removes) \cup changes[i + 1].adds)
    BY <2>2, <2>3, FS_Union
  <2>5. f[i + 1] = (f[i] \ changes[i + 1].removes) \cup changes[i + 1].adds
    BY <1>3 DEF Applied
  <2>6. i + 1 \in Nat /\ IsFiniteSet(f[i + 1])
    BY <2>4, <2>5, SMT
  <2> QED BY <2>6
<1> HIDE DEF T
<1>6. \A i \in 0..N : i \in T
  BY <1>2, <1>4, <1>5, Induction
<1> QED BY <1>1, <1>2, <1>6, SMT DEF T

-----------------------------------------------------------------------------
(* The loop over heights.                                                  *)

\* The function f satisfies the equation of the one in ActiveSet, up to h.
Staged(changes, f, h) ==
    f = [a \in 0..h |-> AllApplied(IF a = 0 THEN Genesis ELSE f[a - 1],
                                   ActivatedAt(changes, a))]

\* The same, for each height.
LEMMA StagedAt ==
    ASSUME NEW changes, NEW f, NEW h \in Nat, Staged(changes, f, h)
    PROVE  /\ f[0] = AllApplied(Genesis, ActivatedAt(changes, 0))
           /\ \A a \in 0..h - 1 :
                f[a + 1] = AllApplied(f[a], ActivatedAt(changes, a + 1))
<1>1. f[0] = AllApplied(Genesis, ActivatedAt(changes, 0))
  BY SMT DEF Staged
<1>2. ASSUME NEW a \in 0..h - 1
      PROVE  f[a + 1] = AllApplied(f[a], ActivatedAt(changes, a + 1))
  <2>1. a + 1 \in 0..h /\ a + 1 # 0 /\ (a + 1) - 1 = a
    BY SMT
  <2> QED BY <2>1 DEF Staged
<1> QED BY <1>1, <1>2

\* There is such a function.
LEMMA StagedExists ==
    ASSUME NEW changes, NEW h \in Nat
    PROVE  \E f : Staged(changes, f, h)
<1> DEFINE T == {m \in Nat : \E f : Staged(changes, f, m)}
<1>1. 0 \in T
  <2> DEFINE f == [a \in 0..0 |-> AllApplied(Genesis, ActivatedAt(changes, 0))]
  <2>1. Staged(changes, f, 0)
    BY SMT DEF Staged
  <2> HIDE DEF f
  <2> QED BY <2>1
<1>2. ASSUME NEW m \in Nat, m \in T PROVE m + 1 \in T
  <2>1. PICK f : Staged(changes, f, m)
    BY <1>2
  <2> DEFINE next == AllApplied(f[m], ActivatedAt(changes, m + 1))
             g == [a \in 0..m + 1 |-> IF a = m + 1 THEN next ELSE f[a]]
  <2>2. \A a \in 0..m : g[a] = f[a]
    BY SMT
  <2>3. g[m + 1] = next
    BY SMT
  <2>4. ASSUME NEW a \in 0..m + 1
        PROVE  g[a] = AllApplied(IF a = 0 THEN Genesis ELSE g[a - 1], ActivatedAt(changes, a))
    <3>1. CASE a = m + 1
      BY <2>2, <2>3, <3>1, SMT
    <3>2. CASE a # m + 1
      <4>1. a \in 0..m /\ (a # 0 => a - 1 \in 0..m)
        BY <3>2, SMT
      <4>2. f[a] = AllApplied(IF a = 0 THEN Genesis ELSE f[a - 1], ActivatedAt(changes, a))
        BY <2>1, <4>1 DEF Staged
      <4> QED BY <2>2, <4>1, <4>2
    <3> QED BY <3>1, <3>2
  <2>5. Staged(changes, g, m + 1)
    BY <2>4 DEF Staged
  <2> HIDE DEF g
  <2> QED BY <2>5, SMT
<1> HIDE DEF T
<1>3. h \in T
  BY <1>1, <1>2, Induction, SMT
<1> QED BY <1>3 DEF T

\* ActiveSet is its last value.
LEMMA ActiveSetIs ==
    ASSUME NEW changes, NEW h \in Nat
    PROVE  \E f : Staged(changes, f, h) /\ ActiveSet(changes, h) = f[h]
<1> DEFINE f == CHOOSE f : Staged(changes, f, h)
<1>1. Staged(changes, f, h)
  BY StagedExists
<1>2. ActiveSet(changes, h) = f[h]
  BY DEF ActiveSet, Staged
<1> HIDE DEF f
<1> QED BY <1>1, <1>2

\* Two records that have the same effect at every height up to h give the same
\* validators at h.
LEMMA ActiveSetAgree ==
    ASSUME NEW r, NEW s, NEW h \in Nat,
           \A a \in 0..h : \A keys :
               AllApplied(keys, ActivatedAt(r, a)) = AllApplied(keys, ActivatedAt(s, a))
    PROVE  ActiveSet(r, h) = ActiveSet(s, h)
<1>1. PICK f : Staged(r, f, h) /\ ActiveSet(r, h) = f[h]
  BY ActiveSetIs
<1>2. PICK g : Staged(s, g, h) /\ ActiveSet(s, h) = g[h]
  BY ActiveSetIs
<1>3. /\ f[0] = AllApplied(Genesis, ActivatedAt(r, 0))
      /\ \A a \in 0..h - 1 : f[a + 1] = AllApplied(f[a], ActivatedAt(r, a + 1))
  BY <1>1, StagedAt
<1>4. /\ g[0] = AllApplied(Genesis, ActivatedAt(s, 0))
      /\ \A a \in 0..h - 1 : g[a + 1] = AllApplied(g[a], ActivatedAt(s, a + 1))
  BY <1>2, StagedAt
<1> DEFINE T == {a \in Nat : f[a] = g[a]}
<1>5. 0 \in T
  <2>1. AllApplied(Genesis, ActivatedAt(r, 0)) = AllApplied(Genesis, ActivatedAt(s, 0))
    BY SMT
  <2> QED BY <1>3, <1>4, <2>1
<1>6. ASSUME NEW a \in 0..h - 1, a \in T PROVE a + 1 \in T
  <2>1. a + 1 \in 0..h
    BY SMT
  <2>2. AllApplied(f[a], ActivatedAt(r, a + 1)) = AllApplied(f[a], ActivatedAt(s, a + 1))
    BY <2>1
  <2>3. f[a] = g[a] /\ a + 1 \in Nat
    BY <1>6, SMT
  <2> QED BY <1>3, <1>4, <2>2, <2>3
<1> HIDE DEF T
<1>7. \A a \in 0..h : a \in T
  BY <1>5, <1>6, Induction
<1>8. h \in T
  BY <1>7, SMT
<1> QED BY <1>1, <1>2, <1>8 DEF T

\* The validators at a height are finitely many.
LEMMA ActiveSetFinite ==
    ASSUME NEW changes \in Seq(Signed), NEW h \in Nat
    PROVE  IsFiniteSet(ActiveSet(changes, h))
<1>1. PICK f : Staged(changes, f, h) /\ ActiveSet(changes, h) = f[h]
  BY ActiveSetIs
<1>2. /\ f[0] = AllApplied(Genesis, ActivatedAt(changes, 0))
      /\ \A a \in 0..h - 1 : f[a + 1] = AllApplied(f[a], ActivatedAt(changes, a + 1))
  BY <1>1, StagedAt
<1> DEFINE T == {a \in Nat : IsFiniteSet(f[a])}
<1>3. 0 \in T
  <2>1. ActivatedAt(changes, 0) \in Seq(Signed)
    BY RetainEmbeds DEF ActivatedAt
  <2>2. IsFiniteSet(AllApplied(Genesis, ActivatedAt(changes, 0)))
    BY <2>1, AllAppliedFinite, GovernanceAssumption
  <2> QED BY <1>2, <2>2
<1>4. ASSUME NEW a \in 0..h - 1, a \in T PROVE a + 1 \in T
  <2>1. ActivatedAt(changes, a + 1) \in Seq(Signed)
    BY RetainEmbeds DEF ActivatedAt
  <2>2. IsFiniteSet(AllApplied(f[a], ActivatedAt(changes, a + 1)))
    BY <1>4, <2>1, AllAppliedFinite
  <2> QED BY <1>2, <2>2, SMT
<1> HIDE DEF T
<1>5. \A a \in 0..h : a \in T
  BY <1>3, <1>4, Induction
<1>6. h \in T
  BY <1>5, SMT
<1> QED BY <1>1, <1>6 DEF T

-----------------------------------------------------------------------------
(* The record of a chain.                                                  *)

Block == [governance : Seq(Signed), signers : SUBSET Node]

\* A block adds its governance at the end of the record.
LEMMA RecordedAppend ==
    ASSUME NEW blocks \in Seq(Block), NEW b \in Block
    PROVE  /\ Recorded(blocks) \in Seq(Signed)
           /\ Recorded(Append(blocks, b)) = Recorded(blocks) \o b.governance
<1> DEFINE Y == Seq(Signed)
           ss == [h \in DOMAIN blocks |-> blocks[h].governance]
           tt == [h \in DOMAIN Append(blocks, b) |-> Append(blocks, b)[h].governance]
<1>1. ASSUME NEW h \in DOMAIN blocks PROVE blocks[h].governance \in Y
  <2>1. blocks[h] \in Block
    BY SMT
  <2> QED BY <2>1 DEF Block
<1>2. b.governance \in Y
  BY DEF Block
<1> HIDE DEF Y
<1>3. ss \in Seq(Y) /\ Len(ss) = Len(blocks)
  BY <1>1, SMT
<1>4. tt = Append(ss, b.governance)
  <2>1. DOMAIN tt = 1..Len(blocks) + 1 /\ DOMAIN Append(ss, b.governance) = 1..Len(blocks) + 1
    BY <1>3, SMT
  <2>2. ASSUME NEW h \in 1..Len(blocks) + 1
        PROVE  tt[h] = Append(ss, b.governance)[h]
    <3>1. CASE h = Len(blocks) + 1
      BY <1>2, <1>3, <3>1, SMT
    <3>2. CASE h # Len(blocks) + 1
      <4>1. h \in 1..Len(blocks)
        BY <3>2, SMT
      <4>2. Append(blocks, b)[h] = blocks[h]
        BY <4>1, SMT
      <4>3. tt[h] = blocks[h].governance
        BY <4>1, <4>2, SMT
      <4>4. Append(ss, b.governance)[h] = ss[h]
        BY <1>2, <1>3, <4>1, SMT
      <4> QED BY <4>1, <4>3, <4>4, SMT
    <3> QED BY <3>1, <3>2
  <2>3. Append(ss, b.governance) \in Seq(Y)
    BY <1>2, <1>3, SMT
  <2> HIDE DEF tt, ss
  <2>4. tt = [h \in 1..Len(blocks) + 1 |-> tt[h]]
    BY <2>1 DEF tt
  <2>5. Append(ss, b.governance) = [h \in 1..Len(blocks) + 1 |-> Append(ss, b.governance)[h]]
    BY <2>1, <2>3, SMT
  <2> QED BY <2>2, <2>4, <2>5
<1>5. Recorded(blocks) = Flatten(ss) /\ Recorded(Append(blocks, b)) = Flatten(tt)
  BY DEF Recorded
<1> HIDE DEF ss, tt
<1>6. /\ Flatten(ss) \in Seq(Signed)
      /\ Flatten(Append(ss, b.governance)) = Flatten(ss) \o b.governance
  BY <1>2, <1>3, FlattenAppend DEF Y
<1> QED BY <1>4, <1>5, <1>6

\* The empty chain records nothing.
LEMMA RecordedEmpty == Recorded(<<>>) = <<>>
<1>1. [h \in DOMAIN <<>> |-> <<>>[h].governance] = <<>>
  BY SMT
<1> QED BY <1>1, FlattenEmpty DEF Recorded

\* The record is a sequence of changes.
LEMMA RecordedType ==
    ASSUME NEW blocks \in Seq(Block)
    PROVE  Recorded(blocks) \in Seq(Signed)
<1> DEFINE b == [governance |-> <<>>, signers |-> {}]
<1>1. b \in Block
  BY SMT DEF Block
<1> QED BY <1>1, RecordedAppend

\* Changes that activate above h leave the sets up to h alone.
LEMMA LaterChanges ==
    ASSUME NEW r \in Seq(Signed), NEW g \in Seq(Signed), NEW h \in Nat,
           \A i \in DOMAIN g : g[i].activation > h
    PROVE  ActiveSet(r \o g, h) = ActiveSet(r, h)
<1>1. ASSUME NEW a \in 0..h PROVE ActivatedAt(r \o g, a) = ActivatedAt(r, a)
  <2> DEFINE S == {c \in Signed : c.activation = a}
  <2>1. ASSUME NEW i \in 1..Len(g) PROVE g[i] \notin S
    <3>1. g[i].activation > h
      BY SMT
    <3>2. g[i] \in Signed /\ g[i].activation \in Nat
      BY GovernanceAssumption, SMT
    <3> QED BY <3>1, <3>2, SMT
  <2> HIDE DEF S
  <2>2. Retain(r \o g, S) = Retain(r, S)
    BY <2>1, RetainPrefix
  <2> QED BY <2>2 DEF ActivatedAt, S
<1> QED BY <1>1, ActiveSetAgree

-----------------------------------------------------------------------------
(* The invariant.                                                          *)

\* The blocks below a height already give its set.
PrefixDecides ==
    \A k \in 0..Len(chain) :
        ActiveSet(Recorded(SubSeq(chain, 1, k)), k + 1) = SetAt(k + 1)

\* A node's registry is the record of the blocks below its height.
RegistryFromChain ==
    \A n \in Node : registry[n] = Recorded(SubSeq(chain, 1, height[n] - 1))

\* No node is beyond the chain, and the chain is within its bound.
HeightsOK ==
    /\ Len(chain) <= MaxBlocks
    /\ \A n \in Node : height[n] <= Len(chain) + 1

\* The inductive invariant: a set that only looks right (SetFromChain) may be
\* lost at the next block, unless the registry behind it is right as well and
\* the rest of the chain cannot reach back.
IInv ==
    /\ TypeOK
    /\ HeightsOK
    /\ RegistryFromChain
    /\ SetFromChain
    /\ PrefixDecides
    /\ ChainVerifies

-----------------------------------------------------------------------------
(* The pools.                                                              *)

\* What is kept of a sequence without repetitions has none.
LEMMA RetainInjective ==
    ASSUME NEW X, NEW s \in Seq(X), NEW S, IsInjective(s)
    PROVE  IsInjective(Retain(s, S))
<1>1. PICK e : Embeds(e, Retain(s, S), s, S, Len(s))
  BY RetainEmbeds
<1> DEFINE r == Retain(s, S)
<1>2. r \in Seq(X)
  BY RetainEmbeds
<1> HIDE DEF r
<1>3. /\ \A i \in 1..Len(r) : e[i] \in 1..Len(s) /\ r[i] = s[e[i]]
      /\ \A i, j \in 1..Len(r) : i < j => e[i] < e[j]
  BY <1>1 DEF Embeds, r
<1>4. ASSUME NEW i \in 1..Len(r), NEW j \in 1..Len(r), i < j
      PROVE  r[i] # r[j]
  <2>1. e[i] < e[j] /\ e[i] \in 1..Len(s) /\ e[j] \in 1..Len(s)
    BY <1>3, <1>4
  <2>2. e[i] # e[j]
    BY <2>1, SMT
  <2> QED BY <1>3, <2>1, <2>2, SMT DEF IsInjective
<1>5. \A i, j \in 1..Len(r) : r[i] = r[j] => i = j
  BY <1>4, SMT
<1> QED BY <1>2, <1>5, SMT DEF IsInjective, r

\* Nor does a sequence that takes a new element.
LEMMA AppendNew ==
    ASSUME NEW X, NEW s \in Seq(X), NEW x \in X, IsInjective(s), x \notin Range(s)
    PROVE  IsInjective(Append(s, x))
<1> DEFINE t == Append(s, x)
<1>1. /\ t \in Seq(X) /\ Len(t) = Len(s) + 1
      /\ \A i \in 1..Len(s) : t[i] = s[i]
      /\ t[Len(s) + 1] = x
  BY SMT
<1>2. \A i \in 1..Len(s) : s[i] # x
  BY SMT DEF Range
<1>3. \A i, j \in 1..Len(s) : s[i] = s[j] => i = j
  BY SMT DEF IsInjective
<1> HIDE DEF t
<1>4. \A i, j \in 1..Len(t) : t[i] = t[j] => i = j
  BY <1>1, <1>2, <1>3, SMT
<1> QED BY <1>1, <1>4, SMT DEF IsInjective, t

-----------------------------------------------------------------------------
(* The invariant holds.                                                    *)

\* Without any change, the genesis validators.
LEMMA GenesisSet ==
    ASSUME NEW h \in Nat
    PROVE  ActiveSet(<<>>, h) = Genesis
<1>1. PICK f : Staged(<<>>, f, h) /\ ActiveSet(<<>>, h) = f[h]
  BY ActiveSetIs
<1>2. /\ f[0] = AllApplied(Genesis, ActivatedAt(<<>>, 0))
      /\ \A a \in 0..h - 1 : f[a + 1] = AllApplied(f[a], ActivatedAt(<<>>, a + 1))
  BY <1>1, StagedAt
<1>3. ASSUME NEW a PROVE ActivatedAt(<<>>, a) = <<>>
  <2> DEFINE S == {c \in Signed : c.activation = a}
  <2>1. <<>> \in Seq(Signed) /\ Len(<<>>) = 0
    BY SMT
  <2>2. PICK g : Retaining(<<>>, S, g, 0) /\ Retain(<<>>, S) = g[0]
    BY <2>1, RetainIs
  <2>3. g[0] = <<>>
    BY <2>2, RetainingAt
  <2> QED BY <2>2, <2>3 DEF ActivatedAt
<1>4. ASSUME NEW keys PROVE AllApplied(keys, <<>>) = keys
  <2>1. <<>> \in Seq(Signed) /\ Len(<<>>) = 0
    BY SMT
  <2>2. PICK g : Applying(keys, <<>>, g, 0) /\ AllApplied(keys, <<>>) = g[0]
    BY <2>1, AllAppliedIs
  <2> QED BY <2>2, ApplyingAt
<1> DEFINE T == {a \in Nat : f[a] = Genesis}
<1>5. 0 \in T
  <2>1. 0 \in Nat
    BY SMT
  <2> QED BY <1>2, <1>3, <1>4, <2>1
<1>6. ASSUME NEW a \in 0..h - 1, a \in T PROVE a + 1 \in T
  <2>1. a + 1 \in Nat
    BY SMT
  <2>2. f[a] = Genesis /\ f[a + 1] = AllApplied(f[a], ActivatedAt(<<>>, a + 1))
    BY <1>2, <1>6
  <2>3. AllApplied(f[a], ActivatedAt(<<>>, a + 1)) = f[a]
    BY <1>3, <1>4
  <2> QED BY <2>1, <2>2, <2>3
<1> HIDE DEF T
<1>7. \A a \in 0..h : a \in T
  BY <1>5, <1>6, Induction
<1>8. h \in T
  BY <1>7, SMT
<1> QED BY <1>1, <1>8 DEF T

\* It holds at the start.
LEMMA InitIInv == Init => IInv
<1> SUFFICES ASSUME Init PROVE IInv
  OBVIOUS
<1>1. Recorded(chain) = <<>> /\ SetAt(1) = Genesis
  BY RecordedEmpty, GenesisSet, SMT DEF Init, SetAt
<1>2. SubSeq(chain, 1, 0) = <<>>
  BY SMT DEF Init
<1>3. TypeOK
  <2>1. IsInjective(<<>>)
    BY SMT DEF IsInjective
  <2>2. <<>> \in Seq(Signed) /\ <<>> \in Seq([governance : Seq(Signed), signers : SUBSET Node])
    BY SMT
  <2> QED BY <2>1, <2>2, GovernanceAssumption, SMT DEF Init, TypeOK, Height
<1>4. HeightsOK
  BY GovernanceAssumption, SMT DEF Init, HeightsOK
<1>5. RegistryFromChain /\ SetFromChain
  <2> SUFFICES ASSUME NEW n \in Node
               PROVE  /\ registry[n] = Recorded(SubSeq(chain, 1, height[n] - 1))
                      /\ currentSet[n] = SetAt(height[n])
    BY DEF RegistryFromChain, SetFromChain
  <2>1. height[n] = 1 /\ height[n] - 1 = 0 /\ registry[n] = <<>> /\ currentSet[n] = Genesis
    BY SMT DEF Init
  <2> QED BY <1>1, <1>2, <2>1, RecordedEmpty
<1>6. PrefixDecides
  <2> SUFFICES ASSUME NEW k \in 0..Len(chain)
               PROVE  ActiveSet(Recorded(SubSeq(chain, 1, k)), k + 1) = SetAt(k + 1)
    BY DEF PrefixDecides
  <2>1. k = 0 /\ chain = <<>>
    BY SMT DEF Init
  <2> QED BY <1>2, <2>1 DEF SetAt
<1>7. ChainVerifies
  BY SMT DEF Init, ChainVerifies
<1> QED BY <1>3, <1>4, <1>5, <1>6, <1>7 DEF IInv

\* A block whose changes are valid at its height leaves every set up to that
\* height as it was.
LEMMA BlockSettles ==
    ASSUME NEW c \in Seq(Block), NEW b \in Block, NEW S,
           IsValid(b.governance, Len(c) + 1, S)
    PROVE  \A h \in 0..Len(c) + 1 :
               ActiveSet(Recorded(Append(c, b)), h) = ActiveSet(Recorded(c), h)
<1>1. SUFFICES ASSUME NEW h \in 0..Len(c) + 1
               PROVE  ActiveSet(Recorded(Append(c, b)), h) = ActiveSet(Recorded(c), h)
  OBVIOUS
<1>2. b.governance \in Seq(Signed)
  BY DEF Block
<1>3. h \in Nat /\ Len(c) \in Nat
  BY SMT
<1>4. ASSUME NEW i \in DOMAIN b.governance PROVE b.governance[i].activation > h
  <2>1. b.governance[i].activation > Len(c) + 1
    BY DEF IsValid
  <2>2. b.governance[i] \in Signed
    BY <1>2, SMT
  <2>3. b.governance[i].activation \in Nat
    BY <2>2, GovernanceAssumption
  <2> QED BY <1>3, <2>1, <2>3, SMT
<1>5. ActiveSet(Recorded(c) \o b.governance, h) = ActiveSet(Recorded(c), h)
  BY <1>2, <1>3, <1>4, RecordedType, LaterChanges, SMTT(40)
<1> QED BY <1>5, RecordedAppend

\* The chain keeps its invariant when a valid, certified block is added to it.
LEMMA ChainGrows ==
    ASSUME NEW b \in Block, chain \in Seq(Block), PrefixDecides, ChainVerifies,
           IsValid(b.governance, Len(chain) + 1, SetAt(Len(chain) + 1)),
           Certifies(b.signers, SetAt(Len(chain) + 1)),
           chain' = Append(chain, b)
    PROVE  /\ chain' \in Seq(Block) /\ Len(chain') = Len(chain) + 1
           /\ \A h \in 0..Len(chain) + 1 : SetAt(h)' = SetAt(h)
           /\ \A k \in 0..Len(chain) : SubSeq(chain', 1, k) = SubSeq(chain, 1, k)
           /\ PrefixDecides' /\ ChainVerifies'
<1> DEFINE L == Len(chain)
<1>1. /\ L \in Nat /\ chain' \in Seq(Block) /\ Len(chain') = L + 1
      /\ \A k \in 1..L : chain'[k] = chain[k]
      /\ chain'[L + 1] = b
  BY SMT
<1>2. \A h \in 0..L + 1 : SetAt(h)' = SetAt(h)
  BY BlockSettles DEF SetAt
<1>3. ASSUME NEW k \in 0..L PROVE SubSeq(chain', 1, k) = SubSeq(chain, 1, k)
  <2>1. SubSeq(chain', 1, k) \in Seq(Block) /\ Len(SubSeq(chain', 1, k)) = k
    BY <1>1, SMT
  <2>2. SubSeq(chain, 1, k) \in Seq(Block) /\ Len(SubSeq(chain, 1, k)) = k
    BY <1>1, SMT
  <2>3. \A i \in 1..k : SubSeq(chain', 1, k)[i] = SubSeq(chain, 1, k)[i]
    BY <1>1, SMT
  <2> QED BY <2>1, <2>2, <2>3, SeqEqual
<1>4. SubSeq(chain', 1, L + 1) = chain'
  BY <1>1, SubSeqFull
<1> HIDE DEF L
<1>5. PrefixDecides'
  <2> SUFFICES ASSUME NEW k \in 0..L + 1
               PROVE  ActiveSet(Recorded(SubSeq(chain', 1, k)), k + 1) = SetAt(k + 1)'
    BY <1>1 DEF PrefixDecides
  <2>1. CASE k = L + 1
    BY <1>4, <2>1 DEF SetAt
  <2>2. CASE k # L + 1
    <3>1. k \in 0..L /\ k + 1 \in 0..L + 1
      BY <1>1, <2>2, SMT
    <3>2. ActiveSet(Recorded(SubSeq(chain, 1, k)), k + 1) = SetAt(k + 1)
      BY <3>1 DEF PrefixDecides, L
    <3> QED BY <1>2, <1>3, <3>1, <3>2
  <2> QED BY <2>1, <2>2
<1>6. ChainVerifies'
  <2> SUFFICES ASSUME NEW k \in 1..L + 1
               PROVE  /\ IsValid(chain'[k].governance, k, SetAt(k)')
                      /\ Certifies(chain'[k].signers, SetAt(k)')
    BY <1>1, SMT DEF ChainVerifies
  <2>1. SetAt(k)' = SetAt(k)
    BY <1>1, <1>2, SMT
  <2>2. CASE k = L + 1
    BY <1>1, <2>1, <2>2, SMTT(40) DEF L
  <2>3. CASE k # L + 1
    <3>1. k \in 1..L /\ k \in DOMAIN chain
      BY <1>1, <2>3, SMT DEF L
    <3> QED BY <1>1, <2>1, <3>1, SMTT(40) DEF ChainVerifies
  <2> QED BY <2>2, <2>3, ZenonT(40)
<1> QED BY <1>1, <1>2, <1>3, <1>5, <1>6 DEF L

\* A node that rolls forward over the block of its height in c, the chain as it
\* is afterwards, has the registry and the set for the height above.
LEMMA RollsForward ==
    ASSUME TypeOK, NEW n \in Node, NEW c \in Seq(Block), height[n] \in 1..Len(c),
           Len(c) <= MaxBlocks,
           registry[n] = Recorded(SubSeq(c, 1, height[n] - 1)),
           ActiveSet(Recorded(SubSeq(c, 1, height[n])), height[n] + 1)
               = ActiveSet(Recorded(c), height[n] + 1),
           RollForward(n, c[height[n]])
    PROVE  /\ height' \in [Node -> Height] /\ registry' \in [Node -> Seq(Signed)]
           /\ DOMAIN currentSet' = Node
           /\ \A m \in Node : IsFiniteSet(currentSet'[m])
           /\ height'[n] = height[n] + 1
           /\ registry'[n] = Recorded(SubSeq(c, 1, height'[n] - 1))
           /\ currentSet'[n] = ActiveSet(Recorded(c), height'[n])
           /\ \A m \in Node \ {n} : /\ height'[m] = height[m]
                                     /\ registry'[m] = registry[m]
                                     /\ currentSet'[m] = currentSet[m]
<1> DEFINE k == height[n]
<1>1. k \in Nat /\ k \in 1..Len(c) /\ k + 1 \in Height /\ (k + 1) - 1 = k
  BY GovernanceAssumption, SMT DEF Height
<1>2. /\ SubSeq(c, 1, k - 1) \in Seq(Block) /\ c[k] \in Block
      /\ SubSeq(c, 1, k) = Append(SubSeq(c, 1, k - 1), c[k])
  BY <1>1, UpTo
<1>3. /\ Recorded(SubSeq(c, 1, k)) = Recorded(SubSeq(c, 1, k - 1)) \o c[k].governance
      /\ Recorded(SubSeq(c, 1, k - 1)) \in Seq(Signed)
  BY <1>2, RecordedAppend
<1>4. c[k].governance \in Seq(Signed)
  BY <1>2 DEF Block
<1>5. Recorded(SubSeq(c, 1, k)) \in Seq(Signed)
  <2>1. SubSeq(c, 1, k) \in Seq(Block)
    BY <1>1, SMT
  <2> QED BY <2>1, RecordedType
<1>6. /\ height' = [height EXCEPT ![n] = k + 1] /\ height' \in [Node -> Height]
      /\ height'[n] = k + 1
  BY <1>1 DEF RollForward, TypeOK
<1>7. /\ registry' = [registry EXCEPT ![n] = Recorded(SubSeq(c, 1, k))]
      /\ registry' \in [Node -> Seq(Signed)]
      /\ registry'[n] = Recorded(SubSeq(c, 1, k))
  BY <1>3, <1>5 DEF RollForward, TypeOK
<1>8. IsFiniteSet(ActiveSet(Recorded(SubSeq(c, 1, k)), k + 1))
  <2>1. k + 1 \in Nat
    <3> HIDE DEF k
    <3> QED BY <1>1, SMT
  <2> QED BY <1>5, <2>1, ActiveSetFinite
<1>9. /\ DOMAIN currentSet' = Node
      /\ currentSet'[n] = ActiveSet(Recorded(SubSeq(c, 1, k)), k + 1)
      /\ \A m \in Node \ {n} : currentSet'[m] = currentSet[m]
  BY <1>6, <1>7 DEF RollForward, TypeOK
<1>10. \A m \in Node : IsFiniteSet(currentSet'[m])
  BY <1>8, <1>9 DEF TypeOK
<1> QED BY <1>1, <1>6, <1>7, <1>9, <1>10 DEF TypeOK

\* What a node makes of its pool is a sequence of changes from the pool that
\* pass the checks of its height.
LEMMA GovernanceOfValid ==
    ASSUME NEW p \in Node, govMempool[p] \in Seq(Signed)
    PROVE  /\ GovernanceOf(p) \in Seq(Signed)
           /\ IsValid(GovernanceOf(p), height[p], currentSet[p])
<1> DEFINE S == {c \in Signed : IsAuthorized(c, currentSet[p]) /\ c.activation > height[p]}
           g == GovernanceOf(p)
<1>1. g = Retain(govMempool[p], S)
  BY DEF GovernanceOf
<1>2. g \in Seq(Signed) /\ \E e : Embeds(e, g, govMempool[p], S, Len(govMempool[p]))
  BY <1>1, RetainEmbeds, ZenonT(40)
<1> HIDE DEF g, S
<1>3. \A i \in DOMAIN g : g[i] \in S
  BY <1>2, SMT DEF Embeds
<1> QED BY <1>2, <1>3 DEF IsValid, S, g

\* The pool after the changes of a block are dropped from it.
LEMMA PoolDrops ==
    ASSUME TypeOK, NEW n \in Node, NEW S,
           govMempool' = [govMempool EXCEPT ![n] = Retain(@, S)]
    PROVE  /\ govMempool' \in [Node -> Seq(Signed)]
           /\ \A m \in Node : IsInjective(govMempool'[m])
<1>1. Retain(govMempool[n], S) \in Seq(Signed) /\ IsInjective(Retain(govMempool[n], S))
  BY RetainEmbeds, RetainInjective DEF TypeOK
<1>2. /\ govMempool'[n] = Retain(govMempool[n], S)
      /\ \A m \in Node \ {n} : govMempool'[m] = govMempool[m]
  BY DEF TypeOK
<1> QED BY <1>1, <1>2 DEF TypeOK

\* The two ways to roll forward over a block of the chain as it is.
LEMMA FollowsChain ==
    ASSUME IInv, NEW n \in Node, height[n] <= Len(chain),
           RollForward(n, chain[height[n]]), UNCHANGED chain,
           govMempool' \in [Node -> Seq(Signed)],
           \A m \in Node : IsInjective(govMempool'[m])
    PROVE  IInv'
<1> DEFINE h == height[n]
<1>1. /\ chain \in Seq(Block) /\ Len(chain) \in Nat
      /\ h \in 1..Len(chain) /\ h \in 0..Len(chain)
  BY SMT DEF IInv, TypeOK, Block, Height
<1>2. /\ Len(chain) <= MaxBlocks
      /\ registry[n] = Recorded(SubSeq(chain, 1, h - 1))
      /\ ActiveSet(Recorded(SubSeq(chain, 1, h)), h + 1) = ActiveSet(Recorded(chain), h + 1)
  BY <1>1 DEF IInv, HeightsOK, RegistryFromChain, PrefixDecides, SetAt
<1>3. /\ height' \in [Node -> Height] /\ registry' \in [Node -> Seq(Signed)]
      /\ DOMAIN currentSet' = Node
      /\ \A m \in Node : IsFiniteSet(currentSet'[m])
      /\ height'[n] = h + 1
      /\ registry'[n] = Recorded(SubSeq(chain, 1, height'[n] - 1))
      /\ currentSet'[n] = ActiveSet(Recorded(chain), height'[n])
      /\ \A m \in Node \ {n} : /\ height'[m] = height[m]
                                /\ registry'[m] = registry[m]
                                /\ currentSet'[m] = currentSet[m]
  BY <1>1, <1>2, RollsForward DEF IInv
<1>4. chain' = chain
  OBVIOUS
<1>5. TypeOK'
  BY <1>1, <1>3, <1>4 DEF TypeOK, Block
<1>6. HeightsOK'
  <2>1. h + 1 <= Len(chain) + 1
    BY <1>1, SMT
  <2>2. \A m \in Node : height'[m] <= Len(chain) + 1
    BY <1>3, <2>1 DEF IInv, HeightsOK
  <2> QED BY <1>2, <1>4, <2>2 DEF HeightsOK
<1>7. RegistryFromChain'
  BY <1>3, <1>4 DEF IInv, RegistryFromChain
<1>8. SetFromChain'
  BY <1>3, <1>4, ZenonT(40) DEF IInv, SetFromChain, SetAt
<1>9. PrefixDecides' /\ ChainVerifies'
  BY <1>4 DEF IInv, PrefixDecides, ChainVerifies, SetAt
<1> QED BY <1>5, <1>6, <1>7, <1>8, <1>9 DEF IInv

\* A block becomes final because the nodes at its height, and the one that
\* commits it, work with the set that the chain gives.
LEMMA FinalBlock ==
    ASSUME IInv, NEW n \in Node, Finalize(n)
    PROVE  \E b \in Block :
               /\ Enact(n, b) /\ chain' = Append(chain, b)
               /\ IsValid(b.governance, Len(chain) + 1, SetAt(Len(chain) + 1))
               /\ Certifies(b.signers, SetAt(Len(chain) + 1))
<1> DEFINE h == height[n]
<1>1. h = Len(chain) + 1 /\ currentSet[n] = SetAt(Len(chain) + 1)
  BY DEF Finalize, IInv, SetFromChain
<1>2. PICK g \in Values(h) :
          /\ Enact(n, [governance |-> g, signers |-> Backers(g, h)])
          /\ chain' = Append(chain, [governance |-> g, signers |-> Backers(g, h)])
  BY DEF Finalize
<1> DEFINE b == [governance |-> g, signers |-> Backers(g, h)]
<1>3. g \in Seq(Signed)
  <2>1. ASSUME NEW p \in Node, g = GovernanceOf(p) PROVE g \in Seq(Signed)
    BY <2>1, GovernanceOfValid DEF IInv, TypeOK
  <2>2. <<>> \in Seq(Signed) /\ StrayValues \subseteq Seq(Signed)
    BY GovernanceAssumption, SMT
  <2> QED BY <2>1, <2>2, ZenonT(40) DEF Values
<1>4. b \in Block
  BY <1>3 DEF Block, Backers
<1>5. Enact(n, b) /\ chain' = Append(chain, b)
  BY <1>2
<1> HIDE DEF b
<1>6. /\ IsValid(b.governance, Len(chain) + 1, SetAt(Len(chain) + 1))
      /\ Certifies(b.signers, SetAt(Len(chain) + 1))
  BY <1>1, <1>5 DEF Enact, Accepts
<1> QED BY <1>4, <1>5, <1>6, SMTT(40)

\* Every step preserves the invariant.
LEMMA NextIInv == IInv /\ [Next]_vars => IInv'
<1> SUFFICES ASSUME IInv, [Next]_vars PROVE IInv'
  OBVIOUS
<1>0. /\ TypeOK /\ HeightsOK /\ RegistryFromChain /\ SetFromChain
      /\ PrefixDecides /\ ChainVerifies
      /\ chain \in Seq(Block) /\ Len(chain) \in Nat
  BY SMT DEF IInv, TypeOK, Block
<1>1. ASSUME NEW n \in Node, NEW c \in Signed, AddGovernance(n, c) PROVE IInv'
  <2>1. UNCHANGED <<chain, height, registry, currentSet>>
    BY <1>1 DEF AddGovernance
  <2>2. Append(govMempool[n], c) \in Seq(Signed) /\ IsInjective(Append(govMempool[n], c))
    BY <1>0, <1>1, AppendNew, SMT DEF AddGovernance, TypeOK
  <2>3. /\ govMempool'[n] = Append(govMempool[n], c)
        /\ \A m \in Node \ {n} : govMempool'[m] = govMempool[m]
        /\ govMempool' \in [Node -> Seq(Signed)]
    BY <1>0, <1>1, <2>2 DEF AddGovernance, TypeOK
  <2>4. TypeOK'
    BY <1>0, <2>1, <2>2, <2>3 DEF TypeOK
  <2> QED BY <1>0, <2>1, <2>4 DEF IInv, HeightsOK, RegistryFromChain, SetFromChain,
                                PrefixDecides, ChainVerifies, SetAt
<1>2. ASSUME NEW n \in Node, Finalize(n) PROVE IInv'
  <2> DEFINE h == height[n]
  <2>1. h = Len(chain) + 1 /\ Len(chain) < MaxBlocks
    BY <1>2 DEF Finalize
  <2>2. PICK b \in Block :
            /\ Enact(n, b) /\ chain' = Append(chain, b)
            /\ IsValid(b.governance, Len(chain) + 1, SetAt(Len(chain) + 1))
            /\ Certifies(b.signers, SetAt(Len(chain) + 1))
    BY <1>2, FinalBlock
  <2>7. /\ chain' \in Seq(Block) /\ Len(chain') = Len(chain) + 1
        /\ \A i \in 0..Len(chain) + 1 : SetAt(i)' = SetAt(i)
        /\ \A k \in 0..Len(chain) : SubSeq(chain', 1, k) = SubSeq(chain, 1, k)
        /\ PrefixDecides' /\ ChainVerifies'
    BY <1>0, <2>2, ChainGrows
  <2>8. chain'[h] = b /\ RollForward(n, chain'[h])
    BY <1>0, <2>1, <2>2, SMT DEF Enact
  <2>9. \A m \in Node : /\ height[m] \in Nat
                        /\ height[m] \in 0..Len(chain) + 1
                        /\ height[m] - 1 \in 0..Len(chain)
    BY <1>0, SMT DEF TypeOK, HeightsOK, Height
  <2>10. \A m \in Node : registry[m] = Recorded(SubSeq(chain', 1, height[m] - 1))
    BY <1>0, <2>7, <2>9 DEF RegistryFromChain
  <2>11. \A m \in Node : currentSet[m] = ActiveSet(Recorded(chain'), height[m])
    <3>1. ASSUME NEW m \in Node PROVE currentSet[m] = ActiveSet(Recorded(chain'), height[m])
      <4>1. currentSet[m] = ActiveSet(Recorded(chain), height[m])
        BY <1>0 DEF SetFromChain, SetAt
      <4>2. \A i \in 0..Len(chain) + 1 : ActiveSet(Recorded(chain'), i) = ActiveSet(Recorded(chain), i)
        BY <2>7 DEF SetAt
      <4> QED BY <2>9, <4>1, <4>2
    <3> QED BY <3>1
  <2>12. /\ h \in 1..Len(chain') /\ h \in 0..Len(chain')
         /\ Len(chain') <= MaxBlocks
         /\ ActiveSet(Recorded(SubSeq(chain', 1, h)), h + 1) = ActiveSet(Recorded(chain'), h + 1)
    <3>1. h \in 1..Len(chain') /\ h \in 0..Len(chain') /\ Len(chain') <= MaxBlocks
      BY <1>0, <2>1, <2>7, GovernanceAssumption, SMT
    <3>2. \A k \in 0..Len(chain') :
              ActiveSet(Recorded(SubSeq(chain', 1, k)), k + 1) = ActiveSet(Recorded(chain'), k + 1)
      BY <2>7 DEF PrefixDecides, SetAt
    <3> QED BY <3>1, <3>2
  <2>13. /\ height' \in [Node -> Height] /\ registry' \in [Node -> Seq(Signed)]
         /\ DOMAIN currentSet' = Node
         /\ \A m \in Node : IsFiniteSet(currentSet'[m])
         /\ height'[n] = h + 1
         /\ registry'[n] = Recorded(SubSeq(chain', 1, height'[n] - 1))
         /\ currentSet'[n] = ActiveSet(Recorded(chain'), height'[n])
         /\ \A m \in Node \ {n} : /\ height'[m] = height[m]
                                   /\ registry'[m] = registry[m]
                                   /\ currentSet'[m] = currentSet[m]
    BY <1>0, <2>7, <2>8, <2>10, <2>12, RollsForward
  <2>14. TypeOK'
    <3>1. /\ govMempool' \in [Node -> Seq(Signed)]
          /\ \A m \in Node : IsInjective(govMempool'[m])
      BY <1>0, <2>2, PoolDrops DEF Enact
    <3> QED BY <2>7, <2>13, <3>1 DEF TypeOK, Block
  <2>15. HeightsOK'
    <3>1. ASSUME NEW m \in Node PROVE height'[m] <= Len(chain') + 1
      <4>1. CASE m = n
        BY <1>0, <2>1, <2>7, <2>13, <4>1, SMT
      <4>2. CASE m # n
        BY <1>0, <2>7, <2>9, <2>13, <4>2, SMTT(40)
      <4> QED BY <4>1, <4>2
    <3> QED BY <2>12, <3>1 DEF HeightsOK
  <2>16. RegistryFromChain'
    BY <2>10, <2>13 DEF RegistryFromChain
  <2>17. SetFromChain'
    BY <2>11, <2>13 DEF SetFromChain, SetAt
  <2> QED BY <2>7, <2>14, <2>15, <2>16, <2>17 DEF IInv
<1>3. ASSUME NEW n \in Node, Commit(n) PROVE IInv'
  <2>1. /\ govMempool' \in [Node -> Seq(Signed)]
        /\ \A m \in Node : IsInjective(govMempool'[m])
    BY <1>0, <1>3, PoolDrops, ZenonT(40) DEF Commit, Enact
  <2> QED BY <1>3, <2>1, FollowsChain DEF Commit, Enact
<1>4. ASSUME NEW n \in Node, ApplySyncedBlock(n) PROVE IInv'
  <2>1. /\ govMempool' \in [Node -> Seq(Signed)]
        /\ \A m \in Node : IsInjective(govMempool'[m])
    BY <1>0, <1>4 DEF ApplySyncedBlock, TypeOK
  <2> QED BY <1>4, <2>1, FollowsChain DEF ApplySyncedBlock
<1>5. ASSUME NEW n \in Node, Reboot(n) PROVE IInv'
  <2>1. UNCHANGED <<chain, height>>
    BY <1>5 DEF Reboot
  <2>2. registry' = registry
    BY <1>0, <1>5 DEF Reboot, Rebuild, RegistryFromChain, TypeOK
  <2>3. /\ height[n] \in Nat /\ height[n] - 1 \in 0..Len(chain)
        /\ (height[n] - 1) + 1 = height[n]
    BY <1>0, SMT DEF TypeOK, Height, HeightsOK
  <2>4. ActiveSet(registry[n], height[n]) = currentSet[n]
    BY <1>0, <2>3 DEF RegistryFromChain, SetFromChain, PrefixDecides
  <2>5. \A m \in Node : currentSet'[m] = currentSet[m]
    BY <1>0, <1>5, <2>1, <2>2, <2>4 DEF Reboot, TypeOK
  <2>6. DOMAIN currentSet' = Node
    BY <1>0, <1>5 DEF Reboot, TypeOK
  <2>7. /\ govMempool' \in [Node -> Seq(Signed)]
        /\ \A m \in Node : IsInjective(govMempool'[m])
    <3>1. <<>> \in Seq(Signed) /\ IsInjective(<<>>)
      BY SMT DEF IsInjective
    <3> QED BY <1>0, <1>5, <3>1 DEF Reboot, TypeOK
  <2>8. TypeOK'
    BY <1>0, <2>1, <2>2, <2>5, <2>6, <2>7 DEF TypeOK
  <2> QED BY <1>0, <2>1, <2>2, <2>5, <2>8 DEF IInv, HeightsOK, RegistryFromChain,
                        SetFromChain, PrefixDecides, ChainVerifies, SetAt
<1>6. CASE UNCHANGED vars
  BY <1>0, <1>6 DEF vars, IInv, TypeOK, HeightsOK, RegistryFromChain, SetFromChain,
                    PrefixDecides, ChainVerifies, SetAt
<1> QED BY <1>1, <1>2, <1>3, <1>4, <1>5, <1>6 DEF Next

\* In every reachable state the types hold, and every node's registry and set
\* are the ones the chain gives for its height.
THEOREM GovernanceInvariant == Spec => []IInv
<1>1. Init => IInv
  BY InitIInv
<1>2. IInv /\ [Next]_vars => IInv'
  BY NextIInv
<1> QED BY <1>1, <1>2, PTL DEF Spec

-----------------------------------------------------------------------------
(* What follows from it.                                                   *)

\* The types hold, and no pool holds a change twice (Engine::add_governance).
THEOREM GovernanceTypes == Spec => []TypeOK
BY GovernanceInvariant, PTL DEF IInv

\* Committing, syncing and rebooting all lead to the set that the whole chain
\* gives for the height (Engine::reload_set, Node::new).
THEOREM SetsFromChain == Spec => []SetFromChain
BY GovernanceInvariant, PTL DEF IInv

\* What was finalized passes apply_synced_block at every node that comes to its
\* height later.
THEOREM SyncNeverRefused == Spec => []NeverRefused
<1>1. IInv => NeverRefused
  <2> SUFFICES ASSUME IInv, NEW n \in Node, height[n] <= Len(chain)
               PROVE  Accepts(n, chain[height[n]])
    BY DEF NeverRefused
  <2>1. height[n] \in DOMAIN chain
    BY SMT DEF IInv, TypeOK, Height
  <2> QED BY <2>1 DEF IInv, ChainVerifies, SetFromChain, Accepts
<1> QED BY <1>1, GovernanceInvariant, PTL

\* Whoever replays the chain from the genesis configuration finds every block
\* valid and certified under the set in force at its height, also after later
\* changes (Proposed::is_valid, QuorumCertificate::verify).
THEOREM ChainAlwaysVerifies == Spec => []ChainVerifies
BY GovernanceInvariant, PTL DEF IInv

\* No change that has been recorded so far is in force at height h.
Unchanged(h) == \A c \in Range(Recorded(chain)) : c.activation > h

\* A client that has only the genesis configuration can verify the proofs of all
\* blocks up to the height at which the first change takes effect
\* (client::verify_proof).
THEOREM ProofsVerifyUnchanged ==
    Spec => [](\A h \in DOMAIN chain : Unchanged(h) => VerifyProof(chain[h]))
<1> DEFINE Verifies == \A h \in DOMAIN chain : Unchanged(h) => VerifyProof(chain[h])
<1>1. ASSUME IInv PROVE Verifies
  <2> SUFFICES ASSUME NEW h \in DOMAIN chain, Unchanged(h)
               PROVE  VerifyProof(chain[h])
    OBVIOUS
  <2> DEFINE g == Recorded(chain)
  <2>1. g \in Seq(Signed) /\ h \in Nat
    <3>1. chain \in Seq(Block)
      BY <1>1 DEF IInv, TypeOK, Block
    <3>2. h \in Nat
      BY <3>1, SMT
    <3> QED BY <3>1, <3>2, RecordedType
  <2>2. \A i \in DOMAIN g : g[i].activation > h
    BY DEF Unchanged, Range
  <2> HIDE DEF g
  <2>3. <<>> \in Seq(Signed) /\ <<>> \o g = g
    BY <2>1, SMT
  <2>4. ActiveSet(<<>> \o g, h) = ActiveSet(<<>>, h)
    BY <2>1, <2>2, <2>3, LaterChanges
  <2>5. ActiveSet(g, h) = Genesis
    BY <2>1, <2>3, <2>4, GenesisSet
  <2>6. SetAt(h) = Genesis
    BY <2>5 DEF SetAt, g
  <2> QED BY <1>1, <2>6 DEF IInv, ChainVerifies, VerifyProof
<1>2. IInv => Verifies
  BY <1>1
<1> QED BY <1>2, GovernanceInvariant, PTL

\* What Engine::get_value makes of a pool passes Proposed::is_valid at every
\* node of the proposer's height.
THEOREM HonestValuesValid == Spec => []HonestValueValid
<1>1. IInv => HonestValueValid
  <2> SUFFICES ASSUME IInv, NEW p \in Node, NEW n \in Node, height[p] = height[n]
               PROVE  IsValid(GovernanceOf(p), height[n], currentSet[n])
    BY DEF HonestValueValid
  <2>1. currentSet[p] = currentSet[n]
    BY DEF IInv, SetFromChain
  <2>2. IsValid(GovernanceOf(p), height[p], currentSet[p])
    BY GovernanceOfValid DEF IInv, TypeOK
  <2> QED BY <2>1, <2>2
<1> QED BY <1>1, GovernanceInvariant, PTL

\* No block changes who the validators are at a height that is already being
\* decided (Proposed::is_valid asks for a later activation).
THEOREM SetsSettled == Spec => SetSettled
<1> DEFINE Settled == LET recorded == Recorded(chain')
                      IN  \A h \in 1..Len(chain) + 1 : ActiveSet(recorded, h) = SetAt(h)
<1>1. ASSUME IInv, [Next]_vars PROVE [Settled]_chain
  <2>1. CASE UNCHANGED chain
    BY <2>1
  <2>2. CASE \E n \in Node : Finalize(n)
    <3>1. PICK n \in Node : Finalize(n)
      BY <2>2
    <3>2. PICK b \in Block :
              /\ Enact(n, b) /\ chain' = Append(chain, b)
              /\ IsValid(b.governance, Len(chain) + 1, SetAt(Len(chain) + 1))
              /\ Certifies(b.signers, SetAt(Len(chain) + 1))
      BY <1>1, <3>1, FinalBlock
    <3>3. chain \in Seq(Block) /\ Len(chain) \in Nat
      BY <1>1, SMT DEF IInv, TypeOK, Block
    <3>4. \A h \in 0..Len(chain) + 1 : ActiveSet(Recorded(chain'), h) = ActiveSet(Recorded(chain), h)
      BY <3>2, <3>3, BlockSettles
    <3> QED BY <3>3, <3>4, SMT DEF SetAt
  <2> QED BY <1>1, <2>1, <2>2 DEF Next, vars, AddGovernance, Commit, ApplySyncedBlock, Reboot
<1>2. IInv /\ [Next]_vars => [Settled]_chain
  BY <1>1
<1>3. Spec => [][Settled]_chain
  BY <1>2, GovernanceInvariant, PTL DEF Spec
<1> QED BY <1>3 DEF SetSettled

-----------------------------------------------------------------------------
(* Changes that are recorded twice.                                        *)

\* No change: the keys themselves.
LEMMA AllAppliedEmpty ==
    ASSUME NEW keys PROVE AllApplied(keys, <<>>) = keys
<1>1. <<>> \in Seq({}) /\ Len(<<>>) = 0
  BY SMT
<1>2. PICK f : Applying(keys, <<>>, f, 0) /\ AllApplied(keys, <<>>) = f[0]
  BY <1>1, AllAppliedIs
<1>3. 0 \in Nat
  BY SMT
<1> QED BY <1>2, <1>3, ApplyingAt

\* One more change is applied after the others.
LEMMA AllAppliedAppend ==
    ASSUME NEW X, NEW changes \in Seq(X), NEW c \in X, NEW keys
    PROVE  AllApplied(keys, Append(changes, c)) = Applied(AllApplied(keys, changes), c)
<1> DEFINE N == Len(changes)
           q == Append(changes, c)
<1>1. /\ N \in Nat /\ q \in Seq(X) /\ Len(q) = N + 1
      /\ \A i \in 1..N : q[i] = changes[i]
      /\ q[N + 1] = c
  BY SMT
<1>2. PICK f : Applying(keys, changes, f, N) /\ AllApplied(keys, changes) = f[N]
  BY AllAppliedIs
<1> HIDE DEF N, q
<1>3. PICK g : Applying(keys, q, g, N + 1) /\ AllApplied(keys, q) = g[N + 1]
  BY <1>1, AllAppliedIs
<1>4. f[0] = keys /\ \A i \in 0..N - 1 : f[i + 1] = Applied(f[i], changes[i + 1])
  BY <1>1, <1>2, ApplyingAt, SMT
<1>5. N + 1 \in Nat
  BY <1>1, SMT
<1>6. g[0] = keys /\ \A i \in 0..(N + 1) - 1 : g[i + 1] = Applied(g[i], q[i + 1])
  BY <1>3, <1>5, ApplyingAt, SMT
<1> DEFINE T == {i \in 0..N : f[i] = g[i]}
<1>7. 0 \in T
  BY <1>1, <1>4, <1>6, SMT
<1>8. ASSUME NEW i \in 0..N - 1, i \in T PROVE i + 1 \in T
  <2>1. i + 1 \in 0..N /\ i + 1 \in 1..N /\ i \in 0..(N + 1) - 1
    BY <1>1, SMT
  <2> QED BY <1>1, <1>4, <1>6, <1>8, <2>1
<1> HIDE DEF T
<1>9. \A i \in 0..N : i \in T
  BY <1>1, <1>7, <1>8, Induction
<1>10. f[N] = g[N]
  BY <1>1, <1>9, SMT DEF T
<1>11. N \in 0..(N + 1) - 1
  BY <1>1, SMT
<1>12. g[N + 1] = Applied(g[N], q[N + 1])
  BY <1>6, <1>11
<1> QED BY <1>1, <1>2, <1>3, <1>10, <1>12 DEF q

\* One change of a record in which only the changes in S count.
Stepped(keys, c, S) == IF c \in S THEN Applied(keys, c) ELSE keys

\* f is what n steps through the record r make of the keys, one by one.
Stepping(keys, r, S, f, n) ==
    /\ f[0] = keys
    /\ \A k \in 0..n - 1 : f[k + 1] = Stepped(f[k], r[k + 1], S)

\* To select changes and to apply them is one loop over the record.
LEMMA SelectedApplied ==
    ASSUME NEW r \in Seq(Signed), NEW S, NEW keys
    PROVE  \E f : /\ Stepping(keys, r, S, f, Len(r))
                  /\ AllApplied(keys, Retain(r, S)) = f[Len(r)]
<1> DEFINE N == Len(r)
<1>1. N \in Nat /\ \A k \in 1..N : r[k] \in Signed
  BY SMT
<1>2. PICK e : Retaining(r, S, e, N) /\ Retain(r, S) = e[N]
  BY RetainIs
<1> HIDE DEF N
<1>3. e[0] = <<>> /\ \A k \in 0..N - 1 :
          e[k + 1] = IF r[k + 1] \in S THEN Append(e[k], r[k + 1]) ELSE e[k]
  BY <1>1, <1>2, RetainingAt, SMT
<1> DEFINE T == {k \in Nat : e[k] \in Seq(Signed)}
<1>4. 0 \in T
  <2>1. 0 \in Nat /\ <<>> \in Seq(Signed)
    BY SMT
  <2> QED BY <1>3, <2>1
<1>5. ASSUME NEW k \in 0..N - 1, k \in T PROVE k + 1 \in T
  <2>1. r[k + 1] \in Signed /\ k + 1 \in Nat
    BY <1>1, SMT
  <2>2. e[k] \in Seq(Signed)
    BY <1>5
  <2>3. Append(e[k], r[k + 1]) \in Seq(Signed)
    BY <2>1, <2>2, SMT
  <2> QED BY <1>3, <2>1, <2>2, <2>3
<1> HIDE DEF T
<1>6. \A k \in 0..N : k \in T
  BY <1>1, <1>4, <1>5, Induction
<1> DEFINE f == [k \in 0..N |-> AllApplied(keys, e[k])]
<1>7. f[0] = keys /\ f[N] = AllApplied(keys, Retain(r, S))
  <2>1. 0 \in 0..N /\ N \in 0..N
    BY <1>1, SMT
  <2> QED BY <1>2, <1>3, <2>1, AllAppliedEmpty
<1>8. ASSUME NEW k \in 0..N - 1 PROVE f[k + 1] = Stepped(f[k], r[k + 1], S)
  <2>1. k \in 0..N /\ k + 1 \in 0..N /\ k + 1 \in 1..N
    BY <1>1, SMT
  <2>2. e[k] \in Seq(Signed) /\ r[k + 1] \in Signed
    BY <1>1, <1>6, <2>1 DEF T
  <2>3. AllApplied(keys, Append(e[k], r[k + 1])) = Applied(AllApplied(keys, e[k]), r[k + 1])
    BY <2>2, AllAppliedAppend
  <2>4. f[k] = AllApplied(keys, e[k]) /\ f[k + 1] = AllApplied(keys, e[k + 1])
    BY <2>1
  <2> HIDE DEF f
  <2> QED BY <1>3, <2>3, <2>4 DEF Stepped
<1> HIDE DEF f
<1> QED BY <1>7, <1>8 DEF N, Stepping

\* The places of a sequence without one of its elements.
LEMMA WithoutPlaces ==
    ASSUME NEW r \in Seq(Signed), NEW i \in 1..Len(r)
    PROVE  /\ Without(r, i) \in Seq(Signed) /\ Len(Without(r, i)) = Len(r) - 1
           /\ \A k \in 1..i - 1 : Without(r, i)[k] = r[k]
           /\ \A k \in i..Len(r) - 1 : Without(r, i)[k] = r[k + 1]
<1> DEFINE a == SubSeq(r, 1, i - 1)
           b == SubSeq(r, i + 1, Len(r))
<1>1. /\ a \in Seq(Signed) /\ Len(a) = i - 1
      /\ \A k \in 1..i - 1 : a[k] = r[k]
  BY SMT
<1>2. /\ b \in Seq(Signed) /\ Len(b) = Len(r) - i
      /\ \A k \in 1..Len(r) - i : b[k] = r[i + k]
  BY SMT
<1> HIDE DEF a, b
<1>3. /\ a \o b \in Seq(Signed) /\ Len(a \o b) = Len(r) - 1
      /\ \A k \in 1..i - 1 : (a \o b)[k] = a[k]
      /\ \A k \in i..Len(r) - 1 : (a \o b)[k] = b[k - (i - 1)]
  <2>1. /\ a \o b \in Seq(Signed) /\ Len(a \o b) = Len(a) + Len(b)
        /\ \A k \in 1..Len(a) + Len(b) :
              (a \o b)[k] = IF k <= Len(a) THEN a[k] ELSE b[k - Len(a)]
    BY <1>1, <1>2, ConcatProperties
  <2>2. Len(r) \in Nat /\ Len(a) + Len(b) = Len(r) - 1
    BY <1>1, <1>2, SMT
  <2>3. \A k \in 1..i - 1 : k \in 1..Len(r) - 1 /\ k <= i - 1
    BY <2>2, SMT
  <2>4. \A k \in i..Len(r) - 1 : k \in 1..Len(r) - 1 /\ ~(k <= i - 1)
    BY <2>2, SMT
  <2> QED BY <1>1, <2>1, <2>2, <2>3, <2>4
<1>4. ASSUME NEW k \in i..Len(r) - 1 PROVE (a \o b)[k] = r[k + 1]
  <2>1. k - (i - 1) \in 1..Len(r) - i /\ i + (k - (i - 1)) = k + 1
    BY SMT
  <2> QED BY <1>2, <1>3, <2>1
<1> QED BY <1>1, <1>3, <1>4 DEF Without, a, b

\* K and L differ at most in keys that the change c decides.
Near(K, L, c, S) ==
    IF c \in S THEN \A x : x \notin c.adds /\ x \notin c.removes => (x \in K <=> x \in L)
    ELSE K = L

\* They stay so by any change, and c itself makes them the same.
LEMMA NearStep ==
    ASSUME NEW K, NEW L, NEW c, NEW S, Near(K, L, c, S)
    PROVE  /\ \A d : Near(Stepped(K, d, S), Stepped(L, d, S), c, S)
           /\ Stepped(K, c, S) = Stepped(L, c, S)
<1>1. \A d : Near(Stepped(K, d, S), Stepped(L, d, S), c, S)
  BY DEF Near, Stepped, Applied
<1>2. CASE c \in S
  BY <1>2 DEF Near, Stepped, Applied
<1>3. CASE c \notin S
  BY <1>3 DEF Near, Stepped
<1> QED BY <1>1, <1>2, <1>3

\* What is recorded again later need not have been recorded before.
LEMMA EarlierRecordIdle ==
    ASSUME NEW r \in Seq(Signed), NEW i \in 1..Len(r), NEW j \in 1..Len(r),
           i < j, r[i] = r[j], NEW S, NEW keys
    PROVE  AllApplied(keys, Retain(Without(r, i), S)) = AllApplied(keys, Retain(r, S))
<1> DEFINE w == Without(r, i)
           N == Len(r)
           c == r[j]
<1>1. /\ w \in Seq(Signed) /\ Len(w) = N - 1
      /\ \A k \in 1..i - 1 : w[k] = r[k]
      /\ \A k \in i..N - 1 : w[k] = r[k + 1]
  BY WithoutPlaces
<1>2. N \in Nat /\ i \in 1..N /\ j \in 1..N
  BY SMT
<1>a. PICK f : Stepping(keys, r, S, f, Len(r)) /\ AllApplied(keys, Retain(r, S)) = f[Len(r)]
  BY SelectedApplied
<1>3. /\ f[0] = keys
      /\ \A k \in 0..N - 1 : f[k + 1] = Stepped(f[k], r[k + 1], S)
      /\ AllApplied(keys, Retain(r, S)) = f[N]
  BY <1>a DEF Stepping
<1> HIDE DEF w, N
<1>b. w \in Seq(Signed)
  BY <1>1
<1>c. PICK g : Stepping(keys, w, S, g, Len(w)) /\ AllApplied(keys, Retain(w, S)) = g[Len(w)]
  BY <1>b, SelectedApplied
<1>4. /\ g[0] = keys
      /\ \A k \in 0..(N - 1) - 1 : g[k + 1] = Stepped(g[k], w[k + 1], S)
      /\ AllApplied(keys, Retain(w, S)) = g[N - 1]
  BY <1>1, <1>c DEF Stepping
<1> DEFINE T == {k \in 0..i - 1 : f[k] = g[k]}
<1>5. 0 \in T
  BY <1>2, <1>3, <1>4, SMT
<1>6. ASSUME NEW k \in 0..(i - 1) - 1, k \in T PROVE k + 1 \in T
  <2>1. /\ k + 1 \in 0..i - 1 /\ k + 1 \in 1..i - 1
        /\ k \in 0..N - 1 /\ k \in 0..(N - 1) - 1
    BY <1>2, SMT
  <2>2. f[k + 1] = Stepped(f[k], r[k + 1], S) /\ g[k + 1] = Stepped(g[k], r[k + 1], S)
    BY <1>1, <1>3, <1>4, <2>1
  <2> QED BY <1>6, <2>1, <2>2
<1> HIDE DEF T
<1>7. f[i - 1] = g[i - 1]
  <2>1. i - 1 \in Nat /\ i - 1 \in 0..i - 1
    BY <1>2, SMT
  <2>2. \A k \in 0..i - 1 : k \in T
    BY <1>5, <1>6, <2>1, Induction
  <2> QED BY <2>1, <2>2 DEF T
<1> DEFINE F(k) == f[i + k]
           G(k) == g[(i - 1) + k]
           D(k) == r[i + k]
           M == N - i
           m == j - i
           U == {k \in 0..M : Near(F(k), G(k), c, S) /\ (k >= m => F(k) = G(k))}
<1>8. ASSUME NEW k \in 0..M - 1
      PROVE  F(k + 1) = Stepped(F(k), D(k + 1), S) /\ G(k + 1) = Stepped(G(k), D(k + 1), S)
  <2>1. /\ i + k \in 0..N - 1 /\ (i + k) + 1 = i + (k + 1)
        /\ (i - 1) + k \in 0..(N - 1) - 1 /\ ((i - 1) + k) + 1 = (i - 1) + (k + 1)
        /\ (i - 1) + (k + 1) \in i..N - 1 /\ ((i - 1) + (k + 1)) + 1 = i + (k + 1)
    BY <1>2, SMT
  <2>2. f[(i + k) + 1] = Stepped(f[i + k], r[(i + k) + 1], S)
    BY <1>3, <2>1
  <2>3. g[((i - 1) + k) + 1] = Stepped(g[(i - 1) + k], w[((i - 1) + k) + 1], S)
    BY <1>4, <2>1
  <2>4. w[(i - 1) + (k + 1)] = r[i + (k + 1)]
    <3>1. w[(i - 1) + (k + 1)] = r[((i - 1) + (k + 1)) + 1]
      BY <1>1, <2>1
    <3> QED BY <2>1, <3>1
  <2>5. f[i + (k + 1)] = Stepped(f[i + k], r[i + (k + 1)], S)
    BY <2>1, <2>2
  <2>6. g[(i - 1) + (k + 1)] = Stepped(g[(i - 1) + k], r[i + (k + 1)], S)
    BY <2>1, <2>3, <2>4
  <2> QED BY <2>5, <2>6
<1>9. /\ M \in Nat /\ m \in 1..M /\ D(m) = c
      /\ F(M) = f[N] /\ G(M) = g[N - 1]
  <2>1. /\ M \in Nat /\ m \in 1..M /\ i + m = j
        /\ i + M = N /\ (i - 1) + M = N - 1
    BY <1>2, SMT
  <2> QED BY <2>1
<1>10. Near(F(0), G(0), c, S)
  <2>1. i - 1 \in 0..N - 1 /\ (i - 1) + 1 = i /\ i + 0 = i /\ (i - 1) + 0 = i - 1
    BY <1>2, SMT
  <2>2. f[(i - 1) + 1] = Stepped(f[i - 1], r[(i - 1) + 1], S)
    BY <1>3, <2>1
  <2>3. F(0) = Stepped(g[i - 1], c, S) /\ G(0) = g[i - 1]
    BY <1>7, <2>1, <2>2
  <2> HIDE DEF F, G
  <2> QED BY <2>3 DEF Near, Stepped, Applied
<1> HIDE DEF F, G, D, M, m, c
<1>11. 0 \in U
  <2>1. 0 \in 0..M /\ ~(0 >= m)
    BY <1>9, SMT
  <2> QED BY <1>10, <2>1
<1>12. ASSUME NEW k \in 0..M - 1, k \in U PROVE k + 1 \in U
  <2>1. Near(F(k), G(k), c, S) /\ (k >= m => F(k) = G(k))
    BY <1>12
  <2>2. k + 1 \in 0..M /\ (k + 1 >= m => k >= m \/ k + 1 = m)
    BY <1>9, SMT
  <2>3. F(k + 1) = Stepped(F(k), D(k + 1), S) /\ G(k + 1) = Stepped(G(k), D(k + 1), S)
    BY <1>8
  <2>4. /\ Near(Stepped(F(k), D(k + 1), S), Stepped(G(k), D(k + 1), S), c, S)
        /\ Stepped(F(k), c, S) = Stepped(G(k), c, S)
    <3> DEFINE K == F(k)
               L == G(k)
    <3>1. Near(K, L, c, S)
      BY <2>1
    <3> HIDE DEF K, L
    <3>2. /\ \A d : Near(Stepped(K, d, S), Stepped(L, d, S), c, S)
          /\ Stepped(K, c, S) = Stepped(L, c, S)
      BY <3>1, NearStep, SMT
    <3> QED BY <3>2 DEF K, L
  <2>5. k + 1 = m => F(k + 1) = G(k + 1)
    BY <1>9, <2>3, <2>4
  <2>6. k >= m => F(k + 1) = G(k + 1)
    BY <2>1, <2>3
  <2>7. Near(F(k + 1), G(k + 1), c, S)
    BY <2>3, <2>4
  <2> QED BY <2>2, <2>5, <2>6, <2>7
<1> HIDE DEF U
<1>13. \A k \in 0..M : k \in U
  BY <1>9, <1>11, <1>12, Induction
<1>14. M \in 0..M /\ M >= m
  BY <1>9, SMT
<1>15. F(M) = G(M)
  BY <1>13, <1>14 DEF U
<1> QED BY <1>3, <1>4, <1>9, <1>15 DEF w

\* A change that the chain records more than once counts from where it was
\* recorded last, whatever was recorded in between (ValidatorRegistry::record
\* and active_keys).
THEOREM LastRecordingsCount == Spec => []LastRecordingCounts
<1>1. ASSUME TypeOK PROVE LastRecordingCounts
  <2> DEFINE r == Recorded(chain)
  <2>1. r \in Seq(Signed) /\ DOMAIN r = 1..Len(r)
    <3>1. r \in Seq(Signed)
      BY <1>1, RecordedType DEF TypeOK, Block
    <3> HIDE DEF r
    <3> QED BY <3>1, SMT
  <2> SUFFICES ASSUME NEW i \in DOMAIN r, NEW j \in DOMAIN r, i < j, r[i] = r[j],
                      NEW h \in Height
               PROVE  ActiveSet(Without(r, i), h) = ActiveSet(r, h)
    BY DEF LastRecordingCounts, SetAt
  <2> HIDE DEF r
  <2>2. h \in Nat
    BY GovernanceAssumption, SMT DEF Height
  <2>3. \A a \in 0..h : \A keys :
            AllApplied(keys, ActivatedAt(Without(r, i), a)) = AllApplied(keys, ActivatedAt(r, a))
    BY <2>1, EarlierRecordIdle DEF ActivatedAt
  <2> QED BY <2>2, <2>3, ActiveSetAgree
<1>2. TypeOK => LastRecordingCounts
  BY <1>1
<1> QED BY <1>2, GovernanceTypes, PTL
=============================================================================
