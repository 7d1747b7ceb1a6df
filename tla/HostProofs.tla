----------------------------- MODULE HostProofs -----------------------------
(***************************************************************************)
(* What a node stores, anchors and proves, for any chain, any contents of  *)
(* its blocks, any file faults and any number of restarts.                 *)
(***************************************************************************)
EXTENDS Host, Lemmas

\* Zenon proves a step that names no other prover.
USE Zenon

-----------------------------------------------------------------------------
(* The file.                                                               *)

\* The lines that parse are in order.
InOrder(lines) ==
    \A j, k \in DOMAIN lines :
        j < k /\ lines[j] # Garbage /\ lines[k] # Garbage => lines[j] < lines[k]

\* A sequence that goes up.
GoesUp(s) == \A j, k \in DOMAIN s : j < k => s[j] < s[k]

\* BlockStore::tip of a list of blocks.
TipOf(s) == IF s = <<>> THEN 0 ELSE Last(s)

\* What open reads is made of what the file is made of.
LEMMA LinesType ==
    ASSUME NEW X, disk \in Seq(X), tail # NoTail => tail \in X
    PROVE  Lines \in Seq(X)
<1>1. CASE tail = NoTail
  BY <1>1 DEF Lines
<1>2. CASE tail # NoTail
  <2>1. Append(disk, tail) \in Seq(X)
    BY <1>2, SMT
  <2> QED BY <1>2, <2>1 DEF Lines
<1> QED BY <1>1, <1>2

\* The first lines of a file are lines of it.
LEMMA HeadOfLines ==
    ASSUME NEW S, NEW l \in Seq(S), NEW n \in 0..Len(l)
    PROVE  SubSeq(l, 1, n) \in Seq(S)
<1>1. \A i \in 1..n : l[i] \in S
  BY SMT
<1>2. SubSeq(l, 1, n) = [i \in 1..n |-> l[i]]
  BY SMT
<1>3. n \in Nat /\ [i \in 1..n |-> l[i]] \in [1..n -> S]
  BY <1>1, SMT
<1>4. [i \in 1..n |-> l[i]] \in Seq(S)
  BY <1>3, SeqDef
<1> QED BY <1>2, <1>4

\* What open reads are blocks.
LEMMA ParsedType ==
    ASSUME MaxHeight \in Nat, NEW lines \in Seq(0..MaxHeight)
    PROVE  Retain(lines, Nat \ {Garbage}) \in Seq(1..MaxHeight)
<1> DEFINE S == Nat \ {Garbage}
           p == Retain(lines, S)
<1>1. p \in Seq(0..MaxHeight) /\ Range(p) = Range(lines) \cap S
  BY RetainEmbeds, RetainMembers
<1> HIDE DEF p
<1>2. \A i \in 1..Len(p) : p[i] \in 0..MaxHeight /\ p[i] # Garbage
  BY <1>1, SMT DEF Range
<1>3. \A i \in 1..Len(p) : p[i] \in 1..MaxHeight
  BY <1>2, SMT DEF Garbage
<1>4. p \in Seq(1..MaxHeight)
  BY <1>1, <1>3, SMT
<1> QED BY <1>4 DEF p

\* Those of a file in order go up, and the tip is above every line.
LEMMA ParsedInOrder ==
    ASSUME MaxHeight \in Nat, NEW lines \in Seq(0..MaxHeight), InOrder(lines)
    PROVE  LET p == Retain(lines, Nat \ {Garbage})
           IN  /\ p \in Seq(1..MaxHeight) /\ GoesUp(p)
               /\ \A k \in DOMAIN lines : lines[k] < TipOf(p) + 1
<1> DEFINE S == Nat \ {Garbage}
           p == Retain(lines, S)
<1>1. PICK e : Embeds(e, p, lines, S, Len(lines))
  BY RetainEmbeds
<1>2. p \in Seq(0..MaxHeight)
  BY RetainEmbeds
<1>3. Range(p) = Range(lines) \cap S
  BY RetainMembers
<1> HIDE DEF p
<1>4. /\ \A i \in 1..Len(p) : e[i] \in DOMAIN lines /\ p[i] = lines[e[i]] /\ p[i] # Garbage
      /\ \A i, j \in 1..Len(p) : i < j => e[i] < e[j]
  BY <1>1, SMT DEF Embeds
<1>5. p \in Seq(1..MaxHeight)
  BY ParsedType DEF p
<1>6. GoesUp(p)
  <2> SUFFICES ASSUME NEW j \in 1..Len(p), NEW k \in 1..Len(p), j < k PROVE p[j] < p[k]
    <3>1. DOMAIN p = 1..Len(p)
      BY <1>2, SMT
    <3> QED BY <3>1 DEF GoesUp
  <2>1. /\ e[j] \in DOMAIN lines /\ e[k] \in DOMAIN lines /\ e[j] < e[k]
        /\ lines[e[j]] # Garbage /\ lines[e[k]] # Garbage
        /\ p[j] = lines[e[j]] /\ p[k] = lines[e[k]]
    BY <1>4
  <2> QED BY <2>1 DEF InOrder
<1>7. ASSUME NEW k \in DOMAIN lines PROVE lines[k] < TipOf(p) + 1
  <2>1. lines[k] \in 0..MaxHeight /\ lines[k] \in Range(lines)
    BY SMT DEF Range
  <2>2. TipOf(p) \in Nat /\ (p # <<>> => TipOf(p) = p[Len(p)] /\ Len(p) \in DOMAIN p)
    BY <1>5, SMT DEF TipOf, Last
  <2>3. CASE lines[k] = Garbage
    BY <2>2, <2>3, SMT DEF Garbage
  <2>4. CASE lines[k] # Garbage
    <3>1. lines[k] \in Range(p)
      BY <1>3, <2>1, <2>4, SMT
    <3>2. PICK i \in DOMAIN p : p[i] = lines[k]
      BY <3>1 DEF Range
    <3>3. p # <<>> /\ i \in 1..Len(p) /\ Len(p) \in Nat
      BY <1>5, SMT
    <3>4. i = Len(p) \/ i < Len(p)
      BY <3>3, SMT
    <3>5. p[i] <= p[Len(p)]
      <4>1. p[Len(p)] \in 1..MaxHeight /\ p[i] \in 1..MaxHeight
        BY <1>5, <2>2, <3>3, SMT
      <4>2. i < Len(p) => p[i] < p[Len(p)]
        BY <1>6, <2>2, <3>3 DEF GoesUp
      <4> QED BY <3>4, <4>1, <4>2, SMT
    <3>6. p[Len(p)] \in Nat /\ p[i] \in Nat
      BY <1>5, <2>2, <3>3, SMT
    <3> QED BY <2>2, <3>2, <3>3, <3>5, <3>6, SMT
  <2> QED BY <2>3, <2>4
<1> QED BY <1>5, <1>6, <1>7 DEF p

\* A block above the tip goes to the end.
LEMMA AppendAbove ==
    ASSUME NEW s \in Seq(1..MaxHeight), GoesUp(s), MaxHeight \in Nat,
           NEW b \in 1..MaxHeight, b = TipOf(s) + 1
    PROVE  /\ Append(s, b) \in Seq(1..MaxHeight) /\ GoesUp(Append(s, b))
           /\ TipOf(Append(s, b)) = b
<1> DEFINE t == Append(s, b)
<1>1. /\ t \in Seq(1..MaxHeight) /\ Len(t) = Len(s) + 1 /\ Len(s) \in Nat
      /\ \A i \in 1..Len(s) : t[i] = s[i] /\ s[i] \in 1..MaxHeight
      /\ t[Len(s) + 1] = b
  BY SMT
<1>2. t # <<>>
  BY <1>1, SMT
<1>3. \A i \in 1..Len(s) : s[i] < b
  <2> SUFFICES ASSUME NEW i \in 1..Len(s) PROVE s[i] < b
    OBVIOUS
  <2>1. s # <<>> /\ Len(s) \in DOMAIN s /\ i \in DOMAIN s
    BY SMT
  <2>2. b = s[Len(s)] + 1
    BY <2>1 DEF TipOf, Last
  <2>3. i < Len(s) => s[i] < s[Len(s)]
    BY <2>1 DEF GoesUp
  <2>4. s[i] \in Nat /\ s[Len(s)] \in Nat
    BY <1>1, <2>1, SMT
  <2>5. i = Len(s) \/ i < Len(s)
    BY <1>1, SMT
  <2> QED BY <2>2, <2>3, <2>4, <2>5, SMT
<1> HIDE DEF t
<1>4. GoesUp(t)
  <2> SUFFICES ASSUME NEW j \in 1..Len(s) + 1, NEW k \in 1..Len(s) + 1, j < k
               PROVE  t[j] < t[k]
    BY <1>1, SMT DEF GoesUp
  <2>1. j \in 1..Len(s)
    BY <1>1, SMT
  <2>2. CASE k = Len(s) + 1
    BY <1>1, <1>3, <2>1, <2>2
  <2>3. CASE k # Len(s) + 1
    <3> DEFINE n == Len(s)
    <3>1. n \in Nat /\ k \in 1..n + 1 /\ k # n + 1
      BY <1>1, <2>3
    <3> HIDE DEF n
    <3>2. k \in 1..n
      BY <3>1, SMT
    <3>3. k \in DOMAIN s /\ j \in DOMAIN s
      BY <2>1, <3>2, SMT DEF n
    <3>4. t[k] = s[k] /\ t[j] = s[j]
      BY <1>1, <2>1, <3>2 DEF n
    <3> QED BY <3>3, <3>4 DEF GoesUp
  <2> QED BY <2>2, <2>3
<1>5. TipOf(t) = b
  BY <1>1, <1>2 DEF TipOf, Last
<1> QED BY <1>1, <1>4, <1>5 DEF t

\* So does a line that is garbage, or above every line of the file.
LEMMA LineAbove ==
    ASSUME NEW s \in Seq(0..MaxHeight), InOrder(s), MaxHeight \in Nat,
           NEW h \in Nat, \A k \in DOMAIN s : s[k] < h,
           NEW b \in 0..MaxHeight, b = Garbage \/ b = h
    PROVE  /\ Append(s, b) \in Seq(0..MaxHeight) /\ InOrder(Append(s, b))
           /\ \A k \in DOMAIN Append(s, b) : Append(s, b)[k] < h + 1
<1> DEFINE t == Append(s, b)
<1>1. /\ t \in Seq(0..MaxHeight) /\ Len(t) = Len(s) + 1 /\ Len(s) \in Nat
      /\ \A i \in 1..Len(s) : t[i] = s[i] /\ s[i] \in Nat
      /\ t[Len(s) + 1] = b
  BY SMT
<1>2. \A k \in 1..Len(s) : s[k] < h
  BY SMT
<1>3. b \in Nat /\ b < h + 1
  BY SMT DEF Garbage
<1> HIDE DEF t
<1>4. InOrder(t)
  <2> SUFFICES ASSUME NEW j \in 1..Len(s) + 1, NEW k \in 1..Len(s) + 1, j < k,
                      t[j] # Garbage, t[k] # Garbage
               PROVE  t[j] < t[k]
    BY <1>1, SMT DEF InOrder
  <2>1. j \in 1..Len(s)
    BY <1>1, SMT
  <2>2. CASE k = Len(s) + 1
    BY <1>1, <1>2, <2>1, <2>2, SMTT(40)
  <2>3. CASE k # Len(s) + 1
    <3> DEFINE n == Len(s)
    <3>1. n \in Nat /\ k \in 1..n + 1 /\ k # n + 1
      BY <1>1, <2>3
    <3> HIDE DEF n
    <3>2. k \in 1..n
      BY <3>1, SMT
    <3>3. k \in DOMAIN s /\ j \in DOMAIN s
      BY <2>1, <3>2, SMT DEF n
    <3>4. t[k] = s[k] /\ t[j] = s[j]
      BY <1>1, <2>1, <3>2, SMTT(40) DEF n
    <3> QED BY <3>3, <3>4 DEF InOrder
  <2> QED BY <2>2, <2>3
<1>5. ASSUME NEW k \in 1..Len(s) + 1 PROVE t[k] < h + 1
  <2>1. CASE k = Len(s) + 1
    BY <1>1, <1>3, <2>1
  <2>2. CASE k # Len(s) + 1
    <3>1. k \in 1..Len(s)
      BY <1>1, <2>2, SMT
    <3> QED BY <1>1, <1>2, <3>1, SMT
  <2> QED BY <2>1, <2>2
<1> QED BY <1>1, <1>4, <1>5, SMT DEF t

-----------------------------------------------------------------------------
(* The invariant.                                                          *)

\* The blocks in the file are in order, and below the height of the engine.
FileOrdered ==
    /\ InOrder(Lines)
    /\ \A k \in DOMAIN Lines : Lines[k] < height

\* They are, unless a start took the chain to end where it could read no further.
FileInOrder == ~misread => FileOrdered

\* The block on its way to the anchoring service is the last one, and was not
\* obtained by sync.
HandlingLast == handling # 0 => handling = height - 1 /\ handling \notin synced

\* The pending window is labelled with its first block; from there on, what is
\* neither in it nor on its way to it was obtained by sync.
PendingOK ==
    /\ \A i \in DOMAIN pendingIds : pendingIds[i] < height
    /\ pendingIds = <<>> => pendingFrom = None
    /\ pendingIds # <<>> =>
        /\ pendingFrom = Head(pendingIds)
        /\ (pendingFrom..height - 1) \ (Range(pendingIds) \cup {handling})
            = synced \cap (pendingFrom..height - 1)

\* A published window is a sequence of blocks, and its root is published.
WindowsOK ==
    IsSeq(history) /\ \A k \in DOMAIN history :
        /\ history[k].blockIds \in Seq(1..MaxHeight) /\ history[k].blockIds # <<>>
        /\ history[k].to < height
        /\ history[k].root = RootOf(history[k].blockIds)
        /\ history[k].root \in published

\* The inductive invariant: order in memory is regained from the file after a
\* crash, and what a window says is decided while it is pending.
IInv ==
    /\ TypeOK /\ height \in 1..MaxHeight + 1
    /\ synced \subseteq 1..height - 1
    /\ StoredInOrder /\ FileInOrder
    /\ HandlingLast /\ PendingOK /\ WindowsOK
    /\ EachBlockAnchoredOnce /\ WindowsLabelled /\ GapsAreSynced

\* The invariant holds at the start.
LEMMA InitIInv == Init => IInv
<1> SUFFICES ASSUME Init PROVE IInv
  OBVIOUS
<1>1. /\ blocks = <<>> /\ disk = <<>> /\ tail = NoTail /\ height = 1 /\ handling = 0
      /\ pendingIds = <<>> /\ pendingFrom = None /\ history = <<>>
      /\ recorded = <<>> /\ synced = {} /\ misread = FALSE /\ errors = 0
  BY DEF Init, StoreInit, AnchorInit
<1>2. Lines = <<>> /\ TipHeight = 0 /\ \A Y : <<>> \in Seq(Y)
  BY <1>1, SMT DEF Lines, TipHeight
<1>3. TypeOK
  <2>1. errors \in 0..MaxErrors
    BY <1>1, StoreAssumption, SMT
  <2>2. misread \in BOOLEAN
    BY <1>1
  <2> QED BY <1>1, <1>2, <2>1, <2>2, HostAssumption, SMT DEF TypeOK, NoTail, None
<1>4. height \in 1..MaxHeight + 1 /\ synced \subseteq 1..height - 1
  BY <1>1, HostAssumption, SMT
<1>5. StoredInOrder /\ FileInOrder /\ HandlingLast /\ PendingOK
  BY <1>1, <1>2, SMT
     DEF StoredInOrder, FileInOrder, FileOrdered, InOrder, HandlingLast, PendingOK
<1>6. WindowsOK /\ WindowsLabelled /\ GapsAreSynced
  BY <1>1, <1>2, SMT DEF WindowsOK, WindowsLabelled, GapsAreSynced, IsSeq
<1>7. EachBlockAnchoredOnce
  <2>1. [k \in DOMAIN history |-> history[k].blockIds] = <<>>
    BY <1>1, SMT
  <2> QED BY <1>1, <2>1, FlattenEmpty, SMT DEF EachBlockAnchoredOnce
<1> QED BY <1>3, <1>4, <1>5, <1>6, <1>7 DEF IInv

\* What a write that is cut short, by an error or by a crash, leaves of a file.
LEMMA CutKeeps ==
    ASSUME IInv, disk' = disk,
           \/ tail' = tail
           \/ tail' = Garbage
           \/ tail = NoTail /\ tail' = height /\ height \in 1..MaxHeight
    PROVE  /\ tail' \in -1..MaxHeight /\ Lines' \in Seq(0..MaxHeight)
           /\ FileOrdered => /\ InOrder(Lines')
                             /\ \A k \in DOMAIN Lines' : Lines'[k] < height + 1
<1>1. /\ MaxHeight \in Nat /\ disk \in Seq(0..MaxHeight) /\ tail \in -1..MaxHeight
      /\ height \in Nat
  BY HostAssumption, SMT DEF IInv, TypeOK
<1>2. tail # NoTail => tail \in 0..MaxHeight
  BY <1>1, SMT DEF NoTail
<1>3. tail' \in -1..MaxHeight /\ (tail' # NoTail => tail' \in 0..MaxHeight)
  BY <1>1, SMT DEF Garbage, NoTail
<1>4. Lines \in Seq(0..MaxHeight)
  BY <1>1, <1>2, LinesType
<1>5. Lines' \in Seq(0..MaxHeight)
  <2>1. tail' # NoTail => Append(disk, tail') \in Seq(0..MaxHeight)
    BY <1>1, <1>3, SMT
  <2> QED BY <1>1, <2>1 DEF Lines
<1>6. ASSUME FileOrdered
      PROVE  InOrder(Lines') /\ \A k \in DOMAIN Lines' : Lines'[k] < height + 1
  <2>1. InOrder(Lines) /\ \A k \in DOMAIN Lines : Lines[k] < height /\ Lines[k] \in Nat
    <3>1. \A k \in DOMAIN Lines : Lines[k] \in Nat
      BY <1>1, <1>4, SMT
    <3> QED BY <1>6, <3>1 DEF FileOrdered
  <2>2. CASE tail' = tail
    <3>1. Lines' = Lines
      BY <2>2 DEF Lines
    <3>2. \A k \in DOMAIN Lines : Lines[k] < height + 1
      BY <1>1, <2>1, SMT
    <3> QED BY <2>1, <3>1, <3>2
  <2>3. ASSUME tail = NoTail, tail' \in 0..MaxHeight, tail' = Garbage \/ tail' = height
        PROVE  InOrder(Lines') /\ \A k \in DOMAIN Lines' : Lines'[k] < height + 1
    <3>1. Lines = disk /\ Lines' = Append(disk, tail')
      BY <1>1, <2>3, SMT DEF Lines, NoTail
    <3> QED BY <1>1, <2>1, <2>3, <3>1, LineAbove
  <2>4. CASE tail # NoTail /\ tail' = Garbage
    <3>1. Lines = Append(disk, tail) /\ Lines' = Append(disk, Garbage)
      BY <1>1, <2>4, SMT DEF Lines, NoTail, Garbage
    <3> DEFINE n == Len(disk)
    <3>2. /\ DOMAIN Lines = 1..n + 1 /\ n \in Nat /\ DOMAIN Lines' = 1..n + 1
          /\ \A k \in 1..n : Lines'[k] = Lines[k]
          /\ Lines'[n + 1] = Garbage
      BY <1>1, <1>2, <2>4, <3>1, SMT DEF Garbage
    <3> HIDE DEF n
    <3>3. \A k \in 1..n + 1 : (k \in 1..n /\ Lines'[k] = Lines[k]) \/ Lines'[k] = Garbage
      <4>1. \A k \in 1..n + 1 : k \in 1..n \/ k = n + 1
        BY <3>2, SMT
      <4> QED BY <3>2, <4>1
    <3>4. \A k \in 1..n : k \in DOMAIN Lines
      BY <3>2, SMT
    <3>5. InOrder(Lines')
      BY <2>1, <3>2, <3>3, <3>4 DEF InOrder
    <3>6. \A k \in DOMAIN Lines : Lines[k] < height + 1
      BY <1>1, <2>1, SMT
    <3>7. Garbage < height + 1
      BY <1>1, SMT DEF Garbage
    <3> QED BY <3>2, <3>3, <3>4, <3>5, <3>6, <3>7
  <2>5. Garbage \in 0..MaxHeight /\ (height \in 1..MaxHeight => height \in 0..MaxHeight)
    BY <1>1, SMT DEF Garbage
  <2> QED BY <2>2, <2>3, <2>4, <2>5
<1> QED BY <1>3, <1>5, <1>6

\* Storing the block of the height keeps memory and file in order, whether the
\* file takes it or not (BlockStore::append).
LEMMA StoreKeeps ==
    ASSUME IInv, height \in 1..MaxHeight, StoreAppend(height), height' = height + 1
    PROVE  /\ blocks' \in Seq(1..MaxHeight)
           /\ disk' \in Seq(0..MaxHeight) /\ tail' \in -1..MaxHeight
           /\ misread' \in BOOLEAN /\ errors' \in 0..MaxErrors
           /\ height' = TipHeight' + 1 /\ height' \in 1..MaxHeight + 1
           /\ StoredInOrder' /\ FileInOrder'
<1>1. /\ MaxHeight \in Nat /\ blocks \in Seq(1..MaxHeight)
      /\ disk \in Seq(0..MaxHeight) /\ tail \in -1..MaxHeight
      /\ height \in Nat /\ height \in 0..MaxHeight
      /\ height = TipOf(blocks) + 1
      /\ misread \in BOOLEAN /\ misread' = misread
  BY HostAssumption, SMT DEF IInv, TypeOK, TipHeight, TipOf, StoreAppend
<1>2. blocks' = Append(blocks, height)
  BY DEF StoreAppend
<1>3. blocks' \in Seq(1..MaxHeight) /\ TipOf(blocks') = height
  BY <1>1, <1>2, SMT DEF TipOf, Last
<1>4. height' = TipHeight' + 1 /\ height' \in 1..MaxHeight + 1
  BY <1>1, <1>3, SMT DEF TipHeight, TipOf
<1>5. StoredInOrder'
  <2> SUFFICES ASSUME ~misread PROVE GoesUp(blocks')
    BY <1>1 DEF StoredInOrder, GoesUp
  <2>1. GoesUp(blocks)
    BY DEF IInv, StoredInOrder, GoesUp
  <2> QED BY <1>1, <1>2, <2>1, AppendAbove
<1>6. errors' \in 0..MaxErrors
  BY StoreAssumption, SMT DEF IInv, TypeOK, StoreAppend, Fails
<1>7. CASE Fails /\ tail' \in CutShort(height) /\ UNCHANGED disk
  <2>1. \/ tail' = tail
        \/ tail' = Garbage
        \/ tail = NoTail /\ tail' = height /\ height \in 1..MaxHeight
    BY <1>7, SMT DEF CutShort
  <2>2. /\ tail' \in -1..MaxHeight
        /\ FileOrdered => /\ InOrder(Lines')
                          /\ \A k \in DOMAIN Lines' : Lines'[k] < height + 1
    BY <1>7, <2>1, CutKeeps
  <2>3. FileInOrder'
    BY <1>1, <2>2 DEF IInv, FileInOrder, FileOrdered
  <2> QED BY <1>1, <1>3, <1>4, <1>5, <1>6, <1>7, <2>2, <2>3
<1>8. CASE /\ disk' = Append(disk, IF tail = NoTail THEN height ELSE Garbage)
           /\ tail' = NoTail
  <2> DEFINE b == IF tail = NoTail THEN height ELSE Garbage
  <2>1. b \in 0..MaxHeight /\ (b = Garbage \/ b = height)
    BY <1>1, SMT DEF Garbage
  <2>2. disk' = Append(disk, b) /\ Lines' = disk'
    BY <1>8 DEF Lines
  <2> HIDE DEF b
  <2>3. disk' \in Seq(0..MaxHeight) /\ tail' \in -1..MaxHeight
    BY <1>1, <1>8, <2>1, <2>2, SMT DEF NoTail
  <2>4. ASSUME FileOrdered PROVE FileOrdered'
    <3>1. InOrder(disk) /\ \A k \in DOMAIN disk : disk[k] < height
      <4>1. CASE tail = NoTail
        BY <2>4, <4>1 DEF FileOrdered, Lines
      <4>2. CASE tail # NoTail
        <5>1. Lines = Append(disk, tail)
          BY <4>2 DEF Lines
        <5>2. /\ DOMAIN disk = 1..Len(disk) /\ DOMAIN Lines = 1..Len(disk) + 1
              /\ Len(disk) \in Nat
          BY <1>1, <5>1, SMT
        <5>3. \A k \in 1..Len(disk) : Append(disk, tail)[k] = disk[k]
          BY <1>1, SMT
        <5>4. \A k \in DOMAIN disk : k \in DOMAIN Lines /\ Lines[k] = disk[k]
          BY <5>1, <5>2, <5>3, SMT
        <5> QED BY <2>4, <5>4 DEF FileOrdered, InOrder
      <4> QED BY <4>1, <4>2
    <3>2. InOrder(disk') /\ \A k \in DOMAIN disk' : disk'[k] < height + 1
      BY <1>1, <2>1, <2>2, <3>1, LineAbove
    <3> QED BY <2>2, <3>2 DEF FileOrdered
  <2>5. FileInOrder'
    BY <1>1, <2>4 DEF IInv, FileInOrder
  <2> QED BY <1>1, <1>3, <1>4, <1>5, <1>6, <2>3, <2>5
<1> QED BY <1>7, <1>8 DEF StoreAppend

\* What open finds after a crash is in order, and no line of the file is above
\* its tip, if it reads them all (BlockStore::open).
LEMMA ReopenKeeps ==
    ASSUME IInv, NEW writing, writing \subseteq {height} \cap 1..MaxHeight,
           StoreReopen(writing), height' = TipHeight' + 1
    PROVE  /\ blocks' \in Seq(1..MaxHeight)
           /\ disk' \in Seq(0..MaxHeight) /\ tail' \in -1..MaxHeight
           /\ misread' \in BOOLEAN /\ errors' \in 0..MaxErrors
           /\ height' \in 1..MaxHeight + 1
           /\ StoredInOrder' /\ FileInOrder'
<1>1. /\ MaxHeight \in Nat /\ disk \in Seq(0..MaxHeight) /\ disk' = disk
      /\ misread \in BOOLEAN /\ errors \in 0..MaxErrors
  BY HostAssumption DEF IInv, TypeOK, StoreReopen
<1>2. \/ tail' = tail
      \/ tail' = Garbage
      \/ tail = NoTail /\ tail' = height /\ height \in 1..MaxHeight
  BY SMT DEF StoreReopen, CutShort
<1>3. /\ tail' \in -1..MaxHeight /\ Lines' \in Seq(0..MaxHeight)
      /\ FileOrdered => InOrder(Lines')
  BY <1>1, <1>2, CutKeeps
<1>4. ASSUME blocks' \in Seq(1..MaxHeight)
      PROVE  height' = TipOf(blocks') + 1 /\ height' \in 1..MaxHeight + 1
  <2>1. height' = TipOf(blocks') + 1
    BY DEF TipHeight, TipOf
  <2>2. TipOf(blocks') \in 0..MaxHeight
    BY <1>1, <1>4, SMT DEF TipOf, Last
  <2> QED BY <1>1, <2>1, <2>2, SMT
<1>5. CASE blocks' = Parsed(Len(Lines))' /\ UNCHANGED <<misread, errors>>
  <2>1. blocks' = Retain(Lines', Nat \ {Garbage})
    <3>1. SubSeq(Lines', 1, Len(Lines')) = Lines'
      <4> DEFINE l == Lines'
      <4>1. l \in Seq(0..MaxHeight)
        BY <1>3
      <4> HIDE DEF l
      <4>2. SubSeq(l, 1, Len(l)) = l
        BY <4>1, SMT
      <4> QED BY <4>2 DEF l
    <3> QED BY <1>5, <3>1 DEF Parsed
  <2>2. blocks' \in Seq(1..MaxHeight)
    BY <1>1, <1>3, <2>1, ParsedType
  <2>3. ASSUME ~misread
        PROVE  GoesUp(blocks') /\ FileOrdered'
    <3>1. InOrder(Lines')
      BY <1>3, <2>3 DEF IInv, FileInOrder
    <3>2. GoesUp(blocks') /\ \A k \in DOMAIN Lines' : Lines'[k] < TipOf(blocks') + 1
      BY <1>1, <1>3, <2>1, <3>1, ParsedInOrder
    <3> QED BY <1>4, <2>2, <3>1, <3>2 DEF FileOrdered
  <2>4. StoredInOrder' /\ FileInOrder'
    BY <1>5, <2>3 DEF StoredInOrder, GoesUp, FileInOrder
  <2> QED BY <1>1, <1>3, <1>4, <1>5, <2>2, <2>4
<1>6. CASE /\ Fails /\ misread' = TRUE
           /\ \E n \in 0..Len(Lines') - 1 : blocks' = Parsed(n)'
  <2>1. PICK n \in 0..Len(Lines') - 1 :
            blocks' = Retain(SubSeq(Lines', 1, n), Nat \ {Garbage})
    BY <1>6 DEF Parsed
  <2>2. SubSeq(Lines', 1, n) \in Seq(0..MaxHeight)
    <3> DEFINE l == Lines'
    <3>1. l \in Seq(0..MaxHeight) /\ n \in 0..Len(l) - 1
      BY <1>3
    <3> HIDE DEF l
    <3>2. n \in 0..Len(l)
      BY <3>1, SMT
    <3>3. SubSeq(l, 1, n) \in Seq(0..MaxHeight)
      BY <3>1, <3>2, HeadOfLines
    <3> QED BY <3>3 DEF l
  <2>3. blocks' \in Seq(1..MaxHeight)
    BY <1>1, <2>1, <2>2, ParsedType
  <2>4. StoredInOrder' /\ FileInOrder'
    BY <1>6 DEF StoredInOrder, FileInOrder
  <2>5. errors' \in 0..MaxErrors
    BY <1>1, <1>6, StoreAssumption, SMT DEF Fails
  <2> QED BY <1>1, <1>3, <1>4, <1>6, <2>3, <2>4, <2>5
<1> QED BY <1>5, <1>6 DEF StoreReopen

-----------------------------------------------------------------------------
(* The windows.                                                            *)

\* The blocks of the windows of a history, one after the other.
Anchored(hist) == Flatten([k \in DOMAIN hist |-> hist[k].blockIds])

\* A window adds its blocks at the end.
LEMMA AnchoredAppend ==
    ASSUME NEW X, NEW hist, IsSeq(hist), NEW w, w.blockIds \in Seq(X),
           \A k \in DOMAIN hist : hist[k].blockIds \in Seq(X)
    PROVE  /\ Anchored(hist) \in Seq(X)
           /\ Anchored(Append(hist, w)) = Anchored(hist) \o w.blockIds
<1> DEFINE Y == Seq(X)
           N == Len(hist)
           ss == [k \in DOMAIN hist |-> hist[k].blockIds]
           long == Append(hist, w)
           tt == [k \in DOMAIN long |-> long[k].blockIds]
<1>1. /\ N \in Nat /\ DOMAIN hist = 1..N /\ DOMAIN long = 1..N + 1
      /\ \A k \in 1..N : long[k] = hist[k]
      /\ long[N + 1] = w
  <2>1. PICK Z : hist \in Seq(Z)
    BY DEF IsSeq
  <2>2. hist \in Seq(Z \cup {w})
    BY <2>1, SMT
  <2> QED BY <2>2, SMT
<1> HIDE DEF long, N
<1>2. ss \in [1..N -> Y] /\ w.blockIds \in Y
  BY <1>1
<1> HIDE DEF Y
<1>3. ss \in Seq(Y) /\ Len(ss) = N
  BY <1>1, <1>2, SMT
<1>4. /\ Append(ss, w.blockIds) \in Seq(Y) /\ DOMAIN Append(ss, w.blockIds) = 1..N + 1
      /\ \A k \in 1..N : Append(ss, w.blockIds)[k] = ss[k]
      /\ Append(ss, w.blockIds)[N + 1] = w.blockIds
  <2> HIDE DEF ss
  <2> QED BY <1>2, <1>3, SMT
<1>5. \A k \in 1..N + 1 : tt[k] = Append(ss, w.blockIds)[k]
  <2>1. \A k \in 1..N + 1 : k \in 1..N \/ k = N + 1
    BY <1>1, SMT
  <2>2. \A k \in 1..N : ss[k] = hist[k].blockIds
    BY <1>1
  <2>3. \A k \in 1..N + 1 : tt[k] = long[k].blockIds
    BY <1>1
  <2> HIDE DEF ss, tt
  <2> QED BY <1>1, <1>4, <2>1, <2>2, <2>3
<1>6. tt = Append(ss, w.blockIds)
  <2> DEFINE a == Append(ss, w.blockIds)
  <2>1. tt = [k \in 1..N + 1 |-> tt[k]]
    BY <1>1
  <2>2. a \in Seq(Y) /\ DOMAIN a = 1..N + 1
    BY <1>4
  <2>3. \A k \in 1..N + 1 : tt[k] = a[k]
    BY <1>5
  <2> HIDE DEF ss, tt, a
  <2>4. a = [k \in 1..N + 1 |-> a[k]]
    BY <2>2, SMT
  <2>5. tt = a
    BY <2>1, <2>3, <2>4
  <2> QED BY <2>5 DEF a
<1>7. Anchored(hist) = Flatten(ss) /\ Anchored(Append(hist, w)) = Flatten(tt)
  BY DEF Anchored, long
<1> HIDE DEF ss, tt
<1>8. /\ Flatten(ss) \in Seq(X)
      /\ Flatten(Append(ss, w.blockIds)) = Flatten(ss) \o w.blockIds
  BY <1>2, <1>3, FlattenAppend DEF Y
<1> QED BY <1>6, <1>7, <1>8

\* A final block reaches the store before the anchoring service, or, obtained
\* by sync, the store only: what the service has and had stays as it is said to
\* be (Effect::Committed and Event::Wire(Blocks)).
LEMMA StoreLeavesWindows ==
    ASSUME IInv, handling = 0, height \in 1..MaxHeight, height' = height + 1,
           UNCHANGED <<anchorVars, recorded>>,
           \/ handling' = height /\ synced' = synced
           \/ handling' = handling /\ synced' = synced \cup {height}
    PROVE  /\ handling' \in 0..MaxHeight
           /\ synced' \subseteq 1..MaxHeight /\ synced' \subseteq 1..height' - 1
           /\ HandlingLast' /\ PendingOK' /\ WindowsOK'
           /\ EachBlockAnchoredOnce' /\ WindowsLabelled' /\ GapsAreSynced'
<1>1. /\ MaxHeight \in Nat /\ height \in Nat /\ synced \subseteq 1..height - 1
      /\ synced \subseteq 1..MaxHeight
      /\ pendingIds \in Seq(1..MaxHeight) /\ handling \in 0..MaxHeight
      /\ HandlingLast /\ PendingOK /\ WindowsOK
      /\ EachBlockAnchoredOnce /\ WindowsLabelled /\ GapsAreSynced
  BY HostAssumption, SMT DEF IInv, TypeOK
<1>2. /\ pendingIds' = pendingIds /\ pendingFrom' = pendingFrom
      /\ history' = history /\ published' = published /\ recorded' = recorded
  BY DEF anchorVars
<1>3. /\ handling' \in 0..MaxHeight
      /\ synced' \subseteq 1..MaxHeight /\ synced' \subseteq 1..height' - 1
      /\ height \notin synced
  <2>1. height' - 1 = height /\ height \in 1..height /\ \A x \in 1..height - 1 : x \in 1..height
    BY <1>1, SMT
  <2>2. height \notin 1..height - 1
    BY <1>1, SMT
  <2>3. handling' \in 0..MaxHeight
    BY <1>1, SMT
  <2> QED BY <1>1, <2>1, <2>2, <2>3
<1>4. HandlingLast'
  BY <1>1, <1>3, SMT DEF HandlingLast
<1>5. PendingOK'
  <2>1. \A i \in DOMAIN pendingIds : pendingIds[i] \in 1..MaxHeight /\ pendingIds[i] < height
    BY <1>1, SMT DEF PendingOK
  <2>2. \A i \in DOMAIN pendingIds : pendingIds[i] < height'
    BY <1>1, <2>1, SMT
  <2>3. ASSUME pendingIds # <<>>
        PROVE  (pendingFrom..height' - 1) \ (Range(pendingIds) \cup {handling'})
                = synced' \cap (pendingFrom..height' - 1)
    <3>1. /\ pendingFrom \in 1..MaxHeight
          /\ (pendingFrom..height - 1) \ (Range(pendingIds) \cup {handling})
                = synced \cap (pendingFrom..height - 1)
      BY <1>1, <2>3, SMT DEF PendingOK
    <3>2. height \notin Range(pendingIds)
      BY <1>1, <2>1, SMT DEF Range
    <3>3. /\ pendingFrom..height' - 1 = pendingFrom..height
          /\ \A x \in pendingFrom..height : x = height \/ x \in pendingFrom..height - 1
          /\ \A x \in pendingFrom..height - 1 : x # handling /\ x # height
      BY <1>1, <3>1, SMT
    <3>4. \A x \in pendingFrom..height - 1 : x \in Range(pendingIds) <=> x \notin synced
      BY <3>1, <3>3
    <3>5. \A x \in pendingFrom..height - 1 :
            x \in Range(pendingIds) \cup {handling'} <=> x \notin synced'
      BY <3>3, <3>4
    <3>6. height \in Range(pendingIds) \cup {handling'} <=> height \notin synced'
      BY <1>1, <1>3, <3>2, SMT
    <3>7. \A x \in pendingFrom..height :
            x \in Range(pendingIds) \cup {handling'} <=> x \notin synced'
      BY <3>3, <3>5, <3>6
    <3> QED BY <3>3, <3>7
  <2> QED BY <1>1, <1>2, <2>2, <2>3 DEF PendingOK
<1>6. WindowsOK' /\ GapsAreSynced'
  <2>1. ASSUME NEW k \in DOMAIN history
        PROVE  /\ history[k].to < height'
               /\ height \notin history[k].from..history[k].to
    <3>1. history[k].blockIds \in Seq(1..MaxHeight) /\ history[k].blockIds # <<>>
      BY <1>1 DEF WindowsOK
    <3>2. history[k].to = Last(history[k].blockIds) /\ history[k].to < height
      BY <1>1 DEF WindowsOK, WindowsLabelled
    <3>3. history[k].to \in Nat
      BY <1>1, <3>1, <3>2, SMT DEF Last
    <3> QED BY <1>1, <3>2, <3>3, SMT
  <2>2. ASSUME NEW k \in DOMAIN history
        PROVE  synced' \cap (history[k].from..history[k].to)
                = synced \cap (history[k].from..history[k].to)
    BY <2>1
  <2>3. WindowsOK'
    BY <1>1, <1>2, <2>1 DEF WindowsOK
  <2>4. GapsAreSynced'
    BY <1>1, <1>2, <2>2 DEF GapsAreSynced
  <2> QED BY <2>3, <2>4
<1>7. EachBlockAnchoredOnce' /\ WindowsLabelled'
  BY <1>1, <1>2 DEF EachBlockAnchoredOnce, WindowsLabelled
<1> QED BY <1>3, <1>4, <1>5, <1>6, <1>7

\* The window with the block that record_block is given: it is labelled with
\* its first and last block, and what it leaves out was obtained by sync.
LEMMA WindowGrows ==
    ASSUME IInv, handling # 0,
           NEW ids, ids = Append(pendingIds, handling),
           NEW from, from = IF pendingFrom = None THEN handling ELSE pendingFrom
    PROVE  /\ ids \in Seq(1..MaxHeight) /\ ids # <<>>
           /\ \A i \in DOMAIN ids : ids[i] < height
           /\ from = Head(ids) /\ handling = Last(ids)
           /\ from \in 1..MaxHeight /\ handling = height - 1
           /\ (from..handling) \ Range(ids) = synced \cap (from..handling)
<1>1. /\ MaxHeight \in Nat /\ height \in Nat /\ pendingIds \in Seq(1..MaxHeight)
      /\ handling \in 1..MaxHeight /\ handling = height - 1 /\ handling \notin synced
      /\ PendingOK
  BY HostAssumption, SMT DEF IInv, TypeOK, HandlingLast
<1>2. /\ ids \in Seq(1..MaxHeight) /\ ids # <<>>
      /\ Last(ids) = handling /\ Head(ids) = ids[1]
  BY <1>1, SMT DEF Last
<1>3. Range(ids) = Range(pendingIds) \cup {handling}
  BY <1>1, AppendMembers, SMT
<1>4. \A i \in DOMAIN ids : ids[i] < height
  <2>1. \A i \in DOMAIN ids : ids[i] \in Range(ids)
    BY DEF Range
  <2>2. \A x \in Range(pendingIds) : x < height
    BY <1>1 DEF PendingOK, Range
  <2>3. handling < height
    BY <1>1, SMT
  <2> QED BY <1>3, <2>1, <2>2, <2>3
<1>5. CASE pendingIds = <<>>
  <2>1. from = handling /\ ids = <<handling>>
    BY <1>1, <1>5, SMT DEF PendingOK
  <2>2. from..handling = {handling}
    BY <1>1, <2>1, SMT
  <2>3. handling \in Range(ids)
    BY <1>3
  <2> QED BY <1>1, <1>2, <1>4, <2>1, <2>2, <2>3, SMT
<1>6. CASE pendingIds # <<>>
  <2>1. /\ pendingFrom = Head(pendingIds)
        /\ (pendingFrom..height - 1) \ (Range(pendingIds) \cup {handling})
                = synced \cap (pendingFrom..height - 1)
    BY <1>1, <1>6 DEF PendingOK
  <2>2. pendingFrom \in 1..MaxHeight /\ ids[1] = Head(pendingIds)
    BY <1>1, <1>6, <2>1, SMT
  <2>3. from = pendingFrom
    BY <1>1, <2>2, SMT DEF None
  <2> QED BY <1>1, <1>2, <1>3, <1>4, <2>1, <2>2, <2>3
<1> QED BY <1>5, <1>6

\* AnchorService::record_block keeps what is said of the windows, whether it
\* publishes the window, fails to, or waits for more blocks.
LEMMA RecordKeeps ==
    ASSUME IInv, AnchorCommitted
    PROVE  /\ pendingIds' \in Seq(1..MaxHeight) /\ pendingFrom' \in -1..MaxHeight
           /\ PendingOK' /\ WindowsOK'
           /\ EachBlockAnchoredOnce' /\ WindowsLabelled' /\ GapsAreSynced'
<1> DEFINE ids == Append(pendingIds, handling)
           from == IF pendingFrom = None THEN handling ELSE pendingFrom
           w == [blockIds |-> ids, from |-> from, to |-> handling, root |-> RootOf(ids)]
<1>1. /\ handling # 0 /\ handling' = 0 /\ recorded' = Append(recorded, handling)
      /\ height' = height /\ synced' = synced
      /\ RecordBlock(handling)
  BY DEF AnchorCommitted
<1>2. /\ MaxHeight \in Nat /\ height \in Nat /\ pendingIds \in Seq(1..MaxHeight)
      /\ handling \in 1..MaxHeight
      /\ WindowsOK /\ EachBlockAnchoredOnce /\ WindowsLabelled /\ GapsAreSynced
  BY <1>1, HostAssumption, SMT DEF IInv, TypeOK
<1>3. /\ ids \in Seq(1..MaxHeight) /\ ids # <<>>
      /\ \A i \in DOMAIN ids : ids[i] < height
      /\ from = Head(ids) /\ handling = Last(ids)
      /\ from \in 1..MaxHeight /\ handling = height - 1
      /\ (from..handling) \ Range(ids) = synced \cap (from..handling)
  BY <1>1, WindowGrows
<1>4. /\ Anchored(history) \in Seq(1..MaxHeight)
      /\ Anchored(Append(history, w)) = Anchored(history) \o ids
      /\ Anchored(history) \o pendingIds = recorded
  <2>1. IsSeq(history) /\ \A k \in DOMAIN history : history[k].blockIds \in Seq(1..MaxHeight)
    BY <1>2 DEF WindowsOK
  <2>2. w.blockIds = ids /\ w.blockIds \in Seq(1..MaxHeight)
    BY <1>3
  <2> HIDE DEF w, ids
  <2>3. /\ Anchored(history) \in Seq(1..MaxHeight)
        /\ Anchored(Append(history, w)) = Anchored(history) \o w.blockIds
    BY <2>1, <2>2, AnchoredAppend
  <2>4. Anchored(history) \o pendingIds = recorded
    BY <1>2 DEF EachBlockAnchoredOnce, Anchored
  <2> QED BY <2>2, <2>3, <2>4
<1>5. Anchored(history) \o ids = recorded'
  <2> DEFINE a == Anchored(history)
  <2>1. a \in Seq(1..MaxHeight) /\ a \o pendingIds = recorded
    BY <1>4
  <2> HIDE DEF a
  <2>2. a \o Append(pendingIds, handling) = Append(a \o pendingIds, handling)
    BY <1>2, <2>1, SMT
  <2> QED BY <1>1, <2>1, <2>2 DEF a
<1>6. \/ /\ pendingIds' = ids /\ pendingFrom' = from
         /\ history' = history /\ published \subseteq published'
      \/ /\ pendingIds' = <<>> /\ pendingFrom' = None
         /\ history' = Append(history, w) /\ published' = published \cup {RootOf(ids)}
  BY <1>1 DEF RecordBlock, Flush, Publish, StartWindow, KeepWindow
<1> HIDE DEF ids, from
<1>7. CASE /\ pendingIds' = ids /\ pendingFrom' = from
           /\ history' = history /\ published \subseteq published'
  <2>1. pendingIds' \in Seq(1..MaxHeight) /\ pendingFrom' \in -1..MaxHeight
    BY <1>2, <1>3, <1>7, SMT
  <2>2. PendingOK'
    <3>1. (from..height - 1) \ (Range(ids) \cup {0}) = synced \cap (from..height - 1)
      <4>1. 0 \notin from..handling /\ height - 1 = handling
        BY <1>2, <1>3, SMT
      <4> QED BY <1>3, <4>1
    <3> QED BY <1>1, <1>3, <1>7, <3>1 DEF PendingOK
  <2>3. WindowsOK' /\ WindowsLabelled' /\ GapsAreSynced'
    BY <1>1, <1>2, <1>7 DEF WindowsOK, WindowsLabelled, GapsAreSynced
  <2>4. EachBlockAnchoredOnce'
    BY <1>5, <1>7 DEF EachBlockAnchoredOnce, Anchored
  <2> QED BY <2>1, <2>2, <2>3, <2>4
<1>8. CASE /\ pendingIds' = <<>> /\ pendingFrom' = None
           /\ history' = Append(history, w) /\ published' = published \cup {RootOf(ids)}
  <2>1. pendingIds' \in Seq(1..MaxHeight) /\ pendingFrom' \in -1..MaxHeight
    BY <1>2, <1>8, SMT DEF None
  <2>2. PendingOK'
    BY <1>8, SMT DEF PendingOK
  <2>3. /\ w.blockIds = ids /\ w.from = from /\ w.to = handling /\ w.root = RootOf(ids)
    OBVIOUS
  <2> HIDE DEF w
  <2>4. PICK Z : history \in Seq(Z)
    BY <1>2 DEF WindowsOK, IsSeq
  <2>5. history \in Seq(Z \cup {w})
    BY <2>4, SMT
  <2>6. IsSeq(history') /\ \A k \in DOMAIN history' :
            (k \in DOMAIN history /\ history'[k] = history[k]) \/ history'[k] = w
    <3>1. history' \in Seq(Z \cup {w})
      BY <1>8, <2>5, SMT
    <3> DEFINE n == Len(history)
    <3>2. /\ n \in Nat /\ DOMAIN history = 1..n /\ DOMAIN history' = 1..n + 1
          /\ \A k \in 1..n : history'[k] = history[k]
          /\ history'[n + 1] = w
      BY <1>8, <2>5, SMT
    <3> HIDE DEF n
    <3>3. \A k \in 1..n + 1 : k \in 1..n \/ k = n + 1
      BY <3>2, SMT
    <3> QED BY <3>1, <3>2, <3>3 DEF IsSeq
  <2>7. WindowsOK'
    <3>1. handling < height
      BY <1>2, <1>3, SMT
    <3> QED BY <1>1, <1>2, <1>3, <1>8, <2>3, <2>6, <3>1 DEF WindowsOK
  <2>8. WindowsLabelled' /\ GapsAreSynced'
    BY <1>1, <1>2, <1>3, <2>3, <2>6 DEF WindowsLabelled, GapsAreSynced
  <2>9. EachBlockAnchoredOnce'
    <3>1. Anchored(history)  \o ids \in Seq(1..MaxHeight)
      BY <1>3, <1>4, SMT
    <3>2. Anchored(history') \o <<>> = Anchored(history) \o ids
      <4> DEFINE a == Anchored(history) \o ids
      <4>1. a \in Seq(1..MaxHeight) /\ Anchored(history') = a
        BY <1>4, <1>8, <3>1
      <4> HIDE DEF a
      <4>2. a \o <<>> = a
        BY <4>1, SMT
      <4> QED BY <4>1, <4>2 DEF a
    <3> QED BY <1>5, <1>8, <3>2 DEF EachBlockAnchoredOnce, Anchored
  <2> QED BY <2>1, <2>2, <2>7, <2>8, <2>9
<1> QED BY <1>6, <1>7, <1>8

\* Every step keeps the invariant: one case for each handler, and the restart.
LEMMA NextIInv == IInv /\ [Next]_hostVars => IInv'
<1> SUFFICES ASSUME IInv, [Next]_hostVars PROVE IInv'
  OBVIOUS
<1>1. /\ MaxHeight \in Nat /\ height \in 1..MaxHeight + 1 /\ TypeOK
  BY HostAssumption DEF IInv
<1>2. CASE StoreCommitted
  <2>1. /\ handling = 0 /\ height \in 1..MaxHeight /\ StoreAppend(height)
        /\ height' = height + 1 /\ handling' = height /\ synced' = synced
        /\ UNCHANGED <<anchorVars, recorded>>
    BY <1>1, <1>2, SMT DEF StoreCommitted
  <2>2. pendingIds' = pendingIds /\ pendingFrom' = pendingFrom
    BY <2>1 DEF anchorVars
  <2> QED BY <1>1, <2>1, <2>2, StoreKeeps, StoreLeavesWindows, SMTT(40) DEF IInv, TypeOK
<1>3. CASE ApplySynced
  <2>1. /\ handling = 0 /\ height \in 1..MaxHeight /\ StoreAppend(height)
        /\ height' = height + 1 /\ handling' = handling /\ synced' = synced \cup {height}
        /\ UNCHANGED <<anchorVars, recorded>>
    BY <1>1, <1>3, SMT DEF ApplySynced
  <2>2. pendingIds' = pendingIds /\ pendingFrom' = pendingFrom
    BY <2>1 DEF anchorVars
  <2> QED BY <1>1, <2>1, <2>2, StoreKeeps, StoreLeavesWindows DEF IInv, TypeOK
<1>4. CASE AnchorCommitted
  <2>1. UNCHANGED <<storeVars, height, synced>> /\ handling' = 0
    BY <1>4 DEF AnchorCommitted
  <2>2. /\ blocks' = blocks /\ disk' = disk /\ tail' = tail
        /\ misread' = misread /\ errors' = errors
        /\ TipHeight' = TipHeight /\ Lines' = Lines
    BY <2>1 DEF storeVars, TipHeight, Lines
  <2>3. StoredInOrder' /\ FileInOrder' /\ HandlingLast'
    BY <2>1, <2>2 DEF IInv, StoredInOrder, FileInOrder, FileOrdered, HandlingLast
  <2>4. TypeOK'
    BY <1>1, <1>4, <2>1, <2>2, RecordKeeps, SMT DEF TypeOK
  <2> QED BY <1>1, <1>4, <2>1, <2>3, <2>4, RecordKeeps DEF IInv
<1>5. CASE Restart
  <2> DEFINE writing == IF handling = 0 THEN {height} \cap 1..MaxHeight ELSE {}
  <2>1. /\ StoreReopen(writing) /\ height' = TipHeight' + 1
        /\ handling' = 0 /\ recorded' = <<>> /\ synced' = {}
        /\ pendingIds' = <<>> /\ pendingFrom' = None /\ history' = <<>>
    BY <1>5 DEF Restart, AnchorStart
  <2>2. writing \subseteq {height} \cap 1..MaxHeight
    OBVIOUS
  <2> HIDE DEF writing
  <2>3. /\ blocks' \in Seq(1..MaxHeight)
        /\ disk' \in Seq(0..MaxHeight) /\ tail' \in -1..MaxHeight
        /\ misread' \in BOOLEAN /\ errors' \in 0..MaxErrors
        /\ height' \in 1..MaxHeight + 1
        /\ StoredInOrder' /\ FileInOrder'
    BY <2>1, <2>2, ReopenKeeps
  <2>4. \A Y : <<>> \in Seq(Y)
    BY SMT
  <2>5. TypeOK'
    BY <1>1, <2>1, <2>3, <2>4, SMT DEF TypeOK, None
  <2>6. HandlingLast' /\ PendingOK' /\ WindowsOK' /\ WindowsLabelled' /\ GapsAreSynced'
    BY <2>1, <2>4, SMT DEF HandlingLast, PendingOK, WindowsOK, WindowsLabelled, GapsAreSynced, IsSeq
  <2>7. EachBlockAnchoredOnce'
    <3>1. [k \in DOMAIN history' |-> history'[k].blockIds] = <<>>
      BY <2>1, SMT
    <3> QED BY <2>1, <3>1, FlattenEmpty, SMT DEF EachBlockAnchoredOnce
  <2> QED BY <2>1, <2>3, <2>5, <2>6, <2>7 DEF IInv
<1>6. CASE UNCHANGED hostVars
  BY <1>6 DEF hostVars, storeVars, anchorVars, IInv, TypeOK, TipHeight, StoredInOrder,
     FileInOrder, FileOrdered, Lines, HandlingLast, PendingOK, WindowsOK, EachBlockAnchoredOnce,
     WindowsLabelled, GapsAreSynced
<1> QED BY <1>2, <1>3, <1>4, <1>5, <1>6 DEF Next

\* In every reachable state memory and file are in order, if no start has misread
\* the file, and the windows say what they hold.
THEOREM HostInvariant == Spec => []IInv
<1>1. Init => IInv
  BY InitIInv
<1>2. IInv /\ [Next]_hostVars => IInv'
  BY NextIInv
<1> QED BY <1>1, <1>2, PTL DEF Spec

-----------------------------------------------------------------------------
(* What follows from it.                                                   *)

\* The types hold, and the engine continues from the tip of the store
\* (Node::new).
THEOREM HostTypes == Spec => []TypeOK
BY HostInvariant, PTL DEF IInv

\* However often a crash cuts a write short and however many writes fail, the
\* heights of the blocks a node serves go up, as long as every start reads its
\* file to the end (BlockStore::open, append).
THEOREM StoreInOrder == Spec => []StoredInOrder
BY HostInvariant, PTL DEF IInv

\* Whatever the backend does, the windows published since boot and the pending
\* one are the blocks recorded since boot, in order, each once
\* (AnchorService::record_block, flush).
THEOREM AnchoredOnce == Spec => []EachBlockAnchoredOnce
BY HostInvariant, PTL DEF IInv

\* A checkpoint record names its first and its last block
\* (AnchorService::flush).
THEOREM LabelsRight == Spec => []WindowsLabelled
BY HostInvariant, PTL DEF IInv

\* A height in the range of a checkpoint that the checkpoint does not cover was
\* obtained by sync (the Effect::Committed and Event::Wire(Blocks) handlers).
THEOREM GapsSynced == Spec => []GapsAreSynced
BY HostInvariant, PTL DEF IInv

\* rpc.rs find_proof finds what there is to find: a block of the store and the
\* index of the attestation in it.
LEMMA FindProofFinds ==
    ASSUME IInv, NEW a \in Notarized
    PROVE  /\ FindProof(a).block \in 1..MaxHeight
           /\ FindProof(a).index \in DOMAIN Contents[FindProof(a).block]
<1> DEFINE Holds == {k \in DOMAIN blocks : a \in Range(Contents[blocks[k]])}
           FirstBlock(k) == /\ a \in Range(Contents[blocks[k]])
                            /\ \A j \in 1..k - 1 : a \notin Range(Contents[blocks[j]])
           k0 == CHOOSE k \in DOMAIN blocks : FirstBlock(k)
           items == Contents[blocks[k0]]
           At == {i \in DOMAIN items : items[i] = a}
           FirstIndex(i) == items[i] = a /\ \A j \in 1..i - 1 : items[j] # a
           i0 == CHOOSE i \in DOMAIN items : FirstIndex(i)
<1>1. /\ blocks \in Seq(1..MaxHeight) /\ DOMAIN blocks = 1..Len(blocks) /\ Len(blocks) \in Nat
  BY SMT DEF IInv, TypeOK
<1>2. k0 \in DOMAIN blocks /\ FirstBlock(k0)
  <2>1. Holds # {} /\ Holds \subseteq Nat
    BY <1>1, SMT DEF Notarized
  <2> HIDE DEF Holds
  <2>2. PICK k \in Holds : \A j \in Holds : k <= j
    BY <2>1, LeastNatural
  <2>3. \A j \in 1..k - 1 : j \in DOMAIN blocks /\ ~(k <= j)
    BY <1>1, <2>1, <2>2, SMT DEF Holds
  <2>4. k \in DOMAIN blocks /\ FirstBlock(k)
    BY <2>2, <2>3 DEF Holds
  <2> HIDE DEF FirstBlock
  <2> QED BY <2>4
<1>3. blocks[k0] \in 1..MaxHeight
  <2> HIDE DEF k0
  <2>1. k0 \in 1..Len(blocks)
    BY <1>1, <1>2
  <2> QED BY <1>1, <2>1, ElementOfSeq
<1>4. a \in Range(items)
  BY <1>2
<1> HIDE DEF k0
<1>5. items \in Seq(Range(items))
  BY <1>3, HostAssumption
<1> HIDE DEF items
<1>6. i0 \in DOMAIN items
  <2>1. DOMAIN items = 1..Len(items) /\ Len(items) \in Nat
    BY <1>5, SMT
  <2>2. At # {} /\ At \subseteq Nat
    BY <1>4, <2>1, SMT DEF Range
  <2> HIDE DEF At
  <2>3. PICK i \in At : \A j \in At : i <= j
    BY <2>2, LeastNatural, ZenonT(40)
  <2>4. \A j \in 1..i - 1 : j \in DOMAIN items /\ ~(i <= j)
    BY <2>1, <2>2, <2>3, SMT DEF At
  <2>5. i \in DOMAIN items /\ FirstIndex(i)
    BY <2>3, <2>4 DEF At
  <2> HIDE DEF FirstIndex
  <2> QED BY <2>5
<1>7. FindProof(a) = [block |-> blocks[k0], index |-> i0]
  BY DEF FindProof, k0, items
<1> QED BY <1>3, <1>6, <1>7, SMT DEF items

\* What ProofsVerify asks for follows from the invariant and from what a path
\* of a Merkle tree binds.
LEMMA ProofsEnough == IInv => ProofsVerify
<1> SUFFICES ASSUME IInv, NEW a \in Notarized
             PROVE  /\ ProofBinds[FindProof(a).block][FindProof(a).index]
                    /\ \A k \in DOMAIN history :
                        Covers(history[k], FindProof(a).block) =>
                            InclusionVerifies(history[k], FindProof(a).block)
  BY DEF ProofsVerify
<1> DEFINE h == FindProof(a).block
           i == FindProof(a).index
<1>1. h \in 1..MaxHeight /\ i \in DOMAIN Contents[h]
  BY FindProofFinds
<1> HIDE DEF h, i
<1>2. ProofBinds[h][i]
  <2>1. PathBinds(Contents[h], i)
    BY <1>1, HostAssumption, PathsBind
  <2>2. ProofBinds[h][i] = PathBinds(Contents[h], i)
    BY <1>1, HostAssumption DEF ProofBinds
  <2> QED BY <2>1, <2>2
<1>3. ASSUME NEW k \in DOMAIN history, Covers(history[k], h)
      PROVE  InclusionVerifies(history[k], h)
  <2> DEFINE w == history[k]
  <2>1. /\ w.blockIds \in Seq(1..MaxHeight)
        /\ w.root = RootOf(w.blockIds) /\ w.root \in published
    BY DEF IInv, WindowsOK
  <2>2. PICK j \in DOMAIN w.blockIds : w.blockIds[j] = h
    BY <1>3 DEF Covers, Range
  <2>3. PathBinds(w.blockIds, j)
    BY <2>1, PathsBind
  <2> QED BY <2>1, <2>2, <2>3 DEF InclusionVerifies
<1> QED BY <1>2, <1>3 DEF h, i

\* Whatever the blocks hold and however many there are, the proof a node serves
\* for an attestation verifies against the header of its block and, once that
\* is anchored, against a published root, and for nothing else there
\* (rpc.rs find_proof, NotarizationProof, AnchoredProof::verify).
THEOREM ServedProofsVerify == Spec => []ProofsVerify
BY HostInvariant, ProofsEnough, PTL

-----------------------------------------------------------------------------
(* A file that takes every write.                                          *)

\* Memory and file agree, and no block is missing.
StoreWhole ==
    /\ StoreComplete
    /\ disk = blocks /\ tail = NoTail

\* The blocks up to a height, and the next one.
LEMMA NextHeight ==
    ASSUME NEW s, s \in Seq(Nat), s = [h \in 1..Len(s) |-> h]
    PROVE  /\ TipOf(s) = Len(s)
           /\ Append(s, Len(s) + 1) = [h \in 1..Len(Append(s, Len(s) + 1)) |-> h]
<1> DEFINE n == Len(s)
           t == Append(s, n + 1)
<1>1. /\ n \in Nat /\ t \in Seq(Nat) /\ Len(t) = n + 1
      /\ \A h \in 1..n : t[h] = s[h]
      /\ t[n + 1] = n + 1
  BY SMT
<1>2. \A h \in 1..n : s[h] = h
  OBVIOUS
<1>3. TipOf(s) = n
  <2>1. CASE s = <<>>
    BY <2>1 DEF TipOf
  <2>2. CASE s # <<>>
    BY <1>1, <1>2, <2>2, SMT DEF TipOf, Last
  <2> QED BY <2>1, <2>2
<1> HIDE DEF n, t
<1>4. \A h \in 1..n + 1 : t[h] = h
  <2>1. \A h \in 1..n + 1 : h \in 1..n \/ h = n + 1
    BY <1>1, SMT
  <2> QED BY <1>1, <1>2, <2>1
<1>5. t = [h \in 1..Len(t) |-> h]
  BY <1>1, <1>4, SMT
<1> QED BY <1>3, <1>5 DEF n, t

\* With a file that takes every write whole and can be read, the store has all blocks up to its
\* tip, through any restarts: only a write that failed or was cut short can
\* leave a block out (BlockStore::append drops its error, and open passes over
\* a line that does not parse).
THEOREM StoreCompleteWithoutFaults ==
    ASSUME ~CutByCrash, MaxErrors = 0
    PROVE  Spec => []StoreComplete
<1>1. Init => StoreWhole
  BY SMT DEF Init, StoreInit, StoreWhole, StoreComplete
<1>2. IInv /\ StoreWhole /\ [Next]_hostVars => StoreWhole'
  <2> SUFFICES ASSUME IInv, StoreWhole, [Next]_hostVars PROVE StoreWhole'
    OBVIOUS
  <2>0. ~Fails
    BY SMT DEF Fails, IInv, TypeOK
  <2>1. /\ blocks = [h \in 1..Len(blocks) |-> h] /\ disk = blocks /\ tail = NoTail
    BY DEF StoreWhole, StoreComplete
  <2>2. blocks \in Seq(1..MaxHeight) /\ blocks \in Seq(Nat) /\ height = TipOf(blocks) + 1
    <3>1. blocks \in Seq(1..MaxHeight) /\ height = TipHeight + 1
      BY DEF IInv, TypeOK
    <3>2. \A k \in 1..Len(blocks) : blocks[k] \in Nat
      BY <2>1, <3>1, SMT
    <3>3. Len(blocks) \in Nat /\ DOMAIN blocks = 1..Len(blocks)
      BY <3>1, SMT
    <3>4. blocks \in Seq(Nat)
      BY <2>1, <3>2, <3>3, SMT
    <3> QED BY <3>1, <3>4 DEF TipHeight, TipOf
  <2>3. ASSUME StoreAppend(height) PROVE StoreWhole'
    <3>1. blocks' = Append(blocks, height) /\ disk' = Append(disk, height) /\ tail' = NoTail
      BY <2>0, <2>1, <2>3 DEF StoreAppend
    <3>2. /\ height = Len(blocks) + 1
          /\ Append(blocks, height) = [h \in 1..Len(Append(blocks, height)) |-> h]
      BY <2>1, <2>2, NextHeight
    <3> QED BY <2>1, <3>1, <3>2 DEF StoreWhole, StoreComplete
  <2>4. ASSUME NEW writing, StoreReopen(writing) PROVE StoreWhole'
    <3>1. disk' = disk /\ tail' = NoTail /\ blocks' = Parsed(Len(Lines))'
      BY <2>0, <2>1, <2>4 DEF StoreReopen
    <3>2. Parsed(Len(Lines))' = Retain(disk, Nat \ {Garbage})
      <4>1. Lines' = disk
        BY <3>1 DEF Lines
      <4>2. SubSeq(disk, 1, Len(disk)) = disk
        BY <2>1, <2>2, SMT
      <4> QED BY <4>1, <4>2 DEF Parsed
    <3>3. 1..MaxHeight \subseteq Nat \ {Garbage}
      BY SMT DEF Garbage
    <3>4. Retain(disk, Nat \ {Garbage}) = disk
      BY <2>1, <2>2, <3>3, RetainAll, ZenonT(40)
    <3> QED BY <2>1, <3>1, <3>2, <3>4 DEF StoreWhole, StoreComplete
  <2>5. CASE UNCHANGED storeVars
    BY <2>5 DEF storeVars, StoreWhole, StoreComplete
  <2>6. ~UNCHANGED storeVars =>
          StoreAppend(height) \/ \E writing : StoreReopen(writing)
    BY DEF Next, StoreCommitted, ApplySynced, AnchorCommitted, Restart, hostVars
  <2> QED BY <2>3, <2>4, <2>5, <2>6
<1>3. StoreWhole => StoreComplete
  BY DEF StoreWhole
<1> QED BY <1>1, <1>2, <1>3, HostInvariant, PTL DEF Spec
=============================================================================
