------------------------------- MODULE Lemmas -------------------------------
(***************************************************************************)
(* The operators the models are built from, for arguments of any size:     *)
(* what Retain keeps, what Flatten joins, and Merkle trees, where a        *)
(* path leads from its leaf, and from no other, to the root, and nothing   *)
(* but the data of the tree leads there by any path.                       *)
(*                                                                         *)
(* A recursive function is shown to satisfy its equation, by induction up  *)
(* to the end of its domain, before anything is said of its values.        *)
(***************************************************************************)
EXTENDS Foundations, Merkle, SequenceTheorems

\* Zenon proves a step that names no other prover.
USE Zenon

-----------------------------------------------------------------------------
(* Sequences.                                                              *)

\* Up to and including an element: what is before it, and the element.
LEMMA UpTo ==
    ASSUME NEW X, NEW s \in Seq(X), NEW k \in 1..Len(s)
    PROVE  /\ SubSeq(s, 1, k - 1) \in Seq(X)
           /\ s[k] \in X
           /\ SubSeq(s, 1, k) = Append(SubSeq(s, 1, k - 1), s[k])
<1>1. s[k] \in X
  BY SMT
<1>2. SubSeq(s, 1, k - 1) \in Seq(X) /\ Len(SubSeq(s, 1, k - 1)) = k - 1
  BY SMT
<1>3. SubSeq(s, 1, k) \in Seq(X) /\ Len(SubSeq(s, 1, k)) = k
  BY SMT
<1>4. Append(SubSeq(s, 1, k - 1), s[k]) \in Seq(X) /\ Len(Append(SubSeq(s, 1, k - 1), s[k])) = k
  BY <1>1, <1>2, SMT
<1>5. \A i \in 1..k : SubSeq(s, 1, k)[i] = Append(SubSeq(s, 1, k - 1), s[k])[i]
  BY <1>1, <1>2, SMT
<1> QED BY <1>1, <1>2, <1>3, <1>4, <1>5, SeqEqual

-----------------------------------------------------------------------------
(* Retain.                                                                 *)

\* The function f satisfies the equation of the one in Retain, up to n.
Retaining(s, S, f, n) ==
    f = [i \in 0..n |->
            IF i = 0 THEN <<>>
            ELSE IF s[i] \in S THEN Append(f[i - 1], s[i]) ELSE f[i - 1]]

\* The same, for each place.
LEMMA RetainingAt ==
    ASSUME NEW s, NEW S, NEW f, NEW n \in Nat, Retaining(s, S, f, n)
    PROVE  /\ f[0] = <<>>
           /\ \A i \in 0..n - 1 :
                f[i + 1] = IF s[i + 1] \in S THEN Append(f[i], s[i + 1]) ELSE f[i]
<1>1. f[0] = <<>>
  BY SMT DEF Retaining
<1>2. ASSUME NEW i \in 0..n - 1
      PROVE  f[i + 1] = IF s[i + 1] \in S THEN Append(f[i], s[i + 1]) ELSE f[i]
  <2>1. i + 1 \in 0..n /\ i + 1 # 0 /\ (i + 1) - 1 = i
    BY SMT
  <2> QED BY <2>1 DEF Retaining
<1> QED BY <1>1, <1>2

\* There is such a function.
LEMMA RetainingExists ==
    ASSUME NEW s, NEW S, NEW n \in Nat
    PROVE  \E f : Retaining(s, S, f, n)
<1> DEFINE T == {m \in Nat : \E f : Retaining(s, S, f, m)}
<1>1. 0 \in T
  <2> DEFINE f == [i \in 0..0 |-> <<>>]
  <2>1. Retaining(s, S, f, 0)
    BY SMT DEF Retaining
  <2> QED BY <2>1
<1>2. ASSUME NEW m \in Nat, m \in T PROVE m + 1 \in T
  <2>1. PICK f : Retaining(s, S, f, m)
    BY <1>2
  <2> DEFINE next == IF s[m + 1] \in S THEN Append(f[m], s[m + 1]) ELSE f[m]
             g == [i \in 0..m + 1 |-> IF i = m + 1 THEN next ELSE f[i]]
  <2>2. \A i \in 0..m : g[i] = f[i]
    BY SMT
  <2>3. g[0] = <<>>
    BY <2>1, <2>2, RetainingAt, SMT
  <2>4. ASSUME NEW i \in 0..m + 1, i # 0
        PROVE  g[i] = IF s[i] \in S THEN Append(g[i - 1], s[i]) ELSE g[i - 1]
    <3>1. CASE i = m + 1
      BY <3>1, SMT
    <3>2. CASE i # m + 1
      <4>1. i \in 0..m /\ i - 1 \in 0..m
        BY <2>4, <3>2, SMT
      <4>2. f[i] = IF s[i] \in S THEN Append(f[i - 1], s[i]) ELSE f[i - 1]
        BY <2>1, <2>4, <4>1 DEF Retaining
      <4> QED BY <2>2, <4>1, <4>2
    <3> QED BY <3>1, <3>2
  <2>5. Retaining(s, S, g, m + 1)
    BY <2>3, <2>4 DEF Retaining
  <2> QED BY <2>5, SMT
<1> HIDE DEF T
<1>3. n \in T
  BY <1>1, <1>2, Induction, SMT
<1> QED BY <1>3 DEF T

\* Retain is its last value.
LEMMA RetainIs ==
    ASSUME NEW X, NEW s \in Seq(X), NEW S
    PROVE  \E f : Retaining(s, S, f, Len(s)) /\ Retain(s, S) = f[Len(s)]
<1> DEFINE f == CHOOSE f : Retaining(s, S, f, Len(s))
<1>1. Retaining(s, S, f, Len(s))
  BY RetainingExists, LenProperties
<1>2. Retain(s, S) = f[Len(s)]
  BY DEF Retain, Retaining
<1> QED BY <1>1, <1>2

\* Where the first n elements of s that are in S come from: e is increasing.
Embeds(e, r, s, S, n) ==
    /\ e \in [1..Len(r) -> 1..n]
    /\ \A i \in 1..Len(r) : r[i] = s[e[i]] /\ r[i] \in S
    /\ \A i, j \in 1..Len(r) : i < j => e[i] < e[j]

\* What is retained are elements of s that are in S, in the order of s.
LEMMA RetainEmbeds ==
    ASSUME NEW X, NEW s \in Seq(X), NEW S
    PROVE  /\ Retain(s, S) \in Seq(X)
           /\ \E e : Embeds(e, Retain(s, S), s, S, Len(s))
<1>1. PICK f : Retaining(s, S, f, Len(s)) /\ Retain(s, S) = f[Len(s)]
  BY RetainIs
<1> DEFINE N == Len(s)
           T == {m \in Nat : f[m] \in Seq(X) /\ \E e : Embeds(e, f[m], s, S, m)}
<1>2. N \in Nat
  BY SMT
<1>3. 0 \in T
  <2>1. f[0] = <<>>
    BY <1>1, <1>2, RetainingAt
  <2> DEFINE e == [i \in 1..0 |-> 1]
  <2>2. Embeds(e, f[0], s, S, 0)
    BY <2>1, SMT DEF Embeds
  <2> HIDE DEF e
  <2>3. <<>> \in Seq(X)
    BY SMT
  <2> QED BY <2>1, <2>2, <2>3
<1>4. ASSUME NEW m \in 0..N - 1, m \in T PROVE m + 1 \in T
  <2>1. /\ f[m + 1] = IF s[m + 1] \in S THEN Append(f[m], s[m + 1]) ELSE f[m]
        /\ s[m + 1] \in X
    BY <1>1, <1>2, RetainingAt, SMT
  <2>2. f[m] \in Seq(X)
    BY <1>4
  <2>3. PICK e : Embeds(e, f[m], s, S, m)
    BY <1>4
  <2>4. CASE s[m + 1] \notin S
    <3>1. Embeds(e, f[m + 1], s, S, m + 1)
      BY <2>1, <2>3, <2>4, SMT DEF Embeds
    <3> QED BY <2>1, <2>2, <2>4, <3>1, SMT
  <2>5. CASE s[m + 1] \in S
    <3> DEFINE r == f[m]
               L == Len(r)
               d == [i \in 1..L + 1 |-> IF i = L + 1 THEN m + 1 ELSE e[i]]
    <3>1. /\ L \in Nat /\ Len(Append(r, s[m + 1])) = L + 1
          /\ \A i \in 1..L : Append(r, s[m + 1])[i] = r[i]
          /\ Append(r, s[m + 1])[L + 1] = s[m + 1]
          /\ Append(r, s[m + 1]) \in Seq(X)
      BY <2>1, <2>2, SMT
    <3>2. f[m + 1] = Append(r, s[m + 1])
      BY <2>1, <2>5
    <3> HIDE DEF r, L
    <3>3. /\ e \in [1..L -> 1..m]
          /\ \A i \in 1..L : r[i] = s[e[i]] /\ r[i] \in S
          /\ \A i, j \in 1..L : i < j => e[i] < e[j]
      BY <2>3 DEF Embeds, r, L
    <3>4. Embeds(d, Append(r, s[m + 1]), s, S, m + 1)
      BY <2>5, <3>1, <3>3, SMT DEF Embeds
    <3> HIDE DEF d
    <3>5. m + 1 \in Nat
      BY <1>2, SMT
    <3> QED BY <3>1, <3>2, <3>4, <3>5
  <2> QED BY <2>4, <2>5
<1> HIDE DEF T, N
<1>5. \A m \in 0..N : m \in T
  BY <1>2, <1>3, <1>4, Induction
<1>6. N \in T
  BY <1>2, <1>5, SMT
<1> QED BY <1>1, <1>6 DEF T, N

\* All of s is retained when all of it is in S.
LEMMA RetainAll ==
    ASSUME NEW X, NEW s \in Seq(X), NEW S, X \subseteq S
    PROVE  Retain(s, S) = s
<1> DEFINE N == Len(s)
<1>1. PICK f : Retaining(s, S, f, N) /\ Retain(s, S) = f[N]
  BY RetainIs
<1>2. N \in Nat /\ \A i \in 1..N : s[i] \in X
  BY SMT
<1> DEFINE T == {m \in Nat : f[m] = SubSeq(s, 1, m)}
<1>3. 0 \in T
  <2>1. f[0] = <<>> /\ SubSeq(s, 1, 0) = <<>>
    BY <1>1, <1>2, RetainingAt, SMT
  <2> QED BY <2>1
<1>4. ASSUME NEW m \in 0..N - 1, m \in T PROVE m + 1 \in T
  <2>1. m + 1 \in 1..Len(s) /\ (m + 1) - 1 = m /\ m + 1 \in Nat /\ s[m + 1] \in S
    BY <1>2, SMT
  <2>2. f[m + 1] = Append(f[m], s[m + 1])
    <3>1. \A i \in 0..N - 1 :
            f[i + 1] = IF s[i + 1] \in S THEN Append(f[i], s[i + 1]) ELSE f[i]
      BY <1>1, <1>2, RetainingAt, SMT
    <3> QED BY <2>1, <3>1
  <2>3. SubSeq(s, 1, m + 1) = Append(SubSeq(s, 1, m), s[m + 1])
    BY <2>1, UpTo
  <2>4. f[m] = SubSeq(s, 1, m)
    BY <1>4
  <2> QED BY <2>1, <2>2, <2>3, <2>4
<1> HIDE DEF T, N
<1>5. \A m \in 0..N : m \in T
  BY <1>2, <1>3, <1>4, Induction
<1>6. N \in T
  BY <1>2, <1>5, SMT
<1>7. SubSeq(s, 1, Len(s)) = s
  BY SMT
<1> QED BY <1>1, <1>6, <1>7 DEF T, N

\* What a sequence has with one more element.
LEMMA AppendMembers ==
    ASSUME NEW X, NEW s \in Seq(X), NEW x \in X
    PROVE  Range(Append(s, x)) = Range(s) \cup {x}
<1>1. /\ DOMAIN Append(s, x) = 1..Len(s) + 1
      /\ DOMAIN s = 1..Len(s) /\ Len(s) \in Nat
      /\ \A j \in 1..Len(s) : Append(s, x)[j] = s[j]
      /\ Append(s, x)[Len(s) + 1] = x
  BY SMT
<1>2. \A j : j \in 1..Len(s) + 1 <=> j \in 1..Len(s) \/ j = Len(s) + 1
  BY <1>1, SMT
<1> QED BY <1>1, <1>2 DEF Range

\* What is retained of s: its elements that are in S.
LEMMA RetainMembers ==
    ASSUME NEW X, NEW s \in Seq(X), NEW S
    PROVE  Range(Retain(s, S)) = Range(s) \cap S
<1> DEFINE N == Len(s)
<1>1. PICK f : Retaining(s, S, f, N) /\ Retain(s, S) = f[N]
  BY RetainIs
<1>2. N \in Nat /\ DOMAIN s = 1..N /\ \A i \in 1..N : s[i] \in X
  BY SMT
<1> HIDE DEF N
<1>3. /\ f[0] = <<>>
      /\ \A i \in 0..N - 1 :
            f[i + 1] = IF s[i + 1] \in S THEN Append(f[i], s[i + 1]) ELSE f[i]
  BY <1>1, <1>2, RetainingAt, SMT
<1> DEFINE T == {i \in 0..N : /\ f[i] \in Seq(X)
                              /\ Range(f[i]) = {s[j] : j \in 1..i} \cap S}
<1>4. 0 \in T
  <2>1. Range(<<>>) = {}
    BY SMT DEF Range
  <2>2. {s[j] : j \in 1..0} = {}
    BY SMT
  <2>3. f[0] \in Seq(X) /\ 0 \in 0..N
    BY <1>2, <1>3, SMT
  <2> QED BY <1>3, <2>1, <2>2, <2>3
<1>5. ASSUME NEW i \in 0..N - 1, i \in T PROVE i + 1 \in T
  <2> DEFINE x == s[i + 1]
  <2>1. i + 1 \in 0..N /\ i + 1 \in 1..N
    BY <1>2, SMT
  <2>2. {s[j] : j \in 1..i + 1} = {s[j] : j \in 1..i} \cup {x}
    <3>1. \A j : j \in 1..i + 1 <=> j \in 1..i \/ j = i + 1
      BY <1>2, SMT
    <3> QED BY <3>1
  <2>3. f[i] \in Seq(X) /\ Range(f[i]) = {s[j] : j \in 1..i} \cap S /\ x \in X
    BY <1>2, <1>5, <2>1
  <2>4. f[i + 1] = IF x \in S THEN Append(f[i], x) ELSE f[i]
    BY <1>3
  <2> HIDE DEF x, T
  <2>5. Append(f[i], x) \in Seq(X) /\ Range(Append(f[i], x)) = Range(f[i]) \cup {x}
    BY <2>3, AppendMembers, SMT
  <2> QED BY <2>1, <2>2, <2>3, <2>4, <2>5, ZenonT(40) DEF T
<1> HIDE DEF T
<1>6. \A i \in 0..N : i \in T
  BY <1>2, <1>4, <1>5, Induction
<1>7. Range(f[N]) = {s[j] : j \in 1..N} \cap S
  BY <1>2, <1>6, SMT DEF T
<1> QED BY <1>1, <1>2, <1>7 DEF Range

\* The elements that come after s and are not in S make no difference.
LEMMA RetainPrefix ==
    ASSUME NEW X, NEW s \in Seq(X), NEW t \in Seq(X), NEW S,
           \A i \in 1..Len(t) : t[i] \notin S
    PROVE  Retain(s \o t, S) = Retain(s, S)
<1> DEFINE M == Len(s)
           N == Len(s \o t)
<1>1. /\ M \in Nat /\ N \in Nat /\ M <= N
      /\ s \o t \in Seq(X)
      /\ \A i \in 1..M : (s \o t)[i] = s[i]
      /\ \A i \in M + 1..N : (s \o t)[i] \notin S
  <2>1. N = M + Len(t) /\ M \in Nat /\ Len(t) \in Nat /\ s \o t \in Seq(X)
    BY SMT
  <2>2. \A i \in 1..M : (s \o t)[i] = s[i]
    BY SMT
  <2>3. ASSUME NEW i \in M + 1..N PROVE (s \o t)[i] \notin S
    <3>1. i - M \in 1..Len(t) /\ (s \o t)[i] = t[i - M]
      BY <2>1, SMT
    <3> QED BY <3>1
  <2> QED BY <2>1, <2>2, <2>3, SMT
<1>2. PICK f : Retaining(s, S, f, M) /\ Retain(s, S) = f[M]
  BY RetainIs
<1>3. PICK g : Retaining(s \o t, S, g, N) /\ Retain(s \o t, S) = g[N]
  BY <1>1, RetainIs
<1> DEFINE u == s \o t
<1> HIDE DEF M, N, u
<1>4. /\ f[0] = <<>> /\ g[0] = <<>>
      /\ \A i \in 0..M - 1 :
            f[i + 1] = IF s[i + 1] \in S THEN Append(f[i], s[i + 1]) ELSE f[i]
      /\ \A i \in 0..N - 1 :
            g[i + 1] = IF u[i + 1] \in S THEN Append(g[i], u[i + 1]) ELSE g[i]
  <2>1. Retaining(s, S, f, M) /\ Retaining(u, S, g, N)
    BY <1>2, <1>3 DEF u
  <2> QED BY <1>1, <2>1, RetainingAt, SMT
<1> DEFINE T == {i \in Nat : g[i] = f[IF i < M THEN i ELSE M]}
<1>5. 0 \in T
  BY <1>1, <1>4, SMT
<1>6. ASSUME NEW i \in 0..N - 1, i \in T PROVE i + 1 \in T
  <2>1. CASE i < M
    <3>1. i \in 0..M - 1 /\ i + 1 \in 1..M /\ g[i] = f[i]
      BY <1>1, <1>6, <2>1, SMT
    <3>2. u[i + 1] = s[i + 1]
      BY <1>1, <3>1 DEF u
    <3>3. g[i + 1] = f[i + 1]
      BY <1>4, <3>1, <3>2
    <3> QED BY <1>1, <3>1, <3>3, SMT
  <2>2. CASE ~(i < M)
    <3>1. i + 1 \in M + 1..N /\ g[i] = f[M]
      BY <1>1, <1>6, <2>2, SMT
    <3>2. u[i + 1] \notin S
      BY <1>1, <3>1 DEF u
    <3>3. g[i + 1] = f[M]
      BY <1>4, <3>1, <3>2
    <3> QED BY <1>1, <2>2, <3>3, SMT
  <2> QED BY <2>1, <2>2
<1> HIDE DEF T
<1>7. \A i \in 0..N : i \in T
  BY <1>1, <1>5, <1>6, Induction
<1>8. g[N] = f[M]
  BY <1>1, <1>7, SMT DEF T
<1> QED BY <1>2, <1>3, <1>8 DEF u

-----------------------------------------------------------------------------
(* Flatten.                                                                *)

\* The function f satisfies the equation of the one in Flatten, up to n.
Flattened(ss, f, n) ==
    f = [i \in 0..n |-> IF i = 0 THEN <<>> ELSE f[i - 1] \o ss[i]]

\* There is such a function.
LEMMA FlattenedExists ==
    ASSUME NEW ss, NEW n \in Nat
    PROVE  \E f : Flattened(ss, f, n)
<1> DEFINE T == {m \in Nat : \E f : Flattened(ss, f, m)}
<1>1. 0 \in T
  <2> DEFINE f == [i \in 0..0 |-> <<>>]
  <2>1. Flattened(ss, f, 0)
    BY SMT DEF Flattened
  <2> QED BY <2>1
<1>2. ASSUME NEW m \in Nat, m \in T PROVE m + 1 \in T
  <2>1. PICK f : Flattened(ss, f, m)
    BY <1>2
  <2> DEFINE g == [i \in 0..m + 1 |-> IF i = m + 1 THEN f[m] \o ss[m + 1] ELSE f[i]]
  <2>2. \A i \in 0..m : g[i] = f[i]
    BY SMT
  <2>3. ASSUME NEW i \in 0..m + 1
        PROVE  g[i] = IF i = 0 THEN <<>> ELSE g[i - 1] \o ss[i]
    <3>1. CASE i = m + 1
      <4>1. i # 0 /\ i - 1 = m /\ m \in 0..m
        BY <3>1, SMT
      <4> QED BY <2>2, <3>1, <4>1
    <3>2. CASE i # m + 1
      <4>1. i \in 0..m /\ (i # 0 => i - 1 \in 0..m)
        BY <3>2, SMT
      <4>2. f[i] = IF i = 0 THEN <<>> ELSE f[i - 1] \o ss[i]
        BY <2>1, <4>1 DEF Flattened
      <4> QED BY <2>2, <4>1, <4>2
    <3> QED BY <3>1, <3>2
  <2>4. Flattened(ss, g, m + 1)
    BY <2>3 DEF Flattened
  <2> HIDE DEF g
  <2> QED BY <2>4, SMT
<1> HIDE DEF T
<1>3. n \in T
  BY <1>1, <1>2, Induction, SMT
<1> QED BY <1>3 DEF T

\* Flatten is its last value.
LEMMA FlattenIs ==
    ASSUME NEW X, NEW ss \in Seq(X)
    PROVE  \E f : Flattened(ss, f, Len(ss)) /\ Flatten(ss) = f[Len(ss)]
<1> DEFINE f == CHOOSE f : Flattened(ss, f, Len(ss))
<1>1. Flattened(ss, f, Len(ss))
  BY FlattenedExists, LenProperties
<1>2. Flatten(ss) = f[Len(ss)]
  BY DEF Flatten, Flattened
<1> QED BY <1>1, <1>2

\* Nothing flattens to nothing.
LEMMA FlattenEmpty == Flatten(<<>>) = <<>>
<1>1. <<>> \in Seq({}) /\ Len(<<>>) = 0 /\ 0 \in 0..0
  BY SMT
<1>2. PICK f : Flattened(<<>>, f, 0) /\ Flatten(<<>>) = f[0]
  BY <1>1, FlattenIs
<1> QED BY <1>1, <1>2 DEF Flattened

\* One more sequence goes to the end.
LEMMA FlattenAppend ==
    ASSUME NEW X, NEW ss \in Seq(Seq(X)), NEW t \in Seq(X)
    PROVE  /\ Flatten(ss) \in Seq(X)
           /\ Flatten(Append(ss, t)) = Flatten(ss) \o t
<1> DEFINE N == Len(ss)
           u == Append(ss, t)
           Y == Seq(X)
<1>1. /\ N \in Nat /\ ss \in Seq(Y) /\ u \in Seq(Y) /\ Len(u) = N + 1
      /\ u[N + 1] = t
      /\ \A i \in 1..N : u[i] = ss[i] /\ ss[i] \in Y
  <2>1. ss \in Seq(Y) /\ t \in Y
    OBVIOUS
  <2> HIDE DEF Y
  <2>2. N \in Nat /\ \A i \in 1..N : ss[i] \in Y
    BY <2>1, SMT
  <2>3. /\ u \in Seq(Y) /\ Len(u) = N + 1 /\ u[N + 1] = t
        /\ \A i \in 1..N : u[i] = ss[i]
    BY <2>1, AppendProperties, SMT
  <2> QED BY <2>1, <2>2, <2>3
<1>2. PICK f : Flattened(ss, f, N) /\ Flatten(ss) = f[N]
  BY <1>1, FlattenIs
<1>3. PICK g : Flattened(u, g, N + 1) /\ Flatten(u) = g[N + 1]
  BY <1>1, FlattenIs, ZenonT(40)
<1> HIDE DEF N, u
<1> DEFINE T == {i \in Nat : i \in 0..N => f[i] = g[i] /\ f[i] \in Seq(X)}
<1>4. 0 \in T
  <2>1. 0 \in 0..N /\ 0 \in 0..N + 1 /\ 0 \in Nat /\ <<>> \in Seq(X)
    BY <1>1, SMT
  <2> QED BY <1>2, <1>3, <2>1 DEF Flattened
<1>5. ASSUME NEW i \in 0..N - 1, i \in T PROVE i + 1 \in T
  <2>1. /\ i \in 0..N /\ i + 1 \in 1..N /\ i + 1 \in 0..N /\ i + 1 \in 0..N + 1
        /\ i + 1 # 0 /\ (i + 1) - 1 = i /\ i + 1 \in Nat
    BY <1>1, SMT
  <2>2. f[i] = g[i] /\ f[i] \in Seq(X)
    BY <1>5, <2>1
  <2>3. f[i + 1] = f[i] \o ss[i + 1]
    BY <1>2, <2>1 DEF Flattened
  <2>4. g[i + 1] = g[i] \o u[i + 1]
    BY <1>3, <2>1 DEF Flattened
  <2>5. u[i + 1] = ss[i + 1] /\ ss[i + 1] \in Seq(X)
    BY <1>1, <2>1
  <2>6. f[i + 1] \in Seq(X)
    BY <2>2, <2>3, <2>5, SMT
  <2>7. f[i + 1] = g[i + 1]
    BY <2>2, <2>3, <2>4, <2>5
  <2> QED BY <2>1, <2>6, <2>7
<1> HIDE DEF T
<1>6. \A i \in 0..N : i \in T
  BY <1>1, <1>4, <1>5, Induction
<1>7. f[N] = g[N] /\ f[N] \in Seq(X)
  <2>1. N \in 0..N
    BY <1>1, SMT
  <2> QED BY <1>6, <2>1 DEF T
<1>8. g[N + 1] = g[N] \o u[N + 1]
  <2>1. N + 1 \in 0..N + 1 /\ N + 1 # 0 /\ (N + 1) - 1 = N
    BY <1>1, SMT
  <2> QED BY <1>3, <2>1 DEF Flattened
<1> QED BY <1>1, <1>2, <1>3, <1>7, <1>8 DEF u

-----------------------------------------------------------------------------
(* Digests.                                                                *)

\* A digest determines what was hashed, and whether it was a leaf.
LEMMA Digests ==
    /\ \A x, y : HashLeaf(x) = HashLeaf(y) => x = y
    /\ \A a, b, c, d : HashNode(a, b) = HashNode(c, d) => a = c /\ b = d
    /\ \A x, a, b : HashLeaf(x) # HashNode(a, b)
    /\ \A x : HashLeaf(x) # EmptyRoot
    /\ \A a, b : HashNode(a, b) # EmptyRoot
<1>1. \A x, y : HashLeaf(x) = HashLeaf(y) => x = y
  BY DEF HashLeaf
<1>2. \A a, b, c, d : HashNode(a, b) = HashNode(c, d) => a = c /\ b = d
  BY DEF HashNode
<1>3. ASSUME NEW x, NEW a, NEW b PROVE HashLeaf(x) # HashNode(a, b)
  <2>1. HashLeaf(x)[1] = "leaf" /\ HashNode(a, b)[1] = "node"
    BY DEF HashLeaf, HashNode
  <2>2. "leaf" # "node"
    OBVIOUS
  <2> QED BY <2>1, <2>2
<1>4. ASSUME NEW x, NEW a, NEW b PROVE HashLeaf(x) # EmptyRoot /\ HashNode(a, b) # EmptyRoot
  <2>1. HashLeaf(x)[1] = "leaf" /\ HashNode(a, b)[1] = "node" /\ EmptyRoot[1] = "empty"
    BY DEF HashLeaf, HashNode, EmptyRoot
  <2>2. "leaf" # "empty" /\ "node" # "empty"
    OBVIOUS
  <2> QED BY <2>1, <2>2
<1> QED BY <1>1, <1>2, <1>3, <1>4

\* A step with the same sibling on the same side keeps two digests apart.
LEMMA CombinedInjective ==
    ASSUME NEW step, NEW x, NEW y, Combined(step, x) = Combined(step, y)
    PROVE  x = y
BY Digests, SMT DEF Combined

-----------------------------------------------------------------------------
(* The loop of compute_root.                                               *)

\* The function f satisfies the equation of the one in ComputeRoot, up to n.
Climbing(path, leaf, f, n) ==
    f = [i \in 0..n |-> IF i = 0 THEN leaf ELSE Combined(path[i], f[i - 1])]

\* The same, for each step.
LEMMA ClimbingAt ==
    ASSUME NEW path, NEW leaf, NEW f, NEW n \in Nat, Climbing(path, leaf, f, n)
    PROVE  /\ f[0] = leaf
           /\ \A i \in 0..n - 1 : f[i + 1] = Combined(path[i + 1], f[i])
<1>1. f[0] = leaf
  BY SMT DEF Climbing
<1>2. ASSUME NEW i \in 0..n - 1 PROVE f[i + 1] = Combined(path[i + 1], f[i])
  <2>1. i + 1 \in 0..n /\ i + 1 # 0 /\ (i + 1) - 1 = i
    BY SMT
  <2> QED BY <2>1 DEF Climbing
<1> QED BY <1>1, <1>2

\* There is such a function.
LEMMA ClimbingExists ==
    ASSUME NEW path, NEW leaf, NEW n \in Nat
    PROVE  \E f : Climbing(path, leaf, f, n)
<1> DEFINE T == {m \in Nat : \E f : Climbing(path, leaf, f, m)}
<1>1. 0 \in T
  <2> DEFINE f == [i \in 0..0 |-> leaf]
  <2>1. Climbing(path, leaf, f, 0)
    BY SMT DEF Climbing
  <2> HIDE DEF f
  <2> QED BY <2>1
<1>2. ASSUME NEW m \in Nat, m \in T PROVE m + 1 \in T
  <2>1. PICK f : Climbing(path, leaf, f, m)
    BY <1>2
  <2> DEFINE next == Combined(path[m + 1], f[m])
             g == [i \in 0..m + 1 |-> IF i = m + 1 THEN next ELSE f[i]]
  <2>2. \A i \in 0..m : g[i] = f[i]
    BY SMT
  <2>3. g[m + 1] = next
    BY SMT
  <2>4. ASSUME NEW i \in 0..m + 1
        PROVE  g[i] = IF i = 0 THEN leaf ELSE Combined(path[i], g[i - 1])
    <3>1. CASE i = m + 1
      BY <2>2, <2>3, <3>1, SMT
    <3>2. CASE i # m + 1
      <4>1. i \in 0..m /\ (i # 0 => i - 1 \in 0..m)
        BY <3>2, SMT
      <4>2. f[i] = IF i = 0 THEN leaf ELSE Combined(path[i], f[i - 1])
        BY <2>1, <4>1 DEF Climbing
      <4> QED BY <2>2, <4>1, <4>2
    <3> QED BY <3>1, <3>2
  <2>5. Climbing(path, leaf, g, m + 1)
    BY <2>4 DEF Climbing
  <2> HIDE DEF g
  <2> QED BY <2>5, SMT
<1> HIDE DEF T
<1>3. n \in T
  BY <1>1, <1>2, Induction, SMT
<1> QED BY <1>3 DEF T

\* ComputeRoot is its last value.
LEMMA ComputeRootIs ==
    ASSUME NEW X, NEW path \in Seq(X), NEW leaf
    PROVE  \E f : /\ Climbing(path, leaf, f, Len(path))
                  /\ ComputeRoot(path, leaf) = f[Len(path)]
<1> DEFINE f == CHOOSE f : Climbing(path, leaf, f, Len(path))
<1>1. Len(path) \in Nat
  BY SMT
<1>2. Climbing(path, leaf, f, Len(path))
  BY <1>1, ClimbingExists
<1>3. ComputeRoot(path, leaf) = f[Len(path)]
  BY DEF ComputeRoot, Climbing
<1> HIDE DEF f
<1> QED BY <1>2, <1>3

\* No step: the leaf itself.
LEMMA ComputeRootEmpty ==
    ASSUME NEW leaf PROVE ComputeRoot(<<>>, leaf) = leaf
<1>1. <<>> \in Seq({}) /\ Len(<<>>) = 0
  BY SMT
<1>2. PICK f : Climbing(<<>>, leaf, f, 0) /\ ComputeRoot(<<>>, leaf) = f[0]
  BY <1>1, ComputeRootIs
<1> QED BY <1>2, ClimbingAt

\* One more step is combined with the root of the steps before it.
LEMMA ComputeRootAppend ==
    ASSUME NEW X, NEW path \in Seq(X), NEW step \in X, NEW leaf
    PROVE  ComputeRoot(Append(path, step), leaf)
               = Combined(step, ComputeRoot(path, leaf))
<1> DEFINE N == Len(path)
           q == Append(path, step)
<1>1. /\ N \in Nat /\ q \in Seq(X) /\ Len(q) = N + 1
      /\ \A i \in 1..N : q[i] = path[i]
      /\ q[N + 1] = step
  BY SMT
<1>2. PICK f : Climbing(path, leaf, f, N) /\ ComputeRoot(path, leaf) = f[N]
  BY ComputeRootIs
<1> HIDE DEF N, q
<1>3. PICK g : Climbing(q, leaf, g, N + 1) /\ ComputeRoot(q, leaf) = g[N + 1]
  BY <1>1, ComputeRootIs
<1>4. f[0] = leaf /\ \A i \in 0..N - 1 : f[i + 1] = Combined(path[i + 1], f[i])
  BY <1>1, <1>2, ClimbingAt, SMT
<1>5. N + 1 \in Nat
  BY <1>1, SMT
<1>6. g[0] = leaf /\ \A i \in 0..(N + 1) - 1 : g[i + 1] = Combined(q[i + 1], g[i])
  BY <1>3, <1>5, ClimbingAt, SMT
<1> DEFINE T == {i \in 0..N : f[i] = g[i]}
<1>7. 0 \in T
  BY <1>1, <1>4, <1>6, SMT
<1>8. ASSUME NEW i \in 0..N - 1, i \in T PROVE i + 1 \in T
  <2>1. i + 1 \in 0..N /\ i + 1 \in 1..N /\ i \in 0..(N + 1) - 1
    BY <1>1, SMT
  <2> QED BY <1>1, <1>4, <1>6, <1>8, <2>1
<1> HIDE DEF T
<1>9. \A i \in 0..N : i \in T
  BY <1>1, <1>7, <1>8, Induction
<1>10. f[N] = g[N]
  BY <1>1, <1>9, SMT DEF T
<1>11. g[N + 1] = Combined(q[N + 1], g[N])
  BY <1>1, <1>6, SMT
<1> QED BY <1>1, <1>2, <1>3, <1>10, <1>11 DEF q

\* A path leads two digests to two roots.
LEMMA ComputeRootInjective ==
    ASSUME NEW X, NEW path \in Seq(X), NEW x, NEW y,
           ComputeRoot(path, x) = ComputeRoot(path, y)
    PROVE  x = y
<1> DEFINE N == Len(path)
<1>1. N \in Nat
  BY SMT
<1>2. PICK f : Climbing(path, x, f, N) /\ ComputeRoot(path, x) = f[N]
  BY ComputeRootIs
<1>3. PICK g : Climbing(path, y, g, N) /\ ComputeRoot(path, y) = g[N]
  BY ComputeRootIs
<1> HIDE DEF N
<1>4. f[0] = x /\ \A i \in 0..N - 1 : f[i + 1] = Combined(path[i + 1], f[i])
  BY <1>1, <1>2, ClimbingAt, SMT
<1>5. g[0] = y /\ \A i \in 0..N - 1 : g[i + 1] = Combined(path[i + 1], g[i])
  BY <1>1, <1>3, ClimbingAt, SMT
<1> DEFINE T == {i \in 0..N : f[i] = g[i] => x = y}
<1>6. 0 \in T
  BY <1>1, <1>4, <1>5, SMT
<1>7. ASSUME NEW i \in 0..N - 1, i \in T PROVE i + 1 \in T
  <2>1. i + 1 \in 0..N
    BY <1>1, SMT
  <2>2. f[i + 1] = g[i + 1] => f[i] = g[i]
    BY <1>4, <1>5, CombinedInjective, SMT
  <2> QED BY <1>7, <2>1, <2>2
<1> HIDE DEF T
<1>8. \A i \in 0..N : i \in T
  BY <1>1, <1>6, <1>7, Induction
<1>9. f[N] = g[N] => x = y
  BY <1>1, <1>8, SMT DEF T
<1> QED BY <1>2, <1>3, <1>9

-----------------------------------------------------------------------------
(* The levels.                                                             *)

\* s is a sequence, of whatever.
IsSeq(s) == \E Y : s \in Seq(Y)

\* Sequences are the same when their elements are.
LEMMA SameSeq ==
    ASSUME NEW a, NEW b, IsSeq(a), IsSeq(b), Len(a) = Len(b),
           \A i \in 1..Len(a) : a[i] = b[i]
    PROVE  a = b
<1>1. PICK Y : a \in Seq(Y)
  BY DEF IsSeq
<1>2. PICK Z : b \in Seq(Z)
  BY DEF IsSeq
<1>3. a = [i \in 1..Len(a) |-> a[i]] /\ b = [i \in 1..Len(b) |-> b[i]]
  BY <1>1, <1>2, SMT
<1> QED BY <1>3

\* A round of build has half as many nodes, rounded up.
LEMMA ParentsLength ==
    ASSUME NEW nodes, IsSeq(nodes)
    PROVE  /\ IsSeq(Parents(nodes))
           /\ Len(Parents(nodes)) = (Len(nodes) + 1) \div 2
<1> DEFINE n == (Len(nodes) + 1) \div 2
           p == Parents(nodes)
           Y == {p[i] : i \in 1..n}
<1>1. Len(nodes) \in Nat
  BY SMT DEF IsSeq
<1>2. n \in Nat
  BY <1>1, SMT
<1>3. p = [i \in 1..n |-> p[i]] /\ DOMAIN p = 1..n
  BY DEF Parents
<1> HIDE DEF p, n
<1>4. p \in [1..n -> Y]
  BY <1>3
<1> HIDE DEF Y
<1>5. p \in Seq(Y) /\ Len(p) = n
  BY <1>2, <1>4, SMT
<1> QED BY <1>5 DEF p, n, IsSeq

\* The function f satisfies the equation of the one in Build, up to n.
Levelled(leaves, f, n) ==
    f = [l \in 0..n |-> IF l = 0 THEN leaves ELSE Parents(f[l - 1])]

\* The same, for each level.
LEMMA LevelledAt ==
    ASSUME NEW leaves, NEW f, NEW n \in Nat, Levelled(leaves, f, n)
    PROVE  /\ f[0] = leaves /\ DOMAIN f = 0..n
           /\ \A l \in 0..n - 1 : f[l + 1] = Parents(f[l])
<1>1. f[0] = leaves /\ DOMAIN f = 0..n
  BY SMT DEF Levelled
<1>2. ASSUME NEW l \in 0..n - 1 PROVE f[l + 1] = Parents(f[l])
  <2>1. l + 1 \in 0..n /\ l + 1 # 0 /\ (l + 1) - 1 = l
    BY SMT
  <2> QED BY <2>1 DEF Levelled
<1> QED BY <1>1, <1>2

\* There is such a function.
LEMMA LevelledExists ==
    ASSUME NEW leaves, NEW n \in Nat
    PROVE  \E f : Levelled(leaves, f, n)
<1> DEFINE T == {m \in Nat : \E f : Levelled(leaves, f, m)}
<1>1. 0 \in T
  <2> DEFINE f == [l \in 0..0 |-> leaves]
  <2>1. Levelled(leaves, f, 0)
    BY SMT DEF Levelled
  <2> HIDE DEF f
  <2> QED BY <2>1
<1>2. ASSUME NEW m \in Nat, m \in T PROVE m + 1 \in T
  <2>1. PICK f : Levelled(leaves, f, m)
    BY <1>2
  <2> DEFINE next == Parents(f[m])
             g == [l \in 0..m + 1 |-> IF l = m + 1 THEN next ELSE f[l]]
  <2>2. \A l \in 0..m : g[l] = f[l]
    BY SMT
  <2>3. g[m + 1] = next
    BY SMT
  <2>4. ASSUME NEW l \in 0..m + 1
        PROVE  g[l] = IF l = 0 THEN leaves ELSE Parents(g[l - 1])
    <3>1. CASE l = m + 1
      BY <2>2, <2>3, <3>1, SMT
    <3>2. CASE l # m + 1
      <4>1. l \in 0..m /\ (l # 0 => l - 1 \in 0..m)
        BY <3>2, SMT
      <4>2. f[l] = IF l = 0 THEN leaves ELSE Parents(f[l - 1])
        BY <2>1, <4>1 DEF Levelled
      <4> QED BY <2>2, <4>1, <4>2
    <3> QED BY <3>1, <3>2
  <2>5. Levelled(leaves, g, m + 1)
    BY <2>4 DEF Levelled
  <2> HIDE DEF g
  <2> QED BY <2>5, SMT
<1> HIDE DEF T
<1>3. n \in T
  BY <1>1, <1>2, Induction, SMT
<1> QED BY <1>3 DEF T

\* Each level is shorter than the one below until one node is left, which stays.
LEMMA LevelsShrink ==
    ASSUME NEW leaves, IsSeq(leaves), NEW f, Levelled(leaves, f, Len(leaves))
    PROVE  \A l \in 0..Len(leaves) :
               /\ IsSeq(f[l]) /\ Len(f[l]) \in Nat
               /\ Len(f[l]) <= 1 \/ Len(f[l]) <= Len(leaves) - l
               /\ Len(leaves) >= 1 => Len(f[l]) >= 1
<1> DEFINE N == Len(leaves)
           T == {l \in 0..N : /\ IsSeq(f[l]) /\ Len(f[l]) \in Nat
                              /\ Len(f[l]) <= 1 \/ Len(f[l]) <= N - l
                              /\ N >= 1 => Len(f[l]) >= 1}
<1>1. N \in Nat
  BY SMT DEF IsSeq
<1>2. f[0] = leaves /\ \A l \in 0..N - 1 : f[l + 1] = Parents(f[l])
  BY <1>1, LevelledAt
<1>3. 0 \in T
  BY <1>1, <1>2, SMT
<1>4. ASSUME NEW l \in 0..N - 1, l \in T PROVE l + 1 \in T
  <2> DEFINE n == Len(f[l])
             k == (n + 1) \div 2
  <2>1. IsSeq(f[l + 1]) /\ Len(f[l + 1]) = k
    BY <1>2, <1>4, ParentsLength
  <2>2. n \in Nat /\ (n <= 1 \/ n <= N - l) /\ (N >= 1 => n >= 1) /\ l + 1 \in 0..N
    BY <1>1, <1>4, SMT
  <2> HIDE DEF n
  <2>3. k \in Nat /\ (n <= 1 => k <= 1) /\ (n > 1 => k <= n - 1) /\ (n >= 1 => k >= 1)
    BY <2>2, SMT
  <2> HIDE DEF k
  <2>4. (k <= 1 \/ k <= N - (l + 1)) /\ (N >= 1 => k >= 1)
    BY <1>1, <2>2, <2>3, SMT
  <2> QED BY <2>1, <2>2, <2>3, <2>4
<1> HIDE DEF T, N
<1>5. \A l \in 0..N : l \in T
  BY <1>1, <1>3, <1>4, Induction
<1> QED BY <1>5 DEF T, N

\* What build promises of a tree: the leaves at the bottom, each level the
\* parents of the one below, and one node at the top and nowhere below it, none
\* for no leaves.
IsTree(tree, leaves) ==
    /\ IsSeq(tree) /\ Len(tree) >= 1
    /\ \A l \in 1..Len(tree) : IsSeq(tree[l])
    /\ tree[1] = leaves
    /\ \A l \in 1..Len(tree) - 1 : Len(tree[l]) > 1 /\ tree[l + 1] = Parents(tree[l])
    /\ Len(tree[Len(tree)]) = IF leaves = <<>> THEN 0 ELSE 1

\* build keeps the promise: its loop ends, however many leaves there are.
LEMMA BuildIsTree ==
    ASSUME NEW leaves, IsSeq(leaves)
    PROVE  IsTree(Build(leaves), leaves)
<1> DEFINE N == Len(leaves)
           f == CHOOSE f : Levelled(leaves, f, N)
           Done(l) == Len(f[l]) <= 1 /\ \A k \in 0..l - 1 : Len(f[k]) > 1
           top == CHOOSE l \in DOMAIN f : Done(l)
           tree == Build(leaves)
<1>1. N \in Nat
  BY SMT DEF IsSeq
<1>2. Levelled(leaves, f, N)
  BY <1>1, LevelledExists
<1>3. tree = [l \in 1..top + 1 |-> f[l - 1]]
  BY DEF Build, Levelled
<1> HIDE DEF f, tree
<1>4. f[0] = leaves /\ DOMAIN f = 0..N /\ \A l \in 0..N - 1 : f[l + 1] = Parents(f[l])
  BY <1>1, <1>2, LevelledAt
<1>5. \A l \in 0..N : /\ IsSeq(f[l]) /\ Len(f[l]) \in Nat
                      /\ Len(f[l]) <= 1 \/ Len(f[l]) <= N - l
                      /\ N >= 1 => Len(f[l]) >= 1
  BY <1>2, LevelsShrink
<1> HIDE DEF N
<1>6. \E l \in DOMAIN f : Done(l)
  <2> DEFINE S == {l \in 0..N : Len(f[l]) <= 1}
  <2>1. N \in S
    <3>1. N \in 0..N /\ N - N = 0
      BY <1>1, SMT
    <3>2. Len(f[N]) \in Nat /\ (Len(f[N]) <= 1 \/ Len(f[N]) <= 0)
      BY <1>5, <3>1
    <3>3. Len(f[N]) <= 1
      BY <3>2, SMT
    <3> QED BY <3>1, <3>3
  <2>2. S \subseteq Nat /\ S # {}
    BY <1>1, <2>1, SMT
  <2> HIDE DEF S
  <2>3. PICK x \in S : \A y \in S : x <= y
    BY <2>2, LeastNatural
  <2>4. x \in 0..N /\ Len(f[x]) <= 1
    BY DEF S
  <2>5. ASSUME NEW k \in 0..x - 1 PROVE Len(f[k]) > 1
    <3>1. k \in 0..N /\ k < x /\ k \in Nat /\ x \in Nat
      BY <1>1, <2>4, SMT
    <3>2. k \notin S
      BY <2>3, <3>1, SMT
    <3>3. ~ (Len(f[k]) <= 1) /\ Len(f[k]) \in Nat
      BY <1>5, <3>1, <3>2 DEF S
    <3> QED BY <3>3, SMT
  <2> QED BY <1>4, <2>4, <2>5
<1>7. top \in 0..N /\ Len(f[top]) <= 1 /\ \A k \in 0..top - 1 : Len(f[k]) > 1
  BY <1>4, <1>6
<1> HIDE DEF top
<1> DEFINE M == top + 1
<1>8. M \in Nat /\ M >= 1 /\ M - 1 = top /\ \A l \in 1..M : l - 1 \in 0..N
  BY <1>1, <1>7, SMT
<1>9. IsSeq(tree) /\ Len(tree) = M /\ \A l \in 1..M : tree[l] = f[l - 1]
  <2> DEFINE Y == {f[l - 1] : l \in 1..M}
  <2>1. tree \in [1..M -> Y]
    BY <1>3
  <2> HIDE DEF Y, M
  <2>2. tree \in Seq(Y) /\ Len(tree) = M
    BY <1>8, <2>1, SMT
  <2> QED BY <1>3, <2>2 DEF IsSeq, M
<1> HIDE DEF M
<1>10. \A l \in 1..M : IsSeq(tree[l])
  BY <1>5, <1>8, <1>9
<1>11. tree[1] = leaves
  BY <1>4, <1>8, <1>9, SMT
<1>12. ASSUME NEW l \in 1..M - 1 PROVE Len(tree[l]) > 1 /\ tree[l + 1] = Parents(tree[l])
  <2>1. l \in 1..M /\ l + 1 \in 1..M /\ (l + 1) - 1 = l /\ l \in Nat
    BY <1>8, SMT
  <2>2. l - 1 \in 0..N - 1 /\ (l - 1) + 1 = l /\ l - 1 \in 0..top - 1
    BY <1>1, <1>7, <1>8, <2>1, SMT
  <2>3. f[(l - 1) + 1] = Parents(f[l - 1])
    BY <1>4, <2>2
  <2> QED BY <1>7, <1>9, <2>1, <2>2, <2>3
<1>13. Len(tree[M]) = IF leaves = <<>> THEN 0 ELSE 1
  <2>1. tree[M] = f[top]
    BY <1>8, <1>9, SMT
  <2>2. CASE leaves = <<>>
    <3>1. N = 0
      BY <2>2 DEF N
    <3>2. top = 0
      BY <1>7, <3>1, SMT
    <3> QED BY <1>4, <2>1, <2>2, <3>2, SMT
  <2>3. CASE leaves # <<>>
    <3>1. N >= 1
      BY <1>1, <2>3, SMT DEF N, IsSeq
    <3> DEFINE w == Len(f[top])
    <3>2. w >= 1 /\ w \in Nat /\ w <= 1
      BY <1>5, <1>7, <3>1
    <3> HIDE DEF w
    <3>3. w = 1
      BY <3>2, SMT
    <3> QED BY <2>1, <2>3, <3>3 DEF w
  <2> QED BY <2>2, <2>3
<1>14. Len(tree) = M /\ Len(tree) >= 1
  BY <1>8, <1>9
<1> QED BY <1>9, <1>10, <1>11, <1>12, <1>13, <1>14 DEF IsTree, tree

\* The root of no leaves.
LEMMA RootOfNothing ==
    ASSUME NEW tree, IsTree(tree, <<>>)
    PROVE  Root(tree) = EmptyRoot
<1>1. Len(tree[Len(tree)]) = 0 /\ IsSeq(tree[Len(tree)])
  BY SMT DEF IsTree, IsSeq
<1>2. tree[Len(tree)] = <<>>
  BY <1>1, SMT DEF IsSeq
<1> QED BY <1>2 DEF Root, Last

\* The root is the node at the top.
LEMMA RootIsTop ==
    ASSUME NEW tree, NEW leaves, IsTree(tree, leaves), leaves # <<>>
    PROVE  Root(tree) = tree[Len(tree)][1]
<1>1. Len(tree[Len(tree)]) = 1
  BY DEF IsTree
<1>2. tree[Len(tree)] # <<>>
  BY <1>1, SMT
<1> QED BY <1>2 DEF Root, Last

-----------------------------------------------------------------------------
(* The path.                                                               *)

\* The function f satisfies the equation of the one in IndexAt, up to n.
Halving(index, f, n) ==
    f = [l \in 1..n |-> IF l = 1 THEN index ELSE f[l - 1] \div 2]

\* There is such a function.
LEMMA HalvingExists ==
    ASSUME NEW index, NEW n \in Nat
    PROVE  \E f : Halving(index, f, n)
<1> DEFINE T == {m \in Nat : \E f : Halving(index, f, m)}
<1>1. 0 \in T
  <2> DEFINE f == [l \in 1..0 |-> index]
  <2>1. Halving(index, f, 0)
    BY SMT DEF Halving
  <2> HIDE DEF f
  <2> QED BY <2>1
<1>2. ASSUME NEW m \in Nat, m \in T PROVE m + 1 \in T
  <2>1. PICK f : Halving(index, f, m)
    BY <1>2
  <2> DEFINE next == IF m = 0 THEN index ELSE f[m] \div 2
             g == [l \in 1..m + 1 |-> IF l = m + 1 THEN next ELSE f[l]]
  <2>2. \A l \in 1..m : g[l] = f[l]
    BY SMT
  <2>3. g[m + 1] = next
    BY SMT
  <2>4. ASSUME NEW l \in 1..m + 1
        PROVE  g[l] = IF l = 1 THEN index ELSE g[l - 1] \div 2
    <3>1. CASE l = m + 1
      BY <2>2, <2>3, <3>1, SMT
    <3>2. CASE l # m + 1
      <4>1. l \in 1..m /\ (l # 1 => l - 1 \in 1..m)
        BY <3>2, SMT
      <4>2. f[l] = IF l = 1 THEN index ELSE f[l - 1] \div 2
        BY <2>1, <4>1 DEF Halving
      <4> QED BY <2>2, <4>1, <4>2
    <3> QED BY <3>1, <3>2
  <2>5. Halving(index, g, m + 1)
    BY <2>4 DEF Halving
  <2> HIDE DEF g
  <2> QED BY <2>5, SMT
<1> HIDE DEF T
<1>3. n \in T
  BY <1>1, <1>2, Induction, SMT
<1> QED BY <1>3 DEF T

\* IndexAt is it.
LEMMA IndexAtIs ==
    ASSUME NEW tree, IsSeq(tree), Len(tree) >= 1, NEW index
    PROVE  /\ IndexAt(tree, index)[1] = index
           /\ \A l \in 1..Len(tree) - 1 :
                IndexAt(tree, index)[l + 1] = IndexAt(tree, index)[l] \div 2
<1> DEFINE N == Len(tree)
           f == CHOOSE f : Halving(index, f, N)
<1>1. N \in Nat /\ N >= 1
  BY SMT DEF IsSeq
<1>2. Halving(index, f, N)
  BY <1>1, HalvingExists
<1>3. IndexAt(tree, index) = f
  BY DEF IndexAt, Halving
<1> HIDE DEF f, N
<1>4. f[1] = index
  BY <1>1, <1>2, SMT DEF Halving
<1>5. ASSUME NEW l \in 1..N - 1 PROVE f[l + 1] = f[l] \div 2
  <2>1. l + 1 \in 1..N /\ l + 1 # 1 /\ (l + 1) - 1 = l
    BY <1>1, SMT
  <2> QED BY <1>2, <2>1 DEF Halving
<1> QED BY <1>3, <1>4, <1>5 DEF N

\* An index and its half.
LEMMA Halves ==
    ASSUME NEW i \in Nat
    PROVE  /\ i \div 2 \in Nat
           /\ i % 2 = 1 => i = 2 * (i \div 2) + 1
           /\ i % 2 # 1 => i = 2 * (i \div 2)
BY SMT

\* The hop of a level leads from a node to its parent.
LEMMA HopLeadsUp ==
    ASSUME NEW nodes, IsSeq(nodes), NEW i \in 0..Len(nodes) - 1
    PROVE  /\ i \div 2 \in 0..Len(Parents(nodes)) - 1
           /\ \/ /\ Hop(nodes, i) = <<>>
                 /\ Parents(nodes)[i \div 2 + 1] = nodes[i + 1]
              \/ \E step : /\ Hop(nodes, i) = <<step>>
                           /\ Parents(nodes)[i \div 2 + 1] = Combined(step, nodes[i + 1])
<1> DEFINE n == Len(nodes)
           q == i \div 2
           p == Parents(nodes)
<1>1. n \in Nat
  BY SMT DEF IsSeq
<1> DEFINE odd == i % 2 = 1
<1>2. i \in Nat /\ i < n
  BY <1>1, SMT
<1>3. q \in Nat /\ (odd => i = 2 * q + 1) /\ (~ odd => i = 2 * q)
  BY <1>2, Halves
<1>4. q + 1 \in 1..(n + 1) \div 2 /\ (n + 1) \div 2 \in Nat
  <2> HIDE DEF n, q, odd
  <2> QED BY <1>1, <1>2, <1>3, SMT
<1>5. q \in 0..Len(p) - 1
  BY <1>4, ParentsLength, SMT
<1>6. p[q + 1] = IF 2 * (q + 1) <= n THEN HashNode(nodes[2 * (q + 1) - 1], nodes[2 * (q + 1)])
                 ELSE nodes[2 * (q + 1) - 1]
  BY <1>4 DEF Parents
<1> HIDE DEF n, q, p, odd
<1>7. CASE odd
  <2> DEFINE step == [sibling |-> nodes[i], siblingIsLeft |-> TRUE]
  <2>1. 2 * (q + 1) <= n /\ 2 * (q + 1) - 1 = i /\ 2 * (q + 1) = i + 1
    BY <1>1, <1>2, <1>3, <1>7, SMT
  <2>2. Hop(nodes, i) = <<step>>
    BY <1>7 DEF Hop, odd
  <2>3. Combined(step, nodes[i + 1]) = HashNode(nodes[i], nodes[i + 1])
    BY DEF Combined
  <2>4. p[q + 1] = HashNode(nodes[i], nodes[i + 1])
    BY <1>6, <2>1
  <2> HIDE DEF step
  <2> QED BY <1>5, <2>2, <2>3, <2>4 DEF p, q, n
<1>8. CASE ~ odd /\ i + 1 < n
  <2> DEFINE step == [sibling |-> nodes[i + 2], siblingIsLeft |-> FALSE]
  <2>1. 2 * (q + 1) <= n /\ 2 * (q + 1) - 1 = i + 1 /\ 2 * (q + 1) = i + 2
    BY <1>1, <1>2, <1>3, <1>8, SMT
  <2>2. Hop(nodes, i) = <<step>>
    BY <1>8 DEF Hop, n, odd
  <2>3. Combined(step, nodes[i + 1]) = HashNode(nodes[i + 1], nodes[i + 2])
    BY DEF Combined
  <2>4. p[q + 1] = HashNode(nodes[i + 1], nodes[i + 2])
    BY <1>6, <2>1
  <2> HIDE DEF step
  <2> QED BY <1>5, <2>2, <2>3, <2>4 DEF p, q, n
<1>9. CASE ~ odd /\ ~ (i + 1 < n)
  <2>1. ~ (2 * (q + 1) <= n) /\ 2 * (q + 1) - 1 = i + 1
    BY <1>1, <1>2, <1>3, <1>9, SMT
  <2>2. Hop(nodes, i) = <<>>
    BY <1>9 DEF Hop, n, odd
  <2>3. p[q + 1] = nodes[i + 1]
    BY <1>6, <2>1
  <2> QED BY <1>5, <2>2, <2>3 DEF p, q, n
<1> QED BY <1>7, <1>8, <1>9

\* The path leads from the leaf up to the root.
LEMMA PathLeadsUp ==
    ASSUME NEW tree, NEW leaves, IsTree(tree, leaves), NEW index \in 0..Len(leaves) - 1
    PROVE  /\ \E X : Path(tree, index) \in Seq(X)
           /\ ComputeRoot(Path(tree, index), leaves[index + 1]) = Root(tree)
<1> DEFINE N == Len(tree)
           idx == IndexAt(tree, index)
           hops == [l \in 1..N - 1 |-> Hop(tree[l], idx[l])]
           up(m) == Flatten(SubSeq(hops, 1, m))
           X == UNION {Range(hops[l]) : l \in 1..N - 1}
           Y == Seq(X)
           leaf == leaves[index + 1]
           T == {m \in 0..N - 1 :
                    /\ idx[m + 1] \in 0..Len(tree[m + 1]) - 1
                    /\ up(m) \in Seq(X)
                    /\ ComputeRoot(up(m), leaf) = tree[m + 1][idx[m + 1] + 1]}
<1>1. /\ N \in Nat /\ N >= 1 /\ tree[1] = leaves
      /\ \A l \in 1..N : IsSeq(tree[l])
      /\ \A l \in 1..N - 1 : tree[l + 1] = Parents(tree[l])
  <2>1. N \in Nat
    BY SMT DEF IsTree, IsSeq
  <2> QED BY <2>1 DEF IsTree
<1>2. idx[1] = index /\ \A l \in 1..N - 1 : idx[l + 1] = idx[l] \div 2
  BY IndexAtIs, SMT DEF IsTree
<1> HIDE DEF N, idx
<1>3. /\ DOMAIN hops = 1..N - 1
      /\ \A l \in 1..N - 1 : hops[l] = Hop(tree[l], idx[l])
  OBVIOUS
<1>4. Path(tree, index) = Flatten(hops)
  BY DEF Path, idx, N
<1> HIDE DEF hops
<1>5. ASSUME NEW l \in 1..N - 1 PROVE hops[l] \in Y
  <2>1. \/ hops[l] = <<>>
        \/ \E step : hops[l] = <<step>>
    BY <1>3 DEF Hop
  <2>2. CASE hops[l] = <<>>
    BY <2>2, SMT
  <2>3. ASSUME NEW step, hops[l] = <<step>> PROVE hops[l] \in Y
    <3>1. step \in Range(hops[l])
      BY <2>3, SMT DEF Range
    <3>2. step \in X
      BY <3>1
    <3> HIDE DEF X
    <3> QED BY <2>3, <3>2, SMT
  <2> QED BY <2>1, <2>2, <2>3
<1> HIDE DEF X, Y
<1>6. hops \in Seq(Y) /\ Len(hops) = N - 1
  <2>1. hops = [l \in 1..N - 1 |-> hops[l]]
    BY DEF hops
  <2> QED BY <1>1, <1>5, <2>1, SMT
<1>7. 0 \in T
  <2>1. SubSeq(hops, 1, 0) = <<>>
    BY <1>6, SMT
  <2>2. up(0) = <<>>
    BY <2>1, FlattenEmpty
  <2> HIDE DEF up
  <2>3. ComputeRoot(up(0), leaf) = leaf
    BY <2>2, ComputeRootEmpty
  <2>4. 0 \in 0..N - 1 /\ 0 + 1 = 1
    BY <1>1, SMT
  <2>5. up(0) \in Seq(X)
    <3>1. \A Z : <<>> \in Seq(Z)
      BY SMT
    <3> QED BY <2>2, <3>1
  <2> QED BY <1>1, <1>2, <2>2, <2>3, <2>4, <2>5
<1>8. ASSUME NEW m \in 0..N - 2, m \in T PROVE m + 1 \in T
  <2> DEFINE l == m + 1
             nodes == tree[l]
             i == idx[l]
  <2>1. l \in 1..N - 1 /\ l \in 1..N /\ l \in 0..N - 1 /\ l - 1 = m
    BY <1>1, SMT
  <2>2. /\ i \in 0..Len(nodes) - 1 /\ IsSeq(nodes)
        /\ up(m) \in Seq(X) /\ ComputeRoot(up(m), leaf) = nodes[i + 1]
    BY <1>1, <1>8, <2>1
  <2>3. hops[l] = Hop(nodes, i) /\ idx[l + 1] = i \div 2 /\ tree[l + 1] = Parents(nodes)
    BY <1>1, <1>2, <1>3, <2>1
  <2>4. up(l) = up(m) \o hops[l]
    <3>1. /\ SubSeq(hops, 1, m) \in Seq(Y)
          /\ SubSeq(hops, 1, l) = Append(SubSeq(hops, 1, m), hops[l])
      BY <1>6, <2>1, UpTo
    <3>2. hops[l] \in Seq(X)
      BY <1>5, <2>1 DEF Y
    <3> QED BY <3>1, <3>2, FlattenAppend DEF Y
  <2> HIDE DEF up, l, i, nodes
  <2>5. i \div 2 \in 0..Len(Parents(nodes)) - 1
    BY <2>2, HopLeadsUp
  <2>6. up(l) \in Seq(X) /\ ComputeRoot(up(l), leaf) = Parents(nodes)[i \div 2 + 1]
    <3>1. CASE Hop(nodes, i) = <<>> /\ Parents(nodes)[i \div 2 + 1] = nodes[i + 1]
      <4>1. up(l) = up(m)
        BY <2>2, <2>3, <2>4, <3>1, SMT
      <4> QED BY <2>2, <3>1, <4>1
    <3>2. ASSUME NEW step, Hop(nodes, i) = <<step>>,
                 Parents(nodes)[i \div 2 + 1] = Combined(step, nodes[i + 1])
          PROVE  up(l) \in Seq(X) /\ ComputeRoot(up(l), leaf) = Parents(nodes)[i \div 2 + 1]
      <4>1. <<step>> \in Seq(X)
        BY <1>5, <2>1, <2>3, <3>2, ZenonT(40) DEF Y
      <4>2. step \in X
        BY <4>1, SMT
      <4>3. up(l) = Append(up(m), step)
        BY <2>2, <2>3, <2>4, <3>2, <4>2, SMT
      <4>4. ComputeRoot(Append(up(m), step), leaf) = Combined(step, nodes[i + 1])
        BY <2>2, <4>2, ComputeRootAppend
      <4> QED BY <2>2, <3>2, <4>2, <4>3, <4>4, SMT
    <3> QED BY <2>2, <3>1, <3>2, HopLeadsUp, ZenonT(40)
  <2>7. l \in T
    BY <2>1, <2>3, <2>5, <2>6
  <2> QED BY <2>7 DEF l
<1> HIDE DEF T, up
<1>9. \A m \in 0..N - 1 : m \in T
  <2>1. N - 1 \in Nat /\ (N - 1) - 1 = N - 2
    BY <1>1, SMT
  <2> QED BY <1>7, <1>8, <2>1, Induction, ZenonT(40)
<1>10. N - 1 \in T
  BY <1>1, <1>9, SMT
<1>11. /\ idx[N] \in 0..Len(tree[N]) - 1
       /\ up(N - 1) \in Seq(X)
       /\ ComputeRoot(up(N - 1), leaf) = tree[N][idx[N] + 1]
  <2>1. (N - 1) + 1 = N
    BY <1>1, SMT
  <2> QED BY <1>10, <2>1 DEF T
<1>12. up(N - 1) = Path(tree, index)
  BY <1>4, <1>6, SubSeqFull, ZenonT(40) DEF up
<1>13. leaves # <<>>
  BY SMT
<1>14. tree[N][idx[N] + 1] = Root(tree)
  <2>1. Len(tree[N]) = 1
    BY <1>13 DEF IsTree, N
  <2>2. idx[N] + 1 = 1
    BY <1>11, <2>1, SMT
  <2> QED BY <1>13, <2>2, RootIsTop DEF N
<1> QED BY <1>11, <1>12, <1>14

-----------------------------------------------------------------------------
(* What a proof proves.                                                    *)

\* The leaves of some data.
LEMMA LeavesOf ==
    ASSUME NEW X, NEW data \in Seq(X)
    PROVE  LET leaves == [i \in DOMAIN data |-> HashLeaf(data[i])]
           IN  /\ IsSeq(leaves) /\ Len(leaves) = Len(data)
               /\ \A i \in 1..Len(data) : leaves[i] = HashLeaf(data[i])
               /\ IsTree(TreeOf(data), leaves)
<1> DEFINE leaves == [i \in DOMAIN data |-> HashLeaf(data[i])]
           Y == {HashLeaf(data[i]) : i \in DOMAIN data}
<1>1. leaves \in [1..Len(data) -> Y] /\ Len(data) \in Nat
  BY SMT
<1>2. \A i \in 1..Len(data) : leaves[i] = HashLeaf(data[i])
  BY SMT
<1>3. TreeOf(data) = Build(leaves)
  BY DEF TreeOf
<1> HIDE DEF leaves, Y
<1>4. leaves \in Seq(Y) /\ Len(leaves) = Len(data)
  BY <1>1, SMT
<1>5. IsSeq(leaves)
  BY <1>4 DEF IsSeq
<1>6. IsTree(TreeOf(data), leaves)
  BY <1>3, <1>5, BuildIsTree
<1> QED BY <1>2, <1>4, <1>5, <1>6 DEF leaves

\* The path that MerkleTree::proof gives for a datum leads to the root of
\* MerkleTree::root from that datum, and from no other one of the sequence.
THEOREM PathsBind ==
    ASSUME NEW X, NEW data \in Seq(X), NEW i \in DOMAIN data
    PROVE  PathBinds(data, i)
<1> DEFINE tree == TreeOf(data)
           path == Path(tree, i - 1)
           leaves == [k \in DOMAIN data |-> HashLeaf(data[k])]
<1>1. /\ Len(leaves) = Len(data)
      /\ \A k \in 1..Len(data) : leaves[k] = HashLeaf(data[k])
      /\ IsTree(tree, leaves)
  BY LeavesOf
<1>2. /\ i \in 1..Len(data) /\ i - 1 \in 0..Len(data) - 1 /\ (i - 1) + 1 = i
      /\ \A j \in DOMAIN data : j \in 1..Len(data)
  BY SMT
<1> HIDE DEF tree, leaves
<1>3. /\ \E Z : path \in Seq(Z)
      /\ ComputeRoot(path, leaves[i]) = Root(tree)
  BY <1>1, <1>2, PathLeadsUp, SMT
<1>4. leaves[i] = HashLeaf(data[i])
  BY <1>1, <1>2
<1> HIDE DEF path
<1>5. ASSUME NEW j \in DOMAIN data
      PROVE  (ComputeRoot(path, HashLeaf(data[j])) = Root(tree)) <=> (data[j] = data[i])
  <2>1. ASSUME ComputeRoot(path, HashLeaf(data[j])) = Root(tree) PROVE data[j] = data[i]
    <3>1. HashLeaf(data[j]) = HashLeaf(data[i])
      BY <1>3, <1>4, <2>1, ComputeRootInjective
    <3> QED BY <3>1, Digests
  <2>2. ASSUME data[j] = data[i] PROVE ComputeRoot(path, HashLeaf(data[j])) = Root(tree)
    BY <1>3, <1>4, <2>2
  <2> QED BY <2>1, <2>2
<1> QED BY <1>5 DEF PathBinds, tree, path

\* Only data of the tree lead to a digest.
LeadsFrom(data, digest) ==
    \A path, x :
        IsSeq(path) /\ ComputeRoot(path, HashLeaf(x)) = digest => x \in Range(data)

\* What leads to an inner node comes through one of its children.
LEMMA ThroughChild ==
    ASSUME NEW data, NEW a, NEW b, LeadsFrom(data, a), LeadsFrom(data, b)
    PROVE  LeadsFrom(data, HashNode(a, b))
<1> SUFFICES ASSUME NEW path, NEW x, IsSeq(path),
                    ComputeRoot(path, HashLeaf(x)) = HashNode(a, b)
             PROVE  x \in Range(data)
  BY DEF LeadsFrom
<1>1. path # <<>>
  BY ComputeRootEmpty, Digests, SMT
<1>2. PICK Y : path \in Seq(Y)
  BY DEF IsSeq
<1>3. PICK front \in Seq(Y), step \in Y : path = Append(front, step)
  BY <1>1, <1>2, SequenceEmptyOrAppend
<1>4. Combined(step, ComputeRoot(front, HashLeaf(x))) = HashNode(a, b)
  BY <1>3, ComputeRootAppend
<1>5. ComputeRoot(front, HashLeaf(x)) = a \/ ComputeRoot(front, HashLeaf(x)) = b
  BY <1>4, Digests, SMT DEF Combined
<1>6. IsSeq(front)
  BY DEF IsSeq
<1> QED BY <1>5, <1>6 DEF LeadsFrom

\* A leaf's digest comes from its datum alone: an inner node is never a leaf.
LEMMA FromLeaf ==
    ASSUME NEW data, NEW d \in Range(data)
    PROVE  LeadsFrom(data, HashLeaf(d))
<1> SUFFICES ASSUME NEW path, NEW x, IsSeq(path),
                    ComputeRoot(path, HashLeaf(x)) = HashLeaf(d)
             PROVE  x \in Range(data)
  BY DEF LeadsFrom
<1>1. CASE path = <<>>
  BY <1>1, ComputeRootEmpty, Digests
<1>2. CASE path # <<>>
  <2>1. PICK Y : path \in Seq(Y)
    BY DEF IsSeq
  <2>2. PICK front \in Seq(Y), step \in Y : path = Append(front, step)
    BY <1>2, <2>1, SequenceEmptyOrAppend
  <2>3. Combined(step, ComputeRoot(front, HashLeaf(x))) = HashLeaf(d)
    BY <2>2, ComputeRootAppend
  <2> QED BY <2>3, Digests DEF Combined
<1> QED BY <1>1, <1>2

\* Whatever path a proof carries, only what is in a tree leads to its root:
\* leaves and inner nodes are hashed apart, and a lone node is promoted, not
\* paired with itself (hash_leaf, hash_node, MerkleTree::build).
THEOREM OnlyDataVerifies ==
    ASSUME NEW X, NEW data \in Seq(X), NEW path, IsSeq(path), NEW x,
           ComputeRoot(path, HashLeaf(x)) = RootOf(data)
    PROVE  x \in Range(data)
<1> DEFINE tree == TreeOf(data)
           leaves == [k \in DOMAIN data |-> HashLeaf(data[k])]
           N == Len(tree)
           T == {m \in 0..N - 1 : \A j \in 1..Len(tree[m + 1]) :
                                    LeadsFrom(data, tree[m + 1][j])}
<1>1. /\ Len(leaves) = Len(data)
      /\ \A k \in 1..Len(data) : leaves[k] = HashLeaf(data[k])
      /\ IsTree(tree, leaves)
  BY LeavesOf
<1> HIDE DEF tree, leaves
<1>2. /\ N \in Nat /\ N >= 1 /\ tree[1] = leaves
      /\ \A l \in 1..N : IsSeq(tree[l])
      /\ \A l \in 1..N - 1 : tree[l + 1] = Parents(tree[l])
  <2>1. N \in Nat
    BY <1>1, SMT DEF IsTree, IsSeq
  <2> QED BY <1>1, <2>1 DEF IsTree
<1>3. RootOf(data) = Root(tree)
  BY DEF RootOf, tree
<1>4. CASE data = <<>>
  <2>1. leaves = <<>>
    BY <1>4, SMT DEF leaves
  <2>2. RootOf(data) = EmptyRoot
    BY <1>1, <1>3, <2>1, RootOfNothing
  <2>3. PICK Y : path \in Seq(Y)
    BY DEF IsSeq
  <2>4. CASE path = <<>>
    BY <2>2, <2>4, ComputeRootEmpty, Digests
  <2>5. CASE path # <<>>
    <3>1. PICK front \in Seq(Y), step \in Y : path = Append(front, step)
      BY <2>3, <2>5, SequenceEmptyOrAppend
    <3>2. Combined(step, ComputeRoot(front, HashLeaf(x))) = EmptyRoot
      BY <2>2, <3>1, ComputeRootAppend
    <3> QED BY <3>2, Digests DEF Combined
  <2> QED BY <2>4, <2>5
<1>5. CASE data # <<>>
  <2> HIDE DEF N
  <2>1. 0 \in T
    <3>1. ASSUME NEW j \in 1..Len(leaves) PROVE LeadsFrom(data, leaves[j])
      <4>1. leaves[j] = HashLeaf(data[j]) /\ data[j] \in Range(data)
        BY <1>1, SMT DEF Range
      <4> QED BY <4>1, FromLeaf
    <3>2. 0 \in 0..N - 1 /\ 0 + 1 = 1
      BY <1>2, SMT
    <3> QED BY <1>2, <3>1, <3>2
  <2>2. ASSUME NEW m \in 0..N - 2, m \in T PROVE m + 1 \in T
    <3> DEFINE nodes == tree[m + 1]
               k == Len(nodes)
    <3>1. /\ m + 1 \in 0..N - 1 /\ m + 1 \in 1..N - 1 /\ m + 1 \in 1..N
          /\ tree[(m + 1) + 1] = Parents(nodes) /\ IsSeq(nodes)
      BY <1>2, SMT
    <3>2. \A j \in 1..k : LeadsFrom(data, nodes[j])
      BY <2>2
    <3>3. k \in Nat
      BY <3>1, SMT DEF IsSeq
    <3>4. Len(Parents(nodes)) = (k + 1) \div 2
      BY <3>1, ParentsLength
    <3>5. \A j \in 1..(k + 1) \div 2 :
             Parents(nodes)[j] = IF 2 * j <= k THEN HashNode(nodes[2 * j - 1], nodes[2 * j])
                                 ELSE nodes[2 * j - 1]
      BY DEF Parents
    <3> HIDE DEF k, nodes
    <3>6. ASSUME NEW j \in 1..(k + 1) \div 2 PROVE LeadsFrom(data, Parents(nodes)[j])
      <4>1. 2 * j - 1 \in 1..k /\ (2 * j <= k => 2 * j \in 1..k)
        BY <3>3, SMT
      <4>2. CASE 2 * j <= k
        BY <3>2, <3>5, <4>1, <4>2, ThroughChild
      <4>3. CASE ~ (2 * j <= k)
        BY <3>2, <3>5, <4>1, <4>3
      <4> QED BY <4>2, <4>3
    <3> QED BY <3>1, <3>4, <3>6
  <2> HIDE DEF T
  <2>3. \A m \in 0..N - 1 : m \in T
    <3>1. N - 1 \in Nat /\ (N - 1) - 1 = N - 2
      BY <1>2, SMT
    <3> QED BY <2>1, <2>2, <3>1, Induction
  <2>4. N - 1 \in T /\ (N - 1) + 1 = N
    BY <1>2, <2>3, SMT
  <2>5. leaves # <<>>
    BY <1>1, <1>5, SMT
  <2>6. Len(tree[N]) = 1 /\ Root(tree) = tree[N][1]
    BY <1>1, <2>5, RootIsTop DEF IsTree, N
  <2>7. LeadsFrom(data, Root(tree))
    BY <2>4, <2>6, SMT DEF T
  <2> QED BY <1>3, <2>7 DEF LeadsFrom
<1> QED BY <1>4, <1>5
-----------------------------------------------------------------------------
(* What a root commits to.                                                 *)

\* From the digest d one goes down m times to the left before a leaf comes.
LeftDepth(d, m) ==
    \E f : /\ f[m] = d
           /\ \E x : f[0] = HashLeaf(x)
           /\ \A i \in 0..m - 1 : \E y : f[i + 1] = HashNode(f[i], y)

\* A leaf has depth 0, and a node is one deeper than its left child.
LEMMA DepthUp ==
    /\ \A x : LeftDepth(HashLeaf(x), 0)
    /\ \A a, b : \A m \in Nat : LeftDepth(a, m) => LeftDepth(HashNode(a, b), m + 1)
<1>1. ASSUME NEW x PROVE LeftDepth(HashLeaf(x), 0)
  <2> DEFINE f == [i \in {0} |-> HashLeaf(x)]
  <2>1. f[0] = HashLeaf(x)
    OBVIOUS
  <2>2. 0..0 - 1 = {}
    BY SMT
  <2> HIDE DEF f
  <2> QED BY <2>1, <2>2 DEF LeftDepth
<1>2. ASSUME NEW a, NEW b, NEW m \in Nat, LeftDepth(a, m)
      PROVE  LeftDepth(HashNode(a, b), m + 1)
  <2>1. PICK f : /\ f[m] = a
                 /\ \E x : f[0] = HashLeaf(x)
                 /\ \A i \in 0..m - 1 : \E y : f[i + 1] = HashNode(f[i], y)
    BY <1>2 DEF LeftDepth
  <2> DEFINE top == HashNode(a, b)
             g == [i \in 0..m + 1 |-> IF i = m + 1 THEN top ELSE f[i]]
  <2>2. g[m + 1] = top /\ \A i \in 0..m : g[i] = f[i]
    <3>1. /\ m + 1 \in 0..m + 1
          /\ \A i \in 0..m : i \in 0..m + 1 /\ i # m + 1
      BY SMT
    <3> QED BY <3>1
  <2>3. 0 \in 0..m /\ m \in 0..m /\ (m + 1) - 1 = m
    BY SMT
  <2> HIDE DEF g
  <2>4. ASSUME NEW i \in 0..m PROVE \E y : g[i + 1] = HashNode(g[i], y)
    <3>1. CASE i = m
      BY <2>1, <2>2, <2>3, <3>1
    <3>2. CASE i # m
      <4>1. i \in 0..m - 1 /\ i + 1 \in 0..m
        BY <3>2, SMT
      <4> QED BY <2>1, <2>2, <4>1
    <3> QED BY <3>1, <3>2
  <2>5. /\ g[m + 1] = HashNode(a, b)
        /\ \E x : g[0] = HashLeaf(x)
        /\ \A i \in 0..(m + 1) - 1 : \E y : g[i + 1] = HashNode(g[i], y)
    BY <2>1, <2>2, <2>3, <2>4
  <2> QED BY <2>5 DEF LeftDepth
<1> QED BY <1>1, <1>2

\* The other way round.
LEMMA DepthDown ==
    ASSUME NEW d, NEW m \in Nat, LeftDepth(d, m)
    PROVE  /\ m = 0 => \E x : d = HashLeaf(x)
           /\ m # 0 => \E a, b : d = HashNode(a, b) /\ LeftDepth(a, m - 1)
<1>1. PICK f : /\ f[m] = d
               /\ \E x : f[0] = HashLeaf(x)
               /\ \A i \in 0..m - 1 : \E y : f[i + 1] = HashNode(f[i], y)
  BY DEF LeftDepth
<1>2. CASE m = 0
  BY <1>1, <1>2
<1>3. CASE m # 0
  <2>1. /\ m - 1 \in 0..m - 1 /\ (m - 1) + 1 = m
        /\ \A i \in 0..(m - 1) - 1 : i \in 0..m - 1
    BY <1>3, SMT
  <2>2. PICK y : d = HashNode(f[m - 1], y)
    BY <1>1, <2>1
  <2>3. LeftDepth(f[m - 1], m - 1)
    BY <1>1, <2>1 DEF LeftDepth
  <2> QED BY <1>3, <2>2, <2>3
<1> QED BY <1>2, <1>3

\* A digest has one depth.
LEMMA DepthUnique ==
    ASSUME NEW d, NEW m \in Nat, NEW k \in Nat, LeftDepth(d, m), LeftDepth(d, k)
    PROVE  m = k
<1> DEFINE T == {i \in Nat : \A e, j : j \in Nat /\ LeftDepth(e, i) /\ LeftDepth(e, j) => i = j}
<1>1. 0 \in T
  <2>1. ASSUME NEW e, NEW j \in Nat, LeftDepth(e, 0), LeftDepth(e, j) PROVE 0 = j
    <3>1. 0 \in Nat
      BY SMT
    <3>2. \E x : e = HashLeaf(x)
      BY <2>1, <3>1, DepthDown
    <3>3. j # 0 => \E a, b : e = HashNode(a, b)
      BY <2>1, DepthDown, SMT
    <3> QED BY <3>2, <3>3, Digests
  <2> QED BY <2>1, SMT
<1>2. ASSUME NEW i \in 0..m - 1, i \in T PROVE i + 1 \in T
  <2>1. i + 1 \in Nat /\ i + 1 # 0 /\ (i + 1) - 1 = i
    BY SMT
  <2>2. ASSUME NEW e, NEW j \in Nat, LeftDepth(e, i + 1), LeftDepth(e, j) PROVE i + 1 = j
    <3>1. PICK a, b : e = HashNode(a, b) /\ LeftDepth(a, i)
      BY <2>1, <2>2, DepthDown, SMT
    <3>2. j # 0
      BY <2>2, <3>1, DepthDown, Digests, SMT
    <3>3. PICK a2, b2 : e = HashNode(a2, b2) /\ LeftDepth(a2, j - 1)
      BY <2>2, <3>2, DepthDown
    <3>4. a = a2
      BY <3>1, <3>3, Digests
    <3>5. j - 1 \in Nat /\ (j - 1) + 1 = j
      BY <3>2, SMT
    <3>6. i = j - 1
      BY <1>2, <3>1, <3>3, <3>4, <3>5
    <3> QED BY <3>5, <3>6
  <2> QED BY <2>1, <2>2
<1> HIDE DEF T
<1>3. \A i \in 0..m : i \in T
  BY <1>1, <1>2, Induction
<1>4. m \in T
  BY <1>3, SMT
<1> QED BY <1>4 DEF T

\* In a tree over leaves, a digest on level m is at most that deep to the left,
\* and exactly that deep unless it is the last of its level.
LEMMA LevelDepths ==
    ASSUME NEW tree, NEW leaves, IsTree(tree, leaves),
           \A j \in 1..Len(leaves) : \E x : leaves[j] = HashLeaf(x)
    PROVE  \A m \in 0..Len(tree) - 1 : \A j \in 1..Len(tree[m + 1]) :
               \E k \in 0..m : /\ LeftDepth(tree[m + 1][j], k)
                               /\ j < Len(tree[m + 1]) => k = m
<1> DEFINE N == Len(tree)
           Deep(m, j) == \E k \in 0..m : /\ LeftDepth(tree[m + 1][j], k)
                                         /\ j < Len(tree[m + 1]) => k = m
           T == {m \in Nat : \A j \in 1..Len(tree[m + 1]) : Deep(m, j)}
<1>1. /\ N \in Nat /\ N >= 1 /\ N - 1 \in Nat /\ tree[1] = leaves
      /\ \A l \in 1..N : IsSeq(tree[l])
      /\ \A l \in 1..N - 1 : tree[l + 1] = Parents(tree[l])
  <2>1. N \in Nat /\ N >= 1
    BY SMT DEF IsTree, IsSeq
  <2>2. N - 1 \in Nat
    BY <2>1, SMT
  <2> QED BY <2>1, <2>2 DEF IsTree
<1> HIDE DEF N
<1>2. 0 \in T
  <2>1. 0 \in Nat /\ 0 + 1 = 1 /\ 0 \in 0..0
    BY SMT
  <2>2. ASSUME NEW j \in 1..Len(leaves) PROVE Deep(0, j)
    <3>1. LeftDepth(leaves[j], 0)
      BY DepthUp
    <3> QED BY <1>1, <2>1, <3>1
  <2> QED BY <1>1, <2>1, <2>2
<1>3. ASSUME NEW m \in 0..(N - 1) - 1, m \in T PROVE m + 1 \in T
  <2> DEFINE nodes == tree[m + 1]
             up == tree[(m + 1) + 1]
             k == Len(nodes)
  <2>1. m \in Nat /\ m + 1 \in Nat /\ m + 1 \in 1..N - 1 /\ m + 1 \in 1..N /\ m \in 0..m
        /\ m + 1 \in 0..m + 1 /\ \A d \in 0..m : d \in 0..m + 1 /\ d \in Nat
    BY <1>1, SMT
  <2>2. up = Parents(nodes) /\ IsSeq(nodes)
    BY <1>1, <2>1
  <2>3. k \in Nat
    BY <2>2, SMT DEF IsSeq
  <2>4. Len(up) = (k + 1) \div 2
    BY <2>2, ParentsLength
  <2>5. \A j \in 1..(k + 1) \div 2 :
           up[j] = IF 2 * j <= k THEN HashNode(nodes[2 * j - 1], nodes[2 * j])
                   ELSE nodes[2 * j - 1]
    BY <2>2 DEF Parents
  <2>6. \A j \in 1..k : \E d \in 0..m : LeftDepth(nodes[j], d) /\ (j < k => d = m)
    BY <1>3
  <2> HIDE DEF nodes, k, up
  <2>7. ASSUME NEW j \in 1..(k + 1) \div 2
        PROVE  \E d \in 0..m + 1 : /\ LeftDepth(up[j], d)
                                   /\ j < (k + 1) \div 2 => d = m + 1
    <3>1. 2 * j - 1 \in 1..k /\ (2 * j <= k => 2 * j - 1 < k)
          /\ (j < (k + 1) \div 2 => 2 * j <= k)
      BY <2>3, SMT
    <3>2. PICK d \in 0..m : /\ LeftDepth(nodes[2 * j - 1], d)
                            /\ 2 * j - 1 < k => d = m
      BY <2>6, <3>1
    <3>3. CASE 2 * j <= k
      <4>1. LeftDepth(up[j], m + 1)
        BY <2>1, <2>5, <3>1, <3>2, <3>3, DepthUp
      <4> QED BY <2>1, <4>1
    <3>4. CASE ~ (2 * j <= k)
      <4>1. up[j] = nodes[2 * j - 1]
        BY <2>5, <3>4
      <4> QED BY <2>1, <3>1, <3>2, <3>4, <4>1
    <3> QED BY <3>3, <3>4
  <2>8. \A j \in 1..Len(up) : Deep(m + 1, j)
    BY <2>4, <2>7 DEF up
  <2> QED BY <2>1, <2>8 DEF up
<1> HIDE DEF T
<1>4. \A m \in 0..N - 1 : m \in T
  BY <1>1, <1>2, <1>3, Induction
<1> QED BY <1>4 DEF T, N

\* The root of a tree is as deep to the left as the tree has levels.
LEMMA RootDepth ==
    ASSUME NEW tree, NEW leaves, IsTree(tree, leaves), leaves # <<>>,
           \A j \in 1..Len(leaves) : \E x : leaves[j] = HashLeaf(x)
    PROVE  LeftDepth(Root(tree), Len(tree) - 1)
<1> DEFINE N == Len(tree)
<1>1. Root(tree) = tree[N][1] /\ Len(tree[N]) = 1
  BY RootIsTop DEF IsTree
<1>2. N \in Nat /\ N >= 1
  BY SMT DEF IsTree, IsSeq
<1>3. CASE N = 1
  <2>1. tree[1] = leaves /\ Len(leaves) = 1
    BY <1>1, <1>3 DEF IsTree
  <2>2. 1 \in 1..Len(leaves) /\ N - 1 = 0
    BY <1>3, <2>1, SMT
  <2> QED BY <1>1, <1>3, <2>1, <2>2, DepthUp
<1>4. CASE N # 1
  <2> HIDE DEF N
  <2> DEFINE nodes == tree[N - 1]
             k == Len(nodes)
  <2>1. /\ N - 1 \in 1..N - 1 /\ N - 1 \in 1..N /\ (N - 1) + 1 = N
        /\ N - 2 \in 0..N - 1 /\ N - 2 \in Nat /\ (N - 2) + 1 = N - 1
    BY <1>2, <1>4, SMT
  <2>2. k > 1 /\ tree[N] = Parents(nodes) /\ IsSeq(nodes)
    BY <2>1 DEF IsTree, N
  <2>3. k \in Nat
    BY <2>2, SMT DEF IsSeq
  <2>4. \A j \in 1..k : \E d \in 0..N - 2 : LeftDepth(nodes[j], d) /\ (j < k => d = N - 2)
    BY <2>1, LevelDepths DEF N
  <2>5. tree[N][1] = HashNode(nodes[1], nodes[2])
    <3> HIDE DEF k
    <3>1. 1 \in 1..(k + 1) \div 2 /\ 2 * 1 <= k /\ 2 * 1 - 1 = 1 /\ 2 * 1 = 2
      BY <2>2, <2>3, SMT
    <3> QED BY <2>2, <3>1 DEF Parents, k
  <2> HIDE DEF nodes, k
  <2>6. 1 \in 1..k /\ 1 < k
    BY <2>2, <2>3, SMT
  <2>7. LeftDepth(nodes[1], N - 2)
    BY <2>4, <2>6
  <2>8. LeftDepth(HashNode(nodes[1], nodes[2]), (N - 2) + 1)
    BY <2>1, <2>7, DepthUp
  <2>9. LeftDepth(Root(tree), N - 1)
    BY <1>1, <2>1, <2>5, <2>8
  <2> QED BY <2>9 DEF N
<1> QED BY <1>3, <1>4

\* A level determines the one below, when in both a digest that is not the last
\* is m deep to the left and none is deeper.
LEMMA ParentsInjective ==
    ASSUME NEW a, NEW b, IsSeq(a), IsSeq(b), NEW m \in Nat, Parents(a) = Parents(b),
           \A j \in 1..Len(a) : \E d \in 0..m : LeftDepth(a[j], d) /\ (j < Len(a) => d = m),
           \A j \in 1..Len(b) : \E d \in 0..m : LeftDepth(b[j], d) /\ (j < Len(b) => d = m)
    PROVE  a = b
<1> DEFINE k == Len(a)
           n == Len(b)
           p == Parents(a)
<1>1. k \in Nat /\ n \in Nat
  BY SMT DEF IsSeq
<1>2. (k + 1) \div 2 = (n + 1) \div 2
  BY ParentsLength
<1>3. /\ \A i \in 1..(k + 1) \div 2 :
           p[i] = IF 2 * i <= k THEN HashNode(a[2 * i - 1], a[2 * i]) ELSE a[2 * i - 1]
      /\ \A i \in 1..(n + 1) \div 2 :
           p[i] = IF 2 * i <= n THEN HashNode(b[2 * i - 1], b[2 * i]) ELSE b[2 * i - 1]
  BY DEF Parents
<1>4. m + 1 \in Nat /\ \A d \in 0..m : d \in Nat /\ d # m + 1
  BY SMT
<1> HIDE DEF k, n, p
<1>5. ASSUME NEW i \in 1..(k + 1) \div 2
      PROVE  /\ 2 * i <= k <=> 2 * i <= n
             /\ a[2 * i - 1] = b[2 * i - 1]
             /\ 2 * i <= k => a[2 * i] = b[2 * i]
  <2>1. /\ i \in 1..(n + 1) \div 2 /\ 2 * i - 1 \in 1..k /\ 2 * i - 1 \in 1..n
        /\ 2 * i <= k => 2 * i - 1 < k
        /\ 2 * i <= n => 2 * i - 1 < n
    BY <1>1, <1>2, SMT
  <2>2. PICK d \in 0..m : LeftDepth(a[2 * i - 1], d) /\ (2 * i - 1 < k => d = m)
    BY <2>1 DEF k
  <2>3. PICK e \in 0..m : LeftDepth(b[2 * i - 1], e) /\ (2 * i - 1 < n => e = m)
    BY <2>1 DEF n
  <2>4. CASE 2 * i <= k /\ 2 * i <= n
    <3>1. HashNode(a[2 * i - 1], a[2 * i]) = HashNode(b[2 * i - 1], b[2 * i])
      BY <1>3, <2>1, <2>4
    <3>2. a[2 * i - 1] = b[2 * i - 1] /\ a[2 * i] = b[2 * i]
      BY <3>1, Digests, SMT
    <3> QED BY <2>4, <3>2
  <2>5. CASE ~ (2 * i <= k) /\ ~ (2 * i <= n)
    BY <1>3, <2>1, <2>5
  <2>6. CASE 2 * i <= k /\ ~ (2 * i <= n)
    <3>1. HashNode(a[2 * i - 1], a[2 * i]) = b[2 * i - 1]
      BY <1>3, <2>1, <2>6
    <3>2. LeftDepth(HashNode(a[2 * i - 1], a[2 * i]), m + 1)
      BY <2>1, <2>2, <2>6, DepthUp
    <3>3. LeftDepth(b[2 * i - 1], m + 1)
      BY <3>1, <3>2
    <3>4. e = m + 1
      BY <1>4, <2>3, <3>3, DepthUnique
    <3> QED BY <1>4, <3>4
  <2>7. CASE ~ (2 * i <= k) /\ 2 * i <= n
    <3>1. HashNode(b[2 * i - 1], b[2 * i]) = a[2 * i - 1]
      BY <1>3, <2>1, <2>7
    <3>2. LeftDepth(HashNode(b[2 * i - 1], b[2 * i]), m + 1)
      BY <2>1, <2>3, <2>7, DepthUp
    <3>3. LeftDepth(a[2 * i - 1], m + 1)
      BY <3>1, <3>2
    <3>4. d = m + 1
      BY <1>4, <2>2, <3>3, DepthUnique
    <3> QED BY <1>4, <3>4
  <2> QED BY <2>4, <2>5, <2>6, <2>7
<1>6. k = n
  <2>1. CASE k = 0
    BY <1>1, <1>2, <2>1, SMT
  <2>2. CASE k # 0
    <3>1. (k + 1) \div 2 \in 1..(k + 1) \div 2
      BY <1>1, <2>2, SMT
    <3>2. 2 * ((k + 1) \div 2) <= k <=> 2 * ((k + 1) \div 2) <= n
      BY <1>5, <3>1
    <3> QED BY <1>1, <1>2, <3>2, SMT
  <2> QED BY <2>1, <2>2
<1>7. ASSUME NEW j \in 1..k PROVE a[j] = b[j]
  <2>1. PICK i \in 1..(k + 1) \div 2 : j = 2 * i - 1 \/ (j = 2 * i /\ 2 * i <= k)
    <3>1. /\ (j + 1) \div 2 \in 1..(k + 1) \div 2
          /\ \/ j = 2 * ((j + 1) \div 2) - 1
             \/ j = 2 * ((j + 1) \div 2) /\ 2 * ((j + 1) \div 2) <= k
      BY <1>1, SMT
    <3> QED BY <3>1
  <2> QED BY <1>5, <2>1
<1> QED BY <1>6, <1>7, SameSeq DEF k, n

\* A tree with leaves has another root than one without.
LEMMA RootOfSome ==
    ASSUME NEW tree, NEW leaves, IsTree(tree, leaves), leaves # <<>>,
           \A j \in 1..Len(leaves) : \E x : leaves[j] = HashLeaf(x)
    PROVE  Root(tree) # EmptyRoot
<1>1. LeftDepth(Root(tree), Len(tree) - 1)
  BY RootDepth
<1>2. Len(tree) - 1 \in Nat
  BY SMT DEF IsTree, IsSeq
<1>3. (\E x : Root(tree) = HashLeaf(x)) \/ (\E a, b : Root(tree) = HashNode(a, b))
  BY <1>1, <1>2, DepthDown, SMT
<1> QED BY <1>3, Digests

\* Trees with the same root have the same leaves.
LEMMA RootsAgree ==
    ASSUME NEW s, NEW l, IsTree(s, l), l # <<>>,
           \A j \in 1..Len(l) : \E x : l[j] = HashLeaf(x),
           NEW t, NEW r, IsTree(t, r), r # <<>>,
           \A j \in 1..Len(r) : \E x : r[j] = HashLeaf(x),
           Root(s) = Root(t)
    PROVE  l = r
<1> DEFINE N == Len(s)
           M == Len(t)
           T == {k \in Nat : s[N - k] = t[N - k]}
<1>1. N \in Nat /\ N >= 1 /\ M \in Nat /\ M >= 1
  BY SMT DEF IsTree, IsSeq
<1>2. LeftDepth(Root(s), N - 1) /\ LeftDepth(Root(t), M - 1)
  BY RootDepth
<1>3. /\ \A m \in 0..N - 1 : \A j \in 1..Len(s[m + 1]) :
            \E d \in 0..m : LeftDepth(s[m + 1][j], d) /\ (j < Len(s[m + 1]) => d = m)
      /\ \A m \in 0..M - 1 : \A j \in 1..Len(t[m + 1]) :
            \E d \in 0..m : LeftDepth(t[m + 1][j], d) /\ (j < Len(t[m + 1]) => d = m)
  BY LevelDepths
<1>4. /\ s[1] = l /\ (\A i \in 1..N : IsSeq(s[i]))
      /\ \A i \in 1..N - 1 : s[i + 1] = Parents(s[i])
      /\ Len(s[N]) = 1 /\ Root(s) = s[N][1]
  BY RootIsTop DEF IsTree
<1>5. /\ t[1] = r /\ (\A i \in 1..M : IsSeq(t[i]))
      /\ \A i \in 1..M - 1 : t[i + 1] = Parents(t[i])
      /\ Len(t[M]) = 1 /\ Root(t) = t[M][1]
  BY RootIsTop DEF IsTree
<1> HIDE DEF N, M
<1>6. M = N
  <2>1. N - 1 \in Nat /\ M - 1 \in Nat
    BY <1>1, SMT
  <2>2. N - 1 = M - 1
    BY <1>2, <2>1, DepthUnique
  <2> QED BY <1>1, <2>2, SMT
<1>7. 0 \in T
  <2>1. N \in 1..N /\ N - 0 = N /\ 0 \in Nat
    BY <1>1, SMT
  <2>2. s[N][1] = t[N][1] /\ Len(s[N]) = 1 /\ Len(t[N]) = 1 /\ IsSeq(s[N]) /\ IsSeq(t[N])
    BY <1>4, <1>5, <1>6, <2>1
  <2>3. \A i \in 1..1 : i = 1
    BY SMT
  <2>4. s[N] = t[N]
    BY <2>2, <2>3, SameSeq
  <2> QED BY <2>1, <2>4
<1>8. ASSUME NEW k \in 0..(N - 1) - 1, k \in T PROVE k + 1 \in T
  <2> DEFINE m == N - (k + 1)
  <2>1. /\ m \in 1..N - 1 /\ m \in 1..N /\ m + 1 = N - k /\ k + 1 \in Nat
        /\ m - 1 \in 0..N - 1 /\ m - 1 \in Nat /\ (m - 1) + 1 = m
    BY <1>1, SMT
  <2> HIDE DEF m
  <2>2. s[m + 1] = t[m + 1]
    BY <1>8, <2>1
  <2>3. Parents(s[m]) = Parents(t[m]) /\ IsSeq(s[m]) /\ IsSeq(t[m])
    BY <1>4, <1>5, <1>6, <2>1, <2>2
  <2>4. /\ \A j \in 1..Len(s[m]) :
             \E d \in 0..m - 1 : LeftDepth(s[m][j], d) /\ (j < Len(s[m]) => d = m - 1)
        /\ \A j \in 1..Len(t[m]) :
             \E d \in 0..m - 1 : LeftDepth(t[m][j], d) /\ (j < Len(t[m]) => d = m - 1)
    BY <1>3, <1>6, <2>1
  <2>5. s[m] = t[m]
    BY <2>1, <2>3, <2>4, ParentsInjective
  <2> QED BY <2>1, <2>5 DEF m
<1> HIDE DEF T
<1>9. N - 1 \in Nat /\ N - 1 \in 0..N - 1 /\ N - (N - 1) = 1
  BY <1>1, SMT
<1>10. N - 1 \in T
  BY <1>7, <1>8, <1>9, Induction
<1>11. s[1] = t[1]
  BY <1>9, <1>10 DEF T
<1> QED BY <1>4, <1>5, <1>11

\* A root commits to the data behind it, to how many there are, to each of them
\* and to their order: merkle_root of a header determines the attestations of its
\* block, and the root of a checkpoint its blocks (MerkleTree::build and root).
THEOREM RootsCommit ==
    ASSUME NEW X, NEW d1 \in Seq(X), NEW d2 \in Seq(X), RootOf(d1) = RootOf(d2)
    PROVE  d1 = d2
<1> DEFINE LeavesIn(d) == [i \in DOMAIN d |-> HashLeaf(d[i])]
           l1 == LeavesIn(d1)
           l2 == LeavesIn(d2)
           t1 == TreeOf(d1)
           t2 == TreeOf(d2)
<1>1. /\ Len(l1) = Len(d1) /\ IsTree(t1, l1)
      /\ \A i \in 1..Len(d1) : l1[i] = HashLeaf(d1[i])
  BY LeavesOf
<1>2. /\ Len(l2) = Len(d2) /\ IsTree(t2, l2)
      /\ \A i \in 1..Len(d2) : l2[i] = HashLeaf(d2[i])
  BY LeavesOf
<1>3. Root(t1) = Root(t2)
  BY DEF RootOf
<1> HIDE DEF l1, l2, t1, t2
<1>4. /\ d1 = <<>> <=> l1 = <<>>
      /\ d2 = <<>> <=> l2 = <<>>
      /\ \A j \in 1..Len(l1) : \E x : l1[j] = HashLeaf(x)
      /\ \A j \in 1..Len(l2) : \E x : l2[j] = HashLeaf(x)
  <2>1. d1 = <<>> <=> l1 = <<>>
    BY <1>1, SMT DEF IsTree, IsSeq
  <2>2. d2 = <<>> <=> l2 = <<>>
    BY <1>2, SMT DEF IsTree, IsSeq
  <2> QED BY <1>1, <1>2, <2>1, <2>2
<1>5. CASE d1 = <<>> \/ d2 = <<>>
  <2>1. d1 = <<>> => Root(t1) = EmptyRoot
    BY <1>1, <1>4, RootOfNothing
  <2>2. d2 = <<>> => Root(t2) = EmptyRoot
    BY <1>2, <1>4, RootOfNothing
  <2>3. d1 # <<>> => Root(t1) # EmptyRoot
    BY <1>1, <1>4, RootOfSome
  <2>4. d2 # <<>> => Root(t2) # EmptyRoot
    BY <1>2, <1>4, RootOfSome
  <2> QED BY <1>3, <1>5, <2>1, <2>2, <2>3, <2>4
<1>6. CASE d1 # <<>> /\ d2 # <<>>
  <2>1. l1 = l2
    BY <1>1, <1>2, <1>3, <1>4, <1>6, RootsAgree
  <2>2. Len(d1) = Len(d2)
    BY <1>1, <1>2, <2>1
  <2>3. ASSUME NEW i \in 1..Len(d1) PROVE d1[i] = d2[i]
    BY <1>1, <1>2, <2>1, <2>2, Digests
  <2> QED BY <2>2, <2>3, SeqEqual
<1> QED BY <1>5, <1>6
=============================================================================
