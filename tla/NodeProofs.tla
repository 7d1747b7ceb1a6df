----------------------------- MODULE NodeProofs -----------------------------
(***************************************************************************)
(* Proofs on NodeProcess, for any deployments, licenses, window length,    *)
(* file faults and bounds: the identity a node starts with, the license it *)
(* starts on, and the volume it takes.                                     *)
(***************************************************************************)
EXTENDS NodeProcess, FiniteSetTheorems, TLAPS

\* Zenon proves a step that names no other prover.
USE Zenon

-----------------------------------------------------------------------------
(***************************************************************************)
(* Why the identity is kept.  From the moment bootstrap has a key until it *)
(* has a genesis the key is the one in the keystore; a configuration that  *)
(* parses holds the genesis of the genesis file; and a keystore or genesis *)
(* file that parses is never written again.                                *)
(***************************************************************************)
IdentityInv ==
    /\ stops \in Nat
    /\ pc \in {"genesis", "config"} => Parses(keystore) /\ pk = keystore
    /\ Parses(configFile) => Parses(genesisFile) /\ configFile.genesis = genesisFile
    /\ Parses(genesisFile) /\ genesisFile # GivenGenesis =>
          Parses(keystore) /\ genesisFile.validators = {keystore}
    /\ \A r \in runs : /\ Parses(keystore) /\ r.key = keystore
                       /\ Parses(genesisFile) /\ r.genesis = genesisFile

\* A new key parses when it is read again.
LEMMA FreshKeyParses == ASSUME stops \in Nat PROVE Parses(FreshKey)
BY FilesAssumption, SMT DEF Parses, FreshKey

\* The genesis that bootstrap makes itself names the key the process holds.
LEMMA OwnGenesis ==
    ASSUME NEW g \in NewGenesis, Parses(g), g # GivenGenesis
    PROVE  g.validators = {pk}
BY SMT DEF NewGenesis, Parses

\* A write leaves the old contents, the new ones or a file that does not parse.
LEMMA WriteResults ==
    ASSUME NEW old, NEW new
    PROVE  /\ \A f \in Written(old, new) : f \in {old, new, Torn}
           /\ \A f \in CutShort(old, new) : f \in {old, new, Torn}
BY DEF Written, CutShort

\* The initial states satisfy IdentityInv.
LEMMA IdentityInit == Init => IdentityInv
BY FilesAssumption, SMT DEF Init, BootInit, IdentityInv, Parses

\* Each step of bootstrap preserves it.
LEMMA IdentityBootstrapping ==
    ASSUME IdentityInv, Bootstrapping
    PROVE  IdentityInv'
<1> USE DEF IdentityInv
<1>0. UNCHANGED runs
  BY DEF Bootstrapping
<1>1. CASE Start
  BY <1>0, <1>1 DEF Start, Parses, Exists
<1>2. CASE OpenKeystore
  <2>1. CASE LoadKeystore
    <3>1. pc' \in {"genesis", "config"} => Parses(keystore) /\ pk' = keystore
      BY <2>1 DEF LoadKeystore, Read, Parses
    <3>2. UNCHANGED <<keystore, genesisFile, configFile, stops>>
      BY <1>2, <2>1 DEF OpenKeystore, LoadKeystore
    <3> QED BY <1>0, <3>1, <3>2 DEF Parses
  <2>2. CASE ~Exists(keystore) /\ MakeKeystore
    <3>1. ~Parses(keystore)
      BY <2>2 DEF Exists, Parses
    <3>2. runs = {} /\ ~(Parses(genesisFile) /\ genesisFile # GivenGenesis)
      BY <3>1
    <3>3. pc' \in {"genesis", "config"} => Parses(keystore') /\ pk' = keystore'
      BY <2>2, FreshKeyParses DEF MakeKeystore
    <3>4. UNCHANGED <<genesisFile, configFile, stops>>
      BY <1>2 DEF OpenKeystore
    <3> QED BY <1>0, <3>2, <3>3, <3>4 DEF Parses
  <2> QED BY <1>2, <2>1, <2>2 DEF OpenKeystore
<1>3. CASE ResolveGenesis
  <2>1. CASE Exists(genesisFile)
    BY <1>0, <1>3, <2>1 DEF ResolveGenesis, Parses
  <2>2. CASE ~Exists(genesisFile)
    <3>1. PICK g \in NewGenesis : genesisFile' \in Written(genesisFile, g)
      BY <1>3, <2>2 DEF ResolveGenesis
    <3>2. ~Parses(genesisFile)
      BY <2>2 DEF Exists, Parses
    <3>3. runs = {} /\ ~Parses(configFile)
      BY <3>2
    <3>4. UNCHANGED <<keystore, configFile, stops>> /\ Parses(keystore) /\ pk = keystore
      BY <1>3 DEF ResolveGenesis
    <3>5. Parses(genesisFile') => genesisFile' = g
      BY <3>1, <3>2, WriteResults DEF Parses
    <3>6. Parses(genesisFile') /\ genesisFile' # GivenGenesis => genesisFile'.validators = {keystore}
      BY <3>4, <3>5, OwnGenesis
    <3>7. pc' \in {"genesis", "config"} => pk' = pk
      BY <1>3 DEF ResolveGenesis
    <3> QED BY <1>0, <3>3, <3>4, <3>6, <3>7 DEF Parses
  <2> QED BY <2>1, <2>2
<1>4. CASE FetchFails
  BY <1>0, <1>4 DEF FetchFails, Parses
<1>5. CASE WriteConfig
  <2>1. CASE Parses(genesisFile) /\ configFile' \in Written(configFile, NewConfig)
    <3>1. configFile' \in {configFile, NewConfig, Torn}
      BY <2>1, WriteResults
    <3>2. Parses(configFile') => configFile'.genesis = genesisFile
      BY <3>1, SMT DEF NewConfig, Parses
    <3>3. UNCHANGED <<keystore, genesisFile, stops>> /\ pc' \notin {"genesis", "config"}
      BY <1>5 DEF WriteConfig
    <3> QED BY <1>0, <2>1, <3>2, <3>3 DEF Parses
  <2>2. CASE UNCHANGED configFile
    BY <1>0, <1>5, <2>2 DEF WriteConfig, Parses
  <2> QED BY <1>5, <2>1, <2>2 DEF WriteConfig
<1>6. CASE RunFails
  BY <1>0, <1>6 DEF RunFails, Parses
<1> QED BY <1>1, <1>2, <1>3, <1>4, <1>5, <1>6 DEF Bootstrapping

\* A stop in the middle of a write preserves it too.
LEMMA IdentityCrash ==
    ASSUME IdentityInv, Crash
    PROVE  IdentityInv'
<1> USE DEF IdentityInv
<1>1. PICK e \in Deployments : Stop(e)
  BY DEF Crash
<1>2. UNCHANGED runs /\ pc' = "down" /\ stops' \in Nat
  BY <1>1, SMT DEF Crash, Stop
<1>3. ~Exists(keystore) \/ keystore' = keystore
  BY <1>1 DEF Stop
<1>4. \/ genesisFile' = genesisFile
      \/ /\ pc = "genesis" /\ ~Exists(genesisFile)
         /\ \E g \in NewGenesis : genesisFile' \in CutShort(genesisFile, g)
  BY <1>1 DEF Stop
<1>5. \/ configFile' = configFile
      \/ Parses(genesisFile) /\ configFile' \in CutShort(configFile, NewConfig)
  BY <1>1 DEF Stop
<1>6. Parses(keystore) => keystore' = keystore
  BY <1>3 DEF Parses, Exists
<1>7. Parses(genesisFile) => genesisFile' = genesisFile
  BY <1>4 DEF Parses, Exists
<1>8. Parses(configFile') => Parses(genesisFile') /\ configFile'.genesis = genesisFile'
  <2>1. CASE configFile' = configFile
    BY <1>7, <2>1
  <2>2. CASE Parses(genesisFile) /\ configFile' \in CutShort(configFile, NewConfig)
    <3>1. configFile' \in {configFile, NewConfig, Torn}
      BY <2>2, WriteResults
    <3> QED BY <1>7, <2>2, <3>1, SMT DEF NewConfig, Parses
  <2> QED BY <1>5, <2>1, <2>2
<1>9. Parses(genesisFile') /\ genesisFile' # GivenGenesis =>
          Parses(keystore') /\ genesisFile'.validators = {keystore'}
  <2>1. CASE genesisFile' = genesisFile
    BY <1>6, <2>1
  <2>2. CASE /\ pc = "genesis" /\ ~Exists(genesisFile)
             /\ \E g \in NewGenesis : genesisFile' \in CutShort(genesisFile, g)
    <3>1. PICK g \in NewGenesis : genesisFile' \in CutShort(genesisFile, g)
      BY <2>2
    <3>2. Parses(genesisFile') => genesisFile' = g
      BY <2>2, <3>1, WriteResults DEF Parses, Exists
    <3>3. Parses(keystore) /\ pk = keystore
      BY <2>2
    <3> QED BY <1>6, <3>2, <3>3, OwnGenesis
  <2> QED BY <1>4, <2>1, <2>2
<1> QED BY <1>2, <1>6, <1>7, <1>8, <1>9

\* Every step preserves IdentityInv.
LEMMA IdentityNext ==
    ASSUME IdentityInv, [Next]_vars
    PROVE  IdentityInv'
<1>1. CASE Bootstrapping
  BY <1>1, IdentityBootstrapping
<1>2. CASE ComeUp
  BY <1>2, SMT DEF ComeUp, Run, MayRun, IdentityInv, Parses
<1>3. CASE Crash
  BY <1>3, IdentityCrash
<1>4. CASE UNCHANGED <<pc, keystore, genesisFile, configFile, pk, stops, runs>>
  BY <1>4 DEF IdentityInv, Parses
<1>5. Submit \/ SubmitRefused \/ ClockTick \/ UNCHANGED vars =>
          UNCHANGED <<pc, keystore, genesisFile, configFile, pk, stops, runs>>
  BY DEF Submit, SubmitRefused, ClockTick, vars, bootVars
<1>6. IssueLicense \/ ChangeLicense =>
          UNCHANGED <<pc, keystore, genesisFile, configFile, pk, stops, runs>>
  BY DEF IssueLicense, ChangeLicense, InstallLicense, EditLicense
<1> QED BY <1>1, <1>2, <1>3, <1>4, <1>5, <1>6 DEF Next

\* So it always holds.
LEMMA IdentityInvariant == Spec => []IdentityInv
<1>1. IdentityInv /\ [Next]_vars => IdentityInv'
  BY IdentityNext
<1> QED BY <1>1, IdentityInit, PTL DEF Spec

\* All successful starts of a node are with one key and one genesis, whatever is
\* cut short and however the environment changes (bootstrap, "generate once").
THEOREM SameIdentityHolds == Spec => []SameIdentity
<1>1. IdentityInv => SameIdentity
  BY DEF IdentityInv, SameIdentity
<1> QED BY <1>1, IdentityInvariant, PTL

\* A node on a chain that bootstrap made is the validator of that chain.
THEOREM OwnChainHolds == Spec => []OwnChainIsItsOwn
<1>1. IdentityInv => OwnChainIsItsOwn
  BY DEF IdentityInv, OwnChainIsItsOwn
<1> QED BY <1>1, IdentityInvariant, PTL

-----------------------------------------------------------------------------
(***************************************************************************)
(* The license.  Whatever file is put in place, a body that SmartLedger's  *)
(* signature in it covers is one that SmartLedger has signed.              *)
(***************************************************************************)
LicenseInv ==
    Parses(licenseFile) =>
        /\ licenseFile = [license |-> licenseFile.license, issuer |-> licenseFile.issuer,
                          signature |-> licenseFile.signature]
        /\ \A body : licenseFile.signature = <<SmartLedger, body>> => body \in issued

\* Issuing a license or changing its file preserves LicenseInv, and nothing else
\* touches it.
LEMMA LicenseNext ==
    ASSUME LicenseInv, [Next]_vars
    PROVE  LicenseInv'
<1>1. CASE IssueLicense
  <2>1. PICK offer \in Offers :
          /\ licenseFile' = Issue(offer.issuer, offer, now)
          /\ issued' = issued \cup
                (IF offer.issuer = SmartLedger THEN {licenseFile'.license} ELSE {})
    BY <1>1 DEF IssueLicense, InstallLicense
  <2>2. licenseFile' = [license |-> licenseFile'.license, issuer |-> offer.issuer,
                        signature |-> <<offer.issuer, licenseFile'.license>>]
    BY <2>1 DEF Issue
  <2>3. \A body : <<offer.issuer, licenseFile'.license>> = <<SmartLedger, body>> =>
            body = licenseFile'.license /\ offer.issuer = SmartLedger
    OBVIOUS
  <2> QED BY <2>1, <2>2, <2>3, SMT DEF LicenseInv
<1>2. CASE ChangeLicense
  <2>1. PICK offer \in Offers :
          Parses(licenseFile) /\ licenseFile' = [licenseFile EXCEPT !.license.cap = offer.cap]
    BY <1>2 DEF ChangeLicense, EditLicense
  <2>2. licenseFile' = [license |-> licenseFile'.license, issuer |-> licenseFile.issuer,
                        signature |-> licenseFile.signature]
    BY <2>1 DEF LicenseInv
  <2> QED BY <1>2, <2>1, <2>2 DEF LicenseInv, ChangeLicense
<1>3. CASE UNCHANGED <<licenseFile, issued>>
  BY <1>3 DEF LicenseInv, Parses
<1>4. Bootstrapping => UNCHANGED <<licenseFile, issued>>
  BY DEF Bootstrapping, Start, OpenKeystore, ResolveGenesis, FetchFails, WriteConfig, RunFails
<1>5. ComeUp \/ Crash => UNCHANGED <<licenseFile, issued>>
  BY DEF ComeUp, Run, Crash, Stop
<1>6. Submit \/ SubmitRefused \/ ClockTick \/ UNCHANGED vars =>
          UNCHANGED <<licenseFile, issued>>
  BY DEF Submit, SubmitRefused, ClockTick, vars, bootVars
<1> QED BY <1>1, <1>2, <1>3, <1>4, <1>5, <1>6 DEF Next

\* So it always holds.
LEMMA LicenseInvariant == Spec => []LicenseInv
<1>1. Init => LicenseInv
  BY DEF Init, BootInit, LicenseInv, Parses
<1>2. LicenseInv /\ [Next]_vars => LicenseInv'
  BY LicenseNext
<1> QED BY <1>1, <1>2, PTL DEF Spec

\* A license that the gate of `run` accepts is a body SmartLedger has signed, for
\* this chain and this time.
LEMMA AcceptedIsIssued ==
    ASSUME LicenseInv, NEW issuerKey, NEW chain,
           LicenseAccepted(licenseFile, issuerKey, now, chain)
    PROVE  /\ licenseFile.license \in issued
           /\ licenseFile.license.chain \in {AnyChain, chain}
           /\ licenseFile.license.issuedAt <= now /\ now < licenseFile.license.expiresAt
BY DEF LicenseInv, LicenseAccepted, Verifies, Parses

\* A node configured with a license comes up only on a volume that SmartLedger
\* has granted its chain for the present time.
THEOREM RunsLicensedHolds == Spec => RunsLicensed
<1>1. LicenseInv /\ [Next]_vars =>
        [pc' = "up" /\ pc # "up" /\ configFile.licensed =>
            \E body \in issued :
                /\ body.cap = cap'
                /\ body.chain \in {AnyChain, configFile.genesis.chain}
                /\ body.issuedAt <= now /\ now < body.expiresAt]_vars
  <2> SUFFICES ASSUME LicenseInv, Next, pc' = "up", pc # "up", configFile.licensed
               PROVE  \E body \in issued :
                        /\ body.cap = cap'
                        /\ body.chain \in {AnyChain, configFile.genesis.chain}
                        /\ body.issuedAt <= now /\ now < body.expiresAt
    OBVIOUS
  <2>1. ~(Submit \/ SubmitRefused \/ ClockTick \/ IssueLicense \/ ChangeLicense)
    BY DEF Submit, SubmitRefused, ClockTick, IssueLicense, ChangeLicense,
           InstallLicense, EditLicense, bootVars
  <2>2. ~Crash
    BY DEF Crash, Stop
  <2>3. ~Bootstrapping
    BY DEF Bootstrapping, Start, OpenKeystore, LoadKeystore, MakeKeystore,
           ResolveGenesis, FetchFails, WriteConfig, RunFails
  <2>4. ComeUp
    BY <2>1, <2>2, <2>3 DEF Next
  <2>5. LicenseAccepted(licenseFile, configFile.issuerKey, now, configFile.genesis.chain)
        /\ cap' = licenseFile.license.cap
    BY <2>4 DEF ComeUp, Run, MayRun, MeterStart, LicensedCap
  <2> QED BY <2>5, AcceptedIsIssued
<1> QED BY <1>1, LicenseInvariant, PTL DEF Spec, RunsLicensed

-----------------------------------------------------------------------------
(***************************************************************************)
(* Counting in a sequence s of times: what comes at t or later, and what   *)
(* comes at t or later and before u.                                       *)
(***************************************************************************)
From(s, t) == {i \in DOMAIN s : t <= s[i]}
Within(s, t, u) == {i \in DOMAIN s : t <= s[i] /\ s[i] < u}

\* From is finite, and has a size.
LEMMA FromFinite ==
    ASSUME NEW s \in Seq(Nat), NEW t \in Int
    PROVE  IsFiniteSet(From(s, t)) /\ Cardinality(From(s, t)) \in Nat
<1>1. IsFiniteSet(1..Len(s))
  BY FS_Interval, SMT
<1>2. From(s, t) \subseteq 1..Len(s)
  BY SMT DEF From
<1> QED BY <1>1, <1>2, FS_Subset, FS_CardinalityType

\* Fewer come later.
LEMMA FromMonotone ==
    ASSUME NEW s \in Seq(Nat), NEW t \in Int, NEW u \in Int, t <= u
    PROVE  Cardinality(From(s, u)) <= Cardinality(From(s, t))
<1>1. From(s, u) \subseteq From(s, t)
  BY SMT DEF From
<1> QED BY <1>1, FromFinite, FS_Subset

\* One more entry is one more at most.
LEMMA FromAppend ==
    ASSUME NEW s \in Seq(Nat), NEW t \in Int, NEW n \in Nat
    PROVE  Cardinality(From(Append(s, n), t)) <= Cardinality(From(s, t)) + 1
<1> DEFINE S == From(s, t)
           x == Len(s) + 1
<1>1. From(Append(s, n), t) \subseteq S \cup {x}
  <2> SUFFICES ASSUME NEW i \in From(Append(s, n), t), i # x
               PROVE  i \in S
    OBVIOUS
  <2>1. i \in 1..Len(s) /\ Append(s, n)[i] = s[i] /\ t <= Append(s, n)[i]
    BY SMT DEF From
  <2> QED BY <2>1, SMT DEF From
<1>2. IsFiniteSet(S) /\ Cardinality(S) \in Nat
  BY FromFinite
<1>3. IsFiniteSet(S \cup {x}) /\ Cardinality(S \cup {x}) <= Cardinality(S) + 1
  <2> HIDE DEF S, x
  <2>1. /\ IsFiniteSet(S \cup {x})
        /\ Cardinality(S \cup {x}) = IF x \in S THEN Cardinality(S) ELSE Cardinality(S) + 1
    BY <1>2, FS_AddElement
  <2> QED BY <1>2, <2>1, SMT
<1>4. IsFiniteSet(From(Append(s, n), t)) /\ Cardinality(From(Append(s, n), t)) \in Nat
  <2>1. Append(s, n) \in Seq(Nat)
    BY SMT
  <2> QED BY <2>1, FromFinite
<1>5. Cardinality(From(Append(s, n), t)) <= Cardinality(S \cup {x})
  <2> HIDE DEF S, x
  <2> QED BY <1>1, <1>3, FS_Subset
<1>6. Cardinality(S \cup {x}) \in Nat
  <2> HIDE DEF S, x
  <2> QED BY <1>3, FS_CardinalityType
<1> HIDE DEF S, x
<1> QED BY <1>2, <1>3, <1>4, <1>5, <1>6, SMT DEF S

\* A stretch is part of what comes after its beginning.
LEMMA WithinFrom ==
    ASSUME NEW s \in Seq(Nat), NEW t \in Int, NEW u \in Int
    PROVE  /\ Cardinality(Within(s, t, u)) \in Nat
           /\ Cardinality(Within(s, t, u)) <= Cardinality(From(s, t))
<1>1. Within(s, t, u) \subseteq From(s, t)
  BY DEF Within, From
<1> QED BY <1>1, FromFinite, FS_Subset, FS_CardinalityType

\* What comes at n or later leaves a stretch that ends by n as it was.
LEMMA WithinAppend ==
    ASSUME NEW s \in Seq(Nat), NEW t \in Int, NEW u \in Int, NEW n \in Nat, u <= n
    PROVE  Within(Append(s, n), t, u) = Within(s, t, u)
BY SMT DEF Within

\* The products the bound is made of.
LEMMA Multiples ==
    ASSUME NEW G \in Nat, NEW r \in Nat
    PROVE  /\ G * r \in Nat
           /\ G * (1 + r) = G * r + G
           /\ G * (2 + r) = G * r + G + G
BY SMT

(***************************************************************************)
(* What a count c of the window that began at w says of the submissions s, *)
(* when at most G are allowed in a window and r starts have lost a count:  *)
(* nothing was accepted after the window, and what was accepted in it, and *)
(* in any stretch that overlaps with it, is counted, up to what the window *)
(* before and the lost counts allowed.  By the time n, a count as it       *)
(* should be is an Account.                                                *)
(***************************************************************************)
Covers(G, r, w, c, s) ==
    /\ \A i \in DOMAIN s : s[i] < w + WindowSecs
    /\ Cardinality(From(s, w)) <= c + G * r
    /\ \A t \in Int :
         t > w - WindowSecs => Cardinality(From(s, t)) <= c + G * (1 + r)

Account(G, r, w, c, s, n) == c <= G /\ w <= n /\ Covers(G, r, w, c, s)

\* A new window begins once the old one is over.
LEMMA AccountRoll ==
    ASSUME NEW G \in Nat, NEW r \in Nat, NEW w \in Nat, NEW c \in Nat,
           NEW s \in Seq(Nat), NEW n \in Nat,
           Account(G, r, w, c, s, n), n >= w + WindowSecs
    PROVE  Account(G, r, n, 0, s, n)
<1>1. From(s, n) = {}
  BY MeterAssumption, SMT DEF Account, Covers, From
<1>2. Cardinality(From(s, n)) = 0
  BY <1>1, FS_EmptySet
<1>3. ASSUME NEW t \in Int, t > n - WindowSecs
      PROVE  Cardinality(From(s, t)) <= 0 + G * (1 + r)
  <2>1. w <= t
    BY <1>3, MeterAssumption, SMT
  <2>2. Cardinality(From(s, t)) <= Cardinality(From(s, w))
    BY <2>1, FromMonotone, SMT
  <2>3. Cardinality(From(s, w)) \in Nat
    BY FromFinite, SMT
  <2>4. Cardinality(From(s, w)) <= c + G * r /\ c <= G
    BY DEF Account, Covers
  <2>5. Cardinality(From(s, t)) \in Nat
    BY FromFinite
  <2> QED BY <2>2, <2>3, <2>4, <2>5, Multiples, SMT
<1>4. \A i \in DOMAIN s : s[i] < n + WindowSecs
  BY MeterAssumption, SMT DEF Account, Covers
<1> QED BY <1>2, <1>3, <1>4, Multiples, SMT DEF Account, Covers

\* With nothing counted, the window may as well begin later.
LEMMA AccountFresh ==
    ASSUME NEW G \in Nat, NEW r \in Nat, NEW w \in Nat,
           NEW s \in Seq(Nat), NEW n \in Nat, Account(G, r, w, 0, s, n)
    PROVE  Account(G, r, n, 0, s, n)
<1>1. w <= n
  BY DEF Account, Covers
<1>2. Cardinality(From(s, n)) <= 0 + G * r
  <2>1. Cardinality(From(s, n)) <= Cardinality(From(s, w))
    BY <1>1, FromMonotone, SMT
  <2>2. Cardinality(From(s, w)) \in Nat /\ Cardinality(From(s, n)) \in Nat
    BY FromFinite, SMT
  <2> QED BY <2>1, <2>2, Multiples, SMT DEF Account, Covers
<1>3. \A t \in Int : t > n - WindowSecs => t > w - WindowSecs
  BY <1>1, MeterAssumption, SMT
<1>4. \A i \in DOMAIN s : s[i] < n + WindowSecs
  BY <1>1, MeterAssumption, SMT DEF Account, Covers
<1> QED BY <1>2, <1>3, <1>4, SMT DEF Account, Covers

\* A start that has lost the count is one more window's worth.
LEMMA AccountReset ==
    ASSUME NEW G \in Nat, NEW r \in Nat, NEW w \in Nat, NEW c \in Nat,
           NEW s \in Seq(Nat), NEW n \in Nat, Account(G, r, w, c, s, n),
           NEW w2 \in Nat, NEW c2 \in Nat, w <= w2, w2 <= n, c2 <= G
    PROVE  Account(G, r + 1, w2, c2, s, n)
<1>1. G * (r + 1) = G * r + G /\ G * (1 + (r + 1)) = G * (1 + r) + G
      /\ G * r \in Nat /\ G * (1 + r) \in Nat
  BY Multiples, SMT
<1>2. Cardinality(From(s, w2)) <= c2 + G * (r + 1)
  <2>1. Cardinality(From(s, w2)) <= Cardinality(From(s, w))
    BY FromMonotone, SMT
  <2>2. Cardinality(From(s, w)) \in Nat
    BY FromFinite, SMT
  <2>3. Cardinality(From(s, w2)) \in Nat
    <3>1. w2 \in Int
      BY SMT
    <3> QED BY <3>1, FromFinite
  <2> QED BY <1>1, <2>1, <2>2, <2>3, SMT DEF Account, Covers
<1>3. ASSUME NEW t \in Int, t > w2 - WindowSecs
      PROVE  Cardinality(From(s, t)) <= c2 + G * (1 + (r + 1))
  <2>1. t > w - WindowSecs
    BY <1>3, MeterAssumption, SMT
  <2>2. Cardinality(From(s, t)) <= c + G * (1 + r) /\ c <= G
    BY <2>1 DEF Account, Covers
  <2>3. Cardinality(From(s, t)) \in Nat
    BY FromFinite
  <2> QED BY <1>1, <2>2, <2>3, SMT
<1>4. \A i \in DOMAIN s : s[i] < w2 + WindowSecs
  BY MeterAssumption, SMT DEF Account, Covers
<1> QED BY <1>2, <1>3, <1>4 DEF Account, Covers

\* One more is accepted, and counted.
LEMMA CoversAccept ==
    ASSUME NEW G \in Nat, NEW r \in Nat, NEW w \in Nat, NEW c \in Nat,
           NEW s \in Seq(Nat), NEW n \in Nat, Covers(G, r, w, c, s),
           n < w + WindowSecs
    PROVE  Covers(G, r, w, c + 1, Append(s, n))
<1> DEFINE a == G * r
           b == G * (1 + r)
<1>1. a \in Nat /\ b \in Nat
  BY Multiples, SMT
<1>2. /\ Cardinality(From(s, w)) <= c + a
      /\ \A t \in Int : t > w - WindowSecs => Cardinality(From(s, t)) <= c + b
  BY DEF Covers
<1>3. \A i \in DOMAIN Append(s, n) : Append(s, n)[i] < w + WindowSecs
  BY MeterAssumption, SMT DEF Covers
<1> HIDE DEF a, b
<1>4. ASSUME NEW t \in Int
      PROVE  /\ Cardinality(From(s, t)) \in Nat
             /\ Cardinality(From(Append(s, n), t)) \in Nat
             /\ Cardinality(From(Append(s, n), t)) <= Cardinality(From(s, t)) + 1
  <2>1. Append(s, n) \in Seq(Nat)
    BY SMT
  <2>2. Cardinality(From(s, t)) \in Nat
    BY FromFinite
  <2>3. Cardinality(From(Append(s, n), t)) \in Nat
    BY <2>1, FromFinite
  <2> QED BY <2>2, <2>3, FromAppend
<1>5. Cardinality(From(Append(s, n), w)) <= (c + 1) + a
  <2> DEFINE d == Cardinality(From(s, w))
             e == Cardinality(From(Append(s, n), w))
  <2>1. d \in Nat /\ e \in Nat /\ e <= d + 1
    BY <1>4, SMT
  <2>2. d <= c + a
    BY <1>2
  <2> HIDE DEF d, e
  <2> QED BY <1>1, <2>1, <2>2, SMT DEF e
<1>6. ASSUME NEW t \in Int, t > w - WindowSecs
      PROVE  Cardinality(From(Append(s, n), t)) <= (c + 1) + b
  <2> DEFINE d == Cardinality(From(s, t))
             e == Cardinality(From(Append(s, n), t))
  <2>1. d \in Nat /\ e \in Nat /\ e <= d + 1
    BY <1>4
  <2>2. d <= c + b
    BY <1>2, <1>6
  <2> HIDE DEF d, e
  <2> QED BY <1>1, <2>1, <2>2, SMT DEF e
<1> QED BY <1>3, <1>5, <1>6 DEF Covers, a, b

\* It remains an account.
LEMMA AccountAccept ==
    ASSUME NEW G \in Nat, NEW r \in Nat, NEW w \in Nat, NEW c \in Nat,
           NEW s \in Seq(Nat), NEW n \in Nat, Account(G, r, w, c, s, n),
           n < w + WindowSecs, c + 1 <= G
    PROVE  Account(G, r, w, c + 1, Append(s, n), n)
<1>1. Covers(G, r, w, c + 1, Append(s, n))
  BY CoversAccept DEF Account
<1> QED BY <1>1 DEF Account

\* Counting more than was accepted does no harm.
LEMMA CoversMore ==
    ASSUME NEW G \in Nat, NEW r \in Nat, NEW w \in Nat, NEW c \in Nat, NEW k \in Nat,
           NEW s \in Seq(Nat), Covers(G, r, w, c, s)
    PROVE  Covers(G, r, w, c + k, s)
<1> DEFINE a == G * r
           b == G * (1 + r)
<1>1. a \in Nat /\ b \in Nat
  BY Multiples, SMT
<1>2. /\ Cardinality(From(s, w)) <= c + a
      /\ \A t \in Int : t > w - WindowSecs => Cardinality(From(s, t)) <= c + b
  BY DEF Covers
<1> HIDE DEF a, b
<1>3. \A t \in Int : Cardinality(From(s, t)) \in Nat
  BY FromFinite
<1>4. \A q \in Nat : (q <= c + a => q <= (c + k) + a) /\ (q <= c + b => q <= (c + k) + b)
  BY <1>1, SMT
<1>5. Cardinality(From(s, w)) <= (c + k) + a
  <2>1. Cardinality(From(s, w)) \in Nat
    BY <1>3, SMT
  <2> QED BY <1>2, <1>4, <2>1
<1>6. ASSUME NEW t \in Int, t > w - WindowSecs
      PROVE  Cardinality(From(s, t)) <= (c + k) + b
  BY <1>2, <1>3, <1>4, <1>6
<1> QED BY <1>5, <1>6 DEF Covers, a, b

\* A start that finds an old count in the file, with up to a window's worth
\* accepted since, is one more that has lost a count.
LEMMA CoversReset ==
    ASSUME NEW G \in Nat, NEW r \in Nat, NEW w \in Nat, NEW c \in Nat, NEW k \in Nat,
           NEW s \in Seq(Nat), NEW n \in Nat, Covers(G, r, w, c + k, s),
           c <= G, k <= G, w <= n
    PROVE  Account(G, r + 1, w, c, s, n)
<1> DEFINE a == G * r
           b == G * (1 + r)
<1>1. a \in Nat /\ b \in Nat /\ G * (r + 1) = a + G /\ G * (1 + (r + 1)) = b + G
  BY Multiples, SMT
<1>2. /\ Cardinality(From(s, w)) <= (c + k) + a
      /\ \A t \in Int : t > w - WindowSecs => Cardinality(From(s, t)) <= (c + k) + b
  BY DEF Covers
<1> HIDE DEF a, b
<1>3. \A t \in Int : Cardinality(From(s, t)) \in Nat
  BY FromFinite
<1>4. \A q \in Nat : /\ q <= (c + k) + a => q <= c + (a + G)
                     /\ q <= (c + k) + b => q <= c + (b + G)
  BY <1>1, SMT
<1>5. Cardinality(From(s, w)) <= c + G * (r + 1)
  <2>1. Cardinality(From(s, w)) \in Nat
    BY <1>3, SMT
  <2> QED BY <1>1, <1>2, <1>4, <2>1
<1>6. ASSUME NEW t \in Int, t > w - WindowSecs
      PROVE  Cardinality(From(s, t)) <= c + G * (1 + (r + 1))
  BY <1>1, <1>2, <1>3, <1>4, <1>6
<1> QED BY <1>5, <1>6 DEF Account, Covers

(***************************************************************************)
(* The shape of the meter's state.  The window in memory is not older than *)
(* the one in the file, as long as memory counts; and a count that was     *)
(* lost without a failed write is a count of nothing.                      *)
(***************************************************************************)
MeterShape ==
    /\ now \in Nat /\ resets \in Nat /\ dirty \in BOOLEAN
    /\ count \in Nat /\ windowStart \in Nat /\ windowStart <= now
    /\ accepted \in Seq(Nat)
    /\ meterFile \in {Absent, Torn} \cup [count : Nat, windowStart : Nat]
    /\ Parses(meterFile) => meterFile.windowStart <= now
    /\ Parses(meterFile) /\ (dirty \/ pc = "up") => meterFile.windowStart <= windowStart
    /\ ~dirty /\ ~Parses(meterFile) => count = 0
    /\ serving => pc = "up"
    /\ \A body \in issued : body.cap \in Nat \cup {Unlimited}

\* Every run was licensed, and no license granted this chain more than G.
Granted(G) ==
    /\ \A r \in runs : r.licensed
    /\ \A c \in GrantedCaps : c # Unlimited /\ c <= G

(***************************************************************************)
(* What the meter knows when at most G is granted: its count accounts for  *)
(* what was accepted, and so does the file's, with the count in memory     *)
(* added if a write failed, unless the file's window is over and nothing   *)
(* has been counted since.                                                 *)
(***************************************************************************)
Kept(G) ==
    /\ pc = "up" => cap \in 0..G
    /\ Account(G, resets, windowStart, count, accepted, now)
    /\ Parses(meterFile) => meterFile.count <= G
    /\ ~dirty /\ Parses(meterFile) =>
         \/ Account(G, resets, meterFile.windowStart, meterFile.count, accepted, now)
         \/ count = 0 /\ meterFile.windowStart + WindowSecs <= now
    /\ dirty /\ Parses(meterFile) =>
         \/ Covers(G, resets, meterFile.windowStart, meterFile.count + count, accepted)
         \/ meterFile.windowStart + WindowSecs <= now
    /\ \A t \in Int :
         Cardinality(Within(accepted, t, t + WindowSecs)) <= G * (2 + resets)

VolumeInv == MeterShape /\ \A G \in Nat : Granted(G) => Kept(G)

\* The steps that leave the meter alone.
Aside ==
    /\ UNCHANGED <<now, cap, count, windowStart, meterFile, accepted, dirty, resets, serving>>
    /\ pc = "up" <=> pc' = "up"

\* A step of the node is one of the meter's or leaves it alone.
LEMMA MeterSteps ==
    ASSUME [Next]_vars
    PROVE  Submit \/ SubmitRefused \/ Crash \/ ComeUp \/ ClockTick \/ Aside
<1>1. Bootstrapping => Aside
  BY DEF Bootstrapping, Start, OpenKeystore, LoadKeystore, MakeKeystore, ResolveGenesis,
         FetchFails, WriteConfig, RunFails, Aside, meterVars
<1>2. IssueLicense \/ ChangeLicense => Aside
  BY DEF IssueLicense, ChangeLicense, InstallLicense, EditLicense, Aside, meterVars
<1>3. UNCHANGED vars => Aside
  BY DEF vars, bootVars, meterVars, Aside
<1> QED BY <1>1, <1>2, <1>3 DEF Next

\* Licenses that were issued and starts that were made stay so.
LEMMA GrantedBefore ==
    ASSUME [Next]_vars, NEW G \in Nat, Granted(G)'
    PROVE  Granted(G)
<1>1. runs \subseteq runs' /\ issued \subseteq issued'
  BY DEF Next, Bootstrapping, ComeUp, Crash, Submit, SubmitRefused, IssueLicense,
         ChangeLicense, ClockTick, vars
<1>2. GrantedCaps \subseteq GrantedCaps'
  BY <1>1 DEF GrantedCaps
<1> QED BY <1>1, <1>2 DEF Granted

\* What try_record finds is a count of the present window.
LEMMA PresentShape ==
    ASSUME MeterShape
    PROVE  /\ Present \in [count : Nat, windowStart : Nat]
           /\ Present.windowStart <= now /\ now < Present.windowStart + WindowSecs
           /\ Present = Usage(count, windowStart) \/
              (Present = Usage(0, now) /\ now >= windowStart + WindowSecs)
           /\ Counted = Usage(Present.count + 1, Present.windowStart)
           /\ Counted \in [count : Nat, windowStart : Nat]
<1>1. \/ Present = Usage(count, windowStart) /\ now < windowStart + WindowSecs
      \/ Present = Usage(0, now) /\ now >= windowStart + WindowSecs
  <2>1. Usage(count, windowStart).windowStart = windowStart
    BY DEF Usage
  <2>2. Present = IF now >= windowStart + WindowSecs THEN Usage(0, now)
                  ELSE Usage(count, windowStart)
    BY <2>1 DEF Present, Rolled
  <2>3. ~(now >= windowStart + WindowSecs) => now < windowStart + WindowSecs
    BY MeterAssumption, SMT DEF MeterShape
  <2>4. CASE now >= windowStart + WindowSecs
    BY <2>2, <2>4
  <2>5. CASE ~(now >= windowStart + WindowSecs)
    <3>1. Present = Usage(count, windowStart)
      BY <2>2, <2>5
    <3>2. now < windowStart + WindowSecs
      BY <2>3, <2>5
    <3> QED BY <3>1, <3>2
  <2> QED BY <2>4, <2>5
<1>2. /\ Present \in [count : Nat, windowStart : Nat]
      /\ Present.windowStart <= now /\ now < Present.windowStart + WindowSecs
  BY <1>1, MeterAssumption, SMT DEF MeterShape, Usage
<1>3. Counted = Usage(Present.count + 1, Present.windowStart)
  BY <1>2, SMT DEF Counted, Usage
<1>4. Counted \in [count : Nat, windowStart : Nat]
  BY <1>2, <1>3, SMT DEF Usage
<1> QED BY <1>1, <1>2, <1>3, <1>4

\* It accounts for what was accepted.
LEMMA PresentAccount ==
    ASSUME MeterShape, NEW G \in Nat,
           Account(G, resets, windowStart, count, accepted, now)
    PROVE  Account(G, resets, Present.windowStart, Present.count, accepted, now)
<1>1. CASE Present = Usage(count, windowStart)
  BY <1>1 DEF Usage
<1>2. CASE Present = Usage(0, now) /\ now >= windowStart + WindowSecs
  <2>1. Account(G, resets, now, 0, accepted, now)
    BY <1>2, AccountRoll DEF MeterShape
  <2> QED BY <1>2, <2>1 DEF Usage
<1> QED BY <1>1, <1>2, PresentShape

\* A write leaves what was there, what was to be written, or a torn file.
LEMMA FileShape ==
    ASSUME MeterShape, NEW u \in [count : Nat, windowStart : Nat],
           meterFile' \in {meterFile, Torn, u}
    PROVE  /\ meterFile' \in {Absent, Torn} \cup [count : Nat, windowStart : Nat]
           /\ Parses(meterFile)' => meterFile' = u \/ (meterFile' = meterFile /\ Parses(meterFile))
           /\ meterFile' = u => Parses(meterFile)'
BY MeterAssumption DEF MeterShape, Parses

\* try_record under the cap preserves the shape.
LEMMA ShapeSubmit ==
    ASSUME MeterShape, Submit
    PROVE  MeterShape'
<1>1. /\ count' = Counted.count /\ windowStart' = Counted.windowStart
      /\ meterFile' \in {meterFile, Torn, Counted} /\ dirty' = (meterFile' # Counted)
      /\ accepted' = Append(accepted, now)
      /\ UNCHANGED <<now, resets, pc, serving, issued>>
  BY DEF Submit, TryRecord, Persist, Written, bootVars
<1>2. /\ Counted \in [count : Nat, windowStart : Nat]
      /\ Counted.windowStart <= now
      /\ windowStart <= Counted.windowStart
      /\ Counted = Usage(Counted.count, Counted.windowStart)
  BY PresentShape, SMT DEF Usage, MeterShape
<1>3. /\ meterFile' \in {Absent, Torn} \cup [count : Nat, windowStart : Nat]
      /\ Parses(meterFile)' => meterFile' = Counted \/ (meterFile' = meterFile /\ Parses(meterFile))
      /\ meterFile' = Counted => Parses(meterFile)'
  BY <1>1, <1>2, FileShape
<1>4. serving /\ pc = "up"
  BY DEF Submit, MeterShape
<1>5. accepted' \in Seq(Nat)
  BY <1>1, SMT DEF MeterShape
<1>6. Parses(meterFile)' => meterFile'.windowStart <= now'
  BY <1>1, <1>2, <1>3 DEF MeterShape
<1>7. Parses(meterFile)' => meterFile'.windowStart <= windowStart'
  <2>1. CASE meterFile' = Counted
    BY <1>1, <1>2, <2>1, SMT
  <2>2. CASE meterFile' = meterFile /\ Parses(meterFile)
    <3>1. meterFile.windowStart <= windowStart /\ meterFile.windowStart \in Nat
      BY <2>2, <1>4 DEF MeterShape, Parses
    <3> QED BY <1>1, <1>2, <2>2, <3>1, SMT DEF MeterShape
  <2> QED BY <1>3, <2>1, <2>2
<1>8. ~dirty' => Parses(meterFile)'
  BY <1>1, <1>3
<1>9. dirty' \in BOOLEAN
  BY <1>1
<1> QED BY <1>1, <1>2, <1>3, <1>4, <1>5, <1>6, <1>7, <1>8, <1>9 DEF MeterShape

\* So does try_record at the cap.
LEMMA ShapeRefused ==
    ASSUME MeterShape, SubmitRefused
    PROVE  MeterShape'
<1>1. /\ count' = Present.count /\ windowStart' = Present.windowStart
      /\ UNCHANGED <<now, meterFile, accepted, dirty, resets, pc, serving, issued>>
  BY DEF SubmitRefused, Refuse, bootVars
<1>2. /\ Present \in [count : Nat, windowStart : Nat]
      /\ Present.windowStart <= now
      /\ \/ Present.windowStart = windowStart /\ Present.count = count
         \/ Present.windowStart = now /\ Present.count = 0
  BY PresentShape, SMT DEF Usage
<1> QED BY <1>1, <1>2 DEF MeterShape, Parses

\* And a crash, in persist or not.
LEMMA ShapeCrash ==
    ASSUME MeterShape, Crash
    PROVE  MeterShape'
<1>1. /\ pc' = "down" /\ serving' = FALSE
      /\ UNCHANGED <<now, count, windowStart, accepted, resets, issued>>
  BY DEF Crash, Stop, MeterCrash
<1>2. CASE UNCHANGED <<meterFile, dirty>>
  BY <1>1, <1>2 DEF MeterShape, Parses
<1>3. CASE /\ meterFile' \in CutShort(meterFile, Counted) \ {meterFile}
           /\ dirty' = (meterFile' = Torn)
  <2>1. meterFile' \in {Torn, Counted}
    BY <1>3 DEF CutShort
  <2>2. Counted \in [count : Nat, windowStart : Nat] /\ Counted.windowStart <= now
    BY PresentShape, SMT DEF Usage
  <2>3. meterFile' = Torn => dirty' = TRUE /\ ~Parses(meterFile)'
    BY <1>3 DEF Parses
  <2>4. meterFile' = Counted => dirty' = FALSE /\ Parses(meterFile)'
    BY <1>3, <2>2, MeterAssumption DEF Parses
  <2> QED BY <1>1, <2>1, <2>2, <2>3, <2>4 DEF MeterShape
<1> QED BY <1>2, <1>3 DEF Crash, MeterCrash

\* What Meter::new makes of the file.
LEMMA RestoredShape ==
    ASSUME MeterShape, NEW file \in Read(meterFile)
    PROVE  /\ Restored(file) \in [count : Nat, windowStart : Nat]
           /\ Restored(file).windowStart <= now
           /\ \/ /\ Parses(meterFile) /\ file = meterFile /\ Restored(file) = meterFile
                 /\ now < meterFile.windowStart + WindowSecs
              \/ Restored(file) = Usage(0, now) /\
                 (file = meterFile /\ Parses(meterFile) =>
                      meterFile.windowStart + WindowSecs <= now)
<1>1. CASE ~Parses(file)
  <2>1. Restored(file) = Rolled(Usage(0, now))
    BY <1>1 DEF Restored, Parses
  <2>2. Rolled(Usage(0, now)) = Usage(0, now)
    BY DEF Rolled, Usage
  <2>3. Usage(0, now) \in [count : Nat, windowStart : Nat] /\ Usage(0, now).windowStart <= now
    BY SMT DEF Usage, MeterShape
  <2> QED BY <1>1, <2>1, <2>2, <2>3
<1>2. CASE Parses(file)
  <2>0. file = meterFile
    BY <1>2 DEF Read, Parses
  <2>1. Restored(file) = IF now >= meterFile.windowStart + WindowSecs THEN Usage(0, now)
                         ELSE meterFile
    BY <1>2, <2>0 DEF Restored, Parses, Rolled
  <2>2. meterFile \in [count : Nat, windowStart : Nat] /\ meterFile.windowStart <= now
    BY <1>2, <2>0 DEF MeterShape, Parses
  <2>3. CASE now >= meterFile.windowStart + WindowSecs
    BY <2>1, <2>2, <2>3, MeterAssumption, SMT DEF Usage, MeterShape
  <2>4. CASE ~(now >= meterFile.windowStart + WindowSecs)
    BY <1>2, <2>0, <2>1, <2>2, <2>4, MeterAssumption, SMT DEF MeterShape
  <2> QED BY <2>3, <2>4
<1> QED BY <1>1, <1>2

\* What a start has in memory then.
LEMMA StartShape ==
    ASSUME MeterShape, ComeUp
    PROVE  /\ count' \in Nat /\ windowStart' \in Nat /\ windowStart' <= now
           /\ resets' \in Nat /\ dirty' = FALSE /\ pc' = "up"
           /\ UNCHANGED <<now, meterFile, accepted, issued>>
           /\ \/ /\ Parses(meterFile)
                 /\ count' = meterFile.count /\ windowStart' = meterFile.windowStart
                 /\ now < meterFile.windowStart + WindowSecs
                 /\ resets' = resets + (IF dirty THEN 1 ELSE 0)
              \/ /\ count' = 0 /\ windowStart' = now
                 /\ Parses(meterFile) => meterFile.windowStart + WindowSecs <= now
                 /\ resets' = resets + (IF dirty THEN 1 ELSE 0)
              \/ count' = 0 /\ windowStart' = now /\ resets' = resets + 1
<1>1. /\ dirty' = FALSE /\ pc' = "up"
      /\ UNCHANGED <<now, meterFile, accepted, issued>>
  BY DEF ComeUp, MeterStart, Run
<1>2. PICK file \in Read(meterFile) :
        /\ count' = Restored(file).count /\ windowStart' = Restored(file).windowStart
        /\ resets' = resets +
             (IF dirty \/ Restored(file) # Restored(meterFile) THEN 1 ELSE 0)
  BY DEF ComeUp, MeterStart
<1>3. /\ Restored(file) \in [count : Nat, windowStart : Nat]
      /\ Restored(file).windowStart <= now
  BY RestoredShape
<1>4. count' \in Nat /\ windowStart' \in Nat /\ windowStart' <= now /\ resets' \in Nat
  BY <1>2, <1>3, SMT DEF MeterShape
<1>5. Usage(0, now).count = 0 /\ Usage(0, now).windowStart = now
  BY DEF Usage
<1>6. CASE Restored(file) = Restored(meterFile)
  <2>1. meterFile \in Read(meterFile)
    BY DEF Read
  <2>2. resets' = resets + (IF dirty THEN 1 ELSE 0)
    BY <1>2, <1>6
  <2>3. \/ /\ Parses(meterFile) /\ Restored(meterFile) = meterFile
           /\ now < meterFile.windowStart + WindowSecs
        \/ Restored(meterFile) = Usage(0, now) /\
           (Parses(meterFile) => meterFile.windowStart + WindowSecs <= now)
    BY <2>1, RestoredShape
  <2> QED BY <1>1, <1>2, <1>4, <1>5, <1>6, <2>2, <2>3
<1>7. CASE Restored(file) # Restored(meterFile)
  <2>1. Restored(file) = Usage(0, now)
    BY <1>7, RestoredShape
  <2>2. resets' = resets + 1
    BY <1>2, <1>7
  <2> QED BY <1>1, <1>2, <1>4, <1>5, <2>1, <2>2
<1> QED BY <1>6, <1>7

\* A start preserves the shape.
LEMMA ShapeComeUp ==
    ASSUME MeterShape, ComeUp
    PROVE  MeterShape'
<1>1. /\ count' \in Nat /\ windowStart' \in Nat /\ windowStart' <= now
      /\ resets' \in Nat /\ dirty' = FALSE /\ pc' = "up"
      /\ UNCHANGED <<now, meterFile, accepted, issued>>
      /\ \/ Parses(meterFile) /\ windowStart' = meterFile.windowStart
         \/ count' = 0 /\ windowStart' = now
  BY StartShape
<1>2. Parses(meterFile)' <=> Parses(meterFile)
  BY <1>1 DEF Parses
<1>3. Parses(meterFile) => meterFile.windowStart <= windowStart'
  BY <1>1, SMT DEF MeterShape, Parses
<1> QED BY <1>1, <1>2, <1>3 DEF MeterShape

\* So does every step.
LEMMA ShapeNext ==
    ASSUME MeterShape, [Next]_vars
    PROVE  MeterShape'
<1>1. \A body \in issued' : body.cap \in Nat \cup {Unlimited}
  <2>1. CASE IssueLicense
    <3>1. PICK offer \in Offers :
            /\ licenseFile' = Issue(offer.issuer, offer, now)
            /\ issued' = issued \cup
                  (IF offer.issuer = SmartLedger THEN {licenseFile'.license} ELSE {})
      BY <2>1 DEF IssueLicense, InstallLicense
    <3>2. licenseFile'.license.cap = offer.cap
      BY <3>1 DEF Issue
    <3> QED BY <3>1, <3>2, NodeAssumption DEF MeterShape
  <2>2. CASE ~IssueLicense
    <3>1. issued' = issued
      BY <2>2 DEF Next, Bootstrapping, ComeUp, Crash, Submit, SubmitRefused,
                  ChangeLicense, ClockTick, vars
    <3> QED BY <3>1 DEF MeterShape
  <2> QED BY <2>1, <2>2
<1>2. CASE Aside
  BY <1>1, <1>2 DEF MeterShape, Aside, Parses
<1>3. CASE ClockTick
  <2>1. /\ now' = now + 1
        /\ UNCHANGED <<count, windowStart, meterFile, accepted, dirty, resets, serving, pc>>
    BY <1>3 DEF ClockTick, Tick, bootVars
  <2>2. Parses(meterFile) => meterFile.windowStart \in Nat
    BY DEF MeterShape, Parses
  <2> QED BY <1>1, <2>1, <2>2, MeterAssumption, SMT DEF MeterShape, Parses
<1> QED BY <1>2, <1>3, MeterSteps, ShapeSubmit, ShapeRefused, ShapeCrash, ShapeComeUp

\* try_record under the cap keeps the account.
LEMMA KeptSubmit ==
    ASSUME MeterShape, Submit, NEW G \in Nat, Kept(G)
    PROVE  Kept(G)'
<1> DEFINE c == Present.count
           w == Present.windowStart
<1>1. /\ count' = Counted.count /\ windowStart' = Counted.windowStart
      /\ meterFile' \in {meterFile, Torn, Counted} /\ dirty' = (meterFile' # Counted)
      /\ accepted' = Append(accepted, now)
      /\ UNCHANGED <<now, cap, resets, pc>>
      /\ serving /\ WithinCap(Present)
  BY DEF Submit, TryRecord, Persist, Written, bootVars
<1>2. /\ c \in Nat /\ w \in Nat /\ w <= now /\ now < w + WindowSecs
      /\ Counted.count = c + 1 /\ Counted.windowStart = w
      /\ Counted \in [count : Nat, windowStart : Nat]
  BY PresentShape, SMT DEF Usage
<1>3. pc = "up" /\ cap \in 0..G
  BY <1>1 DEF MeterShape, Kept
<1>4. c + 1 <= G
  BY <1>1, <1>2, <1>3, SMT DEF WithinCap, Unlimited
<1>5. Account(G, resets, w, c, accepted, now)
  BY PresentAccount DEF Kept
<1> HIDE DEF c, w
<1>6. Account(G, resets, w, c + 1, Append(accepted, now), now)
  BY <1>2, <1>4, <1>5, AccountAccept DEF MeterShape
<1>7. Account(G, resets, windowStart, count, accepted, now)'
  BY <1>1, <1>2, <1>6
<1>8. Parses(meterFile)' => meterFile'.count <= G
  <2>1. Parses(meterFile)' => meterFile' = Counted \/ (meterFile' = meterFile /\ Parses(meterFile))
    BY <1>1, <1>2, FileShape
  <2> QED BY <1>2, <1>4, <2>1 DEF Kept
<1>9. ~dirty' => meterFile'.windowStart = windowStart' /\ meterFile'.count = count'
  BY <1>1
<1>11. dirty' /\ Parses(meterFile)' =>
         \/ Covers(G, resets, meterFile.windowStart, meterFile.count + count, accepted)'
         \/ meterFile'.windowStart + WindowSecs <= now'
  <2> SUFFICES ASSUME dirty', Parses(meterFile)',
                      ~(meterFile'.windowStart + WindowSecs <= now')
               PROVE  Covers(G, resets, meterFile.windowStart, meterFile.count + count, accepted)'
    OBVIOUS
  <2> DEFINE fw == meterFile.windowStart
             fc == meterFile.count
  <2>1. meterFile' = meterFile /\ Parses(meterFile)
    <3>1. Parses(meterFile)' => meterFile' = Counted \/ (meterFile' = meterFile /\ Parses(meterFile))
      BY <1>1, <1>2, FileShape
    <3> QED BY <1>1, <3>1
  <2>2. fw \in Nat /\ fc \in Nat /\ fw <= windowStart
    BY <1>3, <2>1 DEF MeterShape, Parses
  <2>3. ~(fw + WindowSecs <= now)
    BY <1>1, <2>1
  <2>4. Covers(G, resets, fw, fc + count, accepted)
    <3>1. CASE dirty
      BY <2>1, <2>3, <3>1 DEF Kept
    <3>2. CASE ~dirty
      <4>1. Covers(G, resets, fw, fc, accepted)
        BY <2>1, <2>3, <3>2 DEF Kept, Account
      <4> HIDE DEF fw, fc
      <4> QED BY <2>2, <4>1, CoversMore DEF MeterShape
    <3> QED BY <3>1, <3>2
  <2> HIDE DEF fw, fc
  <2>5. now < fw + WindowSecs /\ ~(now >= windowStart + WindowSecs)
    BY <2>2, <2>3, MeterAssumption, SMT DEF MeterShape
  <2>6. c = count
    <3>1. Present = Usage(count, windowStart)
      BY <2>5, PresentShape
    <3> QED BY <3>1 DEF c, Usage
  <2>7. fc + count \in Nat /\ fc + (count + 1) = (fc + count) + 1
    BY <2>2, SMT DEF MeterShape
  <2>8. Covers(G, resets, fw, (fc + count) + 1, Append(accepted, now))
    BY <2>2, <2>4, <2>5, <2>7, CoversAccept DEF MeterShape
  <2>9. fc' = fc /\ fw' = fw /\ count' = count + 1
    BY <1>1, <1>2, <2>1, <2>6 DEF fc, fw
  <2> QED BY <1>1, <2>1, <2>7, <2>8, <2>9 DEF fc, fw
<1>10. ASSUME NEW t \in Int
       PROVE  Cardinality(Within(accepted', t, t + WindowSecs)) <= G * (2 + resets)
  <2>1. CASE t + WindowSecs <= now
    <3>1. Within(Append(accepted, now), t, t + WindowSecs)
             = Within(accepted, t, t + WindowSecs)
      BY <2>1, WithinAppend, MeterAssumption, SMT DEF MeterShape
    <3> QED BY <1>1, <3>1 DEF Kept
  <2>2. CASE ~(t + WindowSecs <= now)
    <3> DEFINE a == G * (1 + resets)
               b == Cardinality(From(accepted', t))
               d == Cardinality(Within(accepted', t, t + WindowSecs))
    <3>1. t > w - WindowSecs
      BY <1>2, <2>2, MeterAssumption, SMT DEF MeterShape
    <3>2. b <= (c + 1) + a
      BY <1>1, <1>6, <3>1 DEF Account, Covers
    <3>3. accepted' \in Seq(Nat) /\ t + WindowSecs \in Int
      BY <1>1, MeterAssumption, SMT DEF MeterShape
    <3>4. d \in Nat /\ d <= b
      BY <3>3, WithinFrom
    <3>5. b \in Nat
      BY <3>3, FromFinite
    <3>6. a \in Nat /\ G * (2 + resets) = a + G
      BY Multiples, SMT DEF MeterShape
    <3> HIDE DEF a, b, d
    <3>7. d <= a + G
      BY <1>2, <1>4, <3>2, <3>4, <3>5, <3>6, SMT
    <3> QED BY <3>6, <3>7 DEF d
  <2> QED BY <2>1, <2>2
<1>12. dirty' \in BOOLEAN
  BY <1>1
<1> QED BY <1>1, <1>3, <1>7, <1>8, <1>9, <1>10, <1>11, <1>12 DEF Kept

\* So does try_record at the cap.
LEMMA KeptRefused ==
    ASSUME MeterShape, SubmitRefused, NEW G \in Nat, Kept(G)
    PROVE  Kept(G)'
<1>1. /\ count' = Present.count /\ windowStart' = Present.windowStart
      /\ UNCHANGED <<now, cap, meterFile, accepted, dirty, resets, pc>>
  BY DEF SubmitRefused, Refuse, bootVars
<1>2. Account(G, resets, windowStart, count, accepted, now)'
  BY <1>1, PresentAccount DEF Kept
<1>3. count = 0 => count' = 0
  BY <1>1, PresentShape, SMT DEF Usage
<1>4. count' = count \/ (Parses(meterFile) => meterFile.windowStart + WindowSecs <= now)
  <2>1. CASE Present = Usage(count, windowStart)
    BY <1>1, <2>1 DEF Usage
  <2>2. CASE now >= windowStart + WindowSecs
    <3>1. Parses(meterFile) => meterFile.windowStart <= windowStart /\ meterFile.windowStart \in Nat
      BY DEF SubmitRefused, MeterShape, Parses
    <3> QED BY <2>2, <3>1, MeterAssumption, SMT DEF MeterShape
  <2> QED BY <2>1, <2>2, PresentShape
<1> QED BY <1>1, <1>2, <1>3, <1>4 DEF Kept, Parses

\* A crash leaves the count as it was, or the file with one more.
LEMMA KeptCrash ==
    ASSUME MeterShape, Crash, NEW G \in Nat, Kept(G)
    PROVE  Kept(G)'
<1>1. pc' = "down" /\ UNCHANGED <<now, count, windowStart, accepted, resets>>
  BY DEF Crash, Stop, MeterCrash
<1>2. CASE UNCHANGED <<meterFile, dirty>>
  BY <1>1, <1>2 DEF Kept, Parses
<1>3. CASE /\ serving /\ WithinCap(Present)
           /\ meterFile' \in CutShort(meterFile, Counted) \ {meterFile}
           /\ dirty' = (meterFile' = Torn)
  <2> DEFINE c == Present.count
             w == Present.windowStart
  <2>1. CASE meterFile' = Torn
    BY <1>1, <2>1 DEF Kept, Parses
  <2>2. CASE meterFile' = Counted
    <3>1. /\ c \in Nat /\ w \in Nat
          /\ Counted.count = c + 1 /\ Counted.windowStart = w
      BY PresentShape, SMT DEF Usage
    <3>2. cap \in 0..G
      BY <1>3 DEF MeterShape, Kept
    <3>3. c + 1 <= G
      BY <1>3, <3>1, <3>2, SMT DEF WithinCap, Unlimited
    <3>4. Account(G, resets, w, c, accepted, now)
      BY PresentAccount DEF Kept
    <3> HIDE DEF c, w
    <3>5. Covers(G, resets, w, c + 1, accepted) /\ w <= now
      BY <3>1, <3>4, CoversMore, SMT DEF MeterShape, Account
    <3>6. dirty' = FALSE
      BY <1>3, <2>2, PresentShape, MeterAssumption
    <3> QED BY <1>1, <2>2, <3>1, <3>3, <3>5, <3>6 DEF Kept, Account
  <2> QED BY <1>3, <2>1, <2>2 DEF CutShort
<1> QED BY <1>2, <1>3 DEF Crash, MeterCrash

\* A start keeps the account: the file has it, or nothing was counted, or the
\* start is one more that lost a count.
LEMMA KeptComeUp ==
    ASSUME MeterShape, ComeUp, NEW G \in Nat, Kept(G), cap' \in 0..G
    PROVE  Kept(G)'
<1> DEFINE fw == meterFile.windowStart
           fc == meterFile.count
<1>1. /\ dirty' = FALSE /\ UNCHANGED <<now, meterFile, accepted>>
      /\ count' \in Nat /\ windowStart' \in Nat /\ windowStart' <= now
      /\ \/ /\ Parses(meterFile)
            /\ count' = fc /\ windowStart' = fw
            /\ now < fw + WindowSecs
            /\ resets' = resets + (IF dirty THEN 1 ELSE 0)
         \/ /\ count' = 0 /\ windowStart' = now
            /\ Parses(meterFile) => fw + WindowSecs <= now
            /\ resets' = resets + (IF dirty THEN 1 ELSE 0)
         \/ count' = 0 /\ windowStart' = now /\ resets' = resets + 1
  BY StartShape
<1>2. Parses(meterFile) => fw \in Nat /\ fc \in Nat /\ fw <= now /\ fc <= G
  BY DEF MeterShape, Kept, Parses
<1>3. Account(G, resets, windowStart, count, accepted, now) /\ count <= G
  BY DEF Kept, Account
<1>4. Parses(meterFile)' <=> Parses(meterFile)
  BY <1>1 DEF Parses
<1>5. CASE resets' = resets + 1
  <2>1. Account(G, resets + 1, now, 0, accepted, now)
    <3>1. 0 \in Nat /\ 0 <= G /\ now <= now
      BY SMT DEF MeterShape
    <3> QED BY <1>3, <3>1, AccountReset DEF MeterShape
  <2>2. Parses(meterFile) =>
          \/ Account(G, resets + 1, fw, fc, accepted, now)
          \/ count' = 0 /\ fw + WindowSecs <= now
    <3> SUFFICES ASSUME Parses(meterFile), ~(count' = 0 /\ fw + WindowSecs <= now)
                 PROVE  Account(G, resets + 1, fw, fc, accepted, now)
      OBVIOUS
    <3>1. ~(fw + WindowSecs <= now)
      BY <1>1, <1>2, MeterAssumption, SMT DEF MeterShape
    <3>2. CASE dirty
      <4>1. Covers(G, resets, fw, fc + count, accepted)
        BY <3>1, <3>2 DEF Kept
      <4> HIDE DEF fw, fc
      <4> QED BY <1>2, <1>3, <4>1, CoversReset DEF MeterShape
    <3>3. CASE ~dirty
      <4>1. Account(G, resets, fw, fc, accepted, now)
        BY <3>1, <3>3 DEF Kept
      <4> HIDE DEF fw, fc
      <4>2. fw <= fw
        BY <1>2, SMT
      <4> QED BY <1>2, <4>1, <4>2, AccountReset DEF MeterShape
    <3> QED BY <3>2, <3>3
  <2>3. Account(G, resets, windowStart, count, accepted, now)'
    <3>1. CASE count' = 0 /\ windowStart' = now
      BY <1>1, <1>5, <2>1, <3>1
    <3>2. CASE /\ Parses(meterFile) /\ count' = fc /\ windowStart' = fw
               /\ now < fw + WindowSecs
      <4>1. ~(fw + WindowSecs <= now)
        BY <1>2, <3>2, MeterAssumption, SMT DEF MeterShape
      <4> QED BY <1>1, <1>5, <2>2, <3>2, <4>1
    <3> QED BY <1>1, <3>1, <3>2
  <2>4. ASSUME NEW t \in Int
        PROVE  Cardinality(Within(accepted', t, t + WindowSecs)) <= G * (2 + resets')
    <3> DEFINE d == Cardinality(Within(accepted, t, t + WindowSecs))
               a == G * (2 + resets)
    <3>1. d <= a
      BY DEF Kept
    <3>2. a \in Nat /\ G * (2 + (resets + 1)) = a + G
      BY Multiples, SMT DEF MeterShape
    <3>3. accepted \in Seq(Nat) /\ t + WindowSecs \in Int
      BY MeterAssumption, SMT DEF MeterShape
    <3>4. d \in Nat
      BY <3>3, WithinFrom
    <3> HIDE DEF a, d
    <3>5. d <= a + G
      BY <3>1, <3>2, <3>4, SMT
    <3> QED BY <1>1, <1>5, <3>2, <3>5 DEF d
  <2> QED BY <1>1, <1>2, <1>4, <1>5, <2>2, <2>3, <2>4 DEF Kept
<1>6. CASE resets' # resets + 1
  <2>0. ~dirty
    BY <1>1, <1>6
  <2>1. resets' = resets
    BY <1>1, <1>6, <2>0, SMT DEF MeterShape
  <2>2. ~Parses(meterFile) => count = 0
    BY <2>0 DEF MeterShape
  <2>3. CASE count = 0 /\ count' = 0 /\ windowStart' = now
    <3>1. Account(G, resets, now, 0, accepted, now)
      BY <1>3, <2>3, AccountFresh DEF MeterShape
    <3> QED BY <1>1, <1>2, <1>4, <2>0, <2>1, <2>3, <3>1 DEF Kept
  <2>4. CASE Parses(meterFile) /\ Account(G, resets, fw, fc, accepted, now)
    <3>1. Account(G, resets, windowStart', count', accepted, now)
      <4>1. CASE count' = fc /\ windowStart' = fw
        BY <2>4, <4>1
      <4>2. CASE count' = 0 /\ windowStart' = now /\ fw + WindowSecs <= now
        <5>1. now >= fw + WindowSecs
          BY <4>2
        <5> HIDE DEF fw, fc
        <5>2. Account(G, resets, now, 0, accepted, now)
          BY <1>2, <2>4, <5>1, AccountRoll DEF MeterShape
        <5> QED BY <4>2, <5>2
      <4> QED BY <1>1, <1>6, <2>4, <4>1, <4>2
    <3> QED BY <1>1, <1>4, <2>1, <2>4, <3>1 DEF Kept
  <2>5. CASE Parses(meterFile) /\ count = 0 /\ fw + WindowSecs <= now
    <3>1. ~(now < fw + WindowSecs)
      BY <1>2, <2>5, MeterAssumption, SMT DEF MeterShape
    <3> QED BY <1>1, <1>6, <2>3, <2>5, <3>1
  <2> QED BY <1>1, <1>6, <2>0, <2>2, <2>3, <2>4, <2>5 DEF Kept
<1> QED BY <1>5, <1>6

\* Whatever G is granted, a start is under at most that.
LEMMA CapGranted ==
    ASSUME MeterShape, LicenseInv, ComeUp, NEW G \in Nat, Granted(G)'
    PROVE  cap' \in 0..G
<1> DEFINE r == [key |-> keystore, genesis |-> configFile.genesis,
                 licensed |-> configFile.licensed]
           body == licenseFile.license
<1>1. r \in runs' /\ issued' = issued
  BY DEF ComeUp
<1>2. configFile.licensed
  <2>1. r.licensed
    BY <1>1 DEF Granted
  <2> QED BY <2>1
<1>3. /\ LicenseAccepted(licenseFile, configFile.issuerKey, now, configFile.genesis.chain)
      /\ cap' = body.cap
  BY <1>2 DEF ComeUp, Run, MayRun, MeterStart, LicensedCap
<1>4. body \in issued /\ body.chain \in {AnyChain, configFile.genesis.chain}
  BY <1>3, AcceptedIsIssued
<1>5. body.cap \in Nat \cup {Unlimited}
  BY <1>4 DEF MeterShape
<1>6. r.genesis.chain = configFile.genesis.chain
  OBVIOUS
<1> HIDE DEF r, body
<1>7. body.cap \in GrantedCaps'
  BY <1>1, <1>4, <1>6 DEF GrantedCaps
<1>8. body.cap # Unlimited /\ body.cap <= G
  BY <1>7 DEF Granted
<1> QED BY <1>3, <1>5, <1>8, SMT

\* Every step keeps the account.
LEMMA KeptNext ==
    ASSUME VolumeInv, LicenseInv, [Next]_vars
    PROVE  VolumeInv'
<1>1. MeterShape'
  BY ShapeNext DEF VolumeInv
<1>2. ASSUME NEW G \in Nat, Granted(G)'
      PROVE  Kept(G)'
  <2>1. MeterShape /\ Kept(G)
    BY <1>2, GrantedBefore DEF VolumeInv
  <2>2. CASE Aside
    BY <2>1, <2>2 DEF Kept, Aside, Parses
  <2>3. CASE ClockTick
    <3>1. /\ now' = now + 1
          /\ UNCHANGED <<cap, count, windowStart, meterFile, accepted, dirty, resets, pc>>
      BY <2>3 DEF ClockTick, Tick, bootVars
    <3>2. ASSUME NEW w \in Nat, NEW c \in Nat, Account(G, resets, w, c, accepted, now)
          PROVE  Account(G, resets, w, c, accepted, now + 1)
      BY <2>1, <3>2, SMT DEF Account, Covers, MeterShape
    <3>3. Parses(meterFile) => meterFile.windowStart \in Nat /\ meterFile.count \in Nat
      BY <2>1 DEF MeterShape, Parses
    <3>4. Account(G, resets, windowStart, count, accepted, now)'
      BY <2>1, <3>1, <3>2 DEF Kept, MeterShape
    <3>5. ~dirty /\ Parses(meterFile) =>
            \/ Account(G, resets, meterFile.windowStart, meterFile.count, accepted, now + 1)
            \/ count = 0 /\ meterFile.windowStart + WindowSecs <= now + 1
      <4>1. CASE /\ Parses(meterFile)
                 /\ Account(G, resets, meterFile.windowStart, meterFile.count, accepted, now)
        BY <3>2, <3>3, <4>1
      <4>2. CASE Parses(meterFile) /\ count = 0 /\ meterFile.windowStart + WindowSecs <= now
        <5>1. meterFile.windowStart + WindowSecs <= now + 1
          BY <2>1, <3>3, <4>2, MeterAssumption, SMT DEF MeterShape
        <5> QED BY <4>2, <5>1
      <4> QED BY <2>1, <4>1, <4>2 DEF Kept
    <3>6. Parses(meterFile) /\ meterFile.windowStart + WindowSecs <= now =>
            meterFile.windowStart + WindowSecs <= now + 1
      BY <2>1, <3>3, MeterAssumption, SMT DEF MeterShape
    <3> QED BY <2>1, <3>1, <3>4, <3>5, <3>6 DEF Kept, Parses
  <2>4. CASE ComeUp
    BY <1>2, <2>1, <2>4, CapGranted, KeptComeUp
  <2> QED BY <2>1, <2>2, <2>3, <2>4, MeterSteps, KeptSubmit, KeptRefused, KeptCrash
<1> QED BY <1>1, <1>2 DEF VolumeInv

\* The meter starts with an account of nothing.
LEMMA VolumeInit == Init => VolumeInv
<1> SUFFICES ASSUME Init PROVE VolumeInv
  OBVIOUS
<1>1. /\ now = 0 /\ count = 0 /\ windowStart = 0 /\ meterFile = Absent /\ accepted = <<>>
      /\ dirty = FALSE /\ resets = 0 /\ pc = "down" /\ serving = FALSE /\ issued = {}
  BY DEF Init, BootInit, MeterInit
<1>2. MeterShape
  <2>1. ~Parses(meterFile)
    BY <1>1 DEF Parses
  <2>2. accepted \in Seq(Nat)
    BY <1>1, SMT
  <2>3. dirty \in BOOLEAN /\ ~serving
    BY <1>1
  <2>4. now \in Nat /\ resets \in Nat /\ count \in Nat /\ windowStart \in Nat
        /\ windowStart <= now
    BY <1>1, SMT
  <2>5. meterFile \in {Absent, Torn} /\ \A body \in issued : body.cap \in Nat \cup {Unlimited}
    BY <1>1
  <2> QED BY <1>1, <2>1, <2>2, <2>3, <2>4, <2>5 DEF MeterShape
<1>3. ASSUME NEW G \in Nat
      PROVE  Kept(G)
  <2>1. \A t \in Int : From(<<>>, t) = {} /\ Within(<<>>, t, t + WindowSecs) = {}
    BY SMT DEF From, Within
  <2>2. \A t \in Int : /\ Cardinality(From(accepted, t)) = 0
                       /\ Cardinality(Within(accepted, t, t + WindowSecs)) = 0
    BY <1>1, <2>1, FS_EmptySet
  <2>3. G * 0 = 0 /\ G * (1 + 0) = G /\ G * (2 + 0) \in Nat
    BY Multiples, SMT
  <2>4. Account(G, resets, windowStart, count, accepted, now)
    BY <1>1, <2>2, <2>3, MeterAssumption, SMT DEF Account, Covers
  <2>5. \A t \in Int :
          Cardinality(Within(accepted, t, t + WindowSecs)) <= G * (2 + resets)
    BY <1>1, <2>2, <2>3, SMT
  <2> QED BY <1>1, <2>4, <2>5 DEF Kept, Parses
<1> QED BY <1>2, <1>3 DEF VolumeInv

\* VolumeBound is what VolumeInv says for the largest volume granted.
LEMMA VolumeEnough == VolumeInv => VolumeBound
<1> SUFFICES ASSUME VolumeInv, \A r \in runs : r.licensed,
                    NEW volume \in GrantedCaps \cup {0},
                    \A c \in GrantedCaps : c # Unlimited /\ c <= volume,
                    NEW t \in 0..now
             PROVE  AcceptedIn(t, t + WindowSecs) <= volume * (2 + resets)
  BY DEF VolumeBound
<1>1. volume \in Nat
  <2>1. \A c \in GrantedCaps : c \in Nat \cup {Unlimited}
    BY DEF GrantedCaps, VolumeInv, MeterShape
  <2>2. CASE volume \in GrantedCaps
    BY <2>1, <2>2
  <2> QED BY <2>2, SMT
<1>2. Granted(volume)
  BY DEF Granted
<1>3. Kept(volume)
  BY <1>1, <1>2 DEF VolumeInv
<1>4. t \in Int
  BY SMT DEF VolumeInv, MeterShape
<1> QED BY <1>3, <1>4 DEF Kept, AcceptedIn, Within

\* However often the node restarts, whatever license file it is given and
\* whichever writes and reads of the meter's file fail, at most twice the largest
\* volume that was granted is accepted in a window's length of time, and once
\* more for every start that resets the count (Meter::persist, Meter::new).
THEOREM VolumeHolds == Spec => []VolumeBound
<1>1. VolumeInv /\ LicenseInv /\ [Next]_vars => VolumeInv'
  BY KeptNext
<1> QED BY <1>1, VolumeInit, VolumeEnough, LicenseInvariant, PTL DEF Spec

-----------------------------------------------------------------------------
(***************************************************************************)
(* The types.  A key is made at most once between two stops, and a count,  *)
(* in memory or in the file, is of submissions that were accepted or cut   *)
(* off by a stop, so that it has a bound.                                  *)
(***************************************************************************)
TypeInv ==
    /\ TypeOK
    /\ keystore \in {Absent, Torn} \cup 1..stops + 1
    /\ count <= Len(accepted) + stops
    /\ Parses(meterFile) => meterFile.count <= Len(accepted) + stops

\* The types hold at the start.
LEMMA TypeInit == Init => TypeInv
<1> SUFFICES ASSUME Init PROVE TypeInv
  OBVIOUS
<1>1. /\ env \in Deployments /\ pc = "down" /\ keystore = Absent /\ stops = 0
      /\ count = 0 /\ windowStart = 0 /\ now = 0 /\ accepted = <<>>
      /\ serving = FALSE /\ meterFile = Absent
  BY DEF Init, BootInit, MeterInit
<1>2. Len(accepted) = 0 /\ ~Parses(meterFile)
  BY <1>1 DEF Parses
<1>3. TypeOK
  BY <1>1, <1>2, BootstrapAssumption, NodeAssumption, SMT DEF TypeOK
<1> QED BY <1>1, <1>2, <1>3, SMT DEF TypeInv

\* Every step keeps them.
LEMMA TypeNext ==
    ASSUME TypeInv, MeterShape, MeterShape', [Next]_vars
    PROVE  TypeInv'
<1> DEFINE n == Len(accepted)
<1>1. /\ MaxStops \in Nat /\ MaxAccepted \in Nat /\ n \in Nat /\ n <= MaxAccepted
      /\ stops \in Nat /\ stops <= MaxStops /\ now \in Nat
      /\ count \in Nat /\ windowStart \in Nat /\ windowStart <= now
      /\ count <= n + stops
      /\ Parses(meterFile) => meterFile.count \in Nat /\ meterFile.count <= n + stops
      /\ keystore \in {Absent, Torn} \cup 1..stops + 1
      /\ env \in Deployments
      /\ pc \in {"down", "keystore", "genesis", "config", "run", "up"}
  BY BootstrapAssumption, NodeAssumption, SMT DEF TypeInv, TypeOK, MeterShape, Parses
<1>2. count' \in Nat /\ windowStart' \in 0..now' /\ (serving' => pc' = "up")
  BY SMT DEF MeterShape
<1>10. PICK m \in Nat : m = Len(accepted')
  BY SMT DEF MeterShape
<1> HIDE DEF n
<1>3. SUFFICES /\ env' \in Deployments
               /\ pc' \in {"down", "keystore", "genesis", "config", "run", "up"}
               /\ stops' \in Nat /\ stops' <= MaxStops
               /\ keystore' \in {Absent, Torn} \cup 1..stops' + 1
               /\ m <= MaxAccepted
               /\ count' <= m + stops'
               /\ Parses(meterFile)' => meterFile'.count <= m + stops'
  <2>1. stops' \in 0..MaxStops /\ keystore' \in {Absent, Torn} \cup 1..MaxStops + 1
    BY <1>1, <1>3, SMT
  <2>2. count' <= MaxAccepted + MaxStops
    <3>1. /\ stops' \in Nat /\ stops' <= MaxStops /\ m <= MaxAccepted
          /\ count' <= m + stops'
      BY <1>3
    <3>2. MaxStops \in Nat /\ MaxAccepted \in Nat
      BY <1>1
    <3> QED BY <1>2, <1>10, <3>1, <3>2, SMT
  <2> QED BY <1>2, <1>3, <1>10, <2>1, <2>2, SMT DEF TypeInv, TypeOK
<1>4. CASE Bootstrapping \/ IssueLicense \/ ChangeLicense \/ UNCHANGED vars
  <2>1. /\ stops' = stops /\ env' = env
        /\ pc' \in {"down", "keystore", "genesis", "config", "run", "up"}
        /\ keystore' = keystore \/ keystore' \in {FreshKey, Torn}
    BY <1>1, <1>4 DEF Bootstrapping, Start, OpenKeystore, LoadKeystore, MakeKeystore,
       Written, ResolveGenesis, FetchFails, WriteConfig, RunFails, IssueLicense,
       InstallLicense, ChangeLicense, EditLicense, vars, bootVars
  <2>2. UNCHANGED <<count, accepted, meterFile>>
    BY <1>4 DEF Bootstrapping, IssueLicense, ChangeLicense, vars, meterVars
  <2> QED BY <1>1, <1>10, <2>1, <2>2, SMT DEF FreshKey, n, Parses
<1>5. CASE Submit
  <2>1. /\ count' = Counted.count /\ accepted' = Append(accepted, now)
        /\ meterFile' \in {meterFile, Torn, Counted}
        /\ UNCHANGED <<env, pc, keystore, stops>> /\ n < MaxAccepted
    BY <1>5 DEF Submit, TryRecord, Persist, Written, bootVars, n
  <2>2. m = n + 1
    BY <1>10, <2>1, SMT DEF n, MeterShape
  <2>3. /\ Counted \in [count : Nat, windowStart : Nat]
        /\ Counted.count <= count + 1
    BY <1>1, PresentShape, SMT DEF Usage
  <2>4. Parses(meterFile)' => meterFile' = Counted \/ (meterFile' = meterFile /\ Parses(meterFile))
    BY <2>1, <2>3, FileShape
  <2> QED BY <1>1, <2>1, <2>2, <2>3, <2>4, SMT
<1>6. CASE SubmitRefused
  <2>1. /\ count' = Present.count
        /\ UNCHANGED <<env, pc, keystore, stops, accepted, meterFile>>
    BY <1>6 DEF SubmitRefused, Refuse, bootVars
  <2>2. Present.count \in Nat /\ Present.count <= count
    BY <1>1, PresentShape, SMT DEF Usage
  <2> QED BY <1>1, <1>10, <2>1, <2>2, SMT DEF n, Parses
<1>7. CASE Crash
  <2>1. /\ stops < MaxStops /\ stops' = stops + 1 /\ pc' = "down"
        /\ env' \in Deployments /\ UNCHANGED <<count, accepted>>
        /\ keystore' \in {keystore, Torn, FreshKey}
        /\ meterFile' \in {meterFile, Torn, Counted}
    BY <1>7 DEF Crash, Stop, MeterCrash, CutShort
  <2>2. /\ Counted \in [count : Nat, windowStart : Nat]
        /\ Counted.count <= count + 1
    BY <1>1, PresentShape, SMT DEF Usage
  <2>3. Parses(meterFile)' => meterFile' = Counted \/ (meterFile' = meterFile /\ Parses(meterFile))
    BY <2>1, <2>2, FileShape
  <2>4. m = n
    BY <1>10, <2>1 DEF n
  <2>5. keystore' \in {Absent, Torn} \cup 1..stops' + 1
    BY <1>1, <2>1, SMT DEF FreshKey
  <2> QED BY <1>1, <2>1, <2>2, <2>3, <2>4, <2>5, SMT
<1>8. CASE ComeUp
  <2>1. pc' = "up" /\ UNCHANGED <<env, keystore, stops, accepted, meterFile>>
    BY <1>8 DEF ComeUp, MeterStart, Run
  <2>2. count' = 0 \/ (Parses(meterFile) /\ count' = meterFile.count)
    BY <1>8, StartShape
  <2> QED BY <1>1, <1>10, <2>1, <2>2, SMT DEF n, Parses
<1>9. CASE ClockTick
  <2>1. UNCHANGED <<env, pc, keystore, stops, count, accepted, meterFile>>
    BY <1>9 DEF ClockTick, Tick, bootVars
  <2> QED BY <1>1, <1>10, <2>1 DEF n, Parses
<1> QED BY <1>4, <1>5, <1>6, <1>7, <1>8, <1>9 DEF Next

\* Under any faults the state stays in its types; only a node that is up serves
\* clients, and no count grows beyond what was submitted (Meter, slc-node.rs).
THEOREM NodeTypes == Spec => []TypeOK
<1>1. TypeInv /\ MeterShape /\ MeterShape' /\ [Next]_vars => TypeInv'
  BY TypeNext
<1>2. VolumeInv /\ LicenseInv /\ [Next]_vars => VolumeInv'
  BY KeptNext
<1>3. VolumeInv => MeterShape
  BY DEF VolumeInv
<1>4. VolumeInv' => MeterShape'
  BY DEF VolumeInv
<1>5. TypeInv => TypeOK
  BY DEF TypeInv
<1> QED BY <1>1, <1>2, <1>3, <1>4, <1>5, TypeInit, VolumeInit, LicenseInvariant, PTL DEF Spec
=============================================================================
