---------------------------- MODULE NodeProcess -----------------------------
(***************************************************************************)
(* A node's process from its first start on: how it starts (Bootstrap),    *)
(* the license that lets it, and the volume the license allows the clients *)
(* of its RPC (Meter).  What the event loop makes of a submission is       *)
(* Cluster's.                                                              *)
(***************************************************************************)
EXTENDS Bootstrap, Meter

CONSTANTS
    Offers,         \* the licenses that are issued: [issuer, cap, chain, secs]
    MaxInstalls,    \* bound: how often the license file is written
    MaxAccepted     \* bound: how many submissions are counted

VARIABLES
    serving,        \* the RPC listener is bound
    installs,       \* how often the license file was written
    issued,         \* the bodies of the licenses SmartLedger has signed
    runs            \* under what the node has come up: [key, genesis, licensed]

vars == <<bootVars, meterVars, serving, installs, issued, runs>>

ASSUME NodeAssumption ==
    /\ MaxInstalls \in Nat /\ MaxAccepted \in Nat
    /\ \A offer \in Offers : offer.cap \in Nat \cup {Unlimited}

Init ==
    /\ BootInit
    /\ MeterInit
    /\ serving = FALSE
    /\ installs = 0
    /\ issued = {}
    /\ runs = {}

Bootstrapping ==
    /\ Start \/ OpenKeystore \/ ResolveGenesis \/ FetchFails \/ WriteConfig \/ RunFails
    /\ UNCHANGED <<meterVars, serving, installs, issued, runs>>

LicensedCap == IF configFile.licensed THEN licenseFile.license.cap ELSE Unlimited

\* `run`, Node::with_metering and Node::spawn.  That the RPC address is taken is
\* only logged.
ComeUp ==
    /\ Run(now)
    /\ MeterStart(LicensedCap)
    /\ serving' \in BOOLEAN
    /\ runs' = runs \cup {[key |-> keystore, genesis |-> configFile.genesis,
                           licensed |-> configFile.licensed]}
    /\ UNCHANGED <<installs, issued>>

\* The process stops and what it has in memory is gone.
Crash ==
    /\ \E e \in Deployments : Stop(e)
    /\ MeterCrash(serving)
    /\ serving' = FALSE
    /\ UNCHANGED <<installs, issued, runs>>

\* handle_conn on a Submit that verifies and is within the licensed volume.
Submit ==
    /\ serving
    /\ Len(accepted) < MaxAccepted
    /\ TryRecord
    /\ UNCHANGED <<bootVars, serving, installs, issued, runs>>

\* handle_conn on a Submit beyond it: the client gets an error.
SubmitRefused ==
    /\ serving
    /\ Refuse
    /\ UNCHANGED <<bootVars, serving, installs, issued, runs>>

(***************************************************************************)
(* What happens outside the process.  Of its steps only `run` reads the    *)
(* license and the clock, so neither has to change while a start is under  *)
(* way, nor the license while the node is up.                              *)
(***************************************************************************)
IssueLicense ==
    /\ pc = "down"
    /\ \E offer \in Offers :
         /\ InstallLicense(offer.issuer, offer, now)
         /\ issued' = issued \cup
                (IF offer.issuer = SmartLedger THEN {licenseFile'.license} ELSE {})
    /\ installs < MaxInstalls /\ installs' = installs + 1
    /\ UNCHANGED <<meterVars, serving, runs>>

ChangeLicense ==
    /\ pc = "down"
    /\ \E offer \in Offers : EditLicense(offer.cap)
    /\ installs < MaxInstalls /\ installs' = installs + 1
    /\ UNCHANGED <<meterVars, serving, issued, runs>>

ClockTick ==
    /\ pc \in {"down", "up"}
    /\ Tick
    /\ UNCHANGED <<bootVars, serving, installs, issued, runs>>

Next ==
    \/ Bootstrapping
    \/ ComeUp
    \/ Crash
    \/ Submit
    \/ SubmitRefused
    \/ IssueLicense
    \/ ChangeLicense
    \/ ClockTick

Spec == Init /\ [][Next]_vars

(***************************************************************************)
(* Fairness: the supervisor starts a process that is down                  *)
(* (deploy/docker-compose.yml, restart: unless-stopped) and the process    *)
(* takes its steps; a fetch, a write, a read or a bind that is tried again *)
(* and again succeeds at some time.                                        *)
(***************************************************************************)
Fairness ==
    /\ WF_vars(Bootstrapping)
    /\ SF_vars(Bootstrapping /\ pc = "down" /\ pc' = "keystore")
    /\ SF_vars(Bootstrapping /\ pc = "keystore" /\ pc' = "genesis")
    /\ SF_vars(Bootstrapping /\ pc = "genesis" /\ pc' = "config")
    /\ SF_vars(Bootstrapping /\ pc = "config" /\ pc' = "run")
    /\ SF_vars(ComeUp)

FairSpec == Spec /\ Fairness
-----------------------------------------------------------------------------
TypeOK ==
    /\ env \in Deployments
    /\ pc \in {"down", "keystore", "genesis", "config", "run", "up"}
    /\ keystore \in {Absent, Torn} \cup 1..(MaxStops + 1)
    /\ stops \in 0..MaxStops
    /\ count \in 0..(MaxAccepted + MaxStops)
    /\ windowStart \in 0..now
    /\ Len(accepted) <= MaxAccepted
    /\ serving => pc = "up"

\* Whatever is cut short on the way, and whatever environment the process is
\* given later on the same data volume (the variables that say where the keystore,
\* the genesis file and the configuration are stay as they are), every start that succeeds is with the key and the genesis of the
\* first one: bootstrap makes them once and a half-written one is never replaced
\* (slc-node.rs, "generate once").
SameIdentity ==
    \A r, q \in runs : r.key = q.key /\ r.genesis = q.genesis

\* A node that has made its own chain is its validator, although the keystore
\* and the genesis file are written separately: otherwise nobody could ever
\* extend that chain.
OwnChainIsItsOwn ==
    \A r \in runs : r.genesis # GivenGenesis => r.key \in r.genesis.validators

\* The volumes SmartLedger has granted this node's chain.
GrantedCaps ==
    {body.cap : body \in {b \in issued :
        \E r \in runs : b.chain \in {AnyChain, r.genesis.chain}}}

\* However often the node restarts and whatever license file it is given, in any
\* stretch of time as long as a window at most twice the largest volume that was
\* granted is accepted, and once more for every start that does reset the count:
\* after a write of the meter's file that failed or was cut short (Meter::persist
\* drops its errors and writes in place), or because Meter::new could not read it
\* (and begins at nothing).
VolumeBound ==
    (\A r \in runs : r.licensed) =>
        \A volume \in GrantedCaps \cup {0} :
            (\A c \in GrantedCaps : c # Unlimited /\ c <= volume) =>
                \A t \in 0..now :
                    AcceptedIn(t, t + WindowSecs) <= volume * (2 + resets)

\* A node configured with a license comes up only on a volume that SmartLedger
\* has granted its chain for the present time, whatever has been put in the
\* license file (README.md: it "refuses to run if it is invalid or expired").
\* The gate compares the file with itself; this compares it with what was signed.
RunsLicensed ==
    [][pc' = "up" /\ pc # "up" /\ configFile.licensed =>
         \E body \in issued :
            /\ body.cap = cap'
            /\ body.chain \in {AnyChain, configFile.genesis.chain}
            /\ body.issuedAt <= now /\ now < body.expiresAt]_vars

\* What keeps a node from coming up: a file that bootstrap never makes again, a
\* license that does not verify or no key to verify it with, or anchor settings that make no backend.
Blocked ==
    \/ keystore = Torn \/ genesisFile = Torn
    \/ /\ env.licensed /\ Parses(genesisFile)
       /\ ~LicenseAccepted(licenseFile, env.issuerKey, now, genesisFile.chain)
    \/ ~BackendBuilt(env.anchor, env.apiKey)

\* Under its supervisor a node comes up again after every stop, unless it stays
\* blocked.
ComesUp == []<>(pc = "up") \/ <>[]Blocked
=============================================================================
