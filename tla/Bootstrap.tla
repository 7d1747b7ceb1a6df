----------------------------- MODULE Bootstrap ------------------------------
(***************************************************************************)
(* How a node's process starts (crates/node/src/bin/slc-node.rs): the      *)
(* container entrypoint `bootstrap`, which makes the keystore, the genesis *)
(* file and the configuration that are not there yet and then runs the     *)
(* node, and `run`, which starts it from a configuration.  The process may *)
(* be stopped between and within the writes, and the operator may give it  *)
(* another environment then.                                               *)
(***************************************************************************)
EXTENDS License, FiniteSets

CONSTANTS
    Deployments,    \* the environments an operator gives the process:
                    \*   genesis  where the genesis comes from: "json", "url", "none"
                    \*   licensed whether SLC_LICENSE_FILE is set
                    \*   issuerKey whether SLC_LICENSE_ISSUER_PUBKEY is a key
                    \*   anchor   the anchor settings: interval, backend ("default"
                    \*            if it is not set), file whether anchor_file is
                    \*            set, signer whether the anchor key loads
                    \*   apiKey   whether the variable with the API key is set
    Features,       \* the features the program was built with
    GivenGenesis,   \* the genesis the JSON or the URL gives
    OwnChain,       \* SLC_CHAIN_ID
    MaxStops        \* bound: how often the process is stopped

VARIABLES
    env,            \* the environment in force
    pc,             \* where the process is: "down", a step of bootstrap, or "up"
    keystore,       \* the files on the data volume
    genesisFile,
    configFile,
    licenseFile,
    pk,             \* the key the process has read or made, or 0
    stops

bootVars == <<env, pc, keystore, genesisFile, configFile, licenseFile, pk, stops>>

ASSUME BootstrapAssumption == MaxStops \in Nat

BootInit ==
    /\ env \in Deployments
    /\ pc = "down"
    /\ keystore = Absent
    /\ genesisFile = Absent
    /\ configFile = Absent
    /\ licenseFile = Absent
    /\ pk = 0
    /\ stops = 0

\* A key that has never been saved: a process that was not stopped either saved
\* the one it made or leaves nothing of it.
FreshKey == stops + 1

Exists(file) == file # Absent
Parses(file) == file \notin {Absent, Torn}

\* The supervisor starts `slc-node bootstrap`, or an operator starts
\* `slc-node run` on the configuration there is.
Start ==
    /\ pc = "down"
    /\ pc' \in {"keystore"} \cup (IF Exists(configFile) THEN {"run"} ELSE {})
    /\ UNCHANGED <<env, keystore, genesisFile, configFile, licenseFile, pk, stops>>

\* keystore::load.
LoadKeystore ==
    /\ Exists(keystore)
    /\ \E key \in Read(keystore) :
         /\ pc' = IF Parses(key) THEN "genesis" ELSE "down"
         /\ pk' = IF Parses(key) THEN key ELSE 0
    /\ UNCHANGED keystore

\* Goes on with the key although it could not be saved.
MakeKeystoreUnsaved ==
    /\ keystore' \in Written(keystore, FreshKey)
    /\ pc' = "genesis"
    /\ pk' = FreshKey

\* keystore::generate, which saves before it returns the key.
MakeKeystore ==
    /\ keystore' \in Written(keystore, FreshKey)
    /\ pc' = IF keystore' = FreshKey THEN "genesis" ELSE "down"
    /\ pk' = IF keystore' = FreshKey THEN FreshKey ELSE 0

\* Makes a key on every start.
KeystoreEveryTime ==
    /\ pc = "keystore"
    /\ MakeKeystore
    /\ UNCHANGED <<env, genesisFile, configFile, licenseFile, stops>>

\* Step 1 of bootstrap.
OpenKeystore ==
    /\ pc = "keystore"
    /\ LoadKeystore \/ (~Exists(keystore) /\ MakeKeystore)
    /\ UNCHANGED <<env, genesisFile, configFile, licenseFile, stops>>

\* What step 2 writes when there is no genesis file.  The text that the URL
\* answers with is written as it comes.
NewGenesis ==
    IF env.genesis = "none" THEN {[chain |-> OwnChain, validators |-> {pk}]}
    ELSE {GivenGenesis} \cup (IF env.genesis = "url" THEN {Torn} ELSE {})

\* Step 2 of bootstrap.
ResolveGenesis ==
    /\ pc = "genesis"
    /\ \/ /\ Exists(genesisFile)
          /\ pc' = "config"
          /\ UNCHANGED genesisFile
       \/ /\ ~Exists(genesisFile)
          /\ \E g \in NewGenesis :
               /\ genesisFile' \in Written(genesisFile, g)
               /\ pc' = IF genesisFile' = g THEN "config" ELSE "down"
    /\ pk' = IF pc' = "down" THEN 0 ELSE pk
    /\ UNCHANGED <<env, keystore, configFile, licenseFile, stops>>

\* Step 2 when the URL cannot be fetched.
FetchFails ==
    /\ pc = "genesis"
    /\ ~Exists(genesisFile)
    /\ env.genesis = "url"
    /\ pc' = "down"
    /\ pk' = 0
    /\ UNCHANGED <<env, keystore, genesisFile, configFile, licenseFile, stops>>

\* write_config.
NewConfig ==
    [genesis |-> genesisFile, licensed |-> env.licensed, issuerKey |-> env.issuerKey,
     anchor |-> env.anchor]

\* Keeps the configuration that is there.
WriteConfigOnce ==
    /\ pc = "config"
    /\ \/ /\ ~Exists(configFile) /\ Parses(genesisFile)
          /\ configFile' \in Written(configFile, NewConfig)
          /\ pc' = IF configFile' = NewConfig THEN "run" ELSE "down"
       \/ /\ Exists(configFile)
          /\ pc' = "run"
          /\ UNCHANGED configFile
       \/ /\ ~Parses(genesisFile)
          /\ pc' = "down"
          /\ UNCHANGED configFile
    /\ pk' = IF pc' = "down" THEN 0 ELSE pk
    /\ UNCHANGED <<env, keystore, genesisFile, licenseFile, stops>>

\* Step 3 of bootstrap.
WriteConfig ==
    /\ pc = "config"
    /\ \/ /\ Parses(genesisFile)
          /\ configFile' \in Written(configFile, NewConfig)
          /\ pc' = IF configFile' = NewConfig THEN "run" ELSE "down"
       \/ /\ \E genesis \in Read(genesisFile) : ~Parses(genesis)
          /\ pc' = "down"
          /\ UNCHANGED configFile
    /\ pk' = IF pc' = "down" THEN 0 ELSE pk
    /\ UNCHANGED <<env, keystore, genesisFile, licenseFile, stops>>

\* anchoring::backend_name.
BackendName(anchor) ==
    IF anchor.backend # "default" THEN anchor.backend
    ELSE IF anchor.file THEN "file" ELSE "mock"

\* The anchor identity and anchoring::build_backend: anchoring is off, or the
\* settings name a backend and have what it needs.
BackendBuilt(anchor, apiKey) ==
    anchor.interval = 0 \/
        /\ anchor.signer
        /\ \/ BackendName(anchor) = "mock"
           \/ BackendName(anchor) = "file" /\ anchor.file
           \/ BackendName(anchor) = "notaryhash" /\ "notaryhash" \in Features /\ apiKey

\* The gates of `run` that depend on the files and the clock: the configuration
\* and the keystore load, the license verifies, the anchor backend is built.
MayRun(t) ==
    /\ Parses(configFile)
    /\ Parses(keystore)
    /\ configFile.licensed =>
         LicenseAccepted(licenseFile, configFile.issuerKey, t, configFile.genesis.chain)
    /\ BackendBuilt(configFile.anchor, env.apiKey)

\* `run` passes its gates and spawns the node.
Run(t) ==
    /\ pc = "run"
    /\ MayRun(t)
    /\ pc' = "up"
    /\ pk' = keystore
    /\ UNCHANGED <<env, keystore, genesisFile, configFile, licenseFile, stops>>

\* `run` returns a failure: at a gate, or because the address is taken.
RunFails ==
    /\ pc = "run"
    /\ pc' = "down"
    /\ pk' = 0
    /\ UNCHANGED <<env, keystore, genesisFile, configFile, licenseFile, stops>>

\* The process is stopped, perhaps in the write of the step it is in, and the
\* next one is given the environment e.
Stop(e) ==
    /\ pc # "down"
    /\ stops < MaxStops
    /\ stops' = stops + 1
    /\ pc' = "down"
    /\ pk' = 0
    /\ env' = e
    /\ keystore' \in IF pc = "keystore" /\ ~Exists(keystore)
                     THEN CutShort(keystore, FreshKey) ELSE {keystore}
    /\ genesisFile' \in IF pc = "genesis" /\ ~Exists(genesisFile)
                        THEN UNION {CutShort(genesisFile, g) : g \in NewGenesis}
                        ELSE {genesisFile}
    /\ configFile' \in IF pc = "config" /\ Parses(genesisFile)
                       THEN CutShort(configFile, NewConfig) ELSE {configFile}
    /\ UNCHANGED licenseFile

\* `slc license issue`, and the license put where the node looks for it.
InstallLicense(issuer, terms, t) ==
    /\ licenseFile' = Issue(issuer, terms, t)
    /\ UNCHANGED <<env, pc, keystore, genesisFile, configFile, pk, stops>>

\* The license file is changed by hand.
EditLicense(c) ==
    /\ Parses(licenseFile)
    /\ licenseFile' = [licenseFile EXCEPT !.license.cap = c]
    /\ UNCHANGED <<env, pc, keystore, genesisFile, configFile, pk, stops>>
=============================================================================
