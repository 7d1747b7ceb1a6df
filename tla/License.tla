------------------------------ MODULE License -------------------------------
(***************************************************************************)
(* Software licenses (crates/license/src/lib.rs) and the check of a node's *)
(* license when it starts (crates/node/src/license.rs).  A signature is    *)
(* its signer and the body it was made over.                               *)
(***************************************************************************)
EXTENDS Files, Integers

CONSTANT SmartLedger     \* the issuer key a node is configured to trust

Unlimited == -1          \* max_notarizations_per_month: None
AnyChain == "any"        \* chain_id: None

\* LicenseIssuer::issue on what `slc license issue` makes of its arguments, at
\* time t.
Issue(issuer, terms, t) ==
    LET body == [cap |-> terms.cap, chain |-> terms.chain,
                 issuedAt |-> t, expiresAt |-> t + terms.secs]
    IN  [license |-> body, issuer |-> issuer, signature |-> <<issuer, body>>]

\* Does not look at the signature.
VerifiesUnsigned(signed, trusted, t, chain) ==
    /\ signed.issuer = trusted
    /\ signed.license.issuedAt <= t /\ t < signed.license.expiresAt
    /\ signed.license.chain \in {AnyChain, chain}

\* SignedLicense::verify.
Verifies(signed, trusted, t, chain) ==
    /\ signed.issuer = trusted
    /\ signed.signature = <<signed.issuer, signed.license>>
    /\ signed.license.issuedAt <= t /\ t < signed.license.expiresAt
    /\ signed.license.chain \in {AnyChain, chain}

\* license::check for a node that has a license configured: the issuer's key is
\* configured too, and the file is there, parses and verifies for the node's
\* chain.
LicenseAccepted(file, issuerKey, t, chain) ==
    /\ issuerKey
    /\ file \notin {Absent, Torn}
    /\ Verifies(file, SmartLedger, t, chain)
=============================================================================
