--------------------------- MODULE MCNodeProcess ----------------------------
(***************************************************************************)
(* An instance of NodeProcess for TLC: a node that is deployed on its own, *)
(* or with a genesis from a URL and no license, or with a backend for      *)
(* which it lacks the API key, or with a license and not the issuer's key. *)
(***************************************************************************)
EXTENDS NodeProcess

Anchoring(interval, backend, file) ==
    [interval |-> interval, backend |-> backend, file |-> file, signer |-> TRUE]

MCDeployments ==
    { [genesis |-> "none", licensed |-> TRUE, issuerKey |-> TRUE, apiKey |-> FALSE,
       anchor |-> Anchoring(0, "default", FALSE)],
      [genesis |-> "url", licensed |-> FALSE, issuerKey |-> TRUE, apiKey |-> FALSE,
       anchor |-> Anchoring(2, "default", TRUE)],
      [genesis |-> "json", licensed |-> TRUE, issuerKey |-> TRUE, apiKey |-> FALSE,
       anchor |-> Anchoring(2, "notaryhash", FALSE)],
      [genesis |-> "none", licensed |-> TRUE, issuerKey |-> FALSE, apiKey |-> FALSE,
       anchor |-> Anchoring(0, "default", FALSE)] }

MCGivenGenesis == [chain |-> "shared", validators |-> {1}]

MCOffers == { [issuer |-> SmartLedger, cap |-> 1, chain |-> "own", secs |-> 3],
              [issuer |-> "other", cap |-> 2, chain |-> AnyChain, secs |-> 3] }
=============================================================================
