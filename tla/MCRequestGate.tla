--------------------------- MODULE MCRequestGate ---------------------------
(***************************************************************************)
(* An instance of RequestGate for TLC: a message signed with the old       *)
(* secret that arrives at two instances, whose clocks differ, once with    *)
(* and once without an API key, and a message of the same client that      *)
(* carries the same nonce and no signature.                                *)
(***************************************************************************)
EXTENDS RequestGate, TLC

CONSTANTS i1, i2, d1, d2, d3, n1, c1

Sent(signature, apiKey) ==
    [ts |-> 2, nonce |-> n1, client |-> c1, signature |-> signature,
     apiKey |-> apiKey]

Arrivals == (d1 :> Sent("old", TRUE)) @@ (d2 :> Sent("old", FALSE))
            @@ (d3 :> Sent("none", TRUE))

Hosts == (d1 :> i2) @@ (d2 :> i1) @@ (d3 :> i1)

Ahead == (i1 :> 0) @@ (i2 :> 1)

Settings(nonceStore, signerStore, limiter, strict, oldSecret) ==
    [nonceStore |-> nonceStore, signerStore |-> signerStore,
     limiter |-> limiter, ttlSeconds |-> 4, oldSecret |-> oldSecret,
     requireHMAC |-> strict, requireNonce |-> TRUE, requireAPIKey |-> FALSE]

\* The nonce tables of the middleware and of the store are shared in turn; the
\* last deployment has dropped the old secret.
Deployments ==
    {Settings("memory", "postgres", "token_bucket", TRUE, TRUE),
     Settings("redis", "memory", "sliding_window", FALSE, TRUE),
     Settings("redis", "postgres", "sliding_window", FALSE, FALSE)}
=============================================================================
