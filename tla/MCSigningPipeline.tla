-------------------------- MODULE MCSigningPipeline --------------------------
(***************************************************************************)
(* Instances of SigningPipeline for TLC: what the requests of a run ask    *)
(* for.  All of them are for one token and ask for one unit of it.  The    *)
(* allowlist has its contract, which requests may spell in two ways.       *)
(***************************************************************************)
EXTENDS PipelineRefinement, TLC

CONSTANTS k1, k2, i1, i2, r1, r2, r3, pay1, pay2, pay3, usdt, lower

Spellings == [t \in {usdt, lower} |-> usdt]

Ask(kind, key, op, payload, shape, host) ==
    [kind |-> kind, key |-> key, op |-> op, network |-> "BSC", token |-> usdt,
     amount |-> 1, blank |-> FALSE, payload |-> payload, shape |-> shape,
     host |-> host]

\* A transfer and its retry at another instance.
RetryAcrossInstances ==
    (r1 :> Ask("transfer", k1, NoKey, pay1, "ok", i1))
    @@ (r2 :> Ask("transfer", k1, NoKey, pay1, "ok", i2))

\* A settlement keyed by its operation id; its retry, which spells the token in
\* another way and has a blank after the amount; and a transfer that has no key
\* at all and is for the other network of the same chain.
SettlementAndKeyless ==
    (r1 :> Ask("settlement", NoKey, k1, pay1, "ok", i1))
    @@ (r2 :> [Ask("settlement", k1, k1, pay1, "ok", i1)
                 EXCEPT !.token = lower, !.blank = TRUE])
    @@ (r3 :> [Ask("transfer", NoKey, NoKey, pay2, "ok", i1)
                 EXCEPT !.network = "EVM"])

\* A transfer that is sent up to three times.
ThreeTries ==
    [r \in {r1, r2, r3} |->
        Ask("transfer", k1, NoKey, pay1, "ok", IF r = r2 THEN i2 ELSE i1)]

\* A transfer, its retry, and a contract call that has no key.
RetryAndAnother ==
    (r1 :> Ask("transfer", k1, NoKey, pay1, "ok", i1))
    @@ (r2 :> Ask("transfer", k1, NoKey, pay1, "ok", i1))
    @@ (r3 :> Ask("contractCall", NoKey, NoKey, pay2, "ok", i1))

\* Two transfers of different orders.
TwoOrders ==
    (r1 :> Ask("transfer", k1, NoKey, pay1, "ok", i1))
    @@ (r2 :> Ask("transfer", k2, NoKey, pay2, "ok", i1))
=============================================================================
