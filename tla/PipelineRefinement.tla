------------------------- MODULE PipelineRefinement -------------------------
(***************************************************************************)
(* SigningPipeline implements IdempotentSigner: a key counts as sent when  *)
(* a node has acknowledged its transaction, at the step Send, long before  *)
(* the answer is saved and the lock given back.  All the other steps of    *)
(* handlers, monitors and the world stutter or reply.                      *)
(***************************************************************************)
EXTENDS SigningPipeline

SentFor(k) ==
    {[payload |-> Req[s.req].payload, nonce |-> s.nonce] :
        s \in {s \in accepted : s.acked /\ KeyOf(s.req) = k}}

Promise == INSTANCE IdempotentSigner WITH
    Key <- [r \in Requests |-> KeyOf(r)],
    sent <- [k \in Keys |-> SentFor(k)],
    reply <- answer

\* A key is sent at most once and every success reported for it names what
\* was sent, whatever requests, candidates, faults, disconnects and crashes do
\* (ClaimResult to SaveResult of the three handlers), for clients that do not
\* overlap their tries of a key; with overlap Postgres breaks it, see
\* SingleSend.
SentAtMostOnce == Promise!Spec
=============================================================================
