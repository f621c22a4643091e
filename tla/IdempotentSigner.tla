-------------------------- MODULE IdempotentSigner --------------------------
(***************************************************************************)
(* What the signer promises to a client that sends a request several times *)
(* under one idempotency key, without a word about locks, nonces, nodes,   *)
(* monitors or crashes: the key is sent at most once, and every success    *)
(* that is reported for it names what was sent.                            *)
(***************************************************************************)
CONSTANTS
    Keys,      \* idempotency keys
    NoKey,     \* the empty key, which promises nothing
    Requests,  \* requests of clients
    Key,       \* request -> its key
    Tx,        \* transactions
    NoTx       \* no transaction

VARIABLES
    sent,      \* key -> the transactions a node has confirmed to have taken
    reply      \* request -> what the client was told

Errors == {"refused", "409", "502", "503"}

Init ==
    /\ sent = [k \in Keys |-> {}]
    /\ reply = [r \in Requests |-> [code |-> "none", tx |-> NoTx]]

\* The one transaction of a key.
Execute(k) ==
    /\ UNCHANGED reply
    /\ sent[k] = {}
    /\ \E tx \in sent'[k] \cap Tx : sent' = [sent EXCEPT ![k] = {tx}]

Tell(r, code, tx) ==
    /\ reply[r].code = "none"
    /\ reply' = [reply EXCEPT ![r] = [code |-> code, tx |-> tx]]
    /\ UNCHANGED sent

\* Success is reported after the fact, and of the transaction of the key.
Succeed(r) ==
    \E tx \in {reply'[r].tx} \cap Tx :
        /\ Key[r] # NoKey => tx \in sent[Key[r]]
        /\ Tell(r, "200", tx)

Fail(r) == \E code \in Errors : Tell(r, code, NoTx)

Next ==
    \/ \E k \in Keys : Execute(k)
    \/ \E r \in Requests : reply'[r] # reply[r] /\ (Succeed(r) \/ Fail(r))

Spec == Init /\ [][Next]_<<sent, reply>>
=============================================================================
