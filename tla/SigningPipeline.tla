--------------------------- MODULE SigningPipeline ---------------------------
(***************************************************************************)
(* What happens to a signing request (main.go): /hd/transfer,              *)
(* /hd/contract-call and /settlements/execute claim the idempotency key,   *)
(* check the policies, try the RPC candidates one after the other (pending *)
(* nonce, reservation, signature, broadcast, bookkeeping), save the answer *)
(* and reply; the lifecycle monitor follows the transactions on the chain. *)
(*                                                                         *)
(* A request is a goroutine; between two steps of it any other may run, on *)
(* the same instance of the signer or on another one that shares the       *)
(* Postgres store.  Every statement of the store and every call of a node  *)
(* is a step.  An instance may crash, a client may disconnect (which       *)
(* cancels the context all later calls use), the store and the nodes may   *)
(* fail or lose an acknowledgement.                                        *)
(***************************************************************************)
EXTENDS SignerStore

CONSTANTS
    Instances,      \* signer processes
    Requests,       \* HTTP requests that pass the gate
    Req,            \* what each request asks for, a function on Requests
    Candidates,     \* handles that sendCandidates returns (at most 2)
    Overlap,        \* TRUE: a client may retry a key still being executed
    ContractOf,     \* the contract a spelling of Tokens stands for
    AllowedNetworks,    \* SIGNER_ALLOWED_NETWORKS
    AllowedContracts,   \* the token allowlist, {} allows any
    MaxTransferAmount,  \* the limit of one request, 0 is no limit
    DailyLimit,     \* TREASURY_MAX_DAILY_OUTFLOW, 0 is no limit
    LockThreshold,  \* TREASURY_LOCKDOWN_THRESHOLD, 0 is none
    RawScale,       \* raw units (wei) of one token
    MaxLag,         \* bound on how far a node's pending nonce is behind
    MaxFaults,      \* bound on failures of the store and of the nodes
    MaxCancels,     \* bound on clients that disconnect
    MaxCrashes      \* bound on crashes of instances

(***************************************************************************)
(* kind is the route.  key is the idempotencyKey sent, op the operationId  *)
(* of a settlement.  amount 0 stands for none, or for one that is not a    *)
(* positive number; blank says that it is sent with blanks around it.      *)
(* shape tells what is wrong with the rest, "ok" is nothing:               *)
(*   address     recipient, target, token or vault is no address           *)
(*   target      a contract call or a vault that is not allowed            *)
(*   selector    calldata that does not call aggregate3                    *)
(*   terms       a settlement whose ids, chain, token or policy version    *)
(*               are missing or not the configured ones                    *)
(*   operation   an operation id that is not the hash of the settlement    *)
(*   expired     a settlement past its expiresAt                           *)
(*   derivation  a derivation index, which is refused after the treasury   *)
(*   wrongChain  a chain id that the nodes do not have                     *)
(*   malformed   passes the policy and cannot be encoded: an amount such   *)
(*               as 1e3 that ParseFloat reads and parseUnits rejects,      *)
(*               calldata of odd length                                    *)
(***************************************************************************)
Request ==
    [kind : {"transfer", "contractCall", "settlement"},
     key : Keys \cup {NoKey}, op : Keys \cup {NoKey},
     network : Networks, token : Tokens, amount : Nat, blank : BOOLEAN,
     payload : Payloads, host : Instances,
     shape : {"ok", "address", "target", "selector", "terms", "operation",
              "expired", "derivation", "wrongChain", "malformed"}]

ASSUME PipelineAssumption ==
    /\ Req \in [Requests -> Request]
    /\ Candidates \in Nat \ {0}
    /\ Overlap \in BOOLEAN
    /\ MaxTransferAmount \in Nat
    /\ DailyLimit \in Nat
    /\ LockThreshold \in Nat
    /\ RawScale \in Nat \ {0}
    /\ MaxLag \in Nat
    /\ MaxFaults \in Nat
    /\ MaxCancels \in Nat
    /\ MaxCrashes \in Nat
    \* memory stores are private to their process
    /\ StoreKind = "memory" => \A i, j \in Instances : i = j

VARIABLES
    pc,        \* where the handler of a request is
    ctx,       \* r.Context(): "live", or "cancelled" by a disconnect
    attempt,   \* the candidate being tried, 1..Candidates
    pending,   \* local chainPending of the attempt
    nonce,     \* local nonce of the attempt
    answer,    \* the reply: status code and transaction
    batch,     \* what the monitor of an instance still has to check, or Hung
    slots,     \* the chain and its mempool: nonce of the wallet -> transaction
    base,      \* the next nonce the chain will execute
    reverted,  \* the executed nonces whose receipt has status failed
    signed,    \* history: signatures made
    accepted,  \* history: broadcasts a node took, and whether it said so
    faults, cancels, crashes

localVars == <<attempt, pending, nonce>>
chainVars == <<slots, base, reverted>>
history == <<signed, accepted>>
vars == <<storeVars, pc, ctx, localVars, answer, batch, chainVars, history,
          faults, cancels, crashes>>

Executing == {"validate", "dial", "reserve", "build", "signFailed", "send",
              "markSubmitted", "record", "markFailed", "recordFailed",
              "release", "save"}

Labels == {"new", "claim", "done", "lost"} \cup Executing

\* The steps of an attempt that own a reserved nonce.
HoldsNonce == {"build", "signFailed", "send", "markSubmitted", "record",
               "markFailed", "recordFailed"}

Codes == {"none", "refused", "200", "409", "502", "503"}

Signature == [req : Requests, attempt : 0..Candidates, nonce : Nonces]

Broadcast == [req : Requests, attempt : 0..Candidates, nonce : Nonces,
              acked : BOOLEAN]

TypeOK ==
    /\ StoreTypeOK
    /\ pc \in [Requests -> Labels]
    /\ ctx \in [Requests -> {"live", "cancelled"}]
    /\ attempt \in [Requests -> 0..Candidates]
    /\ pending \in [Requests -> Nonces]
    /\ nonce \in [Requests -> Nonces]
    /\ answer \in [Requests -> [code : Codes, tx : Tx \cup {NoTx}]]
    /\ batch \in [Instances -> SUBSET (Tx \cup {NoTx})]
    /\ slots \in [Nonces -> Tx \cup {NoTx}]
    /\ base \in 0..(MaxNonce + 1)
    /\ reverted \subseteq Nonces
    /\ signed \subseteq Signature
    /\ accepted \subseteq Broadcast
    /\ faults \in 0..MaxFaults
    /\ cancels \in 0..MaxCancels
    /\ crashes \in 0..MaxCrashes

Init ==
    /\ StoreInit
    /\ pc = [r \in Requests |-> "new"]
    /\ ctx = [r \in Requests |-> "live"]
    /\ attempt = [r \in Requests |-> 0]
    /\ pending = [r \in Requests |-> 0]
    /\ nonce = [r \in Requests |-> 0]
    /\ answer = [r \in Requests |-> [code |-> "none", tx |-> NoTx]]
    /\ batch = [i \in Instances |-> {}]
    /\ slots = [n \in Nonces |-> NoTx]
    /\ base = 0
    /\ reverted = {}
    /\ signed = {}
    /\ accepted = {}
    /\ faults = 0
    /\ cancels = 0
    /\ crashes = 0

-----------------------------------------------------------------------------
(***************************************************************************)
(* What the code reads off a request.                                      *)
(***************************************************************************)

\* A settlement without a key is keyed by its operation id.
KeyOf(r) ==
    IF Req[r].kind = "settlement" /\ Req[r].key = NoKey
    THEN Req[r].op ELSE Req[r].key

Network(r) == Req[r].network

TxOf(r) == [payload |-> Req[r].payload, nonce |-> nonce[r]]

WithinTreasury(r) ==
    LET next == DailySubmittedOutflow(Req[r].token, Network(r)) + Req[r].amount
    IN  /\ LockThreshold > 0 => next <= LockThreshold
        /\ DailyLimit > 0 => next <= DailyLimit

NetworkAllowed(r) == Network(r) \in AllowedNetworks

\* The allowlist holds the contracts in upper case: any spelling passes.
TokenAllowed(r) ==
    AllowedContracts = {} \/ ContractOf[Req[r].token] \in AllowedContracts

AmountAllowed(r) == MaxTransferAmount > 0 => Req[r].amount <= MaxTransferAmount

TransferPolicy(r) ==
    /\ NetworkAllowed(r)
    /\ Req[r].amount > 0 /\ AmountAllowed(r)
    /\ TokenAllowed(r)
    /\ Req[r].shape # "address"

\* A contract call need not declare an amount.
ContractCallPolicy(r) ==
    /\ NetworkAllowed(r)
    /\ Req[r].shape \notin {"address", "target", "selector"}
    /\ AmountAllowed(r)
    /\ TokenAllowed(r)

\* The limit of one request is not applied to a settlement.
SettlementPolicy(r) ==
    /\ NetworkAllowed(r)
    /\ Req[r].op # NoKey
    /\ TokenAllowed(r)
    /\ Req[r].amount > 0
    /\ Req[r].shape \notin {"address", "target", "terms", "operation", "expired"}

TransferPermitted(r) ==
    TransferPolicy(r) /\ WithinTreasury(r) /\ Req[r].shape # "derivation"

\* The treasury is asked only when an amount is declared.
ContractCallPermitted(r) ==
    /\ ContractCallPolicy(r)
    /\ Req[r].amount > 0 => WithinTreasury(r)
    /\ Req[r].shape # "derivation"

\* A settlement does not ask the treasury.
SettlementPermitted(r) == SettlementPolicy(r)

Permitted(r) ==
    CASE Req[r].kind = "transfer"     -> TransferPermitted(r)
      [] Req[r].kind = "contractCall" -> ContractCallPermitted(r)
      [] Req[r].kind = "settlement"   -> SettlementPermitted(r)

\* Whether the policy check gets as far as the query of the treasury.
AsksTreasury(r) ==
    \/ Req[r].kind = "transfer" /\ TransferPolicy(r)
    \/ Req[r].kind = "contractCall" /\ ContractCallPolicy(r) /\ Req[r].amount > 0

\* parseUnits of the amount (transfer) and decodeHexData of the calldata
\* (contract call), which come after the reservation; vaultPayoutData of a
\* settlement cannot fail on what the policy lets through.
TransferEncodes(r) == Req[r].shape # "malformed"
ContractCallEncodes(r) == Req[r].shape # "malformed"
SettlementEncodes(r) == TRUE

Encodes(r) ==
    CASE Req[r].kind = "transfer"     -> TransferEncodes(r)
      [] Req[r].kind = "contractCall" -> ContractCallEncodes(r)
      [] Req[r].kind = "settlement"   -> SettlementEncodes(r)

\* The ledger row of an attempt.  A transfer and a contract call record the
\* amount in tokens (a contract call "0" when it declares none), a settlement
\* AmountRaw.  The text is stored as it was sent: the policies and the encoding
\* trim the blanks around it, the ledger does not.
LedgerItem(r, status, amount) ==
    [hash |-> TxOf(r), network |-> Network(r), token |-> Req[r].token,
     amount |-> amount, reads |-> ~Req[r].blank, status |-> status, day |-> day]

TransferItem(r, status) == LedgerItem(r, status, Req[r].amount)
ContractCallItem(r, status) == LedgerItem(r, status, Req[r].amount)
SettlementItem(r, status) == LedgerItem(r, status, Req[r].amount * RawScale)

Item(r, status) ==
    CASE Req[r].kind = "transfer"     -> TransferItem(r, status)
      [] Req[r].kind = "contractCall" -> ContractCallItem(r, status)
      [] Req[r].kind = "settlement"   -> SettlementItem(r, status)

-----------------------------------------------------------------------------
(***************************************************************************)
(* Outcomes of the calls a handler makes.  A cancelled context makes every *)
(* later call of Postgres or of a node fail; the memory store takes no     *)
(* context and never fails.                                                *)
(***************************************************************************)
Count(r, o) ==
    faults' = IF o = "ok" \/ ctx[r] = "cancelled" THEN faults ELSE faults + 1

\* The outcome o of a call of the store, issued or not.
StoreOutcome(r, o, issued) ==
    /\ o \in Outcomes
    /\ ctx[r] = "cancelled" /\ StoreKind = "postgres" /\ issued => o = "failed"
    /\ o # "ok" => /\ StoreKind = "postgres"
                   /\ issued
                   /\ ctx[r] = "cancelled" \/ faults < MaxFaults
    /\ Count(r, o)

\* The outcome o of a call of a node.
NodeOutcome(r, o) ==
    /\ o \in Outcomes
    /\ ctx[r] = "cancelled" => o = "failed"
    /\ o # "ok" => ctx[r] = "cancelled" \/ faults < MaxFaults
    /\ Count(r, o)

Goto(r, label) == pc' = [pc EXCEPT ![r] = label]

Reply(r, code, tx) ==
    /\ Goto(r, "done")
    /\ answer' = [answer EXCEPT ![r] = [code |-> code, tx |-> tx]]

\* Mutant: the bound of the loop is off by one.
FailAttemptLate(r) ==
    /\ IF attempt[r] <= Candidates
       THEN /\ Goto(r, "dial")
            /\ attempt' = [attempt EXCEPT ![r] = @ + 1]
       ELSE /\ Goto(r, "release")
            /\ UNCHANGED attempt
    /\ pending' = [pending EXCEPT ![r] = 0]
    /\ nonce' = [nonce EXCEPT ![r] = 0]

\* Mutant: the same candidate is tried again and again.
FailAttemptRetries(r) ==
    /\ Goto(r, "dial")
    /\ UNCHANGED attempt
    /\ pending' = [pending EXCEPT ![r] = 0]
    /\ nonce' = [nonce EXCEPT ![r] = 0]

\* Leave the body of the loop over the candidates with an error: the next
\* candidate is dialled, or the handler fails with the last error.  The
\* variables of the attempt go out of scope.
FailAttempt(r) ==
    /\ IF attempt[r] < Candidates
       THEN /\ Goto(r, "dial")
            /\ attempt' = [attempt EXCEPT ![r] = @ + 1]
       ELSE /\ Goto(r, "release")
            /\ UNCHANGED attempt
    /\ pending' = [pending EXCEPT ![r] = 0]
    /\ nonce' = [nonce EXCEPT ![r] = 0]

-----------------------------------------------------------------------------
(***************************************************************************)
(* The handler: claim, execute, save or release.                           *)
(***************************************************************************)

\* Without Overlap a key is sent again only when the handlers of its earlier
\* tries have ended.  That is more than a client can see: one that takes a
\* broken connection for the end of its request may overlap its own retry.
MayArrive(r) ==
    Overlap \/ \A q \in Requests \ {r} :
                  KeyOf(q) = KeyOf(r) => pc[q] \in {"new", "done", "lost"}

\* Everything before ClaimResult that ends the request: lockdown, missing
\* context, unreadable body, store nonce replayed or not stored, bad JSON.
RefuseEarly(r) ==
    /\ pc[r] = "new"
    /\ MayArrive(r)
    /\ Reply(r, "refused", NoTx)
    /\ UNCHANGED <<storeVars, ctx, localVars, batch, chainVars, history,
                   faults, cancels, crashes>>

\* ClaimResult with the empty key claims without looking.
ClaimNothing(r) ==
    /\ pc[r] = "new"
    /\ MayArrive(r)
    /\ KeyOf(r) = NoKey
    /\ Goto(r, "validate")
    /\ UNCHANGED <<storeVars, ctx, localVars, answer, batch, chainVars, history,
                   faults, cancels, crashes>>

\* The first statement of the Postgres ClaimResult.
LookupResult(r) ==
    /\ pc[r] = "new"
    /\ MayArrive(r)
    /\ StoreKind = "postgres"
    /\ KeyOf(r) # NoKey
    /\ \E o \in Outcomes :
         /\ StoreOutcome(r, o, TRUE)
         /\ \/ /\ o # "ok"
               /\ Reply(r, "503", NoTx)
            \/ /\ o = "ok"
               /\ GetResult(KeyOf(r)) # NoTx
               /\ Reply(r, "200", GetResult(KeyOf(r)))
            \/ /\ o = "ok"
               /\ GetResult(KeyOf(r)) = NoTx
               /\ Goto(r, "claim")
               /\ UNCHANGED answer
    /\ UNCHANGED <<storeVars, ctx, localVars, batch, chainVars, history,
                   cancels, crashes>>

\* Its second statement, a separate one: the key may have been executed, and
\* its lock deleted, since the lookup.
ClaimLock(r) ==
    /\ pc[r] = "claim"
    /\ \E o \in Outcomes :
         /\ StoreOutcome(r, o, TRUE)
         /\ \/ /\ o # "ok"
               /\ Reply(r, "503", NoTx)
            \/ /\ o = "ok"
               /\ Claimable(KeyOf(r))
               /\ Goto(r, "validate")
               /\ UNCHANGED answer
            \/ /\ o = "ok"
               /\ ~Claimable(KeyOf(r))
               /\ Reply(r, "409", NoTx)
         /\ Perform(InsertLock(KeyOf(r)), o)
    /\ UNCHANGED <<ctx, localVars, batch, chainVars, history, cancels, crashes>>

\* The memory ClaimResult, both steps under the mutex.
MemoryClaimResult(r) ==
    /\ pc[r] = "new"
    /\ MayArrive(r)
    /\ StoreKind = "memory"
    /\ KeyOf(r) # NoKey
    /\ \/ /\ GetResult(KeyOf(r)) # NoTx
          /\ Reply(r, "200", GetResult(KeyOf(r)))
          /\ UNCHANGED storeVars
       \/ /\ GetResult(KeyOf(r)) = NoTx
          /\ ~Claimable(KeyOf(r))
          /\ Reply(r, "409", NoTx)
          /\ UNCHANGED storeVars
       \/ /\ GetResult(KeyOf(r)) = NoTx
          /\ Claimable(KeyOf(r))
          /\ Goto(r, "validate")
          /\ InsertLock(KeyOf(r))
          /\ UNCHANGED answer
    /\ UNCHANGED <<ctx, localVars, batch, chainVars, history,
                   faults, cancels, crashes>>

\* The policy checks at the head of executeTransfer, executeContractCall and
\* executeSettlement; the outflow is read here and not again.
Validate(r) ==
    /\ pc[r] = "validate"
    /\ \E o \in Outcomes :
         /\ StoreOutcome(r, o, AsksTreasury(r))
         /\ IF o = "ok" /\ Permitted(r)
            THEN /\ Goto(r, "dial")
                 /\ attempt' = [attempt EXCEPT ![r] = 1]
            ELSE /\ Goto(r, "release")
                 /\ UNCHANGED attempt
    /\ UNCHANGED <<storeVars, ctx, pending, nonce, answer, batch, chainVars,
                   history, cancels, crashes>>

\* The error is ignored and the answer is 502 whether or not the lock went.
Release(r) ==
    /\ pc[r] = "release"
    /\ \E o \in Outcomes :
         /\ StoreOutcome(r, o, KeyOf(r) # NoKey)
         /\ Perform(ReleaseClaim(KeyOf(r)), o)
    /\ Reply(r, "502", NoTx)
    /\ UNCHANGED <<ctx, localVars, batch, chainVars, history, cancels, crashes>>

\* Mutant: when the answer cannot be saved the claim is given back.
SaveReleases(r) ==
    /\ pc[r] = "save"
    /\ \E o \in Outcomes :
         /\ StoreOutcome(r, o, KeyOf(r) # NoKey)
         /\ IF o = "ok"
            THEN SaveResult(KeyOf(r), TxOf(r)) /\ Reply(r, "200", TxOf(r))
            ELSE ReleaseClaim(KeyOf(r)) /\ Reply(r, "503", NoTx)
    /\ UNCHANGED <<ctx, localVars, batch, chainVars, history, cancels, crashes>>

\* When the answer cannot be saved the lock stays and the reply is 503.
Save(r) ==
    /\ pc[r] = "save"
    /\ \E o \in Outcomes :
         /\ StoreOutcome(r, o, KeyOf(r) # NoKey)
         /\ Perform(SaveResult(KeyOf(r), TxOf(r)), o)
         /\ IF o = "ok" THEN Reply(r, "200", TxOf(r)) ELSE Reply(r, "503", NoTx)
    /\ UNCHANGED <<ctx, localVars, batch, chainVars, history, cancels, crashes>>

-----------------------------------------------------------------------------
(***************************************************************************)
(* One attempt with one candidate.                                         *)
(***************************************************************************)

\* g is the pending nonce of the wallet: the first one after the executed
\* ones that no transaction of the mempool spends.
IsFirstGap(g) ==
    /\ g >= base
    /\ slots[g] = NoTx
    /\ \A m \in Nonces : base <= m /\ m < g => slots[m] # NoTx

\* What a node may answer: the pending nonce, or one it had a while ago.
ReportedPending(p) ==
    \E g \in Nonces : IsFirstGap(g) /\ p <= g /\ g <= p + MaxLag

\* DialContext, ChainID and PendingNonceAt.
Dial(r) ==
    /\ pc[r] = "dial"
    /\ \E o \in Outcomes :
         /\ NodeOutcome(r, o)
         /\ \/ /\ o # "ok" \/ Req[r].shape = "wrongChain"
               /\ FailAttempt(r)
            \/ /\ o = "ok"
               /\ Req[r].shape # "wrongChain"
               /\ \E p \in Nonces : /\ ReportedPending(p)
                                    /\ pending' = [pending EXCEPT ![r] = p]
               /\ Goto(r, "reserve")
               /\ UNCHANGED <<attempt, nonce>>
    /\ UNCHANGED <<storeVars, ctx, answer, batch, chainVars, history,
                   cancels, crashes>>

\* ReserveChainNonce, a transaction of its own, and the nonce_reserved event.
Reserve(r) ==
    /\ pc[r] = "reserve"
    /\ \E n \in Nonces, o \in Outcomes :
         /\ IsNextNonce(Network(r), pending[r], n)
         /\ StoreOutcome(r, o, TRUE)
         /\ IF NonceRowFree(Network(r), n)
            THEN Perform(InsertNonceRow(Network(r), n), o)
            ELSE UNCHANGED storeVars
         /\ IF NonceRowFree(Network(r), n) /\ o = "ok"
            THEN /\ nonce' = [nonce EXCEPT ![r] = n]
                 /\ Goto(r, "build")
                 /\ UNCHANGED <<attempt, pending>>
            ELSE FailAttempt(r)
    /\ UNCHANGED <<ctx, answer, batch, chainVars, history, cancels, crashes>>

\* SuggestGasPrice, the encoding, EstimateGas (whose error is ignored) and
\* SignTx.  An error of the first two leaves the nonce reserved for good; an
\* error of SignTx ("unknown" here) is followed by MarkChainNonceFailed.
Build(r) ==
    /\ pc[r] = "build"
    /\ \E o \in Outcomes :
         /\ NodeOutcome(r, o)
         /\ \/ /\ o = "failed" \/ ~Encodes(r)
               /\ FailAttempt(r)
               /\ UNCHANGED signed
            \/ /\ o = "unknown" /\ Encodes(r)
               /\ Goto(r, "signFailed")
               /\ UNCHANGED <<localVars, signed>>
            \/ /\ o = "ok" /\ Encodes(r)
               /\ Goto(r, "send")
               /\ signed' = signed \cup {[req |-> r, attempt |-> attempt[r],
                                          nonce |-> nonce[r]]}
               /\ UNCHANGED localVars
    /\ UNCHANGED <<storeVars, ctx, answer, batch, chainVars, accepted,
                   cancels, crashes>>

\* A node takes a transaction whose nonce is not executed yet; a transaction
\* that already has the nonce is replaced, or the new one is rejected.
TakeTransaction(tx) ==
    /\ tx.nonce >= base
    /\ slots' = [slots EXCEPT ![tx.nonce] = tx]
    /\ UNCHANGED <<base, reverted>>

LogBroadcast(r, acked) ==
    accepted' = accepted \cup {[req |-> r, attempt |-> attempt[r],
                                nonce |-> nonce[r], acked |-> acked]}

\* Mutant: the error of SendTransaction is not looked at.
SendUnchecked(r) ==
    /\ pc[r] = "send"
    /\ Goto(r, "markSubmitted")
    /\ \E o \in Outcomes :
         /\ NodeOutcome(r, o)
         /\ IF o = "failed" THEN UNCHANGED <<chainVars, accepted>>
            ELSE TakeTransaction(TxOf(r)) /\ LogBroadcast(r, o = "ok")
    /\ UNCHANGED <<storeVars, ctx, localVars, answer, batch, signed,
                   cancels, crashes>>

\* SendTransaction: taken, not taken, or taken and reported as an error (the
\* answer of the node is lost).  A nonce already executed or spent by another
\* transaction is an error without any fault.
Send(r) ==
    /\ pc[r] = "send"
    /\ \E o \in Outcomes :
         \/ /\ NodeOutcome(r, o)
            /\ o # "failed"
            /\ TakeTransaction(TxOf(r))
            /\ LogBroadcast(r, o = "ok")
            /\ Goto(r, IF o = "ok" THEN "markSubmitted" ELSE "markFailed")
         \/ /\ o = "failed"
            /\ IF nonce[r] < base \/ slots[nonce[r]] # NoTx
               THEN UNCHANGED faults ELSE NodeOutcome(r, o)
            /\ Goto(r, "markFailed")
            /\ UNCHANGED <<chainVars, accepted>>
    /\ UNCHANGED <<storeVars, ctx, localVars, answer, batch, signed,
                   cancels, crashes>>

\* The errors of the bookkeeping are all ignored.
MarkSubmitted(r) ==
    /\ pc[r] = "markSubmitted"
    /\ \E o \in Outcomes :
         /\ StoreOutcome(r, o, TRUE)
         /\ Perform(MarkChainNonceSubmitted(Network(r), nonce[r]), o)
    /\ Goto(r, "record")
    /\ UNCHANGED <<ctx, localVars, answer, batch, chainVars, history,
                   cancels, crashes>>

\* CreateSignerTransaction with status submitted; recordSuccess of the handle.
Record(r) ==
    /\ pc[r] = "record"
    /\ \E o \in Outcomes :
         /\ StoreOutcome(r, o, TRUE)
         /\ Perform(CreateSignerTransaction(Item(r, "submitted")), o)
    /\ Goto(r, "save")
    /\ UNCHANGED <<ctx, localVars, answer, batch, chainVars, history,
                   cancels, crashes>>

\* MarkChainNonceFailed after an error of SendTransaction.
MarkFailed(r) ==
    /\ pc[r] = "markFailed"
    /\ \E o \in Outcomes :
         /\ StoreOutcome(r, o, TRUE)
         /\ Perform(MarkChainNonceFailed(Network(r), nonce[r]), o)
    /\ Goto(r, "recordFailed")
    /\ UNCHANGED <<ctx, localVars, answer, batch, chainVars, history,
                   cancels, crashes>>

\* CreateSignerTransaction with status failed, then the next candidate.
RecordFailed(r) ==
    /\ pc[r] = "recordFailed"
    /\ \E o \in Outcomes :
         /\ StoreOutcome(r, o, TRUE)
         /\ Perform(CreateSignerTransaction(Item(r, "failed")), o)
    /\ FailAttempt(r)
    /\ UNCHANGED <<ctx, answer, batch, chainVars, history, cancels, crashes>>

\* MarkChainNonceFailed after an error of SignTx; no ledger row is made.
SignFailed(r) ==
    /\ pc[r] = "signFailed"
    /\ \E o \in Outcomes :
         /\ StoreOutcome(r, o, TRUE)
         /\ Perform(MarkChainNonceFailed(Network(r), nonce[r]), o)
    /\ FailAttempt(r)
    /\ UNCHANGED <<ctx, answer, batch, chainVars, history, cancels, crashes>>

-----------------------------------------------------------------------------
(***************************************************************************)
(* The lifecycle monitor, one per instance.                                *)
(***************************************************************************)

\* The monitor is inside a call that never returns: its context is
\* context.Background(), without a timeout.
Hung == {NoTx}

\* A node or the database stops answering in the middle of a call.
MonitorHangs(i) ==
    /\ batch[i] # Hung
    /\ StoreKind = "postgres" \/ batch[i] # {}
    /\ faults < MaxFaults
    /\ faults' = faults + 1
    /\ batch' = [batch EXCEPT ![i] = Hung]
    /\ UNCHANGED <<storeVars, pc, ctx, localVars, answer, chainVars, history,
                   cancels, crashes>>

\* ListOpenSignerTransactions at a tick.
MonitorList(i) ==
    /\ batch[i] = {}
    /\ \E B \in SUBSET OpenRows :
         /\ IsOpenBatch(B)
         /\ batch' = [batch EXCEPT ![i] = {transactions[j].hash : j \in B}]
    /\ UNCHANGED <<storeVars, pc, ctx, localVars, answer, chainVars, history,
                   faults, cancels, crashes>>

\* The node has a receipt of the transaction.
HasReceipt(hash) == hash.nonce < base /\ slots[hash.nonce] = hash

\* Mutant: the status of the receipt is not looked at.
ReceiptAlwaysConfirmed(hash) == "confirmed"

ReceiptStatus(hash) == IF hash.nonce \in reverted THEN "reverted" ELSE "confirmed"

\* One item of the loop: no receipt, or an error of the node or of the store,
\* leaves the row as it is.
MonitorCheck(i) ==
    /\ \E hash \in batch[i] \ Hung :
         /\ batch' = [batch EXCEPT ![i] = @ \ {hash}]
         /\ \/ /\ HasReceipt(hash)
               /\ MarkSignerTransactionStatus(hash, ReceiptStatus(hash))
               /\ UNCHANGED faults
            \/ /\ ~HasReceipt(hash)
               /\ UNCHANGED <<storeVars, faults>>
            \/ /\ HasReceipt(hash)
               /\ faults < MaxFaults
               /\ faults' = faults + 1
               /\ UNCHANGED storeVars
    /\ UNCHANGED <<pc, ctx, localVars, answer, chainVars, history,
                   cancels, crashes>>

-----------------------------------------------------------------------------
(***************************************************************************)
(* The world around the handlers.                                          *)
(***************************************************************************)

\* The chain executes the next transaction of the wallet.
Mine ==
    /\ base \in Nonces
    /\ slots[base] # NoTx
    /\ base' = base + 1
    /\ reverted' \in {reverted, reverted \cup {base}}
    /\ UNCHANGED <<storeVars, pc, ctx, localVars, answer, batch, slots, history,
                   faults, cancels, crashes>>

\* The client of a request goes away; the handler runs on.
Disconnect(r) ==
    /\ pc[r] \notin {"new", "done", "lost"}
    /\ ctx[r] = "live"
    /\ cancels < MaxCancels
    /\ ctx' = [ctx EXCEPT ![r] = "cancelled"]
    /\ cancels' = cancels + 1
    /\ UNCHANGED <<storeVars, pc, localVars, answer, batch, chainVars, history,
                   faults, crashes>>

\* An instance stops with everything it was doing, and is started again.
Crash(i) ==
    /\ crashes < MaxCrashes
    /\ crashes' = crashes + 1
    /\ pc' = [r \in Requests |->
                IF Req[r].host = i /\ pc[r] \notin {"new", "done"}
                THEN "lost" ELSE pc[r]]
    /\ batch' = [batch EXCEPT ![i] = {}]
    /\ RestartStore
    /\ UNCHANGED <<ctx, localVars, answer, chainVars, history, faults, cancels>>

Midnight ==
    /\ NextDay
    /\ UNCHANGED <<pc, ctx, localVars, answer, batch, chainVars, history,
                   faults, cancels, crashes>>

Arrive(r) ==
    RefuseEarly(r) \/ ClaimNothing(r) \/ LookupResult(r) \/ MemoryClaimResult(r)

Attempt(r) ==
    \/ Dial(r) \/ Reserve(r) \/ Build(r) \/ SignFailed(r) \/ Send(r)
    \/ MarkSubmitted(r) \/ Record(r) \/ MarkFailed(r) \/ RecordFailed(r)

\* A step of a handler that has been started.
Step(r) == ClaimLock(r) \/ Validate(r) \/ Attempt(r) \/ Release(r) \/ Save(r)

Monitor(i) == MonitorList(i) \/ MonitorCheck(i) \/ MonitorHangs(i)

Next ==
    \/ \E r \in Requests : Arrive(r) \/ Step(r) \/ Disconnect(r)
    \/ \E i \in Instances : Monitor(i) \/ Crash(i)
    \/ Mine
    \/ Midnight

Spec == Init /\ [][Next]_vars

\* A handler goes on, as its calls end with r.Context() at the latest; the ticker
\* of the monitor fires again and again, and the monitor goes on unless a call
\* of it hangs; the chain executes what it can.  Nothing makes a request
\* arrive, a fault happen, a monitor hang or a day pass.
Fairness ==
    /\ \A r \in Requests : WF_vars(Step(r))
    /\ \A i \in Instances : WF_vars(MonitorList(i) \/ MonitorCheck(i))
    /\ WF_vars(Mine)

FairSpec == Spec /\ Fairness

-----------------------------------------------------------------------------
(***************************************************************************)
(* Properties.                                                             *)
(***************************************************************************)

\* What the memory store promises ends with the process.
StoreSurvives == StoreKind = "postgres" \/ crashes = 0

\* The lock rows exclude: while a handler executes a key its lock is held and
\* no other handler executes it, on any instance, whatever fails or crashes
\* (ClaimResult, SaveResult and ReleaseClaim).
ClaimExclusive ==
    /\ \A r \in Requests :
         pc[r] \in Executing /\ KeyOf(r) # NoKey => KeyOf(r) \in locks
    /\ \A r, q \in Requests :
         /\ pc[r] \in Executing /\ pc[q] \in Executing
         /\ KeyOf(r) = KeyOf(q) /\ KeyOf(r) # NoKey
         => r = q

\* No two signatures of the hot wallet for a network spend the same nonce:
\* neither concurrent requests, nor the next candidate after a failed
\* broadcast, nor a node whose pending nonce is stale (ReserveChainNonce).
NonceUnique ==
    StoreSurvives =>
        \A s, t \in signed :
            /\ Network(s.req) = Network(t.req)
            /\ s.nonce = t.nonce
            => s = t

\* A hole below a nonce that was signed for, which keeps the later
\* transactions of the wallet from being executed, always shows in the nonce
\* table: the row of the hole exists, left reserved or failed.
NoSilentGap ==
    StoreSurvives =>
        \A s \in signed : \A m \in Nonces :
            m < s.nonce /\ m >= base /\ slots[m] = NoTx
                => chainNonces[Network(s.req)][m] # "none"

\* Every answer 200 and every stored answer names a transaction that the
\* mempool or the chain holds: no failed attempt, stale local or replaced
\* transaction is ever reported as sent.
AnswerOnChain ==
    StoreSurvives =>
        /\ \A r \in Requests :
             answer[r].code = "200" => /\ answer[r].tx # NoTx
                                       /\ slots[answer[r].tx.nonce] = answer[r].tx
        /\ \A k \in Keys :
             results[k] # NoTx => slots[results[k].nonce] = results[k]

\* The ledger says what the chain says: a submitted row is held by the chain,
\* a confirmed one was executed successfully, a reverted one was executed and
\* failed (executeEVM...WithClient and checkSignerTransactions).
LedgerTruth ==
    StoreSurvives =>
        \A i \in DOMAIN transactions :
            LET row == transactions[i] IN
            /\ row.status # "failed" => slots[row.hash.nonce] = row.hash
            /\ row.status = "confirmed" =>
                 row.hash.nonce < base /\ row.hash.nonce \notin reverted
            /\ row.status = "reverted" =>
                 row.hash.nonce < base /\ row.hash.nonce \in reverted

\* At most one broadcast per idempotency key is acknowledged: once a node has
\* said that it took the transaction of a key, neither a later candidate nor a
\* retry of the request sends for that key again.
SingleSend ==
    StoreSurvives =>
        \A s, t \in accepted :
            /\ s.acked /\ t.acked
            /\ KeyOf(s.req) = KeyOf(t.req) /\ KeyOf(s.req) # NoKey
            => s = t

\* All the answers 200 to a key name the same transaction, the stored one.
SameAnswer ==
    StoreSurvives =>
        \A r \in Requests :
            answer[r].code = "200" /\ KeyOf(r) # NoKey
                => results[KeyOf(r)] = answer[r].tx

\* An answer of an error of execution (502) means that nothing was sent: no
\* transaction of the request is executed by the chain.
ErrorMeansNotSent ==
    \A s \in accepted : answer[s.req].code = "502" => s.nonce >= base

\* A node that is up to date reports a pending nonce for which the store can
\* make a reservation.
ReservationPossible ==
    \A w \in Networks, p, n \in Nonces :
        IsFirstGap(p) /\ IsNextNonce(w, p, n) => NonceRowFree(w, n)

\* What is sent of a token contract on a day stays within the daily limit,
\* however the requests spell the contract and whatever the ledger says of it.
SentOf(t, w) ==
    {s \in accepted :
        /\ s.nonce \notin reverted
        /\ ContractOf[Req[s.req].token] = ContractOf[t]
        /\ Network(s.req) = w}

OutflowWithinLimit ==
    DailyLimit > 0 /\ day = 0 =>
        \A t \in Tokens, w \in Networks :
            MapThenSumSet(LAMBDA s : Req[s.req].amount, SentOf(t, w)) <= DailyLimit

\* What the ledger counts as the outflow of a day under a spelling of a token is
\* never less than what was sent under it: every acknowledged broadcast whose
\* bookkeeping is done and that has not reverted is in it with its amount, for
\* all three kinds of request (CreateSignerTransaction and
\* DailySubmittedOutflow).  Two things the code loses are left out: an amount
\* with blanks around it, whose row is skipped, and a row that could not be
\* written, the error of which is ignored.
SpentOf(t, w) ==
    {s \in accepted :
        /\ s.acked
        /\ pc[s.req] \in {"save", "done"}
        /\ s.nonce \notin reverted
        /\ ~Req[s.req].blank
        /\ Req[s.req].token = t
        /\ Network(s.req) = w}

OutflowCounted ==
    /\ StoreSurvives
    /\ StoreKind = "memory" \/ faults + cancels = 0
    /\ day = 0
    => \A t \in Tokens, w \in Networks :
         MapThenSumSet(LAMBDA s : Req[s.req].amount, SpentOf(t, w))
             <= DailySubmittedOutflow(t, w)

\* A row of the ledger that is failed, confirmed or reverted stays so, whatever
\* a later attempt or the monitor of another instance writes.
FinalStatusStays ==
    [][StoreSurvives' =>
        \A i \in DOMAIN transactions :
            transactions[i].status # "submitted" =>
                transactions'[i].status = transactions[i].status]_vars

\* A stored answer is never replaced or removed.
StoredAnswerStays ==
    [][StoreSurvives' =>
        \A k \in Keys : results[k] # NoTx => results'[k] = results[k]]_vars

\* A request that was started is answered, or its instance crashes: none is
\* under way for ever.
EveryRequestEnds ==
    \A r \in Requests : []<>(pc[r] \in {"new", "done", "lost"})

\* A claimed key is freed again: only a fault, a disconnect or a crash can
\* leave its lock behind (ReleaseClaim and SaveResult on every path).
Undisturbed == faults + cancels + crashes = 0

LockFreed == \A k \in Keys : []<>(Undisturbed => k \notin locks)

\* The rows of broadcast transactions that have no final status.
Unsettled == {i \in DOMAIN transactions : transactions[i].status = "submitted"}

\* The row of an executed transaction that does not say so yet.
Unreported(n) ==
    \E i \in Unsettled : /\ transactions[i].hash.nonce = n
                         /\ HasReceipt(transactions[i].hash)

\* OpenLimit rows without a receipt are older than the row of nonce n: they fill
\* every batch of ListOpenSignerTransactions.
Crowded(n) ==
    \E i \in Unsettled :
        /\ transactions[i].hash.nonce = n
        /\ OpenLimit <= Cardinality({j \in Unsettled :
                            j < i /\ ~HasReceipt(transactions[j].hash)})

\* The row of an executed transaction is brought to its final status by the
\* monitor.  Only two things keep it open for ever: every monitor hangs in a
\* call, or older transactions that are never executed keep the row out of all
\* the batches.
ExecutionReported ==
    \A n \in Nonces :
        <>[]Unreported(n) =>
            <>[](Crowded(n) \/ \A i \in Instances : batch[i] = Hung)
=============================================================================
