----------------------------- MODULE SignerStore -----------------------------
(***************************************************************************)
(* The persistent state of the signer (store.go): the idempotency results  *)
(* and locks, the chain nonces reserved for the hot wallet, and the ledger *)
(* of the transactions that were sent.  One operator per method of the     *)
(* interface signerStore; each one is an action on the store's variables   *)
(* and says what happens when the statement reaches the database.  Whether *)
(* it does is decided by the caller (see Perform).                         *)
(*                                                                         *)
(* StoreKind selects postgresSignerStore or memorySignerStore.  There is   *)
(* one hot wallet, so the wallet column is left out everywhere.            *)
(***************************************************************************)
EXTENDS Integers, Sequences, FiniteSets, FiniteSetsExt

CONSTANTS
    StoreKind,   \* "postgres" or "memory"
    Keys,        \* idempotency keys
    NoKey,       \* the empty idempotency key
    NoTx,        \* no transaction
    Networks,    \* "BSC", "EVM": the partitions of the nonce table
    Tokens,      \* token contracts as requests spell them
    Payloads,    \* what a transaction does: target, value and calldata
    MaxNonce,    \* bound on the wallet's account nonces
    MaxDay,      \* bound on the calendar days that pass
    OpenLimit    \* LIMIT of ListOpenSignerTransactions (50 in the code)

ASSUME StoreAssumption ==
    /\ StoreKind \in {"postgres", "memory"}
    /\ MaxNonce \in Nat
    /\ MaxDay \in Nat
    /\ OpenLimit \in Nat \ {0}
    /\ NoKey \notin Keys
    /\ Keys # {}
    /\ Networks # {}

VARIABLES
    results,       \* signer_idempotency: key -> transaction answered, or NoTx
    locks,         \* signer_idempotency_locks: the keys being executed
    chainNonces,   \* signer_chain_nonces: network -> nonce -> status
    transactions,  \* signer_transactions, in the order of created_at
    day            \* the date of now()

storeVars == <<results, locks, chainNonces, transactions, day>>

Nonces == 0..MaxNonce

\* A transaction is identified by what it does and the nonce it spends; the
\* hash of the signed bytes is injective on the two.
Tx == [payload : Payloads, nonce : Nonces]

ASSUME NoTxAssumption == NoTx \notin Tx

RowStatus == {"none", "reserved", "submitted", "failed"}

LedgerStatus == {"submitted", "failed", "confirmed", "reverted"}

\* amount is what the text in the row stands for, reads says whether ParseFloat
\* takes that text as it is.
SignerTransaction ==
    [hash : Tx, network : Networks, token : Tokens, amount : Nat,
     reads : BOOLEAN, status : LedgerStatus, day : 0..MaxDay]

StoreTypeOK ==
    /\ results \in [Keys -> Tx \cup {NoTx}]
    /\ locks \subseteq Keys
    /\ chainNonces \in [Networks -> [Nonces -> RowStatus]]
    /\ transactions \in Seq(SignerTransaction)
    /\ day \in 0..MaxDay

\* A database after migrate, or a fresh newMemorySignerStore.
StoreInit ==
    /\ results = [k \in Keys |-> NoTx]
    /\ locks = {}
    /\ chainNonces = [w \in Networks |-> [n \in Nonces |-> "none"]]
    /\ transactions = <<>>
    /\ day = 0

-----------------------------------------------------------------------------
(***************************************************************************)
(* Idempotency.                                                            *)
(***************************************************************************)

\* Mutant: the answer is looked up, but never found.
GetResultForgets(k) == NoTx

\* The SELECT of GetResult: the stored answer of a key, NoTx when there is none.
GetResult(k) == IF k = NoKey THEN NoTx ELSE results[k]

\* Mutant: RowsAffected is ignored, a conflicting INSERT counts as a claim.
ClaimableAlways(k) == TRUE

\* The INSERT ... ON CONFLICT DO NOTHING of ClaimResult claims the key when
\* there is no lock row; the empty key is claimed without one.
Claimable(k) == k = NoKey \/ k \notin locks

InsertLock(k) ==
    /\ locks' = IF k = NoKey THEN locks ELSE locks \cup {k}
    /\ UNCHANGED <<results, chainNonces, transactions, day>>

\* Mutant: DO UPDATE instead of DO NOTHING.
SaveResultUpserts(k, tx) ==
    /\ results' = IF k = NoKey THEN results ELSE [results EXCEPT ![k] = tx]
    /\ locks' = locks \ {k}
    /\ UNCHANGED <<chainNonces, transactions, day>>

\* One transaction: the answer is inserted unless the key has one, and the
\* lock row is deleted.
PostgresSaveResult(k, tx) ==
    /\ results' = IF k = NoKey \/ results[k] # NoTx
                  THEN results ELSE [results EXCEPT ![k] = tx]
    /\ locks' = locks \ {k}
    /\ UNCHANGED <<chainNonces, transactions, day>>

MemorySaveResult(k, tx) ==
    /\ results' = IF k = NoKey THEN results ELSE [results EXCEPT ![k] = tx]
    /\ locks' = locks \ {k}
    /\ UNCHANGED <<chainNonces, transactions, day>>

SaveResult(k, tx) ==
    IF StoreKind = "postgres" THEN PostgresSaveResult(k, tx)
                              ELSE MemorySaveResult(k, tx)

\* Mutant: the release forgets to delete the lock row.
ReleaseClaimKeeps(k) == UNCHANGED storeVars

ReleaseClaim(k) ==
    /\ locks' = locks \ {k}
    /\ UNCHANGED <<results, chainNonces, transactions, day>>

-----------------------------------------------------------------------------
(***************************************************************************)
(* Chain nonces.  The memory store keeps only the last nonce it handed     *)
(* out; that is the largest row here, as its Mark methods do nothing.      *)
(***************************************************************************)

\* The rows that count for max(nonce): status IN ('reserved', 'submitted').
ActiveNonces(w) ==
    {n \in Nonces : chainNonces[w][n] \in {"reserved", "submitted"}}

\* Mutant: the pending nonce of the node is taken as it is.
IsPendingNonce(w, chainPending, n) == n = chainPending

\* Mutant: one too far past the largest active row.
IsNonceAfterNext(w, chainPending, n) ==
    /\ n >= chainPending
    /\ \A m \in ActiveNonces(w) : n > m + 1
    /\ n = chainPending \/ n - 2 \in ActiveNonces(w)

\* n is the larger of the pending nonce the node reported and one past the
\* largest active row.
IsNextNonce(w, chainPending, n) ==
    /\ n >= chainPending
    /\ \A m \in ActiveNonces(w) : n > m
    /\ n = chainPending \/ n - 1 \in ActiveNonces(w)

\* Mutant: the INSERT is an upsert.
NonceRowAlwaysFree(w, n) == TRUE

\* The INSERT violates the primary key when the row exists: a 'failed' row
\* does not count for max(nonce) but still occupies its nonce.
NonceRowFree(w, n) ==
    StoreKind = "postgres" => chainNonces[w][n] = "none"

SetNonceRow(w, n, status) ==
    /\ chainNonces' = [chainNonces EXCEPT ![w][n] = status]
    /\ UNCHANGED <<results, locks, transactions, day>>

\* The rest of ReserveChainNonce, under the advisory lock.
InsertNonceRow(w, n) == SetNonceRow(w, n, "reserved")

MemoryMarkChainNonce == UNCHANGED storeVars

MarkChainNonceSubmitted(w, n) ==
    IF StoreKind = "postgres" THEN SetNonceRow(w, n, "submitted")
                              ELSE MemoryMarkChainNonce

\* Mutant: the failed nonce is given back by deleting its row.
DeleteFailedNonce(w, n) ==
    IF StoreKind = "postgres" THEN SetNonceRow(w, n, "none")
                              ELSE MemoryMarkChainNonce

MarkChainNonceFailed(w, n) ==
    IF StoreKind = "postgres" THEN SetNonceRow(w, n, "failed")
                              ELSE MemoryMarkChainNonce

-----------------------------------------------------------------------------
(***************************************************************************)
(* The ledger of sent transactions.                                        *)
(***************************************************************************)

RowsOf(hash) == {i \in DOMAIN transactions : transactions[i].hash = hash}

\* ON CONFLICT (tx_hash) updates the status and leaves amount, network, token
\* and created_at of the first insertion.
PostgresCreateSignerTransaction(item) ==
    /\ transactions' =
         IF RowsOf(item.hash) = {}
         THEN Append(transactions, item)
         ELSE [i \in DOMAIN transactions |->
                 IF i \in RowsOf(item.hash)
                 THEN [transactions[i] EXCEPT !.status = item.status]
                 ELSE transactions[i]]
    /\ UNCHANGED <<results, locks, chainNonces, day>>

MemoryCreateSignerTransaction(item) ==
    /\ transactions' =
         IF RowsOf(item.hash) = {}
         THEN Append(transactions, item)
         ELSE [i \in DOMAIN transactions |->
                 IF i \in RowsOf(item.hash) THEN item ELSE transactions[i]]
    /\ UNCHANGED <<results, locks, chainNonces, day>>

CreateSignerTransaction(item) ==
    IF StoreKind = "postgres" THEN PostgresCreateSignerTransaction(item)
                              ELSE MemoryCreateSignerTransaction(item)

MarkSignerTransactionStatus(hash, status) ==
    /\ transactions' = [i \in DOMAIN transactions |->
                          IF i \in RowsOf(hash)
                          THEN [transactions[i] EXCEPT !.status = status]
                          ELSE transactions[i]]
    /\ UNCHANGED <<results, locks, chainNonces, day>>

\* Mutant: only the 'signed' rows are selected.
OpenRowsSigned == {i \in DOMAIN transactions : transactions[i].status = "signed"}

\* 'signed' rows are selected too, but nothing writes that status.
OpenRows == {i \in DOMAIN transactions : transactions[i].status = "submitted"}

\* The oldest OpenLimit open rows.
PostgresOpenBatch(B) ==
    B = {i \in OpenRows : Cardinality({j \in OpenRows : j < i}) < OpenLimit}

\* Some OpenLimit open rows, in the random order of Go's map iteration.
MemoryOpenBatch(B) ==
    Cardinality(B) = IF Cardinality(OpenRows) < OpenLimit
                     THEN Cardinality(OpenRows) ELSE OpenLimit

\* B is a possible answer of ListOpenSignerTransactions.
IsOpenBatch(B) ==
    IF StoreKind = "postgres" THEN PostgresOpenBatch(B) ELSE MemoryOpenBatch(B)

\* Mutant: only what the monitor has confirmed counts.
CountsWhenConfirmed(row, token, w) ==
    /\ row.token = token
    /\ row.network = w
    /\ row.reads
    /\ row.status = "confirmed"

\* The token is compared as it is spelled, and a row whose amount ParseFloat
\* does not read is skipped without a word.
CountsAsOutflow(row, token, w) ==
    /\ row.token = token
    /\ row.network = w
    /\ row.reads
    /\ row.status \in {"submitted", "confirmed"}

PostgresOutflowRows(token, w) ==
    {i \in DOMAIN transactions :
        CountsAsOutflow(transactions[i], token, w) /\ transactions[i].day = day}

\* The memory store has no creation date and sums the whole ledger.
MemoryOutflowRows(token, w) ==
    {i \in DOMAIN transactions : CountsAsOutflow(transactions[i], token, w)}

DailySubmittedOutflow(token, w) ==
    MapThenSumSet(LAMBDA i : transactions[i].amount,
                  IF StoreKind = "postgres" THEN PostgresOutflowRows(token, w)
                                            ELSE MemoryOutflowRows(token, w))

-----------------------------------------------------------------------------
(***************************************************************************)
(* What can happen to a statement: it is applied ("ok"), it fails without  *)
(* effect ("failed": no connection, cancelled context), or it is applied   *)
(* and the acknowledgement is lost ("unknown").  The memory store performs *)
(* every call.                                                             *)
(***************************************************************************)
Outcomes == {"ok", "failed", "unknown"}

Perform(Operation, outcome) ==
    IF outcome = "failed" THEN UNCHANGED storeVars ELSE Operation

\* The process ends: Postgres keeps everything, the memory store nothing.
RestartStore ==
    IF StoreKind = "postgres"
    THEN UNCHANGED storeVars
    ELSE /\ results' = [k \in Keys |-> NoTx]
         /\ locks' = {}
         /\ chainNonces' = [w \in Networks |-> [n \in Nonces |-> "none"]]
         /\ transactions' = <<>>
         /\ day' = day

\* Days that pass before the first row is made are not told apart.
NextDay ==
    /\ day < MaxDay
    /\ transactions # <<>>
    /\ day' = day + 1
    /\ UNCHANGED <<results, locks, chainNonces, transactions>>
=============================================================================
