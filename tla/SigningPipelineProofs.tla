------------------------ MODULE SigningPipelineProofs ------------------------
(***************************************************************************)
(* Proofs about SigningPipeline, for every number of requests, instances,  *)
(* candidates, networks and keys, for both stores, and for any number of   *)
(* faults, disconnects and crashes.                                        *)
(***************************************************************************)
EXTENDS SigningPipeline, SequenceTheorems, TLAPS

USE DEF Outcomes

-----------------------------------------------------------------------------
(***************************************************************************)
(* Types.                                                                  *)
(***************************************************************************)

\* What a well-typed request yields: a key or the empty key, a network, and
\* ledger rows of the right type.
LEMMA RequestFacts ==
    ASSUME NEW r \in Requests
    PROVE  /\ KeyOf(r) \in Keys \cup {NoKey}
           /\ Network(r) \in Networks
           /\ Req[r].payload \in Payloads
           /\ Req[r].host \in Instances
           /\ Req[r].token \in Tokens
           /\ Req[r].amount \in Nat
           /\ Req[r].blank \in BOOLEAN
           /\ Req[r].kind \in {"transfer", "contractCall", "settlement"}
  BY PipelineAssumption DEF KeyOf, Network, Request

LEMMA TxType ==
    ASSUME TypeOK, NEW r \in Requests
    PROVE  TxOf(r) \in Tx
  BY RequestFacts DEF TxOf, Tx, TypeOK

LEMMA ItemType ==
    ASSUME TypeOK, NEW r \in Requests, NEW status \in LedgerStatus
    PROVE  Item(r, status) \in SignerTransaction
<1>1. Req[r].amount * RawScale \in Nat
  BY RequestFacts, PipelineAssumption
<1>2. ASSUME NEW a \in Nat PROVE LedgerItem(r, status, a) \in SignerTransaction
  BY RequestFacts, TxType DEF LedgerItem, SignerTransaction, TypeOK, StoreTypeOK
<1> QED
  BY <1>1, <1>2, RequestFacts
  DEF Item, TransferItem, ContractCallItem, SettlementItem

\* The operations of the store keep its types.
LEMMA SaveResultType ==
    ASSUME StoreTypeOK, NEW k \in Keys \cup {NoKey}, NEW tx \in Tx,
           SaveResult(k, tx)
    PROVE  StoreTypeOK'
  BY DEF SaveResult, PostgresSaveResult, MemorySaveResult, StoreTypeOK

LEMMA LockType ==
    ASSUME StoreTypeOK, NEW k \in Keys \cup {NoKey},
           InsertLock(k) \/ ReleaseClaim(k)
    PROVE  StoreTypeOK'
  BY DEF InsertLock, ReleaseClaim, StoreTypeOK

LEMMA NonceRowType ==
    ASSUME StoreTypeOK, NEW w \in Networks, NEW n \in Nonces,
           \/ InsertNonceRow(w, n)
           \/ MarkChainNonceSubmitted(w, n)
           \/ MarkChainNonceFailed(w, n)
    PROVE  StoreTypeOK'
  BY DEF InsertNonceRow, MarkChainNonceSubmitted, MarkChainNonceFailed,
         SetNonceRow, MemoryMarkChainNonce, storeVars, StoreTypeOK, RowStatus

\* Rewriting the elements of a sequence one by one gives a sequence.
LEMMA RewriteSeq ==
    ASSUME NEW S, NEW s \in Seq(S), NEW f \in [DOMAIN s -> S]
    PROVE  f \in Seq(S)
<1>1. Len(s) \in Nat /\ DOMAIN s = 1..Len(s)
  OBVIOUS
<1>2. f \in [1..Len(s) -> S]
  BY <1>1
<1> QED
  BY <1>1, <1>2

\* Changing the status of a ledger row gives a ledger row.
LEMMA StatusType ==
    ASSUME NEW row \in SignerTransaction, NEW status \in LedgerStatus
    PROVE  [row EXCEPT !.status = status] \in SignerTransaction
  BY DEF SignerTransaction

LEMMA CreateType ==
    ASSUME StoreTypeOK, NEW item \in SignerTransaction,
           CreateSignerTransaction(item)
    PROVE  StoreTypeOK'
<1> DEFINE touched == RowsOf(item.hash)
<1>1. transactions \in Seq(SignerTransaction)
  BY DEF StoreTypeOK
<1>2. item.status \in LedgerStatus
  BY DEF SignerTransaction
<1>3. \A i \in DOMAIN transactions :
         /\ transactions[i] \in SignerTransaction
         /\ [transactions[i] EXCEPT !.status = item.status] \in SignerTransaction
  <2> SUFFICES ASSUME NEW i \in DOMAIN transactions
               PROVE  /\ transactions[i] \in SignerTransaction
                      /\ [transactions[i] EXCEPT !.status = item.status]
                            \in SignerTransaction
    OBVIOUS
  <2>1. transactions[i] \in SignerTransaction
    BY <1>1, ElementOfSeq
  <2> QED
    BY <2>1, <1>2, StatusType
<1>4. ASSUME touched = {} PROVE transactions' \in Seq(SignerTransaction)
  <2>1. transactions' = Append(transactions, item)
    BY <1>4 DEF CreateSignerTransaction, PostgresCreateSignerTransaction,
                MemoryCreateSignerTransaction
  <2> QED
    BY <1>1, <2>1
<1>5. ASSUME touched # {} PROVE transactions' \in Seq(SignerTransaction)
  <2> HIDE DEF touched
  <2>1. \/ transactions' = [i \in DOMAIN transactions |->
                 IF i \in touched
                 THEN [transactions[i] EXCEPT !.status = item.status]
                 ELSE transactions[i]]
        \/ transactions' = [i \in DOMAIN transactions |->
                 IF i \in touched THEN item ELSE transactions[i]]
    BY <1>5 DEF CreateSignerTransaction, PostgresCreateSignerTransaction,
                MemoryCreateSignerTransaction, touched
  <2>2. transactions' \in [DOMAIN transactions -> SignerTransaction]
    BY <1>3, <2>1
  <2> QED
    BY <1>1, <2>2, RewriteSeq
<1>6. transactions' \in Seq(SignerTransaction)
  BY <1>4, <1>5
<1> QED
  BY <1>6 DEF CreateSignerTransaction, PostgresCreateSignerTransaction,
              MemoryCreateSignerTransaction, StoreTypeOK

LEMMA MarkStatusType ==
    ASSUME StoreTypeOK, NEW hash, NEW status \in LedgerStatus,
           MarkSignerTransactionStatus(hash, status)
    PROVE  StoreTypeOK'
<1>1. transactions \in Seq(SignerTransaction)
  BY DEF StoreTypeOK
<1>2. \A i \in DOMAIN transactions :
         /\ transactions[i] \in SignerTransaction
         /\ [transactions[i] EXCEPT !.status = status] \in SignerTransaction
  BY <1>1, ElementOfSeq, StatusType
<1>3. transactions' \in [DOMAIN transactions -> SignerTransaction]
  BY <1>2 DEF MarkSignerTransactionStatus
<1>4. transactions' \in Seq(SignerTransaction)
  BY <1>1, <1>3, RewriteSeq
<1> QED
  BY <1>4 DEF MarkSignerTransactionStatus, StoreTypeOK

LEMMA StutterType ==
    ASSUME StoreTypeOK, UNCHANGED storeVars
    PROVE  StoreTypeOK'
  BY DEF StoreTypeOK, storeVars

\* The counter of faults stays within its bound.
LEMMA CountType ==
    ASSUME TypeOK, NEW r \in Requests, NEW o \in Outcomes,
           NEW issued \in BOOLEAN,
           StoreOutcome(r, o, issued) \/ NodeOutcome(r, o)
    PROVE  faults' \in 0..MaxFaults
  BY PipelineAssumption DEF StoreOutcome, NodeOutcome, Count, TypeOK

LEMMA FailAttemptType ==
    ASSUME TypeOK, NEW r \in Requests, FailAttempt(r)
    PROVE  /\ pc' \in [Requests -> Labels]
           /\ attempt' \in [Requests -> 0..Candidates]
           /\ pending' \in [Requests -> Nonces]
           /\ nonce' \in [Requests -> Nonces]
<1>1. pc' \in [Requests -> Labels]
  BY DEF FailAttempt, Goto, TypeOK, Labels, Executing
<1>2. attempt' \in [Requests -> 0..Candidates]
  BY PipelineAssumption DEF FailAttempt, TypeOK
<1>3. 0 \in Nonces
  BY StoreAssumption DEF Nonces
<1>4. pending' \in [Requests -> Nonces] /\ nonce' \in [Requests -> Nonces]
  BY <1>3 DEF FailAttempt, TypeOK
<1> QED
  BY <1>1, <1>2, <1>4

LEMMA ArriveType ==
    ASSUME TypeOK, NEW r \in Requests, Arrive(r)
    PROVE  TypeOK'
<1> USE DEF localVars, chainVars, history, Goto, Reply, Codes, Labels, Executing
<1>1. CASE RefuseEarly(r)
  BY <1>1, StutterType DEF RefuseEarly, TypeOK
<1>2. CASE ClaimNothing(r)
  BY <1>2, StutterType DEF ClaimNothing, TypeOK
<1>3. CASE LookupResult(r)
  <2>1. GetResult(KeyOf(r)) \in Tx \cup {NoTx}
    BY RequestFacts DEF GetResult, TypeOK, StoreTypeOK
  <2>2. faults' \in 0..MaxFaults
    BY <1>3, CountType DEF LookupResult
  <2>3. answer' \in [Requests -> [code : Codes, tx : Tx \cup {NoTx}]]
    BY <1>3, <2>1 DEF LookupResult, TypeOK
  <2>4. pc' \in [Requests -> Labels]
    BY <1>3 DEF LookupResult, TypeOK
  <2> QED
    BY <1>3, <2>2, <2>3, <2>4, StutterType DEF LookupResult, TypeOK
<1>4. CASE MemoryClaimResult(r)
  <2>1. GetResult(KeyOf(r)) \in Tx \cup {NoTx}
    BY RequestFacts DEF GetResult, TypeOK, StoreTypeOK
  <2>2. StoreTypeOK'
    BY <1>4, RequestFacts, StutterType, LockType DEF MemoryClaimResult, TypeOK
  <2>3. answer' \in [Requests -> [code : Codes, tx : Tx \cup {NoTx}]]
    <3>1. \/ answer' = answer
          \/ answer' = [answer EXCEPT ![r] = [code |-> "409", tx |-> NoTx]]
          \/ answer' = [answer EXCEPT ![r] = [code |-> "200",
                                              tx |-> GetResult(KeyOf(r))]]
      BY <1>4 DEF MemoryClaimResult
    <3> QED
      BY <2>1, <3>1 DEF TypeOK
  <2>4. pc' \in [Requests -> Labels]
    BY <1>4 DEF MemoryClaimResult, TypeOK
  <2> QED
    BY <1>4, <2>2, <2>3, <2>4 DEF MemoryClaimResult, TypeOK
<1> QED
  BY <1>1, <1>2, <1>3, <1>4 DEF Arrive

LEMMA HandlerType ==
    ASSUME TypeOK, NEW r \in Requests,
           ClaimLock(r) \/ Validate(r) \/ Release(r) \/ Save(r)
    PROVE  TypeOK'
<1> USE DEF localVars, chainVars, history, Goto, Reply, Codes, Labels, Executing
<1>1. CASE ClaimLock(r)
  <2>1. faults' \in 0..MaxFaults
    BY <1>1, CountType DEF ClaimLock
  <2>2. StoreTypeOK'
    BY <1>1, RequestFacts, StutterType, LockType DEF ClaimLock, TypeOK, Perform
  <2>3. pc' \in [Requests -> Labels]
    BY <1>1 DEF ClaimLock, TypeOK
  <2>4. answer' \in [Requests -> [code : Codes, tx : Tx \cup {NoTx}]]
    BY <1>1 DEF ClaimLock, TypeOK
  <2> QED
    BY <1>1, <2>1, <2>2, <2>3, <2>4 DEF ClaimLock, TypeOK
<1>2. CASE Validate(r)
  <2>1. faults' \in 0..MaxFaults
    BY <1>2, CountType DEF Validate, AsksTreasury
  <2>2. attempt' \in [Requests -> 0..Candidates]
    BY <1>2, PipelineAssumption DEF Validate, TypeOK
  <2> QED
    BY <1>2, <2>1, <2>2, StutterType DEF Validate, TypeOK
<1>3. CASE Release(r)
  <2>1. faults' \in 0..MaxFaults
    BY <1>3, CountType DEF Release
  <2>2. StoreTypeOK'
    BY <1>3, RequestFacts, StutterType, LockType DEF Release, TypeOK, Perform
  <2> QED
    BY <1>3, <2>1, <2>2 DEF Release, TypeOK
<1>4. CASE Save(r)
  <2>1. faults' \in 0..MaxFaults
    BY <1>4, CountType DEF Save
  <2>2. StoreTypeOK'
    BY <1>4, RequestFacts, TxType, StutterType, SaveResultType
    DEF Save, TypeOK, Perform
  <2> QED
    BY <1>4, <2>1, <2>2, TxType DEF Save, TypeOK
<1> QED
  BY <1>1, <1>2, <1>3, <1>4

LEMMA AttemptType ==
    ASSUME TypeOK, NEW r \in Requests, Attempt(r)
    PROVE  TypeOK'
<1> USE DEF localVars, chainVars, history, Goto, Labels, Executing
<1>1. CASE Dial(r)
  <2>1. faults' \in 0..MaxFaults
    BY <1>1, CountType DEF Dial
  <2>2. /\ pc' \in [Requests -> Labels]
        /\ attempt' \in [Requests -> 0..Candidates]
        /\ pending' \in [Requests -> Nonces]
        /\ nonce' \in [Requests -> Nonces]
    <3>1. CASE FailAttempt(r)
      BY <3>1, FailAttemptType
    <3>2. CASE ~FailAttempt(r)
      BY <1>1, <3>2 DEF Dial, TypeOK
    <3> QED
      BY <3>1, <3>2
  <2> QED
    BY <1>1, <2>1, <2>2, StutterType DEF Dial, TypeOK
<1>2. CASE Reserve(r)
  <2>1. faults' \in 0..MaxFaults
    BY <1>2, CountType DEF Reserve
  <2>2. StoreTypeOK'
    BY <1>2, RequestFacts, StutterType, NonceRowType DEF Reserve, TypeOK, Perform
  <2>3. /\ pc' \in [Requests -> Labels]
        /\ attempt' \in [Requests -> 0..Candidates]
        /\ pending' \in [Requests -> Nonces]
        /\ nonce' \in [Requests -> Nonces]
    <3>1. CASE FailAttempt(r)
      BY <3>1, FailAttemptType
    <3>2. CASE ~FailAttempt(r)
      BY <1>2, <3>2 DEF Reserve, TypeOK
    <3> QED
      BY <3>1, <3>2
  <2> QED
    BY <1>2, <2>1, <2>2, <2>3 DEF Reserve, TypeOK
<1>3. CASE Build(r)
  <2>1. faults' \in 0..MaxFaults
    BY <1>3, CountType DEF Build
  <2>2. /\ pc' \in [Requests -> Labels]
        /\ attempt' \in [Requests -> 0..Candidates]
        /\ pending' \in [Requests -> Nonces]
        /\ nonce' \in [Requests -> Nonces]
    <3>1. CASE FailAttempt(r)
      BY <3>1, FailAttemptType
    <3>2. CASE ~FailAttempt(r)
      BY <1>3, <3>2 DEF Build, TypeOK
    <3> QED
      BY <3>1, <3>2
  <2>3. signed' \subseteq Signature
    BY <1>3 DEF Build, TypeOK, Signature
  <2> QED
    BY <1>3, <2>1, <2>2, <2>3, StutterType DEF Build, TypeOK
<1>4. CASE Send(r)
  <2>1. faults' \in 0..MaxFaults
    <3>1. faults' = faults \/ \E o \in Outcomes : NodeOutcome(r, o)
      BY <1>4 DEF Send
    <3>2. faults \in 0..MaxFaults
      BY DEF TypeOK
    <3> QED
      BY <3>1, <3>2, CountType
  <2>2. slots' \in [Nonces -> Tx \cup {NoTx}] /\ UNCHANGED <<base, reverted>>
    BY <1>4, TxType DEF Send, TakeTransaction, TypeOK
  <2>3. accepted' \subseteq Broadcast
    <3>1. \A b \in BOOLEAN :
             [req |-> r, attempt |-> attempt[r], nonce |-> nonce[r], acked |-> b]
                \in Broadcast
      BY DEF TypeOK, Broadcast
    <3>2. accepted' = accepted \/ \E o \in Outcomes : LogBroadcast(r, o = "ok")
      BY <1>4 DEF Send
    <3> QED
      BY <3>1, <3>2 DEF LogBroadcast, TypeOK
  <2>4. pc' \in [Requests -> Labels]
    BY <1>4 DEF Send, TypeOK
  <2> QED
    BY <1>4, <2>1, <2>2, <2>3, <2>4, StutterType DEF Send, TypeOK
<1>5. CASE MarkSubmitted(r)
  <2>1. faults' \in 0..MaxFaults
    BY <1>5, CountType DEF MarkSubmitted
  <2>2. nonce[r] \in Nonces
    BY DEF TypeOK
  <2>3. StoreTypeOK'
    BY <1>5, <2>2, RequestFacts, StutterType, NonceRowType
    DEF MarkSubmitted, TypeOK, Perform
  <2> QED
    BY <1>5, <2>1, <2>3 DEF MarkSubmitted, TypeOK
<1>6. CASE Record(r)
  <2>1. faults' \in 0..MaxFaults
    BY <1>6, CountType DEF Record
  <2>2. Item(r, "submitted") \in SignerTransaction
    BY ItemType DEF LedgerStatus
  <2>3. StoreTypeOK'
    BY <1>6, <2>2, StutterType, CreateType DEF Record, TypeOK, Perform
  <2> QED
    BY <1>6, <2>1, <2>3 DEF Record, TypeOK
<1>7. CASE MarkFailed(r)
  <2>1. faults' \in 0..MaxFaults
    BY <1>7, CountType DEF MarkFailed
  <2>2. nonce[r] \in Nonces
    BY DEF TypeOK
  <2>3. StoreTypeOK'
    BY <1>7, <2>2, RequestFacts, StutterType, NonceRowType
    DEF MarkFailed, TypeOK, Perform
  <2> QED
    BY <1>7, <2>1, <2>3 DEF MarkFailed, TypeOK
<1>8. CASE RecordFailed(r)
  <2>1. faults' \in 0..MaxFaults
    BY <1>8, CountType DEF RecordFailed
  <2>2. Item(r, "failed") \in SignerTransaction
    BY ItemType DEF LedgerStatus
  <2>3. StoreTypeOK'
    BY <1>8, <2>2, StutterType, CreateType DEF RecordFailed, TypeOK, Perform
  <2> QED
    BY <1>8, <2>1, <2>3, FailAttemptType DEF RecordFailed, TypeOK
<1>9. CASE SignFailed(r)
  <2>1. faults' \in 0..MaxFaults
    BY <1>9, CountType DEF SignFailed
  <2>2. nonce[r] \in Nonces
    BY DEF TypeOK
  <2>3. StoreTypeOK'
    BY <1>9, <2>2, RequestFacts, StutterType, NonceRowType
    DEF SignFailed, TypeOK, Perform
  <2> QED
    BY <1>9, <2>1, <2>3, FailAttemptType DEF SignFailed, TypeOK
<1> QED
  BY <1>1, <1>2, <1>3, <1>4, <1>5, <1>6, <1>7, <1>8, <1>9 DEF Attempt

LEMMA MonitorType ==
    ASSUME TypeOK, NEW i \in Instances, Monitor(i)
    PROVE  TypeOK'
<1> USE DEF localVars, chainVars, history
<1>1. CASE MonitorList(i)
  <2>1. \A j \in OpenRows : transactions[j].hash \in Tx
    <3>1. \A j \in DOMAIN transactions : transactions[j] \in SignerTransaction
      BY ElementOfSeq DEF TypeOK, StoreTypeOK
    <3> QED
      BY <3>1 DEF OpenRows, SignerTransaction
  <2>2. batch' \in [Instances -> SUBSET (Tx \cup {NoTx})]
    BY <1>1, <2>1 DEF MonitorList, TypeOK
  <2> QED
    BY <1>1, <2>2, StutterType DEF MonitorList, TypeOK
<1>2. CASE MonitorCheck(i)
  <2>1. batch' \in [Instances -> SUBSET (Tx \cup {NoTx})]
    BY <1>2 DEF MonitorCheck, TypeOK
  <2>2. \A hash : ReceiptStatus(hash) \in LedgerStatus
    BY DEF ReceiptStatus, LedgerStatus
  <2>3. StoreTypeOK'
    BY <1>2, <2>2, StutterType, MarkStatusType DEF MonitorCheck, TypeOK
  <2>4. faults' \in 0..MaxFaults
    BY <1>2, PipelineAssumption DEF MonitorCheck, TypeOK
  <2> QED
    BY <1>2, <2>1, <2>3, <2>4 DEF MonitorCheck, TypeOK
<1>3. CASE MonitorHangs(i)
  <2>1. batch' \in [Instances -> SUBSET (Tx \cup {NoTx})]
    BY <1>3 DEF MonitorHangs, Hung, TypeOK
  <2>2. faults' \in 0..MaxFaults
    BY <1>3, PipelineAssumption DEF MonitorHangs, TypeOK
  <2> QED
    BY <1>3, <2>1, <2>2, StutterType DEF MonitorHangs, TypeOK
<1> QED
  BY <1>1, <1>2, <1>3 DEF Monitor

LEMMA CrashType ==
    ASSUME TypeOK, NEW i \in Instances, Crash(i)
    PROVE  TypeOK'
<1>1. StoreTypeOK'
  <2>1. CASE StoreKind = "postgres"
    BY <2>1, StutterType DEF Crash, RestartStore, TypeOK
  <2>2. CASE StoreKind # "postgres"
    BY <2>2 DEF Crash, RestartStore, TypeOK, StoreTypeOK, RowStatus
  <2> QED
    BY <2>1, <2>2
<1>2. crashes' \in 0..MaxCrashes
  BY PipelineAssumption DEF Crash, TypeOK
<1>3. pc' \in [Requests -> Labels] /\ batch' \in [Instances -> SUBSET (Tx \cup {NoTx})]
  BY DEF Crash, TypeOK, Labels
<1> QED
  BY <1>1, <1>2, <1>3 DEF Crash, TypeOK, localVars, chainVars, history

LEMMA WorldType ==
    ASSUME TypeOK,
           (\E r \in Requests : Disconnect(r)) \/ Mine \/ Midnight
    PROVE  TypeOK'
<1> USE DEF localVars, chainVars, history
<1>1. ASSUME NEW r \in Requests, Disconnect(r) PROVE TypeOK'
  BY <1>1, PipelineAssumption, StutterType DEF Disconnect, TypeOK
<1>2. CASE Mine
  <2>1. base' \in 0..(MaxNonce + 1) /\ reverted' \subseteq Nonces
    BY <1>2, StoreAssumption DEF Mine, TypeOK, Nonces
  <2> QED
    BY <1>2, <2>1, StutterType DEF Mine, TypeOK
<1>3. CASE Midnight
  <2>1. StoreTypeOK'
    BY <1>3, StoreAssumption DEF Midnight, NextDay, TypeOK, StoreTypeOK
  <2> QED
    BY <1>3, <2>1 DEF Midnight, TypeOK
<1> QED
  BY <1>1, <1>2, <1>3

LEMMA InitType == Init => TypeOK
<1> SUFFICES ASSUME Init PROVE TypeOK
  OBVIOUS
<1>1. StoreTypeOK
  BY StoreAssumption DEF Init, StoreInit, StoreTypeOK, RowStatus
<1> QED
  BY <1>1, StoreAssumption, PipelineAssumption
  DEF Init, TypeOK, Labels, Codes, Nonces

LEMMA NextType == TypeOK /\ [Next]_vars => TypeOK'
<1> SUFFICES ASSUME TypeOK, [Next]_vars PROVE TypeOK'
  OBVIOUS
<1>1. ASSUME NEW r \in Requests, Arrive(r) \/ Step(r) PROVE TypeOK'
  BY <1>1, ArriveType, HandlerType, AttemptType DEF Step
<1>2. ASSUME NEW i \in Instances, Monitor(i) \/ Crash(i) PROVE TypeOK'
  BY <1>2, MonitorType, CrashType
<1>3. CASE UNCHANGED vars
  BY <1>3, StutterType DEF vars, TypeOK, localVars, chainVars, history
<1> QED
  BY <1>1, <1>2, <1>3, WorldType DEF Next

\* Every reachable state of the handlers, the store, the chain and the monitor
\* is well typed.
THEOREM TypeCorrect == Spec => []TypeOK
  BY InitType, NextType, PTL DEF Spec

-----------------------------------------------------------------------------
(***************************************************************************)
(* Exclusion by the lock rows.  ClaimExclusive is inductive as it stands:  *)
(* its first conjunct says that an executing handler has a lock row, so    *)
(* the INSERT of a second one conflicts; its second that the handler that  *)
(* deletes the row is the only one that relied on it.                      *)
(***************************************************************************)

\* A step that starts no execution and deletes no lock keeps the exclusion.
LEMMA ExclusionFrame ==
    ASSUME ClaimExclusive, locks \subseteq locks',
           \A q \in Requests : pc'[q] \in Executing => pc[q] \in Executing
    PROVE  ClaimExclusive'
  BY DEF ClaimExclusive, KeyOf

\* The claim of a key: the lock row was not there, so nobody executes the key.
LEMMA ExclusionClaim ==
    ASSUME TypeOK, ClaimExclusive, NEW r \in Requests,
           Claimable(KeyOf(r)), InsertLock(KeyOf(r)), Goto(r, "validate")
    PROVE  ClaimExclusive'
<1>1. \A q \in Requests : pc'[q] \in Executing => q = r \/ pc[q] \in Executing
  BY DEF Goto, TypeOK
<1>2. KeyOf(r) # NoKey => /\ KeyOf(r) \in locks'
                          /\ KeyOf(r) \notin locks
  BY DEF Claimable, InsertLock
<1>3. locks \subseteq locks'
  BY DEF InsertLock
<1> HIDE DEF KeyOf
<1>4. \A q \in Requests :
         pc'[q] \in Executing /\ KeyOf(q) # NoKey => KeyOf(q) \in locks'
  BY <1>1, <1>2, <1>3 DEF ClaimExclusive
<1>5. \A q \in Requests :
         pc'[q] \in Executing /\ KeyOf(q) = KeyOf(r) /\ KeyOf(r) # NoKey => q = r
  BY <1>1, <1>2 DEF ClaimExclusive
<1>6. \A q, p \in Requests :
         /\ pc'[q] \in Executing /\ pc'[p] \in Executing
         /\ KeyOf(q) = KeyOf(p) /\ KeyOf(q) # NoKey
         => q = p
  BY <1>1, <1>5 DEF ClaimExclusive
<1> QED
  BY <1>4, <1>6 DEF ClaimExclusive, KeyOf

\* The end of an execution: the lock row that goes is the handler's own.
LEMMA ExclusionEnd ==
    ASSUME TypeOK, ClaimExclusive, NEW r \in Requests, pc[r] \in Executing,
           locks \ {KeyOf(r)} \subseteq locks', Goto(r, "done")
    PROVE  ClaimExclusive'
<1>1. \A q \in Requests : pc'[q] \in Executing => q # r /\ pc[q] \in Executing
  BY DEF Goto, TypeOK, Executing
<1> HIDE DEF KeyOf
<1>2. \A q \in Requests :
         pc'[q] \in Executing /\ KeyOf(q) # NoKey => KeyOf(q) \in locks'
  BY <1>1 DEF ClaimExclusive
<1>3. \A q, p \in Requests :
         /\ pc'[q] \in Executing /\ pc'[p] \in Executing
         /\ KeyOf(q) = KeyOf(p) /\ KeyOf(q) # NoKey
         => q = p
  BY <1>1 DEF ClaimExclusive
<1> QED
  BY <1>2, <1>3 DEF ClaimExclusive, KeyOf

LEMMA ExclusionArrive ==
    ASSUME TypeOK, ClaimExclusive, NEW r \in Requests, Arrive(r)
    PROVE  ClaimExclusive'
<1> USE DEF Goto, Reply, Executing
<1>1. CASE RefuseEarly(r)
  BY <1>1, ExclusionFrame DEF RefuseEarly, TypeOK, storeVars
<1>2. CASE ClaimNothing(r)
  BY <1>2 DEF ClaimNothing, TypeOK, storeVars, ClaimExclusive, KeyOf
<1>3. CASE LookupResult(r)
  BY <1>3, ExclusionFrame DEF LookupResult, TypeOK, storeVars
<1>4. CASE MemoryClaimResult(r)
  <2>1. CASE Reply(r, "200", GetResult(KeyOf(r))) \/ Reply(r, "409", NoTx)
    <3>1. pc' = [pc EXCEPT ![r] = "done"]
      BY <2>1
    <3>2. locks \subseteq locks'
      BY <1>4 DEF MemoryClaimResult, InsertLock, storeVars
    <3> QED
      BY <3>1, <3>2, ExclusionFrame DEF TypeOK
  <2>2. CASE ~(Reply(r, "200", GetResult(KeyOf(r))) \/ Reply(r, "409", NoTx))
    BY <1>4, <2>2, ExclusionClaim DEF MemoryClaimResult
  <2> QED
    BY <2>1, <2>2
<1> QED
  BY <1>1, <1>2, <1>3, <1>4 DEF Arrive

LEMMA ExclusionHandler ==
    ASSUME TypeOK, ClaimExclusive, NEW r \in Requests,
           ClaimLock(r) \/ Validate(r) \/ Release(r) \/ Save(r)
    PROVE  ClaimExclusive'
<1>1. CASE ClaimLock(r)
  <2>1. CASE pc' = [pc EXCEPT ![r] = "done"]
    <3>1. locks \subseteq locks'
      BY <1>1 DEF ClaimLock, Perform, InsertLock, storeVars
    <3> QED
      BY <2>1, <3>1, ExclusionFrame DEF TypeOK, Executing
  <2>2. CASE pc' # [pc EXCEPT ![r] = "done"]
    <3>1. Claimable(KeyOf(r)) /\ InsertLock(KeyOf(r)) /\ Goto(r, "validate")
      BY <1>1, <2>2 DEF ClaimLock, Perform, Reply, Goto
    <3> QED
      BY <3>1, ExclusionClaim
  <2> QED
    BY <2>1, <2>2
<1>2. CASE Validate(r)
  BY <1>2, ExclusionFrame DEF Validate, Goto, TypeOK, storeVars, Executing
<1>3. CASE Release(r)
  <2>1. locks \ {KeyOf(r)} \subseteq locks'
    BY <1>3 DEF Release, Perform, ReleaseClaim, storeVars
  <2>2. Goto(r, "done") /\ pc[r] \in Executing
    BY <1>3 DEF Release, Reply, Executing
  <2> QED
    BY <2>1, <2>2, ExclusionEnd
<1>4. CASE Save(r)
  <2>1. locks \ {KeyOf(r)} \subseteq locks'
    BY <1>4 DEF Save, Perform, SaveResult, PostgresSaveResult,
                MemorySaveResult, storeVars
  <2>2. Goto(r, "done") /\ pc[r] \in Executing
    BY <1>4 DEF Save, Reply, Executing
  <2> QED
    BY <2>1, <2>2, ExclusionEnd
<1> QED
  BY <1>1, <1>2, <1>3, <1>4

\* An attempt neither takes nor gives up a lock, and stays within Executing.
LEMMA AttemptFrame ==
    ASSUME TypeOK, NEW r \in Requests, Attempt(r)
    PROVE  /\ locks' = locks
           /\ pc[r] \in Executing
           /\ \A q \in Requests \ {r} : pc'[q] = pc[q]
<1> USE DEF Perform, storeVars, SetNonceRow, FailAttempt, Goto, Executing
<1>1. CASE Dial(r) \/ Reserve(r)
  BY <1>1 DEF Dial, Reserve, InsertNonceRow, TypeOK
<1>2. CASE Build(r) \/ Send(r)
  BY <1>2 DEF Build, Send, TypeOK
<1>3. CASE MarkSubmitted(r) \/ MarkFailed(r) \/ SignFailed(r)
  BY <1>3 DEF MarkSubmitted, MarkFailed, SignFailed, MarkChainNonceSubmitted,
              MarkChainNonceFailed, MemoryMarkChainNonce, TypeOK
<1>4. CASE Record(r) \/ RecordFailed(r)
  BY <1>4 DEF Record, RecordFailed, CreateSignerTransaction,
              PostgresCreateSignerTransaction, MemoryCreateSignerTransaction,
              TypeOK
<1> QED
  BY <1>1, <1>2, <1>3, <1>4 DEF Attempt

\* A crash ends the executions of its instance; with the memory store, whose
\* locks go too, that is all of them.
LEMMA ExclusionCrash ==
    ASSUME TypeOK, ClaimExclusive, NEW i \in Instances, Crash(i)
    PROVE  ClaimExclusive'
<1>1. CASE StoreKind = "postgres"
  <2>1. locks' = locks
    BY <1>1 DEF Crash, RestartStore, storeVars
  <2>2. \A q \in Requests : pc'[q] \in Executing => pc[q] \in Executing
    BY DEF Crash, TypeOK, Executing
  <2> QED
    BY <2>1, <2>2, ExclusionFrame
<1>2. CASE StoreKind = "memory"
  <2>1. \A q \in Requests : Req[q].host = i
    BY <1>2, RequestFacts, PipelineAssumption
  <2>2. \A q \in Requests : pc'[q] \notin Executing
    BY <2>1 DEF Crash, Executing
  <2> QED
    BY <2>2 DEF ClaimExclusive
<1> QED
  BY <1>1, <1>2, StoreAssumption

LEMMA ExclusionOther ==
    ASSUME TypeOK, ClaimExclusive,
           \/ \E r \in Requests : Disconnect(r)
           \/ \E i \in Instances : Monitor(i)
           \/ Mine
           \/ Midnight
           \/ UNCHANGED vars
    PROVE  ClaimExclusive'
<1>1. locks' = locks /\ pc' = pc
  BY DEF Disconnect, Monitor, MonitorList, MonitorCheck, MonitorHangs, Mine, Midnight, NextDay,
         MarkSignerTransactionStatus, vars, storeVars
<1> QED
  BY <1>1, ExclusionFrame

\* However many requests with the same idempotency key run on however many
\* instances, with whatever faults, at most one of them executes at a time, and
\* it holds the lock row of the key.
THEOREM ClaimExclusion == Spec => []ClaimExclusive
<1>1. Init => ClaimExclusive
  BY DEF Init, ClaimExclusive, Executing
<1>2. TypeOK /\ ClaimExclusive /\ [Next]_vars => ClaimExclusive'
  <2> SUFFICES ASSUME TypeOK, ClaimExclusive, [Next]_vars PROVE ClaimExclusive'
    OBVIOUS
  <2>1. ASSUME NEW r \in Requests, Arrive(r) PROVE ClaimExclusive'
    BY <2>1, ExclusionArrive
  <2>2. ASSUME NEW r \in Requests, Attempt(r) PROVE ClaimExclusive'
    <3>1. \A q \in Requests : pc'[q] \in Executing => pc[q] \in Executing
      BY <2>2, AttemptFrame
    <3> QED
      BY <2>2, <3>1, AttemptFrame, ExclusionFrame
  <2>3. ASSUME NEW r \in Requests, Step(r) PROVE ClaimExclusive'
    BY <2>2, <2>3, ExclusionHandler DEF Step
  <2>4. ASSUME NEW i \in Instances, Crash(i) PROVE ClaimExclusive'
    BY <2>4, ExclusionCrash
  <2> QED
    BY <2>1, <2>3, <2>4, ExclusionOther DEF Next
<1> QED
  BY <1>1, <1>2, TypeCorrect, PTL DEF Spec

-----------------------------------------------------------------------------
(***************************************************************************)
(* Uniqueness of the nonces.  NonceUnique speaks of signatures; a          *)
(* signature is made one step after its nonce was reserved, so the         *)
(* invariant follows the nonce from the row that was inserted for it: the  *)
(* nonce of a signature and of every attempt that holds one has a row      *)
(* (rows are never deleted), no two attempts hold the same one, and what   *)
(* an attempt is about to sign has not been signed.  A reservation takes   *)
(* a nonce without a row: Postgres because of the primary key, the memory  *)
(* store because all its rows are active and the nonce is beyond them.     *)
(***************************************************************************)
HasRow(w, n) == chainNonces[w][n] # "none"

NonceInv ==
    StoreSurvives =>
        /\ StoreKind = "memory" =>
             \A w \in Networks, n \in Nonces :
                chainNonces[w][n] \in {"none", "reserved"}
        /\ \A s \in signed : HasRow(Network(s.req), s.nonce)
        /\ \A r \in Requests : pc[r] \in HoldsNonce => HasRow(Network(r), nonce[r])
        /\ \A r, q \in Requests :
             /\ pc[r] \in HoldsNonce /\ pc[q] \in HoldsNonce
             /\ Network(r) = Network(q) /\ nonce[r] = nonce[q]
             => r = q
        /\ \A r \in Requests : pc[r] = "build" =>
             \A s \in signed : Network(s.req) = Network(r) => s.nonce # nonce[r]
        /\ NonceUnique

\* Steps that reserve nothing, sign nothing and delete no row.
LEMMA NonceFrame ==
    ASSUME TypeOK, NonceInv, signed' = signed, StoreSurvives' => StoreSurvives,
           StoreSurvives' =>
             \A w \in Networks, n \in Nonces :
               /\ HasRow(w, n) => HasRow(w, n)'
               /\ StoreKind = "memory" => chainNonces'[w][n] = chainNonces[w][n],
           \A q \in Requests :
             pc'[q] \in HoldsNonce =>
               /\ pc[q] \in HoldsNonce
               /\ nonce'[q] = nonce[q]
               /\ pc'[q] = "build" => pc[q] = "build"
    PROVE  NonceInv'
<1> SUFFICES ASSUME StoreSurvives' PROVE NonceInv'
  BY DEF NonceInv
<1> USE DEF Network
<1>1. \A s \in signed : Network(s.req) \in Networks /\ s.nonce \in Nonces
  BY RequestFacts DEF TypeOK, Signature
<1>2. \A r \in Requests : Network(r) \in Networks /\ nonce[r] \in Nonces
  BY RequestFacts DEF TypeOK
<1>3. "build" \in HoldsNonce
  BY DEF HoldsNonce
<1> HIDE DEF Network
<1>4. (StoreKind = "memory" =>
         \A w \in Networks, n \in Nonces :
            chainNonces[w][n] \in {"none", "reserved"})'
  BY DEF NonceInv
<1>5. (\A s \in signed : HasRow(Network(s.req), s.nonce))'
  BY <1>1 DEF NonceInv, Network
<1>6. (\A r \in Requests : pc[r] \in HoldsNonce => HasRow(Network(r), nonce[r]))'
  BY <1>2 DEF NonceInv, Network, HasRow
<1>7. (\A r, q \in Requests :
         /\ pc[r] \in HoldsNonce /\ pc[q] \in HoldsNonce
         /\ Network(r) = Network(q) /\ nonce[r] = nonce[q]
         => r = q)'
  BY DEF NonceInv, Network
<1>8. (\A r \in Requests : pc[r] = "build" =>
         \A s \in signed : Network(s.req) = Network(r) => s.nonce # nonce[r])'
  BY <1>3 DEF NonceInv, Network
<1>9. NonceUnique'
  BY DEF NonceInv, NonceUnique, Network
<1> QED
  BY <1>4, <1>5, <1>6, <1>7, <1>8, <1>9 DEF NonceInv

\* A reservation that succeeds inserts a row where there was none.
LEMMA FreshNonce ==
    ASSUME TypeOK, NonceInv, StoreSurvives,
           NEW w \in Networks, NEW p \in Nonces, NEW n \in Nonces,
           IsNextNonce(w, p, n), NonceRowFree(w, n)
    PROVE  ~HasRow(w, n)
<1>1. CASE StoreKind = "postgres"
  BY <1>1 DEF NonceRowFree, HasRow
<1>2. CASE StoreKind = "memory"
  <2>1. n \notin ActiveNonces(w)
    BY DEF IsNextNonce, Nonces
  <2> QED
    BY <1>2, <2>1 DEF ActiveNonces, NonceInv, HasRow
<1> QED
  BY <1>1, <1>2, StoreAssumption

LEMMA NonceReserve ==
    ASSUME TypeOK, NonceInv, NEW r \in Requests, Reserve(r)
    PROVE  NonceInv'
<1>1. CASE FailAttempt(r) /\ chainNonces' = chainNonces
  BY <1>1, NonceFrame DEF FailAttempt, Goto, Reserve, HoldsNonce, StoreSurvives,
                          HasRow, TypeOK, history
<1>2. CASE ~(FailAttempt(r) /\ chainNonces' = chainNonces)
  <2>1. PICK n \in Nonces :
          /\ IsNextNonce(Network(r), pending[r], n)
          /\ NonceRowFree(Network(r), n)
          /\ chainNonces' = [chainNonces EXCEPT ![Network(r)][n] = "reserved"]
          /\ \/ FailAttempt(r)
             \/ /\ nonce' = [nonce EXCEPT ![r] = n]
                /\ Goto(r, "build")
    BY <1>2 DEF Reserve, Perform, InsertNonceRow, SetNonceRow, storeVars
  <2>2. /\ signed' = signed
        /\ StoreSurvives' = StoreSurvives
        /\ pc[r] = "reserve"
    BY DEF Reserve, history, StoreSurvives
  <2>3. Network(r) \in Networks /\ pending[r] \in Nonces
    BY RequestFacts DEF TypeOK
  <2> SUFFICES ASSUME StoreSurvives PROVE NonceInv'
    BY <2>2 DEF NonceInv
  <2>4. ~HasRow(Network(r), n)
    BY <2>1, <2>3, FreshNonce
  <2>5. /\ \A w \in Networks, m \in Nonces : HasRow(w, m) => HasRow(w, m)'
        /\ HasRow(Network(r), n)'
        /\ StoreKind = "memory" =>
             \A w \in Networks, m \in Nonces :
                chainNonces'[w][m] \in {"none", "reserved"}
    BY <2>1, <2>3 DEF HasRow, TypeOK, StoreTypeOK, NonceInv, Network
  <2>6. CASE FailAttempt(r)
    <3>1. \A q \in Requests :
             pc'[q] \in HoldsNonce => /\ pc[q] \in HoldsNonce
                                      /\ nonce'[q] = nonce[q]
                                      /\ pc'[q] = pc[q]
      BY <2>6 DEF FailAttempt, Goto, HoldsNonce, TypeOK
    <3> QED
      <4>1. (\A s \in signed : HasRow(Network(s.req), s.nonce))'
        BY <2>2, <2>5, RequestFacts DEF NonceInv, TypeOK, Signature, Network
      <4>2. (\A q \in Requests :
                pc[q] \in HoldsNonce => HasRow(Network(q), nonce[q]))'
        BY <3>1, <2>5, RequestFacts DEF NonceInv, TypeOK, Network, HasRow
      <4>3. (\A p, q \in Requests :
                /\ pc[p] \in HoldsNonce /\ pc[q] \in HoldsNonce
                /\ Network(p) = Network(q) /\ nonce[p] = nonce[q]
                => p = q)'
        BY <3>1 DEF NonceInv, Network
      <4>4. (\A q \in Requests : pc[q] = "build" =>
                \A s \in signed :
                    Network(s.req) = Network(q) => s.nonce # nonce[q])'
        BY <3>1, <2>2 DEF NonceInv, Network, HoldsNonce
      <4>5. NonceUnique'
        BY <2>2 DEF NonceInv, NonceUnique, Network
      <4> QED
        BY <2>5, <4>1, <4>2, <4>3, <4>4, <4>5 DEF NonceInv
  <2>7. CASE nonce' = [nonce EXCEPT ![r] = n] /\ Goto(r, "build")
    <3>1. /\ nonce'[r] = n
          /\ \A q \in Requests \ {r} : nonce'[q] = nonce[q] /\ pc'[q] = pc[q]
      BY <2>7 DEF Goto, TypeOK
    <3>2. \A q \in Requests \ {r} :
             pc[q] \in HoldsNonce /\ Network(q) = Network(r) => nonce[q] # n
      BY <2>4 DEF NonceInv
    <3>3. \A s \in signed : Network(s.req) = Network(r) => s.nonce # n
      BY <2>4 DEF NonceInv
    <3>4. (\A s \in signed : HasRow(Network(s.req), s.nonce))'
      BY <2>2, <2>5, RequestFacts DEF NonceInv, TypeOK, Signature, Network
    <3>5. (\A q \in Requests :
              pc[q] \in HoldsNonce => HasRow(Network(q), nonce[q]))'
      <4> SUFFICES ASSUME NEW q \in Requests, pc'[q] \in HoldsNonce
                   PROVE  HasRow(Network(q), nonce[q])'
        BY DEF Network
      <4>1. Network(q) \in Networks /\ Network(q)' = Network(q)
        BY RequestFacts DEF Network
      <4>2. CASE q = r
        BY <2>5, <3>1, <4>1, <4>2 DEF HasRow
      <4>3. CASE q # r
        BY <2>5, <3>1, <4>1, <4>3 DEF NonceInv, TypeOK, HasRow
      <4> QED BY <4>2, <4>3
    <3>6. (\A p, q \in Requests :
              /\ pc[p] \in HoldsNonce /\ pc[q] \in HoldsNonce
              /\ Network(p) = Network(q) /\ nonce[p] = nonce[q]
              => p = q)'
      BY <3>1, <3>2 DEF NonceInv, Network
    <3>7. (\A q \in Requests : pc[q] = "build" =>
              \A s \in signed :
                  Network(s.req) = Network(q) => s.nonce # nonce[q])'
      BY <3>1, <3>3, <2>2 DEF NonceInv, Network
    <3>8. NonceUnique'
      BY <2>2 DEF NonceInv, NonceUnique, Network
    <3> QED
      BY <2>5, <3>4, <3>5, <3>6, <3>7, <3>8 DEF NonceInv
  <2> QED
    BY <2>1, <2>6, <2>7
<1> QED
  BY <1>1, <1>2

LEMMA NonceBuild ==
    ASSUME TypeOK, NonceInv, NEW r \in Requests, Build(r)
    PROVE  NonceInv'
<1>1. /\ pc[r] = "build"
      /\ chainNonces' = chainNonces
      /\ StoreSurvives' = StoreSurvives
  BY DEF Build, storeVars, StoreSurvives
<1>2. CASE signed' = signed
  BY <1>1, <1>2, NonceFrame
  DEF Build, FailAttempt, Goto, HoldsNonce, HasRow, TypeOK, localVars
<1>3. CASE signed' # signed
  <2> DEFINE s0 == [req |-> r, attempt |-> attempt[r], nonce |-> nonce[r]]
  <2>1. /\ signed' = signed \cup {s0}
        /\ Goto(r, "send")
        /\ nonce' = nonce
    BY <1>3 DEF Build, localVars
  <2>2. /\ pc'[r] = "send"
        /\ \A q \in Requests \ {r} : pc'[q] = pc[q]
    BY <2>1 DEF Goto, TypeOK
  <2>3. s0.req = r /\ s0.nonce = nonce[r]
    OBVIOUS
  <2> HIDE DEF s0
  <2>4. "send" \in HoldsNonce /\ "build" \in HoldsNonce
    BY DEF HoldsNonce
  <2> SUFFICES ASSUME StoreSurvives PROVE NonceInv'
    BY <1>1 DEF NonceInv
  <2>5. (\A s \in signed : HasRow(Network(s.req), s.nonce))'
    BY <1>1, <2>1, <2>3, <2>4 DEF NonceInv, HasRow, Network
  <2>6. (\A q \in Requests : pc[q] \in HoldsNonce => HasRow(Network(q), nonce[q]))'
    BY <1>1, <2>1, <2>2, <2>4 DEF NonceInv, HasRow, Network
  <2>7. (\A p, q \in Requests :
            /\ pc[p] \in HoldsNonce /\ pc[q] \in HoldsNonce
            /\ Network(p) = Network(q) /\ nonce[p] = nonce[q]
            => p = q)'
    BY <1>1, <2>1, <2>2, <2>4 DEF NonceInv, Network
  <2>8. (\A q \in Requests : pc[q] = "build" =>
            \A s \in signed : Network(s.req) = Network(q) => s.nonce # nonce[q])'
    BY <1>1, <2>1, <2>2, <2>3, <2>4 DEF NonceInv, Network
  <2>9. NonceUnique'
    BY <1>1, <2>1, <2>3 DEF NonceInv, NonceUnique, Network
  <2> QED
    BY <1>1, <2>5, <2>6, <2>7, <2>8, <2>9 DEF NonceInv
<1> QED
  BY <1>2, <1>3

\* The other steps of an attempt keep the nonce, or give it up.
LEMMA NonceAttempt ==
    ASSUME TypeOK, NonceInv, NEW r \in Requests, Attempt(r),
           ~Reserve(r), ~Build(r)
    PROVE  NonceInv'
<1> USE DEF Goto, FailAttempt, HoldsNonce, HasRow, StoreSurvives, history, localVars
<1>1. CASE Dial(r)
  BY <1>1, NonceFrame DEF Dial, storeVars, TypeOK
<1>2. CASE Send(r)
  BY <1>2, NonceFrame DEF Send, storeVars, TypeOK
<1>3. CASE MarkSubmitted(r) \/ MarkFailed(r) \/ SignFailed(r)
  <2>1. \A w \in Networks, n \in Nonces :
          /\ HasRow(w, n) => HasRow(w, n)'
          /\ StoreKind = "memory" => chainNonces'[w][n] = chainNonces[w][n]
    <3>1. \/ chainNonces' = chainNonces
          \/ /\ StoreKind = "postgres"
             /\ \E status \in {"submitted", "failed"} :
                  chainNonces' = [chainNonces EXCEPT ![Network(r)][nonce[r]] = status]
      BY <1>3 DEF MarkSubmitted, MarkFailed, SignFailed, MarkChainNonceSubmitted,
                  MarkChainNonceFailed, MemoryMarkChainNonce, SetNonceRow,
                  Perform, storeVars
    <3>2. Network(r) \in Networks /\ nonce[r] \in Nonces
      BY RequestFacts DEF TypeOK
    <3>3. chainNonces \in [Networks -> [Nonces -> RowStatus]]
      BY DEF TypeOK, StoreTypeOK
    <3>4. ASSUME NEW status \in {"submitted", "failed"},
                 chainNonces' = [chainNonces EXCEPT ![Network(r)][nonce[r]] = status],
                 NEW w \in Networks, NEW n \in Nonces, HasRow(w, n)
          PROVE  HasRow(w, n)'
      BY <3>2, <3>3, <3>4
    <3> QED
      BY <3>1, <3>4, StoreAssumption
  <2>2. \A q \in Requests :
          pc'[q] \in HoldsNonce =>
            /\ pc[q] \in HoldsNonce
            /\ nonce'[q] = nonce[q]
            /\ pc'[q] = "build" => pc[q] = "build"
    BY <1>3 DEF MarkSubmitted, MarkFailed, SignFailed, TypeOK
  <2>3. signed' = signed /\ crashes' = crashes
    BY <1>3 DEF MarkSubmitted, MarkFailed, SignFailed
  <2> QED
    BY <2>1, <2>2, <2>3, NonceFrame
<1>4. CASE Record(r) \/ RecordFailed(r)
  <2>1. chainNonces' = chainNonces
    BY <1>4 DEF Record, RecordFailed, CreateSignerTransaction, Perform, storeVars,
                PostgresCreateSignerTransaction, MemoryCreateSignerTransaction
  <2> QED
    BY <1>4, <2>1, NonceFrame DEF Record, RecordFailed, TypeOK
<1> QED
  BY <1>1, <1>2, <1>3, <1>4 DEF Attempt

LEMMA NonceHandler ==
    ASSUME TypeOK, NonceInv, NEW r \in Requests,
           Arrive(r) \/ ClaimLock(r) \/ Validate(r) \/ Release(r) \/ Save(r)
    PROVE  NonceInv'
<1> USE DEF Goto, Reply, HoldsNonce, HasRow, StoreSurvives, history, localVars,
            storeVars, Perform
<1>1. CASE Arrive(r)
  <2>1. /\ chainNonces' = chainNonces /\ signed' = signed
        /\ nonce' = nonce /\ crashes' = crashes
    BY <1>1 DEF Arrive, RefuseEarly, ClaimNothing, LookupResult,
                MemoryClaimResult, InsertLock
  <2>2. \A q \in Requests : pc'[q] \in HoldsNonce => pc'[q] = pc[q]
    BY <1>1 DEF Arrive, RefuseEarly, ClaimNothing, LookupResult,
                MemoryClaimResult, TypeOK
  <2> QED
    BY <2>1, <2>2, NonceFrame
<1>2. CASE ClaimLock(r)
  BY <1>2, NonceFrame DEF ClaimLock, InsertLock, TypeOK
<1>3. CASE Validate(r)
  BY <1>3, NonceFrame DEF Validate, TypeOK
<1>4. CASE Release(r)
  BY <1>4, NonceFrame DEF Release, ReleaseClaim, TypeOK
<1>5. CASE Save(r)
  BY <1>5, NonceFrame DEF Save, SaveResult, PostgresSaveResult, MemorySaveResult,
                          TypeOK
<1> QED
  BY <1>1, <1>2, <1>3, <1>4, <1>5

LEMMA NonceOther ==
    ASSUME TypeOK, NonceInv,
           \/ \E r \in Requests : Disconnect(r)
           \/ \E i \in Instances : Monitor(i) \/ Crash(i)
           \/ Mine
           \/ Midnight
           \/ UNCHANGED vars
    PROVE  NonceInv'
<1> USE DEF HasRow, StoreSurvives, history, localVars, storeVars
<1>1. ASSUME NEW i \in Instances, Crash(i) PROVE NonceInv'
  <2>1. \A q \in Requests : pc'[q] \in HoldsNonce => pc'[q] = pc[q]
    BY <1>1 DEF Crash, HoldsNonce
  <2>2. StoreSurvives' => StoreSurvives /\ chainNonces' = chainNonces
    BY <1>1 DEF Crash, RestartStore, TypeOK
  <2>3. signed' = signed /\ nonce' = nonce
    BY <1>1 DEF Crash
  <2> QED
    BY <2>1, <2>2, <2>3, NonceFrame
<1>2. CASE ~\E i \in Instances : Crash(i)
  <2>1. /\ chainNonces' = chainNonces /\ signed' = signed
        /\ nonce' = nonce /\ crashes' = crashes /\ pc' = pc
    BY <1>2 DEF Disconnect, Monitor, MonitorList, MonitorCheck, MonitorHangs, Mine, Midnight,
                NextDay, MarkSignerTransactionStatus, vars
  <2> QED
    BY <2>1, NonceFrame
<1> QED
  BY <1>1, <1>2

LEMMA NonceInductive == Spec => []NonceInv
<1>1. Init => NonceInv
  BY DEF Init, StoreInit, NonceInv, NonceUnique, HoldsNonce
<1>2. TypeOK /\ NonceInv /\ [Next]_vars => NonceInv'
  <2> SUFFICES ASSUME TypeOK, NonceInv, [Next]_vars PROVE NonceInv'
    OBVIOUS
  <2>1. ASSUME NEW r \in Requests, Attempt(r) PROVE NonceInv'
    BY <2>1, NonceReserve, NonceBuild, NonceAttempt
  <2>2. ASSUME NEW r \in Requests, Arrive(r) \/ Step(r) PROVE NonceInv'
    BY <2>1, <2>2, NonceHandler DEF Step
  <2> QED
    BY <2>2, NonceOther DEF Next
<1> QED
  BY <1>1, <1>2, TypeCorrect, PTL DEF Spec

\* No two signatures for a network spend the same nonce of the wallet, whatever
\* the interleaving of requests and instances, the lag of the nodes and the
\* failures; with the memory store, as long as the process lives.
THEOREM NonceUniqueness == Spec => []NonceUnique
<1>1. NonceInv => NonceUnique
  BY DEF NonceInv, NonceUnique
<1> QED
  BY <1>1, NonceInductive, PTL

-----------------------------------------------------------------------------
(***************************************************************************)
(* Gaps.  A nonce is filled when the chain has executed it or holds a      *)
(* transaction for it, and stays so.  The invariant says that below a row  *)
(* of the nonce table every nonce is filled or has a row itself, and that  *)
(* everything below a pending nonce a node has reported is filled: the two *)
(* places a reservation takes its nonce from.                              *)
(***************************************************************************)
Filled(m) == m < base \/ slots[m] # NoTx

GapInv ==
    StoreSurvives =>
        /\ \A w \in Networks, n, m \in Nonces :
             m < n /\ HasRow(w, n) => Filled(m) \/ HasRow(w, m)
        /\ \A r \in Requests : pc[r] = "reserve" =>
             \A m \in Nonces : m < pending[r] => Filled(m)

\* Steps that insert no row and ask no node for the pending nonce.
LEMMA GapFrame ==
    ASSUME GapInv, StoreSurvives' => StoreSurvives,
           \A m \in Nonces : Filled(m) => Filled(m)',
           StoreSurvives' =>
             \A w \in Networks, n \in Nonces : HasRow(w, n)' <=> HasRow(w, n),
           \A q \in Requests :
             pc'[q] = "reserve" => pc[q] = "reserve" /\ pending'[q] = pending[q]
    PROVE  GapInv'
<1> SUFFICES ASSUME StoreSurvives' PROVE GapInv'
  BY DEF GapInv
<1>1. (\A w \in Networks, n, m \in Nonces :
          m < n /\ HasRow(w, n) => Filled(m) \/ HasRow(w, m))'
  BY DEF GapInv
<1>2. (\A r \in Requests : pc[r] = "reserve" =>
          \A m \in Nonces : m < pending[r] => Filled(m))'
  <2> SUFFICES ASSUME NEW r \in Requests, pc'[r] = "reserve",
                      NEW m \in Nonces, m < pending'[r]
               PROVE  Filled(m)'
    OBVIOUS
  <2> QED
    BY DEF GapInv
<1> QED
  BY <1>1, <1>2 DEF GapInv

LEMMA GapDial ==
    ASSUME TypeOK, GapInv, NEW r \in Requests, Dial(r)
    PROVE  GapInv'
<1>1. /\ chainNonces' = chainNonces /\ slots' = slots /\ base' = base
      /\ crashes' = crashes
  BY DEF Dial, storeVars, chainVars
<1>2. CASE FailAttempt(r)
  BY <1>1, <1>2, GapFrame DEF FailAttempt, Goto, TypeOK, Filled, HasRow, StoreSurvives
<1>3. CASE ~FailAttempt(r)
  <2>1. PICK p \in Nonces : ReportedPending(p) /\ pending' = [pending EXCEPT ![r] = p]
    BY <1>3 DEF Dial
  <2>2. \A m \in Nonces : m < p => Filled(m)
    <3>1. PICK g \in Nonces : IsFirstGap(g) /\ p <= g
      BY <2>1 DEF ReportedPending
    <3> QED
      BY <3>1 DEF IsFirstGap, Filled, Nonces, TypeOK
  <2>3. /\ pending'[r] = p
        /\ \A q \in Requests \ {r} : pending'[q] = pending[q] /\ pc'[q] = pc[q]
    BY <1>3, <2>1 DEF Dial, Goto, TypeOK
  <2> QED
    BY <1>1, <2>2, <2>3 DEF GapInv, Filled, HasRow, StoreSurvives
<1> QED
  BY <1>2, <1>3

LEMMA GapReserve ==
    ASSUME TypeOK, GapInv, NEW r \in Requests, Reserve(r)
    PROVE  GapInv'
<1>1. /\ slots' = slots /\ base' = base /\ crashes' = crashes
      /\ pc[r] = "reserve"
  BY DEF Reserve, chainVars
<1>2. \A q \in Requests :
         pc'[q] = "reserve" => pc[q] = "reserve" /\ pending'[q] = pending[q]
  BY DEF Reserve, FailAttempt, Goto, TypeOK
<1>3. CASE chainNonces' = chainNonces
  BY <1>1, <1>2, <1>3, GapFrame DEF Filled, HasRow, StoreSurvives
<1>4. CASE chainNonces' # chainNonces
  <2>1. PICK n \in Nonces :
          /\ IsNextNonce(Network(r), pending[r], n)
          /\ chainNonces' = [chainNonces EXCEPT ![Network(r)][n] = "reserved"]
    BY <1>4 DEF Reserve, Perform, InsertNonceRow, SetNonceRow, storeVars
  <2>2. Network(r) \in Networks /\ pending[r] \in Nonces
    BY RequestFacts DEF TypeOK
  <2>3. chainNonces \in [Networks -> [Nonces -> RowStatus]]
    BY DEF TypeOK, StoreTypeOK
  <2>4. \A w \in Networks, m \in Nonces :
           HasRow(w, m)' <=> HasRow(w, m) \/ (w = Network(r) /\ m = n)
    BY <2>1, <2>2, <2>3 DEF HasRow
  <2> SUFFICES ASSUME StoreSurvives PROVE GapInv'
    BY <1>1 DEF GapInv, StoreSurvives
  <2>5. \A m \in Nonces : m < n => Filled(m) \/ HasRow(Network(r), m)
    <3>1. CASE n = pending[r]
      BY <1>1, <3>1 DEF GapInv
    <3>2. CASE n - 1 \in ActiveNonces(Network(r))
      <4>1. n - 1 \in Nonces /\ HasRow(Network(r), n - 1)
        BY <3>2 DEF ActiveNonces, HasRow
      <4>2. \A m \in Nonces : m < n => m = n - 1 \/ m < n - 1
        BY DEF Nonces
      <4> QED
        BY <2>2, <4>1, <4>2 DEF GapInv
    <3> QED
      BY <2>1, <3>1, <3>2 DEF IsNextNonce
  <2>6. (\A w \in Networks, k, m \in Nonces :
            m < k /\ HasRow(w, k) => Filled(m) \/ HasRow(w, m))'
    <3>1. \A m \in Nonces : Filled(m)' <=> Filled(m)
      BY <1>1 DEF Filled
    <3> QED
      BY <2>4, <2>5, <3>1 DEF GapInv
  <2>7. (\A q \in Requests : pc[q] = "reserve" =>
            \A m \in Nonces : m < pending[q] => Filled(m))'
    BY <1>1, <1>2 DEF GapInv, Filled
  <2> QED
    BY <2>6, <2>7 DEF GapInv
<1> QED
  BY <1>3, <1>4

LEMMA GapAttempt ==
    ASSUME TypeOK, GapInv, NonceInv, NEW r \in Requests, Attempt(r),
           ~Dial(r), ~Reserve(r)
    PROVE  GapInv'
<1> USE DEF Goto, FailAttempt, Filled, StoreSurvives, history, localVars, chainVars
<1>1. CASE Build(r)
  BY <1>1, GapFrame DEF Build, storeVars, TypeOK, HasRow
<1>2. CASE Send(r)
  <2>1. TxOf(r) # NoTx /\ TxOf(r).nonce = nonce[r]
    BY TxType, NoTxAssumption DEF TxOf
  <2>2. \A m \in Nonces : Filled(m) => Filled(m)'
    BY <1>2, <2>1 DEF Send, TakeTransaction, TypeOK
  <2>3. chainNonces' = chainNonces /\ crashes' = crashes
    BY <1>2 DEF Send, storeVars
  <2>4. \A q \in Requests :
           pc'[q] = "reserve" => pc[q] = "reserve" /\ pending'[q] = pending[q]
    BY <1>2 DEF Send, TypeOK
  <2> QED
    BY <2>2, <2>3, <2>4, GapFrame DEF HasRow
<1>3. CASE MarkSubmitted(r) \/ MarkFailed(r) \/ SignFailed(r)
  <2>1. Network(r) \in Networks /\ nonce[r] \in Nonces
    BY RequestFacts DEF TypeOK
  <2>2. chainNonces \in [Networks -> [Nonces -> RowStatus]]
    BY DEF TypeOK, StoreTypeOK
  <2>3. StoreSurvives => HasRow(Network(r), nonce[r])
    BY <1>3 DEF NonceInv, HoldsNonce, MarkSubmitted, MarkFailed, SignFailed
  <2>4. \/ chainNonces' = chainNonces
        \/ \E status \in {"submitted", "failed"} :
             chainNonces' = [chainNonces EXCEPT ![Network(r)][nonce[r]] = status]
    BY <1>3 DEF MarkSubmitted, MarkFailed, SignFailed, MarkChainNonceSubmitted,
                MarkChainNonceFailed, MemoryMarkChainNonce, SetNonceRow,
                Perform, storeVars
  <2>5. StoreSurvives =>
           \A w \in Networks, n \in Nonces : HasRow(w, n)' <=> HasRow(w, n)
    BY <2>1, <2>2, <2>3, <2>4 DEF HasRow
  <2>6. /\ crashes' = crashes /\ slots' = slots /\ base' = base
        /\ \A q \in Requests :
             pc'[q] = "reserve" => pc[q] = "reserve" /\ pending'[q] = pending[q]
    BY <1>3 DEF MarkSubmitted, MarkFailed, SignFailed, TypeOK
  <2> QED
    BY <2>5, <2>6, GapFrame
<1>4. CASE Record(r) \/ RecordFailed(r)
  <2>1. chainNonces' = chainNonces
    BY <1>4 DEF Record, RecordFailed, CreateSignerTransaction, Perform, storeVars,
                PostgresCreateSignerTransaction, MemoryCreateSignerTransaction
  <2> QED
    BY <1>4, <2>1, GapFrame DEF Record, RecordFailed, TypeOK, HasRow
<1> QED
  BY <1>1, <1>2, <1>3, <1>4 DEF Attempt

LEMMA GapOther ==
    ASSUME TypeOK, GapInv,
           \/ \E r \in Requests : \/ Arrive(r) \/ ClaimLock(r) \/ Validate(r)
                                  \/ Release(r) \/ Save(r) \/ Disconnect(r)
           \/ \E i \in Instances : Monitor(i) \/ Crash(i)
           \/ Mine
           \/ Midnight
           \/ UNCHANGED vars
    PROVE  GapInv'
<1> USE DEF Filled, HasRow, StoreSurvives, history, localVars, chainVars, storeVars
<1>1. ASSUME NEW r \in Requests,
             \/ Arrive(r) \/ ClaimLock(r) \/ Validate(r) \/ Release(r) \/ Save(r)
      PROVE  GapInv'
  <2>1. /\ chainNonces' = chainNonces /\ slots' = slots /\ base' = base
        /\ pending' = pending /\ crashes' = crashes
    BY <1>1 DEF Arrive, RefuseEarly, ClaimNothing, LookupResult,
                MemoryClaimResult, InsertLock, ClaimLock, Validate, Release,
                ReleaseClaim, Save, SaveResult, PostgresSaveResult,
                MemorySaveResult, Perform
  <2>2. \A q \in Requests : pc'[q] = "reserve" => pc[q] = "reserve"
    BY <1>1 DEF Arrive, RefuseEarly, ClaimNothing, LookupResult,
                MemoryClaimResult, ClaimLock, Validate, Release, Save,
                Goto, Reply, TypeOK
  <2> QED
    BY <2>1, <2>2, GapFrame
<1>2. ASSUME NEW i \in Instances, Crash(i) PROVE GapInv'
  <2>1. \A q \in Requests : pc'[q] = "reserve" => pc[q] = "reserve"
    BY <1>2 DEF Crash
  <2>2. StoreSurvives' => StoreSurvives /\ chainNonces' = chainNonces
    BY <1>2 DEF Crash, RestartStore, TypeOK
  <2>3. slots' = slots /\ base' = base /\ pending' = pending
    BY <1>2 DEF Crash
  <2> QED
    BY <2>1, <2>2, <2>3, GapFrame
<1>3. CASE Mine
  BY <1>3, GapFrame DEF Mine, TypeOK, Nonces
<1>4. CASE \/ \E r \in Requests : Disconnect(r)
           \/ \E i \in Instances : Monitor(i)
           \/ Midnight
           \/ UNCHANGED vars
  <2>1. /\ chainNonces' = chainNonces /\ slots' = slots /\ base' = base
        /\ pending' = pending /\ crashes' = crashes /\ pc' = pc
    BY <1>4 DEF Disconnect, Monitor, MonitorList, MonitorCheck, MonitorHangs, Midnight, NextDay,
                MarkSignerTransactionStatus, vars
  <2> QED
    BY <2>1, GapFrame
<1> QED
  BY <1>1, <1>2, <1>3, <1>4

LEMMA GapInductive == Spec => []GapInv
<1>1. Init => GapInv
  BY DEF Init, StoreInit, GapInv, HasRow
<1>2. TypeOK /\ NonceInv /\ GapInv /\ [Next]_vars => GapInv'
  <2> SUFFICES ASSUME TypeOK, NonceInv, GapInv, [Next]_vars PROVE GapInv'
    OBVIOUS
  <2>1. ASSUME NEW r \in Requests, Step(r) PROVE GapInv'
    BY <2>1, GapDial, GapReserve, GapAttempt, GapOther DEF Step
  <2> QED
    BY <2>1, GapOther DEF Next
<1> QED
  BY <1>1, <1>2, TypeCorrect, NonceInductive, PTL DEF Spec

\* A nonce below a signed one that neither the chain nor its mempool has, and
\* that therefore blocks the wallet, is always accounted for by a row of the
\* nonce table.
THEOREM GapsAccounted == Spec => []NoSilentGap
<1>1. TypeOK /\ NonceInv /\ GapInv => NoSilentGap
  <2> SUFFICES ASSUME TypeOK, NonceInv, GapInv, StoreSurvives,
                      NEW s \in signed, NEW m \in Nonces,
                      m < s.nonce, m >= base, slots[m] = NoTx
               PROVE  HasRow(Network(s.req), m)
    BY DEF NoSilentGap, HasRow
  <2>1. Network(s.req) \in Networks /\ s.nonce \in Nonces
    BY RequestFacts DEF TypeOK, Signature
  <2>2. HasRow(Network(s.req), s.nonce)
    BY DEF NonceInv
  <2>3. ~Filled(m)
    BY DEF Filled, Nonces, TypeOK
  <2> QED
    BY <2>1, <2>2, <2>3 DEF GapInv
<1> QED
  BY <1>1, TypeCorrect, NonceInductive, GapInductive, PTL
=============================================================================
