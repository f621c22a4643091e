---------------------------- MODULE LedgerProofs ----------------------------
(***************************************************************************)
(* What the signer says about the chain, in its answers and in its ledger, *)
(* is what the chain holds: proofs of AnswerOnChain, LedgerTruth and       *)
(* FinalStatusStays, of what the code contributes to OutflowCounted, and   *)
(* of what a request leaves behind when nothing fails.                     *)
(*                                                                         *)
(* The nonce table is kept per network, the account nonces of the wallet   *)
(* per chain.  A chain that is configured under two network names gets two *)
(* series of reservations for one series of nonces, and the transactions   *)
(* of the one replace those of the other in the mempool.  OneNetwork is    *)
(* the other case: what the signer sends to the chain goes by one name.    *)
(***************************************************************************)
EXTENDS IdempotencyProofs

OneNetwork == \A r, q \in Requests : Network(r) = Network(q)

-----------------------------------------------------------------------------
(***************************************************************************)
(* The chain.  A transaction on its way to a node has a nonce for which    *)
(* nothing has been broadcast, so what a node takes replaces nothing.      *)
(***************************************************************************)
SignatureOf(r) == [req |-> r, attempt |-> attempt[r], nonce |-> nonce[r]]

ChainInv ==
    StoreSurvives /\ OneNetwork =>
        /\ \A a \in accepted : \E s \in signed : s.nonce = a.nonce
        /\ \A n \in Nonces : slots[n] # NoTx => \E a \in accepted : a.nonce = n
        /\ \A r \in Requests : pc[r] = "send" =>
             /\ SignatureOf(r) \in signed
             /\ \A a \in accepted : a.nonce # nonce[r]
        /\ \A r \in Requests : pc[r] \in Sent => slots[nonce[r]] = TxOf(r)

\* A step that signs and sends nothing, and starts no sending.
ChainQuiet ==
    /\ UNCHANGED <<signed, accepted, slots>>
    /\ \A q \in Requests :
         /\ pc'[q] = "send" => pc[q] = "send"
         /\ pc'[q] \in Sent => pc[q] \in Sent
         /\ pc'[q] \in Sent \cup {"send"} =>
              nonce'[q] = nonce[q] /\ attempt'[q] = attempt[q]

LEMMA SurvivedBefore ==
    ASSUME TypeOK, [Next]_vars, StoreSurvives'
    PROVE  StoreSurvives
  BY CrashesGrow DEF StoreSurvives, TypeOK

LEMMA HandlerChainQuiet ==
    ASSUME TypeOK, NEW r \in Requests,
           Arrive(r) \/ ClaimLock(r) \/ Validate(r) \/ Release(r) \/ Save(r)
    PROVE  ChainQuiet
<1> USE DEF Goto, Reply, history, localVars, chainVars, Sent
<1>1. CASE Arrive(r)
  <2>1. UNCHANGED <<signed, accepted, slots, nonce, attempt>>
    BY <1>1 DEF Arrive, RefuseEarly, ClaimNothing, LookupResult, MemoryClaimResult
  <2>2. \A q \in Requests : pc'[q] \in Sent \cup {"send"} => pc'[q] = pc[q]
    BY <1>1 DEF Arrive, RefuseEarly, ClaimNothing, LookupResult,
                MemoryClaimResult, TypeOK
  <2> QED BY <2>1, <2>2 DEF ChainQuiet
<1>2. CASE ClaimLock(r)
  BY <1>2 DEF ClaimLock, TypeOK, ChainQuiet
<1>3. CASE Validate(r)
  BY <1>3 DEF Validate, TypeOK, ChainQuiet
<1>4. CASE Release(r) \/ Save(r)
  BY <1>4 DEF Release, Save, TypeOK, ChainQuiet
<1> QED BY <1>1, <1>2, <1>3, <1>4

LEMMA AttemptChainQuiet ==
    ASSUME TypeOK, NEW r \in Requests, Attempt(r), ~Build(r), ~Send(r)
    PROVE  ChainQuiet
<1>1. UNCHANGED <<signed, accepted, slots>>
  BY DEF Attempt, Dial, Reserve, MarkSubmitted, Record, MarkFailed, RecordFailed,
         SignFailed, history, chainVars
<1>2. \A q \in Requests \ {r} :
        pc'[q] = pc[q] /\ nonce'[q] = nonce[q] /\ attempt'[q] = attempt[q]
  BY AttemptFrame, AttemptShape, OthersFrame
<1>3. CASE Dial(r) \/ Reserve(r) \/ MarkFailed(r) \/ RecordFailed(r) \/ SignFailed(r)
  <2>1. \E label \in {"dial", "reserve", "build", "release", "recordFailed"} :
           Goto(r, label)
    BY <1>3 DEF Dial, Reserve, MarkFailed, RecordFailed, SignFailed, FailAttempt
  <2>2. pc'[r] \notin Sent \cup {"send"}
    BY <2>1 DEF Goto, TypeOK, Sent
  <2> QED BY <1>1, <1>2, <2>2 DEF ChainQuiet
<1>4. CASE MarkSubmitted(r) \/ Record(r)
  <2>1. /\ pc[r] \in Sent /\ UNCHANGED <<nonce, attempt>>
        /\ \E label \in {"record", "save"} : Goto(r, label)
    BY <1>4 DEF MarkSubmitted, Record, localVars, Sent
  <2>2. pc'[r] # "send"
    BY <2>1 DEF Goto, TypeOK
  <2> QED BY <1>1, <1>2, <2>1, <2>2 DEF ChainQuiet
<1> QED BY <1>3, <1>4 DEF Attempt

LEMMA OtherChainQuiet ==
    ASSUME TypeOK,
           \/ \E r \in Requests : Disconnect(r)
           \/ \E i \in Instances : Monitor(i) \/ Crash(i)
           \/ Mine
           \/ Midnight
           \/ UNCHANGED vars
    PROVE  ChainQuiet
<1> USE DEF history, localVars, chainVars
<1>1. ASSUME NEW i \in Instances, Crash(i) PROVE ChainQuiet
  <2>1. \A q \in Requests : pc'[q] \in Sent \cup {"send"} => pc'[q] = pc[q]
    BY <1>1 DEF Crash, Sent
  <2> QED BY <1>1, <2>1 DEF Crash, ChainQuiet
<1>2. CASE ~\E i \in Instances : Crash(i)
  BY <1>2 DEF Disconnect, Monitor, MonitorList, MonitorCheck, MonitorHangs, Mine, Midnight,
              vars, ChainQuiet
<1> QED BY <1>1, <1>2

LEMMA ChainShape ==
    ASSUME TypeOK, [Next]_vars
    PROVE  ChainQuiet \/ \E r \in Requests : Build(r) \/ Send(r)
  BY HandlerChainQuiet, AttemptChainQuiet, OtherChainQuiet DEF Next, Step

LEMMA ChainFrame ==
    ASSUME TypeOK, ChainInv, StoreSurvives, OneNetwork, ChainQuiet
    PROVE  ChainInv'
<1>1. (\A a \in accepted : \E s \in signed : s.nonce = a.nonce)'
  BY DEF ChainInv, ChainQuiet
<1>2. (\A n \in Nonces : slots[n] # NoTx => \E a \in accepted : a.nonce = n)'
  BY DEF ChainInv, ChainQuiet
<1>3. (\A r \in Requests : pc[r] = "send" =>
         /\ SignatureOf(r) \in signed
         /\ \A a \in accepted : a.nonce # nonce[r])'
  BY DEF ChainInv, ChainQuiet, SignatureOf
<1>4. (\A r \in Requests : pc[r] \in Sent => slots[nonce[r]] = TxOf(r))'
  BY DEF ChainInv, ChainQuiet, TxOf
<1> QED BY <1>1, <1>2, <1>3, <1>4 DEF ChainInv

\* What is signed has a nonce for which nothing was signed before, let alone
\* sent.
LEMMA ChainBuild ==
    ASSUME TypeOK, NonceInv, ChainInv, StoreSurvives, OneNetwork,
           NEW r \in Requests, Build(r)
    PROVE  ChainInv'
<1>1. CASE ~Goto(r, "send")
  <2>1. ChainQuiet
    <3>1. UNCHANGED <<signed, accepted, slots>>
      BY <1>1 DEF Build, chainVars
    <3>2. \A q \in Requests \ {r} :
            pc'[q] = pc[q] /\ nonce'[q] = nonce[q] /\ attempt'[q] = attempt[q]
      BY DEF Build, FailAttempt, Goto, localVars, TypeOK
    <3>3. pc'[r] \notin Sent \cup {"send"}
      BY <1>1 DEF Build, FailAttempt, Goto, TypeOK, Sent
    <3> QED BY <3>1, <3>2, <3>3 DEF ChainQuiet
  <2> QED BY <2>1, ChainFrame
<1>2. CASE Goto(r, "send")
  <2>1. /\ signed' = signed \cup {SignatureOf(r)}
        /\ pc[r] = "build" /\ Goto(r, "send")
        /\ UNCHANGED <<accepted, slots, nonce, attempt>>
    BY <1>2 DEF Build, localVars, chainVars, SignatureOf, FailAttempt, Goto, TypeOK
  <2>2. \A q \in Requests : IF q = r THEN pc'[q] = "send" ELSE pc'[q] = pc[q]
    BY <2>1 DEF Goto, TypeOK
  <2>3. \A s \in signed : s.nonce # nonce[r]
    BY <2>1 DEF NonceInv, OneNetwork, TypeOK, Signature
  <2>4. \A a \in accepted : a.nonce # nonce[r]
    BY <2>3 DEF ChainInv
  <2>5. (\A a \in accepted : \E s \in signed : s.nonce = a.nonce)'
    BY <2>1 DEF ChainInv
  <2>6. (\A n \in Nonces : slots[n] # NoTx => \E a \in accepted : a.nonce = n)'
    BY <2>1 DEF ChainInv
  <2>7. (\A q \in Requests : pc[q] = "send" =>
           /\ SignatureOf(q) \in signed
           /\ \A a \in accepted : a.nonce # nonce[q])'
    BY <2>1, <2>2, <2>4 DEF ChainInv, SignatureOf
  <2>8. (\A q \in Requests : pc[q] \in Sent => slots[nonce[q]] = TxOf(q))'
    BY <2>1, <2>2 DEF ChainInv, TxOf, Sent
  <2> QED BY <2>5, <2>6, <2>7, <2>8 DEF ChainInv
<1> QED BY <1>1, <1>2

\* What a node takes goes where nothing was.
LEMMA SendFresh ==
    ASSUME TypeOK, ChainInv, StoreSurvives, OneNetwork,
           NEW r \in Requests, pc[r] = "send"
    PROVE  slots[nonce[r]] = NoTx
  BY DEF ChainInv, TypeOK

LEMMA ChainSend ==
    ASSUME TypeOK, NonceInv, ChainInv, StoreSurvives, OneNetwork,
           NEW r \in Requests, Send(r)
    PROVE  ChainInv'
<1>1. CASE accepted' = accepted /\ slots' = slots /\ Goto(r, "markFailed")
  <2>1. ChainQuiet
    BY <1>1 DEF Send, Goto, localVars, chainVars, TypeOK, Sent, ChainQuiet
  <2> QED BY <2>1, ChainFrame
<1>2. CASE ~(accepted' = accepted /\ slots' = slots /\ Goto(r, "markFailed"))
  <2>1. PICK acked \in BOOLEAN :
          /\ LogBroadcast(r, acked)
          /\ TakeTransaction(TxOf(r))
          /\ Goto(r, IF acked THEN "markSubmitted" ELSE "markFailed")
    BY <1>2 DEF Send, chainVars
  <2>2. pc[r] = "send" /\ UNCHANGED <<signed, nonce, attempt>>
    BY DEF Send, localVars
  <2>3. slots' = [slots EXCEPT ![nonce[r]] = TxOf(r)]
    BY <2>1 DEF TakeTransaction, TxOf
  <2>4. PICK b \in accepted' : b.nonce = nonce[r] /\ accepted' = accepted \cup {b}
    BY <2>1 DEF LogBroadcast
  <2>5. SignatureOf(r) \in signed /\ SignatureOf(r).nonce = nonce[r]
    BY <2>2 DEF ChainInv, SignatureOf
  <2>6. \A q \in Requests \ {r} :
           /\ pc'[q] = pc[q]
           /\ pc[q] \in HoldsNonce => nonce[q] # nonce[r]
    <3>1. "send" \in HoldsNonce
      BY DEF HoldsNonce
    <3> QED BY <2>1, <2>2, <3>1 DEF Goto, TypeOK, NonceInv, OneNetwork
  <2>7. slots[nonce[r]] = NoTx /\ nonce[r] \in Nonces
    BY <2>2, SendFresh DEF TypeOK
  <2>8. pc'[r] # "send" /\ TxOf(r)' = TxOf(r) /\ slots'[nonce[r]] = TxOf(r)
    BY <2>1, <2>2, <2>3, <2>7 DEF Goto, TypeOK, TxOf
  <2>9. (\A a \in accepted : \E s \in signed : s.nonce = a.nonce)'
    BY <2>2, <2>4, <2>5 DEF ChainInv
  <2>10. (\A n \in Nonces : slots[n] # NoTx => \E a \in accepted : a.nonce = n)'
    BY <2>3, <2>4, <2>7 DEF ChainInv, TypeOK
  <2>11. (\A q \in Requests : pc[q] = "send" =>
            /\ SignatureOf(q) \in signed
            /\ \A a \in accepted : a.nonce # nonce[q])'
    BY <2>2, <2>4, <2>6, <2>8 DEF ChainInv, SignatureOf, HoldsNonce
  <2>12. (\A q \in Requests : pc[q] \in Sent => slots[nonce[q]] = TxOf(q))'
    <3> SUFFICES ASSUME NEW q \in Requests, pc'[q] \in Sent
                 PROVE  slots'[nonce[q]] = TxOf(q)
      BY <2>2 DEF TxOf
    <3>1. CASE q = r
      BY <2>8, <3>1
    <3>2. CASE q # r
      <4>1. slots[nonce[q]] = TxOf(q) /\ nonce[q] \in Nonces
        BY <2>6, <3>2 DEF ChainInv, TypeOK
      <4>2. TxOf(q) # NoTx
        BY TxType, NoTxAssumption
      <4> QED BY <2>3, <2>7, <4>1, <4>2 DEF TypeOK
    <3> QED BY <3>1, <3>2
  <2> QED BY <2>9, <2>10, <2>11, <2>12 DEF ChainInv
<1> QED BY <1>1, <1>2

LEMMA ChainStep ==
    ASSUME TypeOK, NonceInv, ChainInv, [Next]_vars
    PROVE  ChainInv'
<1> SUFFICES ASSUME StoreSurvives', OneNetwork' PROVE ChainInv'
  BY DEF ChainInv
<1>1. StoreSurvives /\ OneNetwork
  BY SurvivedBefore DEF OneNetwork, Network
<1> QED BY <1>1, ChainShape, ChainFrame, ChainBuild, ChainSend

LEMMA ChainInductive == Spec => []ChainInv
<1>1. Init => ChainInv
  BY DEF Init, ChainInv, Sent
<1> QED BY <1>1, ChainStep, TypeCorrect, NonceInductive, PTL DEF Spec

\* What the chain or the mempool holds, it holds from then on.
LEMMA SlotsGrow ==
    ASSUME TypeOK, ChainInv, [Next]_vars, StoreSurvives, OneNetwork,
           NEW n \in Nonces, slots[n] # NoTx
    PROVE  slots'[n] = slots[n]
<1>1. CASE slots' = slots
  BY <1>1
<1>2. CASE slots' # slots
  <2>1. PICK r \in Requests : Send(r)
    BY <1>2, ChainShape DEF ChainQuiet, Build, chainVars
  <2>2. pc[r] = "send" /\ slots' = [slots EXCEPT ![nonce[r]] = TxOf(r)]
    BY <1>2, <2>1 DEF Send, chainVars, TakeTransaction, TxOf
  <2>3. n # nonce[r]
    BY <2>2, SendFresh
  <2> QED BY <2>2, <2>3 DEF TypeOK
<1> QED BY <1>1, <1>2

-----------------------------------------------------------------------------
(***************************************************************************)
(* Answers.  A handler that is about to answer 200 has its transaction in  *)
(* the mempool or on the chain, and so has a stored answer.                *)
(***************************************************************************)

\* A new answer 200 is a stored one or that of the handler itself.
LEMMA AnswerChange ==
    ASSUME TypeOK, NEW r \in Requests, Concerns(r), answer'[r] # answer[r]
    PROVE  \/ answer'[r].code # "200"
           \/ /\ KeyOf(r) # NoKey /\ results[KeyOf(r)] # NoTx
              /\ answer'[r].tx = results[KeyOf(r)]
           \/ pc[r] = "save" /\ answer'[r].tx = TxOf(r)
  BY DEF Concerns, Refused, Replayed, Looked, Claimed, Worked, Broadcasts,
         Released, Stored, Unstored, Reply, TypeOK

\* The transaction is in the mempool or on the chain held.
Holds(held, tx) == tx # NoTx /\ held[tx.nonce] = tx

LEMMA OnChainStays ==
    ASSUME TypeOK, ChainInv, [Next]_vars, StoreSurvives, OneNetwork,
           NEW tx \in Tx \cup {NoTx}, Holds(slots, tx)
    PROVE  Holds(slots', tx)
<1>1. tx.nonce \in Nonces
  BY DEF Holds, Tx
<1> QED BY <1>1, SlotsGrow DEF Holds

LEMMA AnswerOnChainStep ==
    ASSUME TypeOK, ChainInv, OneNetwork, AnswerOnChain, [Next]_vars
    PROVE  AnswerOnChain'
<1> SUFFICES ASSUME StoreSurvives' PROVE AnswerOnChain'
  BY DEF AnswerOnChain
<1>1. StoreSurvives
  BY SurvivedBefore
<1>2. /\ \A q \in Requests : answer[q].code = "200" => Holds(slots, answer[q].tx)
      /\ \A k \in Keys : results[k] # NoTx => Holds(slots, results[k])
  BY <1>1 DEF AnswerOnChain, Holds
<1>3. \A q \in Requests : answer[q].tx \in Tx \cup {NoTx}
  BY DEF TypeOK
<1>4. \A k \in Keys : results[k] \in Tx \cup {NoTx}
  BY DEF TypeOK, StoreTypeOK
<1>5. \A q \in Requests : pc[q] = "save" => TxOf(q) \in Tx /\ Holds(slots, TxOf(q))
  BY <1>1, TxType, NoTxAssumption DEF ChainInv, Sent, Holds, TxOf
<1>6. ASSUME NEW q \in Requests, answer'[q].code = "200" PROVE Holds(slots', answer'[q].tx)
  <2>1. CASE answer'[q] = answer[q]
    BY <1>1, <1>2, <1>3, <1>6, <2>1, OnChainStays
  <2>2. CASE answer'[q] # answer[q]
    <3>1. Concerns(q)
      BY <2>2, StepShape, OthersFrame DEF Quiet, Crashed
    <3>2. CASE pc[q] = "save" /\ answer'[q].tx = TxOf(q)
      BY <1>1, <1>5, <3>2, OnChainStays
    <3>3. CASE /\ KeyOf(q) # NoKey /\ results[KeyOf(q)] # NoTx
               /\ answer'[q].tx = results[KeyOf(q)]
      <4>1. KeyOf(q) \in Keys
        BY <3>3, RequestFacts
      <4> QED BY <1>1, <1>2, <1>4, <3>3, <4>1, OnChainStays
    <3> QED BY <1>6, <2>2, <3>1, <3>2, <3>3, AnswerChange
  <2> QED BY <2>1, <2>2
<1>7. ASSUME NEW k \in Keys, results'[k] # NoTx PROVE Holds(slots', results'[k])
  <2>1. CASE results'[k] = results[k]
    BY <1>1, <1>2, <1>4, <1>7, <2>1, OnChainStays
  <2>2. CASE results'[k] # results[k]
    <3>1. PICK r \in Requests : Concerns(r)
      BY <2>2, StepShape DEF Quiet, Crashed
    <3>2. results'[k] = TxOf(r) /\ pc[r] = "save"
      BY <2>2, <3>1, ResultsChange DEF Stored
    <3> QED BY <1>1, <1>5, <3>2, OnChainStays
  <2> QED BY <2>1, <2>2
<1> QED BY <1>6, <1>7 DEF AnswerOnChain, Holds

\* Every answer 200 and every stored answer names a transaction that the
\* mempool or the chain holds, and keeps (executeEVM...WithClient, SaveResult,
\* GetResult), for a chain that goes by one network name.
THEOREM AnswersOnChain == ASSUME OneNetwork PROVE Spec => []AnswerOnChain
<1>1. Init => AnswerOnChain
  BY DEF Init, StoreInit, AnswerOnChain
<1> QED BY <1>1, AnswerOnChainStep, TypeCorrect, ChainInductive, PTL DEF Spec

-----------------------------------------------------------------------------
(***************************************************************************)
(* The ledger.  The nonce of a row has been reserved and belongs to no     *)
(* attempt that is still at work, so every row is for another transaction  *)
(* and CreateSignerTransaction never meets a conflict; the monitor only    *)
(* works on transactions that were sent.                                   *)
(***************************************************************************)
Row(j) == transactions[j]

RowsReserved ==
    \A j \in DOMAIN transactions : \A r \in Requests :
        /\ HasRow(Network(r), Row(j).hash.nonce)
        /\ pc[r] \in HoldsNonce => Row(j).hash.nonce # nonce[r]

RowsDistinct ==
    \A i, j \in DOMAIN transactions : Row(i).hash = Row(j).hash => i = j

BatchSent ==
    \A i \in Instances : \A h \in batch[i] \ Hung :
        \E j \in DOMAIN transactions : Row(j).hash = h /\ Row(j).status # "failed"

LedgerInv ==
    StoreSurvives /\ OneNetwork =>
        RowsReserved /\ RowsDistinct /\ BatchSent /\ LedgerTruth

\* What only the chain does.
LEMMA ChainClock ==
    ASSUME TypeOK, [Next]_vars
    PROVE  /\ base <= base'
           /\ \A n \in Nonces : n < base => (n \in reverted' <=> n \in reverted)
<1> USE DEF chainVars
<1>1. base \in Int
  BY DEF TypeOK
<1>2. CASE Mine
  BY <1>1, <1>2 DEF Mine, Nonces
<1>3. CASE ~Mine
  <2>1. ASSUME NEW r \in Requests, Arrive(r) PROVE UNCHANGED <<base, reverted>>
    BY <2>1 DEF Arrive, RefuseEarly, ClaimNothing, LookupResult, MemoryClaimResult
  <2>2. ASSUME NEW r \in Requests, Attempt(r) PROVE UNCHANGED <<base, reverted>>
    BY <2>2 DEF Attempt, Dial, Reserve, Build, SignFailed, Send, TakeTransaction,
                MarkSubmitted, Record, MarkFailed, RecordFailed
  <2>3. ASSUME NEW r \in Requests, Step(r) \/ Disconnect(r)
        PROVE  UNCHANGED <<base, reverted>>
    BY <2>2, <2>3 DEF Step, ClaimLock, Validate, Release, Save, Disconnect
  <2>4. ASSUME NEW i \in Instances, Monitor(i) \/ Crash(i)
        PROVE  UNCHANGED <<base, reverted>>
    BY <2>4 DEF Monitor, MonitorList, MonitorCheck, MonitorHangs, Crash
  <2>5. UNCHANGED <<base, reverted>>
    BY <1>3, <2>1, <2>3, <2>4 DEF Next, Midnight, vars
  <2> QED BY <1>1, <2>5
<1> QED BY <1>2, <1>3

\* Rows of the nonce table stay, and an attempt that comes to hold a nonce has
\* reserved one that had no row.
NoncesKept ==
    /\ \A w \in Networks, n \in Nonces : HasRow(w, n) => HasRow(w, n)'
    /\ \A q \in Requests : pc'[q] \in HoldsNonce =>
         \/ pc[q] \in HoldsNonce /\ nonce'[q] = nonce[q]
         \/ ~HasRow(Network(q), nonce'[q])

\* A step of a request that leaves ledger and monitors alone.
LedgerQuiet == NoncesKept /\ UNCHANGED <<transactions, batch>>

LEMMA HandlerLedgerQuiet ==
    ASSUME TypeOK, NEW r \in Requests,
           Arrive(r) \/ ClaimLock(r) \/ Validate(r) \/ Release(r) \/ Save(r)
    PROVE  LedgerQuiet
<1> USE DEF Goto, Reply, history, localVars, storeVars, Perform, HoldsNonce
<1>1. CASE Arrive(r)
  <2>1. UNCHANGED <<chainNonces, transactions, batch, nonce>>
    BY <1>1 DEF Arrive, RefuseEarly, ClaimNothing, LookupResult,
                MemoryClaimResult, InsertLock
  <2>2. \A q \in Requests : pc'[q] \in HoldsNonce => pc'[q] = pc[q]
    BY <1>1 DEF Arrive, RefuseEarly, ClaimNothing, LookupResult,
                MemoryClaimResult, TypeOK
  <2> QED BY <2>1, <2>2 DEF LedgerQuiet, NoncesKept, HasRow
<1>2. CASE ClaimLock(r)
  BY <1>2 DEF ClaimLock, InsertLock, TypeOK, LedgerQuiet, NoncesKept, HasRow
<1>3. CASE Validate(r)
  BY <1>3 DEF Validate, TypeOK, LedgerQuiet, NoncesKept, HasRow
<1>4. CASE Release(r)
  BY <1>4 DEF Release, ReleaseClaim, TypeOK, LedgerQuiet, NoncesKept, HasRow
<1>5. CASE Save(r)
  BY <1>5 DEF Save, SaveResult, PostgresSaveResult, MemorySaveResult, TypeOK,
              LedgerQuiet, NoncesKept, HasRow
<1> QED BY <1>1, <1>2, <1>3, <1>4, <1>5

\* A row that is written over stays a row.
LEMMA RowWritten ==
    ASSUME TypeOK, NEW v \in Networks, NEW m \in Nonces,
           NEW status \in {"reserved", "submitted", "failed"},
           chainNonces' = [chainNonces EXCEPT ![v][m] = status],
           NEW w \in Networks, NEW n \in Nonces, HasRow(w, n)
    PROVE  HasRow(w, n)'
<1>1. chainNonces \in [Networks -> [Nonces -> RowStatus]]
  BY DEF TypeOK, StoreTypeOK
<1> QED BY <1>1 DEF HasRow

LEMMA AttemptNonces ==
    ASSUME TypeOK, NonceInv, StoreSurvives, NEW r \in Requests, Attempt(r)
    PROVE  NoncesKept
<1> USE DEF Goto, FailAttempt, localVars, storeVars, Perform, HoldsNonce
<1>1. Network(r) \in Networks /\ nonce[r] \in Nonces /\ pending[r] \in Nonces
  BY RequestFacts DEF TypeOK
<1>2. CASE Dial(r) \/ Build(r) \/ Send(r)
  BY <1>2 DEF Dial, Build, Send, TypeOK, NoncesKept, HasRow
<1>3. CASE Reserve(r)
  <2>1. CASE UNCHANGED storeVars /\ FailAttempt(r)
    BY <2>1 DEF TypeOK, NoncesKept, HasRow
  <2>2. CASE ~(UNCHANGED storeVars /\ FailAttempt(r))
    <3>1. PICK n \in Nonces :
            /\ IsNextNonce(Network(r), pending[r], n)
            /\ NonceRowFree(Network(r), n)
            /\ chainNonces' = [chainNonces EXCEPT ![Network(r)][n] = "reserved"]
            /\ \/ FailAttempt(r)
               \/ nonce' = [nonce EXCEPT ![r] = n] /\ Goto(r, "build")
      BY <1>3, <2>2 DEF Reserve, InsertNonceRow, SetNonceRow
    <3>2. ~HasRow(Network(r), n)
      BY <1>1, <3>1, FreshNonce
    <3>3. \A w \in Networks, m \in Nonces : HasRow(w, m) => HasRow(w, m)'
      BY <1>1, <3>1, RowWritten
    <3>4. \A q \in Requests : pc'[q] \in HoldsNonce =>
            \/ pc[q] \in HoldsNonce /\ nonce'[q] = nonce[q]
            \/ ~HasRow(Network(q), nonce'[q])
      BY <3>1, <3>2 DEF TypeOK
    <3> QED BY <3>3, <3>4 DEF NoncesKept
  <2> QED BY <2>1, <2>2
<1>4. CASE MarkSubmitted(r) \/ MarkFailed(r) \/ SignFailed(r)
  <2>1. \/ chainNonces' = chainNonces
        \/ \E status \in {"submitted", "failed"} :
             chainNonces' = [chainNonces EXCEPT ![Network(r)][nonce[r]] = status]
    BY <1>4 DEF MarkSubmitted, MarkFailed, SignFailed, MarkChainNonceSubmitted,
                MarkChainNonceFailed, MemoryMarkChainNonce, SetNonceRow
  <2>2. \A w \in Networks, m \in Nonces : HasRow(w, m) => HasRow(w, m)'
    <3>1. CASE chainNonces' = chainNonces
      BY <3>1 DEF HasRow
    <3> QED BY <1>1, <2>1, <3>1, RowWritten
  <2>3. \A q \in Requests : pc'[q] \in HoldsNonce =>
           pc[q] \in HoldsNonce /\ nonce'[q] = nonce[q]
    BY <1>4 DEF MarkSubmitted, MarkFailed, SignFailed, TypeOK
  <2> QED BY <2>2, <2>3 DEF NoncesKept
<1>5. CASE Record(r) \/ RecordFailed(r)
  <2>1. chainNonces' = chainNonces
    BY <1>5 DEF Record, RecordFailed, CreateSignerTransaction,
                PostgresCreateSignerTransaction, MemoryCreateSignerTransaction
  <2> QED BY <1>5, <2>1 DEF Record, RecordFailed, TypeOK, NoncesKept, HasRow
<1> QED BY <1>2, <1>3, <1>4, <1>5 DEF Attempt

LEMMA AttemptLedgerQuiet ==
    ASSUME TypeOK, NonceInv, StoreSurvives, NEW r \in Requests, Attempt(r),
           ~Record(r), ~RecordFailed(r)
    PROVE  LedgerQuiet
<1> USE DEF storeVars, Perform, SetNonceRow
<1>1. UNCHANGED <<transactions, batch>>
  BY DEF Attempt, Dial, Reserve, Build, Send, MarkSubmitted, MarkFailed, SignFailed,
         InsertNonceRow, MarkChainNonceSubmitted, MarkChainNonceFailed,
         MemoryMarkChainNonce
<1> QED BY <1>1, AttemptNonces DEF LedgerQuiet

\* The steps that no request takes keep the nonces too.
LEMMA OtherNonces ==
    ASSUME TypeOK, StoreSurvives',
           \/ \E r \in Requests : Disconnect(r)
           \/ \E i \in Instances : Monitor(i) \/ Crash(i)
           \/ Mine
           \/ Midnight
           \/ UNCHANGED vars
    PROVE  NoncesKept
<1> USE DEF localVars, storeVars, NoncesKept, HasRow
<1>1. ASSUME NEW i \in Instances, Crash(i) PROVE NoncesKept
  <2>1. \A q \in Requests : pc'[q] \in HoldsNonce => pc'[q] = pc[q]
    BY <1>1 DEF Crash, HoldsNonce
  <2>2. UNCHANGED <<chainNonces, nonce>>
    BY <1>1, StoreAssumption DEF Crash, RestartStore, StoreSurvives, TypeOK
  <2> QED BY <2>1, <2>2
<1>2. CASE ~\E i \in Instances : Crash(i)
  BY <1>2 DEF Disconnect, Monitor, MonitorList, MonitorCheck, MonitorHangs, Mine, Midnight,
              NextDay, MarkSignerTransactionStatus, vars
<1> QED BY <1>1, <1>2

LEMMA RowType ==
    ASSUME TypeOK, NEW j \in DOMAIN transactions
    PROVE  /\ Row(j) \in SignerTransaction
           /\ Row(j).hash \in Tx /\ Row(j).hash.nonce \in Nonces
           /\ Row(j).hash # NoTx
<1>1. transactions[j] \in SignerTransaction
  BY ElementOfSeq DEF TypeOK, StoreTypeOK
<1> QED BY <1>1, NoTxAssumption DEF Row, SignerTransaction, Tx

\* What the ledger says of a row is true.
TrueRow(row, held, executed, failed) ==
    /\ row.status # "failed" => held[row.hash.nonce] = row.hash
    /\ row.status = "confirmed" =>
         row.hash.nonce < executed /\ row.hash.nonce \notin failed
    /\ row.status = "reverted" =>
         row.hash.nonce < executed /\ row.hash.nonce \in failed

LEMMA TrueRows ==
    LedgerTruth <=>
        (StoreSurvives =>
            \A j \in DOMAIN transactions : TrueRow(Row(j), slots, base, reverted))
  BY DEF LedgerTruth, TrueRow, Row

\* A true row stays true: the mempool and the chain only grow, and what has
\* been executed is settled.
LEMMA TrueRowStays ==
    ASSUME TypeOK, ChainInv, [Next]_vars, StoreSurvives, OneNetwork,
           NEW j \in DOMAIN transactions, TrueRow(Row(j), slots, base, reverted)
    PROVE  TrueRow(Row(j), slots', base', reverted')
<1>1. Row(j).hash # NoTx /\ Row(j).hash.nonce \in Nonces
  BY RowType
<1>2. Row(j).status # "failed" => slots'[Row(j).hash.nonce] = Row(j).hash
  BY <1>1, SlotsGrow DEF TrueRow
<1>3. base \in Int /\ base' \in Int /\ Row(j).hash.nonce \in Int
  BY <1>1, NextType DEF TypeOK, Nonces
<1> QED BY <1>1, <1>2, <1>3, ChainClock DEF TrueRow

\* Steps that write no row.
LEMMA LedgerKeep ==
    ASSUME TypeOK, ChainInv, LedgerInv, [Next]_vars, StoreSurvives, OneNetwork,
           NoncesKept, transactions' = transactions,
           \A i \in Instances : \A h \in batch'[i] \ Hung :
              h \in batch[i] \/ \E j \in OpenRows : Row(j).hash = h
    PROVE  LedgerInv'
<1>1. RowsReserved /\ RowsDistinct /\ BatchSent /\ LedgerTruth
  BY DEF LedgerInv
<1>2. ASSUME NEW j \in DOMAIN transactions, NEW r \in Requests
      PROVE  /\ HasRow(Network(r), Row(j).hash.nonce)'
             /\ pc'[r] \in HoldsNonce => Row(j).hash.nonce # nonce'[r]
  <2>1. Row(j).hash.nonce \in Nonces /\ Network(r) \in Networks
    BY RowType, RequestFacts
  <2> QED BY <1>1, <2>1 DEF RowsReserved, NoncesKept, HasRow, Row, Network
<1>3. RowsReserved'
  BY <1>2 DEF RowsReserved, HasRow, Row, Network
<1>4. RowsDistinct'
  BY <1>1 DEF RowsDistinct, Row
<1>5. BatchSent'
  <2> SUFFICES ASSUME NEW i \in Instances, NEW h \in batch'[i] \ Hung
               PROVE  \E j \in DOMAIN transactions :
                         Row(j).hash = h /\ Row(j).status # "failed"
    BY DEF BatchSent, Row, Hung
  <2> QED BY <1>1 DEF BatchSent, OpenRows, Row
<1>6. \A j \in DOMAIN transactions : TrueRow(Row(j), slots', base', reverted')
  BY <1>1, TrueRows, TrueRowStays
<1>7. LedgerTruth'
  BY <1>6 DEF LedgerTruth, TrueRow, Row
<1> QED BY <1>3, <1>4, <1>5, <1>7 DEF LedgerInv

\* No row has the hash of an attempt at work: CreateSignerTransaction inserts.
LEMMA NoRowYet ==
    ASSUME TypeOK, RowsReserved, NEW r \in Requests, pc[r] \in HoldsNonce
    PROVE  RowsOf(TxOf(r)) = {}
  BY DEF RowsReserved, RowsOf, TxOf, Row

LEMMA AppendFacts ==
    ASSUME TypeOK, NEW item, transactions' = Append(transactions, item)
    PROVE  /\ DOMAIN transactions' = DOMAIN transactions \cup {Len(transactions) + 1}
           /\ Len(transactions) + 1 \notin DOMAIN transactions
           /\ \A j \in DOMAIN transactions : transactions'[j] = transactions[j]
           /\ transactions'[Len(transactions) + 1] = item
<1>1. transactions \in Seq(SignerTransaction \cup {item}) /\ Len(transactions) \in Nat
      /\ DOMAIN transactions = 1 .. Len(transactions)
  BY DEF TypeOK, StoreTypeOK
<1>2. /\ Len(transactions') = Len(transactions) + 1
      /\ transactions' \in Seq(SignerTransaction \cup {item})
      /\ \A j \in 1 .. Len(transactions) : transactions'[j] = transactions[j]
      /\ transactions'[Len(transactions) + 1] = item
  BY <1>1, AppendProperties
<1>3. DOMAIN transactions' = 1 .. (Len(transactions) + 1)
  BY <1>2
<1> QED BY <1>1, <1>2, <1>3

LEMMA LedgerAppend ==
    ASSUME TypeOK, NonceInv, ChainInv, LedgerInv, [Next]_vars, StoreSurvives, OneNetwork,
           NoncesKept, UNCHANGED batch,
           NEW r \in Requests, pc[r] \in HoldsNonce, pc'[r] \notin HoldsNonce,
           NEW item, item.hash = TxOf(r), item.status \in {"submitted", "failed"},
           item.status = "submitted" => pc[r] \in Sent,
           transactions' = Append(transactions, item)
    PROVE  LedgerInv'
<1> DEFINE last == Len(transactions) + 1
<1>1. RowsReserved /\ RowsDistinct /\ BatchSent /\ LedgerTruth
  BY DEF LedgerInv
<1>2. /\ DOMAIN transactions' = DOMAIN transactions \cup {last}
      /\ last \notin DOMAIN transactions
      /\ \A j \in DOMAIN transactions : transactions'[j] = transactions[j]
      /\ transactions'[last] = item
  BY AppendFacts
<1>3. TxOf(r).nonce = nonce[r] /\ nonce[r] \in Nonces
  BY DEF TxOf, TypeOK
<1> HIDE DEF last
<1>4. ASSUME NEW j \in DOMAIN transactions, NEW q \in Requests
      PROVE  /\ HasRow(Network(q), Row(j).hash.nonce)'
             /\ pc'[q] \in HoldsNonce => Row(j).hash.nonce # nonce'[q]
  <2>1. Row(j).hash.nonce \in Nonces /\ Network(q) \in Networks
    BY RowType, RequestFacts
  <2>2. Row(j)' = Row(j)
    BY <1>2 DEF Row
  <2> QED BY <1>1, <2>1, <2>2 DEF RowsReserved, NoncesKept, HasRow, Network
<1>5. ASSUME NEW q \in Requests
      PROVE  /\ chainNonces'[Network(q)][nonce[r]] # "none"
             /\ pc'[q] \in HoldsNonce => nonce[r] # nonce'[q]
  <2>1. Network(q) = Network(r) /\ Network(q) \in Networks
    BY RequestFacts DEF OneNetwork
  <2>2. HasRow(Network(q), nonce[r])
    BY <2>1 DEF NonceInv
  <2>3. pc'[q] \in HoldsNonce => nonce[r] # nonce'[q]
    BY <2>1, <2>2 DEF NoncesKept, NonceInv
  <2> QED BY <1>3, <2>1, <2>2, <2>3 DEF NoncesKept, HasRow
<1>6. RowsReserved'
  <2> SUFFICES ASSUME NEW j \in DOMAIN transactions', NEW q \in Requests
               PROVE  /\ chainNonces'[Network(q)][transactions'[j].hash.nonce] # "none"
                      /\ pc'[q] \in HoldsNonce =>
                           transactions'[j].hash.nonce # nonce'[q]
    BY DEF RowsReserved, Row, HasRow, Network
  <2>1. CASE j \in DOMAIN transactions
    BY <1>2, <1>4, <2>1 DEF Row, HasRow, Network
  <2>2. CASE j = last
    BY <1>2, <1>3, <1>5, <2>2
  <2> QED BY <1>2, <2>1, <2>2
<1>7. RowsDistinct'
  <2>1. \A j \in DOMAIN transactions : transactions[j].hash # TxOf(r)
    BY <1>1, NoRowYet DEF RowsOf
  <2> QED BY <1>1, <1>2, <2>1 DEF RowsDistinct, Row
<1>8. BatchSent'
  BY <1>1, <1>2 DEF BatchSent, Row
<1>9. LedgerTruth'
  <2>1. \A j \in DOMAIN transactions : TrueRow(Row(j), slots', base', reverted')
    BY <1>1, TrueRows, TrueRowStays
  <2>2. item.status = "submitted" => slots'[nonce[r]] = TxOf(r)
    <3>1. TxOf(r) # NoTx
      BY TxType, NoTxAssumption
    <3> QED BY <1>3, <3>1, SlotsGrow DEF ChainInv
  <2>3. TrueRow(item, slots', base', reverted')
    BY <1>3, <2>2 DEF TrueRow
  <2>4. \A j \in DOMAIN transactions' :
           TrueRow(transactions'[j], slots', base', reverted')
    BY <1>2, <2>1, <2>3 DEF Row
  <2> QED BY <2>4 DEF LedgerTruth, TrueRow
<1> QED BY <1>6, <1>7, <1>8, <1>9 DEF LedgerInv

\* The two steps that create a row insert it, or fail and leave no trace.
LEMMA RecordInserts ==
    ASSUME TypeOK, RowsReserved, NEW r \in Requests, Record(r) \/ RecordFailed(r)
    PROVE  \/ transactions' = transactions
           \/ \E status \in {"submitted", "failed"} :
                /\ transactions' = Append(transactions, Item(r, status))
                /\ status = "submitted" => pc[r] = "record"
<1>1. pc[r] \in HoldsNonce
  BY DEF Record, RecordFailed, HoldsNonce
<1>2. PICK status \in {"submitted", "failed"} :
        /\ UNCHANGED storeVars \/ CreateSignerTransaction(Item(r, status))
        /\ status = "submitted" => pc[r] = "record"
  BY DEF Record, RecordFailed, Perform
<1>3. Item(r, status).hash = TxOf(r)
  BY RequestFacts
  DEF Item, TransferItem, ContractCallItem, SettlementItem, LedgerItem
<1>4. RowsOf(Item(r, status).hash) = {}
  BY <1>1, <1>3, NoRowYet
<1>5. CASE CreateSignerTransaction(Item(r, status))
  BY <1>2, <1>4, <1>5 DEF CreateSignerTransaction,
     PostgresCreateSignerTransaction, MemoryCreateSignerTransaction
<1> QED BY <1>2, <1>5 DEF storeVars

LEMMA LedgerRecord ==
    ASSUME TypeOK, NonceInv, ChainInv, LedgerInv, [Next]_vars, StoreSurvives, OneNetwork,
           NEW r \in Requests, Record(r) \/ RecordFailed(r)
    PROVE  LedgerInv'
<1>1. NoncesKept
  BY AttemptNonces DEF Attempt
<1>2. pc[r] \in HoldsNonce /\ pc'[r] \notin HoldsNonce /\ UNCHANGED batch
  BY DEF Record, RecordFailed, HoldsNonce, Goto, FailAttempt, TypeOK
<1>3. CASE transactions' = transactions
  BY <1>1, <1>2, <1>3, LedgerKeep
<1>4. ASSUME NEW status \in {"submitted", "failed"},
             transactions' = Append(transactions, Item(r, status)),
             status = "submitted" => pc[r] = "record"
      PROVE  LedgerInv'
  <2>1. Item(r, status).hash = TxOf(r) /\ Item(r, status).status = status
    BY RequestFacts
    DEF Item, TransferItem, ContractCallItem, SettlementItem, LedgerItem
  <2>2. status = "submitted" => pc[r] \in Sent
    BY <1>4 DEF Sent
  <2> QED BY <1>1, <1>2, <1>4, <2>1, <2>2, LedgerAppend
<1> QED BY <1>3, <1>4, RecordInserts DEF LedgerInv

\* The monitor writes the status of the receipt to the rows of a hash.
Marks(h) ==
    /\ HasReceipt(h)
    /\ DOMAIN transactions' = DOMAIN transactions
    /\ \A j \in DOMAIN transactions :
         /\ transactions'[j].hash = Row(j).hash
         /\ transactions'[j].status =
              IF Row(j).hash = h THEN ReceiptStatus(h) ELSE Row(j).status

LEMMA CheckMarks ==
    ASSUME TypeOK, NEW i \in Instances, MonitorCheck(i)
    PROVE  \E h \in batch[i] \ Hung :
             /\ batch' = [batch EXCEPT ![i] = @ \ {h}]
             /\ transactions' = transactions \/ Marks(h)
<1>1. PICK h \in batch[i] \ Hung :
        /\ batch' = [batch EXCEPT ![i] = @ \ {h}]
        /\ \/ UNCHANGED storeVars
           \/ HasReceipt(h) /\ MarkSignerTransactionStatus(h, ReceiptStatus(h))
  BY DEF MonitorCheck
<1>2. ASSUME HasReceipt(h), MarkSignerTransactionStatus(h, ReceiptStatus(h))
      PROVE  Marks(h)
  <2>1. \A j \in DOMAIN transactions : transactions[j] \in SignerTransaction
    BY RowType DEF Row
  <2> QED BY <1>2, <2>1
          DEF MarkSignerTransactionStatus, RowsOf, Marks, Row, SignerTransaction
<1> QED BY <1>1, <1>2 DEF storeVars

LEMMA LedgerMark ==
    ASSUME TypeOK, LedgerInv, StoreSurvives, OneNetwork,
           UNCHANGED <<pc, nonce, chainNonces, slots, base, reverted>>,
           \A i \in Instances : batch'[i] \subseteq batch[i],
           NEW h, Marks(h)
    PROVE  LedgerInv'
<1>1. RowsReserved /\ RowsDistinct /\ BatchSent /\ LedgerTruth
  BY DEF LedgerInv
<1>2. ReceiptStatus(h) # "failed"
  BY DEF ReceiptStatus
<1>3. RowsReserved'
  BY <1>1 DEF RowsReserved, Marks, Row, HasRow, Network
<1>4. RowsDistinct'
  BY <1>1 DEF RowsDistinct, Marks, Row
<1>5. BatchSent'
  BY <1>1, <1>2 DEF BatchSent, Marks, Row
<1>6. \A j \in DOMAIN transactions : TrueRow(transactions'[j], slots, base, reverted)
  <2> TAKE j \in DOMAIN transactions
  <2>1. TrueRow(Row(j), slots, base, reverted)
    BY <1>1, TrueRows
  <2>2. CASE Row(j).hash = h
    BY <2>2 DEF TrueRow, Marks, HasReceipt, ReceiptStatus
  <2>3. CASE Row(j).hash # h
    BY <2>1, <2>3 DEF TrueRow, Marks
  <2> QED BY <2>2, <2>3
<1>7. LedgerTruth'
  BY <1>6 DEF LedgerTruth, TrueRow, Marks
<1> QED BY <1>3, <1>4, <1>5, <1>7 DEF LedgerInv

LEMMA LedgerMonitor ==
    ASSUME TypeOK, ChainInv, LedgerInv, [Next]_vars, StoreSurvives, StoreSurvives', OneNetwork,
           NEW i \in Instances, Monitor(i)
    PROVE  LedgerInv'
<1>1. NoncesKept
  BY OtherNonces
<1>2. CASE MonitorList(i)
  <2>1. PICK B \in SUBSET OpenRows :
          batch' = [batch EXCEPT ![i] = {transactions[j].hash : j \in B}]
    BY <1>2 DEF MonitorList
  <2>2. \A v \in Instances : \A h \in batch'[v] \ Hung :
          h \in batch[v] \/ \E j \in OpenRows : Row(j).hash = h
    BY <2>1 DEF TypeOK, Row
  <2>3. transactions' = transactions
    BY <1>2 DEF MonitorList, storeVars
  <2> QED BY <1>1, <2>2, <2>3, LedgerKeep
<1>3. CASE MonitorCheck(i)
  <2>1. PICK h \in batch[i] \ Hung :
          /\ batch' = [batch EXCEPT ![i] = @ \ {h}]
          /\ transactions' = transactions \/ Marks(h)
    BY <1>3, CheckMarks
  <2>2. \A v \in Instances : batch'[v] \subseteq batch[v]
    BY <2>1 DEF TypeOK
  <2>3. UNCHANGED <<pc, nonce, chainNonces, slots, base, reverted>>
    BY <1>3 DEF MonitorCheck, MarkSignerTransactionStatus, storeVars, localVars, chainVars
  <2>4. CASE transactions' = transactions
    BY <1>1, <2>2, <2>4, LedgerKeep
  <2> QED BY <2>1, <2>2, <2>3, <2>4, LedgerMark
<1>4. CASE MonitorHangs(i)
  <2>1. transactions' = transactions /\ batch' = [batch EXCEPT ![i] = Hung]
    BY <1>4 DEF MonitorHangs, storeVars
  <2>2. \A v \in Instances : \A h \in batch'[v] \ Hung : h \in batch[v]
    BY <2>1 DEF TypeOK
  <2> QED BY <1>1, <2>1, <2>2, LedgerKeep
<1> QED BY <1>2, <1>3, <1>4 DEF Monitor

LEMMA LedgerOther ==
    ASSUME TypeOK, ChainInv, LedgerInv, [Next]_vars, StoreSurvives, StoreSurvives', OneNetwork,
           \/ \E r \in Requests : Disconnect(r)
           \/ \E i \in Instances : Crash(i)
           \/ Mine
           \/ Midnight
           \/ UNCHANGED vars
    PROVE  LedgerInv' /\ transactions' = transactions
<1>1. NoncesKept
  BY OtherNonces
<1>2. transactions' = transactions /\ \A i \in Instances : batch'[i] \subseteq batch[i]
  <2>1. ASSUME NEW i \in Instances, Crash(i)
        PROVE  transactions' = transactions /\ \A v \in Instances : batch'[v] \subseteq batch[v]
    BY <2>1, StoreAssumption DEF Crash, RestartStore, StoreSurvives, TypeOK, storeVars
  <2> QED BY <2>1 DEF Disconnect, Mine, Midnight, NextDay, vars, storeVars
<1> QED BY <1>1, <1>2, LedgerKeep

LEMMA LedgerStep ==
    ASSUME TypeOK, NonceInv, ChainInv, LedgerInv, [Next]_vars
    PROVE  LedgerInv'
<1> SUFFICES ASSUME StoreSurvives', OneNetwork' PROVE LedgerInv'
  BY DEF LedgerInv
<1>1. StoreSurvives /\ OneNetwork
  BY SurvivedBefore DEF OneNetwork, Network
<1>2. LedgerQuiet => LedgerInv'
  BY <1>1, LedgerKeep DEF LedgerQuiet
<1>3. ASSUME NEW r \in Requests, Arrive(r) \/ Step(r) PROVE LedgerInv'
  <2>1. CASE Attempt(r)
    BY <1>1, <1>2, <2>1, AttemptLedgerQuiet, LedgerRecord
  <2> QED BY <1>2, <1>3, <2>1, HandlerLedgerQuiet DEF Step
<1> QED BY <1>1, <1>3, LedgerMonitor, LedgerOther DEF Next

LEMMA LedgerInductive == Spec => []LedgerInv
<1>1. Init => LedgerInv
  BY DEF Init, StoreInit, LedgerInv, RowsReserved, RowsDistinct, BatchSent, LedgerTruth
<1> QED BY <1>1, LedgerStep, TypeCorrect, NonceInductive, ChainInductive, PTL DEF Spec

\* The ledger says what the chain says: a submitted row is held by the chain, a
\* confirmed one was executed successfully and a reverted one failed, whatever
\* handlers and monitors of several instances write (executeEVM...WithClient,
\* checkSignerTransactions), for a chain that goes by one network name.
THEOREM LedgerIsTrue == ASSUME OneNetwork PROVE Spec => []LedgerTruth
<1>1. LedgerInv => LedgerTruth
  BY DEF LedgerInv, LedgerTruth
<1> QED BY <1>1, LedgerInductive, PTL

LEMMA FinalStep ==
    ASSUME TypeOK, NonceInv, ChainInv, LedgerInv, [Next]_vars, OneNetwork
    PROVE  StoreSurvives' =>
             \A i \in DOMAIN transactions :
                transactions[i].status # "submitted" =>
                    transactions'[i].status = transactions[i].status
<1> SUFFICES ASSUME StoreSurvives', NEW j \in DOMAIN transactions,
                    transactions[j].status # "submitted"
             PROVE  transactions'[j].status = transactions[j].status
  OBVIOUS
<1>1. StoreSurvives
  BY SurvivedBefore
<1>2. RowsReserved /\ RowsDistinct /\ BatchSent /\ LedgerTruth
  BY <1>1 DEF LedgerInv
<1>3. ASSUME NEW r \in Requests, Attempt(r)
      PROVE  transactions'[j].status = transactions[j].status
  <2>1. CASE Record(r) \/ RecordFailed(r)
    BY <1>2, <2>1, RecordInserts, AppendFacts
  <2> QED BY <1>1, <1>3, <2>1, AttemptLedgerQuiet DEF LedgerQuiet
<1>4. ASSUME NEW i \in Instances, MonitorCheck(i)
      PROVE  transactions'[j].status = transactions[j].status
  <2>1. PICK h \in batch[i] \ Hung : transactions' = transactions \/ Marks(h)
    BY <1>4, CheckMarks
  <2>2. CASE Marks(h) /\ Row(j).hash = h
    <3>1. Row(j).status \in {"confirmed", "reverted"}
      <4>1. Row(j).status # "failed"
        BY <1>2, <2>2 DEF BatchSent, RowsDistinct
      <4> QED BY <4>1, RowType DEF SignerTransaction, LedgerStatus, Row
    <3>2. TrueRow(Row(j), slots, base, reverted)
      BY <1>1, <1>2, TrueRows
    <3>3. ReceiptStatus(h) = Row(j).status
      BY <2>2, <3>1, <3>2 DEF TrueRow, ReceiptStatus
    <3> QED BY <2>2, <3>3 DEF Marks, Row
  <2> QED BY <2>1, <2>2 DEF Marks, Row
<1>5. ASSUME NEW r \in Requests, Arrive(r) \/ Step(r)
      PROVE  transactions'[j].status = transactions[j].status
  BY <1>3, <1>5, HandlerLedgerQuiet DEF Step, LedgerQuiet
<1>6. ASSUME NEW i \in Instances, Monitor(i)
      PROVE  transactions'[j].status = transactions[j].status
  BY <1>4, <1>6 DEF Monitor, MonitorList, MonitorHangs, storeVars
<1> QED BY <1>1, <1>5, <1>6, LedgerOther DEF Next

\* A final status stays: the rows of failed attempts are never revived by the
\* monitor, and two monitors that report the same receipt agree.
THEOREM FinalStatusKept == ASSUME OneNetwork PROVE Spec => FinalStatusStays
<1>1. TypeOK /\ NonceInv /\ ChainInv /\ LedgerInv /\ [Next]_vars =>
        (StoreSurvives' =>
             \A i \in DOMAIN transactions :
                transactions[i].status # "submitted" =>
                    transactions'[i].status = transactions[i].status)
  BY FinalStep
<1> QED
  BY <1>1, TypeCorrect, NonceInductive, ChainInductive, LedgerInductive, PTL
  DEF Spec, FinalStatusStays

-----------------------------------------------------------------------------
(***************************************************************************)
(* The outflow.  OutflowCounted compares two sums.  What the code          *)
(* contributes to it is proved here: the broadcasts that were spent have   *)
(* rows of their own among those that DailySubmittedOutflow adds up, and   *)
(* no row has less than its amount.  TreasuryProofs has the sums.          *)
(***************************************************************************)

\* No statement of the store has failed (the errors of CreateSignerTransaction
\* are ignored, and its row is missing then).
Reliable == StoreKind = "memory" \/ faults + cancels = 0

OutflowRows(t, w) ==
    IF StoreKind = "postgres" THEN PostgresOutflowRows(t, w)
                              ELSE MemoryOutflowRows(t, w)

SpendingCounted ==
    StoreSurvives /\ Reliable /\ day = 0 =>
       \A t \in Tokens, w \in Networks :
         \E rowOf \in [SpentOf(t, w) -> OutflowRows(t, w)] :
            /\ \A s, u \in SpentOf(t, w) : rowOf[s] = rowOf[u] => s = u
            /\ \A s \in SpentOf(t, w) :
                 Req[s.req].amount <= transactions[rowOf[s]].amount

BroadcastTx(s) == [payload |-> Req[s.req].payload, nonce |-> s.nonce]

\* Row j is the one of broadcast s.
Records(j, s) ==
    /\ Row(j).hash = BroadcastTx(s)
    /\ Row(j).network = Network(s.req) /\ Row(j).token = Req[s.req].token
    /\ Req[s.req].amount <= Row(j).amount /\ Row(j).reads = ~Req[s.req].blank
    /\ Row(j).status # "failed" /\ Row(j).day <= day

Connected == cancels = 0 => \A r \in Requests : ctx[r] = "live"

NoncesApart == \A s, u \in accepted : s.nonce = u.nonce => s = u

\* An acknowledged broadcast is on its way to the ledger, or has its row.
Underway(s) ==
    s.acked =>
        /\ pc[s.req] \in Sent \cup {"done", "lost"}
        /\ pc[s.req] \in Sent => nonce[s.req] = s.nonce
        /\ pc[s.req] \in {"save", "done"} =>
             \E j \in DOMAIN transactions : Records(j, s)

SpendingInv ==
    StoreSurvives /\ OneNetwork /\ Reliable =>
        /\ Connected
        /\ NoncesApart
        /\ \A s \in accepted : Underway(s)

\* Rows stay, and of what they say only the status of a sent one changes.
RowStays(j) ==
    /\ j \in DOMAIN transactions'
    /\ transactions'[j].hash = Row(j).hash
    /\ transactions'[j].network = Row(j).network /\ transactions'[j].token = Row(j).token
    /\ transactions'[j].amount = Row(j).amount /\ transactions'[j].day = Row(j).day
    /\ transactions'[j].reads = Row(j).reads
    /\ Row(j).status # "failed" => transactions'[j].status # "failed"

LEMMA RowsStay ==
    ASSUME TypeOK, NonceInv, ChainInv, LedgerInv, [Next]_vars,
           StoreSurvives', OneNetwork, NEW j \in DOMAIN transactions
    PROVE  RowStays(j)
<1>1. StoreSurvives
  BY SurvivedBefore
<1>2. RowsReserved
  BY <1>1 DEF LedgerInv
<1>3. CASE transactions' = transactions
  BY <1>3 DEF RowStays, Row
<1>4. ASSUME NEW r \in Requests, Attempt(r) PROVE RowStays(j)
  <2>1. CASE Record(r) \/ RecordFailed(r)
    <3>1. CASE transactions' # transactions
      <4>1. PICK status : transactions' = Append(transactions, Item(r, status))
        BY <1>2, <2>1, <3>1, RecordInserts
      <4>2. j \in DOMAIN transactions' /\ transactions'[j] = transactions[j]
        BY <4>1, AppendFacts
      <4> QED BY <4>2 DEF RowStays, Row
    <3> QED BY <1>3, <3>1
  <2> QED BY <1>1, <1>3, <1>4, <2>1, AttemptLedgerQuiet DEF LedgerQuiet
<1>5. ASSUME NEW r \in Requests, Arrive(r) \/ Step(r) PROVE RowStays(j)
  BY <1>3, <1>4, <1>5, HandlerLedgerQuiet DEF Step, LedgerQuiet
<1>6. ASSUME NEW i \in Instances, Monitor(i) PROVE RowStays(j)
  <2>1. CASE transactions' # transactions
    <3>1. PICK h : MarkSignerTransactionStatus(h, ReceiptStatus(h))
      BY <1>6, <2>1 DEF Monitor, MonitorList, MonitorCheck, MonitorHangs, storeVars
    <3>2. ReceiptStatus(h) # "failed"
      BY DEF ReceiptStatus
    <3>3. Row(j) \in SignerTransaction
      BY RowType
    <3> QED BY <3>1, <3>2, <3>3
            DEF MarkSignerTransactionStatus, RowStays, Row, SignerTransaction
  <2> QED BY <1>3, <2>1
<1> QED BY <1>1, <1>3, <1>5, <1>6, LedgerOther DEF Next

\* A request that a node has acknowledged reaches the end of its bookkeeping
\* by writing its row, which it does when the store is reliable.
LEMMA ComesToSave ==
    ASSUME TypeOK, [Next]_vars, NEW r \in Requests,
           pc[r] \in {"markSubmitted", "record"}, pc'[r] \in {"save", "done"}
    PROVE  Record(r)
<1> USE DEF Goto, Reply, FailAttempt
<1>1. ASSUME NEW q \in Requests, Arrive(q) PROVE FALSE
  BY <1>1
  DEF Arrive, RefuseEarly, ClaimNothing, LookupResult, MemoryClaimResult, TypeOK
<1>2. ASSUME NEW q \in Requests, Step(q), ~Attempt(q) PROVE FALSE
  BY <1>2 DEF Step, ClaimLock, Validate, Release, Save, TypeOK
<1>3. ASSUME NEW q \in Requests, Attempt(q) PROVE Record(r)
  <2>1. q = r
    BY <1>3, AttemptFrame
  <2> QED BY <1>3, <2>1
          DEF Attempt, Dial, Reserve, Build, SignFailed, Send, MarkSubmitted,
              MarkFailed, RecordFailed, TypeOK
<1>4. ASSUME pc' = pc PROVE FALSE
  BY <1>4
<1>5. ASSUME NEW i \in Instances, Crash(i) PROVE FALSE
  BY <1>5 DEF Crash
<1> QED BY <1>1, <1>2, <1>3, <1>4, <1>5
        DEF Next, Disconnect, Monitor, MonitorList, MonitorCheck, MonitorHangs, Mine, Midnight, vars

LEMMA RecordWrites ==
    ASSUME TypeOK, RowsReserved, Connected, Reliable',
           NEW r \in Requests, Record(r)
    PROVE  \E j \in DOMAIN transactions' :
             /\ transactions'[j].hash = TxOf(r)
             /\ transactions'[j].network = Network(r)
             /\ transactions'[j].token = Req[r].token
             /\ Req[r].amount <= transactions'[j].amount
             /\ transactions'[j].reads = ~Req[r].blank
             /\ transactions'[j].status = "submitted"
             /\ transactions'[j].day = day
<1>1. CreateSignerTransaction(Item(r, "submitted"))
  <2>1. PICK o \in Outcomes :
          /\ StoreOutcome(r, o, TRUE)
          /\ Perform(CreateSignerTransaction(Item(r, "submitted")), o)
    BY DEF Record
  <2>2. cancels' = cancels /\ faults \in Nat /\ cancels \in Nat
    BY PipelineAssumption DEF Record, TypeOK
  <2>3. o = "ok"
    <3>1. CASE StoreKind = "memory"
      BY <2>1, <3>1 DEF StoreOutcome
    <3>2. CASE StoreKind # "memory"
      <4>1. faults' + cancels = 0
        BY <2>2, <3>2 DEF Reliable
      <4>2. faults' = IF o = "ok" \/ ctx[r] = "cancelled" THEN faults ELSE faults + 1
        BY <2>1 DEF StoreOutcome, Count
      <4>3. cancels = 0 /\ ctx[r] # "cancelled"
        <5>1. cancels = 0
          BY <2>2, <4>1, <4>2
        <5> QED BY <5>1 DEF Connected
      <4> QED BY <2>2, <4>1, <4>2, <4>3
    <3> QED BY <3>1, <3>2
  <2> QED BY <2>1, <2>3 DEF Perform
<1>2. Item(r, "submitted").hash = TxOf(r)
  BY RequestFacts
  DEF Item, TransferItem, ContractCallItem, SettlementItem, LedgerItem
<1>3. RowsOf(Item(r, "submitted").hash) = {}
  BY <1>2, NoRowYet DEF Record, HoldsNonce
<1>4. transactions' = Append(transactions, Item(r, "submitted"))
  BY <1>1, <1>3 DEF CreateSignerTransaction, PostgresCreateSignerTransaction,
                    MemoryCreateSignerTransaction
<1>5. Req[r].amount <= Req[r].amount * RawScale
  BY RequestFacts, PipelineAssumption
<1>6. PICK amount \in Nat :
        /\ Item(r, "submitted") = LedgerItem(r, "submitted", amount)
        /\ Req[r].amount <= amount
  <2>1. PICK raw \in Nat : raw = Req[r].amount * RawScale /\ Req[r].amount <= raw
    BY <1>5, RequestFacts, PipelineAssumption
  <2>2. Item(r, "submitted") \in {LedgerItem(r, "submitted", Req[r].amount),
                                  LedgerItem(r, "submitted", raw)}
    BY <2>1, RequestFacts DEF Item, TransferItem, ContractCallItem, SettlementItem
  <2> QED BY <2>1, <2>2, RequestFacts
<1>7. /\ Len(transactions) + 1 \in DOMAIN transactions'
      /\ transactions'[Len(transactions) + 1] = LedgerItem(r, "submitted", amount)
  BY <1>4, <1>6, AppendFacts
<1> QED BY <1>6, <1>7 DEF LedgerItem

LEMMA CountersGrow ==
    ASSUME TypeOK, [Next]_vars
    PROVE  /\ faults \in Nat /\ cancels \in Nat
           /\ faults' \in Nat /\ faults <= faults'
           /\ \/ UNCHANGED <<cancels, ctx>>
              \/ cancels' = cancels + 1
<1>1. faults \in Nat /\ cancels \in Nat /\ faults' \in Nat
  BY NextType, PipelineAssumption DEF TypeOK
<1>2. ASSUME NEW r \in Requests, NEW o, Count(r, o) PROVE faults <= faults'
  BY <1>1, <1>2 DEF Count
<1> USE DEF StoreOutcome, NodeOutcome
<1>3. ASSUME NEW r \in Requests, Arrive(r)
      PROVE  faults <= faults' /\ UNCHANGED <<cancels, ctx>>
  BY <1>1, <1>2, <1>3
  DEF Arrive, RefuseEarly, ClaimNothing, LookupResult, MemoryClaimResult
<1>4. ASSUME NEW r \in Requests, Attempt(r)
      PROVE  faults <= faults' /\ UNCHANGED <<cancels, ctx>>
  <2>1. CASE Dial(r) \/ Reserve(r) \/ Build(r)
    BY <1>1, <1>2, <2>1 DEF Dial, Reserve, Build
  <2>2. CASE Send(r) \/ SignFailed(r)
    BY <1>1, <1>2, <2>2 DEF Send, SignFailed
  <2>3. CASE MarkSubmitted(r) \/ Record(r) \/ MarkFailed(r) \/ RecordFailed(r)
    BY <1>2, <2>3 DEF MarkSubmitted, Record, MarkFailed, RecordFailed
  <2> QED BY <1>4, <2>1, <2>2, <2>3 DEF Attempt
<1>5. ASSUME NEW r \in Requests, Step(r)
      PROVE  faults <= faults' /\ UNCHANGED <<cancels, ctx>>
  BY <1>1, <1>2, <1>4, <1>5 DEF Step, ClaimLock, Validate, Release, Save
<1>6. ASSUME NEW i \in Instances, Monitor(i) \/ Crash(i)
      PROVE  faults <= faults' /\ UNCHANGED <<cancels, ctx>>
  BY <1>1, <1>6 DEF Monitor, MonitorList, MonitorCheck, MonitorHangs, Crash
<1>7. ASSUME NEW r \in Requests, Disconnect(r)
      PROVE  faults <= faults' /\ cancels' = cancels + 1
  BY <1>1, <1>7 DEF Disconnect
<1>8. CASE Mine \/ Midnight \/ UNCHANGED vars
  BY <1>1, <1>8 DEF Mine, Midnight, vars
<1> QED BY <1>1, <1>3, <1>5, <1>6, <1>7, <1>8 DEF Next

LEMMA ConnectedStep ==
    ASSUME TypeOK, [Next]_vars, Reliable'
    PROVE  Reliable /\ (Connected => Connected')
<1>1. Reliable
  BY CountersGrow DEF Reliable
<1>2. ASSUME Connected, cancels' = 0 PROVE \A r \in Requests : ctx'[r] = "live"
  BY <1>2, CountersGrow DEF Connected
<1> QED BY <1>1, <1>2 DEF Connected

\* A node is sent a nonce for which it has not been sent anything.
LEMMA ApartStays ==
    ASSUME TypeOK, ChainInv, [Next]_vars, StoreSurvives, StoreSurvives',
           OneNetwork, NoncesApart
    PROVE  NoncesApart'
<1>1. CASE accepted' = accepted
  BY <1>1 DEF NoncesApart
<1>2. ASSUME NEW r \in Requests, Broadcasts(r) PROVE NoncesApart'
  <2>1. PICK b : b.nonce = nonce[r] /\ accepted' = accepted \cup {b}
    BY <1>2 DEF Broadcasts, LogBroadcast
  <2>2. \A s \in accepted : s.nonce # nonce[r]
    BY <1>2 DEF ChainInv, Broadcasts
  <2> QED BY <2>1, <2>2 DEF NoncesApart
<1>3. CASE Quiet \/ Crashed
  BY <1>1, <1>3 DEF Quiet, Crashed
<1> QED BY <1>1, <1>2, <1>3, StepShape, AcceptedChange

\* Where a request goes that a node has acknowledged.
LEMMA SentGoesOn ==
    ASSUME TypeOK, [Next]_vars, StoreSurvives', NEW r \in Requests,
           pc[r] \in Sent \cup {"done", "lost"}
    PROVE  /\ pc'[r] \in Sent \cup {"done", "lost"}
           /\ pc'[r] \in Sent => pc[r] \in Sent /\ nonce'[r] = nonce[r]
           /\ pc[r] = "lost" => pc'[r] = "lost"
<1>1. CASE Quiet \/ Crashed
  BY <1>1 DEF Quiet, Crashed, attemptVars, Active, Executing, Sent
<1>2. ASSUME NEW q \in Requests, Concerns(q), q # r
      PROVE  pc'[r] = pc[r] /\ nonce'[r] = nonce[r]
  BY <1>2, OthersFrame
<1>3. CASE Concerns(r)
  <2>1. Worked(r) \/ Stored(r) \/ Unstored(r)
    BY <1>3 DEF Concerns, Refused, Replayed, Looked, Claimed, Broadcasts, Released,
                Sent
  <2>2. CASE Worked(r)
    BY <2>2 DEF Worked, Goto, TypeOK, attemptVars, Executing, Sent
  <2>3. CASE Stored(r) \/ Unstored(r)
    BY <2>3 DEF Stored, Unstored, Reply, Goto, TypeOK, Sent
  <2> QED BY <2>1, <2>2, <2>3
<1> QED BY <1>1, <1>2, <1>3, StepShape

\* Days only pass.
LEMMA DayGrows ==
    ASSUME TypeOK, [Next]_vars, day \in Nat
    PROVE  day <= day'
<1> USE DEF storeVars, Perform
<1>1. ASSUME NEW r \in Requests, Arrive(r) PROVE day' = day
  BY <1>1 DEF Arrive, RefuseEarly, ClaimNothing, LookupResult, MemoryClaimResult,
              InsertLock
<1>2. ASSUME NEW r \in Requests, Attempt(r) PROVE day' = day
  <2>1. CASE Dial(r) \/ Reserve(r) \/ Build(r) \/ Send(r)
    BY <2>1 DEF Dial, Reserve, Build, Send, InsertNonceRow, SetNonceRow
  <2>2. CASE MarkSubmitted(r) \/ MarkFailed(r) \/ SignFailed(r)
    BY <2>2 DEF MarkSubmitted, MarkFailed, SignFailed, MarkChainNonceSubmitted,
                MarkChainNonceFailed, MemoryMarkChainNonce, SetNonceRow
  <2>3. CASE Record(r) \/ RecordFailed(r)
    BY <2>3 DEF Record, RecordFailed, CreateSignerTransaction,
                PostgresCreateSignerTransaction, MemoryCreateSignerTransaction
  <2> QED BY <1>2, <2>1, <2>2, <2>3 DEF Attempt
<1>3. ASSUME NEW r \in Requests, Step(r) PROVE day' = day
  BY <1>2, <1>3 DEF Step, ClaimLock, Validate, Release, Save, InsertLock,
     ReleaseClaim, SaveResult, PostgresSaveResult, MemorySaveResult
<1>4. ASSUME NEW i \in Instances, Monitor(i) \/ Crash(i) PROVE day' = day
  BY <1>4 DEF Monitor, MonitorList, MonitorCheck, MonitorHangs, MarkSignerTransactionStatus,
              Crash, RestartStore
<1>5. CASE Midnight
  BY <1>5 DEF Midnight, NextDay
<1> QED BY <1>1, <1>3, <1>4, <1>5 DEF Next, Disconnect, Mine, vars

LEMMA RecordsStay ==
    ASSUME TypeOK, [Next]_vars, NEW s \in accepted,
           NEW j \in DOMAIN transactions, Records(j, s), RowStays(j)
    PROVE  \E i \in DOMAIN transactions' : Records(i, s)'
<1>1. day \in Nat /\ day' \in Nat /\ day <= day'
  <2>1. day \in Nat /\ day' \in Nat
    BY NextType, StoreAssumption DEF TypeOK, StoreTypeOK
  <2> QED BY <2>1, DayGrows
<1>2. Row(j).day \in Int
  BY RowType DEF SignerTransaction
<1>3. Records(j, s)'
  BY <1>1, <1>2 DEF Records, RowStays, Row, BroadcastTx, Network
<1> QED BY <1>3 DEF RowStays

LEMMA UnderwayStep ==
    ASSUME TypeOK, NonceInv, ChainInv, LedgerInv, [Next]_vars,
           StoreSurvives, StoreSurvives', OneNetwork, Reliable',
           Connected, NEW s \in accepted, Underway(s)
    PROVE  Underway(s)'
<1> SUFFICES ASSUME s.acked PROVE Underway(s)'
  BY DEF Underway
<1> DEFINE r == s.req
<1>1. /\ r \in Requests /\ s.nonce \in Nonces
      /\ pc[r] \in Sent \cup {"done", "lost"}
      /\ pc[r] \in Sent => nonce[r] = s.nonce
      /\ pc[r] \in {"save", "done"} =>
           \E j \in DOMAIN transactions : Records(j, s)
  BY DEF Underway, TypeOK, Broadcast
<1> HIDE DEF r
<1>2. /\ pc'[r] \in Sent \cup {"done", "lost"}
      /\ pc'[r] \in Sent => pc[r] \in Sent /\ nonce'[r] = nonce[r]
      /\ pc[r] = "lost" => pc'[r] = "lost"
  BY <1>1, SentGoesOn
<1>3. ASSUME pc'[r] \in Sent PROVE nonce'[r] = s.nonce
  BY <1>1, <1>2, <1>3
<1>4. ASSUME pc'[r] \in {"save", "done"}
      PROVE  \E j \in DOMAIN transactions' : Records(j, s)'
  <2>1. CASE pc[r] \in {"save", "done"}
    <3>1. PICK j \in DOMAIN transactions : Records(j, s)
      BY <1>1, <2>1
    <3>2. RowStays(j)
      BY RowsStay
    <3> QED BY <3>1, <3>2, RecordsStay
  <2>2. CASE pc[r] \in {"markSubmitted", "record"}
    <3>1. Record(r)
      BY <1>1, <1>4, <2>2, ComesToSave
    <3>2. PICK j \in DOMAIN transactions' :
             /\ transactions'[j].hash = TxOf(r)
             /\ transactions'[j].network = Network(r)
             /\ transactions'[j].token = Req[r].token
             /\ Req[r].amount <= transactions'[j].amount
             /\ transactions'[j].reads = ~Req[r].blank
             /\ transactions'[j].status = "submitted"
             /\ transactions'[j].day = day
      <4>1. RowsReserved
        BY DEF LedgerInv
      <4> QED BY <1>1, <3>1, <4>1, RecordWrites
    <3>3. TxOf(r) = BroadcastTx(s)
      BY <1>1, <2>2 DEF TxOf, BroadcastTx, Sent, r
    <3>4. day <= day' /\ day \in Nat
      BY DayGrows, StoreAssumption DEF TypeOK, StoreTypeOK
    <3>5. Records(j, s)'
      BY <3>2, <3>3, <3>4 DEF Records, Row, BroadcastTx, Network, r
    <3> QED BY <3>5
  <2>3. CASE pc[r] = "lost"
    BY <1>2, <1>4, <2>3
  <2> QED BY <1>1, <2>1, <2>2, <2>3 DEF Sent
<1> QED BY <1>2, <1>3, <1>4 DEF Underway, r

LEMMA SpendingStep ==
    ASSUME TypeOK, NonceInv, ChainInv, LedgerInv, SpendingInv, [Next]_vars
    PROVE  SpendingInv'
<1> SUFFICES ASSUME StoreSurvives', OneNetwork', Reliable'
             PROVE  Connected' /\ NoncesApart' /\ \A s \in accepted' : Underway(s)'
  BY DEF SpendingInv
<1>1. StoreSurvives /\ OneNetwork /\ Reliable
  BY SurvivedBefore, ConnectedStep DEF OneNetwork, Network
<1>2. Connected /\ NoncesApart /\ \A s \in accepted : Underway(s)
  BY <1>1 DEF SpendingInv
<1>3. ASSUME NEW s \in accepted', s \notin accepted PROVE Underway(s)'
  <2>1. PICK r \in Requests : Broadcasts(r)
    BY <1>3, StepShape, AcceptedChange DEF Quiet, Crashed
  <2>2. /\ s.req = r /\ s.nonce = nonce'[r]
        /\ s.acked => pc'[r] = "markSubmitted"
    BY <1>3, <2>1, BroadcastAdds
  <2> QED BY <2>2 DEF Underway, Sent
<1>4. ASSUME NEW s \in accepted PROVE Underway(s)'
  BY <1>1, <1>2, <1>4, UnderwayStep
<1> QED BY <1>1, <1>2, <1>3, <1>4, ConnectedStep, ApartStays

LEMMA SpendingInductive == Spec => []SpendingInv
<1>1. Init => SpendingInv
  BY DEF Init, SpendingInv, Connected, NoncesApart
<1> QED BY <1>1, SpendingStep, TypeCorrect, NonceInductive, ChainInductive,
           LedgerInductive, PTL DEF Spec

\* Every acknowledged broadcast whose bookkeeping is done, that has not reverted
\* and whose amount came without blanks is counted for the outflow of the day
\* under the spelling of its token, each with a row of its own and at least its
\* amount: overlapping requests, second candidates and the monitor's statuses
\* neither hide a row nor let two transactions share one
\* (CreateSignerTransaction, ON CONFLICT, DailySubmittedOutflow).
THEOREM SpendingIsCounted == ASSUME OneNetwork PROVE Spec => []SpendingCounted
<1>1. TypeOK /\ LedgerInv /\ SpendingInv => SpendingCounted
  <2> SUFFICES ASSUME TypeOK, LedgerInv, SpendingInv, StoreSurvives, Reliable,
                      day = 0, NEW t \in Tokens, NEW w \in Networks
               PROVE  \E rowOf \in [SpentOf(t, w) -> OutflowRows(t, w)] :
                        /\ \A s, u \in SpentOf(t, w) : rowOf[s] = rowOf[u] => s = u
                        /\ \A s \in SpentOf(t, w) :
                             Req[s.req].amount <= transactions[rowOf[s]].amount
    BY DEF SpendingCounted
  <2>1. LedgerTruth /\ NoncesApart /\ \A s \in accepted : Underway(s)
    BY DEF LedgerInv, SpendingInv
  <2>2. ASSUME NEW s \in SpentOf(t, w)
        PROVE  \E j \in OutflowRows(t, w) : Records(j, s)
    <3>1. /\ s \in accepted /\ s.acked /\ pc[s.req] \in {"save", "done"}
          /\ s.nonce \notin reverted /\ Req[s.req].token = t /\ Network(s.req) = w
          /\ ~Req[s.req].blank
      BY <2>2 DEF SpentOf
    <3>2. PICK j \in DOMAIN transactions : Records(j, s)
      BY <2>1, <3>1 DEF Underway
    <3>3. TrueRow(Row(j), slots, base, reverted)
      BY <2>1, TrueRows
    <3>4. Row(j).hash.nonce = s.nonce
      BY <3>2 DEF Records, BroadcastTx
    <3>5. Row(j).status \in {"submitted", "confirmed"} /\ Row(j).day = 0
      BY <3>1, <3>2, <3>3, <3>4, RowType
      DEF Records, TrueRow, SignerTransaction, LedgerStatus
    <3>6. CountsAsOutflow(transactions[j], t, w) /\ transactions[j].day = day
      BY <3>1, <3>2, <3>5 DEF Records, CountsAsOutflow, Row
    <3>7. j \in OutflowRows(t, w)
      BY <3>6 DEF OutflowRows, PostgresOutflowRows, MemoryOutflowRows
    <3> QED BY <3>2, <3>7
  <2> DEFINE rowOf == [s \in SpentOf(t, w) |->
                         CHOOSE j \in OutflowRows(t, w) : Records(j, s)]
  <2>3. ASSUME NEW s \in SpentOf(t, w)
        PROVE  rowOf[s] \in OutflowRows(t, w) /\ Records(rowOf[s], s)
    BY <2>2, <2>3
  <2>4. rowOf \in [SpentOf(t, w) -> OutflowRows(t, w)]
    BY <2>3
  <2> HIDE DEF rowOf
  <2>5. ASSUME NEW s \in SpentOf(t, w), NEW u \in SpentOf(t, w), rowOf[s] = rowOf[u]
        PROVE  s = u
    <3>1. BroadcastTx(s) = BroadcastTx(u)
      BY <2>3, <2>5 DEF Records
    <3>2. s.nonce = u.nonce
      BY <3>1 DEF BroadcastTx
    <3> QED BY <2>1, <3>2 DEF NoncesApart, SpentOf
  <2>6. \A s \in SpentOf(t, w) : Req[s.req].amount <= transactions[rowOf[s]].amount
    BY <2>3 DEF Records, Row
  <2> QED BY <2>4, <2>5, <2>6
<1> QED BY <1>1, TypeCorrect, LedgerInductive, SpendingInductive, PTL

-----------------------------------------------------------------------------
(***************************************************************************)
(* What is left behind.  ErrorMeansNotSent fails when a node takes a       *)
(* transaction and its acknowledgement is lost, ReservationPossible when a *)
(* broadcast fails and its nonce keeps a failed row, and a lock row can    *)
(* outlive its request.  Nothing but a fault, a disconnect or a crash does *)
(* any of this.                                                            *)
(***************************************************************************)
HonestInv ==
    /\ \A r \in Requests : pc[r] # "done" => answer[r].code = "none"
    /\ \A s \in accepted :
         IF s.acked
         THEN pc[s.req] \in Sent \cup {"done", "lost"} /\ answer[s.req].code # "502"
         ELSE faults > 0

\* What becomes of an answer and of a request that has been sent.
LEMMA AnswersStep ==
    ASSUME TypeOK, HonestInv, [Next]_vars, NEW r \in Requests
    PROVE  /\ pc'[r] # "done" => answer'[r].code = "none"
           /\ pc[r] \in Sent \cup {"done", "lost"} /\ answer[r].code # "502" =>
                pc'[r] \in Sent \cup {"done", "lost"} /\ answer'[r].code # "502"
<1>1. pc[r] # "done" => answer[r].code = "none"
  BY DEF HonestInv
<1>2. CASE Quiet
  BY <1>1, <1>2 DEF Quiet
<1>3. ASSUME NEW i \in Instances, Crash(i)
      PROVE  answer'[r] = answer[r] /\ pc'[r] \in {pc[r], "lost"} /\
             (pc[r] = "done" => pc'[r] = "done")
  BY <1>3 DEF Crash
<1>4. ASSUME NEW q \in Requests, Concerns(q), q # r
      PROVE  pc'[r] = pc[r] /\ answer'[r] = answer[r]
  BY <1>4, OthersFrame
<1>5. ASSUME Concerns(r)
      PROVE  /\ pc'[r] # "done" => answer'[r].code = answer[r].code /\ pc[r] # "done"
             /\ pc[r] \in Sent \cup {"done", "lost"} =>
                  /\ pc'[r] \in Sent \cup {"done", "lost"}
                  /\ answer'[r].code \in {answer[r].code, "200", "503"}
  <2>1. CASE Worked(r)
    BY <2>1 DEF Worked, Goto, TypeOK, Sent, Executing
  <2>2. CASE Broadcasts(r) \/ Looked(r) \/ Claimed(r)
    BY <2>2 DEF Broadcasts, Looked, Claimed, Goto, TypeOK, Sent
  <2>3. CASE Refused(r) \/ Replayed(r) \/ Released(r)
    BY <2>3 DEF Refused, Replayed, Released, Reply, Goto, TypeOK, Sent
  <2>4. CASE Stored(r) \/ Unstored(r)
    BY <2>4 DEF Stored, Unstored, Reply, Goto, TypeOK
  <2> QED BY <1>5, <2>1, <2>2, <2>3, <2>4 DEF Concerns
<1>6. CASE Quiet \/ (\E i \in Instances : Crash(i)) \/ \E q \in Requests : Concerns(q)
  BY <1>1, <1>2, <1>3, <1>4, <1>5, <1>6
<1>7. CASE UNCHANGED <<pc, answer>>
  BY <1>1, <1>7
<1> QED BY <1>6, <1>7, ArriveShape, HandlerShape, AttemptShape
        DEF Next, Step, Disconnect, Monitor, MonitorList, MonitorCheck, MonitorHangs, Mine, Midnight,
            vars

\* A node that takes a transaction without saying so is a fault.
LEMMA UnackedFault ==
    ASSUME TypeOK, [Next]_vars, NEW s \in accepted', s \notin accepted
    PROVE  /\ s.req \in Requests
           /\ pc[s.req] = "send"
           /\ IF s.acked THEN pc'[s.req] = "markSubmitted" ELSE faults' > 0
<1> USE DEF history
<1>1. ASSUME NEW r \in Requests, Send(r)
      PROVE  /\ s.req = r /\ pc[r] = "send"
             /\ IF s.acked THEN pc'[r] = "markSubmitted" ELSE faults' > 0
  <2>1. PICK o \in Outcomes :
          /\ NodeOutcome(r, o) /\ o # "failed" /\ LogBroadcast(r, o = "ok")
          /\ Goto(r, IF o = "ok" THEN "markSubmitted" ELSE "markFailed")
    BY <1>1 DEF Send
  <2>2. s.req = r /\ s.acked = (o = "ok")
    <3> DEFINE yes == o = "ok"
    <3>1. accepted' = accepted \cup {[req |-> r, attempt |-> attempt[r],
                                      nonce |-> nonce[r], acked |-> yes]}
      BY <2>1 DEF LogBroadcast
    <3> HIDE DEF yes
    <3>2. s.req = r /\ s.acked = yes
      BY <3>1
    <3> QED BY <3>2 DEF yes
  <2>3. pc[r] = "send" /\ pc'[r] = IF o = "ok" THEN "markSubmitted" ELSE "markFailed"
    BY <1>1, <2>1 DEF Send, Goto, TypeOK
  <2>4. o # "ok" => faults' = faults + 1
    BY <2>1 DEF NodeOutcome, Count
  <2>5. faults \in Nat
    BY PipelineAssumption DEF TypeOK
  <2>6. CASE o = "ok"
    <3>1. s.acked
      BY <2>2, <2>6
    <3> QED BY <2>2, <2>3, <2>6, <3>1
  <2>7. CASE o # "ok"
    <3>1. ~s.acked
      BY <2>2, <2>7
    <3>2. faults' > 0
      BY <2>4, <2>5, <2>7
    <3> QED BY <2>2, <2>3, <3>1, <3>2
  <2> QED BY <2>6, <2>7
<1>2. ASSUME NEW r \in Requests, Attempt(r), ~Send(r) PROVE accepted' = accepted
  BY <1>2 DEF Attempt, Dial, Reserve, Build, SignFailed, MarkSubmitted, Record, MarkFailed,
              RecordFailed
<1>3. ASSUME NEW r \in Requests, Arrive(r) PROVE accepted' = accepted
  BY <1>3 DEF Arrive, RefuseEarly, ClaimNothing, LookupResult, MemoryClaimResult
<1>4. ASSUME NEW r \in Requests, Step(r), ~Attempt(r) PROVE accepted' = accepted
  BY <1>4 DEF Step, ClaimLock, Validate, Release, Save
<1>5. CASE \E r \in Requests : Attempt(r)
  BY <1>1, <1>2, <1>5
<1> QED BY <1>3, <1>4, <1>5
        DEF Next, Disconnect, Monitor, MonitorList, MonitorCheck, MonitorHangs, Crash, Mine, Midnight, vars

LEMMA HonestStep ==
    ASSUME TypeOK, HonestInv, [Next]_vars
    PROVE  HonestInv'
<1>1. \A r \in Requests : pc'[r] # "done" => answer'[r].code = "none"
  BY AnswersStep
<1>2. ASSUME NEW s \in accepted'
      PROVE  IF s.acked
             THEN pc'[s.req] \in Sent \cup {"done", "lost"} /\ answer'[s.req].code # "502"
             ELSE faults' > 0
  <2>1. CASE s \in accepted
    <3>1. s.req \in Requests
      BY <2>1 DEF TypeOK, Broadcast
    <3>2. CASE s.acked
      BY <2>1, <3>1, <3>2, AnswersStep DEF HonestInv
    <3>3. CASE ~s.acked
      BY <2>1, <3>3, CountersGrow DEF HonestInv
    <3> QED BY <3>2, <3>3
  <2>2. CASE s \notin accepted
    <3>1. /\ s.req \in Requests
          /\ IF s.acked THEN pc'[s.req] = "markSubmitted" ELSE faults' > 0
      BY <2>2, UnackedFault
    <3> QED BY <1>1, <3>1 DEF Sent
  <2> QED BY <2>1, <2>2
<1> QED BY <1>1, <1>2 DEF HonestInv

\* An answer 502 is given to a request whose transaction was taken only when an
\* acknowledgement was lost: a broadcast that a node acknowledged ends in 200 or
\* 503, whatever the bookkeeping after it does, and without a fault
\* ErrorMeansNotSent holds.
THEOREM ErrorsAreHonest ==
    Spec => [](/\ \A s \in accepted : answer[s.req].code = "502" => ~s.acked
               /\ faults = 0 => ErrorMeansNotSent)
<1>1. Init => HonestInv
  BY DEF Init, HonestInv
<1>2. HonestInv => /\ \A s \in accepted : answer[s.req].code = "502" => ~s.acked
                   /\ faults = 0 => ErrorMeansNotSent
  BY DEF HonestInv, ErrorMeansNotSent
<1> QED BY <1>1, <1>2, HonestStep, TypeCorrect, PTL DEF Spec

LockInv ==
    Undisturbed =>
        /\ \A r \in Requests : ctx[r] = "live"
        /\ \A k \in locks : \E r \in Requests : pc[r] \in Executing /\ KeyOf(r) = k

LEMMA UndisturbedBefore ==
    ASSUME TypeOK, [Next]_vars, Undisturbed'
    PROVE  Undisturbed /\ faults' = 0 /\ crashes' = crashes /\ UNCHANGED ctx
<1>1. /\ faults \in Nat /\ cancels \in Nat /\ faults' \in Nat /\ faults <= faults'
      /\ UNCHANGED <<cancels, ctx>> \/ cancels' = cancels + 1
  BY CountersGrow
<1>2. crashes' \in Nat /\ crashes <= crashes'
  BY CrashesGrow
<1>3. crashes \in Nat
  BY PipelineAssumption DEF TypeOK
<1>4. faults' + cancels' + crashes' = 0
  BY DEF Undisturbed
<1> QED BY <1>1, <1>2, <1>3, <1>4 DEF Undisturbed

LEMMA NothingFails ==
    ASSUME TypeOK, NEW r \in Requests, ctx[r] = "live", faults' = 0,
           NEW o, NEW issued, StoreOutcome(r, o, issued)
    PROVE  o = "ok"
  BY PipelineAssumption DEF StoreOutcome, Count, TypeOK

\* Every step keeps an owner for every lock row that it leaves.
LEMMA OwnersStep ==
    ASSUME TypeOK, \A r \in Requests : ctx[r] = "live", [Next]_vars,
           faults' = 0, crashes' = crashes, NEW k \in locks'
    PROVE  \/ \E r \in Requests : pc'[r] \in Executing /\ KeyOf(r) = k
           \/ k \in locks /\ \A r \in Requests :
                pc[r] \in Executing /\ KeyOf(r) = k => pc'[r] \in Executing
<1> USE DEF Goto, Reply, storeVars, Perform, Executing
<1>1. ASSUME NEW r \in Requests, RefuseEarly(r) \/ ClaimNothing(r) \/ LookupResult(r)
      PROVE  k \in locks /\ \A q \in Requests : pc[q] \in Executing => pc'[q] = pc[q]
  BY <1>1 DEF RefuseEarly, ClaimNothing, LookupResult, TypeOK
<1>2. ASSUME NEW r \in Requests, MemoryClaimResult(r) \/ ClaimLock(r)
      PROVE  /\ k \in locks \/ (k = KeyOf(r) /\ pc'[r] = "validate")
             /\ \A q \in Requests : pc[q] \in Executing => pc'[q] = pc[q]
  <2>1. CASE MemoryClaimResult(r)
    BY <2>1 DEF MemoryClaimResult, InsertLock, TypeOK
  <2>2. CASE ClaimLock(r)
    <3>1. PICK o \in Outcomes :
            /\ StoreOutcome(r, o, TRUE)
            /\ o = "ok" => \/ Claimable(KeyOf(r)) /\ Goto(r, "validate")
                           \/ ~Claimable(KeyOf(r)) /\ Reply(r, "409", NoTx)
            /\ Perform(InsertLock(KeyOf(r)), o)
      BY <2>2 DEF ClaimLock
    <3>2. o = "ok"
      BY <3>1, NothingFails
    <3>3. locks' = IF KeyOf(r) = NoKey THEN locks ELSE locks \cup {KeyOf(r)}
      BY <3>1, <3>2 DEF InsertLock
    <3>4. pc[r] = "claim"
      BY <2>2 DEF ClaimLock
    <3> QED BY <3>1, <3>2, <3>3, <3>4 DEF Claimable, TypeOK
  <2> QED BY <1>2, <2>1, <2>2
<1>3. ASSUME NEW r \in Requests, Attempt(r) \/ Validate(r)
      PROVE  k \in locks /\ \A q \in Requests : pc[q] \in Executing => pc'[q] \in Executing
  <2>1. CASE Attempt(r)
    <3>1. pc'[r] \in Executing
      BY <2>1 DEF Attempt, Dial, Reserve, Build, SignFailed, Send, MarkSubmitted, Record,
                  MarkFailed, RecordFailed, FailAttempt, TypeOK
    <3> QED BY <2>1, <3>1, AttemptFrame
  <2>2. CASE Validate(r)
    BY <2>2 DEF Validate, TypeOK
  <2> QED BY <1>3, <2>1, <2>2
<1>4. ASSUME NEW r \in Requests, Release(r) \/ Save(r)
      PROVE  /\ k \in locks /\ k # KeyOf(r)
             /\ \A q \in Requests \ {r} : pc'[q] = pc[q]
  <2>1. locks' = locks \ {KeyOf(r)}
    <3>1. CASE Release(r)
      BY <3>1, NothingFails DEF Release, ReleaseClaim
    <3>2. CASE Save(r)
      BY <3>2, NothingFails DEF Save, SaveResult, PostgresSaveResult, MemorySaveResult
    <3> QED BY <1>4, <3>1, <3>2
  <2>2. \A q \in Requests \ {r} : pc'[q] = pc[q]
    BY <1>4 DEF Release, Save, TypeOK
  <2> QED BY <2>1, <2>2
<1>5. CASE UNCHANGED <<pc, locks>>
  BY <1>5
<1>6. ASSUME NEW i \in Instances, Crash(i) PROVE FALSE
  BY <1>6, PipelineAssumption DEF Crash, TypeOK
<1>7. ASSUME NEW i \in Instances, Monitor(i) PROVE UNCHANGED <<pc, locks>>
  BY <1>7 DEF Monitor, MonitorList, MonitorCheck, MonitorHangs, MarkSignerTransactionStatus
<1>8. ASSUME NEW r \in Requests, Arrive(r) \/ Step(r)
      PROVE  \/ \E q \in Requests : pc'[q] \in Executing /\ KeyOf(q) = k
             \/ k \in locks /\ \A q \in Requests :
                  pc[q] \in Executing /\ KeyOf(q) = k => pc'[q] \in Executing
  BY <1>1, <1>2, <1>3, <1>4, <1>8 DEF Arrive, Step
<1> QED BY <1>5, <1>6, <1>7, <1>8
        DEF Next, Disconnect, Mine, Midnight, NextDay, vars

\* As long as nothing fails, disconnects or crashes, every lock row belongs to a
\* handler that is executing its key: no path through the policies, the
\* candidates and the bookkeeping returns without ReleaseClaim or SaveResult.
\* (That the handler then ends, and so LockFreed, is for TLC.)
THEOREM LocksAreOwned ==
    Spec => [](Undisturbed =>
                 \A k \in locks :
                    \E r \in Requests : pc[r] \in Executing /\ KeyOf(r) = k)
<1>1. Init => LockInv
  BY DEF Init, StoreInit, LockInv
<1>2. TypeOK /\ LockInv /\ [Next]_vars => LockInv'
  <2> SUFFICES ASSUME TypeOK, LockInv, [Next]_vars, Undisturbed'
               PROVE  /\ \A r \in Requests : ctx'[r] = "live"
                      /\ \A k \in locks' : \E r \in Requests :
                           pc'[r] \in Executing /\ KeyOf(r) = k
    BY DEF LockInv, KeyOf
  <2>1. Undisturbed /\ faults' = 0 /\ crashes' = crashes /\ UNCHANGED ctx
    BY UndisturbedBefore
  <2>2. /\ \A r \in Requests : ctx[r] = "live"
        /\ \A k \in locks : \E r \in Requests : pc[r] \in Executing /\ KeyOf(r) = k
    BY <2>1 DEF LockInv
  <2> QED BY <2>1, <2>2, OwnersStep
<1>3. LockInv => (Undisturbed =>
                    \A k \in locks :
                       \E r \in Requests : pc[r] \in Executing /\ KeyOf(r) = k)
  BY DEF LockInv
<1> QED BY <1>1, <1>2, <1>3, TypeCorrect, PTL DEF Spec

\* A nonce that is handed out is fresh on the chain, so a broadcast of it fails
\* only through a fault.
WedgeInv ==
    /\ \A n \in Nonces : n < base => slots[n] # NoTx
    /\ OneNetwork /\ StoreKind = "postgres" /\ faults + cancels = 0 =>
         /\ \A r \in Requests :
              ctx[r] = "live" /\ pc[r] \notin {"signFailed", "markFailed", "recordFailed"}
         /\ \A w \in Networks, n \in Nonces : chainNonces[w][n] # "failed"

LEMMA ExecutedTaken ==
    ASSUME TypeOK, [Next]_vars, \A n \in Nonces : n < base => slots[n] # NoTx,
           NEW n \in Nonces, n < base'
    PROVE  slots'[n] # NoTx
<1> USE DEF chainVars
<1>1. ASSUME NEW r \in Requests, Send(r) PROVE slots'[n] # NoTx
  <2>1. CASE slots' = slots /\ base' = base
    BY <2>1
  <2>2. CASE TakeTransaction(TxOf(r))
    BY <2>2, TxType, NoTxAssumption DEF TakeTransaction, TypeOK
  <2> QED BY <1>1, <2>1, <2>2 DEF Send
<1>2. CASE Mine
  BY <1>2 DEF Mine, TypeOK, Nonces
<1>3. CASE UNCHANGED <<slots, base>>
  BY <1>3
<1>4. ASSUME NEW r \in Requests, Arrive(r) PROVE UNCHANGED <<slots, base>>
  BY <1>4 DEF Arrive, RefuseEarly, ClaimNothing, LookupResult, MemoryClaimResult
<1>5. ASSUME NEW r \in Requests, Step(r), ~Send(r) PROVE UNCHANGED <<slots, base>>
  BY <1>5 DEF Step, ClaimLock, Validate, Release, Save, Attempt, Dial, Reserve, Build,
              SignFailed, MarkSubmitted, Record, MarkFailed, RecordFailed
<1>6. CASE \E r \in Requests : Step(r)
  BY <1>1, <1>3, <1>5, <1>6
<1> QED BY <1>2, <1>3, <1>4, <1>6
        DEF Next, Disconnect, Monitor, MonitorList, MonitorCheck, MonitorHangs, Crash, Midnight, vars

LEMMA RowSet ==
    ASSUME NEW w \in Networks, NEW n \in Nonces, NEW v,
           chainNonces \in [Networks -> [Nonces -> RowStatus]],
           chainNonces' = [chainNonces EXCEPT ![w][n] = v]
    PROVE  \A x \in Networks, m \in Nonces : chainNonces'[x][m] \in {chainNonces[x][m], v}
<1> SUFFICES ASSUME NEW x \in Networks, NEW m \in Nonces
             PROVE  chainNonces'[x][m] \in {chainNonces[x][m], v}
  OBVIOUS
<1>1. chainNonces'[x] = IF x = w THEN [chainNonces[w] EXCEPT ![n] = v] ELSE chainNonces[x]
  OBVIOUS
<1>2. chainNonces[w] \in [Nonces -> RowStatus]
  OBVIOUS
<1> QED BY <1>1, <1>2

\* A step of a request under which nothing fails marks no nonce as failed and
\* does not go where it would be.
LEMMA NoFailureStep ==
    ASSUME TypeOK, ChainInv, WedgeInv, OneNetwork, StoreKind = "postgres",
           faults + cancels = 0, faults' = 0, NEW r \in Requests, Arrive(r) \/ Step(r)
    PROVE  /\ \A q \in Requests : pc'[q] \notin {"signFailed", "markFailed", "recordFailed"}
           /\ \A w \in Networks, n \in Nonces : chainNonces'[w][n] # "failed"
<1>1. /\ ctx[r] = "live" /\ faults = 0
      /\ \A q \in Requests : pc[q] \notin {"signFailed", "markFailed", "recordFailed"}
      /\ \A w \in Networks, n \in Nonces : chainNonces[w][n] # "failed"
  BY PipelineAssumption DEF WedgeInv, TypeOK
<1>2. ASSUME NEW o, NodeOutcome(r, o) PROVE o = "ok"
  BY <1>1, <1>2 DEF NodeOutcome, Count
<1> USE DEF Goto, Reply, storeVars, Perform
<1>3. CASE Send(r)
  <2>1. pc[r] = "send"
    BY <1>3 DEF Send
  <2>2. nonce[r] >= base /\ slots[nonce[r]] = NoTx
    <3>1. slots[nonce[r]] = NoTx
      BY <2>1 DEF ChainInv, StoreSurvives, TypeOK
    <3>2. nonce[r] \in Nonces /\ base \in Int /\ nonce[r] \in Int
      BY DEF TypeOK, Nonces
    <3> QED BY <3>1, <3>2 DEF WedgeInv
  <2>3. nonce[r] \in Int /\ base \in Int
    BY DEF TypeOK, Nonces
  <2>4. Goto(r, "markSubmitted") /\ chainNonces' = chainNonces
    BY <1>2, <1>3, <2>2, <2>3 DEF Send
  <2> QED BY <1>1, <2>4 DEF TypeOK
<1>4. CASE Build(r)
  <2>1. \E label \in {"send", "dial", "release"} : Goto(r, label)
    BY <1>2, <1>4 DEF Build, FailAttempt
  <2>2. chainNonces' = chainNonces
    BY <1>4 DEF Build
  <2> QED BY <1>1, <2>1, <2>2 DEF TypeOK
<1>5. CASE Dial(r) \/ Reserve(r)
  <2>1. \E label \in {"dial", "release", "reserve", "build"} : Goto(r, label)
    BY <1>5 DEF Dial, Reserve, FailAttempt
  <2>2. \/ chainNonces' = chainNonces
        \/ \E n \in Nonces : chainNonces' = [chainNonces EXCEPT ![Network(r)][n] = "reserved"]
    BY <1>5 DEF Dial, Reserve, InsertNonceRow, SetNonceRow
  <2>3. \A q \in Requests : pc'[q] \notin {"signFailed", "markFailed", "recordFailed"}
    BY <1>1, <2>1 DEF TypeOK
  <2>4. chainNonces \in [Networks -> [Nonces -> RowStatus]]
    BY DEF TypeOK, StoreTypeOK
  <2>5. \A w \in Networks, n \in Nonces : chainNonces'[w][n] \in {chainNonces[w][n], "reserved"}
    <3>1. Network(r) \in Networks /\ nonce[r] \in Nonces
      BY RequestFacts DEF TypeOK
    <3> QED BY <2>2, <2>4, <3>1, RowSet
  <2> QED BY <1>1, <2>3, <2>5
<1>6. CASE MarkSubmitted(r) \/ Record(r)
  <2>1. \E label \in {"record", "save"} : Goto(r, label)
    BY <1>6 DEF MarkSubmitted, Record
  <2>2. \/ chainNonces' = chainNonces
        \/ chainNonces' = [chainNonces EXCEPT ![Network(r)][nonce[r]] = "submitted"]
    BY <1>6 DEF MarkSubmitted, Record, MarkChainNonceSubmitted, MemoryMarkChainNonce,
       SetNonceRow, CreateSignerTransaction, PostgresCreateSignerTransaction,
       MemoryCreateSignerTransaction
  <2>3. \A q \in Requests : pc'[q] \notin {"signFailed", "markFailed", "recordFailed"}
    BY <1>1, <2>1 DEF TypeOK
  <2>4. chainNonces \in [Networks -> [Nonces -> RowStatus]]
    BY DEF TypeOK, StoreTypeOK
  <2>5. \A w \in Networks, n \in Nonces : chainNonces'[w][n] \in {chainNonces[w][n], "submitted"}
    <3>1. Network(r) \in Networks /\ nonce[r] \in Nonces
      BY RequestFacts DEF TypeOK
    <3> QED BY <2>2, <2>4, <3>1, RowSet
  <2> QED BY <1>1, <2>3, <2>5
<1>7. CASE MarkFailed(r) \/ RecordFailed(r) \/ SignFailed(r)
  BY <1>1, <1>7 DEF MarkFailed, RecordFailed, SignFailed
<1>8. CASE Arrive(r) \/ ClaimLock(r) \/ Validate(r) \/ Release(r) \/ Save(r)
  <2>1. chainNonces' = chainNonces
    BY <1>8 DEF Arrive, RefuseEarly, ClaimNothing, LookupResult, MemoryClaimResult,
       ClaimLock, Validate, Release, Save, InsertLock, ReleaseClaim, SaveResult,
       PostgresSaveResult, MemorySaveResult
  <2>2. \E label \in {"done", "claim", "validate", "dial", "release"} : Goto(r, label)
    BY <1>8 DEF Arrive, RefuseEarly, ClaimNothing, LookupResult, MemoryClaimResult,
       ClaimLock, Validate, Release, Save
  <2> QED BY <1>1, <2>1, <2>2 DEF TypeOK
<1> QED BY <1>3, <1>4, <1>5, <1>6, <1>7, <1>8 DEF Step, Attempt

LEMMA WedgeStep ==
    ASSUME TypeOK, ChainInv, WedgeInv, [Next]_vars
    PROVE  WedgeInv'
<1>1. \A n \in Nonces : n < base' => slots'[n] # NoTx
  BY ExecutedTaken DEF WedgeInv
<1>2. ASSUME OneNetwork, StoreKind = "postgres", faults' + cancels' = 0
      PROVE  /\ \A r \in Requests :
                  /\ ctx'[r] = "live"
                  /\ pc'[r] \notin {"signFailed", "markFailed", "recordFailed"}
             /\ \A w \in Networks, n \in Nonces : chainNonces'[w][n] # "failed"
  <2>1. faults + cancels = 0 /\ faults' = 0 /\ UNCHANGED <<cancels, ctx>>
    BY <1>2, CountersGrow
  <2>2. /\ \A r \in Requests :
             ctx[r] = "live" /\ pc[r] \notin {"signFailed", "markFailed", "recordFailed"}
        /\ \A w \in Networks, n \in Nonces : chainNonces[w][n] # "failed"
    BY <1>2, <2>1 DEF WedgeInv
  <2>3. ASSUME NEW r \in Requests, Arrive(r) \/ Step(r)
        PROVE  /\ \A q \in Requests : pc'[q] \notin {"signFailed", "markFailed", "recordFailed"}
               /\ \A w \in Networks, n \in Nonces : chainNonces'[w][n] # "failed"
    BY <1>2, <2>1, <2>3, NoFailureStep
  <2>4. ASSUME NEW i \in Instances, Crash(i)
        PROVE  chainNonces' = chainNonces /\ \A r \in Requests : pc'[r] \in {pc[r], "lost"}
    BY <1>2, <2>4 DEF Crash, RestartStore, storeVars
  <2>5. ASSUME NEW i \in Instances, Monitor(i) PROVE UNCHANGED <<pc, chainNonces>>
    BY <2>5 DEF Monitor, MonitorList, MonitorCheck, MonitorHangs, MarkSignerTransactionStatus, storeVars
  <2>6. CASE UNCHANGED <<pc, chainNonces>>
    BY <2>1, <2>2, <2>6
  <2> QED BY <2>1, <2>2, <2>3, <2>4, <2>5, <2>6
          DEF Next, Disconnect, Mine, Midnight, NextDay, storeVars, vars
<1> QED BY <1>1, <1>2 DEF WedgeInv, OneNetwork, Network

\* As long as no call fails and no client disconnects, a node that is up to date
\* reports a pending nonce for which ReserveChainNonce finds a free row, however
\* many instances reserve, crash and leave reserved rows behind: only a nonce
\* that was given up as failed wedges the wallet.
THEOREM ReservationsPossible ==
    ASSUME OneNetwork
    PROVE  Spec => [](faults + cancels = 0 => ReservationPossible)
<1>1. Init => WedgeInv
  BY DEF Init, StoreInit, WedgeInv, Nonces
<1>2. TypeOK /\ WedgeInv => (faults + cancels = 0 => ReservationPossible)
  <2> SUFFICES ASSUME TypeOK, WedgeInv, faults + cancels = 0, StoreKind = "postgres",
                      NEW w \in Networks, NEW p \in Nonces, NEW n \in Nonces,
                      IsNextNonce(w, p, n)
               PROVE  chainNonces[w][n] = "none"
    BY DEF ReservationPossible, NonceRowFree
  <2>1. chainNonces[w][n] \notin {"reserved", "submitted"}
    BY DEF IsNextNonce, ActiveNonces, Nonces
  <2>2. chainNonces[w][n] # "failed"
    BY DEF WedgeInv
  <2>3. chainNonces[w][n] \in RowStatus
    BY DEF TypeOK, StoreTypeOK
  <2> QED BY <2>1, <2>2, <2>3 DEF RowStatus
<1> QED BY <1>1, <1>2, WedgeStep, TypeCorrect, ChainInductive, PTL DEF Spec
=============================================================================
