-------------------------- MODULE IdempotencyProofs --------------------------
(***************************************************************************)
(* What a client may rely on when it sends an idempotency key several      *)
(* times: proofs of StoredAnswerStays, SameAnswer and SingleSend, and that *)
(* the pipeline implements IdempotentSigner.                               *)
(*                                                                         *)
(* None of this is true of overlapping tries over Postgres, where a lookup *)
(* and the claim that follows it are two statements.  NoRace names the     *)
(* two cases in which it is: the memory store, which does both under its   *)
(* mutex, and clients that do not overlap their tries.                     *)
(***************************************************************************)
EXTENDS SigningPipelineProofs, PipelineRefinement

NoRace == StoreKind = "memory" \/ ~Overlap

-----------------------------------------------------------------------------
(***************************************************************************)
(* What a step does to the state a key depends on, whichever action it is. *)
(***************************************************************************)

\* A request that is past its arrival and has not ended.
Active == Executing \cup {"claim"}

\* A node has acknowledged the transaction of the current attempt.
Sent == {"markSubmitted", "record", "save"}

attemptVars == <<attempt, nonce>>

\* Nothing that concerns a key.
Quiet == UNCHANGED <<results, locks, answer, accepted, attemptVars, pc, crashes>>

\* An error before the execution; an INSERT whose acknowledgement was lost
\* leaves the lock row behind.
Refused(r) ==
    /\ pc[r] \in {"new", "claim"}
    /\ \E code \in {"refused", "409", "503"} : Reply(r, code, NoTx)
    /\ locks \subseteq locks'
    /\ UNCHANGED <<results, accepted, attemptVars, crashes>>

\* The stored answer is found.
Replayed(r) ==
    /\ pc[r] = "new" /\ KeyOf(r) # NoKey /\ results[KeyOf(r)] # NoTx
    /\ Reply(r, "200", results[KeyOf(r)])
    /\ UNCHANGED <<results, locks, accepted, attemptVars, crashes>>

\* No stored answer is found, by the first statement of Postgres.
Looked(r) ==
    /\ pc[r] = "new" /\ MayArrive(r)
    /\ StoreKind = "postgres" /\ KeyOf(r) # NoKey /\ results[KeyOf(r)] = NoTx
    /\ Goto(r, "claim")
    /\ UNCHANGED <<results, locks, answer, accepted, attemptVars, crashes>>

Claimed(r) ==
    /\ \/ pc[r] = "claim"
       \/ /\ pc[r] = "new" /\ MayArrive(r)
          /\ KeyOf(r) # NoKey => StoreKind = "memory" /\ results[KeyOf(r)] = NoTx
    /\ KeyOf(r) # NoKey => KeyOf(r) \notin locks /\ KeyOf(r) \in locks'
    /\ locks \subseteq locks'
    /\ Goto(r, "validate")
    /\ UNCHANGED <<results, answer, accepted, attemptVars, crashes>>

\* A step of the execution that acknowledges nothing.
Worked(r) ==
    /\ pc[r] \in Executing
    /\ \E label \in Executing :
         /\ Goto(r, label)
         /\ pc[r] \in Sent <=> label \in Sent
         /\ label \in Sent => UNCHANGED attemptVars
    /\ \A q \in Requests \ {r} : attempt'[q] = attempt[q] /\ nonce'[q] = nonce[q]
    /\ UNCHANGED <<results, locks, answer, accepted, crashes>>

\* A node takes the transaction, and says so or not.
Broadcasts(r) ==
    /\ pc[r] = "send"
    /\ \E acked \in BOOLEAN :
         /\ LogBroadcast(r, acked)
         /\ Goto(r, IF acked THEN "markSubmitted" ELSE "markFailed")
    /\ UNCHANGED <<results, locks, answer, attemptVars, crashes>>

Released(r) ==
    /\ pc[r] = "release"
    /\ locks \ {KeyOf(r)} \subseteq locks'
    /\ Reply(r, "502", NoTx)
    /\ UNCHANGED <<results, accepted, attemptVars, crashes>>

\* The answer is stored, and the client told or not.
Stored(r) ==
    /\ pc[r] = "save"
    /\ SaveResult(KeyOf(r), TxOf(r))
    /\ Reply(r, "200", TxOf(r)) \/ Reply(r, "503", NoTx)
    /\ UNCHANGED <<accepted, attemptVars, crashes>>

\* The answer is not stored, and the lock row stays.
Unstored(r) ==
    /\ pc[r] = "save" /\ Reply(r, "503", NoTx)
    /\ UNCHANGED <<results, locks, accepted, attemptVars, crashes>>

\* An instance over Postgres crashes.
Crashed ==
    /\ \A q \in Requests : pc'[q] = pc[q] \/ (pc[q] \in Active /\ pc'[q] = "lost")
    /\ StoreKind = "postgres"
    /\ UNCHANGED <<results, locks, answer, accepted, attemptVars>>

Concerns(r) ==
    \/ Refused(r) \/ Replayed(r) \/ Looked(r) \/ Claimed(r) \/ Worked(r)
    \/ Broadcasts(r) \/ Released(r) \/ Stored(r) \/ Unstored(r)

LEMMA ArriveShape ==
    ASSUME TypeOK, NEW r \in Requests, Arrive(r)
    PROVE  Concerns(r)
<1> USE DEF attemptVars, localVars, history, storeVars, Concerns
<1>1. CASE RefuseEarly(r)
  BY <1>1 DEF RefuseEarly, Refused
<1>2. CASE ClaimNothing(r)
  BY <1>2 DEF ClaimNothing, Claimed
<1>3. CASE LookupResult(r)
  <2>1. KeyOf(r) # NoKey /\ GetResult(KeyOf(r)) = results[KeyOf(r)]
    BY <1>3 DEF LookupResult, GetResult
  <2> QED BY <1>3, <2>1 DEF LookupResult, Refused, Replayed, Looked
<1>4. CASE MemoryClaimResult(r)
  <2>1. KeyOf(r) # NoKey /\ GetResult(KeyOf(r)) = results[KeyOf(r)]
    BY <1>4 DEF MemoryClaimResult, GetResult
  <2>2. UNCHANGED <<accepted, attemptVars, crashes>>
    BY <1>4 DEF MemoryClaimResult
  <2>3. CASE GetResult(KeyOf(r)) # NoTx
    BY <1>4, <2>1, <2>3 DEF MemoryClaimResult, Replayed
  <2>4. CASE GetResult(KeyOf(r)) = NoTx /\ ~Claimable(KeyOf(r))
    BY <1>4, <2>1, <2>4 DEF MemoryClaimResult, Refused
  <2>5. CASE GetResult(KeyOf(r)) = NoTx /\ Claimable(KeyOf(r))
    BY <1>4, <2>1, <2>5 DEF MemoryClaimResult, Claimed, Claimable, InsertLock
  <2> QED BY <2>3, <2>4, <2>5
<1> QED BY <1>1, <1>2, <1>3, <1>4 DEF Arrive

LEMMA HandlerShape ==
    ASSUME TypeOK, NEW r \in Requests,
           ClaimLock(r) \/ Validate(r) \/ Release(r) \/ Save(r)
    PROVE  Concerns(r) \/ Quiet
<1> USE DEF attemptVars, localVars, history, storeVars, Concerns
<1>1. CASE ClaimLock(r)
  <2>1. CASE Reply(r, "503", NoTx) \/ Reply(r, "409", NoTx)
    BY <1>1, <2>1 DEF ClaimLock, Refused, Perform, InsertLock
  <2>2. CASE ~(Reply(r, "503", NoTx) \/ Reply(r, "409", NoTx))
    <3>1. /\ Claimable(KeyOf(r)) /\ Goto(r, "validate") /\ UNCHANGED answer
          /\ InsertLock(KeyOf(r))
      BY <1>1, <2>2 DEF ClaimLock, Perform
    <3> QED BY <1>1, <3>1 DEF ClaimLock, Claimed, Claimable, InsertLock
  <2> QED BY <2>1, <2>2
<1>2. CASE Validate(r)
  <2>1. /\ pc[r] = "validate"
        /\ Goto(r, "dial") \/ Goto(r, "release")
        /\ \A q \in Requests \ {r} : attempt'[q] = attempt[q]
        /\ UNCHANGED <<results, locks, answer, accepted, nonce, crashes>>
    BY <1>2 DEF Validate, TypeOK
  <2> QED BY <2>1 DEF Worked, Executing, Sent
<1>3. CASE Release(r)
  BY <1>3 DEF Release, Released, Perform, ReleaseClaim
<1>4. CASE Save(r)
  <2>1. PICK o \in Outcomes :
          /\ Perform(SaveResult(KeyOf(r), TxOf(r)), o)
          /\ IF o = "ok" THEN Reply(r, "200", TxOf(r)) ELSE Reply(r, "503", NoTx)
    BY <1>4 DEF Save
  <2>2. pc[r] = "save" /\ UNCHANGED <<accepted, attemptVars, crashes>>
    BY <1>4 DEF Save
  <2>3. CASE o = "failed"
    BY <2>1, <2>2, <2>3 DEF Perform, Unstored
  <2>4. CASE o # "failed"
    BY <2>1, <2>2, <2>4 DEF Perform, Stored
  <2> QED BY <2>3, <2>4
<1> QED BY <1>1, <1>2, <1>3, <1>4

LEMMA AttemptShape ==
    ASSUME TypeOK, NEW r \in Requests, Attempt(r)
    PROVE  Concerns(r)
<1> USE DEF attemptVars, localVars, history, Concerns
<1>1. locks' = locks
  BY AttemptFrame
<1>2. UNCHANGED <<results, answer, crashes>>
  <2> USE DEF Perform, storeVars, SetNonceRow
  <2>1. CASE Dial(r) \/ Reserve(r) \/ Build(r) \/ Send(r)
    BY <2>1 DEF Dial, Reserve, Build, Send, InsertNonceRow
  <2>2. CASE MarkSubmitted(r) \/ MarkFailed(r) \/ SignFailed(r)
    BY <2>2 DEF MarkSubmitted, MarkFailed, SignFailed, MarkChainNonceSubmitted,
                MarkChainNonceFailed, MemoryMarkChainNonce
  <2>3. CASE Record(r) \/ RecordFailed(r)
    BY <2>3 DEF Record, RecordFailed, CreateSignerTransaction,
                PostgresCreateSignerTransaction, MemoryCreateSignerTransaction
  <2> QED BY <2>1, <2>2, <2>3 DEF Attempt
<1>3. \A q \in Requests \ {r} : attempt'[q] = attempt[q] /\ nonce'[q] = nonce[q]
  BY DEF Attempt, Dial, Reserve, Build, SignFailed, Send, MarkSubmitted, Record,
         MarkFailed, RecordFailed, FailAttempt, TypeOK
<1>4. ASSUME pc[r] \in Executing \ Sent, UNCHANGED accepted,
             NEW label \in Executing \ Sent, Goto(r, label)
      PROVE  Worked(r)
  BY <1>1, <1>2, <1>3, <1>4 DEF Worked
<1>5. CASE Dial(r) \/ Reserve(r) \/ Build(r)
  <2>1. pc[r] \in Executing \ Sent /\ UNCHANGED accepted
    BY <1>5 DEF Dial, Reserve, Build, Executing, Sent
  <2>2. \E label \in {"dial", "reserve", "build", "signFailed", "send", "release"} :
           Goto(r, label)
    BY <1>5 DEF Dial, Reserve, Build, FailAttempt
  <2> QED BY <1>4, <2>1, <2>2 DEF Executing, Sent
<1>6. CASE MarkFailed(r) \/ RecordFailed(r) \/ SignFailed(r)
  <2>1. pc[r] \in Executing \ Sent /\ UNCHANGED accepted
    BY <1>6 DEF MarkFailed, RecordFailed, SignFailed, Executing, Sent
  <2>2. \E label \in {"recordFailed", "dial", "release"} : Goto(r, label)
    BY <1>6 DEF MarkFailed, RecordFailed, SignFailed, FailAttempt
  <2> QED BY <1>4, <2>1, <2>2 DEF Executing, Sent
<1>7. CASE MarkSubmitted(r) \/ Record(r)
  <2>1. /\ pc[r] \in {"markSubmitted", "record"}
        /\ \E label \in {"record", "save"} : Goto(r, label)
        /\ UNCHANGED <<accepted, attemptVars>>
    BY <1>7 DEF MarkSubmitted, Record
  <2> QED BY <1>1, <1>2, <2>1 DEF Worked, Executing, Sent
<1>8. CASE Send(r)
  <2>1. pc[r] = "send" /\ UNCHANGED attemptVars
    BY <1>8 DEF Send
  <2>2. \/ Goto(r, "markFailed") /\ UNCHANGED accepted
        \/ LogBroadcast(r, TRUE) /\ Goto(r, "markSubmitted")
        \/ LogBroadcast(r, FALSE) /\ Goto(r, "markFailed")
    BY <1>8 DEF Send, Outcomes
  <2>3. CASE Goto(r, "markFailed") /\ UNCHANGED accepted
    BY <1>4, <2>1, <2>3 DEF Executing, Sent
  <2>4. CASE ~(Goto(r, "markFailed") /\ UNCHANGED accepted)
    BY <1>1, <1>2, <2>1, <2>2, <2>4 DEF Broadcasts
  <2> QED BY <2>3, <2>4
<1> QED BY <1>5, <1>6, <1>7, <1>8 DEF Attempt

LEMMA OtherShape ==
    ASSUME TypeOK,
           \/ \E r \in Requests : Disconnect(r)
           \/ \E i \in Instances : Monitor(i) \/ Crash(i)
           \/ Mine
           \/ Midnight
           \/ UNCHANGED vars
    PROVE  Quiet \/ Crashed \/ ~StoreSurvives'
<1> USE DEF attemptVars, localVars, history, storeVars
<1>1. ASSUME NEW i \in Instances, Crash(i) PROVE Crashed \/ ~StoreSurvives'
  <2>1. \A q \in Requests : pc'[q] = pc[q] \/ (pc[q] \in Active /\ pc'[q] = "lost")
    <3> TAKE q \in Requests
    <3>1. pc'[q] = IF Req[q].host = i /\ pc[q] \notin {"new", "done"}
                   THEN "lost" ELSE pc[q]
      BY <1>1 DEF Crash
    <3>2. pc[q] \in Labels
      BY DEF TypeOK
    <3> QED BY <3>1, <3>2 DEF Labels, Active
  <2>2. CASE StoreKind = "postgres"
    BY <1>1, <2>1, <2>2 DEF Crash, RestartStore, Crashed
  <2>3. CASE StoreKind = "memory"
    BY <1>1, <2>3 DEF Crash, StoreSurvives, TypeOK
  <2> QED BY <2>2, <2>3, StoreAssumption
<1>2. CASE ~\E i \in Instances : Crash(i)
  BY <1>2 DEF Disconnect, Monitor, MonitorList, MonitorCheck, MonitorHangs, Mine, Midnight,
              NextDay, MarkSignerTransactionStatus, vars, Quiet
<1> QED BY <1>1, <1>2

\* The number of crashes only grows.
LEMMA CrashesGrow ==
    ASSUME TypeOK, [Next]_vars
    PROVE  crashes' \in Nat /\ crashes <= crashes'
<1>1. crashes \in Nat
  BY PipelineAssumption DEF TypeOK
<1>2. ASSUME NEW r \in Requests, Arrive(r) \/ Step(r) \/ Disconnect(r)
      PROVE  crashes' = crashes
  BY <1>2, AttemptShape
  DEF Arrive, RefuseEarly, ClaimNothing, LookupResult, MemoryClaimResult, Step,
      ClaimLock, Validate, Release, Save, Disconnect, Concerns, Refused, Replayed,
      Looked, Claimed, Worked, Broadcasts, Released, Stored, Unstored
<1>3. CASE UNCHANGED vars \/ Mine \/ Midnight
  BY <1>1, <1>3 DEF vars, Mine, Midnight
<1>4. ASSUME NEW i \in Instances, Monitor(i) \/ Crash(i)
      PROVE  crashes' = crashes \/ crashes' = crashes + 1
  BY <1>4 DEF Monitor, MonitorList, MonitorCheck, MonitorHangs, Crash
<1> QED BY <1>1, <1>2, <1>3, <1>4 DEF Next

\* Every step that the store survives is one of the above.
LEMMA StepShape ==
    ASSUME TypeOK, [Next]_vars, StoreSurvives'
    PROVE  \/ Quiet
           \/ Crashed
           \/ \E r \in Requests : Concerns(r)
  BY ArriveShape, HandlerShape, AttemptShape, OtherShape DEF Next, Step

-----------------------------------------------------------------------------
(***************************************************************************)
(* The inductive invariant.  A handler that acts on a key does so because  *)
(* the key had no stored answer when it looked; without a race it has none *)
(* as long as the handler is at work (Unanswered), which is why a memory   *)
(* SaveResult overwrites nothing and a second claim finds nothing to       *)
(* repeat.  Once a node has acknowledged a transaction of a key, the only  *)
(* handler that executes the key is on its way to save that answer, and    *)
(* until it is stored the lock row keeps every other one out (Settled): a  *)
(* save that fails, or a crash on the way to it, leaves the row for good.  *)
(***************************************************************************)

\* Two tries of a key that do not overlap are not both at work.
TriesApart ==
    /\ ~Overlap =>
         \A r, q \in Requests :
            pc[r] \in Active /\ pc[q] \in Active /\ KeyOf(r) = KeyOf(q) => r = q
    /\ StoreKind = "memory" => \A r \in Requests : pc[r] # "claim"

Unanswered ==
    \A r \in Requests :
        pc[r] \in Active /\ KeyOf(r) # NoKey => results[KeyOf(r)] = NoTx

Settled ==
    \A s \in accepted :
        s.acked /\ KeyOf(s.req) # NoKey =>
            /\ KeyOf(s.req) \in locks \/ results[KeyOf(s.req)] # NoTx
            /\ \A q \in Requests :
                 pc[q] \in Executing /\ KeyOf(q) = KeyOf(s.req) =>
                    /\ q = s.req /\ pc[q] \in Sent
                    /\ s.attempt = attempt[q] /\ s.nonce = nonce[q]

\* What is reported or stored as sent was acknowledged by a node.
Acknowledged(r) ==
    \E s \in accepted :
        s.acked /\ s.req = r /\ s.attempt = attempt[r] /\ s.nonce = nonce[r]

SentIsAcknowledged == \A r \in Requests : pc[r] \in Sent => Acknowledged(r)

ResultsAcknowledged ==
    \A k \in Keys : results[k] # NoTx => results[k] \in SentFor(k)

AnsweredWhenDone ==
    \A r \in Requests :
        /\ pc[r] # "done" => answer[r].code = "none"
        /\ answer[r].code = "200" => answer[r].tx # NoTx

IdempotencyInv ==
    NoRace /\ StoreSurvives =>
        /\ TriesApart /\ Unanswered /\ Settled
        /\ SentIsAcknowledged /\ ResultsAcknowledged
        /\ SingleSend /\ SameAnswer /\ AnsweredWhenDone

\* A step of a request leaves the other requests alone.
LEMMA OthersFrame ==
    ASSUME TypeOK, NEW r \in Requests, Concerns(r)
    PROVE  /\ \A q \in Requests \ {r} :
                /\ pc'[q] = pc[q]
                /\ answer'[q] = answer[q]
                /\ attempt'[q] = attempt[q]
                /\ nonce'[q] = nonce[q]
           /\ crashes' = crashes
  BY DEF Concerns, Refused, Replayed, Looked, Claimed, Worked, Broadcasts,
         Released, Stored, Unstored, Reply, Goto, TypeOK, attemptVars

LEMMA ApartStep ==
    ASSUME TypeOK, TriesApart, NEW r \in Requests, Concerns(r)
    PROVE  TriesApart'
<1>1. pc'[r] \in Active => pc[r] \in Active \/ MayArrive(r)
  BY DEF Concerns, Refused, Replayed, Looked, Claimed, Worked, Broadcasts,
         Released, Stored, Unstored, Reply, Goto, TypeOK, Active, Executing
<1>2. pc'[r] = "claim" => StoreKind = "postgres"
  BY DEF Concerns, Refused, Replayed, Looked, Claimed, Worked, Broadcasts,
         Released, Stored, Unstored, Reply, Goto, TypeOK, Executing
<1>3. ASSUME ~Overlap, NEW q \in Requests \ {r},
             pc'[r] \in Active, pc'[q] \in Active, KeyOf(q) = KeyOf(r)
      PROVE  FALSE
  <2>1. pc[q] \in Active
    BY <1>3, OthersFrame
  <2>2. CASE pc[r] \in Active
    BY <1>3, <2>1, <2>2 DEF TriesApart
  <2>3. CASE MayArrive(r)
    BY <1>3, <2>1, <2>3 DEF MayArrive, Active, Executing
  <2> QED BY <1>1, <1>3, <2>2, <2>3
<1>4. ASSUME ~Overlap, NEW p \in Requests, NEW q \in Requests,
             pc'[p] \in Active, pc'[q] \in Active, KeyOf(p) = KeyOf(q)
      PROVE  p = q
  <2>1. CASE p = r \/ q = r
    BY <1>3, <1>4, <2>1
  <2>2. CASE p # r /\ q # r
    BY <1>4, <2>2, OthersFrame DEF TriesApart
  <2> QED BY <2>1, <2>2
<1>5. StoreKind = "memory" => \A q \in Requests : pc'[q] # "claim"
  BY <1>2, OthersFrame DEF TriesApart
<1> QED BY <1>4, <1>5 DEF TriesApart, KeyOf

\* No two handlers that act on the same key.
LEMMA ActiveAlone ==
    ASSUME NoRace, ClaimExclusive, TriesApart,
           NEW r \in Requests, NEW q \in Requests,
           pc[r] \in Active, pc[q] \in Active,
           KeyOf(r) = KeyOf(q), KeyOf(r) # NoKey
    PROVE  r = q
  BY DEF NoRace, ClaimExclusive, TriesApart, Active

\* A stored answer appears where a handler saves its own.
LEMMA ResultsChange ==
    ASSUME TypeOK, NEW r \in Requests, Concerns(r), NEW k \in Keys,
           results'[k] # results[k]
    PROVE  Stored(r) /\ k = KeyOf(r) /\ results'[k] = TxOf(r)
<1>1. Stored(r)
  BY DEF Concerns, Refused, Replayed, Looked, Claimed, Worked, Broadcasts,
         Released, Unstored
<1> QED BY <1>1 DEF Stored, SaveResult, PostgresSaveResult, MemorySaveResult,
                    TypeOK, StoreTypeOK

LEMMA UnansweredStep ==
    ASSUME TypeOK, NoRace, ClaimExclusive, TriesApart, Unanswered,
           NEW r \in Requests, Concerns(r)
    PROVE  Unanswered'
<1> SUFFICES ASSUME NEW q \in Requests, pc'[q] \in Active, KeyOf(q) # NoKey
             PROVE  results'[KeyOf(q)] = NoTx
  BY DEF Unanswered, KeyOf
<1>1. KeyOf(q) \in Keys
  BY RequestFacts
<1>2. results[KeyOf(q)] = NoTx
  <2>1. CASE pc[q] \in Active
    BY <2>1 DEF Unanswered
  <2>2. CASE pc[q] \notin Active
    <3>1. q = r
      BY <2>2, OthersFrame
    <3> QED
      BY <2>2, <3>1 DEF Concerns, Refused, Replayed, Looked, Claimed, Worked,
         Broadcasts, Released, Stored, Unstored, Reply, Goto, TypeOK, Active,
         Executing
  <2> QED BY <2>1, <2>2
<1>3. ASSUME results'[KeyOf(q)] # results[KeyOf(q)] PROVE FALSE
  <2>1. Stored(r) /\ KeyOf(q) = KeyOf(r)
    BY <1>1, <1>3, ResultsChange
  <2>2. pc[r] \in Active /\ pc'[r] \notin Active
    BY <2>1 DEF Stored, Reply, Goto, TypeOK, Active, Executing
  <2>3. q # r /\ pc[q] \in Active
    BY <2>2, OthersFrame
  <2> QED BY <2>1, <2>2, <2>3, ActiveAlone
<1> QED BY <1>2, <1>3

\* A broadcast appears where a handler sends.
LEMMA AcceptedChange ==
    ASSUME TypeOK, NEW r \in Requests, Concerns(r), accepted' # accepted
    PROVE  Broadcasts(r)
  BY DEF Concerns, Refused, Replayed, Looked, Claimed, Worked, Released, Stored,
         Unstored

\* A lock row goes where a handler that executes ends.
LEMMA LockGoes ==
    ASSUME TypeOK, NEW r \in Requests, Concerns(r), NEW k \in locks, k \notin locks'
    PROVE  k = KeyOf(r) /\ (Released(r) \/ Stored(r))
  BY DEF Concerns, Refused, Replayed, Looked, Claimed, Worked, Broadcasts,
         Released, Stored, Unstored, SaveResult, PostgresSaveResult,
         MemorySaveResult

\* What a broadcast adds.
LEMMA BroadcastAdds ==
    ASSUME TypeOK, NEW r \in Requests, Broadcasts(r), NEW s \in accepted',
           s \notin accepted
    PROVE  /\ s = [req |-> r, attempt |-> attempt[r], nonce |-> nonce[r],
                   acked |-> s.acked]
           /\ s.acked => pc'[r] = "markSubmitted"
           /\ attempt' = attempt /\ nonce' = nonce /\ locks' = locks
  BY DEF Broadcasts, LogBroadcast, Goto, attemptVars, TypeOK

LEMMA SettledStep ==
    ASSUME TypeOK, NoRace, ClaimExclusive, Unanswered, Settled,
           NEW r \in Requests, Concerns(r)
    PROVE  Settled'
<1> SUFFICES ASSUME NEW s \in accepted', s.acked, KeyOf(s.req) # NoKey
             PROVE  /\ KeyOf(s.req) \in locks' \/ results'[KeyOf(s.req)] # NoTx
                    /\ \A q \in Requests :
                         pc'[q] \in Executing /\ KeyOf(q) = KeyOf(s.req) =>
                            /\ q = s.req
                            /\ pc'[q] \in Sent
                            /\ s.attempt = attempt'[q] /\ s.nonce = nonce'[q]
  BY DEF Settled, KeyOf
<1> DEFINE k == KeyOf(s.req)
<1>1. CASE s \in accepted
  <2>1. s.req \in Requests /\ k \in Keys
    BY <1>1, RequestFacts DEF TypeOK, Broadcast
  <2>2. k \in locks \/ results[k] # NoTx
    BY <1>1 DEF Settled
  <2>3. \A q \in Requests :
           pc[q] \in Executing /\ KeyOf(q) = k =>
              /\ q = s.req
              /\ pc[q] \in Sent
              /\ s.attempt = attempt[q] /\ s.nonce = nonce[q]
    BY <1>1 DEF Settled
  <2>4. Stored(r) /\ KeyOf(r) = k => results'[k] # NoTx
    <3>1. TxOf(r) # NoTx
      BY TxType, NoTxAssumption
    <3> QED BY <2>1, <3>1, StoreAssumption DEF Stored, SaveResult,
               PostgresSaveResult, MemorySaveResult, TypeOK, StoreTypeOK
  <2>5. k \in locks' \/ results'[k] # NoTx
    <3>1. CASE k \in locks /\ k \notin locks'
      <4>1. KeyOf(r) = k /\ (Released(r) \/ Stored(r))
        BY <3>1, LockGoes
      <4>2. ~Released(r)
        BY <4>1, <2>3 DEF Released, Executing, Sent
      <4> QED BY <2>4, <4>1, <4>2
    <3>2. CASE results[k] # NoTx
      BY <2>1, <2>4, <3>2, ResultsChange
    <3> QED BY <2>2, <3>1, <3>2
  <2>6. ASSUME pc'[r] \in Executing, KeyOf(r) = k
        PROVE  /\ r = s.req
               /\ pc'[r] \in Sent
               /\ s.attempt = attempt'[r] /\ s.nonce = nonce'[r]
    <3>1. Claimed(r) \/ Worked(r) \/ Broadcasts(r)
      BY <2>6 DEF Concerns, Refused, Replayed, Looked, Released, Stored,
         Unstored, Reply, Goto, Executing, TypeOK
    <3>2. ~Claimed(r)
      BY <2>2, <2>6 DEF Claimed, Unanswered, Active
    <3>3. ~Broadcasts(r)
      BY <2>3, <2>6 DEF Broadcasts, Executing, Sent
    <3>4. r = s.req /\ pc[r] \in Sent
      BY <2>3, <2>6, <3>1, <3>2, <3>3 DEF Worked
    <3>5. pc'[r] \in Sent /\ attempt' = attempt /\ nonce' = nonce
      BY <3>1, <3>2, <3>3, <3>4 DEF Worked, Goto, TypeOK, attemptVars
    <3>6. pc[r] \in Executing
      BY <3>4 DEF Sent, Executing
    <3> QED BY <2>3, <2>6, <3>4, <3>5, <3>6
  <2>7. ASSUME NEW q \in Requests \ {r}, pc'[q] \in Executing, KeyOf(q) = k
        PROVE  /\ q = s.req
               /\ pc'[q] \in Sent
               /\ s.attempt = attempt'[q] /\ s.nonce = nonce'[q]
    BY <2>3, <2>7, OthersFrame
  <2> QED BY <2>5, <2>6, <2>7
<1>2. CASE s \notin accepted
  <2>1. Broadcasts(r)
    BY <1>2, AcceptedChange
  <2>2. /\ s.req = r /\ s.attempt = attempt'[r] /\ s.nonce = nonce'[r]
        /\ pc'[r] = "markSubmitted" /\ locks' = locks
    BY <1>2, <2>1, BroadcastAdds
  <2>3. pc[r] \in Executing
    BY <2>1 DEF Broadcasts, Executing
  <2>4. k \in locks'
    BY <2>2, <2>3 DEF ClaimExclusive
  <2>5. ASSUME NEW q \in Requests, pc'[q] \in Executing, KeyOf(q) = k
        PROVE  q = r
    BY <2>2, <2>3, <2>5, OthersFrame DEF ClaimExclusive
  <2> QED BY <2>2, <2>4, <2>5 DEF Sent
<1> QED BY <1>1, <1>2

LEMMA SingleSendStep ==
    ASSUME TypeOK, StoreSurvives, Settled, SingleSend, NEW r \in Requests, Concerns(r)
    PROVE  SingleSend'
<1>1. ASSUME NEW s \in accepted', NEW t \in accepted', s.acked, t.acked,
             KeyOf(s.req) = KeyOf(t.req), KeyOf(s.req) # NoKey,
             s \notin accepted, t \in accepted
      PROVE  FALSE
  <2>1. Broadcasts(r) /\ s.req = r
    BY <1>1, AcceptedChange, BroadcastAdds
  <2>2. pc[r] \in Executing \ Sent
    BY <2>1 DEF Broadcasts, Executing, Sent
  <2> QED BY <1>1, <2>1, <2>2 DEF Settled
<1>2. ASSUME NEW s \in accepted', NEW t \in accepted',
             s \notin accepted, t \notin accepted, s.acked, t.acked
      PROVE  s = t
  <2>1. Broadcasts(r)
    BY <1>2, AcceptedChange
  <2> QED BY <1>2, <2>1 DEF Broadcasts, LogBroadcast
<1>3. ASSUME NEW s \in accepted', NEW t \in accepted', s.acked, t.acked,
             KeyOf(s.req) = KeyOf(t.req), KeyOf(s.req) # NoKey
      PROVE  s = t
  BY <1>1, <1>2, <1>3 DEF SingleSend
<1> QED BY <1>3 DEF SingleSend, KeyOf

LEMMA AcknowledgedStep ==
    ASSUME TypeOK, SentIsAcknowledged, ResultsAcknowledged,
           NEW r \in Requests, Concerns(r)
    PROVE  SentIsAcknowledged' /\ ResultsAcknowledged'
<1>1. accepted \subseteq accepted'
  BY AcceptedChange DEF Broadcasts, LogBroadcast
<1>2. ASSUME NEW q \in Requests, pc'[q] \in Sent PROVE Acknowledged(q)'
  <2>1. CASE q = r
    <3>1. Worked(r) \/ Broadcasts(r)
      BY <1>2, <2>1 DEF Concerns, Refused, Replayed, Looked, Claimed, Released,
         Stored, Unstored, Reply, Goto, Sent, TypeOK
    <3>2. CASE Worked(r)
      <4>1. pc[r] \in Sent /\ attempt' = attempt /\ nonce' = nonce
        BY <1>2, <2>1, <3>2 DEF Worked, Goto, TypeOK, attemptVars
      <4> QED BY <1>1, <2>1, <4>1 DEF SentIsAcknowledged, Acknowledged
    <3>3. CASE Broadcasts(r)
      <4>1. LogBroadcast(r, TRUE) /\ attempt' = attempt /\ nonce' = nonce
        BY <1>2, <2>1, <3>3 DEF Broadcasts, Goto, TypeOK, attemptVars, Sent
      <4> DEFINE s == [req |-> r, attempt |-> attempt[r], nonce |-> nonce[r],
                       acked |-> TRUE]
      <4>2. s \in accepted'
        BY <4>1 DEF LogBroadcast
      <4>3. s.acked /\ s.req = r /\ s.attempt = attempt[r] /\ s.nonce = nonce[r]
        OBVIOUS
      <4> HIDE DEF s
      <4> QED BY <2>1, <4>1, <4>2, <4>3 DEF Acknowledged
    <3> QED BY <3>1, <3>2, <3>3
  <2>2. CASE q # r
    BY <1>1, <1>2, <2>2, OthersFrame DEF SentIsAcknowledged, Acknowledged
  <2> QED BY <2>1, <2>2
<1>3. ASSUME NEW k \in Keys, results'[k] # NoTx PROVE results'[k] \in SentFor(k)'
  <2>1. SentFor(k) \subseteq SentFor(k)'
    BY <1>1 DEF SentFor, KeyOf
  <2>2. CASE results'[k] = results[k]
    BY <1>3, <2>1, <2>2 DEF ResultsAcknowledged
  <2>3. CASE results'[k] # results[k]
    <3>1. Stored(r) /\ k = KeyOf(r) /\ results'[k] = TxOf(r)
      BY <2>3, ResultsChange
    <3>2. Acknowledged(r)
      BY <3>1 DEF Stored, Sent, SentIsAcknowledged
    <3>3. TxOf(r) \in SentFor(k)
      BY <3>1, <3>2 DEF Acknowledged, SentFor, TxOf
    <3> QED BY <2>1, <3>1, <3>3
  <2> QED BY <2>2, <2>3
<1> QED BY <1>2, <1>3 DEF SentIsAcknowledged, ResultsAcknowledged

LEMMA AnswerStep ==
    ASSUME TypeOK, StoreSurvives, Unanswered, SameAnswer, AnsweredWhenDone,
           NEW r \in Requests, Concerns(r)
    PROVE  SameAnswer' /\ AnsweredWhenDone'
<1>1. /\ pc'[r] # "done" => answer'[r] = answer[r] /\ pc[r] # "done"
      /\ pc'[r] = "done" =>
           \/ answer'[r].code # "200"
           \/ Replayed(r)
           \/ Stored(r) /\ answer'[r].tx = TxOf(r)
  BY DEF Concerns, Refused, Replayed, Looked, Claimed, Worked, Broadcasts,
         Released, Stored, Unstored, Reply, Goto, TypeOK, Executing
<1>2. ASSUME NEW q \in Requests
      PROVE  /\ pc'[q] # "done" => answer'[q].code = "none"
             /\ answer'[q].code = "200" => answer'[q].tx # NoTx
  <2>1. CASE q # r
    BY <2>1, OthersFrame DEF AnsweredWhenDone
  <2>2. CASE q = r
    <3>1. Replayed(r) => answer'[r].tx # NoTx
      BY DEF Replayed, Reply, TypeOK
    <3>2. TxOf(r) # NoTx
      BY TxType, NoTxAssumption
    <3> QED BY <1>1, <2>2, <3>1, <3>2 DEF AnsweredWhenDone
  <2> QED BY <2>1, <2>2
<1>3. ASSUME NEW q \in Requests, answer'[q].code = "200", KeyOf(q) # NoKey
      PROVE  results'[KeyOf(q)] = answer'[q].tx
  <2>1. KeyOf(q) \in Keys
    BY <1>3, RequestFacts
  <2>2. CASE answer'[q] = answer[q]
    <3>1. results[KeyOf(q)] = answer[q].tx /\ answer[q].tx # NoTx
      BY <1>3, <2>2 DEF SameAnswer, AnsweredWhenDone
    <3>2. ASSUME results'[KeyOf(q)] # results[KeyOf(q)] PROVE FALSE
      <4>1. Stored(r) /\ KeyOf(q) = KeyOf(r)
        BY <2>1, <3>2, ResultsChange
      <4>2. results[KeyOf(r)] = NoTx
        BY <1>3, <4>1 DEF Stored, Unanswered, Active, Executing
      <4> QED BY <3>1, <4>1, <4>2
    <3> QED BY <2>2, <3>1, <3>2
  <2>3. CASE answer'[q] # answer[q]
    <3>1. q = r /\ (Replayed(r) \/ (Stored(r) /\ answer'[r].tx = TxOf(r)))
      BY <1>1, <1>3, <2>3, OthersFrame
    <3>2. CASE Replayed(r)
      BY <3>1, <3>2 DEF Replayed, Reply, TypeOK
    <3>3. CASE Stored(r) /\ answer'[r].tx = TxOf(r)
      <4>1. results[KeyOf(r)] = NoTx
        BY <1>3, <3>1, <3>3 DEF Stored, Unanswered, Active, Executing
      <4> QED BY <1>3, <2>1, <3>1, <3>3, <4>1 DEF Stored, SaveResult,
              PostgresSaveResult, MemorySaveResult, TypeOK, StoreTypeOK
    <3> QED BY <3>1, <3>2, <3>3
  <2> QED BY <2>2, <2>3
<1> QED BY <1>2, <1>3 DEF SameAnswer, AnsweredWhenDone, KeyOf

\* Steps that no request takes.
LEMMA IdempotencyFrame ==
    ASSUME TypeOK, NoRace, StoreSurvives, StoreSurvives', IdempotencyInv,
           Quiet \/ Crashed
    PROVE  IdempotencyInv'
<1>1. /\ results' = results /\ locks' = locks /\ answer' = answer
      /\ accepted' = accepted /\ attempt' = attempt /\ nonce' = nonce
  BY DEF Quiet, Crashed, attemptVars
<1>2. \A q \in Requests : pc'[q] = pc[q] \/ (pc[q] \in Active /\ pc'[q] = "lost")
  BY DEF Quiet, Crashed
<1>3. "lost" \notin Active /\ "done" \notin Active /\ "claim" \in Active
      /\ Executing \subseteq Active /\ Sent \subseteq Active
  BY DEF Active, Executing, Sent
<1>4. TriesApart'
  BY <1>2, <1>3 DEF IdempotencyInv, TriesApart, KeyOf
<1>5. Unanswered'
  BY <1>1, <1>2, <1>3 DEF IdempotencyInv, Unanswered, KeyOf
<1>6. Settled'
  BY <1>1, <1>2, <1>3 DEF IdempotencyInv, Settled, KeyOf
<1>7. SentIsAcknowledged' /\ ResultsAcknowledged'
  BY <1>1, <1>2, <1>3
  DEF IdempotencyInv, SentIsAcknowledged, ResultsAcknowledged, Acknowledged,
      SentFor, KeyOf
<1>8. SingleSend' /\ SameAnswer'
  BY <1>1 DEF IdempotencyInv, SingleSend, SameAnswer, KeyOf
<1>9. AnsweredWhenDone'
  BY <1>1, <1>2, <1>3 DEF IdempotencyInv, AnsweredWhenDone
<1> QED BY <1>4, <1>5, <1>6, <1>7, <1>8, <1>9 DEF IdempotencyInv

LEMMA IdempotencyStep ==
    ASSUME TypeOK, ClaimExclusive, IdempotencyInv, [Next]_vars
    PROVE  IdempotencyInv'
<1> SUFFICES ASSUME NoRace, StoreSurvives' PROVE IdempotencyInv'
  BY DEF IdempotencyInv, NoRace
<1>1. StoreSurvives
  BY CrashesGrow DEF StoreSurvives, TypeOK
<1>2. ASSUME NEW r \in Requests, Concerns(r) PROVE IdempotencyInv'
  <2>1. /\ TriesApart /\ Unanswered /\ Settled /\ SentIsAcknowledged
        /\ ResultsAcknowledged /\ SingleSend /\ SameAnswer /\ AnsweredWhenDone
    BY <1>1 DEF IdempotencyInv
  <2> QED
    BY <1>1, <1>2, <2>1, ApartStep, UnansweredStep, SettledStep, SingleSendStep,
       AcknowledgedStep, AnswerStep DEF IdempotencyInv
<1> QED BY <1>1, <1>2, StepShape, IdempotencyFrame

LEMMA IdempotencyInductive == Spec => []IdempotencyInv
<1>1. Init => IdempotencyInv
  <2> SUFFICES ASSUME Init PROVE IdempotencyInv
    OBVIOUS
  <2>1. \A r \in Requests : pc[r] = "new" /\ answer[r].code = "none"
    BY DEF Init
  <2>2. accepted = {} /\ \A k \in Keys : results[k] = NoTx
    BY DEF Init, StoreInit
  <2>3. "new" \notin Active /\ "new" \notin Sent
    BY DEF Active, Executing, Sent
  <2> QED
    BY <2>1, <2>2, <2>3
    DEF IdempotencyInv, TriesApart, Unanswered, Settled, SentIsAcknowledged,
        ResultsAcknowledged, SingleSend, SameAnswer, AnsweredWhenDone
<1> QED
  BY <1>1, IdempotencyStep, TypeCorrect, ClaimExclusion, PTL DEF Spec

\* All the answers 200 to a key name one transaction, the stored one, over the
\* memory store and for clients that do not overlap their tries (ClaimResult
\* and SaveResult).
THEOREM SameAnswerHolds == Spec => [](NoRace => SameAnswer)
<1>1. IdempotencyInv => (NoRace => SameAnswer)
  BY DEF IdempotencyInv, SameAnswer
<1> QED BY <1>1, IdempotencyInductive, PTL

\* A key is acknowledged by a node at most once, whatever candidates, retries,
\* faults, disconnects and crashes do in between (SendTransaction between
\* ClaimResult and SaveResult).
THEOREM SingleSendHolds == Spec => [](NoRace => SingleSend)
<1>1. IdempotencyInv => (NoRace => SingleSend)
  BY DEF IdempotencyInv, SingleSend
<1> QED BY <1>1, IdempotencyInductive, PTL

\* A stored answer is never replaced or removed: Postgres inserts it only where
\* there is none, and the memory store, whose SaveResult overwrites, has no
\* handler left that could save a second one.
THEOREM StoredAnswersStay == Spec => StoredAnswerStays
<1>1. TypeOK /\ IdempotencyInv /\ [Next]_vars =>
        (StoreSurvives' =>
            \A k \in Keys : results[k] # NoTx => results'[k] = results[k])
  <2> SUFFICES ASSUME TypeOK, IdempotencyInv, [Next]_vars, StoreSurvives',
                      NEW k \in Keys, results[k] # NoTx, results'[k] # results[k]
               PROVE  FALSE
    OBVIOUS
  <2>1. PICK r \in Requests : Concerns(r)
    BY StepShape DEF Quiet, Crashed
  <2>2. Stored(r) /\ k = KeyOf(r)
    BY <2>1, ResultsChange
  <2>3. CASE StoreKind = "postgres"
    BY <2>2, <2>3 DEF Stored, SaveResult, PostgresSaveResult
  <2>4. CASE StoreKind = "memory"
    <3>1. Unanswered
      BY <2>4, CrashesGrow DEF IdempotencyInv, NoRace, StoreSurvives, TypeOK
    <3>2. pc[r] \in Active /\ k # NoKey
      BY <2>2, StoreAssumption DEF Stored, Active, Executing
    <3> QED BY <2>2, <3>1, <3>2 DEF Unanswered
  <2> QED BY <2>3, <2>4, StoreAssumption
<1> QED
  BY <1>1, TypeCorrect, IdempotencyInductive, PTL DEF Spec, StoredAnswerStays

-----------------------------------------------------------------------------
(***************************************************************************)
(* The pipeline implements IdempotentSigner, as long as the store is not   *)
(* lost.  A broadcast that a node acknowledges is Execute, a reply is      *)
(* Succeed or Fail, and every other step stutters.                         *)
(***************************************************************************)
Durable == StoreKind = "postgres" \/ MaxCrashes = 0

sentBar == [k \in Keys |-> SentFor(k)]

\* What has been acknowledged for the keys changes with acknowledged broadcasts
\* only.
LEMMA SentStutter ==
    ASSUME \A s : s.acked => (s \in accepted' <=> s \in accepted)
    PROVE  UNCHANGED sentBar
<1>1. ASSUME NEW k \in Keys PROVE SentFor(k)' = SentFor(k)
  <2>1. {s \in accepted' : s.acked /\ KeyOf(s.req) = k}
          = {s \in accepted : s.acked /\ KeyOf(s.req) = k}
    OBVIOUS
  <2> QED BY <2>1 DEF SentFor, KeyOf
<1> QED BY <1>1 DEF sentBar

LEMMA TellFails ==
    ASSUME TypeOK, AnsweredWhenDone, NEW r \in Requests, pc[r] # "done",
           NEW code \in {"refused", "409", "502", "503"}, Reply(r, code, NoTx),
           accepted' = accepted
    PROVE  Promise!Next
<1>1. UNCHANGED sentBar
  BY SentStutter
<1>2. answer[r].code = "none" /\ answer'[r].code # "none"
  BY DEF AnsweredWhenDone, Reply, TypeOK
<1>3. Promise!Fail(r)
  BY <1>1, <1>2 DEF Reply, Promise!Fail, Promise!Tell, Promise!Errors, sentBar
<1> QED BY <1>2, <1>3 DEF Promise!Next

LEMMA TellSucceeds ==
    ASSUME TypeOK, AnsweredWhenDone, NEW r \in Requests, pc[r] # "done",
           NEW tx \in Tx, Reply(r, "200", tx), accepted' = accepted,
           KeyOf(r) # NoKey => tx \in SentFor(KeyOf(r))
    PROVE  Promise!Next
<1>1. UNCHANGED sentBar
  BY SentStutter
<1>2. answer[r].code = "none" /\ answer'[r].code # "none" /\ answer'[r].tx = tx
  BY DEF AnsweredWhenDone, Reply, TypeOK
<1>3. KeyOf(r) # NoKey => tx \in sentBar[KeyOf(r)]
  BY RequestFacts DEF sentBar
<1>4. Promise!Tell(r, "200", tx)
  BY <1>1, <1>2 DEF Reply, Promise!Tell, sentBar
<1>5. Promise!Succeed(r)
  BY <1>2, <1>3, <1>4 DEF Promise!Succeed, sentBar
<1> QED BY <1>2, <1>5 DEF Promise!Next

LEMMA BroadcastExecutes ==
    ASSUME TypeOK, Settled, NEW r \in Requests, Broadcasts(r)
    PROVE  Promise!Next \/ UNCHANGED <<sentBar, answer>>
<1> DEFINE b == [req |-> r, attempt |-> attempt[r], nonce |-> nonce[r],
                 acked |-> TRUE]
<1>1. UNCHANGED answer
  BY DEF Broadcasts
<1>2. CASE LogBroadcast(r, FALSE)
  <2>1. \A s : s.acked => (s \in accepted' <=> s \in accepted)
    BY <1>2 DEF LogBroadcast
  <2> QED BY <1>1, <2>1, SentStutter
<1>3. CASE LogBroadcast(r, TRUE)
  <2>1. accepted' = accepted \cup {b}
    BY <1>3 DEF LogBroadcast
  <2>2. b.acked /\ b.req = r /\ b.nonce = nonce[r]
    OBVIOUS
  <2> HIDE DEF b
  <2>3. ASSUME NEW k \in Keys, k # KeyOf(r) PROVE SentFor(k)' = SentFor(k)
    <3>1. {s \in accepted' : s.acked /\ KeyOf(s.req) = k}
            = {s \in accepted : s.acked /\ KeyOf(s.req) = k}
      BY <2>1, <2>2, <2>3
    <3> QED BY <3>1 DEF SentFor, KeyOf
  <2>4. CASE KeyOf(r) = NoKey
    BY <1>1, <2>3, <2>4, StoreAssumption DEF sentBar
  <2>5. CASE KeyOf(r) # NoKey
    <3>1. KeyOf(r) \in Keys
      BY <2>5, RequestFacts
    <3>2. {s \in accepted : s.acked /\ KeyOf(s.req) = KeyOf(r)} = {}
      BY <2>5 DEF Broadcasts, Settled, Executing, Sent
    <3>3. {s \in accepted' : s.acked /\ KeyOf(s.req) = KeyOf(r)} = {b}
      BY <2>1, <2>2, <3>2
    <3>4. SentFor(KeyOf(r)) = {} /\ SentFor(KeyOf(r))' = {TxOf(r)}
      BY <2>2, <3>2, <3>3 DEF SentFor, TxOf, KeyOf
    <3>5. sentBar[KeyOf(r)] = {} /\ sentBar'[KeyOf(r)] = {TxOf(r)}
      BY <3>1, <3>4 DEF sentBar
    <3>6. sentBar' = [sentBar EXCEPT ![KeyOf(r)] = {TxOf(r)}]
      BY <2>3, <3>1, <3>4 DEF sentBar
    <3>7. TxOf(r) \in Tx
      BY TxType
    <3>8. Promise!Execute(KeyOf(r))
      BY <1>1, <3>5, <3>6, <3>7 DEF Promise!Execute, sentBar
    <3> QED BY <3>1, <3>8 DEF Promise!Next
  <2> QED BY <2>4, <2>5
<1> QED BY <1>2, <1>3 DEF Broadcasts

LEMMA PromiseStep ==
    ASSUME TypeOK, IdempotencyInv, NoRace, StoreSurvives, StoreSurvives', [Next]_vars
    PROVE  Promise!Next \/ UNCHANGED <<sentBar, answer>>
<1>1. Settled /\ SentIsAcknowledged /\ ResultsAcknowledged /\ AnsweredWhenDone
  BY DEF IdempotencyInv
<1>2. ASSUME answer' = answer, accepted' = accepted
      PROVE  UNCHANGED <<sentBar, answer>>
  BY <1>2, SentStutter
<1>3. CASE Quiet \/ Crashed
  BY <1>2, <1>3 DEF Quiet, Crashed
<1>4. ASSUME NEW r \in Requests, Concerns(r)
      PROVE  Promise!Next \/ UNCHANGED <<sentBar, answer>>
  <2>1. CASE Refused(r)
    BY <1>1, <2>1, TellFails DEF Refused
  <2>2. CASE Replayed(r)
    <3>1. KeyOf(r) \in Keys /\ results[KeyOf(r)] \in Tx
      BY <2>2, RequestFacts DEF Replayed, TypeOK, StoreTypeOK
    <3>2. results[KeyOf(r)] \in SentFor(KeyOf(r))
      BY <1>1, <2>2, <3>1 DEF Replayed, ResultsAcknowledged
    <3> QED BY <1>1, <2>2, <3>1, <3>2, TellSucceeds DEF Replayed
  <2>3. CASE Looked(r) \/ Claimed(r) \/ Worked(r)
    BY <1>2, <2>3 DEF Looked, Claimed, Worked
  <2>4. CASE Broadcasts(r)
    BY <1>1, <2>4, BroadcastExecutes
  <2>5. CASE Released(r) \/ Unstored(r)
    BY <1>1, <2>5, TellFails DEF Released, Unstored
  <2>6. CASE Stored(r)
    <3>1. pc[r] # "done" /\ accepted' = accepted
      BY <2>6 DEF Stored
    <3>2. TxOf(r) \in SentFor(KeyOf(r))
      BY <1>1, <2>6 DEF Stored, Sent, SentIsAcknowledged, Acknowledged, SentFor, TxOf
    <3>3. CASE Reply(r, "200", TxOf(r))
      BY <1>1, <3>1, <3>2, <3>3, TxType, TellSucceeds
    <3>4. CASE Reply(r, "503", NoTx)
      BY <1>1, <3>1, <3>4, TellFails
    <3> QED BY <2>6, <3>3, <3>4 DEF Stored
  <2> QED BY <1>4, <2>1, <2>2, <2>3, <2>4, <2>5, <2>6 DEF Concerns
<1> QED BY <1>3, <1>4, StepShape

\* A key is sent at most once and every success that is reported for it names
\* what was sent (ClaimResult to SaveResult): the detailed pipeline, with its
\* locks, candidates, nonces, monitors, faults and crashes, implements
\* IdempotentSigner.
THEOREM PipelineKeepsPromise ==
    ASSUME NoRace, Durable
    PROVE  Spec => SentAtMostOnce
<1>1. Init => Promise!Init
  BY DEF Init, Promise!Init, SentFor
<1>2. TypeOK => StoreSurvives
  BY PipelineAssumption DEF TypeOK, StoreSurvives, Durable
<1>3. /\ TypeOK /\ IdempotencyInv /\ StoreSurvives /\ StoreSurvives' /\ [Next]_vars
      => [Promise!Next]_<<[k \in Keys |-> SentFor(k)], answer>>
  BY PromiseStep DEF sentBar
<1> QED
  BY <1>1, <1>2, <1>3, TypeCorrect, IdempotencyInductive, PTL
  DEF Spec, SentAtMostOnce, Promise!Spec
=============================================================================
