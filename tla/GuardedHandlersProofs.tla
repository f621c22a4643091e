------------------------ MODULE GuardedHandlersProofs ------------------------
(***************************************************************************)
(* Theorems about the guard and the handlers together, for any number of   *)
(* instances, operators and transactions: the composition implements the   *)
(* guard alone, so that what is proved of the guard holds of it, and from  *)
(* that follows when a request may begin.                                  *)
(***************************************************************************)
EXTENDS GuardedHandlers, CustodyGuardProofs

\* Every step of the composition is a step of the guard or changes nothing of
\* it.
LEMMA StepOfGuard ==
    ASSUME [GuardedNext]_guardedVars
    PROVE  [Next]_vars
<1>1. CASE UNCHANGED guardedVars
  BY <1>1 DEF guardedVars
<1>2. CASE GuardedNext
  <2>1. ASSUME NEW i \in Instances, GuardRuns(i) PROVE Next
    BY <2>1 DEF GuardRuns, Next
  <2>2. ASSUME NEW i \in Instances, Restart(i) PROVE Next
    BY <2>2 DEF Restart, Next
  <2>3. ASSUME NEW i \in Instances, Begin(i) \/ Finish(i) PROVE UNCHANGED vars
    BY <2>3 DEF Begin, Finish
  <2>4. ASSUME NEW o \in Operators, OperatorUnlocks(o) PROVE Next
    BY <2>4 DEF OperatorUnlocks, Next
  <2>5. ASSUME WorldMoves PROVE Next
    BY <2>5 DEF WorldMoves, Next
  <2> QED BY <1>2, <2>1, <2>2, <2>3, <2>4, <2>5 DEF GuardedNext
<1> QED BY <1>1, <1>2

\* The guard behaves among the handlers as it does alone: reading its flag
\* (Locked) does not disturb it.
THEOREM GuardRefined == GuardedSpec => Spec
<1>1. GuardedInit => Init
  BY DEF GuardedInit
<1>2. [GuardedNext]_guardedVars => [Next]_vars
  BY StepOfGuard
<1> QED BY <1>1, <1>2, PTL DEF GuardedSpec, Spec

HandlersTyped ==
    /\ running \in [Instances -> BOOLEAN]
    /\ inherited \in [Instances -> BOOLEAN]

\* The steps that let a request begin are those of Begin, which needs the flag
\* clear.
LEMMA BeginsUnlocked ==
    ASSUME HandlersTyped, [GuardedNext]_guardedVars,
           NEW i \in Instances, ~running[i], running'[i]
    PROVE  ~locked[i]
<1> USE DEF HandlersTyped
<1>1. CASE UNCHANGED guardedVars
  BY <1>1 DEF guardedVars, handlers
<1>2. CASE UNCHANGED running
  BY <1>2
<1>3. ASSUME NEW j \in Instances, Begin(j) PROVE ~locked[i]
  BY <1>3 DEF Begin
<1>4. ASSUME NEW j \in Instances, Finish(j) \/ Restart(j) PROVE FALSE
  BY <1>4 DEF Finish, Restart
<1> QED BY <1>1, <1>2, <1>3, <1>4
        DEF GuardedNext, GuardRuns, OperatorUnlocks, WorldMoves, handlers

\* Each step keeps the types of the variables of the handlers.
LEMMA HandlersTypedStep ==
    ASSUME HandlersTyped, [GuardedNext]_guardedVars
    PROVE  HandlersTyped'
<1> USE DEF HandlersTyped
<1>1. CASE UNCHANGED handlers
  BY <1>1 DEF handlers
<1>2. ASSUME NEW i \in Instances, Begin(i) \/ Finish(i) PROVE HandlersTyped'
  BY <1>2 DEF Begin, Finish
<1>3. ASSUME NEW i \in Instances, GuardRuns(i) PROVE HandlersTyped'
  <2>1. (inherited[i] /\ (pc[i] = "boot" => faults' = faults)) \in BOOLEAN
    OBVIOUS
  <2> QED BY <1>3, <2>1, Zenon DEF GuardRuns
<1>4. ASSUME NEW i \in Instances, Restart(i) PROVE HandlersTyped'
  <2>1. (incident # NoIncident) \in BOOLEAN
    OBVIOUS
  <2> QED BY <1>4, <2>1, Zenon DEF Restart
<1>5. ASSUME NEW o \in Operators, OperatorUnlocks(o) PROVE HandlersTyped'
  <2>1. \A i \in Instances : (inherited[i] /\ incident' = incident) \in BOOLEAN
    OBVIOUS
  <2> QED BY <1>5, <2>1, Zenon DEF OperatorUnlocks
<1> QED BY <1>1, <1>2, <1>3, <1>4, <1>5
        DEF GuardedNext, WorldMoves, guardedVars

\* The types of the handlers' variables hold at every time.
LEMMA HandlersAlwaysTyped == GuardedSpec => []HandlersTyped
<1>1. GuardedInit => HandlersTyped
  <2>1. (incident # NoIncident) \in BOOLEAN
    OBVIOUS
  <2> QED BY <2>1, Zenon DEF GuardedInit, HandlersTyped
<1> QED BY <1>1, HandlersTypedStep, PTL DEF GuardedSpec

\* Every state of guard and handlers has its type.
THEOREM GuardedTypeCorrect == GuardedSpec => []GuardedTypeOK
<1>1. TypeOK /\ HandlersTyped => GuardedTypeOK
  BY DEF GuardedTypeOK, HandlersTyped
<1> QED BY <1>1, GuardRefined, GuardTypeCorrect, HandlersAlwaysTyped, PTL

\* Between the lock that follows a detection and the unlock of an operator no
\* request begins on that instance (Lock, and Locked in the three handlers),
\* from FailClosed of the guard.
THEOREM NoSigningAfterAlarm == GuardedSpec => NoneBeginsAfterAlarm
<1> DEFINE Safe == \A i \in Instances :
                      ~running[i] /\ running'[i] /\ alarm[i] =>
                          Mode = "shadow" \/ pc[i] = "lock"
<1>1. FailClosed /\ HandlersTyped /\ [GuardedNext]_guardedVars
        => [Safe]_guardedVars
  BY BeginsUnlocked DEF FailClosed
<1> QED BY <1>1, GuardRefined, RiskLocks, HandlersAlwaysTyped, PTL
        DEF GuardedSpec, NoneBeginsAfterAlarm

-----------------------------------------------------------------------------
(***************************************************************************)
(* A restart under an incident.                                            *)
(***************************************************************************)

\* What keeps an instance locked that was started under an incident: the
\* incident is still there, the flag is set as soon as it has been read, and
\* no unlock is about to clear it, since one that began before the restart
\* went with the process and a later one resolves the incident first.
Held(i) ==
    /\ incident # NoIncident
    /\ pc[i] # "boot" => locked[i]
    /\ \A o \in Operators : call[o].step = "clear" => call[o].at # i

IncidentHeld == \A i \in Instances : inherited[i] => Held(i)

\* A step of the guard of j holds the incident of i.
LEMMA GuardRunsHolds ==
    ASSUME TypeOK, HandlersTyped, NEW i \in Instances, NEW j \in Instances,
           inherited[i] => Held(i), GuardRuns(j)
    PROVE  inherited'[i] => Held(i)'
<1> USE DEF HandlersTyped, TypeOK
<1>1. SUFFICES ASSUME inherited'[i] PROVE Held(i)'
  OBVIOUS
<1>2. inherited[i] /\ (i = j => (pc[i] = "boot" => faults' = faults))
  BY <1>1 DEF GuardRuns
<1>3. Held(i)
  BY <1>2
<1>4. Start(j) /\ UNCHANGED call
  BY DEF GuardRuns, Start, LoadIncident, LoadTrustedDelegateHashes,
         ScanBlockTag, InspectTransaction, LockFlag, OpenCustodyIncident, GuardHangs
<1>5. incident' = incident
  BY <1>3, <1>4 DEF Held, Start, LoadIncident, LoadTrustedDelegateHashes,
         ScanBlockTag, InspectTransaction, LockFlag, OpenCustodyIncident, GuardHangs
<1>6. locked[i] => locked'[i]
  BY <1>4 DEF Start, LoadIncident, LoadTrustedDelegateHashes,
         ScanBlockTag, InspectTransaction, LockFlag, OpenCustodyIncident, GuardHangs,
         SetFlag
<1>7. pc'[i] # "boot" => locked'[i]
  <2>1. CASE pc[i] # "boot"
    BY <1>3, <1>6, <2>1 DEF Held
  <2>2. CASE pc[i] = "boot" /\ i # j
    BY <1>4, <2>2 DEF Start, LoadIncident, LoadTrustedDelegateHashes,
         ScanBlockTag, InspectTransaction, LockFlag, OpenCustodyIncident, GuardHangs,
         Goto, Detect, NextTag, AfterLock
  <2>3. CASE pc[i] = "boot" /\ i = j
    <3>1. LoadIncident(i) /\ faults' = faults
      <4>1. faults' = faults /\ ~GuardHangs(i)
        BY <1>2, <2>3, GuardAssumption DEF GuardHangs
      <4> QED BY <1>4, <2>3, <4>1 DEF Start, LoadTrustedDelegateHashes,
         ScanBlockTag, InspectTransaction, LockFlag, OpenCustodyIncident
    <3>2. PICK o \in {"ok", "failed"} :
             /\ Fault(o)
             /\ IF o = "ok" /\ incident # NoIncident
                THEN SetFlag(i) ELSE UNCHANGED locked
      BY <3>1 DEF LoadIncident
    <3>3. o = "ok"
      BY <3>1, <3>2 DEF Fault
    <3> QED BY <1>3, <3>2, <3>3 DEF Held, SetFlag
  <2> QED BY <2>1, <2>2, <2>3
<1> QED BY <1>3, <1>4, <1>5, <1>7 DEF Held

\* A step of an unlock that leaves the incident alone holds it.
LEMMA UnlockHolds ==
    ASSUME TypeOK, HandlersTyped, NEW i \in Instances, NEW o \in Operators,
           inherited[i] => Held(i), OperatorUnlocks(o)
    PROVE  inherited'[i] => Held(i)'
<1> USE DEF HandlersTyped, TypeOK
<1>1. SUFFICES ASSUME inherited'[i] PROVE Held(i)'
  OBVIOUS
<1>2. inherited[i] /\ incident' = incident
  BY <1>1 DEF OperatorUnlocks
<1>3. Held(i)
  BY <1>2
<1>4. ASSUME NEW j \in Instances, CheckIncident(o, j) PROVE Held(i)'
  <2>1. call' = [call EXCEPT ![o] = [step |-> "resolve", at |-> j]]
    BY <1>3, <1>4 DEF Held, CheckIncident, CallAt
  <2> QED BY <1>3, <1>4, <2>1 DEF Held, CheckIncident, guardVars
<1>5. CASE ResolveIncident(o)
  <2>1. call' = [call EXCEPT ![o] = [step |-> "idle", at |-> call[o].at]]
    <3>1. PICK out \in {"ok", "failed", "unknown"} :
            /\ CallAt(o, IF out = "ok" THEN "clear" ELSE "idle", call[o].at)
            /\ IF out = "failed" \/ incident = NoIncident
               THEN UNCHANGED <<incident, resolved>>
               ELSE incident' = NoIncident
      BY <1>5 DEF ResolveIncident
    <3>2. out # "ok"
      BY <1>2, <1>3, <3>1 DEF Held
    <3> QED BY <3>1, <3>2 DEF CallAt
  <2> QED BY <1>2, <1>3, <1>5, <2>1 DEF Held, ResolveIncident, guardVars
<1>6. CASE ClearFlag(o)
  <2>1. call[o].at # i /\ UNCHANGED <<pc, incident>>
    BY <1>3, <1>6 DEF Held, ClearFlag
  <2>2. locked' = [locked EXCEPT ![call[o].at] = FALSE]
    BY <1>6 DEF ClearFlag
  <2>3. locked'[i] = locked[i]
    BY <2>1, <2>2
  <2>4. call' = [call EXCEPT ![o] = [step |-> "idle", at |-> call[o].at]]
    BY <1>6 DEF ClearFlag, CallAt
  <2> QED BY <1>3, <2>1, <2>3, <2>4 DEF Held
<1> QED BY <1>4, <1>5, <1>6 DEF OperatorUnlocks, Unlock

\* A restart of j holds the incident of i; one of i begins in "boot", without
\* a call under way.
LEMMA RestartHolds ==
    ASSUME TypeOK, HandlersTyped, NEW i \in Instances, NEW j \in Instances,
           inherited[i] => Held(i), Restart(j)
    PROVE  inherited'[i] => Held(i)'
<1> USE DEF HandlersTyped, TypeOK
<1>1. /\ incident' = incident
      /\ pc' = [pc EXCEPT ![j] = "boot"]
      /\ locked' = [locked EXCEPT ![j] = FALSE]
      /\ inherited' = [inherited EXCEPT ![j] = incident # NoIncident]
  BY DEF Restart, Crash
<1>2. \A o \in Operators : call'[o].step = "clear" =>
          call[o].at # j /\ call'[o] = call[o]
  BY DEF Restart, Crash
<1>3. CASE i = j
  BY <1>1, <1>2, <1>3 DEF Held
<1>4. CASE i # j
  BY <1>1, <1>2, <1>4 DEF Held
<1> QED BY <1>3, <1>4

\* IncidentHeld is inductive, relative to the types.
LEMMA IncidentHeldStep ==
    ASSUME TypeOK, HandlersTyped, IncidentHeld, [GuardedNext]_guardedVars
    PROVE  IncidentHeld'
<1>1. CASE UNCHANGED <<locked, pc, incident, call, inherited>>
  BY <1>1 DEF IncidentHeld, Held
<1>2. ASSUME NEW j \in Instances, GuardRuns(j) PROVE IncidentHeld'
  BY <1>2, GuardRunsHolds DEF IncidentHeld
<1>3. ASSUME NEW o \in Operators, OperatorUnlocks(o) PROVE IncidentHeld'
  BY <1>3, UnlockHolds DEF IncidentHeld
<1>4. ASSUME NEW j \in Instances, Restart(j) PROVE IncidentHeld'
  BY <1>4, RestartHolds DEF IncidentHeld
<1>5. ASSUME NEW j \in Instances, Begin(j) \/ Finish(j)
      PROVE  UNCHANGED <<locked, pc, incident, call, inherited>>
  BY <1>5 DEF Begin, Finish, vars, guardVars
<1>6. WorldMoves => UNCHANGED <<locked, pc, incident, call, inherited>>
  BY DEF WorldMoves, handlers, Advance, ReplaceCode, Tick, guardVars
<1>7. UNCHANGED guardedVars => UNCHANGED <<locked, pc, incident, call, inherited>>
  BY DEF guardedVars, vars, guardVars, handlers
<1> QED BY <1>1, <1>2, <1>3, <1>4, <1>5, <1>6, <1>7 DEF GuardedNext

\* A process that is started under an incident lets requests begin only until
\* its guard has read the incident, on any number of instances and with any
\* number of overlapping unlocks (Start, Unlock).
THEOREM IncidentOutlivesRestart == GuardedSpec => OnlyBeforeBoot
<1> DEFINE Safe == \A i \in Instances :
                      ~running[i] /\ running'[i] /\ inherited[i] =>
                          pc[i] = "boot"
<1>1. GuardedInit => IncidentHeld
  <2>1. GuardedInit => \A i \in Instances : pc[i] = "boot"
    BY DEF GuardedInit, Init
  <2>2. GuardedInit => \A i \in Instances : inherited[i] => incident # NoIncident
    <3> DEFINE open == incident # NoIncident
    <3>1. inherited = [i \in Instances |-> open]
            => \A i \in Instances : inherited[i] => open
      <4> HIDE DEF open
      <4> QED BY Zenon
    <3> QED BY <3>1, Zenon DEF GuardedInit
  <2>3. GuardedInit => \A o \in Operators : call[o].step = "idle"
    BY DEF GuardedInit, Init
  <2> QED BY <2>1, <2>2, <2>3 DEF IncidentHeld, Held
<1>2. GuardedSpec => []IncidentHeld
  BY <1>1, IncidentHeldStep, GuardRefined, GuardTypeCorrect,
     HandlersAlwaysTyped, PTL DEF GuardedSpec
<1>3. IncidentHeld /\ HandlersTyped /\ [GuardedNext]_guardedVars
        => [Safe]_guardedVars
  BY BeginsUnlocked DEF IncidentHeld, Held
<1> QED BY <1>2, <1>3, HandlersAlwaysTyped, PTL DEF GuardedSpec, OnlyBeforeBoot
=============================================================================
