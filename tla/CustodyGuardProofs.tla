------------------------- MODULE CustodyGuardProofs -------------------------
(***************************************************************************)
(* Theorems about the custody guard, for any number of instances, wallets  *)
(* and transactions and any cooldown.                                      *)
(***************************************************************************)
EXTENDS CustodyGuard, TLAPS

-----------------------------------------------------------------------------
(***************************************************************************)
(* Type correctness.                                                       *)
(***************************************************************************)

\* A call, whatever its outcome, keeps the count of failures in its bounds.
LEMMA FaultTyped ==
    ASSUME faults \in 0..MaxFaults, NEW o, Fault(o)
    PROVE  faults' \in 0..MaxFaults
BY GuardAssumption DEF Fault

\* Every step of a guard keeps the types.
LEMMA StartTyped ==
    ASSUME TypeOK, NEW i \in Instances, Start(i)
    PROVE  TypeOK'
<1> USE GuardAssumption DEF TypeOK, Labels, Times, NoIncident
<1>1. CASE LoadIncident(i)
  <2>1. faults' \in 0..MaxFaults
    BY <1>1, FaultTyped DEF LoadIncident
  <2>2. locked' \in [Instances -> BOOLEAN] /\ pc' \in [Instances -> Labels]
    BY <1>1 DEF LoadIncident, Goto, SetFlag
  <2> QED BY <1>1, <2>1, <2>2 DEF LoadIncident, world, history
<1>2. CASE LoadTrustedDelegateHashes(i)
  <2>1. faults' \in 0..MaxFaults
    BY <1>2, FaultTyped DEF LoadTrustedDelegateHashes
  <2>2. [d \in Trusted |-> code[d]] \in [Trusted -> Codes \cup {NoCode}]
    OBVIOUS
  <2>3. hashes' \in [Instances -> [Trusted -> Codes \cup {NoCode}]]
    <3>1. \/ hashes' = hashes
          \/ hashes' = [hashes EXCEPT ![i] = [d \in Trusted |-> code[d]]]
      BY <1>2 DEF LoadTrustedDelegateHashes
    <3> QED BY <2>2, <3>1
  <2>4. /\ pc' \in [Instances -> Labels]
        /\ alive' \in [Instances -> BOOLEAN]
        /\ alarm' \in [Instances -> BOOLEAN]
    BY <1>2, Zenon DEF LoadTrustedDelegateHashes, Goto, Detect
  <2> QED BY <1>2, <2>1, <2>3, <2>4 DEF LoadTrustedDelegateHashes, world
<1>3. CASE ScanBlockTag(i)
  <2>1. faults' \in 0..MaxFaults
    BY <1>3, FaultTyped DEF ScanBlockTag
  <2>2. pc' \in [Instances -> Labels]
    BY <1>3 DEF ScanBlockTag, Goto, NextTag
  <2>3. tag' \in [Instances -> {"pending", "latest"}]
    BY <1>3 DEF ScanBlockTag, NextTag
  <2>4. todo' \in [Instances -> SUBSET SetCodeTxs]
    <3>1. \/ todo' = [todo EXCEPT ![i] = {}]
          \/ todo' = [todo EXCEPT ![i] = {tx \in SetCodeTxs : where[tx] = tag[i]}]
      BY <1>3 DEF ScanBlockTag, NextTag
    <3> QED BY <3>1
  <2> QED BY <1>3, <2>1, <2>2, <2>3, <2>4 DEF ScanBlockTag, world, history
<1>4. CASE InspectTransaction(i)
  <2>1. faults' \in 0..MaxFaults
    BY <1>4, FaultTyped DEF InspectTransaction
  <2>2. /\ pc' \in [Instances -> Labels]
        /\ tag' \in [Instances -> {"pending", "latest"}]
    <3>1. \/ pc' = pc
          \/ pc' = [pc EXCEPT ![i] = "scan"]
          \/ pc' = [pc EXCEPT ![i] = "lock"]
      BY <1>4 DEF InspectTransaction, Goto, NextTag, Detect
    <3>2. \/ tag' = tag
          \/ tag' = [tag EXCEPT ![i] = "pending"]
          \/ tag' = [tag EXCEPT ![i] = "latest"]
      BY <1>4 DEF InspectTransaction, NextTag
    <3>3. pc' \in [Instances -> Labels]
      BY <3>1
    <3>4. tag' \in [Instances -> {"pending", "latest"}]
      BY <3>2
    <3> QED BY <3>3, <3>4
  <2>3. todo' \in [Instances -> SUBSET SetCodeTxs]
    <3>1. \/ todo' = [todo EXCEPT ![i] = {}]
          \/ \E tx \in todo[i] : todo' = [todo EXCEPT ![i] = @ \ {tx}]
      BY <1>4 DEF InspectTransaction, NextTag
    <3> QED BY <3>1
  <2>4. alarm' \in [Instances -> BOOLEAN]
    <3>1. alarm' = alarm \/ alarm' = [alarm EXCEPT ![i] = TRUE]
      BY <1>4 DEF InspectTransaction, Detect
    <3> QED BY <3>1
  <2> QED BY <1>4, <2>1, <2>2, <2>3, <2>4 DEF InspectTransaction, world
<1>5. CASE LockFlag(i)
  BY <1>5 DEF LockFlag, AfterLock, Goto, SetFlag, world, history
<1>6. CASE OpenCustodyIncident(i)
  <2>1. faults' \in 0..MaxFaults
    BY <1>6, FaultTyped DEF OpenCustodyIncident
  <2>2. /\ pc' \in [Instances -> Labels]
        /\ incident' \in Times \cup {NoIncident}
    BY <1>6 DEF OpenCustodyIncident, AfterLock, Goto
  <2> QED BY <1>6, <2>1, <2>2 DEF OpenCustodyIncident, world, history
<1>7. CASE GuardHangs(i)
  BY <1>7 DEF GuardHangs, Goto, world, history
<1> QED BY <1>1, <1>2, <1>3, <1>4, <1>5, <1>6, <1>7 DEF Start

\* The record of an unlock in progress keeps its type.
LEMMA CallTyped ==
    ASSUME call \in [Operators -> [step : {"idle", "resolve", "clear"},
                                  at : Instances]],
           NEW o, NEW step \in {"idle", "resolve", "clear"},
           NEW i \in Instances, CallAt(o, step, i)
    PROVE  call' \in [Operators -> [step : {"idle", "resolve", "clear"},
                                   at : Instances]]
<1>1. [step |-> step, at |-> i] \in [step : {"idle", "resolve", "clear"},
                                     at : Instances]
  OBVIOUS
<1> QED BY <1>1, Zenon DEF CallAt

\* Every step of an unlock keeps the types.
LEMMA UnlockTyped ==
    ASSUME TypeOK, NEW o \in Operators, Unlock(o)
    PROVE  TypeOK'
<1> USE GuardAssumption DEF TypeOK, Labels, Times, NoIncident
<1>1. ASSUME NEW i \in Instances, CheckIncident(o, i) PROVE TypeOK'
  <2>1. call' \in [Operators -> [step : {"idle", "resolve", "clear"},
                                 at : Instances]]
    BY <1>1, CallTyped DEF CheckIncident
  <2> QED BY <1>1, <2>1 DEF CheckIncident, guardVars, world, history
<1>2. CASE ResolveIncident(o)
  <2>1. faults' \in 0..MaxFaults
    BY <1>2, FaultTyped DEF ResolveIncident
  <2>2. /\ incident' \in Times \cup {NoIncident}
        /\ resolved' \subseteq [from : Times, to : Times]
    BY <1>2 DEF ResolveIncident
  <2>3. call' \in [Operators -> [step : {"idle", "resolve", "clear"},
                                 at : Instances]]
    BY <1>2, CallTyped DEF ResolveIncident
  <2> QED BY <1>2, <2>1, <2>2, <2>3 DEF ResolveIncident, guardVars, world
<1>3. CASE ClearFlag(o)
  <2>1. call' \in [Operators -> [step : {"idle", "resolve", "clear"},
                                 at : Instances]]
    BY <1>3, CallTyped DEF ClearFlag
  <2> QED BY <1>3, <2>1 DEF ClearFlag, world
<1> QED BY <1>1, <1>2, <1>3 DEF Unlock

\* A call that a crash drops is a call that has not begun.
LEMMA CallDropped ==
    ASSUME NEW c \in [step : {"idle", "resolve", "clear"}, at : Instances]
    PROVE  [c EXCEPT !.step = "idle"]
             \in [step : {"idle", "resolve", "clear"}, at : Instances]
  OBVIOUS

\* Every step of the world keeps the types.
LEMMA WorldTyped ==
    ASSUME TypeOK,
           \/ \E i \in Instances : Crash(i)
           \/ \E tx \in SetCodeTxs : Advance(tx)
           \/ \E d \in Trusted, c \in Codes : ReplaceCode(d, c)
           \/ Tick
    PROVE  TypeOK'
<1> USE GuardAssumption DEF TypeOK, Labels, Times, NoIncident
<1>1. ASSUME NEW i \in Instances, Crash(i) PROVE TypeOK'
  <2>1. /\ locked' \in [Instances -> BOOLEAN]
        /\ pc' \in [Instances -> Labels]
        /\ alive' \in [Instances -> BOOLEAN]
        /\ tag' \in [Instances -> {"pending", "latest"}]
        /\ alarm' \in [Instances -> BOOLEAN]
    BY <1>1, Zenon DEF Crash
  <2>2. todo' \in [Instances -> SUBSET SetCodeTxs]
    BY <1>1 DEF Crash
  <2>3. hashes' \in [Instances -> [Trusted -> Codes \cup {NoCode}]]
    BY <1>1 DEF Crash
  <2>4. call' \in [Operators -> [step : {"idle", "resolve", "clear"}, at : Instances]]
    <3>1. \A o \in Operators : [call[o] EXCEPT !.step = "idle"]
            \in [step : {"idle", "resolve", "clear"}, at : Instances]
      BY CallDropped
    <3>2. call' = [o \in Operators |->
                     IF call[o].at = i THEN [call[o] EXCEPT !.step = "idle"] ELSE call[o]]
      BY <1>1 DEF Crash
    <3> QED BY <3>1, <3>2, Zenon
  <2> QED BY <1>1, <2>1, <2>2, <2>3, <2>4 DEF Crash, world
<1>2. ASSUME NEW tx \in SetCodeTxs, Advance(tx) PROVE TypeOK'
  BY <1>2 DEF Advance, guardVars, history
<1>3. ASSUME NEW d \in Trusted, NEW c \in Codes, ReplaceCode(d, c) PROVE TypeOK'
  BY <1>3 DEF ReplaceCode, guardVars, history
<1>4. CASE Tick
  BY <1>4 DEF Tick, guardVars, history
<1> QED BY <1>1, <1>2, <1>3, <1>4

\* The state of the guards, of the store and of the unlocks in progress always
\* has its type (CustodyGuard and custody_incidents).
THEOREM GuardTypeCorrect == Spec => []TypeOK
<1>1. Init => TypeOK
  BY GuardAssumption DEF Init, TypeOK, Labels, Times, NoIncident
<1>2. TypeOK /\ [Next]_vars => TypeOK'
  <2> SUFFICES ASSUME TypeOK, [Next]_vars PROVE TypeOK'
    OBVIOUS
  <2>1. CASE Next
    BY <2>1, StartTyped, UnlockTyped, WorldTyped DEF Next
  <2>2. CASE UNCHANGED vars
    BY <2>2 DEF TypeOK, vars, guardVars, world, history
  <2> QED BY <2>1, <2>2
<1> QED BY <1>1, <1>2, PTL DEF Spec

-----------------------------------------------------------------------------
(***************************************************************************)
(* A detected risk keeps the instance locked.                              *)
(***************************************************************************)

\* Whatever fails, crashes or overlaps, a risk that the guard of an instance
\* has detected leaves the instance locked until an unlock clears its flag
\* (inspectTransaction, Lock and Unlock).
THEOREM RiskLocks == Spec => []FailClosed
<1>1. Init => FailClosed
  BY DEF Init, FailClosed
<1>2. TypeOK /\ FailClosed /\ [Next]_vars => FailClosed'
  <2> SUFFICES ASSUME TypeOK, FailClosed, [Next]_vars, Mode # "shadow",
                      NEW j \in Instances, alarm'[j], pc'[j] # "lock"
               PROVE  locked'[j]
    BY DEF FailClosed
  <2> USE DEF TypeOK, FailClosed
  <2>1. ASSUME NEW i \in Instances, LoadIncident(i) PROVE locked'[j]
    BY <2>1 DEF LoadIncident, Goto, SetFlag, history
  <2>2. ASSUME NEW i \in Instances, LoadTrustedDelegateHashes(i) PROVE locked'[j]
    BY <2>2 DEF LoadTrustedDelegateHashes, Goto, Detect
  <2>3. ASSUME NEW i \in Instances, ScanBlockTag(i) PROVE locked'[j]
    BY <2>3 DEF ScanBlockTag, NextTag, Goto, history
  <2>4. ASSUME NEW i \in Instances, InspectTransaction(i) PROVE locked'[j]
    BY <2>4 DEF InspectTransaction, NextTag, Goto, Detect
  <2>5. ASSUME NEW i \in Instances, LockFlag(i) PROVE locked'[j]
    BY <2>5 DEF LockFlag, SetFlag, Goto, history
  <2>6. ASSUME NEW i \in Instances, OpenCustodyIncident(i) PROVE locked'[j]
    BY <2>6 DEF OpenCustodyIncident, AfterLock, Goto, history
  <2>7. ASSUME NEW i \in Instances, Crash(i) \/ GuardHangs(i) PROVE locked'[j]
    BY <2>7 DEF Crash, GuardHangs, Goto, history
  <2>8. ASSUME NEW o \in Operators, Unlock(o) PROVE locked'[j]
    BY <2>8 DEF Unlock, CheckIncident, ResolveIncident, ClearFlag, guardVars,
                history
  <2>9. CASE \/ \E tx \in SetCodeTxs : Advance(tx)
             \/ \E d \in Trusted, c \in Codes : ReplaceCode(d, c)
             \/ Tick
             \/ UNCHANGED vars
    BY <2>9 DEF Advance, ReplaceCode, Tick, vars, guardVars, history
  <2> QED BY <2>1, <2>2, <2>3, <2>4, <2>5, <2>6, <2>7, <2>8, <2>9
          DEF Next, Start
<1> QED BY <1>1, <1>2, GuardTypeCorrect, PTL DEF Spec

-----------------------------------------------------------------------------
(***************************************************************************)
(* The cooldown.  An unlock resolves whatever incident is active, which    *)
(* need not be the one whose age it has compared: when another unlock has  *)
(* resolved that one and a detection has opened the next, IncidentCooldown *)
(* fails.  Nothing else breaks it, for any number of overlapping unlocks:  *)
(* the incident that a call is about to resolve is old enough, or gone.    *)
(***************************************************************************)

\* No incident is opened between the two statements of an unlock.
OpenedApart ==
    incident = NoIncident /\ incident' # NoIncident =>
        \A o \in Operators : call[o].step # "resolve"

CooldownInv ==
    /\ IncidentCooldown
    /\ incident # NoIncident => incident <= now
    /\ \A o \in Operators :
         call[o].step = "resolve" /\ incident # NoIncident => CooldownOver(incident)

\* No incident is resolved before its cooldown is over, by any number of
\* overlapping calls of /custody/unlock on any number of instances, whatever
\* fails or crashes between their steps, as long as no incident is opened while
\* a call is between its check and its ResolveCustodyIncident (Unlock, Lock).
THEOREM CooldownHeld == Spec /\ [][OpenedApart]_vars => []IncidentCooldown
<1> USE GuardAssumption DEF Times, NoIncident
<1>1. Init => CooldownInv
  BY DEF Init, CooldownInv, IncidentCooldown
<1>2. TypeOK /\ CooldownInv /\ [Next]_vars /\ [OpenedApart]_vars => CooldownInv'
  <2> SUFFICES ASSUME TypeOK, CooldownInv, [Next]_vars, [OpenedApart]_vars
               PROVE  CooldownInv'
    OBVIOUS
  <2> USE DEF CooldownInv
  <2>1. ASSUME NEW i \in Instances, OpenCustodyIncident(i) PROVE CooldownInv'
    <3>1. /\ UNCHANGED <<call, now, resolved>>
          /\ incident' = incident \/ (incident = NoIncident /\ incident' = now)
      BY <2>1 DEF OpenCustodyIncident, world, history
    <3>2. OpenedApart \/ incident' = incident
      BY DEF vars
    <3> QED BY <3>1, <3>2 DEF OpenedApart, TypeOK, CooldownOver, IncidentCooldown
  <2>2. ASSUME NEW i \in Instances, Start(i), ~OpenCustodyIncident(i)
        PROVE  CooldownInv'
    <3>1. UNCHANGED <<incident, call, now, resolved>>
      BY <2>2 DEF Start, LoadIncident, LoadTrustedDelegateHashes, ScanBlockTag,
                  InspectTransaction, LockFlag, GuardHangs, world, history
    <3> QED BY <3>1 DEF IncidentCooldown, CooldownOver
  <2>3. ASSUME NEW i \in Instances, Crash(i) PROVE CooldownInv'
    BY <2>3 DEF Crash, world, TypeOK, CooldownOver, IncidentCooldown
  <2>4. ASSUME NEW o \in Operators, NEW i \in Instances, CheckIncident(o, i)
        PROVE  CooldownInv'
    BY <2>4 DEF CheckIncident, CallAt, world, history, TypeOK, CooldownOver,
                IncidentCooldown
  <2>5. ASSUME NEW o \in Operators, ResolveIncident(o) PROVE CooldownInv'
    <3>1. UNCHANGED now /\ \A p \in Operators : call'[p].step = "resolve" => call'[p] = call[p]
      BY <2>5 DEF ResolveIncident, CallAt, TypeOK, world
    <3>2. CASE UNCHANGED <<incident, resolved>>
      BY <3>1, <3>2 DEF CooldownOver, IncidentCooldown
    <3>3. CASE ~UNCHANGED <<incident, resolved>>
      <4>1. /\ incident # NoIncident
            /\ incident \in 0..MaxTime
            /\ now - incident >= Cooldown
        BY <2>5, <3>3 DEF ResolveIncident, CooldownOver, TypeOK
      <4>2. /\ incident' = NoIncident
            /\ resolved' = resolved \cup {[from |-> incident, to |-> now]}
        BY <2>5, <3>3 DEF ResolveIncident
      <4> QED BY <4>1, <4>2 DEF IncidentCooldown
    <3> QED BY <3>2, <3>3
  <2>6. ASSUME NEW o \in Operators, ClearFlag(o) PROVE CooldownInv'
    BY <2>6 DEF ClearFlag, CallAt, world, TypeOK, CooldownOver, IncidentCooldown
  <2>7. CASE Tick
    BY <2>7 DEF Tick, history, TypeOK, CooldownOver, IncidentCooldown
  <2>8. CASE \/ \E tx \in SetCodeTxs : Advance(tx)
             \/ \E d \in Trusted, c \in Codes : ReplaceCode(d, c)
             \/ UNCHANGED vars
    BY <2>8 DEF Advance, ReplaceCode, vars, world, history, CooldownOver,
                IncidentCooldown
  <2> QED BY <2>1, <2>2, <2>3, <2>4, <2>5, <2>6, <2>7, <2>8 DEF Next, Unlock
<1>3. CooldownInv => IncidentCooldown
  BY DEF CooldownInv
<1> QED BY <1>1, <1>2, <1>3, GuardTypeCorrect, PTL DEF Spec

-----------------------------------------------------------------------------
(***************************************************************************)
(* The flag and the incident.  IncidentLocks fails when an unlock runs     *)
(* between the two steps of Lock, and on an instance that did not open the *)
(* incident or could not read it when it started.  Nothing else breaks it. *)
(***************************************************************************)

\* No unlock is in progress while Lock has set the flag and not yet opened the
\* incident.
LockAlone ==
    \A i \in Instances, o \in Operators : pc[i] = "open" => call[o].step = "idle"

\* An unlock that is about to clear the flag leaves no incident behind it.
IncidentInv ==
    /\ incident # NoIncident => \A o \in Operators : call[o].step # "clear"
    /\ Mode # "shadow" /\ faults = 0 =>
         IncidentLocks /\ \A i \in Instances : pc[i] = "open" => locked[i]

LEMMA FaultsBefore ==
    ASSUME TypeOK, NEW o, Fault(o), faults' = 0
    PROVE  faults = 0 /\ o = "ok"
  BY GuardAssumption DEF TypeOK, Fault

\* On an instance of its own, with a store and nodes that answer, the signer
\* refuses to sign as long as an incident is active, through crashes, restarts
\* and overlapping unlocks, if only no unlock runs inside Lock (Start, Lock and
\* Unlock).
THEOREM IncidentLocksAlone ==
    ASSUME \A i, j \in Instances : i = j
    PROVE  Spec /\ []LockAlone => [](faults = 0 => IncidentLocks)
<1>1. Init => IncidentInv
  BY DEF Init, IncidentInv, IncidentLocks
<1>2. TypeOK /\ IncidentInv /\ LockAlone /\ [Next]_vars => IncidentInv'
  <2> SUFFICES ASSUME TypeOK, IncidentInv, LockAlone, [Next]_vars PROVE IncidentInv'
    OBVIOUS
  <2> USE DEF IncidentInv, IncidentLocks
  <2>1. ASSUME NEW i \in Instances, LoadIncident(i) PROVE IncidentInv'
    BY <2>1, FaultsBefore DEF LoadIncident, Goto, SetFlag, TypeOK
  <2>2. ASSUME NEW i \in Instances, LoadTrustedDelegateHashes(i) PROVE IncidentInv'
    BY <2>2, FaultsBefore DEF LoadTrustedDelegateHashes, Goto, Detect, TypeOK
  <2>3. ASSUME NEW i \in Instances, ScanBlockTag(i) PROVE IncidentInv'
    BY <2>3, FaultsBefore DEF ScanBlockTag, NextTag, Goto, TypeOK
  <2>4. ASSUME NEW i \in Instances, InspectTransaction(i) PROVE IncidentInv'
    BY <2>4, FaultsBefore DEF InspectTransaction, NextTag, Goto, Detect, TypeOK
  <2>5. ASSUME NEW i \in Instances, LockFlag(i) PROVE IncidentInv'
    BY <2>5 DEF LockFlag, AfterLock, SetFlag, Goto, TypeOK
  <2>6. ASSUME NEW i \in Instances, OpenCustodyIncident(i) PROVE IncidentInv'
    <3>1. \A o \in Operators : call'[o].step = "idle"
      BY <2>6 DEF OpenCustodyIncident, LockAlone
    <3>2. faults' = 0 => faults = 0
      BY <2>6, FaultsBefore DEF OpenCustodyIncident
    <3>3. pc[i] = "open" /\ pc' \in {[pc EXCEPT ![i] = "inspect"], [pc EXCEPT ![i] = "dead"]}
          /\ locked' = locked
      BY <2>6 DEF OpenCustodyIncident, AfterLock, Goto
    <3> QED BY <3>1, <3>2, <3>3 DEF TypeOK
  <2>7. ASSUME NEW i \in Instances, Crash(i) PROVE IncidentInv'
    BY <2>7 DEF Crash, TypeOK
  <2>12. ASSUME NEW i \in Instances, GuardHangs(i) PROVE IncidentInv'
    <3>1. faults' # 0 /\ UNCHANGED <<incident, call>>
      BY <2>12, GuardAssumption DEF GuardHangs, TypeOK
    <3> QED BY <3>1
  <2>8. ASSUME NEW o \in Operators, NEW i \in Instances, CheckIncident(o, i)
        PROVE  IncidentInv'
    BY <2>8 DEF CheckIncident, CallAt, guardVars, TypeOK
  <2>9. ASSUME NEW o \in Operators, ResolveIncident(o) PROVE IncidentInv'
    BY <2>9, FaultsBefore DEF ResolveIncident, CallAt, guardVars, TypeOK
  <2>10. ASSUME NEW o \in Operators, ClearFlag(o) PROVE IncidentInv'
    BY <2>10 DEF ClearFlag, CallAt, LockAlone, TypeOK
  <2>11. CASE \/ \E tx \in SetCodeTxs : Advance(tx)
              \/ \E d \in Trusted, c \in Codes : ReplaceCode(d, c)
              \/ Tick
              \/ UNCHANGED vars
    BY <2>11 DEF Advance, ReplaceCode, Tick, vars, guardVars
  <2> QED BY <2>1, <2>2, <2>3, <2>4, <2>5, <2>6, <2>7, <2>8, <2>9, <2>10, <2>11,
             <2>12
          DEF Next, Start, Unlock
<1>3. IncidentInv => (faults = 0 => IncidentLocks)
  BY DEF IncidentInv, IncidentLocks
<1> QED BY <1>1, <1>2, <1>3, GuardTypeCorrect, PTL DEF Spec
=============================================================================
