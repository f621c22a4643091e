---------------------------- MODULE CustodyGuard ----------------------------
(***************************************************************************)
(* The custody guard (custody_guard.go): a goroutine per instance loads    *)
(* the active incident and the bytecode of the trusted delegates, then     *)
(* scans the pending and the latest block for EIP-7702 authorizations of   *)
(* protected wallets.  A suspicious one sets the flag of the instance and  *)
(* opens an incident in the shared store; /custody/unlock resolves the     *)
(* incident after a cooldown and clears the flag of the instance that      *)
(* serves it.  Requests are admitted while the flag is not set, from the   *)
(* moment the process listens.                                             *)
(***************************************************************************)
EXTENDS Integers, FiniteSets

CONSTANTS
    Instances,   \* signer processes that share a Postgres store
    Operators,   \* calls of /custody/unlock that may overlap
    Mode,        \* CUSTODY_MODE
    Cooldown,    \* CUSTODY_UNLOCK_COOLDOWN_SEC, 0 is none
    Protected,   \* wallets watched
    Trusted,     \* CUSTODY_TRUSTED_DELEGATES
    Selectors,   \* CUSTODY_ALLOWED_SELECTORS, {} allows all of them
    SetCodeTxs,  \* EIP-7702 transactions that may be seen
    Delegates,   \* delegate contracts
    Codes,       \* bytecodes
    NoCode,      \* no bytecode
    MaxTime,     \* bound on the clock
    MaxFaults,   \* bound on failures of the store and of the nodes
    MaxCrashes   \* bound on crashes

Authorization == [authority : Protected \cup {"other"}, delegate : Delegates]

NoIncident == -1

ASSUME GuardAssumption ==
    /\ Mode \in {"shadow", "paper", "live"}
    /\ Cooldown \in Nat
    /\ Trusted \subseteq Delegates
    /\ NoCode \notin Codes
    /\ \A tx \in SetCodeTxs : tx.auths \subseteq Authorization
    /\ MaxTime \in Nat
    /\ MaxFaults \in Nat
    /\ MaxCrashes \in Nat

VARIABLES
    locked,    \* instance -> the atomic flag
    pc,        \* instance -> where the goroutine of Start is
    alive,     \* instance -> FALSE once Start is going to return
    tag,       \* instance -> the block tag being scanned
    todo,      \* instance -> transactions of the fetched block to inspect
    hashes,    \* instance -> the bytecode recorded for a trusted delegate
    incident,  \* created_at of the incident not resolved, or NoIncident
    call,      \* operator -> the unlock in progress: its step and its instance
    where,     \* transaction -> where it can be seen
    code,      \* trusted delegate -> its bytecode on the chain
    now,       \* the clock
    faults, crashes,
    alarm,     \* history: risk detected since the flag was last cleared
    resolved   \* history: incidents resolved, with the time of both ends

guardVars == <<locked, pc, alive, tag, todo, hashes>>
world == <<where, code, now>>
history == <<alarm, resolved>>
vars == <<guardVars, incident, call, world, faults, crashes, history>>

Times == 0..MaxTime
Labels == {"boot", "hashes", "scan", "inspect", "lock", "open", "dead", "hung"}

TypeOK ==
    /\ locked \in [Instances -> BOOLEAN]
    /\ pc \in [Instances -> Labels]
    /\ alive \in [Instances -> BOOLEAN]
    /\ tag \in [Instances -> {"pending", "latest"}]
    /\ todo \in [Instances -> SUBSET SetCodeTxs]
    /\ hashes \in [Instances -> [Trusted -> Codes \cup {NoCode}]]
    /\ incident \in Times \cup {NoIncident}
    /\ call \in [Operators -> [step : {"idle", "resolve", "clear"},
                               at : Instances]]
    /\ where \in [SetCodeTxs -> {"unseen", "pending", "latest", "past"}]
    /\ code \in [Trusted -> Codes \cup {NoCode}]
    /\ now \in Times
    /\ faults \in 0..MaxFaults
    /\ crashes \in 0..MaxCrashes
    /\ alarm \in [Instances -> BOOLEAN]
    /\ resolved \subseteq [from : Times, to : Times]

\* NewCustodyGuard on every instance; an earlier run of the signer may have
\* left an incident behind.
Init ==
    /\ locked = [i \in Instances |-> FALSE]
    /\ pc = [i \in Instances |-> "boot"]
    /\ alive = [i \in Instances |-> TRUE]
    /\ tag = [i \in Instances |-> "pending"]
    /\ todo = [i \in Instances |-> {}]
    /\ hashes = [i \in Instances |-> [d \in Trusted |-> NoCode]]
    /\ incident \in {NoIncident, 0}
    /\ call \in [Operators -> [step : {"idle"}, at : Instances]]
    /\ where = [tx \in SetCodeTxs |-> "unseen"]
    /\ code \in [Trusted -> Codes \cup {NoCode}]
    /\ now = 0
    /\ faults = 0
    /\ crashes = 0
    /\ alarm = [i \in Instances |-> FALSE]
    /\ resolved = {}

-----------------------------------------------------------------------------
(***************************************************************************)
(* Outcomes of a call of the store or of a node.                           *)
(***************************************************************************)
Fault(o) ==
    /\ o \in {"ok", "failed", "unknown"}
    /\ o # "ok" => faults < MaxFaults
    /\ faults' = IF o = "ok" THEN faults ELSE faults + 1

Goto(i, label) == pc' = [pc EXCEPT ![i] = label]

\* locked.Store(true)
SetFlag(i) == locked' = [locked EXCEPT ![i] = TRUE]

\* The guard has found a risk and calls Lock.
Detect(i) ==
    /\ Goto(i, "lock")
    /\ alarm' = [alarm EXCEPT ![i] = TRUE]

-----------------------------------------------------------------------------
(***************************************************************************)
(* Start.                                                                  *)
(***************************************************************************)

\* Mutant: the incident is read and the flag is not set.
LoadIncidentSkipsFlag(i) ==
    /\ pc[i] = "boot"
    /\ Goto(i, "hashes")
    /\ \E o \in {"ok", "failed"} : Fault(o)
    /\ UNCHANGED <<locked, alive, tag, todo, hashes, incident, call, world,
                   crashes, history>>

\* An active incident sets the flag; an error of the store is ignored.
LoadIncident(i) ==
    /\ pc[i] = "boot"
    /\ Goto(i, "hashes")
    /\ \E o \in {"ok", "failed"} :
         /\ Fault(o)
         /\ IF o = "ok" /\ incident # NoIncident
            THEN SetFlag(i) ELSE UNCHANGED locked
    /\ UNCHANGED <<alive, tag, todo, hashes, incident, call, world, crashes,
                   history>>

\* No node answers for a delegate, or a delegate has no bytecode: Lock, and
\* Start returns, so that this process never scans.
LoadTrustedDelegateHashes(i) ==
    /\ pc[i] = "hashes"
    /\ \E o \in {"ok", "failed"} :
         /\ Fault(o)
         /\ IF o = "ok" /\ \A d \in Trusted : code[d] # NoCode
            THEN /\ hashes' = [hashes EXCEPT ![i] = [d \in Trusted |-> code[d]]]
                 /\ Goto(i, "scan")
                 /\ UNCHANGED <<alive, alarm>>
            ELSE /\ alive' = [alive EXCEPT ![i] = FALSE]
                 /\ Detect(i)
                 /\ UNCHANGED hashes
    /\ UNCHANGED <<locked, tag, todo, incident, call, world, crashes,
                   resolved>>

-----------------------------------------------------------------------------
(***************************************************************************)
(* scanOnce: one tag after the other, at every tick of an unlocked guard.  *)
(***************************************************************************)

\* Mutant: the loop over the tags ends after the first.
NextTagPendingOnly(i) ==
    /\ Goto(i, "scan")
    /\ tag' = [tag EXCEPT ![i] = "pending"]
    /\ todo' = [todo EXCEPT ![i] = {}]

\* The end of a tag: the other one, unless the guard is locked.
NextTag(i) ==
    /\ Goto(i, "scan")
    /\ tag' = [tag EXCEPT ![i] = IF tag[i] = "pending" /\ ~locked[i]
                                 THEN "latest" ELSE "pending"]
    /\ todo' = [todo EXCEPT ![i] = {}]

\* eth_getBlockByNumber of the first node that answers.
ScanBlockTag(i) ==
    /\ pc[i] = "scan"
    /\ ~locked[i]
    /\ \E o \in {"ok", "failed"} :
         /\ Fault(o)
         /\ IF o = "ok"
            THEN /\ todo' = [todo EXCEPT ![i] =
                               {tx \in SetCodeTxs : where[tx] = tag[i]}]
                 /\ Goto(i, "inspect")
                 /\ UNCHANGED tag
            ELSE NextTag(i)
    /\ UNCHANGED <<locked, alive, hashes, incident, call, world, crashes,
                   history>>

\* An authorization that needs no look at the chain to be refused.
Forbidden(tx) ==
    \E a \in tx.auths :
        /\ a.authority \in Protected
        /\ \/ Selectors # {} /\ tx.selector \notin Selectors
           \/ a.delegate \notin Trusted

\* Whether verifyDelegateHash is called for the transaction.
NeedsBytecode(tx) == \E a \in tx.auths : a.authority \in Protected

\* verifyDelegateHash finds a bytecode other than the one loaded.
Altered(i, tx) ==
    \E a \in tx.auths :
        /\ a.authority \in Protected
        /\ a.delegate \in Trusted
        /\ code[a.delegate] # hashes[i][a.delegate]

\* inspectTransaction for one transaction of the block, or the end of the
\* block; a bytecode that no node tells is a risk.
InspectTransaction(i) ==
    /\ pc[i] = "inspect"
    /\ \/ /\ todo[i] = {} \/ locked[i]
          /\ NextTag(i)
          /\ UNCHANGED <<faults, alarm>>
       \/ /\ ~locked[i]
          /\ \E tx \in todo[i], o \in {"ok", "failed"} :
               /\ Fault(o)
               /\ o = "failed" => NeedsBytecode(tx) /\ ~Forbidden(tx)
               /\ todo' = [todo EXCEPT ![i] = @ \ {tx}]
               /\ IF o = "failed" \/ Forbidden(tx) \/ Altered(i, tx)
                  THEN Detect(i)
                  ELSE UNCHANGED <<pc, alarm>>
          /\ UNCHANGED tag
    /\ UNCHANGED <<locked, alive, hashes, incident, call, world, crashes,
                   resolved>>

\* The read of the incident, and the dial and the call of scanBlockTag, are made
\* with the context.Background() that main gives Start: one that is never
\* answered stops the goroutine for good.  Every other call has a timeout.
GuardHangs(i) ==
    /\ pc[i] = "boot" \/ (pc[i] = "scan" /\ ~locked[i])
    /\ Goto(i, "hung")
    /\ faults < MaxFaults
    /\ faults' = faults + 1
    /\ UNCHANGED <<locked, alive, tag, todo, hashes, incident, call, world,
                   crashes, history>>

-----------------------------------------------------------------------------
(***************************************************************************)
(* Lock: the event, the flag, the incident, one after the other.           *)
(***************************************************************************)
AfterLock(i) == Goto(i, IF alive[i] THEN "inspect" ELSE "dead")

\* Mutant: only live mode locks.
LockFlagLiveOnly(i) ==
    /\ pc[i] = "lock"
    /\ IF Mode # "live"
       THEN AfterLock(i) /\ UNCHANGED locked
       ELSE Goto(i, "open") /\ SetFlag(i)
    /\ UNCHANGED <<alive, tag, todo, hashes, incident, call, world, faults,
                   crashes, history>>

\* In shadow mode Lock returns after the event.
LockFlag(i) ==
    /\ pc[i] = "lock"
    /\ IF Mode = "shadow"
       THEN AfterLock(i) /\ UNCHANGED locked
       ELSE Goto(i, "open") /\ SetFlag(i)
    /\ UNCHANGED <<alive, tag, todo, hashes, incident, call, world, faults,
                   crashes, history>>

\* Mutant: created_at holds the end of the cooldown.
OpenIncidentWithDeadline(i) ==
    /\ pc[i] = "open"
    /\ AfterLock(i)
    /\ incident' = IF incident # NoIncident THEN incident ELSE now + Cooldown
    /\ UNCHANGED <<locked, alive, tag, todo, hashes, call, world, faults,
                   crashes, history>>

\* OpenCustodyIncident: nothing happens when there is an active incident; an
\* error is only logged.
OpenCustodyIncident(i) ==
    /\ pc[i] = "open"
    /\ AfterLock(i)
    /\ \E o \in {"ok", "failed", "unknown"} :
         /\ Fault(o)
         /\ incident' = IF o = "failed" \/ incident # NoIncident
                        THEN incident ELSE now
    /\ UNCHANGED <<locked, alive, tag, todo, hashes, call, world, crashes,
                   history>>

-----------------------------------------------------------------------------
(***************************************************************************)
(* Unlock, called by the handler of /custody/unlock.                       *)
(***************************************************************************)
CallAt(o, step, i) == call' = [call EXCEPT ![o] = [step |-> step, at |-> i]]

CooldownOver(opened) == Cooldown > 0 => now - opened >= Cooldown

\* ActiveCustodyIncident and the cooldown; an error, or a cooldown that is
\* not over, ends the call with 423 and changes nothing.  Without an incident
\* there is no cooldown.
CheckIncident(o, i) ==
    /\ call[o].step = "idle"
    /\ \/ /\ incident = NoIncident
          /\ CallAt(o, "clear", i)
       \/ /\ incident # NoIncident
          /\ CooldownOver(incident)
          /\ CallAt(o, "resolve", i)
    /\ UNCHANGED <<guardVars, incident, world, faults, crashes, history>>

\* ResolveCustodyIncident resolves whatever is active now.
ResolveIncident(o) ==
    /\ call[o].step = "resolve"
    /\ \E out \in {"ok", "failed", "unknown"} :
         /\ Fault(out)
         /\ CallAt(o, IF out = "ok" THEN "clear" ELSE "idle", call[o].at)
         /\ IF out = "failed" \/ incident = NoIncident
            THEN UNCHANGED <<incident, resolved>>
            ELSE /\ incident' = NoIncident
                 /\ resolved' = resolved \cup {[from |-> incident, to |-> now]}
    /\ UNCHANGED <<guardVars, world, crashes, alarm>>

\* locked.Store(false)
ClearFlag(o) ==
    LET i == call[o].at IN
    /\ call[o].step = "clear"
    /\ CallAt(o, "idle", i)
    /\ locked' = [locked EXCEPT ![i] = FALSE]
    /\ alarm' = [alarm EXCEPT ![i] = FALSE]
    /\ UNCHANGED <<pc, alive, tag, todo, hashes, incident, world, faults,
                   crashes, resolved>>

-----------------------------------------------------------------------------
(***************************************************************************)
(* The world around the guard.                                             *)
(***************************************************************************)

\* A transaction enters the mempool, a block, and leaves the latest block.
Advance(tx) ==
    /\ \/ where[tx] = "unseen" /\ where' = [where EXCEPT ![tx] = "pending"]
       \/ where[tx] = "pending" /\ where' = [where EXCEPT ![tx] = "latest"]
       \/ where[tx] = "latest" /\ where' = [where EXCEPT ![tx] = "past"]
    /\ UNCHANGED <<guardVars, incident, call, code, now, faults, crashes,
                   history>>

\* A delegate contract is replaced (an upgrade behind the same address).
ReplaceCode(d, c) ==
    /\ code[d] # NoCode
    /\ code[d] # c
    /\ code' = [code EXCEPT ![d] = c]
    /\ UNCHANGED <<guardVars, incident, call, where, now, faults, crashes,
                   history>>

Tick ==
    /\ now < MaxTime
    /\ now' = now + 1
    /\ UNCHANGED <<guardVars, incident, call, where, code, faults, crashes,
                   history>>

\* The process ends and is started again; the incident is in the store.
Crash(i) ==
    /\ crashes < MaxCrashes
    /\ crashes' = crashes + 1
    /\ locked' = [locked EXCEPT ![i] = FALSE]
    /\ pc' = [pc EXCEPT ![i] = "boot"]
    /\ alive' = [alive EXCEPT ![i] = TRUE]
    /\ tag' = [tag EXCEPT ![i] = "pending"]
    /\ todo' = [todo EXCEPT ![i] = {}]
    /\ hashes' = [hashes EXCEPT ![i] = [d \in Trusted |-> NoCode]]
    /\ alarm' = [alarm EXCEPT ![i] = FALSE]
    /\ call' = [o \in Operators |->
                  IF call[o].at = i THEN [call[o] EXCEPT !.step = "idle"]
                                    ELSE call[o]]
    /\ UNCHANGED <<incident, world, faults, resolved>>

\* A step of the goroutine of Start.
Start(i) ==
    \/ LoadIncident(i) \/ LoadTrustedDelegateHashes(i)
    \/ ScanBlockTag(i) \/ InspectTransaction(i)
    \/ LockFlag(i) \/ OpenCustodyIncident(i) \/ GuardHangs(i)

Unlock(o) ==
    (\E i \in Instances : CheckIncident(o, i)) \/ ResolveIncident(o) \/ ClearFlag(o)

Next ==
    \/ \E i \in Instances : Start(i) \/ Crash(i)
    \/ \E o \in Operators : Unlock(o)
    \/ \E tx \in SetCodeTxs : Advance(tx)
    \/ \E d \in Trusted, c \in Codes : ReplaceCode(d, c)
    \/ Tick

Spec == Init /\ [][Next]_vars

-----------------------------------------------------------------------------
(***************************************************************************)
(* Properties.                                                             *)
(***************************************************************************)

\* A risk that was detected keeps the instance locked until an operator
\* unlocks it: a forbidden delegate or selector, a changed or unverifiable
\* bytecode and hashes that cannot be loaded all end in Lock, and no failure
\* of the store, transaction of the same block or other instance undoes it.
FailClosed ==
    Mode # "shadow" =>
        \A i \in Instances : alarm[i] /\ pc[i] # "lock" => locked[i]

\* An incident is active for at least the cooldown before an unlock resolves it
\* (Unlock compares the age of the incident that it read).
IncidentCooldown == \A r \in resolved : r.to - r.from >= Cooldown

\* While an incident is active, an instance that is past the start of its
\* guard refuses to sign: a detection and an unlock never leave the flag clear
\* under an incident (one instance, no faults).
IncidentLocks ==
    Mode # "shadow" /\ incident # NoIncident =>
        \A i \in Instances : pc[i] # "boot" => locked[i]

Suspicious(i, tx) == Forbidden(tx) \/ Altered(i, tx)

\* A suspicious transaction that an instance with a running scanner can see
\* makes it lock, unless the transaction is out of sight before or a call that
\* has no timeout hangs (scanOnce, inspectTransaction and Lock).
ThreatLocks ==
    Mode # "shadow" =>
        \A i \in Instances, tx \in SetCodeTxs :
            /\ where[tx] \in {"pending", "latest"}
            /\ Suspicious(i, tx)
            /\ pc[i] \in {"scan", "inspect"}
            ~> \/ locked[i] \/ where[tx] = "past" \/ ~Suspicious(i, tx)
               \/ pc[i] = "hung"
=============================================================================
