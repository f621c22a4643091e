-------------------------- MODULE GuardedHandlers --------------------------
(***************************************************************************)
(* The custody guard together with the handlers it guards (main.go): a     *)
(* signing handler reads the flag of its instance once, when the request   *)
(* arrives, and then runs to its end whatever the guard finds meanwhile.   *)
(* The handlers of an instance are served from the moment the process      *)
(* listens, which is not later than the first step of the guard.           *)
(***************************************************************************)
EXTENDS CustodyGuard

VARIABLES
    running,   \* instance -> a signing request is being executed
    inherited  \* history: instance -> it was started under an incident that
               \* is still active, and its guard did not fail to read it

handlers == <<running, inherited>>
guardedVars == <<vars, handlers>>

GuardedTypeOK ==
    /\ TypeOK
    /\ running \in [Instances -> BOOLEAN]
    /\ inherited \in [Instances -> BOOLEAN]

GuardedInit ==
    /\ Init
    /\ running = [i \in Instances |-> FALSE]
    /\ inherited = [i \in Instances |-> incident # NoIncident]

-----------------------------------------------------------------------------
\* Mutant: the flag is not looked at.
BeginUnchecked(i) ==
    /\ ~running[i]
    /\ running' = [running EXCEPT ![i] = TRUE]
    /\ UNCHANGED <<vars, inherited>>

\* Locked() is false when a request arrives; 423 otherwise.
Begin(i) ==
    /\ ~running[i]
    /\ ~locked[i]
    /\ running' = [running EXCEPT ![i] = TRUE]
    /\ UNCHANGED <<vars, inherited>>

\* The handler has replied; it has not looked at the flag again.
Finish(i) ==
    /\ running[i]
    /\ running' = [running EXCEPT ![i] = FALSE]
    /\ UNCHANGED <<vars, inherited>>

-----------------------------------------------------------------------------
(***************************************************************************)
(* The steps of the guard, and what they are to the handlers.              *)
(***************************************************************************)
GuardRuns(i) ==
    /\ Start(i)
    /\ inherited' = [inherited EXCEPT ![i] =
                       @ /\ (pc[i] = "boot" => faults' = faults)]
    /\ UNCHANGED running

OperatorUnlocks(o) ==
    /\ Unlock(o)
    /\ inherited' = [i \in Instances |-> inherited[i] /\ incident' = incident]
    /\ UNCHANGED running

\* The process ends with its requests and is started again.
Restart(i) ==
    /\ Crash(i)
    /\ running' = [running EXCEPT ![i] = FALSE]
    /\ inherited' = [inherited EXCEPT ![i] = incident # NoIncident]

WorldMoves ==
    /\ \/ \E tx \in SetCodeTxs : Advance(tx)
       \/ \E d \in Trusted, c \in Codes : ReplaceCode(d, c)
       \/ Tick
    /\ UNCHANGED handlers

GuardedNext ==
    \/ \E i \in Instances : GuardRuns(i) \/ Restart(i) \/ Begin(i) \/ Finish(i)
    \/ \E o \in Operators : OperatorUnlocks(o)
    \/ WorldMoves

GuardedSpec == GuardedInit /\ [][GuardedNext]_guardedVars

\* The ticker of the guard fires again and again, and what it calls returns or
\* times out, unless the guard hangs in a call that has no timeout.  Nothing
\* makes it hang, and nothing makes it go on when it does; nor is there anything
\* that makes an operator act, a request end or a transaction move.
GuardedFairSpec ==
    GuardedSpec
    /\ \A i \in Instances : WF_guardedVars(GuardRuns(i) /\ pc'[i] # "hung")

-----------------------------------------------------------------------------
(***************************************************************************)
(* Properties.                                                             *)
(***************************************************************************)

\* Between the lock that follows a detection and the unlock of an operator no
\* request begins, on any of the three routes, whatever fails meanwhile.
NoneBeginsAfterAlarm ==
    [][\A i \in Instances :
        ~running[i] /\ running'[i] /\ alarm[i] =>
            Mode = "shadow" \/ pc[i] = "lock"]_guardedVars

\* A process that is started under an incident signs only in the moments
\* before Start has read the incident: neither the steps of the guard nor an
\* unlock of something else lets a request begin while it is active.
OnlyBeforeBoot ==
    [][\A i \in Instances :
        ~running[i] /\ running'[i] /\ inherited[i] => pc[i] = "boot"]_guardedVars
=============================================================================
