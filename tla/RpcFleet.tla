------------------------------ MODULE RpcFleet ------------------------------
(***************************************************************************)
(* The RPC fleet of an instance (rpc_fleet.go): which endpoints a signing  *)
(* request tries.  sendCandidates scores the endpoints one after the       *)
(* other, each under its own mutex; when none is usable it clears the      *)
(* cooldowns and scores again; it reserves the best two and the request    *)
(* tries them in turn, reporting how each one did.  Requests run           *)
(* concurrently, so that between two steps of one the endpoints may be     *)
(* reserved, cooled down, cleared or disabled by another.                  *)
(*                                                                         *)
(* The score orders the usable endpoints by latency, failures and load.    *)
(* Which two are best is left open here; what makes an endpoint unusable,  *)
(* and for how long, is not.                                               *)
(***************************************************************************)
EXTENDS Integers, Sequences, FiniteSets

CONSTANTS
    N,                  \* the endpoints are 1..N, in the order of the slice
    Requests,           \* signing requests of the instance
    Kinds,              \* the kinds of failure that happen
    BurstWindow,        \* rpcBurstWindow
    BurstLimit,         \* reservations whose cost reaches rpcBurstCapacity*2
    BurstCooldown,      \* 900 ms
    FailureDecay,       \* rpcFailureDecay
    RemoteCooldown,     \* 500 ms
    TransportCooldown,  \* 700 ms
    TimeoutUnit,        \* 400 ms, doubled up to
    TimeoutShift,       \*   5 times
    RateUnit,           \* 2 s, doubled up to
    RateShift,          \*   4 times
    ExhaustedCooldown,  \* 24 h
    MaxCooldown,        \* 45 s
    MaxInFlight,        \* bound on the requests under way at a time
    MaxTime             \* bound on the clock

Endpoints == 1..N

\* What classifyRPCFailure makes of the text of an error.
FailureKinds ==
    {"remote", "timeout", "rateLimited", "capacityExhausted", "transport"}

ASSUME FleetAssumption ==
    /\ N \in Nat \ {0}
    /\ Kinds \subseteq FailureKinds
    /\ {BurstWindow, BurstCooldown, RemoteCooldown, TransportCooldown,
        TimeoutUnit, TimeoutShift, RateUnit, RateShift, ExhaustedCooldown,
        MaxCooldown, MaxInFlight, MaxTime} \subseteq Nat
    /\ BurstLimit \in Nat \ {0}
    /\ FailureDecay \in Nat \ {0}

VARIABLES
    now,                \* time.Now()
    cooldownUntil,      \* endpoint -> end of its cooldown, 0 is none
    disabled,           \* endpoint -> its capacity was found exhausted
    rateLimitFailures,  \* endpoint -> recent failures of this kind
    timeoutFailures,
    lastFailureDecay,
    reservations,       \* endpoint -> recentReservations
    pc,                 \* request -> where it is
    at,                 \* request -> the now of its sendCandidates
    next,               \* request -> the endpoint the loop is at
    found,              \* request -> candidates
    handles,            \* request -> handles still to be tried
    ready,              \* history: endpoints usable when the call began
    banned,             \* history: endpoints disabled when the call began
    touched             \* history: endpoints another request changed since

state == <<cooldownUntil, disabled, rateLimitFailures, timeoutFailures,
           lastFailureDecay, reservations>>
locals == <<at, next, found, handles>>
history == <<ready, banned, touched>>
vars == <<now, state, pc, locals, history>>

\* Inside sendCandidates.
Selecting == {"score", "clear", "rescore", "reserve"}

Labels == {"new", "try", "sent", "failed", "noRPC"} \cup Selecting

Reservation == [req : Requests, at : 0..MaxTime]

TypeOK ==
    /\ now \in 0..MaxTime
    /\ cooldownUntil \in [Endpoints -> Nat]
    /\ disabled \in [Endpoints -> BOOLEAN]
    /\ rateLimitFailures \in [Endpoints -> Nat]
    /\ timeoutFailures \in [Endpoints -> Nat]
    /\ lastFailureDecay \in [Endpoints -> 0..MaxTime]
    /\ reservations \in [Endpoints -> SUBSET Reservation]
    /\ pc \in [Requests -> Labels]
    /\ at \in [Requests -> 0..MaxTime]
    /\ next \in [Requests -> Nat \ {0}]
    /\ found \in [Requests -> SUBSET Endpoints]
    /\ handles \in [Requests -> Seq(Endpoints)]
    /\ ready \in [Requests -> SUBSET Endpoints]
    /\ banned \in [Requests -> SUBSET Endpoints]
    /\ touched \in [Requests -> SUBSET Endpoints]

\* newRPCFleet: the endpoints have different URLs, and there is one at least.
Init ==
    /\ now = 0
    /\ cooldownUntil = [e \in Endpoints |-> 0]
    /\ disabled = [e \in Endpoints |-> FALSE]
    /\ rateLimitFailures = [e \in Endpoints |-> 0]
    /\ timeoutFailures = [e \in Endpoints |-> 0]
    /\ lastFailureDecay = [e \in Endpoints |-> 0]
    /\ reservations = [e \in Endpoints |-> {}]
    /\ pc = [q \in Requests |-> "new"]
    /\ at = [q \in Requests |-> 0]
    /\ next = [q \in Requests |-> 1]
    /\ found = [q \in Requests |-> {}]
    /\ handles = [q \in Requests |-> <<>>]
    /\ ready = [q \in Requests |-> {}]
    /\ banned = [q \in Requests |-> {}]
    /\ touched = [q \in Requests |-> {}]

-----------------------------------------------------------------------------
(***************************************************************************)
(* What every method does to an endpoint at time t.                        *)
(***************************************************************************)

\* prune: the reservations that still count.
Recent(e, t) == {r \in reservations[e] : t - r.at <= BurstWindow}

\* The periods of decay since the last one; t may be the time of a call that
\* began before it.
DecaySteps(e, t) ==
    IF t < lastFailureDecay[e] THEN 0
    ELSE (t - lastFailureDecay[e]) \div FailureDecay

\* minUint32
AtMost(value, bound) == IF value > bound THEN bound ELSE value

\* Mutant: the subtraction does not stop at 0.
LessWraps(value, amount) == value - amount

\* subtractUint32
Less(value, amount) == IF amount > value THEN 0 ELSE value - amount

\* decay
Decayed(e, t) ==
    [rate |-> Less(rateLimitFailures[e], 4 * DecaySteps(e, t)),
     timeout |-> Less(timeoutFailures[e], 2 * DecaySteps(e, t)),
     last |-> lastFailureDecay[e] + DecaySteps(e, t) * FailureDecay]

\* prune and decay, with nothing else changed.
Refresh(e, t) ==
    /\ reservations' = [reservations EXCEPT ![e] = Recent(e, t)]
    /\ rateLimitFailures' = [rateLimitFailures EXCEPT ![e] = Decayed(e, t).rate]
    /\ timeoutFailures' = [timeoutFailures EXCEPT ![e] = Decayed(e, t).timeout]
    /\ lastFailureDecay' = [lastFailureDecay EXCEPT ![e] = Decayed(e, t).last]

\* Mutant: the disabled flag is not looked at.
UsableIgnoresDisabled(e, t) == cooldownUntil[e] <= t

\* The second value of score.
Usable(e, t) == ~disabled[e] /\ cooldownUntil[e] <= t

\* The calls of other requests that are under way see q change e.
Touch(q, e) ==
    [r \in Requests |-> IF r # q /\ pc[r] \in Selecting
                        THEN touched[r] \cup {e} ELSE touched[r]]

-----------------------------------------------------------------------------
(***************************************************************************)
(* sendCandidates.                                                         *)
(***************************************************************************)
Goto(q, label) == pc' = [pc EXCEPT ![q] = label]

Begin(q) ==
    /\ pc[q] = "new"
    /\ Cardinality({r \in Requests : pc[r] \in Selecting \cup {"try"}})
         < MaxInFlight
    /\ Goto(q, "score")
    /\ at' = [at EXCEPT ![q] = now]
    /\ ready' = [ready EXCEPT ![q] = {e \in Endpoints : Usable(e, now)}]
    /\ banned' = [banned EXCEPT ![q] = {e \in Endpoints : disabled[e]}]
    /\ UNCHANGED <<now, state, next, found, handles, touched>>

\* What may be left of S after the sort, the cut to two and the rotation: two
\* of them in either order, or all when there are fewer.
Rankings(S) ==
    {h \in [1..AtMost(Cardinality(S), 2) -> S] :
        \A i, j \in DOMAIN h : h[i] = h[j] => i = j}

\* The sort, the cut and the rotation, which look at nothing shared but the
\* rotation counter: S becomes the handles.
ChooseFrom(q, S) ==
    /\ \E h \in Rankings(S) :
         /\ handles' = [handles EXCEPT ![q] = h]
         /\ Goto(q, IF S = {} THEN "noRPC" ELSE "reserve")
    /\ next' = [next EXCEPT ![q] = 1]
    /\ found' = [found EXCEPT ![q] = {}]

\* score of the endpoint the loop is at: the candidates with it.
Scored(q) ==
    IF Usable(next[q], at[q]) THEN found[q] \cup {next[q]} ELSE found[q]

\* The loop goes on to the next endpoint.
NextEndpoint(q, label) ==
    /\ Goto(q, label)
    /\ next' = [next EXCEPT ![q] = @ + 1]
    /\ found' = [found EXCEPT ![q] = Scored(q)]
    /\ UNCHANGED handles

\* Mutant: the second loop begins with the second endpoint.
FallbackSkips(q) ==
    /\ Goto(q, "clear")
    /\ next' = [next EXCEPT ![q] = AtMost(2, N)]
    /\ UNCHANGED <<found, handles>>

\* The second loop begins.
Fallback(q) ==
    /\ Goto(q, "clear")
    /\ next' = [next EXCEPT ![q] = 1]
    /\ UNCHANGED <<found, handles>>

\* Mutant: the cooldowns are cleared whether or not something was found.
ScoreAlwaysClears(q) ==
    /\ pc[q] = "score"
    /\ Refresh(next[q], at[q])
    /\ IF next[q] < N THEN NextEndpoint(q, "score") ELSE Fallback(q)
    /\ UNCHANGED <<now, cooldownUntil, disabled, at, history>>

\* A round of the first loop; after the last one, the second loop when
\* nothing was found.
Score(q) ==
    /\ pc[q] = "score"
    /\ Refresh(next[q], at[q])
    /\ IF next[q] < N THEN NextEndpoint(q, "score")
       ELSE IF Scored(q) = {} THEN Fallback(q)
       ELSE ChooseFrom(q, Scored(q))
    /\ UNCHANGED <<now, cooldownUntil, disabled, at, history>>

\* A round of the second loop clears a cooldown and releases the mutex ...
Clear(q) ==
    /\ pc[q] = "clear"
    /\ Goto(q, "rescore")
    /\ cooldownUntil' = [cooldownUntil EXCEPT ![next[q]] = 0]
    /\ touched' = Touch(q, next[q])
    /\ UNCHANGED <<now, disabled, rateLimitFailures, timeoutFailures,
                   lastFailureDecay, reservations, locals, ready, banned>>

\* ... and scores the endpoint.
Rescore(q) ==
    /\ pc[q] = "rescore"
    /\ Refresh(next[q], at[q])
    /\ IF next[q] < N THEN NextEndpoint(q, "clear")
                      ELSE ChooseFrom(q, Scored(q))
    /\ UNCHANGED <<now, cooldownUntil, disabled, at, history>>

\* reserve of one handle after the other; next counts them.  A full window
\* sets the cooldown anew, whatever it was.
Reserve(q) ==
    LET e == handles[q][next[q]]
        r == Recent(e, at[q]) \cup {[req |-> q, at |-> at[q]]}
    IN
    /\ pc[q] = "reserve"
    /\ reservations' = [reservations EXCEPT ![e] = r]
    /\ cooldownUntil' = IF Cardinality(r) >= BurstLimit
                        THEN [cooldownUntil EXCEPT ![e] = at[q] + BurstCooldown]
                        ELSE cooldownUntil
    /\ touched' = Touch(q, e)
    /\ IF next[q] = Len(handles[q])
       THEN Goto(q, "try") /\ next' = [next EXCEPT ![q] = 1]
       ELSE UNCHANGED pc /\ next' = [next EXCEPT ![q] = @ + 1]
    /\ UNCHANGED <<now, disabled, rateLimitFailures, timeoutFailures,
                   lastFailureDecay, at, found, handles, ready, banned>>

-----------------------------------------------------------------------------
(***************************************************************************)
(* The loop over the handles, and what it reports.                         *)
(***************************************************************************)

\* The request ends, and its variables with it.
End(q, label) ==
    /\ Goto(q, label)
    /\ at' = [at EXCEPT ![q] = 0]
    /\ next' = [next EXCEPT ![q] = 1]
    /\ handles' = [handles EXCEPT ![q] = <<>>]
    /\ ready' = [ready EXCEPT ![q] = {}]
    /\ banned' = [banned EXCEPT ![q] = {}]

\* The current handle signs and sends: recordSuccess.  A cooldown that another
\* request has set meanwhile stays until it is over.
RecordSuccess(q) ==
    LET e == handles[q][next[q]] IN
    /\ pc[q] = "try"
    /\ End(q, "sent")
    /\ reservations' = [reservations EXCEPT ![e] = Recent(e, now)]
    /\ rateLimitFailures' =
         [rateLimitFailures EXCEPT ![e] = Less(Decayed(e, now).rate, 1)]
    /\ timeoutFailures' =
         [timeoutFailures EXCEPT ![e] = Less(Decayed(e, now).timeout, 1)]
    /\ lastFailureDecay' = [lastFailureDecay EXCEPT ![e] = Decayed(e, now).last]
    /\ cooldownUntil' = IF cooldownUntil[e] < now
                        THEN [cooldownUntil EXCEPT ![e] = 0] ELSE cooldownUntil
    /\ touched' = [(IF cooldownUntil' = cooldownUntil THEN touched ELSE Touch(q, e))
                     EXCEPT ![q] = {}]
    /\ UNCHANGED <<now, disabled, found>>

\* The cooldown of a failure, with the counters after it.
CooldownOf(kind, rate, timeout) ==
    CASE kind = "rateLimited"       -> RateUnit * 2 ^ AtMost(rate, RateShift)
      [] kind = "capacityExhausted" -> ExhaustedCooldown
      [] kind = "timeout"           -> TimeoutUnit * 2 ^ AtMost(timeout, TimeoutShift)
      [] kind = "transport"         -> TransportCooldown
      [] OTHER                      -> RemoteCooldown

\* What a failure of the kind adds to rateLimitFailures.
RatePenalty(kind) ==
    CASE kind = "rateLimited"       -> 1
      [] kind = "capacityExhausted" -> 10
      [] OTHER                      -> 0

\* Mutant: the length of a cooldown is not bounded.
UncappedEnd(e, kind, rate, timeout) ==
    IF cooldownUntil[e] < now + CooldownOf(kind, rate, timeout)
    THEN now + CooldownOf(kind, rate, timeout) ELSE cooldownUntil[e]

\* The end of the cooldown after a failure: never earlier than it was.
CooldownEnd(e, kind, rate, timeout) ==
    LET until == now + AtMost(CooldownOf(kind, rate, timeout), MaxCooldown)
    IN  IF cooldownUntil[e] < until THEN until ELSE cooldownUntil[e]

\* The current handle fails, in any way that classifyRPCFailure tells apart:
\* recordFailure, and the next handle.
RecordFailure(q, kind) ==
    LET e == handles[q][next[q]]
        rate == Decayed(e, now).rate + RatePenalty(kind)
        timeout == Decayed(e, now).timeout + (IF kind = "timeout" THEN 1 ELSE 0)
    IN
    /\ pc[q] = "try"
    /\ reservations' = [reservations EXCEPT ![e] = Recent(e, now)]
    /\ rateLimitFailures' = [rateLimitFailures EXCEPT ![e] = rate]
    /\ timeoutFailures' = [timeoutFailures EXCEPT ![e] = timeout]
    /\ lastFailureDecay' = [lastFailureDecay EXCEPT ![e] = Decayed(e, now).last]
    /\ disabled' = [disabled EXCEPT ![e] = @ \/ kind = "capacityExhausted"]
    /\ cooldownUntil' =
         [cooldownUntil EXCEPT ![e] = CooldownEnd(e, kind, rate, timeout)]
    /\ IF next[q] < Len(handles[q])
       THEN /\ next' = [next EXCEPT ![q] = @ + 1]
            /\ touched' = Touch(q, e)
            /\ UNCHANGED <<pc, at, handles, ready, banned>>
       ELSE /\ End(q, "failed")
            /\ touched' = [Touch(q, e) EXCEPT ![q] = {}]
    /\ UNCHANGED <<now, found>>

-----------------------------------------------------------------------------
\* Time passes.  A call of sendCandidates takes less than FailureDecay (20 s).
Tick ==
    /\ now < MaxTime
    /\ \A q \in Requests : pc[q] \in Selecting => now + 1 < at[q] + FailureDecay
    /\ now' = now + 1
    /\ UNCHANGED <<state, pc, locals, history>>

SendCandidates(q) ==
    Begin(q) \/ Score(q) \/ Clear(q) \/ Rescore(q) \/ Reserve(q)

Next ==
    \/ \E q \in Requests : SendCandidates(q) \/ RecordSuccess(q)
    \/ \E q \in Requests, kind \in Kinds : RecordFailure(q, kind)
    \/ Tick

Spec == Init /\ [][Next]_vars

-----------------------------------------------------------------------------
(***************************************************************************)
(* Properties.                                                             *)
(***************************************************************************)

\* A request that ends without any endpoint to try found every endpoint
\* disabled, or changed by another request while it was looking: a cooldown
\* alone never leaves a request empty-handed (the second loop of
\* sendCandidates).
NeverEmptyHanded ==
    \A q \in Requests :
        pc[q] = "noRPC" => Endpoints \subseteq banned[q] \cup touched[q]

\* An endpoint disabled before the call began is not among the handles,
\* whatever cooldowns are cleared and rescored meanwhile.
DisabledStaysOut ==
    \A q \in Requests : \A h \in DOMAIN handles[q] : handles[q][h] \notin banned[q]

\* A cooldown is overruled only in need: when an endpoint was usable
\* throughout the call, no endpoint that was cooling down throughout the call
\* is handed out.
CooldownRespected ==
    \A q \in Requests :
        ready[q] \ touched[q] # {} =>
            \A h \in DOMAIN handles[q] : handles[q][h] \in ready[q] \cup touched[q]

\* No endpoint is kept out longer than MaxCooldown, however many failures it
\* has had (the doubling in recordFailure).
CooldownBounded ==
    BurstCooldown <= MaxCooldown =>
        \A e \in Endpoints : cooldownUntil[e] <= now + MaxCooldown
=============================================================================
