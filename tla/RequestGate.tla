----------------------------- MODULE RequestGate -----------------------------
(***************************************************************************)
(* What stands between the network and a protected handler: the middleware *)
(* (internal/security: HMAC and clock skew, nonce, rate limit, required    *)
(* credentials) and the AcceptNonce with which every protected handler     *)
(* begins (store.go).                                                      *)
(*                                                                         *)
(* A message is what a client signed; a delivery is one arrival of it.     *)
(* The network, or a client that got no answer, may deliver a message      *)
(* several times, late, and to several instances.  Each call of a nonce    *)
(* table is a step.  Time is in half seconds, so that the whole seconds of *)
(* the timestamps and the exact times of the tables can differ.            *)
(***************************************************************************)
EXTENDS Integers, FiniteSets

CONSTANTS
    Instances,   \* signer processes
    Deliveries,  \* arrivals of requests
    Msg,         \* delivery -> the message delivered
    Host,        \* delivery -> the instance it arrives at
    Nonces,      \* x-nonce headers
    NoNonce,     \* no such header
    Clients,     \* keys of the rate limiter: API key or address
    Configs,     \* configurations the signer may be started with
    Skew,        \* HMAC_MAX_SKEW_SEC
    RateLimit,   \* RATE_LIMIT_PER_MIN
    RateWindow,  \* GetRateWindow, in half seconds
    Offset,      \* instance -> how far its clock is ahead of the stores'
    MaxDrift,    \* bound on the offsets
    MaxDelay,    \* bound on the time from the skew check to AcceptNonce
    Shared,      \* the table all instances share (Redis, Postgres)
    MaxTime,     \* bound on the clock
    MaxFaults,   \* bound on failures of Redis and Postgres
    MaxCrashes   \* bound on crashes

\* signature tells what validateWithSecret tells apart: "active" and "old" are
\* made with these secrets, "foreign" with another, "none" is no header.
Message ==
    [ts : Nat, nonce : Nonces \cup {NoNonce}, client : Clients,
     signature : {"active", "old", "foreign", "none"}, apiKey : BOOLEAN]

Config ==
    [nonceStore : {"memory", "redis"}, signerStore : {"memory", "postgres"},
     limiter : {"token_bucket", "sliding_window"}, ttlSeconds : Int,
     oldSecret : BOOLEAN, requireHMAC : BOOLEAN, requireNonce : BOOLEAN,
     requireAPIKey : BOOLEAN]

ASSUME GateAssumption ==
    /\ Msg \in [Deliveries -> Message]
    /\ Host \in [Deliveries -> Instances]
    /\ NoNonce \notin Nonces
    /\ Configs \subseteq Config
    /\ Configs # {}
    /\ Skew \in Nat
    /\ RateLimit \in Nat \ {0}
    /\ RateWindow \in Nat \ {0}
    /\ MaxDrift \in Nat
    /\ Offset \in [Instances -> 0..MaxDrift]
    /\ MaxDelay \in Nat
    /\ Shared \notin Instances
    /\ MaxTime \in Nat
    /\ MaxFaults \in Nat
    /\ MaxCrashes \in Nat

VARIABLES
    config,     \* what LoadSignerConfig found
    now,        \* the clock of the stores, in half seconds
    pc,         \* delivery -> where it is
    checkedAt,  \* delivery -> when its timestamp was checked
    seen,       \* the NonceStore of the middleware: table -> nonce -> expiry
    reaper,     \* delivery -> its Exists started a Delete still to run
    accepted,   \* signer_nonces: table -> nonce -> expiry
    meter,      \* the rate limiter: instance -> client -> bucket or window
    allowed,    \* history: what the limiters let through since their start
    faults, crashes

tables == <<seen, reaper, accepted>>
vars == <<config, now, pc, checkedAt, tables, meter, allowed, faults, crashes>>

\* No entry in a nonce table.
Free == -1

Tables == Instances \cup {Shared}

Expiry == Nat \cup {Free}

InFlight == {"exists", "store", "rate", "handler", "insert"}

Labels == {"new", "admitted", "refused", "lost"} \cup InFlight

\* A request and the time at which the rate limiter saw it.
Passage == [id : Deliveries, at : Nat]

Meter ==
    [known : BOOLEAN, tokens : Nat, last : Nat, requests : SUBSET Passage]

NewMeter == [known |-> FALSE, tokens |-> 0, last |-> 0, requests |-> {}]

TypeOK ==
    /\ config \in Configs
    /\ now \in 0..MaxTime
    /\ pc \in [Deliveries -> Labels]
    /\ checkedAt \in [Deliveries -> 0..MaxTime]
    /\ seen \in [Tables -> [Nonces -> Expiry]]
    /\ reaper \in [Deliveries -> BOOLEAN]
    /\ accepted \in [Tables -> [Nonces \cup {NoNonce} -> Expiry]]
    /\ meter \in [Instances -> [Clients -> Meter]]
    /\ allowed \subseteq Passage
    /\ faults \in 0..MaxFaults
    /\ crashes \in 0..MaxCrashes

Init ==
    /\ config \in Configs
    /\ now = 0
    /\ pc = [d \in Deliveries |-> "new"]
    /\ checkedAt = [d \in Deliveries |-> 0]
    /\ seen = [t \in Tables |-> [n \in Nonces |-> Free]]
    /\ reaper = [d \in Deliveries |-> FALSE]
    /\ accepted = [t \in Tables |-> [n \in Nonces \cup {NoNonce} |-> Free]]
    /\ meter = [i \in Instances |-> [c \in Clients |-> NewMeter]]
    /\ allowed = {}
    /\ faults = 0
    /\ crashes = 0

-----------------------------------------------------------------------------
(***************************************************************************)
(* Configuration and clocks.                                               *)
(***************************************************************************)

\* Mutant: the nonce is remembered for the accepted skew only.
SkewTTL == 2 * Skew

\* GetNonceTTL, in half seconds: a value that is not positive means 300 s.
NonceTTL == IF config.ttlSeconds <= 0 THEN 600 ELSE 2 * config.ttlSeconds

\* time.Now() of an instance, and its Unix().
Clock(i) == now + Offset[i]
Unix(i) == Clock(i) \div 2

\* Mutant: the difference is not made positive.
WithinSkewOneSided(d) == Unix(Host[d]) - Msg[d].ts <= Skew

\* The check of validateTimestampInputs: neither too old nor too far ahead.
WithinSkew(d) ==
    /\ Unix(Host[d]) - Msg[d].ts <= Skew
    /\ Msg[d].ts - Unix(Host[d]) <= Skew

\* ValidateHMAC and ValidateRawBodyHMAC: nonce and timestamp present and in
\* the window, and a signature of the active or the old secret.
SignatureValid(d) ==
    /\ WithinSkew(d)
    /\ Msg[d].nonce # NoNonce
    /\ \/ Msg[d].signature = "active"
       \/ Msg[d].signature = "old" /\ config.oldSecret

\* setupSecurity and openSignerStore: the tables an instance uses.
NonceTable(i) == IF config.nonceStore = "redis" THEN Shared ELSE i
SignerTable(i) == IF config.signerStore = "postgres" THEN Shared ELSE i

Entry(d) == seen[NonceTable(Host[d])][Msg[d].nonce]
Row(d) == accepted[SignerTable(Host[d])][Msg[d].nonce]

-----------------------------------------------------------------------------
\* Go on to label with t as the time of the check, which goes out of scope
\* when the delivery is refused.
Proceed(d, label, t) ==
    /\ pc' = [pc EXCEPT ![d] = label]
    /\ checkedAt' = [checkedAt EXCEPT ![d] = IF label = "refused" THEN 0 ELSE t]

Goto(d, label) == Proceed(d, label, checkedAt[d])

\* A call of Redis or Postgres: applied, failed without effect, or applied and
\* not acknowledged.  The stores in memory do not fail.
Outcome(o, remote) ==
    /\ o \in {"ok", "failed", "unknown"}
    /\ o # "ok" => remote /\ faults < MaxFaults
    /\ faults' = IF o = "ok" THEN faults ELSE faults + 1

Redis == config.nonceStore = "redis"
Postgres == config.signerStore = "postgres"

-----------------------------------------------------------------------------
(***************************************************************************)
(* Middleware.Handler and ValidateRequest.                                 *)
(***************************************************************************)

\* The method is not allowed, the body is too large or cannot be read.
RefuseEarly(d) ==
    /\ pc[d] = "new"
    /\ Goto(d, "refused")
    /\ UNCHANGED <<config, now, tables, meter, allowed, faults,
                   crashes>>

\* The signature is looked at only when there is one; a request without a
\* signature goes on to consume its nonce.
CheckSignature(d) ==
    /\ pc[d] = "new"
    /\ Proceed(d, IF Msg[d].signature # "none" /\ ~SignatureValid(d)
                  THEN "refused"
                  ELSE IF Msg[d].nonce # NoNonce THEN "exists" ELSE "rate",
               now)
    /\ UNCHANGED <<config, now, tables, meter, allowed, faults, crashes>>

\* NonceStore.Exists.  The store in memory deletes an expired entry in a
\* goroutine of its own, at some later moment.
NonceExists(d) ==
    /\ pc[d] = "exists"
    /\ \E o \in {"ok", "failed"} :
         /\ Outcome(o, Redis)
         /\ Goto(d, IF o # "ok" \/ (Entry(d) # Free /\
                                    (IF Redis THEN now ELSE Clock(Host[d]))
                                        <= Entry(d))
                    THEN "refused" ELSE "store")
    /\ reaper' = [reaper EXCEPT ![d] =
                    ~Redis /\ Entry(d) # Free /\ Clock(Host[d]) > Entry(d)]
    /\ UNCHANGED <<config, now, seen, accepted, meter, allowed,
                   crashes>>

PutEntry(d, expiry) ==
    seen' = [seen EXCEPT ![NonceTable(Host[d])][Msg[d].nonce] = expiry]

\* InMemoryNonceStore.Store refuses an entry that is there, expired or not.
MemoryNonceStore(d) ==
    /\ ~Redis
    /\ IF Entry(d) # Free
       THEN Goto(d, "refused") /\ UNCHANGED seen
       ELSE /\ Goto(d, "rate")
            /\ PutEntry(d, Clock(Host[d]) + NonceTTL)
    /\ UNCHANGED faults

\* RedisNonceStore.Store: SET NX with a TTL, after which Redis drops the key.
RedisNonceStore(d) ==
    /\ Redis
    /\ \E o \in {"ok", "failed", "unknown"} :
         /\ Outcome(o, TRUE)
         /\ IF o = "failed" \/ (Entry(d) # Free /\ now <= Entry(d))
            THEN UNCHANGED seen ELSE PutEntry(d, now + NonceTTL)
         /\ Goto(d, IF o # "ok" \/ (Entry(d) # Free /\ now <= Entry(d))
                    THEN "refused" ELSE "rate")

NonceStore(d) ==
    /\ pc[d] = "store"
    /\ MemoryNonceStore(d) \/ RedisNonceStore(d)
    /\ UNCHANGED <<config, now, reaper, accepted, meter, allowed,
                   crashes>>

\* The goroutine that Exists started: it deletes whatever is there now.
NonceDelete(d) ==
    /\ reaper[d]
    /\ reaper' = [reaper EXCEPT ![d] = FALSE]
    /\ PutEntry(d, Free)
    /\ UNCHANGED <<config, now, pc, checkedAt, accepted, meter, allowed,
                   faults, crashes>>

-----------------------------------------------------------------------------
(***************************************************************************)
(* The rate limiter of an instance.  Tokens are counted in units of which  *)
(* a request costs RateWindow, so that the refill of one tick, RateLimit,  *)
(* is a whole number.                                                      *)
(***************************************************************************)
Lesser(a, b) == IF a < b THEN a ELSE b

\* TokenBucket: the bucket with the refill up to time t.
Refilled(m, t) ==
    [m EXCEPT !.known = TRUE,
              !.last = t,
              !.tokens = IF m.known
                         THEN Lesser(RateLimit * RateWindow,
                                     m.tokens + (t - m.last) * RateLimit)
                         ELSE RateLimit * RateWindow]

TokenBucketAllows(m, t) == Refilled(m, t).tokens >= RateWindow

\* Mutant: a request is charged whether or not it is let through.
TokenBucketCharges(m, t) == [Refilled(m, t) EXCEPT !.tokens = @ - RateWindow]

TokenBucketAfter(m, t) ==
    IF TokenBucketAllows(m, t)
    THEN [Refilled(m, t) EXCEPT !.tokens = @ - RateWindow]
    ELSE Refilled(m, t)

\* Mutant: the window is one tick short.
InShortWindow(m, t) == {p \in m.requests : p.at > t - RateWindow + 1}

\* SlidingWindow: the requests of the last window.
InWindow(m, t) == {p \in m.requests : p.at > t - RateWindow}

\* The first request of a client is let through without counting.
SlidingWindowAllows(m, t) == ~m.known \/ Cardinality(InWindow(m, t)) < RateLimit

SlidingWindowAfter(m, d, t) ==
    [m EXCEPT !.known = TRUE,
              !.requests = InWindow(m, t) \cup
                           IF SlidingWindowAllows(m, t)
                           THEN {[id |-> d, at |-> t]} ELSE {}]

Allows(m, t) ==
    IF config.limiter = "sliding_window" THEN SlidingWindowAllows(m, t)
                                         ELSE TokenBucketAllows(m, t)

MeterAfter(m, d, t) ==
    IF config.limiter = "sliding_window" THEN SlidingWindowAfter(m, d, t)
                                         ELSE TokenBucketAfter(m, t)

\* What the middleware asks for once ValidateRequest has succeeded.
Credentials(d) ==
    /\ config.requireHMAC => Msg[d].signature # "none"
    /\ config.requireNonce => Msg[d].nonce # NoNonce
    /\ config.requireAPIKey => Msg[d].apiKey

\* The end of ValidateRequest and of the middleware.
CheckRate(d) ==
    LET i == Host[d]
        c == Msg[d].client
    IN
    /\ pc[d] = "rate"
    /\ meter' = [meter EXCEPT ![i][c] = MeterAfter(@, d, Clock(i))]
    /\ IF Allows(meter[i][c], Clock(i))
       THEN allowed' = allowed \cup {[id |-> d, at |-> Clock(i)]}
       ELSE UNCHANGED allowed
    /\ Goto(d, IF Allows(meter[i][c], Clock(i)) /\ Credentials(d)
               THEN "handler" ELSE "refused")
    /\ UNCHANGED <<config, now, tables, faults, crashes>>

-----------------------------------------------------------------------------
(***************************************************************************)
(* The beginning of a protected handler.                                   *)
(***************************************************************************)

\* The method is not POST, the guard is locked, the body cannot be read.
HandlerRefuses(d) ==
    /\ pc[d] = "handler"
    /\ Goto(d, "refused")
    /\ UNCHANGED <<config, now, tables, meter, allowed, faults,
                   crashes>>

\* The table without its expired rows.
Purged(table, t) ==
    [n \in DOMAIN table |-> IF table[n] < t THEN Free ELSE table[n]]

\* AcceptNonce of the memory store, under its mutex.
MemoryAcceptNonce(d) ==
    LET i == Host[d]
        table == Purged(accepted[i], Clock(i))
    IN
    /\ pc[d] = "handler"
    /\ ~Postgres
    /\ IF table[Msg[d].nonce] # Free
       THEN /\ Goto(d, "refused")
            /\ accepted' = [accepted EXCEPT ![i] = table]
       ELSE /\ Goto(d, "admitted")
            /\ accepted' = [accepted EXCEPT ![i] =
                              [table EXCEPT ![Msg[d].nonce] =
                                 Clock(i) + NonceTTL]]
    /\ UNCHANGED <<config, now, seen, reaper, meter, allowed,
                   faults, crashes>>

\* AcceptNonce of the Postgres store: no nonce is not accepted; the DELETE,
\* whose error is ignored.
DeleteExpired(d) ==
    /\ pc[d] = "handler"
    /\ Postgres
    /\ \/ /\ Msg[d].nonce = NoNonce
          /\ Goto(d, "refused")
          /\ UNCHANGED <<accepted, faults>>
       \/ /\ Msg[d].nonce # NoNonce
          /\ Goto(d, "insert")
          /\ \E o \in {"ok", "failed", "unknown"} :
               /\ Outcome(o, TRUE)
               /\ accepted' = IF o = "failed" THEN accepted
                              ELSE [accepted EXCEPT ![Shared] = Purged(@, now)]
    /\ UNCHANGED <<config, now, seen, reaper, meter, allowed,
                   crashes>>

\* The INSERT ... ON CONFLICT DO NOTHING, a statement of its own: 401 when
\* there is a row, 503 when the call fails.
InsertNonce(d) ==
    /\ pc[d] = "insert"
    /\ \E o \in {"ok", "failed", "unknown"} :
         /\ Outcome(o, TRUE)
         /\ Goto(d, IF o = "ok" /\ Row(d) = Free THEN "admitted" ELSE "refused")
         /\ accepted' = IF o = "failed" \/ Row(d) # Free THEN accepted
                        ELSE [accepted EXCEPT ![Shared][Msg[d].nonce] =
                                now + NonceTTL]
    /\ UNCHANGED <<config, now, seen, reaper, meter, allowed,
                   crashes>>

-----------------------------------------------------------------------------
(***************************************************************************)
(* The world.                                                              *)
(***************************************************************************)

\* Nothing in the code bounds how long a goroutine takes from the check of
\* the timestamp to AcceptNonce; MaxDelay is what the deployment grants.
Tick ==
    /\ now < MaxTime
    /\ \A d \in Deliveries : pc[d] \in InFlight => now < checkedAt[d] + MaxDelay
    /\ now' = now + 1
    /\ UNCHANGED <<config, pc, checkedAt, tables, meter, allowed, faults,
                   crashes>>

\* An instance stops and is started again with the same configuration.
Crash(i) ==
    /\ crashes < MaxCrashes
    /\ crashes' = crashes + 1
    /\ pc' = [d \in Deliveries |->
                IF Host[d] = i /\ pc[d] \in InFlight THEN "lost" ELSE pc[d]]
    /\ checkedAt' = [d \in Deliveries |->
                       IF Host[d] = i /\ pc[d] \in InFlight THEN 0
                                                            ELSE checkedAt[d]]
    /\ reaper' = [d \in Deliveries |-> Host[d] # i /\ reaper[d]]
    /\ seen' = [seen EXCEPT ![i] = [n \in Nonces |-> Free]]
    /\ accepted' = [accepted EXCEPT ![i] =
                      [n \in Nonces \cup {NoNonce} |-> Free]]
    /\ meter' = [meter EXCEPT ![i] = [c \in Clients |-> NewMeter]]
    /\ allowed' = {p \in allowed : Host[p.id] # i}
    /\ UNCHANGED <<config, now, faults>>

Validate(d) ==
    \/ RefuseEarly(d) \/ CheckSignature(d) \/ NonceExists(d) \/ NonceStore(d)
    \/ CheckRate(d)

AcceptNonce(d) ==
    \/ HandlerRefuses(d) \/ MemoryAcceptNonce(d) \/ DeleteExpired(d)
    \/ InsertNonce(d)

Next ==
    \/ \E d \in Deliveries : Validate(d) \/ NonceDelete(d) \/ AcceptNonce(d)
    \/ \E i \in Instances : Crash(i)
    \/ Tick

Spec == Init /\ [][Next]_vars

-----------------------------------------------------------------------------
(***************************************************************************)
(* Properties.                                                             *)
(***************************************************************************)

\* The nonce is remembered at least as long as a signature can be valid: from
\* the earliest acceptance, Skew before the timestamp, to the last check, Skew
\* after it and up to the end of that second, plus the delay of the handler
\* and the difference of the clocks, in half seconds.
Covers ==
    /\ config.ttlSeconds > 0
    /\ 2 * config.ttlSeconds >= 4 * Skew + 1 + MaxDelay + MaxDrift

\* Two deliveries meet in a table that neither crashes nor is private to one
\* of them.
CommonTable(d, e) ==
    \/ Postgres
    \/ Redis
    \/ Host[d] = Host[e] /\ crashes = 0

\* Two deliveries of one signed message: of what validateWithSecret signs, the
\* body is not told apart.  The API key and the address are not signed.
Replays(d, e) ==
    /\ Msg[d].ts = Msg[e].ts /\ Msg[d].nonce = Msg[e].nonce
    /\ Msg[d].signature # "none" /\ Msg[e].signature # "none"

\* A signed message is admitted at most once, however often, however late, from
\* whichever client and at whichever instances it is delivered (ValidateRequest
\* and AcceptNonce).
AdmittedOnce ==
    \A d, e \in Deliveries :
        /\ Covers
        /\ pc[d] = "admitted" /\ pc[e] = "admitted"
        /\ Replays(d, e)
        /\ CommonTable(d, e)
        => d = e

\* Nobody is admitted without the credentials the configuration asks for, or
\* on a signature that was not valid when it was checked: of a known secret,
\* its timestamp within the skew of the clock of the instance.
AdmittedAuthentic ==
    \A d \in Deliveries :
        pc[d] = "admitted" =>
            /\ config.requireHMAC => Msg[d].signature \in {"active", "old"}
            /\ config.requireNonce => Msg[d].nonce # NoNonce
            /\ config.requireAPIKey => Msg[d].apiKey
            /\ Msg[d].signature # "none" =>
                 /\ Msg[d].signature = "old" => config.oldSecret
                 /\ (checkedAt[d] + Offset[Host[d]]) \div 2
                      \in (Msg[d].ts - Skew)..(Msg[d].ts + Skew)

\* The requests of a client that an instance let through in the window that
\* begins at t.
LetThrough(i, c, t) ==
    {p \in allowed : /\ Host[p.id] = i /\ Msg[p.id].client = c
                     /\ p.at >= t /\ p.at < t + RateWindow}

\* In any window a sliding window lets at most RateLimit requests of a client
\* through; a token bucket, which may be full at its beginning and refills
\* meanwhile, less than twice as many (AllowWithLimit).
RateBound ==
    \A i \in Instances, c \in Clients, p \in allowed :
        LET passed == Cardinality(LetThrough(i, c, p.at)) IN
        IF config.limiter = "sliding_window" THEN passed <= RateLimit
                                             ELSE passed < 2 * RateLimit
=============================================================================
