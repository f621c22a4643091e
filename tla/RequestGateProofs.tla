-------------------------- MODULE RequestGateProofs --------------------------
(***************************************************************************)
(* Proofs about RequestGate, for every number of instances, deliveries,    *)
(* nonces and clients, every skew, limit and window, every configuration   *)
(* and every bound.                                                        *)
(***************************************************************************)
EXTENDS RequestGate, FiniteSetTheorems, TLAPS

-----------------------------------------------------------------------------
(***************************************************************************)
(* What is known of a delivery, and of the clocks of the rate limiters.    *)
(***************************************************************************)
Signed(d) == Msg[d].signature # "none"

\* A delivery past the check of its signature.
Checked == InFlight \cup {"admitted"}

\* A signature that was looked at was valid.
Authentic(d) ==
    pc[d] \in Checked /\ Signed(d) =>
        /\ Msg[d].nonce # NoNonce
        /\ Msg[d].signature \in {"active", "old"}
        /\ Msg[d].signature = "old" => config.oldSecret
        /\ (checkedAt[d] + Offset[Host[d]]) \div 2
             \in (Msg[d].ts - Skew)..(Msg[d].ts + Skew)

\* What the steps of a delivery rely on.
Course(d) ==
    /\ pc[d] \in {"exists", "store", "insert"} => Msg[d].nonce # NoNonce
    /\ pc[d] \in {"handler", "insert", "admitted"} => Credentials(d)
    /\ pc[d] = "insert" => Postgres
    /\ pc[d] \in Checked => checkedAt[d] <= now
    /\ pc[d] \in InFlight => now <= checkedAt[d] + MaxDelay
    /\ reaper[d] => ~Redis

\* The clocks of the buckets do not run ahead.
Metered(i, c) == meter[i][c].last <= Clock(i)

Courses == \A d \in Deliveries : Course(d) /\ Authentic(d)

Typed ==
    /\ TypeOK
    /\ Courses
    /\ \A i \in Instances, c \in Clients : Metered(i, c)

-----------------------------------------------------------------------------
(***************************************************************************)
(* Types of the parts.                                                     *)
(***************************************************************************)
LEMMA Given ==
    ASSUME NEW d \in Deliveries
    PROVE  /\ Msg[d].ts \in Nat
           /\ Msg[d].nonce \in Nonces \cup {NoNonce}
           /\ Msg[d].client \in Clients
           /\ Msg[d].signature \in {"active", "old", "foreign", "none"}
           /\ Host[d] \in Instances
<1>1. Msg[d] \in Message /\ Host[d] \in Instances
  BY GateAssumption
<1> QED BY <1>1 DEF Message

LEMMA Clocks ==
    ASSUME TypeOK, NEW i \in Instances
    PROVE  /\ now \in Nat /\ MaxTime \in Nat /\ 0 \in 0..MaxTime
           /\ Offset[i] \in Nat /\ Offset[i] <= MaxDrift
           /\ Clock(i) \in Nat /\ Clock(i) = now + Offset[i]
           /\ (Clock(i) \div 2) \in Int
<1>1. MaxTime \in Nat /\ MaxDrift \in Nat /\ Offset[i] \in 0..MaxDrift
  BY GateAssumption
<1>2. now \in Nat
  BY <1>1 DEF TypeOK
<1> QED BY <1>1, <1>2 DEF Clock

LEMMA ConfigType ==
    ASSUME TypeOK
    PROVE  /\ config.ttlSeconds \in Int
           /\ config.limiter \in {"token_bucket", "sliding_window"}
           /\ NonceTTL \in Nat
           /\ \A i \in Instances : NonceTable(i) \in Tables
           /\ Shared \in Tables /\ Instances \subseteq Tables
<1>1. config \in Config
  BY GateAssumption DEF TypeOK
<1>2. /\ config.ttlSeconds \in Int
      /\ config.limiter \in {"token_bucket", "sliding_window"}
  BY <1>1 DEF Config
<1>3. NonceTTL \in Nat
  BY <1>2 DEF NonceTTL
<1> QED BY <1>2, <1>3 DEF NonceTable, Tables

LEMMA PutEntryType ==
    ASSUME TypeOK, NEW d \in Deliveries, NEW expiry \in Expiry,
           PutEntry(d, expiry)
    PROVE  seen' \in [Tables -> [Nonces -> Expiry]]
<1>1. NonceTable(Host[d]) \in Tables
  BY Given, ConfigType
<1>2. seen \in [Tables -> [Nonces -> Expiry]]
  BY DEF TypeOK
<1> QED BY <1>1, <1>2 DEF PutEntry

LEMMA PurgedType ==
    ASSUME NEW table \in [Nonces \cup {NoNonce} -> Expiry], NEW t
    PROVE  Purged(table, t) \in [Nonces \cup {NoNonce} -> Expiry]
<1>1. DOMAIN table = Nonces \cup {NoNonce} /\ Free \in Expiry
  BY DEF Expiry
<1> QED BY <1>1 DEF Purged

\* The two limiters.
LEMMA Products ==
    /\ RateLimit \in Nat /\ RateWindow \in Nat
    /\ RateLimit >= 1 /\ RateWindow >= 1
    /\ RateLimit * RateWindow \in Nat
    /\ \A n \in Nat : n * RateLimit \in Nat
<1>1. /\ RateLimit \in Nat /\ RateWindow \in Nat
      /\ RateLimit >= 1 /\ RateWindow >= 1
  BY GateAssumption
<1>2. ASSUME NEW m \in Nat, NEW n \in Nat PROVE m * n \in Nat
  BY <1>2
<1>3. RateLimit * RateWindow \in Nat
  BY <1>1, <1>2
<1>4. \A n \in Nat : n * RateLimit \in Nat
  BY <1>1, <1>2
<1> QED BY <1>1, <1>3, <1>4

LEMMA RefilledType ==
    ASSUME NEW m \in Meter, NEW t \in Nat, m.last <= t
    PROVE  /\ Refilled(m, t) \in Meter
           /\ Refilled(m, t).known = TRUE
           /\ Refilled(m, t).last = t
           /\ Refilled(m, t).requests = m.requests
           /\ Refilled(m, t).tokens \in Nat
           /\ Refilled(m, t).tokens <= RateLimit * RateWindow
           /\ m.known => Refilled(m, t).tokens
                           <= m.tokens + (t - m.last) * RateLimit
<1>1. m.tokens \in Nat /\ m.last \in Nat
  BY DEF Meter
<1>2. t - m.last \in Nat
  BY <1>1
<1> DEFINE capacity == RateLimit * RateWindow
           refill == (t - m.last) * RateLimit
           tokens == IF m.known THEN Lesser(capacity, m.tokens + refill)
                                ELSE capacity
<1>3. capacity \in Nat /\ refill \in Nat
  BY <1>2, Products
<1>4. Refilled(m, t) =
        [m EXCEPT !.known = TRUE, !.last = t, !.tokens = tokens]
  BY DEF Refilled
<1> HIDE DEF capacity, refill
<1>5. /\ tokens \in Nat /\ tokens <= capacity
      /\ m.known => tokens <= m.tokens + refill
  BY <1>1, <1>3 DEF Lesser
<1> HIDE DEF tokens
<1>6. /\ Refilled(m, t) \in Meter
      /\ Refilled(m, t).known = TRUE
      /\ Refilled(m, t).last = t
      /\ Refilled(m, t).requests = m.requests
      /\ Refilled(m, t).tokens = tokens
  BY <1>4, <1>5 DEF Meter
<1> QED BY <1>5, <1>6 DEF capacity, refill

LEMMA TokenBucketType ==
    ASSUME NEW m \in Meter, NEW t \in Nat, m.last <= t
    PROVE  /\ TokenBucketAfter(m, t) \in Meter
           /\ TokenBucketAfter(m, t).known = TRUE
           /\ TokenBucketAfter(m, t).last = t
           /\ TokenBucketAfter(m, t).tokens =
                Refilled(m, t).tokens
                  - (IF TokenBucketAllows(m, t) THEN RateWindow ELSE 0)
           /\ TokenBucketAfter(m, t).tokens \in Nat
<1> DEFINE f == Refilled(m, t)
<1>1. f \in Meter /\ f.known = TRUE /\ f.last = t /\ f.tokens \in Nat
  BY RefilledType
<1>2. TokenBucketAllows(m, t) <=> f.tokens >= RateWindow
  BY DEF TokenBucketAllows
<1>3. RateWindow \in Nat
  BY Products
<1>4. TokenBucketAfter(m, t) =
        IF TokenBucketAllows(m, t) THEN [f EXCEPT !.tokens = @ - RateWindow]
                                   ELSE f
  BY DEF TokenBucketAfter
<1> HIDE DEF f
<1>5. CASE TokenBucketAllows(m, t)
  <2>1. f.tokens - RateWindow \in Nat
    BY <1>1, <1>2, <1>3, <1>5
  <2>2. TokenBucketAfter(m, t) = [f EXCEPT !.tokens = f.tokens - RateWindow]
    BY <1>4, <1>5
  <2>3. TokenBucketAfter(m, t) \in Meter
    BY <1>1, <2>1, <2>2 DEF Meter
  <2>4. /\ TokenBucketAfter(m, t).tokens = f.tokens - RateWindow
        /\ TokenBucketAfter(m, t).last = t
        /\ TokenBucketAfter(m, t).known = TRUE
    BY <1>1, <2>2 DEF Meter
  <2> QED BY <1>5, <2>1, <2>3, <2>4 DEF f
<1>6. CASE ~TokenBucketAllows(m, t)
  <2>1. TokenBucketAfter(m, t) = f
    BY <1>4, <1>6
  <2>2. f.tokens = f.tokens - 0
    BY <1>1
  <2> QED BY <1>1, <1>6, <2>1, <2>2 DEF f
<1> QED BY <1>5, <1>6

LEMMA SlidingWindowType ==
    ASSUME NEW m \in Meter, NEW t \in Nat, m.last <= t, NEW d \in Deliveries
    PROVE  /\ SlidingWindowAfter(m, d, t) \in Meter
           /\ SlidingWindowAfter(m, d, t).known = TRUE
           /\ SlidingWindowAfter(m, d, t).last = m.last
           /\ SlidingWindowAfter(m, d, t).requests =
                InWindow(m, t) \cup (IF SlidingWindowAllows(m, t)
                                     THEN {[id |-> d, at |-> t]} ELSE {})
<1> DEFINE r == InWindow(m, t) \cup (IF SlidingWindowAllows(m, t)
                                     THEN {[id |-> d, at |-> t]} ELSE {})
<1>1. m.requests \in SUBSET Passage
  BY DEF Meter
<1>2. InWindow(m, t) \in SUBSET Passage
  BY <1>1 DEF InWindow
<1>3. [id |-> d, at |-> t] \in Passage
  BY DEF Passage
<1>4. r \in SUBSET Passage
  BY <1>2, <1>3
<1>5. SlidingWindowAfter(m, d, t) = [m EXCEPT !.known = TRUE, !.requests = r]
  BY DEF SlidingWindowAfter
<1> HIDE DEF r
<1>6. /\ SlidingWindowAfter(m, d, t) \in Meter
      /\ SlidingWindowAfter(m, d, t).known = TRUE
      /\ SlidingWindowAfter(m, d, t).last = m.last
      /\ SlidingWindowAfter(m, d, t).requests = r
  BY <1>4, <1>5 DEF Meter
<1> QED BY <1>6 DEF r

LEMMA MeterAfterType ==
    ASSUME NEW m \in Meter, NEW t \in Nat, m.last <= t, NEW d \in Deliveries
    PROVE  /\ MeterAfter(m, d, t) \in Meter
           /\ MeterAfter(m, d, t).last <= t
           /\ MeterAfter(m, d, t).known = TRUE
<1>1. CASE config.limiter = "sliding_window"
  BY <1>1, SlidingWindowType DEF MeterAfter
<1>2. CASE config.limiter # "sliding_window"
  <2>1. MeterAfter(m, d, t) = TokenBucketAfter(m, t)
    BY <1>2 DEF MeterAfter
  <2>2. /\ TokenBucketAfter(m, t) \in Meter
        /\ TokenBucketAfter(m, t).known = TRUE
        /\ TokenBucketAfter(m, t).last = t
    BY TokenBucketType
  <2> QED BY <2>1, <2>2
<1> QED BY <1>1, <1>2

-----------------------------------------------------------------------------
(***************************************************************************)
(* A delivery moves on.                                                    *)
(***************************************************************************)

\* What a step may ask of a delivery that goes on to label.
MayReach(d, label) ==
    /\ label \in Checked
    /\ label \in {"exists", "store", "insert"} => Msg[d].nonce # NoNonce
    /\ label \in {"handler", "insert", "admitted"} => Credentials(d)
    /\ label = "insert" => Postgres

\* Nobody but d moves, and only d may start a reaper, which it does without
\* Redis only.
MovesOnly(d, label) ==
    /\ pc' = [pc EXCEPT ![d] = label]
    /\ \A e \in Deliveries \ {d} : checkedAt'[e] = checkedAt[e]
    /\ \A e \in Deliveries : reaper'[e] => reaper[e] \/ ~Redis
    /\ UNCHANGED <<config, now>>

LEMMA OtherCourse ==
    ASSUME Typed, NEW e \in Deliveries, pc'[e] = pc[e],
           checkedAt'[e] = checkedAt[e], reaper'[e] => reaper[e] \/ ~Redis,
           UNCHANGED <<config, now>>
    PROVE  Course(e)' /\ Authentic(e)'
<1>1. Course(e) /\ Authentic(e)
  BY DEF Typed, Courses
<1>2. Authentic(e)'
  BY <1>1 DEF Authentic
<1>3. Course(e)'
  BY <1>1 DEF Course, Credentials, Postgres, Redis
<1> QED BY <1>2, <1>3

LEMMA MoveCourses ==
    ASSUME Typed, NEW d \in Deliveries, NEW label \in Labels,
           MovesOnly(d, label),
           \/ label = "refused"
           \/ /\ pc[d] \in InFlight
              /\ MayReach(d, label)
              /\ checkedAt'[d] = checkedAt[d]
    PROVE  Courses'
<1> SUFFICES ASSUME NEW e \in Deliveries PROVE Course(e)' /\ Authentic(e)'
  BY DEF Courses
<1>1. CASE e # d
  <2>1. pc'[e] = pc[e]
    BY <1>1 DEF MovesOnly, Typed, TypeOK
  <2> QED BY <1>1, <2>1, OtherCourse DEF MovesOnly
<1>2. CASE e = d
  <2>1. pc'[d] = label /\ config' = config /\ now' = now
    BY DEF MovesOnly, Typed, TypeOK
  <2>2. reaper'[d] => ~Redis
    BY DEF MovesOnly, Typed, Courses, Course
  <2>3. CASE label = "refused"
    BY <1>2, <2>1, <2>2, <2>3 DEF Course, Authentic, Checked, InFlight, Redis
  <2>4. CASE /\ pc[d] \in InFlight /\ MayReach(d, label)
             /\ checkedAt'[d] = checkedAt[d]
    <3>1. /\ checkedAt[d] <= now /\ now <= checkedAt[d] + MaxDelay
          /\ Authentic(d) /\ pc[d] \in Checked
      BY <2>4 DEF Typed, Courses, Course, Checked
    <3>2. Authentic(d)'
      BY <2>1, <2>4, <3>1 DEF Authentic
    <3>3. Course(d)'
      BY <2>1, <2>2, <2>4, <3>1
         DEF Course, MayReach, Credentials, Postgres, Redis
    <3> QED BY <1>2, <3>2, <3>3
  <2> QED BY <2>3, <2>4
<1> QED BY <1>1, <1>2

\* Goto, with its types.
LEMMA GotoMoves ==
    ASSUME Typed, NEW d \in Deliveries, NEW label \in Labels, Goto(d, label),
           UNCHANGED <<config, now>>,
           \A e \in Deliveries : reaper'[e] => reaper[e] \/ ~Redis
    PROVE  /\ MovesOnly(d, label)
           /\ pc' \in [Deliveries -> Labels]
           /\ checkedAt' \in [Deliveries -> 0..MaxTime]
           /\ label # "refused" => checkedAt'[d] = checkedAt[d]
<1>1. /\ pc' = [pc EXCEPT ![d] = label]
      /\ checkedAt' = [checkedAt EXCEPT ![d] =
                         IF label = "refused" THEN 0 ELSE checkedAt[d]]
  BY DEF Goto, Proceed
<1>2. 0 \in 0..MaxTime
  BY Given, Clocks DEF Typed
<1>3. /\ pc' \in [Deliveries -> Labels]
      /\ checkedAt' \in [Deliveries -> 0..MaxTime]
      /\ label # "refused" => checkedAt'[d] = checkedAt[d]
      /\ \A e \in Deliveries \ {d} : checkedAt'[e] = checkedAt[e]
  BY <1>1, <1>2 DEF Typed, TypeOK
<1> QED BY <1>1, <1>3 DEF MovesOnly

\* A step that goes on to label, all told.
LEMMA GotoCourses ==
    ASSUME Typed, NEW d \in Deliveries, NEW label, Goto(d, label),
           UNCHANGED <<config, now>>,
           \A e \in Deliveries : reaper'[e] => reaper[e] \/ ~Redis,
           \/ label = "refused"
           \/ pc[d] \in InFlight /\ MayReach(d, label)
    PROVE  /\ pc' \in [Deliveries -> Labels]
           /\ checkedAt' \in [Deliveries -> 0..MaxTime]
           /\ Courses'
<1>1. label \in Labels
  BY DEF MayReach, Checked, Labels
<1> QED BY <1>1, GotoMoves, MoveCourses DEF MayReach, Checked, InFlight

\* What the tables, limiters and counters of a step must be.
Rest ==
    /\ seen' \in [Tables -> [Nonces -> Expiry]]
    /\ reaper' \in [Deliveries -> BOOLEAN]
    /\ accepted' \in [Tables -> [Nonces \cup {NoNonce} -> Expiry]]
    /\ meter' \in [Instances -> [Clients -> Meter]]
    /\ allowed' \subseteq Passage
    /\ faults' \in 0..MaxFaults /\ crashes' \in 0..MaxCrashes
    /\ \A i \in Instances, c \in Clients : Metered(i, c)'

LEMMA TypedFrom ==
    ASSUME config' \in Configs, now' \in 0..MaxTime,
           pc' \in [Deliveries -> Labels],
           checkedAt' \in [Deliveries -> 0..MaxTime], Courses', Rest
    PROVE  Typed'
  BY DEF Typed, TypeOK, Rest

LEMMA OutcomeType ==
    ASSUME TypeOK, NEW o, NEW remote, Outcome(o, remote)
    PROVE  faults' \in 0..MaxFaults
<1>1. MaxFaults \in Nat /\ faults \in 0..MaxFaults
  BY GateAssumption DEF TypeOK
<1>2. faults' = faults \/ (faults < MaxFaults /\ faults' = faults + 1)
  BY DEF Outcome
<1> QED BY <1>1, <1>2

LEMMA MeteredSame ==
    ASSUME Typed, UNCHANGED <<now, meter>>
    PROVE  \A i \in Instances, c \in Clients : Metered(i, c)'
  BY DEF Typed, Metered, Clock

-----------------------------------------------------------------------------
(***************************************************************************)
(* Every step keeps the types and the courses.                             *)
(***************************************************************************)
LEMMA RefusesTyped ==
    ASSUME Typed, NEW d \in Deliveries, RefuseEarly(d) \/ HandlerRefuses(d)
    PROVE  Typed'
<1>1. /\ Goto(d, "refused")
      /\ UNCHANGED <<config, now, seen, reaper, accepted, meter, allowed,
                     faults, crashes>>
  BY DEF RefuseEarly, HandlerRefuses, tables
<1>2. /\ pc' \in [Deliveries -> Labels]
      /\ checkedAt' \in [Deliveries -> 0..MaxTime]
      /\ Courses'
  BY <1>1, GotoCourses
<1>3. Rest
  BY <1>1, MeteredSame DEF Rest, Typed, TypeOK
<1> QED BY <1>1, <1>2, <1>3, TypedFrom DEF Typed, TypeOK

LEMMA CheckSignatureTyped ==
    ASSUME Typed, NEW d \in Deliveries, CheckSignature(d)
    PROVE  Typed'
<1> DEFINE label == IF Msg[d].signature # "none" /\ ~SignatureValid(d)
                    THEN "refused"
                    ELSE IF Msg[d].nonce # NoNonce THEN "exists" ELSE "rate"
<1>1. /\ pc' = [pc EXCEPT ![d] = label]
      /\ checkedAt' = [checkedAt EXCEPT ![d] =
                         IF label = "refused" THEN 0 ELSE now]
      /\ UNCHANGED <<config, now, seen, reaper, accepted, meter, allowed,
                     faults, crashes>>
  BY DEF CheckSignature, Proceed, tables
<1>2. label \in {"refused", "exists", "rate"}
  OBVIOUS
<1>3. label = "exists" => Msg[d].nonce # NoNonce
  OBVIOUS
<1>4. label # "refused" /\ Signed(d) => SignatureValid(d)
  BY DEF Signed
<1> HIDE DEF label
<1>5. 0 \in 0..MaxTime /\ now \in 0..MaxTime /\ now \in Nat
  BY Given, Clocks DEF Typed, TypeOK
<1>6. /\ pc' \in [Deliveries -> Labels]
      /\ checkedAt' \in [Deliveries -> 0..MaxTime]
  BY <1>1, <1>2, <1>5 DEF Typed, TypeOK, Labels, InFlight
<1>7. MovesOnly(d, label)
  BY <1>1 DEF MovesOnly, Typed, TypeOK
<1>8. Courses'
  <2>1. CASE label = "refused"
    BY <1>7, <2>1, MoveCourses DEF Labels
  <2>2. CASE label # "refused"
    <3>1. /\ pc'[d] = label /\ checkedAt'[d] = now
          /\ config' = config /\ now' = now /\ reaper' = reaper
      BY <1>1, <2>2 DEF Typed, TypeOK
    <3>2. MaxDelay \in Nat /\ Skew \in Nat
      BY GateAssumption
    <3>3. Course(d)'
      <4>1. now <= now + MaxDelay /\ now <= now
        BY <1>5, <3>2
      <4>2. reaper[d] => ~Redis
        BY DEF Typed, Courses, Course
      <4>3. label \notin {"store", "insert", "handler", "admitted"}
        BY <1>2
      <4> QED BY <1>3, <3>1, <4>1, <4>2, <4>3 DEF Course, Redis
    <3>4. Authentic(d)'
      <4> SUFFICES ASSUME Signed(d) PROVE Authentic(d)'
        BY DEF Authentic
      <4>1. SignatureValid(d)
        BY <1>4, <2>2
      <4>2. /\ Msg[d].nonce # NoNonce
            /\ Msg[d].signature \in {"active", "old"}
            /\ Msg[d].signature = "old" => config.oldSecret
        BY <4>1 DEF SignatureValid
      <4>3. (now + Offset[Host[d]]) \div 2
              \in (Msg[d].ts - Skew)..(Msg[d].ts + Skew)
        <5>1. Msg[d].ts \in Nat /\ Host[d] \in Instances
          BY Given
        <5>2. Unix(Host[d]) \in Int
              /\ Unix(Host[d]) = (now + Offset[Host[d]]) \div 2
          BY <5>1, Clocks DEF Typed, Unix
        <5>3. /\ Unix(Host[d]) - Msg[d].ts <= Skew
              /\ Msg[d].ts - Unix(Host[d]) <= Skew
          BY <4>1 DEF SignatureValid, WithinSkew
        <5> QED BY <3>2, <5>1, <5>2, <5>3
      <4> QED BY <3>1, <4>2, <4>3 DEF Authentic
    <3>5. ASSUME NEW e \in Deliveries, e # d PROVE Course(e)' /\ Authentic(e)'
      <4>1. pc'[e] = pc[e] /\ checkedAt'[e] = checkedAt[e] /\ reaper' = reaper
        BY <1>1, <3>5 DEF Typed, TypeOK
      <4> QED BY <1>1, <4>1, OtherCourse
    <3> QED BY <3>3, <3>4, <3>5 DEF Courses
  <2> QED BY <2>1, <2>2
<1>9. Rest
  BY <1>1, MeteredSame DEF Rest, Typed, TypeOK
<1> QED BY <1>1, <1>6, <1>8, <1>9, TypedFrom DEF Typed, TypeOK

LEMMA NonceExistsTyped ==
    ASSUME Typed, NEW d \in Deliveries, NonceExists(d)
    PROVE  Typed'
<1>1. /\ pc[d] = "exists"
      /\ reaper' = [reaper EXCEPT ![d] =
                      ~Redis /\ Entry(d) # Free /\ Clock(Host[d]) > Entry(d)]
      /\ UNCHANGED <<config, now, seen, accepted, meter, allowed, crashes>>
  BY DEF NonceExists
<1>2. PICK o \in {"ok", "failed"}, label \in {"refused", "store"} :
        Outcome(o, Redis) /\ Goto(d, label)
  BY DEF NonceExists
<1>3. /\ reaper' \in [Deliveries -> BOOLEAN]
      /\ \A e \in Deliveries : reaper'[e] => reaper[e] \/ ~Redis
  BY <1>1 DEF Typed, TypeOK
<1>4. pc[d] \in InFlight /\ (label = "store" => MayReach(d, label))
  BY <1>1 DEF Typed, Courses, Course, InFlight, MayReach, Checked
<1>5. /\ pc' \in [Deliveries -> Labels]
      /\ checkedAt' \in [Deliveries -> 0..MaxTime]
      /\ Courses'
  BY <1>1, <1>2, <1>3, <1>4, GotoCourses
<1>6. faults' \in 0..MaxFaults
  BY <1>2, OutcomeType DEF Typed
<1>7. Rest
  BY <1>1, <1>3, <1>6, MeteredSame DEF Rest, Typed, TypeOK
<1> QED BY <1>1, <1>5, <1>7, TypedFrom DEF Typed, TypeOK

LEMMA NonceStoreTyped ==
    ASSUME Typed, NEW d \in Deliveries, NonceStore(d)
    PROVE  Typed'
<1>1. /\ pc[d] = "store"
      /\ UNCHANGED <<config, now, reaper, accepted, meter, allowed, crashes>>
  BY DEF NonceStore
<1>2. /\ now + NonceTTL \in Expiry
      /\ Clock(Host[d]) + NonceTTL \in Expiry
      /\ seen \in [Tables -> [Nonces -> Expiry]]
  <2>1. now \in Nat /\ Clock(Host[d]) \in Nat /\ NonceTTL \in Nat
    BY Given, Clocks, ConfigType DEF Typed
  <2> QED BY <2>1 DEF Typed, TypeOK, Expiry
<1>3. /\ seen' \in [Tables -> [Nonces -> Expiry]]
      /\ faults' \in 0..MaxFaults
      /\ \E label \in {"refused", "rate"} : Goto(d, label)
  <2>1. CASE MemoryNonceStore(d)
    <3>1. /\ \E label \in {"refused", "rate"} : Goto(d, label)
          /\ seen' = seen \/ PutEntry(d, Clock(Host[d]) + NonceTTL)
          /\ faults' = faults
      BY <2>1 DEF MemoryNonceStore
    <3>2. seen' \in [Tables -> [Nonces -> Expiry]]
      BY <1>2, <3>1, PutEntryType DEF Typed
    <3>3. faults' \in 0..MaxFaults
      BY <3>1 DEF Typed, TypeOK
    <3> QED BY <3>1, <3>2, <3>3
  <2>2. CASE RedisNonceStore(d)
    <3>1. PICK o \in {"ok", "failed", "unknown"} :
            /\ Outcome(o, TRUE)
            /\ seen' = seen \/ PutEntry(d, now + NonceTTL)
            /\ \E label \in {"refused", "rate"} : Goto(d, label)
      BY <2>2 DEF RedisNonceStore
    <3>2. seen' \in [Tables -> [Nonces -> Expiry]]
      BY <1>2, <3>1, PutEntryType DEF Typed
    <3>3. faults' \in 0..MaxFaults
      BY <3>1, OutcomeType DEF Typed
    <3> QED BY <3>1, <3>2, <3>3
  <2> QED BY <2>1, <2>2 DEF NonceStore
<1>4. pc[d] \in InFlight /\ MayReach(d, "rate")
  BY <1>1 DEF InFlight, MayReach, Checked
<1>5. /\ pc' \in [Deliveries -> Labels]
      /\ checkedAt' \in [Deliveries -> 0..MaxTime]
      /\ Courses'
  BY <1>1, <1>3, <1>4, GotoCourses
<1>6. Rest
  BY <1>1, <1>3, MeteredSame DEF Rest, Typed, TypeOK
<1> QED BY <1>1, <1>5, <1>6, TypedFrom DEF Typed, TypeOK

LEMMA NonceDeleteTyped ==
    ASSUME Typed, NEW d \in Deliveries, NonceDelete(d)
    PROVE  Typed'
<1>1. /\ reaper' = [reaper EXCEPT ![d] = FALSE]
      /\ PutEntry(d, Free)
      /\ UNCHANGED <<config, now, pc, checkedAt, accepted, meter, allowed,
                     faults, crashes>>
  BY DEF NonceDelete
<1>2. seen' \in [Tables -> [Nonces -> Expiry]]
  BY <1>1, PutEntryType DEF Typed, Expiry
<1>3. /\ reaper' \in [Deliveries -> BOOLEAN]
      /\ \A e \in Deliveries : reaper'[e] => reaper[e]
  BY <1>1 DEF Typed, TypeOK
<1>4. Courses'
  BY <1>1, <1>3, OtherCourse DEF Courses
<1>5. Rest
  BY <1>1, <1>2, <1>3, MeteredSame DEF Rest, Typed, TypeOK
<1> QED BY <1>1, <1>4, <1>5, TypedFrom DEF Typed, TypeOK

LEMMA CheckRateTyped ==
    ASSUME Typed, NEW d \in Deliveries, CheckRate(d)
    PROVE  Typed'
<1> DEFINE i == Host[d]
           c == Msg[d].client
           m == MeterAfter(meter[i][c], d, Clock(i))
<1>1. /\ pc[d] = "rate"
      /\ meter' = [meter EXCEPT ![i][c] = m]
      /\ \/ allowed' = allowed
         \/ allowed' = allowed \cup {[id |-> d, at |-> Clock(i)]}
      /\ UNCHANGED <<config, now, seen, reaper, accepted, faults, crashes>>
  BY DEF CheckRate, tables
<1>2. PICK label \in {"handler", "refused"} :
        Goto(d, label) /\ (label = "handler" => Credentials(d))
  BY DEF CheckRate
<1>3. i \in Instances /\ c \in Clients
  BY Given
<1>4. Clock(i) \in Nat
  BY <1>3, Clocks DEF Typed
<1>5. meter[i][c] \in Meter /\ meter[i][c].last <= Clock(i)
  BY <1>3 DEF Typed, TypeOK, Metered
<1>6. m \in Meter /\ m.last <= Clock(i)
  BY <1>4, <1>5, MeterAfterType
<1> HIDE DEF i, c, m
<1>7. pc[d] \in InFlight /\ (label = "handler" => MayReach(d, label))
  BY <1>1, <1>2 DEF InFlight, MayReach, Checked
<1>8. /\ pc' \in [Deliveries -> Labels]
      /\ checkedAt' \in [Deliveries -> 0..MaxTime]
      /\ Courses'
  BY <1>1, <1>2, <1>7, GotoCourses
<1>9. meter' \in [Instances -> [Clients -> Meter]]
  BY <1>1, <1>3, <1>6 DEF Typed, TypeOK
<1>10. allowed' \subseteq Passage
  BY <1>1, <1>4 DEF Typed, TypeOK, Passage
<1>11. ASSUME NEW j \in Instances, NEW b \in Clients PROVE Metered(j, b)'
  <2>1. meter'[j][b] = IF j = i /\ b = c THEN m ELSE meter[j][b]
    BY <1>1, <1>3 DEF Typed, TypeOK
  <2>2. Metered(j, b)
    BY DEF Typed
  <2> QED BY <1>1, <1>6, <2>1, <2>2 DEF Metered, Clock
<1>12. Rest
  BY <1>1, <1>9, <1>10, <1>11 DEF Rest, Typed, TypeOK
<1> QED BY <1>1, <1>8, <1>12, TypedFrom DEF Typed, TypeOK

LEMMA MemoryAcceptNonceTyped ==
    ASSUME Typed, NEW d \in Deliveries, MemoryAcceptNonce(d)
    PROVE  Typed'
<1> DEFINE i == Host[d]
           table == Purged(accepted[i], Clock(i))
<1>1. /\ pc[d] = "handler"
      /\ UNCHANGED <<config, now, seen, reaper, meter, allowed, faults, crashes>>
  BY DEF MemoryAcceptNonce
<1>2. \/ /\ Goto(d, "refused")
         /\ accepted' = [accepted EXCEPT ![i] = table]
      \/ /\ Goto(d, "admitted")
         /\ accepted' = [accepted EXCEPT ![i] =
                           [table EXCEPT ![Msg[d].nonce] = Clock(i) + NonceTTL]]
  BY DEF MemoryAcceptNonce
<1>3. i \in Tables /\ Clock(i) + NonceTTL \in Expiry
  BY Given, Clocks, ConfigType DEF Typed, Expiry
<1>4. table \in [Nonces \cup {NoNonce} -> Expiry]
  <2>1. accepted[i] \in [Nonces \cup {NoNonce} -> Expiry]
    BY <1>3 DEF Typed, TypeOK
  <2> QED BY <2>1, PurgedType
<1> HIDE DEF i, table
<1>5. accepted' \in [Tables -> [Nonces \cup {NoNonce} -> Expiry]]
  <2>1. [table EXCEPT ![Msg[d].nonce] = Clock(i) + NonceTTL]
          \in [Nonces \cup {NoNonce} -> Expiry]
    BY <1>3, <1>4
  <2>2. \/ accepted' = [accepted EXCEPT ![i] = table]
        \/ accepted' = [accepted EXCEPT ![i] =
                          [table EXCEPT ![Msg[d].nonce] = Clock(i) + NonceTTL]]
    BY <1>2
  <2> QED BY <1>4, <2>1, <2>2 DEF Typed, TypeOK
<1>6. pc[d] \in InFlight /\ MayReach(d, "admitted")
  BY <1>1 DEF Typed, Courses, Course, InFlight, MayReach, Checked
<1>7. /\ pc' \in [Deliveries -> Labels]
      /\ checkedAt' \in [Deliveries -> 0..MaxTime]
      /\ Courses'
  BY <1>1, <1>2, <1>6, GotoCourses
<1>8. Rest
  BY <1>1, <1>5, MeteredSame DEF Rest, Typed, TypeOK
<1> QED BY <1>1, <1>7, <1>8, TypedFrom DEF Typed, TypeOK

LEMMA DeleteExpiredTyped ==
    ASSUME Typed, NEW d \in Deliveries, DeleteExpired(d)
    PROVE  Typed'
<1>1. /\ pc[d] = "handler" /\ Postgres
      /\ UNCHANGED <<config, now, seen, reaper, meter, allowed, crashes>>
  BY DEF DeleteExpired
<1>2. PICK label \in {"refused", "insert"} :
        Goto(d, label) /\ (label = "insert" => Msg[d].nonce # NoNonce)
  BY DEF DeleteExpired
<1>3. /\ \/ accepted' = accepted
         \/ accepted' = [accepted EXCEPT ![Shared] = Purged(accepted[Shared], now)]
      /\ faults' = faults \/ \E o : Outcome(o, TRUE)
  BY DEF DeleteExpired
<1>4. Purged(accepted[Shared], now) \in [Nonces \cup {NoNonce} -> Expiry]
  <2>1. accepted[Shared] \in [Nonces \cup {NoNonce} -> Expiry]
    BY DEF Typed, TypeOK, Tables
  <2> QED BY <2>1, PurgedType
<1>5. accepted' \in [Tables -> [Nonces \cup {NoNonce} -> Expiry]]
  BY <1>3, <1>4 DEF Typed, TypeOK
<1>6. faults' \in 0..MaxFaults
  BY <1>3, OutcomeType DEF Typed, TypeOK
<1>7. pc[d] \in InFlight /\ (label = "insert" => MayReach(d, label))
  BY <1>1, <1>2 DEF Typed, Courses, Course, InFlight, MayReach, Checked
<1>8. /\ pc' \in [Deliveries -> Labels]
      /\ checkedAt' \in [Deliveries -> 0..MaxTime]
      /\ Courses'
  BY <1>1, <1>2, <1>7, GotoCourses
<1>9. Rest
  BY <1>1, <1>5, <1>6, MeteredSame DEF Rest, Typed, TypeOK
<1> QED BY <1>1, <1>8, <1>9, TypedFrom DEF Typed, TypeOK

LEMMA InsertNonceTyped ==
    ASSUME Typed, NEW d \in Deliveries, InsertNonce(d)
    PROVE  Typed'
<1>1. /\ pc[d] = "insert"
      /\ UNCHANGED <<config, now, seen, reaper, meter, allowed, crashes>>
  BY DEF InsertNonce
<1>2. PICK label \in {"refused", "admitted"} : Goto(d, label)
  BY DEF InsertNonce
<1>3. /\ \/ accepted' = accepted
         \/ accepted' = [accepted EXCEPT ![Shared][Msg[d].nonce] = now + NonceTTL]
      /\ \E o : Outcome(o, TRUE)
  BY DEF InsertNonce
<1>4. now + NonceTTL \in Expiry
  <2>1. now \in Nat /\ NonceTTL \in Nat
    BY Given, Clocks, ConfigType DEF Typed
  <2> QED BY <2>1 DEF Expiry
<1>5. accepted' \in [Tables -> [Nonces \cup {NoNonce} -> Expiry]]
  <2>1. Shared \in Tables /\ accepted \in [Tables -> [Nonces \cup {NoNonce} -> Expiry]]
    BY DEF Typed, TypeOK, Tables
  <2> QED BY <1>3, <1>4, <2>1
<1>6. faults' \in 0..MaxFaults
  BY <1>3, OutcomeType DEF Typed
<1>7. pc[d] \in InFlight /\ MayReach(d, "admitted")
  BY <1>1 DEF Typed, Courses, Course, InFlight, MayReach, Checked
<1>8. /\ pc' \in [Deliveries -> Labels]
      /\ checkedAt' \in [Deliveries -> 0..MaxTime]
      /\ Courses'
  BY <1>1, <1>2, <1>7, GotoCourses
<1>9. Rest
  BY <1>1, <1>5, <1>6, MeteredSame DEF Rest, Typed, TypeOK
<1> QED BY <1>1, <1>8, <1>9, TypedFrom DEF Typed, TypeOK

LEMMA TickTyped ==
    ASSUME Typed, Tick
    PROVE  Typed'
<1>1. /\ now < MaxTime /\ now' = now + 1
      /\ \A d \in Deliveries :
           pc[d] \in InFlight => now < checkedAt[d] + MaxDelay
      /\ UNCHANGED <<config, pc, checkedAt, seen, reaper, accepted, meter,
                     allowed, faults, crashes>>
  BY DEF Tick, tables
<1>2. now \in 0..MaxTime /\ MaxTime \in Nat /\ MaxDelay \in Nat /\ now' \in 0..MaxTime
  BY <1>1, GateAssumption DEF Typed, TypeOK
<1>3. ASSUME NEW d \in Deliveries PROVE Course(d)' /\ Authentic(d)'
  <2>1. Course(d) /\ Authentic(d) /\ checkedAt[d] \in Nat
    BY <1>2, <1>3 DEF Typed, TypeOK, Courses
  <2>2. Authentic(d)'
    BY <1>1, <2>1 DEF Authentic
  <2>3. /\ pc[d] \in Checked => checkedAt[d] <= now'
        /\ pc[d] \in InFlight => now' <= checkedAt[d] + MaxDelay
    BY <1>1, <1>2, <2>1 DEF Course
  <2>4. Course(d)'
    BY <1>1, <2>1, <2>3 DEF Course, Credentials, Postgres, Redis
  <2> QED BY <2>2, <2>4
<1>4. ASSUME NEW i \in Instances, NEW c \in Clients PROVE Metered(i, c)'
  <2>1. Offset[i] \in Nat /\ meter[i][c].last \in Nat /\ Metered(i, c)
    BY Clocks DEF Typed, TypeOK, Meter
  <2> QED BY <1>1, <1>2, <2>1 DEF Metered, Clock
<1>5. Rest
  BY <1>1, <1>4 DEF Rest, Typed, TypeOK
<1> QED BY <1>1, <1>2, <1>3, <1>5, TypedFrom DEF Typed, TypeOK, Courses

LEMMA CrashTyped ==
    ASSUME Typed, NEW i \in Instances, Crash(i)
    PROVE  Typed'
<1>1. /\ crashes < MaxCrashes /\ crashes' = crashes + 1
      /\ pc' = [d \in Deliveries |->
                  IF Host[d] = i /\ pc[d] \in InFlight THEN "lost" ELSE pc[d]]
      /\ checkedAt' = [d \in Deliveries |->
                         IF Host[d] = i /\ pc[d] \in InFlight THEN 0
                                                              ELSE checkedAt[d]]
      /\ reaper' = [d \in Deliveries |-> Host[d] # i /\ reaper[d]]
      /\ seen' = [seen EXCEPT ![i] = [n \in Nonces |-> Free]]
      /\ accepted' = [accepted EXCEPT ![i] =
                        [n \in Nonces \cup {NoNonce} |-> Free]]
      /\ meter' = [meter EXCEPT ![i] = [c \in Clients |-> NewMeter]]
      /\ allowed' = {p \in allowed : Host[p.id] # i}
      /\ UNCHANGED <<config, now, faults>>
  BY DEF Crash
<1>2. 0 \in 0..MaxTime
  BY Clocks DEF Typed
<1>3. /\ pc' \in [Deliveries -> Labels]
      /\ checkedAt' \in [Deliveries -> 0..MaxTime]
  BY <1>1, <1>2 DEF Typed, TypeOK, Labels
<1>4. ASSUME NEW d \in Deliveries PROVE Course(d)' /\ Authentic(d)'
  <2>1. reaper'[d] => reaper[d]
    BY <1>1
  <2>2. CASE Host[d] = i /\ pc[d] \in InFlight
    <3>1. pc'[d] = "lost" /\ (reaper'[d] => ~Redis) /\ config' = config
      BY <1>1, <2>1, <2>2 DEF Typed, Courses, Course
    <3> QED BY <3>1 DEF Course, Authentic, Checked, InFlight, Redis
  <2>3. CASE ~(Host[d] = i /\ pc[d] \in InFlight)
    <3>1. pc'[d] = pc[d] /\ checkedAt'[d] = checkedAt[d]
      BY <1>1, <2>3
    <3> QED BY <1>1, <2>1, <3>1, OtherCourse
  <2> QED BY <2>2, <2>3
<1>5. NewMeter \in Meter /\ NewMeter.last = 0
  BY DEF NewMeter, Meter
<1>6. /\ seen' \in [Tables -> [Nonces -> Expiry]]
      /\ accepted' \in [Tables -> [Nonces \cup {NoNonce} -> Expiry]]
  <2>1. Free \in Expiry
    BY DEF Expiry
  <2> QED BY <1>1, <2>1 DEF Typed, TypeOK
<1>7. meter' \in [Instances -> [Clients -> Meter]]
  BY <1>1, <1>5 DEF Typed, TypeOK
<1>8. crashes' \in 0..MaxCrashes
  BY <1>1, GateAssumption DEF Typed, TypeOK
<1>9. reaper' \in [Deliveries -> BOOLEAN]
  BY <1>1
<1>10. ASSUME NEW j \in Instances, NEW c \in Clients PROVE Metered(j, c)'
  <2>1. Clock(j)' = Clock(j) /\ Clock(j) \in Nat
    BY <1>1, Clocks DEF Typed, Clock
  <2>2. meter'[j][c] = IF j = i THEN NewMeter ELSE meter[j][c]
    BY <1>1 DEF Typed, TypeOK
  <2>3. Metered(j, c)
    BY DEF Typed
  <2> QED BY <1>5, <2>1, <2>2, <2>3 DEF Metered
<1>11. Rest
  BY <1>1, <1>6, <1>7, <1>8, <1>9, <1>10 DEF Rest, Typed, TypeOK
<1> QED BY <1>1, <1>3, <1>4, <1>11, TypedFrom DEF Typed, TypeOK, Courses

LEMMA InitTyped == Init => Typed
<1> SUFFICES ASSUME Init PROVE Typed
  OBVIOUS
<1>1. /\ MaxTime \in Nat /\ MaxFaults \in Nat /\ MaxCrashes \in Nat
      /\ MaxDrift \in Nat /\ Offset \in [Instances -> 0..MaxDrift]
  BY GateAssumption
<1>2. NewMeter \in Meter /\ NewMeter.last = 0
  BY DEF NewMeter, Meter
<1>3. Free \in Expiry
  BY DEF Expiry
<1>4. TypeOK
  BY <1>1, <1>2, <1>3 DEF Init, TypeOK, Labels
<1>5. Courses
  BY DEF Init, Courses, Course, Authentic, Checked, InFlight
<1>6. \A i \in Instances, c \in Clients : Metered(i, c)
  BY <1>1, <1>2 DEF Init, Metered, Clock
<1> QED BY <1>4, <1>5, <1>6 DEF Typed

LEMMA NextTyped == Typed /\ [Next]_vars => Typed'
<1> SUFFICES ASSUME Typed, [Next]_vars PROVE Typed'
  OBVIOUS
<1>1. CASE UNCHANGED vars
  <2>1. UNCHANGED <<config, now, pc, checkedAt, seen, reaper, accepted, meter,
                    allowed, faults, crashes>>
    BY <1>1 DEF vars, tables
  <2>2. Courses'
    BY <2>1, OtherCourse DEF Courses
  <2>3. Rest
    BY <2>1, MeteredSame DEF Rest, Typed, TypeOK
  <2> QED BY <2>1, <2>2, <2>3, TypedFrom DEF Typed, TypeOK
<1>2. CASE Tick
  BY <1>2, TickTyped
<1>3. ASSUME NEW i \in Instances, Crash(i) PROVE Typed'
  BY <1>3, CrashTyped
<1>4. ASSUME NEW d \in Deliveries, Validate(d) PROVE Typed'
  BY <1>4, RefusesTyped, CheckSignatureTyped, NonceExistsTyped,
     NonceStoreTyped, CheckRateTyped DEF Validate
<1>5. ASSUME NEW d \in Deliveries, NonceDelete(d) PROVE Typed'
  BY <1>5, NonceDeleteTyped
<1>6. ASSUME NEW d \in Deliveries, AcceptNonce(d) PROVE Typed'
  BY <1>6, RefusesTyped, MemoryAcceptNonceTyped, DeleteExpiredTyped,
     InsertNonceTyped DEF AcceptNonce
<1> QED BY <1>1, <1>2, <1>3, <1>4, <1>5, <1>6 DEF Next

LEMMA AlwaysTyped == Spec => []Typed
  BY InitTyped, NextTyped, PTL DEF Spec

\* The tables, buckets and windows of the gate keep their types: no bucket of
\* the token bucket goes below zero, and no counter leaves its bounds.
THEOREM GateTypes == Spec => []TypeOK
<1>1. Typed => TypeOK
  BY DEF Typed
<1> QED BY <1>1, AlwaysTyped, PTL

\* A delivery that a protected handler admits has the credentials that the
\* configuration asks for, and its signature, when it has one, was valid when
\* ValidateRequest looked at it, whatever the steps of other deliveries and the
\* crashes of instances in between.
THEOREM AdmittedAreAuthentic == Spec => []AdmittedAuthentic
<1>1. Typed => AdmittedAuthentic
  <2> SUFFICES ASSUME Typed, NEW d \in Deliveries, pc[d] = "admitted"
               PROVE  /\ config.requireHMAC => Msg[d].signature \in {"active", "old"}
                      /\ config.requireNonce => Msg[d].nonce # NoNonce
                      /\ config.requireAPIKey => Msg[d].apiKey
                      /\ Msg[d].signature # "none" =>
                           /\ Msg[d].signature = "old" => config.oldSecret
                           /\ (checkedAt[d] + Offset[Host[d]]) \div 2
                                \in (Msg[d].ts - Skew)..(Msg[d].ts + Skew)
    BY DEF AdmittedAuthentic
  <2>1. Credentials(d) /\ Authentic(d) /\ pc[d] \in Checked
    BY DEF Typed, Courses, Course, Checked
  <2> QED BY <2>1 DEF Credentials, Authentic, Signed
<1> QED BY <1>1, AlwaysTyped, PTL

-----------------------------------------------------------------------------
(***************************************************************************)
(* Once only.  No signed delivery is in flight after its deadline, and a   *)
(* table keeps the nonce of what it let pass until then.                   *)
(***************************************************************************)
Deadline(d) == 2 * (Msg[d].ts + Skew) + 1 + MaxDelay

\* Past the NonceStore of the middleware.
Passed == {"rate", "handler", "insert", "admitted"}

\* signer_nonces, in Postgres or in the memory of an instance.
RowKept(d) ==
    pc[d] = "admitted" /\ Signed(d) =>
        /\ Postgres => \/ accepted[Shared][Msg[d].nonce] >= Deadline(d)
                       \/ now > Deadline(d)
        /\ ~Postgres /\ crashes = 0 =>
             \/ accepted[Host[d]][Msg[d].nonce] >= Deadline(d)
             \/ Clock(Host[d]) > Deadline(d)

\* The keys in Redis.
EntryKept(d) ==
    pc[d] \in Passed /\ Signed(d) /\ Redis =>
        \/ seen[Shared][Msg[d].nonce] >= Deadline(d)
        \/ now > Deadline(d)

\* Neither table lets two deliveries of a message pass.
RowOnce(d, e) ==
    /\ pc[d] = "admitted" /\ pc[e] = "admitted"
    /\ Replays(d, e)
    /\ Postgres \/ (Host[d] = Host[e] /\ crashes = 0)
    => d = e

EntryOnce(d, e) ==
    /\ pc[d] \in Passed /\ pc[e] \in Passed
    /\ Replays(d, e)
    /\ Redis
    => d = e

OnceInv ==
    Covers =>
        /\ \A d \in Deliveries : RowKept(d) /\ EntryKept(d)
        /\ \A d, e \in Deliveries : RowOnce(d, e) /\ EntryOnce(d, e)

LEMMA Halves ==
    ASSUME NEW x \in Int, NEW low \in Int, NEW high \in Int,
           (x \div 2) \in low..high
    PROVE  2 * low <= x /\ x <= 2 * high + 1
  OBVIOUS

\* A signed delivery in flight is not past its deadline, and what it stores now
\* outlives the deadline of every delivery of the message.
LEMMA InTime ==
    ASSUME Typed, NEW d \in Deliveries, Signed(d), pc[d] \in InFlight
    PROVE  /\ Msg[d].nonce \in Nonces
           /\ now <= Deadline(d)
           /\ Clock(Host[d]) <= Deadline(d)
           /\ Covers => /\ now + NonceTTL >= Deadline(d)
                        /\ Clock(Host[d]) + NonceTTL >= Deadline(d)
<1> DEFINE x == checkedAt[d] + Offset[Host[d]]
<1>1. /\ Msg[d].ts \in Nat /\ Host[d] \in Instances
      /\ Msg[d].nonce \in Nonces \cup {NoNonce}
  BY Given
<1>2. /\ now \in Nat /\ Offset[Host[d]] \in Nat /\ Offset[Host[d]] <= MaxDrift
      /\ Clock(Host[d]) = now + Offset[Host[d]]
  BY <1>1, Clocks DEF Typed
<1>3. /\ Skew \in Nat /\ MaxDelay \in Nat /\ MaxDrift \in Nat /\ MaxTime \in Nat
  BY GateAssumption
<1>4. checkedAt[d] \in Nat
  BY <1>3 DEF Typed, TypeOK
<1>5. checkedAt[d] <= now /\ now <= checkedAt[d] + MaxDelay
  BY DEF Typed, Courses, Course, Checked
<1>6. /\ Msg[d].nonce # NoNonce
      /\ (x \div 2) \in (Msg[d].ts - Skew)..(Msg[d].ts + Skew)
  BY DEF Typed, Courses, Authentic, Checked
<1>7. x \in Int /\ x = checkedAt[d] + Offset[Host[d]]
  BY <1>2, <1>4
<1> HIDE DEF x
<1>8. /\ 2 * (Msg[d].ts - Skew) <= x
      /\ x <= 2 * (Msg[d].ts + Skew) + 1
  BY <1>1, <1>3, <1>6, <1>7, Halves
<1>9. now <= Deadline(d) /\ Clock(Host[d]) <= Deadline(d)
  BY <1>1, <1>2, <1>3, <1>4, <1>5, <1>7, <1>8 DEF Deadline
<1>10. ASSUME Covers
       PROVE  /\ now + NonceTTL >= Deadline(d)
              /\ Clock(Host[d]) + NonceTTL >= Deadline(d)
  <2>1. NonceTTL \in Nat /\ NonceTTL >= 4 * Skew + 1 + MaxDelay + MaxDrift
    <3>1. config.ttlSeconds \in Int
      BY ConfigType DEF Typed
    <3> QED BY <1>3, <1>10, <3>1 DEF Covers, NonceTTL
  <2> QED BY <1>1, <1>2, <1>3, <1>4, <1>5, <1>7, <1>8, <2>1 DEF Deadline
<1> QED BY <1>1, <1>6, <1>9, <1>10

LEMMA DeadlineType ==
    ASSUME NEW d \in Deliveries
    PROVE  Deadline(d) \in Nat /\ Free < Deadline(d)
<1>1. Msg[d].ts \in Nat /\ Skew \in Nat /\ MaxDelay \in Nat
  BY Given, GateAssumption
<1> QED BY <1>1 DEF Deadline, Free

\* What holds of every step: a row or a key that is there is replaced or
\* removed only when it has expired, short of a crash.
LateRows ==
    /\ \A n \in Nonces \cup {NoNonce} :
         accepted'[Shared][n] # accepted[Shared][n] => accepted[Shared][n] < now
    /\ crashes' = 0 =>
         \A i \in Instances, n \in Nonces \cup {NoNonce} :
            accepted'[i][n] # accepted[i][n] => accepted[i][n] < Clock(i)

LateEntries ==
    Redis => \A n \in Nonces :
                seen'[Shared][n] # seen[Shared][n] => seen[Shared][n] < now

Onward ==
    /\ config' = config
    /\ now' \in {now, now + 1}
    /\ crashes' = 0 => crashes = 0

Late == LateRows /\ LateEntries /\ Onward

LEMMA RowKeptNext ==
    ASSUME Typed, NEW d \in Deliveries, RowKept(d), Late,
           pc'[d] = "admitted" => pc[d] = "admitted"
    PROVE  RowKept(d)'
<1> SUFFICES ASSUME pc'[d] = "admitted", Signed(d) PROVE RowKept(d)'
  BY DEF RowKept
<1>1. /\ Msg[d].nonce \in Nonces \cup {NoNonce} /\ Host[d] \in Instances
      /\ Deadline(d) \in Int
  BY Given, DeadlineType
<1>2. pc[d] = "admitted"
  OBVIOUS
<1>3. now \in Int /\ Offset[Host[d]] \in Int
  BY <1>1, Clocks DEF Typed
<1>4. /\ accepted[Shared][Msg[d].nonce] \in Int
      /\ accepted[Host[d]][Msg[d].nonce] \in Int
  BY <1>1 DEF Typed, TypeOK, Tables, Expiry, Free
<1>5. ASSUME Postgres'
      PROVE  \/ accepted'[Shared][Msg[d].nonce] >= Deadline(d)
             \/ now' > Deadline(d)
  <2>1. \/ accepted[Shared][Msg[d].nonce] >= Deadline(d)
        \/ now > Deadline(d)
    BY <1>2, <1>5 DEF RowKept, Late, Onward, Postgres
  <2>2. \/ accepted'[Shared][Msg[d].nonce] = accepted[Shared][Msg[d].nonce]
        \/ accepted[Shared][Msg[d].nonce] < now
    BY <1>1 DEF Late, LateRows
  <2> QED BY <1>1, <1>3, <1>4, <2>1, <2>2 DEF Late, Onward
<1>6. ASSUME ~Postgres', crashes' = 0
      PROVE  \/ accepted'[Host[d]][Msg[d].nonce] >= Deadline(d)
             \/ Clock(Host[d])' > Deadline(d)
  <2>1. \/ accepted[Host[d]][Msg[d].nonce] >= Deadline(d)
        \/ now + Offset[Host[d]] > Deadline(d)
    BY <1>2, <1>6 DEF RowKept, Late, Onward, Postgres, Clock
  <2>2. \/ accepted'[Host[d]][Msg[d].nonce] = accepted[Host[d]][Msg[d].nonce]
        \/ accepted[Host[d]][Msg[d].nonce] < now + Offset[Host[d]]
    BY <1>1, <1>6 DEF Late, LateRows, Clock
  <2>3. now' + Offset[Host[d]] >= now + Offset[Host[d]]
    BY <1>3 DEF Late, Onward
  <2>4. Clock(Host[d])' = now' + Offset[Host[d]] /\ now' \in Int
    BY <1>3 DEF Clock, Late, Onward
  <2> QED BY <1>1, <1>3, <1>4, <2>1, <2>2, <2>3, <2>4
<1> QED BY <1>5, <1>6 DEF RowKept, Deadline

LEMMA EntryKeptNext ==
    ASSUME Typed, Typed', NEW d \in Deliveries, EntryKept(d), Late,
           Redis /\ Signed(d) /\ pc'[d] \in Passed => pc[d] \in Passed
    PROVE  EntryKept(d)'
<1> SUFFICES ASSUME pc'[d] \in Passed, Signed(d), Redis'
             PROVE  \/ seen'[Shared][Msg[d].nonce] >= Deadline(d)
                    \/ now' > Deadline(d)
  BY DEF EntryKept, Deadline, Signed
<1>1. Redis /\ pc[d] \in Passed
  BY DEF Late, Onward, Redis
<1>2. Msg[d].nonce \in Nonces
  <2>1. Msg[d].nonce # NoNonce
    BY <1>1 DEF Typed, Courses, Authentic, Checked, Passed, InFlight
  <2> QED BY <2>1, Given
<1>3. Deadline(d) \in Int /\ now \in Int
  BY DeadlineType, Given, Clocks DEF Typed
<1>4. seen[Shared][Msg[d].nonce] \in Int
  BY <1>2 DEF Typed, TypeOK, Tables, Expiry, Free
<1>5. \/ seen[Shared][Msg[d].nonce] >= Deadline(d)
      \/ now > Deadline(d)
  BY <1>1 DEF EntryKept
<1>6. \/ seen'[Shared][Msg[d].nonce] = seen[Shared][Msg[d].nonce]
      \/ seen[Shared][Msg[d].nonce] < now
  BY <1>1, <1>2 DEF Late, LateEntries
<1> QED BY <1>3, <1>4, <1>5, <1>6 DEF Late, Onward

\* A step after which nobody new is admitted, or past Redis.
NobodyNew ==
    \A d \in Deliveries :
        /\ pc'[d] = "admitted" => pc[d] = "admitted"
        /\ Redis /\ Signed(d) /\ pc'[d] \in Passed => pc[d] \in Passed

LEMMA QuietOnce ==
    ASSUME Typed, Typed', OnceInv, Late, NobodyNew
    PROVE  OnceInv'
<1>1. /\ config' = config /\ (crashes' = 0 => crashes = 0)
      /\ Covers' = Covers /\ Postgres' = Postgres /\ Redis' = Redis
  BY DEF Late, Onward, Covers, Postgres, Redis
<1> SUFFICES ASSUME Covers, NEW d \in Deliveries, NEW e \in Deliveries
             PROVE  /\ RowKept(d)' /\ EntryKept(d)'
                    /\ RowOnce(d, e)' /\ EntryOnce(d, e)'
  BY <1>1 DEF OnceInv
<1>2. RowKept(d) /\ EntryKept(d) /\ RowOnce(d, e) /\ EntryOnce(d, e)
  BY DEF OnceInv
<1>3. RowKept(d)' /\ EntryKept(d)'
  BY <1>2, RowKeptNext, EntryKeptNext DEF NobodyNew
<1>4. RowOnce(d, e)'
  BY <1>1, <1>2 DEF RowOnce, NobodyNew, Replays
<1>5. EntryOnce(d, e)'
  BY <1>1, <1>2 DEF EntryOnce, NobodyNew, Replays, Signed
<1> QED BY <1>3, <1>4, <1>5

\* Moving to a label, as the others see it.
LEMMA Moves ==
    ASSUME Typed, NEW d \in Deliveries, NEW label, Goto(d, label)
    PROVE  pc'[d] = label /\ \A e \in Deliveries \ {d} : pc'[e] = pc[e]
  BY DEF Goto, Proceed, Typed, TypeOK

\* Steps that touch neither table.
LEMMA TablesKept ==
    ASSUME Typed, UNCHANGED <<seen, accepted>>, Onward
    PROVE  Late
  BY DEF Late, LateRows, LateEntries

LEMMA ElsewhereOnce ==
    ASSUME Typed, Typed', OnceInv, NEW d \in Deliveries,
           RefuseEarly(d) \/ HandlerRefuses(d) \/ CheckSignature(d)
             \/ NonceExists(d) \/ CheckRate(d)
    PROVE  OnceInv'
<1>1. UNCHANGED <<config, now, seen, accepted, crashes>>
  BY DEF RefuseEarly, HandlerRefuses, CheckSignature, NonceExists, CheckRate,
         tables
<1>2. Late
  BY <1>1, TablesKept DEF Onward
<1>3. NobodyNew
  <2>1. CASE RefuseEarly(d) \/ HandlerRefuses(d)
    <3>1. Goto(d, "refused")
      BY <2>1 DEF RefuseEarly, HandlerRefuses
    <3> QED BY <3>1, Moves DEF NobodyNew, Passed
  <2>2. CASE NonceExists(d)
    <3>1. PICK label \in {"refused", "store"} : Goto(d, label)
      BY <2>2 DEF NonceExists
    <3> QED BY <3>1, Moves DEF NobodyNew, Passed
  <2>3. CASE CheckRate(d)
    <3>1. PICK label \in {"refused", "handler"} : Goto(d, label)
      BY <2>3 DEF CheckRate
    <3>2. pc[d] = "rate"
      BY <2>3 DEF CheckRate
    <3> QED BY <3>1, <3>2, Moves DEF NobodyNew, Passed
  <2>4. CASE CheckSignature(d)
    <3>1. /\ pc'[d] \in {"refused", "exists", "rate"}
          /\ pc'[d] = "rate" => Msg[d].nonce = NoNonce
          /\ \A e \in Deliveries \ {d} : pc'[e] = pc[e]
      BY <2>4 DEF CheckSignature, Proceed, Typed, TypeOK
    <3>2. pc'[d] = "rate" => ~Signed(d)
      BY <3>1 DEF Typed, Courses, Authentic, Checked, InFlight, Signed
    <3> QED BY <3>1, <3>2 DEF NobodyNew, Passed
  <2> QED BY <2>1, <2>2, <2>3, <2>4
<1> QED BY <1>2, <1>3, QuietOnce

LEMMA TickOnce ==
    ASSUME Typed, Typed', OnceInv, Tick
    PROVE  OnceInv'
<1>1. UNCHANGED <<config, seen, accepted, crashes, pc>> /\ now' = now + 1
  BY DEF Tick, tables
<1>2. Late /\ NobodyNew
  BY <1>1, TablesKept DEF Onward, NobodyNew
<1> QED BY <1>2, QuietOnce

LEMMA CrashOnce ==
    ASSUME Typed, Typed', OnceInv, NEW i \in Instances, Crash(i)
    PROVE  OnceInv'
<1>1. /\ UNCHANGED <<config, now>>
      /\ crashes' = crashes + 1 /\ crashes' # 0
      /\ seen' = [seen EXCEPT ![i] = [n \in Nonces |-> Free]]
      /\ accepted' = [accepted EXCEPT ![i] =
                        [n \in Nonces \cup {NoNonce} |-> Free]]
  <2>1. MaxCrashes \in Nat
    BY GateAssumption
  <2> QED BY <2>1 DEF Crash, Typed, TypeOK
<1>2. i # Shared
  BY GateAssumption
<1>3. seen'[Shared] = seen[Shared] /\ accepted'[Shared] = accepted[Shared]
  BY <1>1, <1>2 DEF Typed, TypeOK
<1>4. Late
  BY <1>1, <1>3 DEF Late, LateRows, LateEntries, Onward
<1>5. NobodyNew
  BY DEF Crash, NobodyNew, Passed
<1> QED BY <1>4, <1>5, QuietOnce

\* The reaper works without Redis only.
LEMMA NonceDeleteOnce ==
    ASSUME Typed, Typed', OnceInv, NEW d \in Deliveries, NonceDelete(d)
    PROVE  OnceInv'
<1>1. UNCHANGED <<config, now, pc, accepted, crashes>>
  BY DEF NonceDelete
<1>2. ~Redis
  BY DEF NonceDelete, Typed, Courses, Course
<1>3. Late
  BY <1>1, <1>2 DEF Late, LateRows, LateEntries, Onward
<1>4. NobodyNew
  BY <1>1 DEF NobodyNew
<1> QED BY <1>3, <1>4, QuietOnce

\* SET NX: a key is set only where none is in force.
LEMMA NonceStoreOnce ==
    ASSUME Typed, Typed', OnceInv, NEW d \in Deliveries, NonceStore(d)
    PROVE  OnceInv'
<1>1. pc[d] = "store" /\ UNCHANGED <<config, now, accepted, crashes>>
  BY DEF NonceStore
<1>2. CASE MemoryNonceStore(d)
  <2>1. ~Redis /\ \E label \in {"refused", "rate"} : Goto(d, label)
    BY <1>2 DEF MemoryNonceStore
  <2>2. Late
    BY <1>1, <2>1 DEF Late, LateRows, LateEntries, Onward
  <2>3. NobodyNew
    BY <2>1, Moves DEF NobodyNew
  <2> QED BY <2>2, <2>3, QuietOnce
<1>3. CASE RedisNonceStore(d)
  <2> DEFINE n == Msg[d].nonce
  <2>1. Redis /\ NonceTable(Host[d]) = Shared /\ Entry(d) = seen[Shared][n]
    BY <1>3 DEF RedisNonceStore, Redis, NonceTable, Entry
  <2>2. n \in Nonces
    BY <1>1, Given DEF Typed, Courses, Course
  <2>3. /\ seen \in [Tables -> [Nonces -> Expiry]] /\ Shared \in Tables
        /\ Entry(d) \in Int /\ now \in Int /\ now \in Nat
    <3>1. now \in Nat
      BY Given, Clocks DEF Typed
    <3>2. seen \in [Tables -> [Nonces -> Expiry]] /\ Shared \in Tables
      BY DEF Typed, TypeOK, Tables
    <3>3. seen[Shared][n] \in Int
      BY <2>2, <3>2 DEF Expiry, Free
    <3> QED BY <2>1, <3>1, <3>2, <3>3
  <2>4. PICK o \in {"ok", "failed", "unknown"} :
          /\ IF o = "failed" \/ (Entry(d) # Free /\ now <= Entry(d))
             THEN UNCHANGED seen ELSE PutEntry(d, now + NonceTTL)
          /\ Goto(d, IF o # "ok" \/ (Entry(d) # Free /\ now <= Entry(d))
                     THEN "refused" ELSE "rate")
    BY <1>3 DEF RedisNonceStore
  <2>5. \/ seen' = seen
        \/ /\ Entry(d) < now
           /\ seen' = [seen EXCEPT ![Shared][n] = now + NonceTTL]
    BY <2>1, <2>3, <2>4 DEF PutEntry, Free
  <2>6. LateEntries
    BY <2>1, <2>2, <2>3, <2>5 DEF LateEntries
  <2>7. Late
    BY <1>1, <2>6 DEF Late, LateRows, Onward
  <2>8. CASE pc'[d] = "refused"
    <3>1. \A e \in Deliveries \ {d} : pc'[e] = pc[e]
      BY <2>4, Moves
    <3>2. NobodyNew
      BY <2>8, <3>1 DEF NobodyNew, Passed
    <3> QED BY <2>7, <3>2, QuietOnce
  <2>9. CASE pc'[d] # "refused"
    <3>1. /\ Entry(d) < now
          /\ seen' = [seen EXCEPT ![Shared][n] = now + NonceTTL]
          /\ pc'[d] = "rate" /\ \A e \in Deliveries \ {d} : pc'[e] = pc[e]
      <4>1. ~(o # "ok" \/ (Entry(d) # Free /\ now <= Entry(d)))
        BY <2>4, <2>9, Moves
      <4>2. Goto(d, "rate") /\ PutEntry(d, now + NonceTTL)
        BY <2>4, <4>1
      <4> QED BY <2>1, <2>3, <4>1, <4>2, Moves DEF PutEntry, Free
    <3>2. seen'[Shared][n] = now + NonceTTL
      BY <2>2, <2>3, <3>1
    <3>3. /\ config' = config /\ crashes' = crashes /\ now' = now
          /\ Covers' = Covers /\ Postgres' = Postgres /\ Redis' = Redis
      BY <1>1 DEF Covers, Postgres, Redis
    <3> SUFFICES ASSUME Covers PROVE OnceInv'
      BY <3>3 DEF OnceInv
    <3>4. ASSUME NEW e \in Deliveries PROVE RowKept(e)' /\ EntryKept(e)'
      <4>1. RowKept(e) /\ EntryKept(e)
        BY DEF OnceInv
      <4>2. RowKept(e)'
        BY <2>7, <3>1, <4>1, RowKeptNext
      <4>3. CASE e # d
        BY <2>7, <3>1, <4>1, <4>2, <4>3, EntryKeptNext
      <4>4. CASE e = d
        <5>1. Signed(d) => now + NonceTTL >= Deadline(d)
          BY <1>1, InTime DEF InFlight
        <5>2. EntryKept(d)'
          BY <3>2, <5>1 DEF EntryKept, Signed, Deadline
        <5> QED BY <4>2, <4>4, <5>2
      <4> QED BY <4>3, <4>4
    <3>5. ASSUME NEW e \in Deliveries, e # d, Replays(e, d)
          PROVE  pc[e] \notin Passed
      <4>1. now <= Deadline(d) /\ Deadline(d) = Deadline(e)
        BY <1>1, <3>5, InTime DEF InFlight, Deadline, Replays, Signed
      <4>2. Deadline(d) \in Int
        BY DeadlineType
      <4>3. ~(seen[Shared][n] >= Deadline(e)) /\ ~(now > Deadline(e))
        BY <2>1, <2>3, <3>1, <4>1, <4>2
      <4>4. EntryKept(e)
        BY DEF OnceInv
      <4> QED BY <2>1, <3>5, <4>3, <4>4 DEF EntryKept, Replays, Signed
    <3>6. ASSUME NEW e \in Deliveries, NEW f \in Deliveries
          PROVE  RowOnce(e, f)' /\ EntryOnce(e, f)'
      <4>1. RowOnce(e, f) /\ EntryOnce(e, f)
        BY DEF OnceInv
      <4>2. RowOnce(e, f)'
        BY <3>1, <3>3, <4>1 DEF RowOnce, Replays
      <4>3. EntryOnce(e, f)'
        BY <3>1, <3>3, <3>5, <4>1 DEF EntryOnce, Replays
      <4> QED BY <4>2, <4>3
    <3> QED BY <3>4, <3>6 DEF OnceInv
  <2> QED BY <2>8, <2>9
<1> QED BY <1>2, <1>3 DEF NonceStore

\* A delivery is admitted where no row was in force, and leaves its own.
LEMMA AdmitOnce ==
    ASSUME Typed, Typed', OnceInv, Late, NEW d \in Deliveries,
           UNCHANGED <<now, crashes>>,
           pc[d] \in {"handler", "insert"}, pc'[d] = "admitted",
           \A e \in Deliveries \ {d} : pc'[e] = pc[e],
           Postgres => /\ accepted[Shared][Msg[d].nonce] < now
                       /\ accepted'[Shared][Msg[d].nonce] = now + NonceTTL,
           ~Postgres => /\ accepted[Host[d]][Msg[d].nonce] < Clock(Host[d])
                        /\ accepted'[Host[d]][Msg[d].nonce] =
                             Clock(Host[d]) + NonceTTL
    PROVE  OnceInv'
<1>1. /\ config' = config /\ crashes' = crashes /\ now' = now
      /\ Covers' = Covers /\ Postgres' = Postgres /\ Redis' = Redis
  BY DEF Late, Onward, Covers, Postgres, Redis
<1>2. pc[d] \in InFlight /\ pc[d] \in Passed /\ pc[d] # "admitted"
  BY DEF InFlight, Passed
<1> SUFFICES ASSUME Covers PROVE OnceInv'
  BY <1>1 DEF OnceInv
<1>3. ASSUME NEW e \in Deliveries PROVE RowKept(e)' /\ EntryKept(e)'
  <2>1. RowKept(e) /\ EntryKept(e)
    BY DEF OnceInv
  <2>2. EntryKept(e)'
    BY <1>2, <2>1, EntryKeptNext
  <2>3. CASE e # d
    BY <2>1, <2>2, <2>3, RowKeptNext
  <2>4. CASE e = d
    <3>1. Signed(d) => /\ now + NonceTTL >= Deadline(d)
                       /\ Clock(Host[d]) + NonceTTL >= Deadline(d)
      BY <1>2, InTime
    <3>2. RowKept(d)'
      BY <1>1, <3>1 DEF RowKept, Signed, Deadline
    <3> QED BY <2>2, <2>4, <3>2
  <2> QED BY <2>3, <2>4
<1>4. ASSUME NEW e \in Deliveries, e # d, Replays(e, d),
             Postgres \/ (Host[d] = Host[e] /\ crashes = 0)
      PROVE  pc[e] # "admitted"
  <2>1. /\ now <= Deadline(d) /\ Clock(Host[d]) <= Deadline(d)
        /\ Deadline(d) = Deadline(e) /\ Signed(e)
    BY <1>2, <1>4, InTime DEF Deadline, Replays, Signed
  <2>2. /\ Deadline(d) \in Int /\ now \in Int /\ Clock(Host[d]) \in Int
        /\ accepted[Shared][Msg[d].nonce] \in Int
        /\ accepted[Host[d]][Msg[d].nonce] \in Int
    <3>1. Host[d] \in Instances /\ Msg[d].nonce \in Nonces \cup {NoNonce}
      BY Given
    <3>2. now \in Int /\ Clock(Host[d]) \in Int
      BY <3>1, Clocks DEF Typed
    <3> QED BY <3>1, <3>2, DeadlineType DEF Typed, TypeOK, Tables, Expiry, Free
  <2>3. RowKept(e)
    BY DEF OnceInv
  <2>4. CASE Postgres
    <3>1. /\ ~(accepted[Shared][Msg[e].nonce] >= Deadline(e))
          /\ ~(now > Deadline(e))
      BY <1>4, <2>1, <2>2, <2>4 DEF Replays
    <3> QED BY <2>1, <2>3, <2>4, <3>1 DEF RowKept
  <2>5. CASE ~Postgres
    <3>1. /\ ~(accepted[Host[e]][Msg[e].nonce] >= Deadline(e))
          /\ ~(Clock(Host[e]) > Deadline(e))
      BY <1>4, <2>1, <2>2, <2>5 DEF Replays
    <3> QED BY <1>4, <2>1, <2>3, <2>5, <3>1 DEF RowKept
  <2> QED BY <2>4, <2>5
<1>5. ASSUME NEW e \in Deliveries, NEW f \in Deliveries
      PROVE  RowOnce(e, f)' /\ EntryOnce(e, f)'
  <2>1. RowOnce(e, f) /\ EntryOnce(e, f)
    BY DEF OnceInv
  <2>2. EntryOnce(e, f)'
    BY <1>1, <1>2, <2>1 DEF EntryOnce, Replays
  <2>3. RowOnce(e, f)'
    BY <1>1, <1>4, <2>1 DEF RowOnce, Replays
  <2> QED BY <2>2, <2>3
<1> QED BY <1>3, <1>5 DEF OnceInv

\* The rows that Purged removes have expired.
LEMMA PurgedLate ==
    ASSUME NEW table \in [Nonces \cup {NoNonce} -> Expiry], NEW t \in Nat,
           NEW n \in Nonces \cup {NoNonce}
    PROVE  /\ Purged(table, t)[n] # table[n] => table[n] < t
           /\ Purged(table, t)[n] = Free => table[n] < t
<1>1. Purged(table, t)[n] = IF table[n] < t THEN Free ELSE table[n]
  BY DEF Purged
<1>2. Free < t
  BY DEF Free
<1> QED BY <1>1, <1>2

LEMMA MemoryAcceptNonceOnce ==
    ASSUME Typed, Typed', OnceInv, NEW d \in Deliveries, MemoryAcceptNonce(d)
    PROVE  OnceInv'
<1> DEFINE i == Host[d]
           n == Msg[d].nonce
           table == Purged(accepted[i], Clock(i))
           row == Clock(i) + NonceTTL
<1>1. /\ pc[d] = "handler" /\ ~Postgres
      /\ UNCHANGED <<config, now, seen, crashes>>
      /\ \/ /\ Goto(d, "refused")
            /\ accepted' = [accepted EXCEPT ![i] = table]
         \/ /\ table[n] = Free
            /\ Goto(d, "admitted")
            /\ accepted' = [accepted EXCEPT ![i] = [table EXCEPT ![n] = row]]
  BY DEF MemoryAcceptNonce
<1>2. /\ i \in Instances /\ n \in Nonces \cup {NoNonce}
      /\ Clock(i) \in Nat /\ i # Shared /\ i \in Tables /\ Shared \in Tables
      /\ Instances \subseteq Tables
  BY Given, Clocks, GateAssumption DEF Typed, Tables
<1>3. /\ accepted \in [Tables -> [Nonces \cup {NoNonce} -> Expiry]]
      /\ accepted[i] \in [Nonces \cup {NoNonce} -> Expiry]
  BY <1>2 DEF Typed, TypeOK
<1>4. table \in [Nonces \cup {NoNonce} -> Expiry]
  BY <1>3, PurgedType
<1>5. \A k \in Nonces \cup {NoNonce} :
        /\ table[k] # accepted[i][k] => accepted[i][k] < Clock(i)
        /\ table[k] = Free => accepted[i][k] < Clock(i)
  BY <1>2, <1>3, PurgedLate
<1> HIDE DEF i, n, table, row
<1>6. \A j \in Tables \ {i} : accepted'[j] = accepted[j]
  BY <1>1, <1>3
<1>7. \A k \in Nonces \cup {NoNonce} :
        accepted'[i][k] # accepted[i][k] => accepted[i][k] < Clock(i)
  BY <1>1, <1>2, <1>3, <1>4, <1>5
<1>8. LateRows
  BY <1>2, <1>6, <1>7 DEF LateRows
<1>9. Late
  BY <1>1, <1>8 DEF Late, LateEntries, Onward
<1>10. CASE Goto(d, "refused")
  <2>1. NobodyNew
    BY <1>10, Moves DEF NobodyNew, Passed
  <2> QED BY <1>9, <2>1, QuietOnce
<1>11. CASE /\ table[n] = Free
            /\ Goto(d, "admitted")
            /\ accepted' = [accepted EXCEPT ![i] = [table EXCEPT ![n] = row]]
  <2>1. accepted[i][n] < Clock(i) /\ accepted'[i][n] = row
    BY <1>2, <1>3, <1>4, <1>5, <1>11
  <2>2. pc'[d] = "admitted" /\ \A e \in Deliveries \ {d} : pc'[e] = pc[e]
    BY <1>11, Moves
  <2> QED BY <1>1, <1>9, <2>1, <2>2, AdmitOnce DEF i, n, row
<1> QED BY <1>1, <1>10, <1>11

LEMMA DeleteExpiredOnce ==
    ASSUME Typed, Typed', OnceInv, NEW d \in Deliveries, DeleteExpired(d)
    PROVE  OnceInv'
<1>1. /\ pc[d] = "handler" /\ Postgres
      /\ UNCHANGED <<config, now, seen, crashes>>
      /\ \/ accepted' = accepted
         \/ accepted' = [accepted EXCEPT ![Shared] = Purged(accepted[Shared], now)]
  BY DEF DeleteExpired
<1>2. PICK label \in {"refused", "insert"} : Goto(d, label)
  BY DEF DeleteExpired
<1>3. /\ accepted \in [Tables -> [Nonces \cup {NoNonce} -> Expiry]]
      /\ accepted[Shared] \in [Nonces \cup {NoNonce} -> Expiry]
      /\ Shared \in Tables /\ Shared \notin Instances /\ Instances \subseteq Tables
      /\ now \in Nat
  <2>1. now \in Nat
    BY Given, Clocks DEF Typed
  <2> QED BY <2>1, GateAssumption DEF Typed, TypeOK, Tables
<1>4. \A n \in Nonces \cup {NoNonce} :
        accepted'[Shared][n] # accepted[Shared][n] => accepted[Shared][n] < now
  <2>1. \/ accepted'[Shared] = accepted[Shared]
        \/ accepted'[Shared] = Purged(accepted[Shared], now)
    BY <1>1, <1>3
  <2> QED BY <1>3, <2>1, PurgedLate
<1>5. \A i \in Instances : accepted'[i] = accepted[i]
  BY <1>1, <1>3
<1>6. Late
  BY <1>1, <1>4, <1>5 DEF Late, LateRows, LateEntries, Onward
<1>7. NobodyNew
  BY <1>1, <1>2, Moves DEF NobodyNew, Passed
<1> QED BY <1>6, <1>7, QuietOnce

LEMMA InsertNonceOnce ==
    ASSUME Typed, Typed', OnceInv, NEW d \in Deliveries, InsertNonce(d)
    PROVE  OnceInv'
<1> DEFINE n == Msg[d].nonce
<1>1. /\ pc[d] = "insert"
      /\ UNCHANGED <<config, now, seen, crashes>>
  BY DEF InsertNonce
<1>2. Postgres /\ Row(d) = accepted[Shared][n]
  BY <1>1 DEF Typed, Courses, Course, Row, SignerTable, Postgres
<1>3. PICK o \in {"ok", "failed", "unknown"} :
        /\ Goto(d, IF o = "ok" /\ Row(d) = Free THEN "admitted" ELSE "refused")
        /\ accepted' = IF o = "failed" \/ Row(d) # Free THEN accepted
                       ELSE [accepted EXCEPT ![Shared][n] = now + NonceTTL]
  BY DEF InsertNonce
<1>4. /\ accepted \in [Tables -> [Nonces \cup {NoNonce} -> Expiry]]
      /\ Shared \in Tables /\ Shared \notin Instances /\ Instances \subseteq Tables
      /\ n \in Nonces \cup {NoNonce}
      /\ now \in Nat /\ Free < now
  <2>1. now \in Nat
    BY Given, Clocks DEF Typed
  <2>2. Free < now
    BY <2>1 DEF Free
  <2> QED BY <2>1, <2>2, Given, GateAssumption DEF Typed, TypeOK, Tables
<1> HIDE DEF n
<1>5. \/ accepted' = accepted
      \/ /\ accepted[Shared][n] < now
         /\ accepted' = [accepted EXCEPT ![Shared][n] = now + NonceTTL]
  BY <1>2, <1>3, <1>4
<1>6. LateRows
  BY <1>4, <1>5 DEF LateRows
<1>7. Late
  BY <1>1, <1>6 DEF Late, LateEntries, Onward
<1>8. CASE o = "ok" /\ Row(d) = Free
  <2>1. /\ Goto(d, "admitted")
        /\ accepted' = [accepted EXCEPT ![Shared][n] = now + NonceTTL]
    BY <1>3, <1>8
  <2>2. accepted[Shared][n] < now /\ accepted'[Shared][n] = now + NonceTTL
    BY <1>2, <1>4, <1>8, <2>1
  <2>3. pc'[d] = "admitted" /\ \A e \in Deliveries \ {d} : pc'[e] = pc[e]
    BY <2>1, Moves
  <2> QED BY <1>1, <1>2, <1>7, <2>2, <2>3, AdmitOnce DEF n
<1>9. CASE ~(o = "ok" /\ Row(d) = Free)
  <2>1. NobodyNew
    BY <1>3, <1>9, Moves DEF NobodyNew, Passed
  <2> QED BY <1>7, <2>1, QuietOnce
<1> QED BY <1>8, <1>9

LEMMA InitOnce == Init => OnceInv
  BY DEF Init, OnceInv, RowKept, EntryKept, RowOnce, EntryOnce, Passed

LEMMA NextOnce == Typed /\ Typed' /\ OnceInv /\ [Next]_vars => OnceInv'
<1> SUFFICES ASSUME Typed, Typed', OnceInv, [Next]_vars PROVE OnceInv'
  OBVIOUS
<1>1. CASE UNCHANGED vars
  <2>1. UNCHANGED <<config, now, seen, accepted, crashes, pc>>
    BY <1>1 DEF vars, tables
  <2>2. Late /\ NobodyNew
    BY <2>1, TablesKept DEF Onward, NobodyNew
  <2> QED BY <2>2, QuietOnce
<1>2. CASE Tick
  BY <1>2, TickOnce
<1>3. ASSUME NEW i \in Instances, Crash(i) PROVE OnceInv'
  BY <1>3, CrashOnce
<1>4. ASSUME NEW d \in Deliveries, Validate(d) PROVE OnceInv'
  BY <1>4, ElsewhereOnce, NonceStoreOnce DEF Validate
<1>5. ASSUME NEW d \in Deliveries, NonceDelete(d) PROVE OnceInv'
  BY <1>5, NonceDeleteOnce
<1>6. ASSUME NEW d \in Deliveries, AcceptNonce(d) PROVE OnceInv'
  BY <1>6, ElsewhereOnce, MemoryAcceptNonceOnce, DeleteExpiredOnce,
     InsertNonceOnce DEF AcceptNonce
<1> QED BY <1>1, <1>2, <1>3, <1>4, <1>5, <1>6 DEF Next

\* A signed message is admitted at most once, at whatever instances and however
\* often it arrives, through failed and unacknowledged calls of Redis and
\* Postgres: when NONCE_TTL_SECONDS covers twice the skew, the rounding of the
\* timestamps, the delay of the handler and the drift of the clocks, the table
\* that the deliveries share still has the nonce of the first when the last that
\* ValidateRequest can let pass asks for it.
THEOREM AdmittedOnlyOnce == Spec => []AdmittedOnce
<1>1. Typed /\ OnceInv => AdmittedOnce
  <2> SUFFICES ASSUME OnceInv, NEW d \in Deliveries, NEW e \in Deliveries,
                      Covers, pc[d] = "admitted", pc[e] = "admitted",
                      Replays(d, e), CommonTable(d, e)
               PROVE  d = e
    BY DEF AdmittedOnce
  <2>1. RowOnce(d, e) /\ EntryOnce(d, e)
    BY DEF OnceInv
  <2> QED BY <2>1 DEF RowOnce, EntryOnce, CommonTable, Passed
<1>2. Spec => []OnceInv
  BY InitOnce, NextOnce, AlwaysTyped, PTL DEF Spec
<1> QED BY <1>1, <1>2, AlwaysTyped, PTL

-----------------------------------------------------------------------------
(***************************************************************************)
(* The rate limiters.                                                      *)
(***************************************************************************)

\* The requests of a client that an instance has let through since its start.
Passages(i, c) == {p \in allowed : Host[p.id] = i /\ Msg[p.id].client = c}

\* Those from time s on.
Since(i, c, s) == {p \in Passages(i, c) : p.at >= s}

Unused(i, c) == ~meter[i][c].known => Passages(i, c) = {}

\* A request the sliding window has forgotten is a window old.
WindowTrue(i, c) ==
    /\ \A p \in Passages(i, c) :
         p \in meter[i][c].requests \/ p.at <= Clock(i) - RateWindow
    /\ meter[i][c].requests \subseteq Passages(i, c)

\* The tokens of a bucket are what its capacity and the refill since s leave
\* after the requests since s were paid.
BucketTrue(i, c) ==
    /\ \A p \in Passages(i, c) : p.at <= meter[i][c].last
    /\ meter[i][c].tokens <= RateLimit * RateWindow
    /\ \A s \in Int : s <= meter[i][c].last /\ meter[i][c].known =>
         Cardinality(Since(i, c, s)) * RateWindow + meter[i][c].tokens
           <= RateLimit * RateWindow + (meter[i][c].last - s) * RateLimit

WindowBound(i, c) ==
    \A s \in Int :
        IF config.limiter = "sliding_window"
        THEN Cardinality(LetThrough(i, c, s)) <= RateLimit
        ELSE Cardinality(LetThrough(i, c, s)) < 2 * RateLimit

RatePart(i, c) ==
    /\ Unused(i, c)
    /\ config.limiter = "sliding_window" => WindowTrue(i, c)
    /\ config.limiter # "sliding_window" => BucketTrue(i, c)
    /\ WindowBound(i, c)

RateInv ==
    /\ IsFiniteSet(allowed)
    /\ \A i \in Instances, c \in Clients : RatePart(i, c)

\* Arithmetic the bucket needs.
LEMMA Distributes ==
    ASSUME NEW a \in Int, NEW b \in Int, NEW w \in Int
    PROVE  (a + b) * w = a * w + b * w /\ a * w \in Int
  OBVIOUS

LEMMA TimesMonotone ==
    ASSUME NEW a \in Int, NEW b \in Int, a <= b, NEW w \in Nat
    PROVE  a * w <= b * w
<1>1. b - a \in Nat /\ b = a + (b - a)
  OBVIOUS
<1>2. \A x \in Nat : x * w >= 0
  OBVIOUS
<1>3. b * w = a * w + (b - a) * w
  BY <1>1, Distributes
<1> QED BY <1>1, <1>2, <1>3

\* What is paid from a full bucket and the refill of less than a window.
LEMMA TwiceTheLimit ==
    ASSUME NEW k \in Nat, NEW n \in Nat, n < RateWindow,
           k * RateWindow <= RateLimit * RateWindow + n * RateLimit
    PROVE  k < 2 * RateLimit
<1>1. /\ RateLimit \in Nat /\ RateWindow \in Nat
      /\ RateLimit >= 1 /\ RateWindow >= 1
  BY Products
<1> SUFFICES ASSUME k >= RateLimit + RateLimit PROVE FALSE
  BY <1>1
<1>2. (RateLimit + RateLimit) * RateWindow <= k * RateWindow
  BY <1>1, TimesMonotone
<1>3. (RateLimit + RateLimit) * RateWindow
        = RateLimit * RateWindow + RateLimit * RateWindow
  BY <1>1, Distributes
<1>4. (n + 1) * RateLimit <= RateWindow * RateLimit
  BY <1>1, TimesMonotone
<1>5. (n + 1) * RateLimit = n * RateLimit + 1 * RateLimit /\ n * RateLimit \in Int
  BY <1>1, Distributes
<1>6. RateWindow * RateLimit = RateLimit * RateWindow
  BY <1>1
<1>7. RateLimit * RateWindow \in Int /\ k * RateWindow \in Int
  BY <1>1, Distributes
<1> QED BY <1>1, <1>2, <1>3, <1>4, <1>5, <1>6, <1>7

\* The sets of passages are finite.
LEMMA PassagesFinite ==
    ASSUME IsFiniteSet(allowed), NEW i, NEW c, NEW s
    PROVE  /\ IsFiniteSet(Passages(i, c))
           /\ IsFiniteSet(Since(i, c, s)) /\ Cardinality(Since(i, c, s)) \in Nat
           /\ IsFiniteSet(LetThrough(i, c, s))
           /\ Cardinality(LetThrough(i, c, s)) \in Nat
<1>1. /\ Passages(i, c) \subseteq allowed
      /\ Since(i, c, s) \subseteq allowed
      /\ LetThrough(i, c, s) \subseteq allowed
  BY DEF Passages, Since, LetThrough
<1> QED BY <1>1, FS_Subset, FS_CardinalityType

\* An instance and a client that a step leaves alone, but for the clock.
LEMMA RateElsewhere ==
    ASSUME Typed, NEW i \in Instances, NEW c \in Clients, RatePart(i, c),
           Passages(i, c)' = Passages(i, c), meter'[i][c] = meter[i][c],
           config' = config, now' \in {now, now + 1}
    PROVE  RatePart(i, c)'
<1>1. \A s : /\ LetThrough(i, c, s)' = LetThrough(i, c, s)
             /\ Since(i, c, s)' = Since(i, c, s)
  <2>1. \A s : LetThrough(i, c, s) =
                 {p \in Passages(i, c) : p.at >= s /\ p.at < s + RateWindow}
    BY DEF LetThrough, Passages
  <2>2. \A s : LetThrough(i, c, s)' =
                 {p \in Passages(i, c)' : p.at >= s /\ p.at < s + RateWindow}
    BY DEF LetThrough, Passages
  <2> QED BY <2>1, <2>2 DEF Since
<1>2. Unused(i, c)'
  BY DEF RatePart, Unused
<1>3. WindowBound(i, c)'
  BY <1>1 DEF RatePart, WindowBound
<1>4. config.limiter # "sliding_window" => BucketTrue(i, c)'
  BY <1>1 DEF RatePart, BucketTrue
<1>5. config.limiter = "sliding_window" => WindowTrue(i, c)'
  <2>1. /\ Clock(i) \in Int /\ Clock(i)' \in {Clock(i), Clock(i) + 1}
        /\ RateWindow \in Int
    <3>1. now \in Nat /\ Offset[i] \in Nat /\ Clock(i) \in Nat
      BY Clocks DEF Typed
    <3> QED BY <3>1, Products DEF Clock
  <2>2. \A p \in Passages(i, c) : p.at \in Int
    BY DEF Typed, TypeOK, Passages, Passage
  <2>3. \A p \in Passages(i, c) : p.at <= Clock(i) - RateWindow
                                    => p.at <= Clock(i)' - RateWindow
    BY <2>1, <2>2
  <2> QED BY <2>3 DEF RatePart, WindowTrue
<1> QED BY <1>2, <1>3, <1>4, <1>5 DEF RatePart

\* What CheckRate does to the passages and the meter of its client.
LEMMA CheckRateEffect ==
    ASSUME Typed, NEW d \in Deliveries, CheckRate(d), NEW i, i = Host[d],
           NEW c, c = Msg[d].client, NEW t, t = Clock(i),
           NEW p0, p0 = [id |-> d, at |-> t],
           NEW m, m = meter[i][c]
    PROVE  /\ i \in Instances /\ c \in Clients /\ t \in Nat
           /\ m \in Meter /\ m.last \in Nat /\ m.last <= t
           /\ config' = config /\ now' = now /\ Clock(i)' = t
           /\ meter'[i][c] = MeterAfter(m, d, t)
           /\ \A q \in Passages(i, c) : q.at \in Nat
           /\ p0.at = t
           /\ IF Allows(m, t)
              THEN /\ allowed' = allowed \cup {p0}
                   /\ Passages(i, c)' = Passages(i, c) \cup {p0}
              ELSE /\ allowed' = allowed
                   /\ Passages(i, c)' = Passages(i, c)
           /\ \A j \in Instances, b \in Clients : j # i \/ b # c =>
                /\ Passages(j, b)' = Passages(j, b)
                /\ meter'[j][b] = meter[j][b]
<1>1. /\ i \in Instances /\ c \in Clients
      /\ config' = config /\ now' = now
      /\ meter' = [meter EXCEPT ![i][c] = MeterAfter(m, d, t)]
      /\ allowed' = IF Allows(m, t) THEN allowed \cup {p0} ELSE allowed
  BY Given DEF CheckRate
<1>2. t \in Nat /\ Clock(i)' = t
  BY <1>1, Clocks DEF Typed, Clock
<1>3. /\ meter \in [Instances -> [Clients -> Meter]]
      /\ m \in Meter /\ m.last <= t
  BY <1>1 DEF Typed, TypeOK, Metered
<1>4. m.last \in Nat
  BY <1>3 DEF Meter
<1>5. /\ meter'[i][c] = MeterAfter(m, d, t)
      /\ \A j \in Instances, b \in Clients :
           j # i \/ b # c => meter'[j][b] = meter[j][b]
  BY <1>1, <1>3
<1>6. \A q \in Passages(i, c) : q.at \in Nat
  BY DEF Typed, TypeOK, Passages, Passage
<1>7. p0.id = d /\ p0.at = t
  OBVIOUS
<1>8. CASE Allows(m, t)
  <2>1. allowed' = allowed \cup {p0}
    BY <1>1, <1>8
  <2>2. Passages(i, c)' = Passages(i, c) \cup {p0}
    BY <1>7, <2>1 DEF Passages
  <2>3. \A j \in Instances, b \in Clients :
          j # i \/ b # c => Passages(j, b)' = Passages(j, b)
    BY <1>7, <2>1 DEF Passages
  <2> QED BY <1>1, <1>2, <1>3, <1>4, <1>5, <1>6, <1>7, <1>8, <2>1, <2>2, <2>3
<1>9. CASE ~Allows(m, t)
  <2>1. /\ allowed' = allowed
        /\ \A j, b : Passages(j, b)' = Passages(j, b)
    BY <1>1, <1>9 DEF Passages
  <2> QED BY <1>1, <1>2, <1>3, <1>4, <1>5, <1>6, <1>7, <1>9, <2>1
<1> QED BY <1>8, <1>9

\* One more passage enlarges a set by one at most.
LEMMA OneMore ==
    ASSUME NEW S, IsFiniteSet(S), NEW T, NEW x, T \subseteq S \cup {x}
    PROVE  IsFiniteSet(T) /\ Cardinality(T) <= Cardinality(S) + 1
<1>1. /\ IsFiniteSet(S \cup {x})
      /\ Cardinality(S \cup {x}) = IF x \in S THEN Cardinality(S)
                                              ELSE Cardinality(S) + 1
  BY FS_AddElement
<1>2. IsFiniteSet(T) /\ Cardinality(T) <= Cardinality(S \cup {x})
  BY <1>1, FS_Subset
<1>3. Cardinality(S) \in Nat /\ Cardinality(T) \in Nat
  BY <1>2, FS_CardinalityType
<1> QED BY <1>1, <1>2, <1>3

LEMMA SlidingWindowRate ==
    ASSUME Typed, RateInv, NEW d \in Deliveries, CheckRate(d),
           config.limiter = "sliding_window"
    PROVE  RatePart(Host[d], Msg[d].client)'
<1> SUFFICES ASSUME NEW i, i = Host[d], NEW c, c = Msg[d].client,
                    NEW t, t = Clock(i), NEW p0, p0 = [id |-> d, at |-> t],
                    NEW m, m = meter[i][c]
             PROVE  RatePart(i, c)'
  OBVIOUS
<1>1. /\ i \in Instances /\ c \in Clients /\ t \in Nat
      /\ m \in Meter /\ m.last \in Nat /\ m.last <= t
      /\ config' = config /\ now' = now /\ Clock(i)' = t
      /\ meter'[i][c] = MeterAfter(m, d, t)
      /\ \A q \in Passages(i, c) : q.at \in Nat
      /\ p0.at = t
      /\ IF Allows(m, t)
         THEN /\ allowed' = allowed \cup {p0}
              /\ Passages(i, c)' = Passages(i, c) \cup {p0}
         ELSE /\ allowed' = allowed
              /\ Passages(i, c)' = Passages(i, c)
  BY CheckRateEffect
<1>2. RatePart(i, c) /\ IsFiniteSet(allowed)
  BY <1>1 DEF RateInv
<1>3. /\ \A q \in Passages(i, c) : q \in m.requests \/ q.at <= t - RateWindow
      /\ m.requests \subseteq Passages(i, c)
      /\ ~m.known => Passages(i, c) = {}
  BY <1>2 DEF RatePart, WindowTrue, Unused
<1>4. RateWindow \in Nat /\ RateWindow >= 1 /\ RateLimit \in Nat /\ RateLimit >= 1
  BY Products
<1>5. /\ meter'[i][c].known = TRUE
      /\ meter'[i][c].requests =
           InWindow(m, t) \cup (IF SlidingWindowAllows(m, t) THEN {p0} ELSE {})
  <2>1. meter'[i][c] = SlidingWindowAfter(m, d, t)
    BY <1>1 DEF MeterAfter
  <2>2. m \in Meter /\ t \in Nat /\ m.last <= t
    BY <1>1
  <2>3. /\ SlidingWindowAfter(m, d, t).known = TRUE
        /\ SlidingWindowAfter(m, d, t).requests =
             InWindow(m, t) \cup (IF SlidingWindowAllows(m, t)
                                  THEN {[id |-> d, at |-> t]} ELSE {})
    BY ONLY <2>2, SlidingWindowType, d \in Deliveries
  <2> QED BY <2>1, <2>3
<1>6. Allows(m, t) <=> ~m.known \/ Cardinality(InWindow(m, t)) < RateLimit
  BY DEF Allows, SlidingWindowAllows
<1>7. SlidingWindowAllows(m, t) <=> Allows(m, t)
  BY DEF Allows
<1>8. InWindow(m, t) = {q \in m.requests : q.at > t - RateWindow}
  BY DEF InWindow
<1>9. Unused(i, c)'
  BY <1>5 DEF Unused
<1>10. WindowTrue(i, c)'
  <2>1. \A q \in Passages(i, c) :
          q \in InWindow(m, t) \/ q.at <= t - RateWindow
    BY <1>1, <1>3, <1>4, <1>8
  <2>2. InWindow(m, t) \subseteq Passages(i, c)
    BY <1>3, <1>8
  <2> QED BY <1>1, <1>5, <1>7, <2>1, <2>2 DEF WindowTrue
<1>11. ASSUME NEW s \in Int
       PROVE  Cardinality(LetThrough(i, c, s))' <= RateLimit
  <2>1. LetThrough(i, c, s)' =
          {q \in Passages(i, c)' : q.at >= s /\ q.at < s + RateWindow}
    BY DEF LetThrough, Passages
  <2>2. LetThrough(i, c, s) =
          {q \in Passages(i, c) : q.at >= s /\ q.at < s + RateWindow}
    BY DEF LetThrough, Passages
  <2>3. Cardinality(LetThrough(i, c, s)) <= RateLimit
    BY <1>2, <1>11 DEF RatePart, WindowBound
  <2>4. CASE LetThrough(i, c, s)' = LetThrough(i, c, s)
    BY <2>3, <2>4
  <2>5. CASE LetThrough(i, c, s)' # LetThrough(i, c, s)
    <3>1. /\ Allows(m, t) /\ s <= t /\ t < s + RateWindow
          /\ Passages(i, c)' = Passages(i, c) \cup {p0}
      BY <1>1, <2>1, <2>2, <2>5
    <3>2. LetThrough(i, c, s)' \subseteq InWindow(m, t) \cup {p0}
      <4>1. \A q \in Passages(i, c) : q.at >= s => q \in InWindow(m, t)
        BY <1>1, <1>3, <1>4, <1>8, <3>1
      <4> QED BY <2>1, <3>1, <4>1
    <3>3. /\ InWindow(m, t) \subseteq Passages(i, c)
          /\ IsFiniteSet(Passages(i, c))
      BY <1>2, <1>3, <1>8, PassagesFinite
    <3>4. IsFiniteSet(InWindow(m, t)) /\ Cardinality(InWindow(m, t)) \in Nat
      BY <3>3, FS_Subset, FS_CardinalityType
    <3>5. /\ IsFiniteSet(LetThrough(i, c, s)')
          /\ Cardinality(LetThrough(i, c, s)') <= Cardinality(InWindow(m, t)) + 1
      BY <3>2, <3>4, OneMore
    <3>6. Cardinality(InWindow(m, t)) < RateLimit
      <4>1. CASE m.known
        BY <1>6, <3>1, <4>1
      <4>2. CASE ~m.known
        <5>1. InWindow(m, t) = {}
          BY <1>3, <3>3, <4>2
        <5> QED BY <1>4, <5>1, FS_EmptySet
      <4> QED BY <4>1, <4>2
    <3>7. Cardinality(LetThrough(i, c, s)') \in Nat
      BY <3>5, FS_CardinalityType
    <3> QED BY <1>4, <3>4, <3>5, <3>6, <3>7
  <2> QED BY <2>4, <2>5
<1>12. WindowBound(i, c)'
  BY <1>1, <1>11 DEF WindowBound
<1> QED BY <1>1, <1>9, <1>10, <1>12 DEF RatePart

\* The bucket before the request is paid for: the refill up to t keeps what was
\* taken since s within the capacity and the refill since s.
LEMMA RefilledBucket ==
    ASSUME Typed, NEW i \in Instances, NEW c \in Clients, BucketTrue(i, c),
           Unused(i, c), IsFiniteSet(allowed),
           meter[i][c] \in Meter, NEW t \in Nat, meter[i][c].last <= t,
           NEW s \in Int, s <= t
    PROVE  Cardinality(Since(i, c, s)) * RateWindow
             + Refilled(meter[i][c], t).tokens
             <= RateLimit * RateWindow + (t - s) * RateLimit
<1> SUFFICES ASSUME NEW m, m = meter[i][c],
                    NEW k, k = Cardinality(Since(i, c, s)),
                    NEW f, f = Refilled(m, t).tokens
             PROVE  k * RateWindow + f
                      <= RateLimit * RateWindow + (t - s) * RateLimit
  OBVIOUS
<1>1. /\ m.last \in Nat /\ m.tokens \in Nat /\ m \in Meter /\ m.last <= t
  BY DEF Meter
<1>2. /\ f \in Nat /\ f <= RateLimit * RateWindow
      /\ m.known => f <= m.tokens + (t - m.last) * RateLimit
  BY <1>1, RefilledType
<1>3. k \in Nat
  BY PassagesFinite
<1>4. /\ RateLimit \in Nat /\ RateWindow \in Nat
      /\ RateLimit * RateWindow \in Nat
  BY Products
<1>5. (t - s) * RateLimit \in Nat
  <2>1. t - s \in Nat
    OBVIOUS
  <2> QED BY <2>1, Products
<1>6. CASE m.known /\ s <= m.last
  <2>1. k * RateWindow + m.tokens
          <= RateLimit * RateWindow + (m.last - s) * RateLimit
    BY <1>6 DEF BucketTrue
  <2> DEFINE a == t - m.last
             b == m.last - s
  <2>2. a \in Int /\ b \in Int /\ a = t - m.last /\ b = m.last - s
    BY <1>1
  <2>3. a + b = t - s
    BY <1>1
  <2> HIDE DEF a, b
  <2>4. (a + b) * RateLimit = a * RateLimit + b * RateLimit
    BY <1>4, <2>2, Distributes
  <2>5. k * RateWindow \in Int /\ a * RateLimit \in Int /\ b * RateLimit \in Int
    BY <1>3, <1>4, <2>2, Distributes
  <2>6. f <= m.tokens + a * RateLimit
    BY <1>2, <1>6, <2>2
  <2>7. k * RateWindow + m.tokens <= RateLimit * RateWindow + b * RateLimit
    BY <2>1, <2>2
  <2>8. k * RateWindow + f
          <= RateLimit * RateWindow + (a * RateLimit + b * RateLimit)
    BY <1>1, <1>2, <1>4, <2>5, <2>6, <2>7
  <2> QED BY <2>3, <2>4, <2>8
<1>7. CASE ~(m.known /\ s <= m.last)
  <2>1. Since(i, c, s) = {}
    <3>1. \A p \in Passages(i, c) : p.at \in Int /\ p.at <= m.last
      BY DEF BucketTrue, Typed, TypeOK, Passages, Passage
    <3>2. CASE ~m.known
      BY <3>2 DEF Unused, Since
    <3>3. CASE ~(s <= m.last)
      BY <1>1, <3>1, <3>3 DEF Since
    <3> QED BY <1>7, <3>2, <3>3
  <2>2. k = 0 /\ k * RateWindow = 0
    BY <1>4, <2>1, FS_EmptySet
  <2> QED BY <1>2, <1>4, <1>5, <2>2
<1> QED BY <1>6, <1>7

LEMMA TokenBucketRate ==
    ASSUME Typed, RateInv, NEW d \in Deliveries, CheckRate(d),
           config.limiter # "sliding_window"
    PROVE  RatePart(Host[d], Msg[d].client)'
<1> SUFFICES ASSUME NEW i, i = Host[d], NEW c, c = Msg[d].client,
                    NEW t, t = Clock(i), NEW p0, p0 = [id |-> d, at |-> t],
                    NEW m, m = meter[i][c]
             PROVE  RatePart(i, c)'
  OBVIOUS
<1>1. /\ i \in Instances /\ c \in Clients /\ t \in Nat
      /\ m \in Meter /\ m.last \in Nat /\ m.last <= t
      /\ config' = config /\ now' = now /\ Clock(i)' = t
      /\ meter'[i][c] = MeterAfter(m, d, t)
      /\ \A q \in Passages(i, c) : q.at \in Nat
      /\ p0.at = t
      /\ IF Allows(m, t)
         THEN /\ allowed' = allowed \cup {p0}
              /\ Passages(i, c)' = Passages(i, c) \cup {p0}
         ELSE /\ allowed' = allowed
              /\ Passages(i, c)' = Passages(i, c)
  BY CheckRateEffect
<1>2. /\ Unused(i, c) /\ BucketTrue(i, c) /\ WindowBound(i, c)
      /\ IsFiniteSet(allowed)
  BY <1>1 DEF RateInv, RatePart
<1>3. /\ RateLimit \in Nat /\ RateWindow \in Nat
      /\ RateLimit >= 1 /\ RateWindow >= 1
      /\ RateLimit * RateWindow \in Nat
  BY Products
<1>4. PICK f \in Nat : f = Refilled(m, t).tokens /\ f <= RateLimit * RateWindow
  <2>1. m \in Meter /\ t \in Nat /\ m.last <= t
    BY <1>1
  <2> QED BY <2>1, RefilledType
<1>5. PICK paid \in {0, RateWindow} :
        paid = IF Allows(m, t) THEN RateWindow ELSE 0
  OBVIOUS
<1>6. /\ meter'[i][c].known = TRUE
      /\ meter'[i][c].last = t
      /\ meter'[i][c].tokens = f - paid
      /\ meter'[i][c].tokens \in Nat
  <2>1. meter'[i][c] = TokenBucketAfter(m, t)
    BY <1>1 DEF MeterAfter
  <2>2. m \in Meter /\ t \in Nat /\ m.last <= t
    BY <1>1
  <2>3. /\ TokenBucketAfter(m, t).known = TRUE
        /\ TokenBucketAfter(m, t).last = t
        /\ TokenBucketAfter(m, t).tokens =
             Refilled(m, t).tokens
               - (IF TokenBucketAllows(m, t) THEN RateWindow ELSE 0)
        /\ TokenBucketAfter(m, t).tokens \in Nat
    BY ONLY <2>2, TokenBucketType
  <2>4. TokenBucketAllows(m, t) <=> Allows(m, t)
    BY DEF Allows
  <2> QED BY <1>4, <1>5, <2>1, <2>3, <2>4
<1>7. Unused(i, c)'
  BY <1>6 DEF Unused
<1>8. \A q \in Passages(i, c)' : q.at \in Nat /\ q.at <= t
  <2>1. \A q \in Passages(i, c) : q.at <= m.last
    BY <1>2 DEF BucketTrue
  <2>2. \A q \in Passages(i, c) : q.at \in Nat /\ q.at <= t
    BY <1>1, <2>1
  <2>3. \A q \in Passages(i, c)' : q \in Passages(i, c) \/ q = p0
    BY <1>1
  <2> QED BY <1>1, <2>2, <2>3
<1>9. ASSUME NEW s \in Int, s <= t
      PROVE  /\ IsFiniteSet(Since(i, c, s)')
             /\ Cardinality(Since(i, c, s)') \in Nat
             /\ Cardinality(Since(i, c, s)') * RateWindow + (f - paid)
                  <= RateLimit * RateWindow + (t - s) * RateLimit
  <2>1. PICK k \in Nat : k = Cardinality(Since(i, c, s))
    BY <1>2, PassagesFinite
  <2>2. k * RateWindow + f <= RateLimit * RateWindow + (t - s) * RateLimit
    BY <1>1, <1>2, <1>4, <1>9, <2>1, RefilledBucket
  <2>3. IsFiniteSet(Since(i, c, s))
    BY <1>2, PassagesFinite
  <2>4. /\ k * RateWindow \in Int
        /\ (t - s) * RateLimit \in Int
        /\ (k + 1) * RateWindow = k * RateWindow + RateWindow
    <3>1. (k + 1) * RateWindow = k * RateWindow + 1 * RateWindow
      BY <1>3, Distributes
    <3> QED BY <1>1, <1>3, <3>1
  <2>5. CASE Allows(m, t)
    <3>1. Since(i, c, s)' \subseteq Since(i, c, s) \cup {p0}
      <4>1. Passages(i, c)' = Passages(i, c) \cup {p0}
        BY <1>1, <2>5
      <4> QED BY <4>1 DEF Since
    <3>2. /\ IsFiniteSet(Since(i, c, s)')
          /\ Cardinality(Since(i, c, s)') <= k + 1
      <4>1. /\ IsFiniteSet(Since(i, c, s)')
            /\ Cardinality(Since(i, c, s)') <= Cardinality(Since(i, c, s)) + 1
        BY ONLY <2>3, <3>1, OneMore
      <4> QED BY ONLY <2>1, <4>1
    <3>3. PICK l \in Nat : l = Cardinality(Since(i, c, s)')
      BY <3>2, FS_CardinalityType
    <3>4. l * RateWindow <= (k + 1) * RateWindow
      BY <1>3, <3>2, <3>3, TimesMonotone
    <3>5. l * RateWindow \in Int
      BY <1>3
    <3>6. paid = RateWindow
      BY <1>5, <2>5
    <3>7. l * RateWindow + (f - RateWindow)
            <= RateLimit * RateWindow + (t - s) * RateLimit
      BY <1>3, <2>2, <2>4, <3>4, <3>5
    <3> QED BY <3>2, <3>3, <3>6, <3>7
  <2>6. CASE ~Allows(m, t)
    <3>1. Since(i, c, s)' = Since(i, c, s)
      BY <1>1, <2>6 DEF Since
    <3>2. paid = 0 /\ f - paid = f
      BY <1>5, <2>6
    <3> QED BY <2>1, <2>2, <2>3, <3>1, <3>2
  <2> QED BY <2>5, <2>6
<1>10. BucketTrue(i, c)'
  <2>1. meter'[i][c].tokens <= RateLimit * RateWindow
    BY <1>3, <1>4, <1>5, <1>6
  <2>2. \A s \in Int : s <= t =>
          Cardinality(Since(i, c, s)') * RateWindow + (f - paid)
            <= RateLimit * RateWindow + (t - s) * RateLimit
    BY <1>9
  <2> QED BY <1>6, <1>8, <2>1, <2>2 DEF BucketTrue
<1>11. ASSUME NEW s \in Int
       PROVE  Cardinality(LetThrough(i, c, s)') < 2 * RateLimit
  <2>1. LetThrough(i, c, s)' =
          {q \in Passages(i, c)' : q.at >= s /\ q.at < s + RateWindow}
    BY DEF LetThrough, Passages
  <2>2. LetThrough(i, c, s) =
          {q \in Passages(i, c) : q.at >= s /\ q.at < s + RateWindow}
    BY DEF LetThrough, Passages
  <2>3. CASE LetThrough(i, c, s)' = LetThrough(i, c, s)
    BY <1>2, <2>3 DEF WindowBound
  <2>4. CASE LetThrough(i, c, s)' # LetThrough(i, c, s)
    <3>1. s <= t /\ t < s + RateWindow
      BY <1>1, <2>1, <2>2, <2>4
    <3>2. LetThrough(i, c, s)' \subseteq Since(i, c, s)'
      BY <2>1 DEF Since
    <3>3. IsFiniteSet(Since(i, c, s)')
      BY <1>9, <3>1
    <3>4. PICK l \in Nat : l = Cardinality(Since(i, c, s)')
      BY <3>3, FS_CardinalityType
    <3>5. /\ Cardinality(LetThrough(i, c, s)') \in Nat
          /\ Cardinality(LetThrough(i, c, s)') <= l
      BY <3>2, <3>3, <3>4, FS_Subset, FS_CardinalityType
    <3>6. t - s \in Nat /\ t - s < RateWindow
      BY <1>1, <1>3, <3>1
    <3>7. l * RateWindow + (f - paid)
            <= RateLimit * RateWindow + (t - s) * RateLimit
      BY <1>9, <3>1, <3>4
    <3>8. f - paid \in Nat
      BY <1>6
    <3>9. l * RateWindow \in Int /\ (t - s) * RateLimit \in Int
      BY <1>3, <3>6
    <3>10. l * RateWindow <= RateLimit * RateWindow + (t - s) * RateLimit
      BY <1>3, <3>7, <3>8, <3>9
    <3>11. l < 2 * RateLimit
      BY <3>6, <3>10, TwiceTheLimit
    <3> QED BY <1>3, <3>5, <3>11
  <2> QED BY <2>3, <2>4
<1>12. WindowBound(i, c)'
  BY <1>1, <1>11 DEF WindowBound
<1> QED BY <1>1, <1>7, <1>10, <1>12 DEF RatePart

LEMMA CheckRateRate ==
    ASSUME Typed, RateInv, NEW d \in Deliveries, CheckRate(d)
    PROVE  RateInv'
<1> SUFFICES ASSUME NEW i, i = Host[d], NEW c, c = Msg[d].client,
                    NEW t, t = Clock(i), NEW p0, p0 = [id |-> d, at |-> t],
                    NEW m, m = meter[i][c]
             PROVE  RateInv'
  OBVIOUS
<1>1. /\ i \in Instances /\ c \in Clients
      /\ config' = config /\ now' = now
      /\ allowed' = allowed \/ allowed' = allowed \cup {p0}
      /\ \A j \in Instances, b \in Clients : j # i \/ b # c =>
           /\ Passages(j, b)' = Passages(j, b)
           /\ meter'[j][b] = meter[j][b]
  BY CheckRateEffect
<1>2. IsFiniteSet(allowed')
  BY <1>1, FS_AddElement DEF RateInv
<1>3. RatePart(i, c)'
  BY SlidingWindowRate, TokenBucketRate
<1>4. ASSUME NEW j \in Instances, NEW b \in Clients PROVE RatePart(j, b)'
  <2>1. CASE j = i /\ b = c
    BY <1>3, <2>1
  <2>2. CASE j # i \/ b # c
    BY <1>1, <2>2, RateElsewhere DEF RateInv
  <2> QED BY <2>1, <2>2
<1> QED BY <1>2, <1>4 DEF RateInv

LEMMA CrashRate ==
    ASSUME Typed, RateInv, NEW i \in Instances, Crash(i)
    PROVE  RateInv'
<1>1. /\ config' = config /\ now' = now
      /\ meter' = [meter EXCEPT ![i] = [c \in Clients |-> NewMeter]]
      /\ allowed' = {p \in allowed : Host[p.id] # i}
  BY DEF Crash
<1>2. IsFiniteSet(allowed')
  <2>1. allowed' \subseteq allowed
    BY <1>1
  <2> QED BY <2>1, FS_Subset DEF RateInv
<1>3. ASSUME NEW j \in Instances, NEW c \in Clients PROVE RatePart(j, c)'
  <2>1. CASE j # i
    <3>1. Passages(j, c)' = Passages(j, c)
      BY <1>1, <2>1 DEF Passages
    <3>2. meter'[j][c] = meter[j][c]
      BY <1>1, <2>1 DEF Typed, TypeOK
    <3> QED BY <1>1, <3>1, <3>2, RateElsewhere DEF RateInv
  <2>2. CASE j = i
    <3>1. Passages(j, c)' = {}
      BY <1>1, <2>2 DEF Passages
    <3>2. meter'[j][c] = NewMeter
      BY <1>1, <2>2 DEF Typed, TypeOK
    <3>3. \A s : LetThrough(j, c, s)' = {}
      BY <3>1 DEF LetThrough, Passages
    <3>4. /\ NewMeter.known = FALSE /\ NewMeter.tokens = 0
          /\ NewMeter.requests = {}
      BY DEF NewMeter
    <3>5. Unused(j, c)' /\ WindowTrue(j, c)'
      BY <3>1, <3>2, <3>4 DEF Unused, WindowTrue
    <3>6. BucketTrue(j, c)'
      BY <3>1, <3>2, <3>4, Products DEF BucketTrue
    <3>7. WindowBound(j, c)'
      BY <3>3, FS_EmptySet, Products DEF WindowBound
    <3> QED BY <3>5, <3>6, <3>7 DEF RatePart
  <2> QED BY <2>1, <2>2
<1> QED BY <1>2, <1>3 DEF RateInv

LEMMA InitRate == Init => RateInv
<1> SUFFICES ASSUME Init PROVE RateInv
  OBVIOUS
<1>1. IsFiniteSet(allowed)
  BY FS_EmptySet DEF Init
<1>2. ASSUME NEW i \in Instances, NEW c \in Clients PROVE RatePart(i, c)
  <2>1. Passages(i, c) = {} /\ meter[i][c] = NewMeter
    BY DEF Init, Passages
  <2>2. \A s : LetThrough(i, c, s) = {}
    BY DEF Init, LetThrough
  <2>3. /\ NewMeter.known = FALSE /\ NewMeter.tokens = 0
        /\ NewMeter.requests = {}
    BY DEF NewMeter
  <2>4. Unused(i, c) /\ WindowTrue(i, c)
    BY <2>1, <2>3 DEF Unused, WindowTrue
  <2>5. BucketTrue(i, c)
    BY <2>1, <2>3, Products DEF BucketTrue
  <2>6. WindowBound(i, c)
    BY <2>2, FS_EmptySet, Products DEF WindowBound
  <2> QED BY <2>4, <2>5, <2>6 DEF RatePart
<1> QED BY <1>1, <1>2 DEF RateInv

\* Steps in which no limiter is asked.
LEMMA RateQuiet ==
    ASSUME Typed, RateInv, UNCHANGED <<config, meter, allowed>>,
           now' \in {now, now + 1}
    PROVE  RateInv'
<1>1. \A i, c : Passages(i, c)' = Passages(i, c)
  BY DEF Passages
<1>2. ASSUME NEW i \in Instances, NEW c \in Clients PROVE RatePart(i, c)'
  BY <1>1, RateElsewhere DEF RateInv
<1> QED BY <1>2 DEF RateInv

LEMMA NextRate == Typed /\ RateInv /\ [Next]_vars => RateInv'
<1> SUFFICES ASSUME Typed, RateInv, [Next]_vars PROVE RateInv'
  OBVIOUS
<1>1. CASE UNCHANGED vars \/ Tick
  <2>1. UNCHANGED <<config, meter, allowed>> /\ now' \in {now, now + 1}
    BY <1>1 DEF vars, Tick
  <2> QED BY <2>1, RateQuiet
<1>2. ASSUME NEW i \in Instances, Crash(i) PROVE RateInv'
  BY <1>2, CrashRate
<1>3. ASSUME NEW d \in Deliveries, CheckRate(d) PROVE RateInv'
  BY <1>3, CheckRateRate
<1>4. ASSUME NEW d \in Deliveries,
             \/ RefuseEarly(d) \/ CheckSignature(d) \/ NonceExists(d)
             \/ NonceStore(d) \/ NonceDelete(d) \/ AcceptNonce(d)
      PROVE  RateInv'
  <2>1. UNCHANGED <<config, meter, allowed, now>>
    BY <1>4 DEF RefuseEarly, CheckSignature, NonceExists, NonceStore,
         NonceDelete, AcceptNonce, HandlerRefuses, MemoryAcceptNonce,
         DeleteExpired, InsertNonce
  <2> QED BY <2>1, RateQuiet
<1> QED BY <1>1, <1>2, <1>3, <1>4 DEF Next, Validate

\* In any window that begins with a request, AllowWithLimit lets at most
\* RATE_LIMIT_PER_MIN requests of a client through with the sliding window, and
\* less than twice as many with the token bucket, whose tokens are never more
\* than the capacity and the refill leave.
THEOREM RateIsBounded == Spec => []RateBound
<1>1. Typed /\ RateInv => RateBound
  <2> SUFFICES ASSUME Typed, RateInv, NEW i \in Instances, NEW c \in Clients,
                      NEW p \in allowed
               PROVE  IF config.limiter = "sliding_window"
                      THEN Cardinality(LetThrough(i, c, p.at)) <= RateLimit
                      ELSE Cardinality(LetThrough(i, c, p.at)) < 2 * RateLimit
    BY DEF RateBound
  <2>1. p.at \in Int
    BY DEF Typed, TypeOK, Passage
  <2>2. WindowBound(i, c)
    BY DEF RateInv, RatePart
  <2> QED BY <2>1, <2>2 DEF WindowBound
<1>2. Spec => []RateInv
  BY InitRate, NextRate, AlwaysTyped, PTL DEF Spec
<1> QED BY <1>1, <1>2, AlwaysTyped, PTL
=============================================================================
