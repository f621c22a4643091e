--------------------------- MODULE RpcFleetProofs ---------------------------
(***************************************************************************)
(* Proofs about RpcFleet, for every number of endpoints and requests and   *)
(* every choice of the cooldowns, limits and bounds.                       *)
(***************************************************************************)
EXTENDS RpcFleet, FiniteSetTheorems, SequenceTheorems, TLAPS

-----------------------------------------------------------------------------
(***************************************************************************)
(* The arithmetic of the counters and cooldowns.                           *)
(***************************************************************************)

\* The subsets of a set of n elements are as many.
LEMMA PowerOfTwo == ASSUME NEW n \in Nat PROVE 2 ^ n \in Nat
<1>1. IsFiniteSet(1..n) /\ Cardinality(1..n) = n
  BY FS_Interval
<1>2. /\ IsFiniteSet(SUBSET (1..n))
      /\ Cardinality(SUBSET (1..n)) = 2 ^ Cardinality(1..n)
  BY <1>1, FS_SUBSET
<1>3. Cardinality(SUBSET (1..n)) \in Nat
  BY <1>2, FS_CardinalityType
<1> QED BY <1>1, <1>2, <1>3

LEMMA AtMostType ==
    ASSUME NEW m \in Nat, NEW n \in Nat
    PROVE  AtMost(m, n) \in Nat /\ AtMost(m, n) <= n /\ AtMost(m, n) <= m
  BY DEF AtMost

LEMMA LessType ==
    ASSUME NEW m \in Nat, NEW n \in Nat
    PROVE  Less(m, n) \in Nat
  BY DEF Less

LEMMA CooldownOfType ==
    ASSUME NEW kind \in FailureKinds, NEW rate \in Nat, NEW timeout \in Nat
    PROVE  CooldownOf(kind, rate, timeout) \in Nat
<1>1. /\ RateUnit \in Nat /\ RateShift \in Nat /\ TimeoutUnit \in Nat
      /\ TimeoutShift \in Nat /\ ExhaustedCooldown \in Nat
      /\ TransportCooldown \in Nat /\ RemoteCooldown \in Nat
  BY FleetAssumption
<1>2. /\ 2 ^ AtMost(rate, RateShift) \in Nat
      /\ 2 ^ AtMost(timeout, TimeoutShift) \in Nat
  BY <1>1, AtMostType, PowerOfTwo
<1>3. ASSUME NEW a \in Nat, NEW b \in Nat PROVE a * b \in Nat
  BY <1>3
<1>4. /\ RateUnit * 2 ^ AtMost(rate, RateShift) \in Nat
      /\ TimeoutUnit * 2 ^ AtMost(timeout, TimeoutShift) \in Nat
  BY <1>1, <1>2, <1>3
<1> QED BY <1>1, <1>4 DEF CooldownOf, FailureKinds

\* decay never runs ahead of the time it is given.
LEMMA DecayType ==
    ASSUME TypeOK, NEW e \in Endpoints, NEW t \in 0..MaxTime
    PROVE  /\ Decayed(e, t).rate \in Nat
           /\ Decayed(e, t).timeout \in Nat
           /\ Decayed(e, t).last \in 0..MaxTime
<1>1. /\ MaxTime \in Nat /\ FailureDecay \in Nat \ {0} /\ t \in Nat /\ t <= MaxTime
      /\ lastFailureDecay[e] \in Nat /\ lastFailureDecay[e] <= MaxTime
      /\ rateLimitFailures[e] \in Nat /\ timeoutFailures[e] \in Nat
  BY FleetAssumption DEF TypeOK
<1>2. ASSUME NEW n \in Nat
      PROVE  /\ n \div FailureDecay \in Nat
             /\ (n \div FailureDecay) * FailureDecay \in Nat
             /\ (n \div FailureDecay) * FailureDecay <= n
  BY <1>1
<1>3. CASE t < lastFailureDecay[e]
  <2>1. DecaySteps(e, t) = 0
    BY <1>3 DEF DecaySteps
  <2>2. 4 * 0 = 0 /\ 2 * 0 = 0 /\ 0 * FailureDecay = 0
    BY <1>1
  <2>3. /\ Decayed(e, t).rate = Less(rateLimitFailures[e], 0)
        /\ Decayed(e, t).timeout = Less(timeoutFailures[e], 0)
        /\ Decayed(e, t).last = lastFailureDecay[e] + 0
    BY <2>1, <2>2 DEF Decayed
  <2>4. lastFailureDecay[e] + 0 \in 0..MaxTime
    BY <1>1
  <2>5. 0 \in Nat
    OBVIOUS
  <2>6. Less(rateLimitFailures[e], 0) \in Nat /\ Less(timeoutFailures[e], 0) \in Nat
    BY <1>1, <2>5, LessType
  <2> QED BY <2>3, <2>4, <2>6
<1>4. CASE lastFailureDecay[e] <= t
  <2> DEFINE n == t - lastFailureDecay[e]
             k == n \div FailureDecay
  <2>1. n \in Nat
    BY <1>1, <1>4
  <2>2. k \in Nat /\ k * FailureDecay \in Nat /\ k * FailureDecay <= n
    BY <1>2, <2>1
  <2>3. DecaySteps(e, t) = k
    BY <1>1, <1>4 DEF DecaySteps
  <2>4. n = t - lastFailureDecay[e]
    OBVIOUS
  <2> HIDE DEF n, k
  <2>5. lastFailureDecay[e] + k * FailureDecay \in 0..MaxTime
    BY <1>1, <2>1, <2>2, <2>4
  <2>6. 4 * k \in Nat /\ 2 * k \in Nat
    BY <2>2
  <2> QED BY <1>1, <2>3, <2>5, <2>6, LessType DEF Decayed
<1> QED BY <1>1, <1>3, <1>4

LEMMA RefreshType ==
    ASSUME TypeOK, NEW e \in Endpoints, NEW t \in 0..MaxTime, Refresh(e, t)
    PROVE  /\ rateLimitFailures' \in [Endpoints -> Nat]
           /\ timeoutFailures' \in [Endpoints -> Nat]
           /\ lastFailureDecay' \in [Endpoints -> 0..MaxTime]
           /\ reservations' \in [Endpoints -> SUBSET Reservation]
  BY DecayType DEF Refresh, TypeOK, Recent

-----------------------------------------------------------------------------
(***************************************************************************)
(* Types.  The endpoint a request is at exists: the index of the two loops *)
(* over the endpoints stays within the slice, and that of the loops over   *)
(* the handles within the handles.                                         *)
(***************************************************************************)
Looping == {"score", "clear", "rescore"}

Place(q) ==
    /\ pc[q] \in Looping => next[q] \in Endpoints
    /\ pc[q] \in {"reserve", "try"} => next[q] \in 1..Len(handles[q])
    /\ pc[q] \in Looping \cup {"new"} => handles[q] = <<>>
    /\ pc[q] = "new" => next[q] = 1 /\ found[q] = {}
    /\ at[q] <= now

Places == \A q \in Requests : Place(q)

\* The endpoint of the handle that is reserved or tried.
LEMMA HandleType ==
    ASSUME TypeOK, Places, NEW q \in Requests, pc[q] \in {"reserve", "try"}
    PROVE  handles[q][next[q]] \in Endpoints
<1>1. handles[q] \in Seq(Endpoints) /\ next[q] \in 1..Len(handles[q])
  BY DEF TypeOK, Places, Place
<1> QED BY <1>1, ElementOfSeq

\* What the sort and the cut leave: a sequence of endpoints of S, not empty when
\* S is not.
LEMMA RankingType ==
    ASSUME NEW S \in SUBSET Endpoints, NEW h \in Rankings(S)
    PROVE  /\ h \in Seq(Endpoints)
           /\ \A i \in DOMAIN h : h[i] \in S
           /\ S # {} => 1 \in 1..Len(h)
           /\ Len(h) \in Nat
<1>1. IsFiniteSet(S) /\ Cardinality(S) \in Nat
  <2>1. IsFiniteSet(Endpoints)
    BY FS_Interval, FleetAssumption DEF Endpoints
  <2> QED BY <2>1, FS_Subset, FS_CardinalityType
<1>2. PICK n \in Nat : n = AtMost(Cardinality(S), 2)
  BY <1>1, AtMostType
<1>3. h \in [1..n -> S]
  BY <1>2 DEF Rankings
<1>4. h \in Seq(S) /\ Len(h) = n
  BY <1>2, <1>3
<1>5. h \in Seq(Endpoints)
  BY <1>2, <1>3
<1>6. S # {} => n >= 1
  <2>1. S # {} => Cardinality(S) # 0
    BY <1>1, FS_EmptySet
  <2> QED BY <1>1, <1>2, <2>1 DEF AtMost
<1> QED BY <1>2, <1>3, <1>4, <1>5, <1>6
\* The two outcomes of a round of a loop.
LEMMA NextEndpointType ==
    ASSUME TypeOK, Places, NEW q \in Requests, pc[q] \in Looping, next[q] < N,
           NEW label \in Looping, NextEndpoint(q, label),
           UNCHANGED <<now, at>>
    PROVE  /\ pc' \in [Requests -> Labels]
           /\ next' \in [Requests -> Nat \ {0}]
           /\ found' \in [Requests -> SUBSET Endpoints]
           /\ handles' \in [Requests -> Seq(Endpoints)]
           /\ Places'
<1>1. next[q] \in Endpoints /\ next[q] + 1 \in Endpoints /\ handles[q] = <<>>
  <2>1. next[q] \in Endpoints /\ handles[q] = <<>>
    BY DEF Places, Place
  <2>2. N \in Nat
    BY FleetAssumption
  <2> QED BY <2>1, <2>2 DEF Endpoints
<1>2. Scored(q) \in SUBSET Endpoints
  BY <1>1 DEF Scored, TypeOK
<1>3. /\ pc' = [pc EXCEPT ![q] = label]
      /\ next' = [next EXCEPT ![q] = @ + 1]
      /\ found' = [found EXCEPT ![q] = Scored(q)]
      /\ handles' = handles
  BY DEF NextEndpoint, Goto
<1>4. /\ pc' \in [Requests -> Labels]
      /\ found' \in [Requests -> SUBSET Endpoints]
      /\ handles' \in [Requests -> Seq(Endpoints)]
      /\ next' \in [Requests -> Nat \ {0}]
  <2>1. next[q] + 1 \in Nat \ {0}
    BY DEF TypeOK
  <2>2. label \in Labels
    BY DEF Labels, Selecting, Looping
  <2> QED BY <1>2, <1>3, <2>1, <2>2 DEF TypeOK
<1>5. ASSUME NEW r \in Requests PROVE Place(r)'
  <2>1. CASE r = q
    BY <1>1, <1>3, <2>1 DEF TypeOK, Places, Place, Looping
  <2>2. CASE r # q
    BY <1>3, <2>2 DEF TypeOK, Places, Place
  <2> QED BY <2>1, <2>2
<1> QED BY <1>4, <1>5 DEF Places

LEMMA ChooseFromType ==
    ASSUME TypeOK, Places, NEW q \in Requests, pc[q] \in Looping,
           NEW S \in SUBSET Endpoints, ChooseFrom(q, S),
           UNCHANGED <<now, at>>
    PROVE  /\ pc' \in [Requests -> Labels]
           /\ next' \in [Requests -> Nat \ {0}]
           /\ found' \in [Requests -> SUBSET Endpoints]
           /\ handles' \in [Requests -> Seq(Endpoints)]
           /\ Places'
<1>1. PICK h \in Rankings(S) :
        /\ handles' = [handles EXCEPT ![q] = h]
        /\ pc' = [pc EXCEPT ![q] = IF S = {} THEN "noRPC" ELSE "reserve"]
  BY DEF ChooseFrom, Goto
<1>2. /\ next' = [next EXCEPT ![q] = 1]
      /\ found' = [found EXCEPT ![q] = {}]
  BY DEF ChooseFrom
<1>3. h \in Seq(Endpoints) /\ (S # {} => 1 \in 1..Len(h))
  BY RankingType
<1>4. /\ pc' \in [Requests -> Labels]
      /\ next' \in [Requests -> Nat \ {0}]
      /\ found' \in [Requests -> SUBSET Endpoints]
      /\ handles' \in [Requests -> Seq(Endpoints)]
  BY <1>1, <1>2, <1>3 DEF TypeOK, Labels, Selecting
<1>5. ASSUME NEW r \in Requests PROVE Place(r)'
  <2>1. CASE r = q
    BY <1>1, <1>2, <1>3, <2>1 DEF TypeOK, Places, Place, Looping
  <2>2. CASE r # q
    BY <1>1, <1>2, <2>2 DEF TypeOK, Places, Place
  <2> QED BY <2>1, <2>2
<1> QED BY <1>4, <1>5 DEF Places

LEMMA FallbackType ==
    ASSUME TypeOK, Places, NEW q \in Requests, pc[q] \in Looping, Fallback(q),
           UNCHANGED <<now, at>>
    PROVE  /\ pc' \in [Requests -> Labels]
           /\ next' \in [Requests -> Nat \ {0}]
           /\ found' \in [Requests -> SUBSET Endpoints]
           /\ handles' \in [Requests -> Seq(Endpoints)]
           /\ Places'
<1>1. /\ pc' = [pc EXCEPT ![q] = "clear"]
      /\ next' = [next EXCEPT ![q] = 1]
      /\ found' = found /\ handles' = handles
  BY DEF Fallback, Goto
<1>2. 1 \in Endpoints
  BY FleetAssumption DEF Endpoints
<1>3. /\ pc' \in [Requests -> Labels]
      /\ next' \in [Requests -> Nat \ {0}]
  BY <1>1 DEF TypeOK, Labels, Selecting
<1>4. ASSUME NEW r \in Requests PROVE Place(r)'
  <2>1. CASE r = q
    BY <1>1, <1>2, <2>1 DEF TypeOK, Places, Place, Looping
  <2>2. CASE r # q
    BY <1>1, <2>2 DEF TypeOK, Places, Place
  <2> QED BY <2>1, <2>2
<1> QED BY <1>1, <1>3, <1>4 DEF Places, TypeOK

\* What other requests see of a step is a set of endpoints.
LEMMA TouchType ==
    ASSUME TypeOK, NEW q \in Requests, NEW e \in Endpoints
    PROVE  Touch(q, e) \in [Requests -> SUBSET Endpoints]
  BY DEF Touch, TypeOK

Typed == TypeOK /\ Places

LEMMA BeginTyped ==
    ASSUME Typed, NEW q \in Requests, Begin(q)
    PROVE  Typed'
<1> USE DEF Typed
<1>1. /\ pc[q] = "new"
      /\ pc' = [pc EXCEPT ![q] = "score"]
      /\ at' = [at EXCEPT ![q] = now]
      /\ ready' = [ready EXCEPT ![q] = {e \in Endpoints : Usable(e, now)}]
      /\ banned' = [banned EXCEPT ![q] = {e \in Endpoints : disabled[e]}]
      /\ UNCHANGED <<now, state, next, found, handles, touched>>
  BY DEF Begin, Goto
<1>2. TypeOK'
  BY <1>1 DEF TypeOK, state, Labels, Selecting
<1>3. 1 \in Endpoints
  BY FleetAssumption DEF Endpoints
<1>4. now \in Nat
  BY FleetAssumption DEF TypeOK
<1>5. ASSUME NEW r \in Requests PROVE Place(r)'
  <2>1. CASE r = q
    BY <1>1, <1>3, <1>4, <2>1 DEF TypeOK, Places, Place, Looping
  <2>2. CASE r # q
    BY <1>1, <2>2 DEF TypeOK, Places, Place
  <2> QED BY <2>1, <2>2
<1> QED BY <1>2, <1>5 DEF Places

LEMMA ScoreTyped ==
    ASSUME Typed, NEW q \in Requests, Score(q)
    PROVE  Typed'
<1> USE DEF Typed
<1>1. /\ pc[q] = "score"
      /\ Refresh(next[q], at[q])
      /\ UNCHANGED <<now, cooldownUntil, disabled, at, ready, banned, touched>>
  BY DEF Score, history
<1>2. next[q] \in Endpoints /\ at[q] \in 0..MaxTime /\ pc[q] \in Looping
  BY <1>1 DEF TypeOK, Places, Place, Looping
<1>3. Scored(q) \in SUBSET Endpoints
  BY <1>2 DEF Scored, TypeOK
<1>4. /\ pc' \in [Requests -> Labels]
      /\ next' \in [Requests -> Nat \ {0}]
      /\ found' \in [Requests -> SUBSET Endpoints]
      /\ handles' \in [Requests -> Seq(Endpoints)]
      /\ Places'
  <2>1. CASE next[q] < N /\ NextEndpoint(q, "score")
    BY <1>1, <1>2, <2>1, NextEndpointType DEF Looping
  <2>2. CASE Fallback(q)
    BY <1>1, <1>2, <2>2, FallbackType
  <2>3. CASE ChooseFrom(q, Scored(q))
    BY <1>1, <1>2, <1>3, <2>3, ChooseFromType
  <2> QED BY <2>1, <2>2, <2>3 DEF Score
<1> QED BY <1>1, <1>2, <1>4, RefreshType DEF TypeOK

LEMMA ClearTyped ==
    ASSUME Typed, NEW q \in Requests, Clear(q)
    PROVE  Typed'
<1> USE DEF Typed
<1>1. /\ pc[q] = "clear"
      /\ pc' = [pc EXCEPT ![q] = "rescore"]
      /\ cooldownUntil' = [cooldownUntil EXCEPT ![next[q]] = 0]
      /\ touched' = Touch(q, next[q])
      /\ UNCHANGED <<now, disabled, rateLimitFailures, timeoutFailures,
                     lastFailureDecay, reservations, at, next, found, handles,
                     ready, banned>>
  BY DEF Clear, Goto, locals
<1>2. next[q] \in Endpoints
  BY <1>1 DEF Places, Place, Looping
<1>3. touched' \in [Requests -> SUBSET Endpoints]
  BY <1>1, <1>2, TouchType
<1>4. TypeOK'
  BY <1>1, <1>2, <1>3 DEF TypeOK, Labels, Selecting
<1>5. Places'
  BY <1>1 DEF TypeOK, Places, Place, Looping
<1> QED BY <1>4, <1>5

LEMMA RescoreTyped ==
    ASSUME Typed, NEW q \in Requests, Rescore(q)
    PROVE  Typed'
<1> USE DEF Typed
<1>1. /\ pc[q] = "rescore"
      /\ Refresh(next[q], at[q])
      /\ UNCHANGED <<now, cooldownUntil, disabled, at, ready, banned, touched>>
  BY DEF Rescore, history
<1>2. next[q] \in Endpoints /\ at[q] \in 0..MaxTime /\ pc[q] \in Looping
  BY <1>1 DEF TypeOK, Places, Place, Looping
<1>3. Scored(q) \in SUBSET Endpoints
  BY <1>2 DEF Scored, TypeOK
<1>4. /\ pc' \in [Requests -> Labels]
      /\ next' \in [Requests -> Nat \ {0}]
      /\ found' \in [Requests -> SUBSET Endpoints]
      /\ handles' \in [Requests -> Seq(Endpoints)]
      /\ Places'
  <2>1. CASE next[q] < N /\ NextEndpoint(q, "clear")
    BY <1>1, <1>2, <2>1, NextEndpointType DEF Looping
  <2>2. CASE ChooseFrom(q, Scored(q))
    BY <1>1, <1>2, <1>3, <2>2, ChooseFromType
  <2> QED BY <2>1, <2>2 DEF Rescore
<1> QED BY <1>1, <1>2, <1>4, RefreshType DEF TypeOK

LEMMA RecentType ==
    ASSUME TypeOK, NEW e \in Endpoints, NEW t
    PROVE  Recent(e, t) \in SUBSET Reservation
  BY DEF Recent, TypeOK

LEMMA ReserveTyped ==
    ASSUME Typed, NEW q \in Requests, Reserve(q)
    PROVE  Typed'
<1> USE DEF Typed
<1> DEFINE e == handles[q][next[q]]
           r == Recent(e, at[q]) \cup {[req |-> q, at |-> at[q]]}
<1>1. /\ pc[q] = "reserve"
      /\ reservations' = [reservations EXCEPT ![e] = r]
      /\ \/ cooldownUntil' = cooldownUntil
         \/ cooldownUntil' = [cooldownUntil EXCEPT ![e] = at[q] + BurstCooldown]
      /\ touched' = Touch(q, e)
      /\ UNCHANGED <<now, disabled, rateLimitFailures, timeoutFailures,
                     lastFailureDecay, at, found, handles, ready, banned>>
  BY DEF Reserve
<1>2. \/ /\ pc' = [pc EXCEPT ![q] = "try"]
         /\ next' = [next EXCEPT ![q] = 1]
      \/ /\ next[q] # Len(handles[q])
         /\ pc' = pc
         /\ next' = [next EXCEPT ![q] = @ + 1]
  BY DEF Reserve, Goto
<1>3. e \in Endpoints
  BY <1>1, HandleType
<1>4. r \in SUBSET Reservation
  <2>1. [req |-> q, at |-> at[q]] \in Reservation
    BY DEF Reservation, TypeOK
  <2> QED BY <1>3, <2>1, RecentType
<1> HIDE DEF e, r
<1>5. at[q] + BurstCooldown \in Nat
  <2>1. BurstCooldown \in Nat /\ MaxTime \in Nat
    BY FleetAssumption
  <2> QED BY <2>1 DEF TypeOK
<1>6. touched' \in [Requests -> SUBSET Endpoints]
  BY <1>1, <1>3, TouchType
<1>7. /\ handles[q] \in Seq(Endpoints) /\ Len(handles[q]) \in Nat
      /\ next[q] \in 1..Len(handles[q])
  BY <1>1 DEF TypeOK, Places, Place
<1>8. /\ pc' \in [Requests -> Labels]
      /\ next' \in [Requests -> Nat \ {0}]
  <2>1. next[q] + 1 \in Nat \ {0} /\ 1 \in Nat \ {0} /\ "try" \in Labels
    BY DEF TypeOK, Labels
  <2>2. pc \in [Requests -> Labels] /\ next \in [Requests -> Nat \ {0}]
    BY DEF TypeOK
  <2>3. CASE pc' = pc /\ next' = [next EXCEPT ![q] = @ + 1]
    BY <2>1, <2>2, <2>3
  <2>4. CASE /\ pc' = [pc EXCEPT ![q] = "try"]
             /\ next' = [next EXCEPT ![q] = 1]
    BY <2>1, <2>2, <2>4
  <2> QED BY <1>2, <2>3, <2>4
<1>9. /\ cooldownUntil' \in [Endpoints -> Nat]
      /\ reservations' \in [Endpoints -> SUBSET Reservation]
  BY <1>1, <1>3, <1>4, <1>5 DEF TypeOK
<1>10. TypeOK'
  BY <1>1, <1>6, <1>8, <1>9 DEF TypeOK
<1>11. ASSUME NEW p \in Requests PROVE Place(p)'
  <2>1. CASE p = q
    <3>1. next'[q] \in 1..Len(handles[q])
      <4>1. next'[q] = 1 \/ (next[q] # Len(handles[q]) /\ next'[q] = next[q] + 1)
        BY <1>2 DEF TypeOK
      <4> QED BY <1>7, <4>1
    <3>2. pc'[q] \in {"reserve", "try"}
      BY <1>1, <1>2 DEF TypeOK
    <3> QED BY <1>1, <2>1, <3>1, <3>2 DEF Places, Place, Looping
  <2>2. CASE p # q
    BY <1>1, <1>2, <2>2 DEF TypeOK, Places, Place
  <2> QED BY <2>1, <2>2
<1> QED BY <1>10, <1>11 DEF Places

LEMMA EndType ==
    ASSUME Typed, NEW q \in Requests, NEW label \in {"sent", "failed"},
           End(q, label), UNCHANGED <<now, found>>
    PROVE  /\ pc' \in [Requests -> Labels]
           /\ at' \in [Requests -> 0..MaxTime]
           /\ next' \in [Requests -> Nat \ {0}]
           /\ handles' \in [Requests -> Seq(Endpoints)]
           /\ ready' \in [Requests -> SUBSET Endpoints]
           /\ banned' \in [Requests -> SUBSET Endpoints]
           /\ Places'
<1> USE DEF Typed
<1>1. /\ pc' = [pc EXCEPT ![q] = label]
      /\ at' = [at EXCEPT ![q] = 0]
      /\ next' = [next EXCEPT ![q] = 1]
      /\ handles' = [handles EXCEPT ![q] = <<>>]
      /\ ready' = [ready EXCEPT ![q] = {}]
      /\ banned' = [banned EXCEPT ![q] = {}]
  BY DEF End, Goto
<1>2. MaxTime \in Nat /\ 0 \in 0..MaxTime
  BY FleetAssumption
<1>3. /\ pc' \in [Requests -> Labels]
      /\ next' \in [Requests -> Nat \ {0}]
      /\ at' \in [Requests -> 0..MaxTime]
      /\ handles' \in [Requests -> Seq(Endpoints)]
      /\ ready' \in [Requests -> SUBSET Endpoints]
      /\ banned' \in [Requests -> SUBSET Endpoints]
  BY <1>1, <1>2 DEF TypeOK, Labels
<1>4. ASSUME NEW r \in Requests PROVE Place(r)'
  <2>1. CASE r = q
    <3>1. pc'[q] \notin Looping \cup {"new", "reserve", "try"}
      BY <1>1 DEF TypeOK, Looping
    <3>2. at'[q] <= now
      BY <1>1, <1>2 DEF TypeOK
    <3> QED BY <2>1, <3>1, <3>2 DEF Place
  <2>2. CASE r # q
    BY <1>1, <2>2 DEF TypeOK, Places, Place
  <2> QED BY <2>1, <2>2
<1> QED BY <1>3, <1>4 DEF Places

LEMMA RecordSuccessTyped ==
    ASSUME Typed, NEW q \in Requests, RecordSuccess(q)
    PROVE  Typed'
<1> USE DEF Typed
<1> DEFINE e == handles[q][next[q]]
<1>1. /\ pc[q] = "try"
      /\ End(q, "sent")
      /\ reservations' = [reservations EXCEPT ![e] = Recent(e, now)]
      /\ rateLimitFailures' =
           [rateLimitFailures EXCEPT ![e] = Less(Decayed(e, now).rate, 1)]
      /\ timeoutFailures' =
           [timeoutFailures EXCEPT ![e] = Less(Decayed(e, now).timeout, 1)]
      /\ lastFailureDecay' = [lastFailureDecay EXCEPT ![e] = Decayed(e, now).last]
      /\ \/ cooldownUntil' = cooldownUntil
         \/ cooldownUntil' = [cooldownUntil EXCEPT ![e] = 0]
      /\ \/ touched' = [touched EXCEPT ![q] = {}]
         \/ touched' = [Touch(q, e) EXCEPT ![q] = {}]
      /\ UNCHANGED <<now, disabled, found>>
  BY DEF RecordSuccess
<1>2. e \in Endpoints
  BY <1>1, HandleType
<1> HIDE DEF e
<1>3. /\ Decayed(e, now).rate \in Nat
      /\ Decayed(e, now).timeout \in Nat
      /\ Decayed(e, now).last \in 0..MaxTime
  BY <1>2, DecayType DEF TypeOK
<1>4. /\ Less(Decayed(e, now).rate, 1) \in Nat
      /\ Less(Decayed(e, now).timeout, 1) \in Nat
  BY <1>3, LessType
<1>5. Recent(e, now) \in SUBSET Reservation
  BY <1>2, RecentType
<1>6. Touch(q, e) \in [Requests -> SUBSET Endpoints]
  BY <1>2, TouchType
<1>7. /\ reservations' \in [Endpoints -> SUBSET Reservation]
      /\ rateLimitFailures' \in [Endpoints -> Nat]
      /\ timeoutFailures' \in [Endpoints -> Nat]
      /\ lastFailureDecay' \in [Endpoints -> 0..MaxTime]
      /\ cooldownUntil' \in [Endpoints -> Nat]
  <2>1. reservations' \in [Endpoints -> SUBSET Reservation]
    BY <1>1, <1>5 DEF TypeOK
  <2>2. /\ rateLimitFailures' \in [Endpoints -> Nat]
        /\ timeoutFailures' \in [Endpoints -> Nat]
    BY <1>1, <1>4 DEF TypeOK
  <2>3. lastFailureDecay' \in [Endpoints -> 0..MaxTime]
    BY <1>1, <1>3 DEF TypeOK
  <2>4. cooldownUntil' \in [Endpoints -> Nat]
    BY <1>1 DEF TypeOK
  <2> QED BY <2>1, <2>2, <2>3, <2>4
<1>8. touched' \in [Requests -> SUBSET Endpoints]
  BY <1>1, <1>6 DEF TypeOK
<1>9. /\ pc' \in [Requests -> Labels]
      /\ at' \in [Requests -> 0..MaxTime]
      /\ next' \in [Requests -> Nat \ {0}]
      /\ handles' \in [Requests -> Seq(Endpoints)]
      /\ ready' \in [Requests -> SUBSET Endpoints]
      /\ banned' \in [Requests -> SUBSET Endpoints]
      /\ Places'
  BY <1>1, EndType
<1> QED BY <1>1, <1>7, <1>8, <1>9 DEF TypeOK

LEMMA CooldownEndType ==
    ASSUME TypeOK, NEW e \in Endpoints, NEW kind \in Kinds,
           NEW rate \in Nat, NEW timeout \in Nat
    PROVE  /\ CooldownEnd(e, kind, rate, timeout) \in Nat
           /\ \/ CooldownEnd(e, kind, rate, timeout) = cooldownUntil[e]
              \/ CooldownEnd(e, kind, rate, timeout) <= now + MaxCooldown
<1>1. kind \in FailureKinds /\ MaxCooldown \in Nat /\ MaxTime \in Nat
  BY FleetAssumption
<1>2. now \in Nat /\ cooldownUntil[e] \in Nat
  BY <1>1 DEF TypeOK
<1> DEFINE length == AtMost(CooldownOf(kind, rate, timeout), MaxCooldown)
<1>3. length \in Nat /\ length <= MaxCooldown
  BY <1>1, CooldownOfType, AtMostType
<1>4. CooldownEnd(e, kind, rate, timeout) =
        IF cooldownUntil[e] < now + length THEN now + length
                                           ELSE cooldownUntil[e]
  BY DEF CooldownEnd
<1> HIDE DEF length
<1> QED BY <1>1, <1>2, <1>3, <1>4

LEMMA RecordFailureTyped ==
    ASSUME Typed, NEW q \in Requests, NEW kind \in Kinds,
           RecordFailure(q, kind)
    PROVE  Typed'
<1> USE DEF Typed
<1> DEFINE e == handles[q][next[q]]
           rate == Decayed(e, now).rate + RatePenalty(kind)
           timeout == Decayed(e, now).timeout
                        + (IF kind = "timeout" THEN 1 ELSE 0)
<1>1. /\ pc[q] = "try"
      /\ reservations' = [reservations EXCEPT ![e] = Recent(e, now)]
      /\ rateLimitFailures' = [rateLimitFailures EXCEPT ![e] = rate]
      /\ timeoutFailures' = [timeoutFailures EXCEPT ![e] = timeout]
      /\ lastFailureDecay' = [lastFailureDecay EXCEPT ![e] = Decayed(e, now).last]
      /\ disabled' = [disabled EXCEPT ![e] = @ \/ kind = "capacityExhausted"]
      /\ cooldownUntil' =
           [cooldownUntil EXCEPT ![e] = CooldownEnd(e, kind, rate, timeout)]
      /\ UNCHANGED <<now, found>>
  BY DEF RecordFailure
<1>2. \/ /\ next[q] < Len(handles[q])
         /\ next' = [next EXCEPT ![q] = @ + 1]
         /\ touched' = Touch(q, e)
         /\ UNCHANGED <<pc, at, handles, ready, banned>>
      \/ /\ End(q, "failed")
         /\ touched' = [Touch(q, e) EXCEPT ![q] = {}]
  BY DEF RecordFailure
<1>3. e \in Endpoints
  BY <1>1, HandleType
<1>4. /\ Decayed(e, now).rate \in Nat
      /\ Decayed(e, now).timeout \in Nat
      /\ Decayed(e, now).last \in 0..MaxTime
  BY <1>3, DecayType DEF TypeOK
<1>5. RatePenalty(kind) \in Nat
  BY DEF RatePenalty
<1>6. rate \in Nat /\ timeout \in Nat
  BY <1>4, <1>5
<1>7. Recent(e, now) \in SUBSET Reservation
  BY <1>3, RecentType
<1>8. Touch(q, e) \in [Requests -> SUBSET Endpoints]
  BY <1>3, TouchType
<1> HIDE DEF e, rate, timeout
<1>9. CooldownEnd(e, kind, rate, timeout) \in Nat
  BY <1>3, <1>6, CooldownEndType
<1>10. reservations' \in [Endpoints -> SUBSET Reservation]
  BY <1>1, <1>7 DEF TypeOK
<1>11. /\ rateLimitFailures' \in [Endpoints -> Nat]
       /\ timeoutFailures' \in [Endpoints -> Nat]
  BY <1>1, <1>6 DEF TypeOK
<1>12. lastFailureDecay' \in [Endpoints -> 0..MaxTime]
  BY <1>1, <1>4 DEF TypeOK
<1>13. cooldownUntil' \in [Endpoints -> Nat]
  BY <1>1, <1>9 DEF TypeOK
<1>14. disabled' \in [Endpoints -> BOOLEAN]
  BY <1>1 DEF TypeOK
<1>15. touched' \in [Requests -> SUBSET Endpoints]
  BY <1>2, <1>8
<1>16. /\ pc' \in [Requests -> Labels]
       /\ at' \in [Requests -> 0..MaxTime]
       /\ next' \in [Requests -> Nat \ {0}]
       /\ handles' \in [Requests -> Seq(Endpoints)]
       /\ ready' \in [Requests -> SUBSET Endpoints]
       /\ banned' \in [Requests -> SUBSET Endpoints]
       /\ Places'
  <2>1. CASE End(q, "failed")
    BY <1>1, <2>1, EndType
  <2>2. CASE /\ next[q] < Len(handles[q])
             /\ next' = [next EXCEPT ![q] = @ + 1]
             /\ UNCHANGED <<pc, at, handles, ready, banned>>
    <3>1. next[q] \in 1..Len(handles[q]) /\ Len(handles[q]) \in Nat
      BY <1>1 DEF TypeOK, Places, Place
    <3>2. next[q] + 1 \in Nat \ {0} /\ next[q] + 1 \in 1..Len(handles[q])
      BY <2>2, <3>1
    <3>3. next' \in [Requests -> Nat \ {0}]
      BY <2>2, <3>2 DEF TypeOK
    <3>4. ASSUME NEW r \in Requests PROVE Place(r)'
      <4>1. CASE r = q
        BY <1>1, <2>2, <3>2, <4>1 DEF TypeOK, Places, Place, Looping
      <4>2. CASE r # q
        BY <1>1, <2>2, <4>2 DEF TypeOK, Places, Place
      <4> QED BY <4>1, <4>2
    <3> QED BY <2>2, <3>3, <3>4 DEF TypeOK, Places
  <2> QED BY <1>2, <2>1, <2>2
<1> QED
  BY <1>1, <1>10, <1>11, <1>12, <1>13, <1>14, <1>15, <1>16 DEF TypeOK

LEMMA TickTyped ==
    ASSUME Typed, Tick
    PROVE  Typed'
<1>1. /\ now < MaxTime /\ now' = now + 1
      /\ UNCHANGED <<state, pc, locals, history>>
  BY DEF Tick
<1>2. now \in 0..MaxTime /\ MaxTime \in Nat /\ now' \in 0..MaxTime
  BY <1>1, FleetAssumption DEF Typed, TypeOK
<1>3. TypeOK'
  BY <1>1, <1>2 DEF Typed, TypeOK, state, locals, history
<1>4. \A q \in Requests : at[q] \in Nat
  BY <1>2 DEF Typed, TypeOK
<1>5. ASSUME NEW q \in Requests PROVE Place(q)'
  <2>1. at[q] <= now'
    BY <1>1, <1>2, <1>4 DEF Typed, Places, Place
  <2> QED BY <1>1, <2>1 DEF Typed, Places, Place, locals
<1> QED BY <1>3, <1>5 DEF Typed, Places

LEMMA InitTyped == Init => Typed
<1> SUFFICES ASSUME Init PROVE Typed
  OBVIOUS
<1>1. MaxTime \in Nat
  BY FleetAssumption
<1>2. TypeOK
  BY <1>1 DEF Init, TypeOK, Labels
<1>3. Places
  BY DEF Init, Places, Place, Looping
<1> QED BY <1>2, <1>3 DEF Typed

LEMMA NextTyped == Typed /\ [Next]_vars => Typed'
<1> SUFFICES ASSUME Typed, [Next]_vars PROVE Typed'
  OBVIOUS
<1>1. CASE UNCHANGED vars
  BY <1>1 DEF Typed, TypeOK, Places, Place, vars, state, locals, history
<1>2. CASE Tick
  BY <1>2, TickTyped
<1>3. ASSUME NEW q \in Requests, SendCandidates(q) PROVE Typed'
  BY <1>3, BeginTyped, ScoreTyped, ClearTyped, RescoreTyped, ReserveTyped
     DEF SendCandidates
<1>4. ASSUME NEW q \in Requests, RecordSuccess(q) PROVE Typed'
  BY <1>4, RecordSuccessTyped
<1>5. ASSUME NEW q \in Requests, NEW kind \in Kinds, RecordFailure(q, kind)
      PROVE  Typed'
  BY <1>5, RecordFailureTyped
<1> QED BY <1>1, <1>2, <1>3, <1>4, <1>5 DEF Next

LEMMA AlwaysTyped == Spec => []Typed
  BY InitTyped, NextTyped, PTL DEF Spec

\* Every variable of rpc_fleet.go keeps its type, and the loops stay within the
\* endpoints and the handles: no counter that decay subtracts from passes below
\* zero, whatever the order of the calls.
THEOREM FleetTypes == Spec => []TypeOK
<1>1. Typed => TypeOK
  BY DEF Typed
<1> QED BY <1>1, AlwaysTyped, PTL

-----------------------------------------------------------------------------
(***************************************************************************)
(* How long an endpoint is kept out.  The clock of a call is never ahead   *)
(* of the fleet's, so that neither a burst nor a failure reaches further   *)
(* than MaxCooldown from now.                                              *)
(***************************************************************************)
Bounded(e) == cooldownUntil[e] <= now + MaxCooldown

LEMMA BoundedNext ==
    ASSUME Typed, BurstCooldown <= MaxCooldown, [Next]_vars,
           NEW e \in Endpoints, Bounded(e)
    PROVE  Bounded(e)'
<1>1. /\ MaxTime \in Nat /\ MaxCooldown \in Nat /\ BurstCooldown \in Nat
      /\ now \in Nat /\ cooldownUntil[e] \in Nat
  BY FleetAssumption DEF Typed, TypeOK
<1>2. CASE cooldownUntil' = cooldownUntil /\ now' \in {now, now + 1}
  BY <1>1, <1>2 DEF Bounded
<1>3. CASE UNCHANGED vars
  BY <1>2, <1>3 DEF vars, state
<1>4. CASE Tick
  BY <1>2, <1>4 DEF Tick, state
<1>5. ASSUME NEW q \in Requests, Begin(q) \/ Score(q) \/ Rescore(q)
      PROVE  Bounded(e)'
  BY <1>2, <1>5 DEF Begin, Score, Rescore, state
<1>6. ASSUME NEW q \in Requests, Clear(q) PROVE Bounded(e)'
  <2>1. cooldownUntil'[e] \in {0, cooldownUntil[e]} /\ now' = now
    BY <1>6 DEF Clear, Typed, TypeOK
  <2> QED BY <1>1, <2>1 DEF Bounded
<1>7. ASSUME NEW q \in Requests, Reserve(q) PROVE Bounded(e)'
  <2>1. /\ cooldownUntil'[e] \in {at[q] + BurstCooldown, cooldownUntil[e]}
        /\ now' = now
    BY <1>7 DEF Reserve, Typed, TypeOK
  <2>2. at[q] \in Nat /\ at[q] <= now
    BY <1>1 DEF Typed, TypeOK, Places, Place
  <2> QED BY <1>1, <2>1, <2>2 DEF Bounded
<1>8. ASSUME NEW q \in Requests, RecordSuccess(q) PROVE Bounded(e)'
  <2>1. cooldownUntil'[e] \in {0, cooldownUntil[e]} /\ now' = now
    BY <1>8 DEF RecordSuccess, Typed, TypeOK
  <2> QED BY <1>1, <2>1 DEF Bounded
<1>9. ASSUME NEW q \in Requests, NEW kind \in Kinds, RecordFailure(q, kind)
      PROVE  Bounded(e)'
  <2>1. CASE e # handles[q][next[q]]
    BY <1>2, <1>9, <2>1 DEF RecordFailure, Bounded, Typed, TypeOK
  <2>2. CASE e = handles[q][next[q]]
    <3> DEFINE rate == Decayed(e, now).rate + RatePenalty(kind)
               timeout == Decayed(e, now).timeout
                            + (IF kind = "timeout" THEN 1 ELSE 0)
    <3>1. cooldownUntil'[e] = CooldownEnd(e, kind, rate, timeout) /\ now' = now
      BY <1>9, <2>2 DEF RecordFailure, Typed, TypeOK
    <3>2. Decayed(e, now).rate \in Nat /\ Decayed(e, now).timeout \in Nat
      BY DecayType DEF Typed, TypeOK
    <3>3. RatePenalty(kind) \in Nat
      BY DEF RatePenalty
    <3>4. rate \in Nat /\ timeout \in Nat
      BY <3>2, <3>3
    <3> HIDE DEF rate, timeout
    <3>5. \/ CooldownEnd(e, kind, rate, timeout) = cooldownUntil[e]
          \/ CooldownEnd(e, kind, rate, timeout) <= now + MaxCooldown
      BY <3>4, CooldownEndType DEF Typed
    <3> QED BY <3>1, <3>5 DEF Bounded
  <2> QED BY <2>1, <2>2
<1> QED BY <1>3, <1>4, <1>5, <1>6, <1>7, <1>8, <1>9 DEF Next, SendCandidates

\* No endpoint is out for longer than MaxCooldown after now, whatever failures
\* recordFailure has doubled its cooldown for, provided that a burst is not
\* (900 ms against 45 s in rpc_fleet.go).
THEOREM CooldownsBounded == Spec => []CooldownBounded
<1>1. Init => CooldownBounded
  <2> SUFFICES ASSUME Init, NEW e \in Endpoints PROVE Bounded(e)
    BY DEF CooldownBounded, Bounded
  <2>1. MaxCooldown \in Nat
    BY FleetAssumption
  <2> QED BY <2>1 DEF Init, Bounded
<1>2. Typed /\ CooldownBounded /\ [Next]_vars => CooldownBounded'
  <2> SUFFICES ASSUME Typed, CooldownBounded, [Next]_vars,
                      BurstCooldown <= MaxCooldown, NEW e \in Endpoints
               PROVE  Bounded(e)'
    BY DEF CooldownBounded, Bounded
  <2>1. Bounded(e)
    BY DEF CooldownBounded, Bounded
  <2> QED BY <2>1, BoundedNext
<1> QED BY <1>1, <1>2, AlwaysTyped, PTL DEF Spec

-----------------------------------------------------------------------------
(***************************************************************************)
(* What a call of sendCandidates knows of the endpoints.  It reads them    *)
(* one at a time while other requests change them; of those nobody else    *)
(* changed since the call began it knows the following.                    *)
(***************************************************************************)

\* Endpoints are never enabled again, and those disabled since are touched.
BannedKnown(q) ==
    /\ \A e \in banned[q] : disabled[e]
    /\ pc[q] \in Looping =>
         \A e \in Endpoints \ touched[q] : disabled[e] => e \in banned[q]

\* Neither the candidates nor the handles hold a banned endpoint.
BannedOut(q) ==
    /\ found[q] \cap banned[q] = {}
    /\ \A i \in DOMAIN handles[q] : handles[q][i] \notin banned[q]

\* In the first loop an untouched endpoint is usable when it was ready, and the
\* ready ones the loop has passed are candidates.
FirstLoop(q) ==
    pc[q] = "score" =>
        /\ \A e \in Endpoints \ touched[q] : Usable(e, at[q]) <=> e \in ready[q]
        /\ found[q] \subseteq ready[q] \cup touched[q]
        /\ \A e \in ready[q] \ touched[q] : e < next[q] => e \in found[q]

\* The second loop runs in need only, and passes over no untouched endpoint
\* that is not banned; the cooldown it has cleared stays cleared.
SecondLoop(q) ==
    pc[q] \in {"clear", "rescore"} =>
        /\ ready[q] \subseteq touched[q]
        /\ \A e \in Endpoints :
             e < next[q] => e \in found[q] \cup banned[q] \cup touched[q]
        /\ pc[q] = "rescore" /\ next[q] \notin touched[q]
             => cooldownUntil[next[q]] = 0

\* The properties, request by request.
EmptyInNeed(q) ==
    pc[q] = "noRPC" => Endpoints \subseteq banned[q] \cup touched[q]

OverruledInNeed(q) ==
    ready[q] \ touched[q] # {} =>
        \A i \in DOMAIN handles[q] : handles[q][i] \in ready[q] \cup touched[q]

View(q) ==
    /\ BannedKnown(q)
    /\ BannedOut(q)
    /\ FirstLoop(q)
    /\ SecondLoop(q)
    /\ EmptyInNeed(q)
    /\ OverruledInNeed(q)

Views == \A q \in Requests : View(q)

(***************************************************************************)
(* A step of q, as another request r sees it: nothing of r's own changes,  *)
(* and an endpoint that changes while r is looking is touched.             *)
(***************************************************************************)
SeenBy(r) ==
    /\ pc'[r] = pc[r] /\ at'[r] = at[r] /\ next'[r] = next[r]
    /\ found'[r] = found[r] /\ handles'[r] = handles[r]
    /\ ready'[r] = ready[r] /\ banned'[r] = banned[r]
    /\ touched[r] \subseteq touched'[r]
    /\ pc[r] \in Selecting =>
         \A e \in Endpoints \ touched'[r] :
            cooldownUntil'[e] = cooldownUntil[e] /\ disabled'[e] = disabled[e]

Disabling == \A e \in Endpoints : disabled[e] => disabled'[e]

LEMMA OtherView ==
    ASSUME Typed, NEW r \in Requests, View(r), SeenBy(r), Disabling
    PROVE  View(r)'
<1>1. banned[r] \subseteq Endpoints /\ touched[r] \subseteq touched'[r]
  BY DEF Typed, TypeOK, SeenBy
<1>2. BannedKnown(r)'
  BY <1>1 DEF View, BannedKnown, SeenBy, Disabling, Looping, Selecting
<1>3. BannedOut(r)'
  BY DEF View, BannedOut, SeenBy
<1>4. FirstLoop(r)'
  BY <1>1 DEF View, FirstLoop, SeenBy, Selecting, Usable
<1>5. SecondLoop(r)'
  <2>1. pc[r] \in Looping => next[r] \in Endpoints
    BY DEF Typed, Places, Place
  <2> QED BY <1>1, <2>1 DEF View, SecondLoop, SeenBy, Selecting, Looping
<1>6. EmptyInNeed(r)'
  BY <1>1 DEF View, EmptyInNeed, SeenBy
<1>7. OverruledInNeed(r)'
  BY <1>1 DEF View, OverruledInNeed, SeenBy
<1> QED BY <1>2, <1>3, <1>4, <1>5, <1>6, <1>7 DEF View

LEMMA Touching ==
    ASSUME Typed, NEW q \in Requests, NEW r \in Requests, r # q,
           NEW e \in Endpoints
    PROVE  /\ touched[r] \subseteq Touch(q, e)[r]
           /\ pc[r] \in Selecting => e \in Touch(q, e)[r]
           /\ [Touch(q, e) EXCEPT ![q] = {}][r] = Touch(q, e)[r]
  BY DEF Touch

\* Steps that change no cooldown and disable nothing.
LEMMA QuietlySeen ==
    ASSUME Typed, NEW q \in Requests, Begin(q) \/ Score(q) \/ Rescore(q)
    PROVE  Disabling /\ \A r \in Requests \ {q} : SeenBy(r)
<1>1. cooldownUntil' = cooldownUntil /\ disabled' = disabled /\ touched' = touched
  BY DEF Begin, Score, Rescore, state, history
<1>2. Disabling
  BY <1>1 DEF Disabling
<1>3. ASSUME NEW r \in Requests \ {q} PROVE SeenBy(r)
  <2>1. CASE Begin(q)
    BY <1>1, <2>1 DEF SeenBy, Begin, Goto, Typed, TypeOK
  <2>2. ASSUME NEW label, NextEndpoint(q, label), UNCHANGED <<at, ready, banned>>
        PROVE  SeenBy(r)
    BY <1>1, <2>2 DEF SeenBy, NextEndpoint, Goto, Typed, TypeOK
  <2>3. ASSUME Fallback(q), UNCHANGED <<at, ready, banned>> PROVE SeenBy(r)
    BY <1>1, <2>3 DEF SeenBy, Fallback, Goto, Typed, TypeOK
  <2>4. ASSUME NEW S, ChooseFrom(q, S), UNCHANGED <<at, ready, banned>>
        PROVE  SeenBy(r)
    BY <1>1, <2>4 DEF SeenBy, ChooseFrom, Goto, Typed, TypeOK
  <2>5. CASE Score(q)
    BY <2>2, <2>3, <2>4, <2>5 DEF Score, history
  <2>6. CASE Rescore(q)
    BY <2>2, <2>4, <2>6 DEF Rescore, history
  <2> QED BY <2>1, <2>5, <2>6
<1> QED BY <1>2, <1>3

LEMMA ClearSeen ==
    ASSUME Typed, NEW q \in Requests, Clear(q)
    PROVE  Disabling /\ \A r \in Requests \ {q} : SeenBy(r)
<1>1. next[q] \in Endpoints
  BY DEF Clear, Typed, Places, Place, Looping
<1>2. Disabling
  BY DEF Clear, Disabling
<1>3. ASSUME NEW r \in Requests \ {q} PROVE SeenBy(r)
  <2>1. /\ touched[r] \subseteq touched'[r]
        /\ pc[r] \in Selecting => next[q] \in touched'[r]
    BY <1>1, Touching DEF Clear
  <2>2. \A e \in Endpoints \ {next[q]} : cooldownUntil'[e] = cooldownUntil[e]
    BY DEF Clear, Typed, TypeOK
  <2>3. pc'[r] = pc[r] /\ disabled' = disabled
    BY DEF Clear, Goto, Typed, TypeOK
  <2>4. UNCHANGED <<at, next, found, handles, ready, banned>>
    BY DEF Clear, locals
  <2> QED BY <2>1, <2>2, <2>3, <2>4 DEF SeenBy
<1> QED BY <1>2, <1>3

LEMMA ReserveSeen ==
    ASSUME Typed, NEW q \in Requests, Reserve(q)
    PROVE  Disabling /\ \A r \in Requests \ {q} : SeenBy(r)
<1> DEFINE e == handles[q][next[q]]
<1>1. e \in Endpoints
  BY HandleType DEF Reserve, Typed
<1>2. Disabling
  BY DEF Reserve, Disabling
<1>3. ASSUME NEW r \in Requests \ {q} PROVE SeenBy(r)
  <2>1. touched' = Touch(q, e)
    BY DEF Reserve
  <2>2. \A f \in Endpoints \ {e} : cooldownUntil'[f] = cooldownUntil[f]
    BY DEF Reserve, Typed, TypeOK
  <2> HIDE DEF e
  <2>3. /\ touched[r] \subseteq touched'[r]
        /\ pc[r] \in Selecting => e \in touched'[r]
    BY <1>1, <2>1, Touching
  <2>4. pc'[r] = pc[r] /\ next'[r] = next[r] /\ disabled' = disabled
    BY DEF Reserve, Goto, Typed, TypeOK
  <2>5. UNCHANGED <<at, found, handles, ready, banned>>
    BY DEF Reserve
  <2> QED BY <2>2, <2>3, <2>4, <2>5 DEF SeenBy
<1> QED BY <1>2, <1>3

LEMMA EndSeen ==
    ASSUME Typed, NEW q \in Requests, NEW r \in Requests \ {q}, NEW label,
           End(q, label)
    PROVE  /\ pc'[r] = pc[r] /\ at'[r] = at[r] /\ next'[r] = next[r]
           /\ handles'[r] = handles[r]
           /\ ready'[r] = ready[r] /\ banned'[r] = banned[r]
  BY DEF End, Goto, Typed, TypeOK

LEMMA RecordSuccessSeen ==
    ASSUME Typed, NEW q \in Requests, RecordSuccess(q)
    PROVE  Disabling /\ \A r \in Requests \ {q} : SeenBy(r)
<1> DEFINE e == handles[q][next[q]]
<1>1. e \in Endpoints
  BY HandleType DEF RecordSuccess, Typed
<1>2. Disabling
  BY DEF RecordSuccess, Disabling
<1>3. ASSUME NEW r \in Requests \ {q} PROVE SeenBy(r)
  <2>1. \/ /\ cooldownUntil' = cooldownUntil
           /\ touched' = [touched EXCEPT ![q] = {}]
        \/ touched' = [Touch(q, e) EXCEPT ![q] = {}]
    BY DEF RecordSuccess
  <2>2. \A f \in Endpoints \ {e} : cooldownUntil'[f] = cooldownUntil[f]
    BY DEF RecordSuccess, Typed, TypeOK
  <2> HIDE DEF e
  <2>3. /\ touched[r] \subseteq touched'[r]
        /\ \/ cooldownUntil' = cooldownUntil
           \/ pc[r] \in Selecting => e \in touched'[r]
    <3>1. CASE /\ cooldownUntil' = cooldownUntil
               /\ touched' = [touched EXCEPT ![q] = {}]
      BY <3>1 DEF Typed, TypeOK
    <3>2. CASE touched' = [Touch(q, e) EXCEPT ![q] = {}]
      <4>1. touched'[r] = Touch(q, e)[r]
        BY <1>1, <3>2, Touching
      <4> QED BY <1>1, <4>1, Touching
    <3> QED BY <2>1, <3>1, <3>2
  <2>4. disabled' = disabled /\ found' = found
    BY DEF RecordSuccess
  <2>5. /\ pc'[r] = pc[r] /\ at'[r] = at[r] /\ next'[r] = next[r]
        /\ handles'[r] = handles[r]
        /\ ready'[r] = ready[r] /\ banned'[r] = banned[r]
    BY EndSeen DEF RecordSuccess
  <2> QED BY <2>2, <2>3, <2>4, <2>5 DEF SeenBy
<1> QED BY <1>2, <1>3

LEMMA RecordFailureSeen ==
    ASSUME Typed, NEW q \in Requests, NEW kind \in Kinds,
           RecordFailure(q, kind)
    PROVE  Disabling /\ \A r \in Requests \ {q} : SeenBy(r)
<1> DEFINE e == handles[q][next[q]]
<1>1. e \in Endpoints
  BY HandleType DEF RecordFailure, Typed
<1>2. Disabling
  BY DEF RecordFailure, Disabling, Typed, TypeOK
<1>3. ASSUME NEW r \in Requests \ {q} PROVE SeenBy(r)
  <2>1. touched' = Touch(q, e) \/ touched' = [Touch(q, e) EXCEPT ![q] = {}]
    BY DEF RecordFailure
  <2>2. \A f \in Endpoints \ {e} : cooldownUntil'[f] = cooldownUntil[f]
    BY DEF RecordFailure, Typed, TypeOK
  <2>3. \A f \in Endpoints \ {e} : disabled'[f] = disabled[f]
    BY DEF RecordFailure, Typed, TypeOK
  <2> HIDE DEF e
  <2>4. /\ touched[r] \subseteq touched'[r]
        /\ pc[r] \in Selecting => e \in touched'[r]
    <3>1. touched'[r] = Touch(q, e)[r]
      BY <1>1, <2>1, Touching
    <3> QED BY <1>1, <3>1, Touching
  <2>5. /\ pc'[r] = pc[r] /\ at'[r] = at[r] /\ next'[r] = next[r]
        /\ handles'[r] = handles[r]
        /\ ready'[r] = ready[r] /\ banned'[r] = banned[r]
    <3>1. CASE End(q, "failed")
      BY <3>1, EndSeen
    <3>2. CASE /\ next' = [next EXCEPT ![q] = @ + 1]
               /\ UNCHANGED <<pc, at, handles, ready, banned>>
      BY <3>2 DEF Typed, TypeOK
    <3> QED BY <3>1, <3>2 DEF RecordFailure
  <2>6. found' = found
    BY DEF RecordFailure
  <2> QED BY <2>2, <2>3, <2>4, <2>5, <2>6 DEF SeenBy
<1> QED BY <1>2, <1>3
-----------------------------------------------------------------------------
(***************************************************************************)
(* The acting request.                                                     *)
(***************************************************************************)
LEMMA BeginView ==
    ASSUME Typed, NEW q \in Requests, View(q), Begin(q)
    PROVE  View(q)'
<1>1. /\ pc[q] = "new"
      /\ pc'[q] = "score"
      /\ at'[q] = now
      /\ ready'[q] = {e \in Endpoints : Usable(e, now)}
      /\ banned'[q] = {e \in Endpoints : disabled[e]}
      /\ UNCHANGED <<now, cooldownUntil, disabled, next, found, handles, touched>>
  BY DEF Begin, Goto, state, Typed, TypeOK
<1>2. next[q] = 1 /\ found[q] = {} /\ handles[q] = <<>>
  BY <1>1 DEF Typed, Places, Place
<1>3. \A e \in Endpoints : ~(e < 1)
  BY FleetAssumption DEF Endpoints
<1>4. FirstLoop(q)'
  BY <1>1, <1>2, <1>3 DEF FirstLoop, Usable
<1>5. BannedKnown(q)' /\ BannedOut(q)'
  BY <1>1, <1>2 DEF BannedKnown, BannedOut
<1>6. SecondLoop(q)' /\ EmptyInNeed(q)' /\ OverruledInNeed(q)'
  BY <1>1, <1>2 DEF SecondLoop, EmptyInNeed, OverruledInNeed
<1> QED BY <1>4, <1>5, <1>6 DEF View

\* What a round of a loop finds is neither banned nor, of the untouched
\* endpoints in the first loop, other than ready.
LEMMA ScoredKnown ==
    ASSUME Typed, NEW q \in Requests, View(q), pc[q] \in Looping
    PROVE  /\ Scored(q) \cap banned[q] = {}
           /\ Scored(q) \subseteq Endpoints
           /\ pc[q] = "score" => Scored(q) \subseteq ready[q] \cup touched[q]
<1>1. next[q] \in Endpoints
  BY DEF Typed, Places, Place
<1>2. found[q] \subseteq Endpoints /\ found[q] \cap banned[q] = {}
  BY DEF Typed, TypeOK, View, BannedOut
<1>3. Usable(next[q], at[q]) => next[q] \notin banned[q]
  BY DEF View, BannedKnown, Usable
<1>4. pc[q] = "score" => /\ found[q] \subseteq ready[q] \cup touched[q]
                         /\ Usable(next[q], at[q]) =>
                              next[q] \in ready[q] \cup touched[q]
  BY <1>1 DEF View, FirstLoop
<1> QED BY <1>1, <1>2, <1>3, <1>4 DEF Scored

\* The handles, chosen from candidates.
LEMMA ChosenView ==
    ASSUME Typed, NEW q \in Requests, View(q), pc[q] \in Looping,
           NEW S \in SUBSET Endpoints, ChooseFrom(q, S),
           UNCHANGED <<disabled, banned, ready, touched>>,
           S \cap banned[q] = {},
           S = {} => Endpoints \subseteq banned[q] \cup touched[q],
           ready[q] \ touched[q] # {} => S \subseteq ready[q] \cup touched[q]
    PROVE  View(q)'
<1>1. PICK h \in Rankings(S) :
        /\ handles'[q] = h
        /\ pc'[q] = IF S = {} THEN "noRPC" ELSE "reserve"
  BY DEF ChooseFrom, Goto, Typed, TypeOK
<1>2. found'[q] = {}
  BY DEF ChooseFrom, Typed, TypeOK
<1>3. \A i \in DOMAIN h : h[i] \in S
  BY RankingType
<1>4. BannedKnown(q)' /\ FirstLoop(q)' /\ SecondLoop(q)'
  BY <1>1 DEF View, BannedKnown, FirstLoop, SecondLoop, Looping
<1>5. BannedOut(q)'
  BY <1>1, <1>2, <1>3 DEF BannedOut
<1>6. EmptyInNeed(q)'
  BY <1>1 DEF EmptyInNeed
<1>7. OverruledInNeed(q)'
  BY <1>1, <1>3 DEF OverruledInNeed
<1> QED BY <1>4, <1>5, <1>6, <1>7 DEF View

LEMMA ScoreView ==
    ASSUME Typed, NEW q \in Requests, View(q), Score(q)
    PROVE  View(q)'
<1>1. /\ pc[q] = "score"
      /\ UNCHANGED <<now, cooldownUntil, disabled, at, ready, banned, touched>>
  BY DEF Score, history
<1>2. /\ Scored(q) \cap banned[q] = {}
      /\ Scored(q) \subseteq Endpoints
      /\ Scored(q) \subseteq ready[q] \cup touched[q]
  BY <1>1, ScoredKnown DEF Looping
<1>3. /\ next[q] \in Endpoints /\ handles[q] = <<>>
      /\ N \in Nat /\ next[q] \in Int /\ next[q] <= N
  <2>1. next[q] \in Endpoints /\ handles[q] = <<>> /\ N \in Nat
    BY <1>1, FleetAssumption DEF Typed, Places, Place, Looping
  <2> QED BY <2>1 DEF Endpoints
<1>4. \A e \in ready[q] \ touched[q] : e < next[q] + 1 => e \in Scored(q)
  <2> SUFFICES ASSUME NEW e \in ready[q] \ touched[q], e < next[q] + 1
               PROVE  e \in Scored(q)
    OBVIOUS
  <2>1. e \in Endpoints /\ e \in Int
    BY FleetAssumption DEF Typed, TypeOK, Endpoints
  <2>2. CASE e = next[q]
    BY <1>1, <2>1, <2>2 DEF View, FirstLoop, Scored
  <2>3. CASE e < next[q]
    BY <1>1, <2>3 DEF View, FirstLoop, Scored
  <2> QED BY <1>3, <2>1, <2>2, <2>3
<1>5. CASE next[q] < N /\ NextEndpoint(q, "score")
  <2>1. /\ pc'[q] = "score" /\ next'[q] = next[q] + 1
        /\ found'[q] = Scored(q) /\ handles' = handles
    BY <1>5 DEF NextEndpoint, Goto, Typed, TypeOK
  <2>2. FirstLoop(q)'
    <3>1. \A e \in Endpoints : Usable(e, at[q])' <=> Usable(e, at[q])
      BY <1>1 DEF Usable
    <3> QED BY <1>1, <1>2, <1>4, <2>1, <3>1 DEF View, FirstLoop
  <2>3. BannedKnown(q)'
    BY <1>1, <2>1 DEF View, BannedKnown, Looping
  <2>4. BannedOut(q)'
    BY <1>1, <1>2, <2>1 DEF View, BannedOut
  <2>5. SecondLoop(q)' /\ EmptyInNeed(q)'
    BY <2>1 DEF SecondLoop, EmptyInNeed
  <2>6. OverruledInNeed(q)'
    BY <1>1, <2>1 DEF View, OverruledInNeed
  <2> QED BY <2>2, <2>3, <2>4, <2>5, <2>6 DEF View
<1>6. \/ next[q] < N
      \/ \A e \in ready[q] \ touched[q] : e \in Scored(q)
  <2>1. \A e \in ready[q] : e \in 1..N
    BY DEF Typed, TypeOK, Endpoints
  <2> QED BY <1>3, <1>4, <2>1
<1>7. CASE ~(next[q] < N) /\ Scored(q) = {} /\ Fallback(q)
  <2>1. /\ pc'[q] = "clear" /\ next'[q] = 1
        /\ found' = found /\ handles' = handles
    BY <1>7 DEF Fallback, Goto, Typed, TypeOK
  <2>2. ready[q] \subseteq touched[q]
    BY <1>6, <1>7
  <2>3. \A e \in Endpoints : ~(e < 1)
    BY <1>3 DEF Endpoints
  <2>4. SecondLoop(q)'
    BY <1>1, <2>1, <2>2, <2>3 DEF SecondLoop
  <2>5. BannedKnown(q)' /\ BannedOut(q)'
    BY <1>1, <2>1 DEF View, BannedKnown, BannedOut, Looping
  <2>6. FirstLoop(q)' /\ EmptyInNeed(q)'
    BY <2>1 DEF FirstLoop, EmptyInNeed
  <2>7. OverruledInNeed(q)'
    BY <1>1, <2>1 DEF View, OverruledInNeed
  <2> QED BY <2>4, <2>5, <2>6, <2>7 DEF View
<1>8. CASE Scored(q) # {} /\ ChooseFrom(q, Scored(q))
  BY <1>1, <1>2, <1>8, ChosenView DEF Looping
<1> QED BY <1>5, <1>7, <1>8 DEF Score

LEMMA ClearView ==
    ASSUME Typed, NEW q \in Requests, View(q), Clear(q)
    PROVE  View(q)'
<1>1. /\ pc[q] = "clear"
      /\ pc'[q] = "rescore"
      /\ UNCHANGED <<disabled, next, found, handles, ready, banned>>
      /\ cooldownUntil' = [cooldownUntil EXCEPT ![next[q]] = 0]
  BY DEF Clear, Goto, locals, Typed, TypeOK
<1>2. touched'[q] = touched[q]
  BY DEF Clear, Touch
<1>3. next[q] \in Endpoints
  BY <1>1 DEF Typed, Places, Place, Looping
<1>4. cooldownUntil'[next[q]] = 0
  BY <1>1, <1>3 DEF Typed, TypeOK
<1>5. SecondLoop(q)'
  BY <1>1, <1>2, <1>4 DEF View, SecondLoop
<1>6. BannedKnown(q)' /\ BannedOut(q)'
  BY <1>1, <1>2 DEF View, BannedKnown, BannedOut, Looping
<1>7. FirstLoop(q)' /\ EmptyInNeed(q)'
  BY <1>1 DEF FirstLoop, EmptyInNeed
<1>8. OverruledInNeed(q)'
  BY <1>1, <1>2 DEF View, OverruledInNeed
<1> QED BY <1>5, <1>6, <1>7, <1>8 DEF View

LEMMA RescoreView ==
    ASSUME Typed, NEW q \in Requests, View(q), Rescore(q)
    PROVE  View(q)'
<1>1. /\ pc[q] = "rescore"
      /\ UNCHANGED <<now, cooldownUntil, disabled, at, ready, banned, touched>>
  BY DEF Rescore, history
<1>2. Scored(q) \cap banned[q] = {} /\ Scored(q) \subseteq Endpoints
  BY <1>1, ScoredKnown DEF Looping
<1>3. /\ next[q] \in Endpoints /\ handles[q] = <<>>
      /\ N \in Nat /\ next[q] \in Int /\ next[q] <= N /\ at[q] \in Nat
  <2>1. /\ next[q] \in Endpoints /\ handles[q] = <<>> /\ N \in Nat
        /\ MaxTime \in Nat
    BY <1>1, FleetAssumption DEF Typed, Places, Place, Looping
  <2> QED BY <2>1 DEF Endpoints, Typed, TypeOK
<1>4. ready[q] \subseteq touched[q]
  BY <1>1 DEF View, SecondLoop
<1>5. \A e \in Endpoints :
        e < next[q] + 1 => e \in Scored(q) \cup banned[q] \cup touched[q]
  <2> SUFFICES ASSUME NEW e \in Endpoints, e < next[q] + 1,
                      e \notin banned[q], e \notin touched[q]
               PROVE  e \in Scored(q)
    OBVIOUS
  <2>1. e \in Int
    BY DEF Endpoints
  <2>2. CASE e = next[q]
    <3>1. cooldownUntil[e] = 0
      BY <1>1, <2>2 DEF View, SecondLoop
    <3>2. ~disabled[e]
      BY <1>1 DEF View, BannedKnown, Looping
    <3> QED BY <1>3, <2>2, <3>1, <3>2 DEF Scored, Usable
  <2>3. CASE e < next[q]
    BY <1>1, <2>3 DEF View, SecondLoop, Scored
  <2> QED BY <1>3, <2>1, <2>2, <2>3
<1>6. CASE next[q] < N /\ NextEndpoint(q, "clear")
  <2>1. /\ pc'[q] = "clear" /\ next'[q] = next[q] + 1
        /\ found'[q] = Scored(q) /\ handles' = handles
    BY <1>6 DEF NextEndpoint, Goto, Typed, TypeOK
  <2>2. SecondLoop(q)'
    BY <1>1, <1>4, <1>5, <2>1 DEF SecondLoop
  <2>3. BannedKnown(q)'
    BY <1>1, <2>1 DEF View, BannedKnown, Looping
  <2>4. BannedOut(q)'
    BY <1>1, <1>2, <2>1 DEF View, BannedOut
  <2>5. FirstLoop(q)' /\ EmptyInNeed(q)'
    BY <2>1 DEF FirstLoop, EmptyInNeed
  <2>6. OverruledInNeed(q)'
    BY <1>1, <2>1 DEF View, OverruledInNeed
  <2> QED BY <2>2, <2>3, <2>4, <2>5, <2>6 DEF View
<1>7. CASE ~(next[q] < N) /\ ChooseFrom(q, Scored(q))
  <2>1. \A e \in Endpoints : e < next[q] + 1
    BY <1>3, <1>7 DEF Endpoints
  <2>2. Scored(q) = {} => Endpoints \subseteq banned[q] \cup touched[q]
    BY <1>5, <2>1
  <2> QED BY <1>1, <1>2, <1>4, <1>7, <2>2, ChosenView DEF Looping
<1> QED BY <1>6, <1>7 DEF Rescore

\* A request that reserves or tries its handles keeps them to the end.
LEMMA ReserveView ==
    ASSUME Typed, NEW q \in Requests, View(q), Reserve(q)
    PROVE  View(q)'
<1>1. /\ pc[q] = "reserve" /\ pc'[q] \in {"reserve", "try"}
      /\ UNCHANGED <<disabled, found, handles, ready, banned>>
  BY DEF Reserve, Goto, Typed, TypeOK
<1>2. touched'[q] = touched[q]
  BY DEF Reserve, Touch
<1>3. BannedKnown(q)' /\ BannedOut(q)'
  BY <1>1 DEF View, BannedKnown, BannedOut, Looping
<1>4. FirstLoop(q)' /\ SecondLoop(q)' /\ EmptyInNeed(q)'
  BY <1>1 DEF FirstLoop, SecondLoop, EmptyInNeed
<1>5. OverruledInNeed(q)'
  BY <1>1, <1>2 DEF View, OverruledInNeed
<1> QED BY <1>3, <1>4, <1>5 DEF View

LEMMA EndView ==
    ASSUME Typed, NEW q \in Requests, View(q), NEW label \in {"sent", "failed"},
           End(q, label), UNCHANGED found
    PROVE  View(q)'
<1>1. /\ pc'[q] = label /\ handles'[q] = <<>>
      /\ ready'[q] = {} /\ banned'[q] = {}
  BY DEF End, Goto, Typed, TypeOK
<1>2. BannedKnown(q)' /\ BannedOut(q)'
  BY <1>1 DEF BannedKnown, BannedOut, Looping
<1>3. FirstLoop(q)' /\ SecondLoop(q)' /\ EmptyInNeed(q)' /\ OverruledInNeed(q)'
  BY <1>1 DEF FirstLoop, SecondLoop, EmptyInNeed, OverruledInNeed
<1> QED BY <1>2, <1>3 DEF View

LEMMA RecordFailureView ==
    ASSUME Typed, NEW q \in Requests, View(q), NEW kind \in Kinds,
           RecordFailure(q, kind), Disabling
    PROVE  View(q)'
<1>1. CASE End(q, "failed")
  BY <1>1, EndView DEF RecordFailure
<1>2. CASE /\ touched' = Touch(q, handles[q][next[q]])
           /\ UNCHANGED <<pc, at, handles, ready, banned>>
  <2>1. /\ pc[q] = "try"
        /\ UNCHANGED <<pc, found, handles, ready, banned>>
    BY <1>2 DEF RecordFailure
  <2>2. touched'[q] = touched[q]
    BY <1>2 DEF Touch
  <2>3. banned[q] \subseteq Endpoints
    BY DEF Typed, TypeOK
  <2>4. BannedKnown(q)' /\ BannedOut(q)'
    BY <2>1, <2>3 DEF View, BannedKnown, BannedOut, Looping, Disabling
  <2>5. FirstLoop(q)' /\ SecondLoop(q)' /\ EmptyInNeed(q)'
    BY <2>1 DEF FirstLoop, SecondLoop, EmptyInNeed
  <2>6. OverruledInNeed(q)'
    BY <2>1, <2>2 DEF View, OverruledInNeed
  <2> QED BY <2>4, <2>5, <2>6 DEF View
<1> QED BY <1>1, <1>2 DEF RecordFailure

LEMMA InitViews == Init => Views
  BY DEF Init, Views, View, BannedKnown, BannedOut, FirstLoop, SecondLoop,
         EmptyInNeed, OverruledInNeed, Looping

LEMMA NextViews == Typed /\ Views /\ [Next]_vars => Views'
<1> SUFFICES ASSUME Typed, Views, [Next]_vars, NEW r \in Requests
             PROVE  View(r)'
  BY DEF Views
<1>1. View(r)
  BY DEF Views
<1>2. CASE UNCHANGED vars \/ Tick
  <2>1. UNCHANGED <<cooldownUntil, disabled, pc, at, next, found, handles,
                    ready, banned, touched>>
    BY <1>2 DEF vars, Tick, state, locals, history
  <2>2. SeenBy(r) /\ Disabling
    BY <2>1 DEF SeenBy, Disabling
  <2> QED BY <1>1, <2>2, OtherView
<1>3. ASSUME NEW q \in Requests, SendCandidates(q) PROVE View(r)'
  <2>1. CASE r # q
    <3>1. SeenBy(r) /\ Disabling
      BY <1>3, <2>1, QuietlySeen, ClearSeen, ReserveSeen DEF SendCandidates
    <3> QED BY <1>1, <3>1, OtherView
  <2>2. CASE r = q
    BY <1>1, <1>3, <2>2, BeginView, ScoreView, ClearView, RescoreView,
       ReserveView DEF SendCandidates
  <2> QED BY <2>1, <2>2
<1>4. ASSUME NEW q \in Requests, RecordSuccess(q) PROVE View(r)'
  <2>1. CASE r # q
    BY <1>1, <1>4, <2>1, RecordSuccessSeen, OtherView
  <2>2. CASE r = q
    BY <1>1, <1>4, <2>2, EndView DEF RecordSuccess
  <2> QED BY <2>1, <2>2
<1>5. ASSUME NEW q \in Requests, NEW kind \in Kinds, RecordFailure(q, kind)
      PROVE  View(r)'
  <2>1. CASE r # q
    BY <1>1, <1>5, <2>1, RecordFailureSeen, OtherView
  <2>2. CASE r = q
    BY <1>1, <1>5, <2>2, RecordFailureSeen, RecordFailureView
  <2> QED BY <2>1, <2>2
<1> QED BY <1>2, <1>3, <1>4, <1>5 DEF Next

LEMMA AlwaysViews == Spec => []Views
  BY InitViews, NextViews, AlwaysTyped, PTL DEF Spec

-----------------------------------------------------------------------------
\* An endpoint that was out of capacity when sendCandidates began is not among
\* the handles it returns, although its second loop clears cooldowns.
THEOREM DisabledNeverHandedOut == Spec => []DisabledStaysOut
<1>1. Views => DisabledStaysOut
  BY DEF Views, View, BannedOut, DisabledStaysOut
<1> QED BY <1>1, AlwaysViews, PTL

\* sendCandidates hands out an endpoint that was cooling down throughout the
\* call only when none was usable throughout the call.
THEOREM CooldownsRespected == Spec => []CooldownRespected
<1>1. Views => CooldownRespected
  BY DEF Views, View, OverruledInNeed, CooldownRespected
<1> QED BY <1>1, AlwaysViews, PTL

\* sendCandidates comes back empty-handed only when every endpoint was disabled
\* or changed by another request during the call: the second loop visits every
\* endpoint, and a cooldown alone keeps none of them out.
THEOREM EmptyHandedInNeed == Spec => []NeverEmptyHanded
<1>1. Views => NeverEmptyHanded
  BY DEF Views, View, EmptyInNeed, NeverEmptyHanded
<1> QED BY <1>1, AlwaysViews, PTL
=============================================================================
