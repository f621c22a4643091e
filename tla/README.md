# Verification of the transaction signer

TLA+ models of the signer in `src/` (Go): a service that holds the key of a hot
wallet, receives signed HTTP requests for transfers, contract calls and vault
settlements, signs and broadcasts transactions to BSC/EVM nodes, and keeps
idempotency, nonces, a ledger and custody incidents in Postgres (or in memory).

## 1. Inventory

| Component | State | Operations | Interaction |
| --- | --- | --- | --- |
| Signing handlers (`main.go` 215-468) | locals of one goroutine per request, `r.Context()` | lockdown check, `AcceptNonce`, `ClaimResult`, execute, `ReleaseClaim` or `SaveResult`, reply | all share the store; a disconnect of the client cancels every later call |
| EVM execution (`main.go` 547-1022) | `lastErr`, `chainPending`, `nonce` of an attempt | policy, candidates one after the other: dial, chain id, pending nonce, `ReserveChainNonce`, gas price, encode, sign, send, mark, record | nodes, store, RPC fleet |
| Store (`store.go`) | `signer_idempotency`, `signer_idempotency_locks`, `signer_chain_nonces`, `signer_transactions`, `custody_incidents`, `signer_nonces`, `custody_events` | one method per row of the interface `signerStore`, in a Postgres and a memory version | shared by all instances (Postgres) or private to a process (memory) |
| Lifecycle monitor (`main.go` 1091-1135) | the batch of open transactions of a tick | list, look for a receipt, write the status | reads and writes the ledger that handlers write |
| Treasury (`main.go` 1024-1072) | none, reads the ledger | daily outflow against two limits | check before, ledger row after the broadcast |
| Custody guard (`custody_guard.go`) | atomic flag, trusted bytecode hashes | `Start`, `scanOnce`, `Lock`, `Unlock` | its goroutine, the unlock handler and every signing handler share the flag; all instances share the incident |
| Request gate (`internal/security`, `AcceptNonce`) | the nonces of the middleware (memory or Redis), `signer_nonces`, rate buckets or windows, the settings of `config.go` | signature and clock skew, `Exists`, `Store` and the deleting goroutine, `AllowWithLimit`, required credentials, `AcceptNonce` | in front of every handler; tables shared or private to a process |
| RPC fleet (`rpc_fleet.go`) | per endpoint, under its own mutex: failures, cooldown, reservations, disabled | `sendCandidates` (score, clear and rescore, `reserve`), `recordSuccess`, `recordFailure`, `prune`, `decay` | shared by the requests of a process |
| Amounts (`parseUnits`, ABI) | none | decimal text to raw units | after the reservation of the nonce |

What is hard here: two instances and overlapping retries of a key; statements
that are separate where the intention is one (`ClaimResult`, `Lock`, `Unlock`,
treasury check and ledger row); a broadcast whose outcome is unknown; a context
that is cancelled half-way so that all the cleaning up fails; ignored errors;
background loops whose calls have no timeout; text that one part trims and
another does not; a crash between the broadcast and the saved answer; nodes that lag behind.
`PROJECT.json` lists each hazard at its line.

What makes the parts correct: a key is executed by one handler at a time and
sent once; a nonce is signed for once; answers and ledger agree with the chain;
every request ends and frees its key; what was sent is counted against the daily
limit; a detected risk locks, stays locked for the cooldown and lets no new request sign; a signed message is admitted once and
in its time; a request finds an endpoint unless all are disabled.

## 2. Modules

- **SignerStore** - the tables and one operator per store method. `StoreKind`
  selects the Postgres or the memory version where they differ: `SaveResult`
  (insert-if-absent or overwrite), the nonce rows (a `failed` row keeps its
  primary key in Postgres, the memory store only remembers the last nonce),
  `CreateSignerTransaction`, the order of the monitor's batch, the day filter of
  the outflow. The ledger keeps the token as it was spelled and the amount as
  text: `reads` of a row says whether `ParseFloat` reads it, and
  `DailySubmittedOutflow` skips the others. `Perform` says what a failed or unacknowledged statement does.
- **SigningPipeline** (extends SignerStore) - the handlers, one action per
  statement or call of a node, with a program counter per request; the monitor;
  the wallet's mempool and chain (`slots`, `base`, `reverted`: external);
  `Disconnect`, `Crash`, `Midnight`. The three routes share the actions and
  differ in `KeyOf`, the `...Permitted`, `...Encodes` and `...Item` operators.
  A request is described by `Req`: route, key, network, token (a spelling, of
  which `ContractOf` gives the contract), amount, whether there are `blank`s
  around it, and a `shape` that names what is wrong with the rest, if anything.
  The policies are translated check by check: `NetworkAllowed`, `TokenAllowed`
  (any spelling of an allowed contract), `AmountAllowed` (not for a settlement),
  and the shapes each of the three refuses. A call of the monitor may never
  return (`MonitorHangs`, `Hung`): it runs on `context.Background()`.
- **MCSigningPipeline** - the requests of the TLC runs.
- **SigningPipelineProofs** - theorems about SigningPipeline.
- **IdempotencyProofs** (extends SigningPipelineProofs and PipelineRefinement) -
  what a client may rely on for a key, and the refinement.
- **LedgerProofs** (extends IdempotencyProofs) - answers and ledger against the
  chain; locks, answers and nonce rows when nothing fails.
- **TreasuryProofs** (extends LedgerProofs) - sums over finite sets, the outflow
  and the daily limit.
- **CustodyGuard** - the goroutine of `Start`, `Lock` in its steps (event, flag,
  incident), the calls of `/custody/unlock` in theirs (read and cooldown,
  resolve, clear), transactions that move through pending and latest block,
  bytecode that changes, crashes. A call of the guard's loop may never return
  (`GuardHangs`), as it has no timeout.
- **GuardedHandlers** (extends CustodyGuard) - the guard composed with the
  handlers: a request reads the flag once, when it arrives (`Begin`), and runs to
  its end (`Finish`) whatever the guard finds meanwhile; a process serves
  requests before its guard has read the incident. `running` stands for the
  requests of an instance; `inherited` remembers that a process was started
  under an incident.
- **CustodyGuardProofs**, **GuardedHandlersProofs**, **MCCustodyGuard** - as above.
- **IdempotentSigner** - the abstract specification: what a client is promised
  about a key, with two variables (what was sent for a key, what each request
  was told) and no lock, nonce, node or crash.
- **PipelineRefinement** (extends SigningPipeline) - the refinement mapping. A key
  is sent at the step `Send` at which a node acknowledges its transaction,
  which is well before the answer is saved.
- **RequestGate** - the deliveries of messages through the middleware and
  `AcceptNonce`, one step per call of a nonce table, on instances whose clocks
  differ; all the configurations in `Configs`. **MCRequestGate** is its instance,
  **RequestGateProofs** has its theorems.
- **RpcFleet** - `sendCandidates` in rounds, one endpoint and one critical
  section at a time, then the tries of the two handles. `touched` of a request
  remembers the endpoints that other requests have changed since it began,
  a cooldown that their `recordSuccess` clears included. **MCRpcFleet** is its
  instance, **RpcFleetProofs** has its theorems.

Names follow the source. `unknown` as the outcome of a call means that it took
effect and its acknowledgement was lost. A transaction is its payload and its
nonce, which is what its hash is injective on. Definitions commented `Mutant:`
are deliberate bugs, each of which makes the property it is paired with in
`PROJECT.json` fail.

Abstractions of the pipeline: one hot wallet; the request gate and the lockdown
are one refusing step before the claim (`RefuseEarly`; RequestGate and
GuardedHandlers have them in full); what `sendCandidates` returns is a number of
handles (`Candidates`, at most 2 in the code; a fleet with no usable handle ends
a request as a refused one ends); `custody_events` is not read by anything and
is left out; `SignTx` errors are the "unknown" outcome of `Build`; the clock of
the database and of the instances is one. Without `Overlap` a key is sent again
only when the handlers of its earlier tries have ended, which is more than a
client can see: one that takes a broken connection for the end of its request
may overlap its own retry, and is then in the case of `claim_race`.

Abstractions of the gate: a message is what of it the checks look at, and its
body is not told apart; `Replays` compares the signed part of two deliveries (not
the API key, nor the client they come from); an HMAC is the secret it was made with; an address is
a client of the rate limiter; the store in memory and Redis differ as in the
code (`Store` of the first refuses an expired entry that is still there, Redis
has dropped it). Time is in half seconds, so that the whole seconds of
`x-ts` and the exact times of the tables can differ; the tokens of a bucket are
counted in units that make a refill a whole number. `MaxDelay` (from the check
of the timestamp to `AcceptNonce`) and `MaxDrift` (between clocks) are
assumptions on the deployment: the code bounds neither.

Abstractions of the fleet: the score (latency, failures, load, recency) orders
the usable endpoints, and the order is left open: `Rankings` allows any two in
any order. A call of `sendCandidates` takes less than `FailureDecay` (20 s). The
kinds of failure are what `classifyRPCFailure` makes of the text of an error.

Not modelled: see section 6.

## 3. Runs

| Run | Instance | Shows |
| --- | --- | --- |
| `postgres` | 2 instances, a transfer and its overlapping retry, 2 candidates, nodes one nonce behind, 2 faults, 1 disconnect, 1 crash; 1.4 million states | TypeOK, ClaimExclusive, NonceUnique, NoSilentGap, AnswerOnChain, LedgerTruth, FinalStatusStays, StoredAnswerStays |
| `memory` | memory store, nodes one nonce behind, midnight; a settlement keyed by its operation id, its retry with another spelling of the token and a blank after the amount, a transfer without key for the other network of the chain, 2 faults; 760 thousand states | NonceUnique, OutflowCounted, SingleSend, SameAnswer |
| `retries` | fairness; Postgres, a transfer, its retry after the first try has ended, a contract call without key, treasury limits, a batch of one row, 1 fault (a hung monitor included), 1 crash; 380 thousand states | SameAnswer, SentAtMostOnce (the refinement of IdempotentSigner), EveryRequestEnds, LockFreed, ExecutionReported |
| `guard` | fairness; one instance and its handlers, one operator, a harmless and a forbidden transaction, 1 fault (a hung guard included), 1 crash, bytecode that changes | GuardedTypeOK, FailClosed, NoneBeginsAfterAlarm, OnlyBeforeBoot, ThreatLocks |
| `gate` | a signed message delivered to 2 instances with different clocks, once without an API key, an unsigned one with the same nonce, 3 configurations, 1 fault, 1 crash; 1.9 million states | TypeOK, AdmittedOnce, AdmittedAuthentic, RateBound |
| `rpc_fleet` | 2 endpoints, 3 requests, 2 of them at a time, rate limits and exhausted capacity | TypeOK, NeverEmptyHanded, DisabledStaysOut, CooldownRespected, CooldownBounded |
| `claim_race` | three overlapping tries, no fault | SingleSend is violated |
| `treasury_race` | two orders of one unit, limit one unit, no fault | OutflowWithinLimit is violated |
| `lost_answer` | one lost acknowledgement | ErrorMeansNotSent is violated |
| `nonce_wedge` | one failed broadcast | ReservationPossible is violated |
| `guard_unlock_race` | one instance, one operator, no fault | IncidentLocks is violated |
| `cooldown_overlap` | one instance, two operators, no fault | IncidentCooldown is violated |

The violations are disagreements between the code and what its README or tests
say; `findings` in `PROJECT.json` quotes both sides:

1. **Double send.** `ClaimResult` looks up the result and inserts the lock in
   two statements. A retry that looked before `SaveResult` and inserts after it
   claims a finished key and sends again. The memory store does both under its
   mutex and has no such behaviour (`memory`), and over Postgres only
   overlapping tries can do it (`retries`, and PipelineKeepsPromise below).
2. **Daily limit.** The outflow is read before and written after the broadcast.
3. **A 502 that was sent.** After an unknown outcome of `SendTransaction` the
   row is `failed`, the key is freed, and the chain executes the transaction.
   This is why SingleSend counts acknowledged broadcasts only.
4. **Wedged wallet.** A `failed` nonce row is skipped by `max(nonce)` and still
   violates the primary key when that nonce comes up again.
5. **Unlocked under an incident.** `Lock` and `Unlock` interleave so that the
   flag is clear while the incident is active.
6. **Cooldown of nobody's incident.** Two unlocks find one old incident; the first
   resolves it, a new detection opens another, and the second resolves that one
   at once: `ResolveCustodyIncident` resolves whatever is active.

*Bounds.* Every interesting case needs few actors: two requests of a key for a
race, a third to come after both; two candidates are the most the code tries;
two faults allow a failed step and a failed clean-up; one disconnect makes all
later calls of a request fail. MaxNonce leaves room for every attempt that can
reserve in the run. MaxLag 1 makes a node older than one reservation. `OpenLimit`
is 50 in the code: 2 where open rows stay within it, 1 in `retries`, so that a
transaction behind a gap of nonces fills the batch. `retries` has two tries of a
key and no disconnect; `SameAnswerHolds` and `PipelineKeepsPromise` are proved
for any number of tries, disconnects and instances. The requests of the runs
have the shape "ok": refusals come from the treasury and from faults, which take
the same branches, and the theorems hold for every shape. The cooldown of 2 with a
clock to 2 allows an unlock too early and in time, in the latter case with a
second incident afterwards. StoreSurvives restricts the store's promises to
Postgres or to a process that has not crashed: a memory store promises nothing
beyond.
In the gate a skew of one second and a TTL of four are the smallest that put an
acceptance before, at and after the timestamp, and a nonce that expires while
the clock still runs (`MaxTime` 9 half seconds), so that the deleting goroutine
runs; each of the two tables is shared in one configuration and private in
another. In the fleet two endpoints are the smallest set in which one is usable
and the other is not; two reservations fill the burst window, one failure
reaches the doubled cooldown and capacity exhausts at any try. Two requests are
under way at a time and a third comes after one of them.

*What the properties leave out.* OutflowCounted speaks of the memory store, or of
a run without faults, as a row that could not be written is not counted. It
speaks of one spelling of a token at a time, and not of amounts sent with blanks
around them: the code does not count these (the policy and `parseUnits` trim the
amount, the ledger stores it untrimmed, and the sum skips what `ParseFloat`
rejects), and TLC refutes OutflowCounted in the `memory` run as soon as they are
included. ExecutionReported has the two exceptions that it names, a monitor that
hangs and a batch that older transactions fill (TLC refutes it in `retries` when
either is dropped); ThreatLocks has two as well, a
guard that hangs and one that has ended because the bytecode could not be
loaded. NoneBeginsAfterAlarm is about requests that begin: one that was admitted
before the alarm goes on to sign, which the code does not prevent.
AdmittedOnce assumes `Covers`: the TTL is at least twice the skew, plus the rest
of a second, the delay and the drift. The defaults of `config.go` (300 s for the
skew and for the TTL) do not satisfy it, although README.md:244 of the repository
promises that a nonce cannot be reused; TLC refutes AdmittedOnce without `Covers`: a message whose timestamp is ahead of the clock is still valid when
its nonce is forgotten. OnlyBeforeBoot leaves out a process whose guard failed to
read the incident, which the code lets go on unlocked. NeverEmptyHanded and
CooldownRespected say what a call guarantees for the endpoints that no other
request changed while it was running; a request can end without an endpoint when
another one cools it down between the clearing and the scoring. NonceUnique
is per network: in the `memory` run a BSC and an EVM request on one chain do sign
for the same nonce, and a node takes one of the two. AnswerOnChain and LedgerTruth
are therefore checked, and proved, for a chain that goes by one network name.

*Deadlock* is checked in `claim_race` and `treasury_race`, which have no faults, so
that the monitor always has a step. In the other pipeline runs a monitor that
hangs may be the last that could move. In the guard's a locked guard whose
operator waits for a cooldown beyond the bounded clock has nothing to do. Those
of the gate and the fleet end when every delivery or request has ended and the
bounded clock has run out.

*Fairness.* WF of a handler's steps (a goroutine that can run does, and its calls
end with `r.Context()` at the latest), of the monitor and of the guard (a ticker
each), and of the chain's execution of the next transaction it holds. Monitor and
guard call nodes and database on `context.Background()` without a timeout, so
that a call may never return. This is a fault (`MonitorHangs`, `GuardHangs`), which
fairness does not ask for, and after which they have no step and fairness asks
nothing of them. No fairness for clients, for the end of a request in GuardedHandlers, for operators,
faults, crashes or midnight.

## 4. Proofs

For every value of the constants (any number of requests, instances, keys,
networks, nonces, endpoints, clients, configurations; either store), from the
named assumptions `StoreAssumption`, `NoTxAssumption`, `PipelineAssumption`,
`GuardAssumption`, `GateAssumption` and `FleetAssumption`, which say only what the
constants are. Every inductive invariant was checked by TLC before it was proved.

*Pipeline: locks and nonces (SigningPipelineProofs).*

- `TypeCorrect`: TypeOK, one lemma per group of actions.
- `ClaimExclusion`: ClaimExclusive is inductive as it stands. Claiming needs a
  free lock, so no executing handler has the key; freeing a lock ends the only
  handler that executes it; a crash ends handlers and, for the memory store,
  the locks with them.
- `NonceUniqueness`: NonceUnique is not inductive: nothing in it says that a
  nonce about to be signed for is new. `NonceInv` adds that every signature and
  every attempt between reservation and bookkeeping has a row in the nonce
  table, that two such attempts of a network have different nonces, and that an
  attempt that has not signed yet has a nonce no signature uses. `FreshNonce`
  shows that a reservation finds no row: in Postgres by the primary key, in
  memory because every row counts for the maximum.
- `GapsAccounted`: NoSilentGap from `NonceInv` and `GapInv`: below a row every
  nonce has a row or is filled by the mempool or the chain, and everything below
  the pending nonce a node reported is filled. Reserving at the reported nonce
  needs the second part, reserving past the largest active row the first.

*Pipeline: idempotency (IdempotencyProofs).* `NoRace` names the two cases in which
a lookup and the claim after it cannot be separated by another try: the memory
store, which does both under its mutex, and clients that do not overlap their
tries. `claim_race` shows that the code needs it. `Durable` leaves out a
memory store that crashes and forgets.

- `SameAnswerHolds`, `SingleSendHolds`: under NoRace, from `IdempotencyInv`. A
  handler at work on a key finds no stored answer as long as it works
  (`Unanswered`), so a memory SaveResult overwrites nothing. Once a node has
  acknowledged a transaction of a key, the only handler that executes the key is
  the one that sent it, on its way to save, and until the answer is stored the
  lock row keeps the others out (`Settled`): a save that fails, or a crash on the
  way to it, leaves the lock for good, which is what makes SingleSend survive it.
- `StoredAnswersStay`: StoredAnswerStays, an action property. Postgres inserts only
  where nothing is; the memory store overwrites, and needs `Unanswered`. No
  hypothesis beyond the property's own: over Postgres it holds with overlap too.
- `PipelineKeepsPromise`: the refinement SentAtMostOnce, under NoRace and Durable.
  `StepShape` first reduces every step of Next to one of a dozen shapes (a refusal,
  a replay, a claim, a broadcast, ...); each is a step of IdempotentSigner or a
  stutter of `sent` and `answer`.

*Pipeline: answers and ledger (LedgerProofs).* The nonce table is kept per network
name and the wallet's nonces per chain. `OneNetwork` says that what is sent to
the chain goes by one name; without it two series of reservations meet on one
chain, transactions replace each other, and TLC refutes AnswerOnChain and
LedgerTruth for the requests of the `memory` run.

- `AnswersOnChain`: AnswerOnChain from `ChainInv`: a transaction on its way to a
  node has a nonce for which nothing was broadcast, so nothing is ever replaced.
- `LedgerIsTrue`: LedgerTruth from `LedgerInv`: the nonce of a row is reserved and
  belongs to no attempt at work, so CreateSignerTransaction always inserts; the
  hashes in a monitor's batch, stale as they may be, are of rows that did not fail.
- `FinalStatusKept`: FinalStatusStays, from the same invariant: two monitors that
  write a row write the status of the same receipt.
- `SpendingIsCounted`: the spent broadcasts of OutflowCounted map one to one to
  rows that DailySubmittedOutflow adds up, none with less than its amount; these
  are the broadcasts of one spelling of a token with no blanks around the amount
  (`SpendingInv`: an acknowledged broadcast is on its way to the ledger or has its
  row; a nonce is broadcast once).

*Pipeline: the outflow (TreasuryProofs).* A sum over a set is defined by recursion
over its subsets, and the induction theorems of the library cannot be
instantiated here. The proofs take the set of the subsets for which a statement
fails, and a smallest member of it (`SmallestSubset`, by the cardinality and the
well-ordering of Nat). `Adds` says that a function adds up another over all the
subsets of a set; `AddsAny` that the order of the elements does not matter;
`AddsMore` that under a one-to-one map to summands that are no smaller the sum
does not shrink.

- `OutflowIsCounted`: OutflowCounted, from SpendingIsCounted and `AddsMore`. It
  needs OneNetwork: TLC refutes OutflowCounted for a transfer that is equal to
  another one but for the network name of the same chain. Both get the same
  nonce, so the same hash; the node refuses the second as known, and its
  `failed` row takes the place of the `submitted` one. In the `memory` run the
  payloads differ.
- `SerialOutflowWithinLimit`: what `treasury_race` refutes, a limit on what is sent
  and not on what the ledger says of it, does hold when requests for one token
  and network execute one at a time, none is a settlement (which asks no treasury
  and scales its amount), a contract is always spelled alike, no amount has blanks
  around it, and nothing fails, disconnects or crashes. Each of these is needed:
  without it something is sent that the sum does not count, or is counted too
  late. `TreasuryInv`: the ledger's sum stays within the limit (through failures,
  too), and what Validate saw fits until the row is written, as only the
  handler's own row comes between, a monitor and midnight only take rows out of
  the sum, and a retry after a failed broadcast has left a `failed` row, which is
  not counted. Without failures everything a node took is acknowledged and no
  handler is lost (`NoneLost`), so all that is sent is in the ledger's sum, by
  OutflowCounted, but for the one transaction on its way to it, for which Validate
  saw room.

*Pipeline: the reverse of the violations (LedgerProofs).* What makes the refuted
properties fail is all that does:

- `ErrorsAreHonest`: a request that answered 502 has no acknowledged broadcast, ever;
  and without a fault it has none at all, which is ErrorMeansNotSent.
- `ReservationsPossible`: with one network name and as long as no call fails and no
  client disconnects, ReservationPossible holds, though crashes leave reserved
  rows. `WedgeInv`: what the chain has executed is in its slots, no row is
  `failed`, and no handler is on its way to write one. That needs `ChainInv`:
  a nonce about to be sent is free on the chain, so a node that answers takes it.
- `LocksAreOwned`: without fault, disconnect or crash every lock row belongs to a
  handler that is executing its key: the safety half of LockFreed.

*Custody guard (CustodyGuardProofs, GuardedHandlersProofs).*

- `GuardTypeCorrect`, `RiskLocks`: FailClosed is inductive with the types.
- `CooldownHeld`: what `cooldown_overlap` refutes does hold, for any number of
  operators whose calls overlap, as long as no incident is opened while a call is
  between its check and its resolving statement (`OpenedApart`). `CooldownInv`:
  what a call is about to resolve is old enough, or gone.
- `IncidentLocksAlone`: what `guard_unlock_race` refutes does hold for one instance
  without faults when no unlock call is under way while the guard is inside
  `Lock`: the two interleaving are all that leaves the flag clear under an incident.
- `GuardRefined`: GuardedSpec implies the specification of the guard alone, so
  that its theorems hold in the composition. `GuardedTypeCorrect` follows.
- `NoSigningAfterAlarm`: NoneBeginsAfterAlarm from FailClosed; only `Begin` sets
  `running`, and it needs the flag clear.
- `IncidentOutlivesRestart`: OnlyBeforeBoot from `IncidentHeld`: while an instance
  has inherited an incident, the incident is active, the instance is locked once
  its guard has read it, and no unlock call is about to clear its flag. The last
  part is needed because `Unlock` clears the flag in a step of its own: a call
  comes to that step only by resolving the incident, which ends the inheritance
  of every instance first, and a call of an earlier process has ended with it.

*RPC fleet (RpcFleetProofs).* `Typed` adds to TypeOK where the cursors of a call
may be (`Places`). `Views` says what the part of a call that is done has
established: the first loop has found the usable endpoints it has passed, and
nothing else that is untouched; the second runs only when no untouched endpoint
was usable, passes over none that is neither banned nor touched, and the cooldown
it has cleared stays cleared; what is found was not disabled when the call began.

- `FleetTypes`: TypeOK; the failure counters never pass below zero.
- `CooldownsBounded`: CooldownBounded; the doubling is capped, a cooldown is set
  from the present, and time does not run back.
- `DisabledNeverHandedOut`, `CooldownsRespected`, `EmptyHandedInNeed`:
  DisabledStaysOut, CooldownRespected and NeverEmptyHanded from `Views`. The
  proof of the second found an omission of the model: a cooldown that another
  request's `recordSuccess` clears was not recorded in `touched`.

*Request gate (RequestGateProofs).* `Typed` adds the course of a delivery (what was
checked before each step, and that `MaxDelay` bounds the time since) and that
the clock of a meter is not ahead.

- `GateTypes`, `AdmittedAreAuthentic`: TypeOK and AdmittedAuthentic from `Typed`.
- `AdmittedOnlyOnce`: AdmittedOnce, of two deliveries with one signed part
  (`Replays`), from `OnceInv`. `Deadline(d)` is the last instant,
  on any clock, at which a delivery of the message of `d` can ask for its nonce.
  The row (or Redis key) that an accepted delivery leaves does not expire before
  it, which is exactly what `Covers` gives; rows are replaced only when expired;
  so a second delivery finds the row, or is past the deadline and not in flight.
- `RateIsBounded`: RateBound from `RateInv`. Sliding window: a passage that the
  window has forgotten is a window old. Token bucket: what the requests since any
  instant `s` have paid, plus the tokens left, is at most the capacity plus the
  refill since `s` (`BucketTrue`); with less than a window since `s` that is less
  than twice the limit.

Only model-checked: the liveness properties (EveryRequestEnds, LockFreed,
ExecutionReported, ThreatLocks). Liveness under fairness and ENABLED
are out of the prover's reach. The properties of the violation runs are false
as they stand; the theorems named above say under which conditions they hold.

## 5. Status and plan

Done: store, pipeline, monitor, guard, guard with handlers, gate, fleet, the
abstract idempotency specification and its refinement; a theorem for every
safety property of the passing runs, and for every property of the violation
runs a theorem with the condition that the code lacks. Left:

1. The safety half of EveryRequestEnds: that a handler that has not ended always
   has a step whose guards it satisfies (ENABLED keeps the property itself out of
   reach).
2. Where OneNetwork can be weakened to transactions that differ between the
   networks of one chain.

## 6. Not modelled

- The digits of amounts (`parseUnits`), ABI encodings and hashes: strings and big
  integers without state; a request says whether its amount encodes. The amounts
  `NaN` and `Inf`, which `ParseFloat` reads.
- The overflow of the difference of timestamps at the ends of int64
  (`hmac.go` 72-76): `ts` is a natural number. The bodies of messages.
- The parsing of the environment in `config.go`; its values are constants of the
  models, and of the gate's `Configs`.
- Health and readiness handlers, which only read; logging, metrics, build and
  deployment.
- `Cleanup`, `Reset`, `Metrics` and `RotateSecret` of `internal/security`, which
  nothing calls.
- The simulation mode, eviction of transactions from mempools, reorganisations,
  and the order of several authorizations within a transaction.
