# Verification of the rider-driver matching marketplace

TLA+ modules, TLC configurations and TLAPS proofs for the dispatch system of this
repository: ride requests, matchers, the MySQL tables that decide every race and the
connections to them, the Redis queue of hints, the index of drivers, the reaper, and the
pricing client with its circuit breaker.

Tools: `tlc -config matching.cfg MCDispatch.tla` checks one configuration, `tlapm
DispatchProofs.tla` one proof module. Every definition of a module that models code is
listed with its source lines in `PROJECT.json`, section `map`.

## 1. The system

| part | code | state it keeps | operations |
|---|---|---|---|
| Trip state machine | `dispatch/domain.py` | none | `can_transition`, `assign`, `advance` |
| Trip store | `dispatch/store.py`, `schema.sql` | tables `trips`, `driver_claims` | `create_trip`, `get`, `get_by_idempotency_key`, `claim_driver`, `release_driver`, `save_match`, `advance`, `stale_matched_trips` |
| Connection pool | `store.py`, `ConnectionPool` | a `LifoQueue` of idle connections, each with its transaction | `acquire` |
| Pending queue | `dispatch/queue.py` | a Redis list of trip ids | `push`, `pop`, `depth` |
| Ride API | `dispatch/api.py` | none between requests | `POST /rides`, `GET /rides/{id}`, probes |
| Matcher | `dispatch/matcher.py`, `run_matcher.py` | locals of `match_once`, a stop flag | `run_forever`, `match_once`, SIGTERM |
| Reaper | `dispatch/reaper.py` | locals of a sweep | `sweep_stranded_trips`, `sweep_orphaned_claims` |
| Geo index | `dispatch/geo.py` | Redis cell sets and driver hashes | `heartbeat`, `go_offline`, `nearby` |
| Pricing client | `dispatch/pricing_client.py` | the breaker's three fields | `quote`, `allow`, `on_success`, `on_failure`, `_fallback` |
| Pricing service | `pricing/server.py` | none (reads `surge:<cell>`) | `Quote` |
| Metrics | `dispatch/metrics.py` | counters, gauges | |
| Chaos drill, verifier | `chaos/` | none | kill a matcher, query four invariants |
| Load generator | `loadgen/run.py` | none of the system's | |
| Deployment | `k8s/`, `prometheus/`, compose | configuration | |

How they interact. A request handler INSERTs a trip and then pushes its id on the queue.
A matcher pops an id (at most once: the pop is the delivery), reads the row, asks the geo
index for nearby drivers, INSERTs a claim for one of them, prices the ride over gRPC while
it holds the claim, and UPDATEs the row under an optimistic version. Nothing but MySQL is
trusted after a crash; the queue is a hint. The reaper compares the tables with what should
be true: old REQUESTED rows go back on the queue, old claims without a live trip are
released. Whoever reports pickups and completions calls `TripStore.advance`, which deletes
the driver's claim in the transaction that ends the trip (no process of the repository
calls it).

What is hard. Several matchers and handlers interleave between any two statements; a row
read early is written late; a process is SIGKILLed between two commits; a commit succeeds
and its acknowledgement is lost; the list vanishes; the reaper delivers an id that is
already being worked on; exceptions are handled on four paths that each must or must not
give the driver back. `PROJECT.json`, section `hazards`, lists each of these at its line
with the property that watches it.

What makes each part correct:
- store: no driver on two live trips; a live trip's claim outlives every release; one row
  per idempotency key; rows move along the table whatever copies their writers hold;
- matcher: it owns what it believes it holds; every path gives the driver back; a failure
  loses neither the rider nor the driver for good;
- API: one trip per key over retries and deaths; a hint never precedes its row;
- reaper: every lost hint comes back, every orphaned claim is released, and a claim that
  matters is not, short of a match that outlasts the age the sweep goes by;
- breaker: bounded calls while pricing is down, one probe, and it heals without help;
- fares: an outage never costs the rider more; surge is bounded;
- pool: connections are neither lost nor shared, rest without a transaction, and calls wait
  in no circle that InnoDB cannot see; what is committed is one whole operation of the
  store;
- geo index: whoever reports can be found where he is, `nearby` skips no nearer ring, and
  a driver who is gone fades from the answers.

## 2. Modules

| module | models | notes |
|---|---|---|
| `TripLifecycle` | `domain.py` | states and transition table |
| `TripStore` | `store.py`, `schema.sql` | the two tables by column; one committed transaction is one action |
| `PendingQueue` | `queue.py` | RPUSH/BLPOP |
| `Failures` | | one counter per kind of failure, and the budget of each |
| `Matcher` | `matcher.py`, `run_matcher.py` | extends the three above |
| `RideApi` | `api.py` | `POST /rides` as three steps per handler |
| `Reaper` | `reaper.py` | both sweeps, pushing and releasing one at a time |
| `Dispatch` | everything above together | adds callers of `advance` and the loss of the queue, frames the variables, states fairness |
| `DispatchProperties` | | what must hold |
| `Marketplace` | the promise | abstract: trips and drivers only, no claims, versions, queue or processes |
| `MCDispatch` | | small instances for TLC |
| `DispatchTypes`, `DispatchProofs`, `RowProofs`, `ApiProofs` | | proofs about `Dispatch`: types; who owns which driver; rows and the refinement of `Marketplace`; keys and hints |
| `CircuitBreaker` | `pricing_client.py` | `quote` by several threads while pricing comes and goes |
| `CircuitBreakerProofs` | | proofs about it |
| `Fares` | `pricing/server.py`, `_fallback` | both ways to price one ride, without variables |
| `Pricing`, `MCPricing`, `FaresProofs` | `PricingClient.quote` | the breaker and the fares it leads to |
| `GeoCells` | `geo.py` | the grid, shared by the next two |
| `DriverBoard` | the promise of `geo.py`; `InMemoryGeoIndex` | abstract: where each driver last reported to be, and what an answer that takes time may say |
| `GeoIndex` | `GeoIndex` on Redis, the two driver routes of `api.py`, `driver_loop` of `loadgen/run.py` | sets and hashes; reads and pipelines as separate steps |
| `MCGeoIndex`, `GeoProofs` | | instances; proofs, the refinement of `DriverBoard` among them |
| `Sessions`, `MCSessions` | `ConnectionPool` and every method of `TripStore` | extends `TripStore`, whose variables are what is committed |
| `SessionsProofs` | | proofs about it |

How state corresponds to code. `state`, `driver`, `version`, `idemKey` are columns of
`trips`; `driver` stands for `driver_id` and `fare_cents`, which one UPDATE always writes
together. `claims` holds the rows of `driver_claims`. Trip ids are numbers in the order of
`created_ms`, the only thing the code ever uses of them. `mpc`, `job`, `seen`, `cands` are
a matcher's program counter and locals: the trip, the version it read, the candidates left.
`mpc` is `load`, `claim`, `held` (claim committed, save pending), `conflict` and `abort`
(inside the two exception handlers), `requeue` (in `run_forever`'s handler), `idle`, `down`.
`cutoff` says which trips are older than `STRANDED_TRIP_MS`, and `aged` which claims are
older than `ORPHANED_CLAIM_MS`. Trips grow old in the order of their ids; a claim may grow
old at any moment, in any order and under a running matcher, for nothing in the code bounds
a match to 30 s (a pool to wait for, a lock, an RPC, a pause). `stalled` is history that
only properties and proofs read: the drivers to whom the last has happened. `replies[k]` collects the
trip ids that clients with key `k` were told.

Every statement of a process is its own step, so anything may happen between a matcher's
read, claim and save. Failures are steps too, each with a budget in the configuration:
`sigkill`, `sigterm`, `db_error` (a statement raises and did nothing), `ack_lost` (it
committed and raises), `api_died`, `sweep_failed`, `queue_lost`. The error paths of
`match_once` follow the source exactly, among them two that are easy to miss: the claim is
INSERTed outside the `try`, so a claim that commits and raises is released by nobody; and
an exception out of `release_driver` replaces the one being handled.

`GeoIndex`. `members` holds the sets `geo:cell:*` as pairs, `hash` the hashes
`geo:driver:*` by the position in them, `silent` the drivers whose field `hb` is over 30 s
old. `request[h]` is what a handler carries from its `HGET` to its pipeline. `phase`,
`pickup`, `ring`, `ids`, `found` are the locals of `nearby`, whose two pipelines per ring
are two steps. `ghosts` stands for the time that `nearby` took at its start: who was silent
then and has not reported since. `reach` is history: the widest ring in which each driver
was to be found since then. `decodes` is the kind of Redis client. The clients of this
repository return bytes, so the cell that `HGET` returns equals no cell and `SREM` names no
set (`CellRead`); the code also reads the answers of a client that decodes, and a model of
it that holds for both says more. `DriverBoard` takes `hash` for the board and the search
for somebody who asks; it has no sets and no pipelines.

`Sessions`. `idle` is the queue of the pool, `conn[th]`, `op[th]` and `step[th]` a thread's
connection, its call and where in it the thread stands; `work[c]` and `locks[c]` are the
open transaction of a connection, and `View(c)` the tables as it sees them. A call is
`wait` (in `acquire`), `ready` (in its first statement), `delete` (in the second one of
`advance`), `commit` or `undo`. InnoDB is external. A statement goes through the unique
indexes of its table one at a time, the primary key's first (`Primary`, `Secondary`;
`Wanted` is where it stands). There an INSERT looks for a duplicate under a shared lock
(`Check`) before it takes the exclusive one (`Write`), and what it has locked stays locked
while it waits for more (`WaitsFor`, `Blocked`). So two INSERTs that waited for the same
DELETE both get the shared lock and then each blocks the other. `Clashes` and `Missed` say
what a statement finds. `DeadlockVictim` is error 1213, after which the server has rolled
the transaction back. It may strike any statement, because locks on gaps and the queues of
lock requests, which are not modelled, close circles that these locks do not.
`TripStore` takes each method for one step; `ImplementsStore` is why `Dispatch` may build
on it (every change of what is committed is `Performed` by a thread at its commit, with the
version, driver and key its call was made with), and `half_commit` shows the one case in
which it may not.

`HasConn`. `sweep_orphaned_claims` opens its cursor on `store._conn`, which the pooled
`TripStore` does not have. `HasConn = FALSE` is the code as it stands: the sweep releases
nothing. `HasConn = TRUE` gives the reaper a store it can read and is used to ask whether
the design of two independent sweeps works. Proofs hold for both unless section 5 says
otherwise: what a stalled match costs depends on a sweep that can read its claim.

Operators named `Faulty...` are no part of any specification. Each is a definition with a
plausible defect (a dropped guard, an unbumped version, a swapped order) kept beside the
right one; substituting it makes the property listed with it in `PROJECT.json`, section
`mutants`, fail. They document what each property can tell apart.

## 3. Runs

Passing:

| run | asks | instance | states |
|---|---|---|---|
| `matching` | can two matchers give a driver away twice, lose a claim they hold, leak one or replace a rider's driver, while a statement fails, the reaper redelivers, and trips are picked up, completed and cancelled as they are being matched; do the tables refine `Marketplace` | 2 matchers, 2 trips, 2 drivers, 1 caller of `advance`, one error | 677k |
| `replay` | one trip per key, no hint before its row, no second driver after a match reported as failed, and rows that move only along the table, with a handler dying anywhere, a commit reported as an error and a statement failing | 2 handlers, 2 ids, 2 keys, 2 drivers, 1 matcher, 1 caller, any answer of the index (nobody, a driver twice) | 2.0M |
| `recovery` | as the code stands, what survives a kill, a drain, a failed statement, a commit reported as an error (of a claim that then nobody releases, too) and the loss of the list | 1 matcher, 2 trips, 2 drivers, 1 handler; fair | 312k |
| `sweeps` | with a reaper that can read the claims, do both sweeps serve every rider and free every driver, and does a match that is overtaken by the sweep harm its own driver only | 1 matcher, 2 trips, 2 drivers, 1 handler; claims grow old at any moment; a kill, a failed statement (a release among them), a failed sweep; fair | 378k |
| `pricing` | is there one probe, is its flag right however late other calls end, do deadlines bound every RPC, does the breaker close for good once pricing stays up (unless an exception passed it by), and can the fallback be dearer than the quote, or surge run away | 3 threads, threshold 2, cooldown 3, deadline 2, 2 outages, one exception that is no `RpcError`; 13 distances per leg, 11 stored surges and none; fair | 79k |
| `geo` | is whoever reports listed where he is, does `nearby` keep the promise of `DriverBoard`, does a driver who is gone fade, while requests of one driver overlap, hashes expire and Redis loses its data | 1 driver, 2 handlers, 3 positions, 2 rings, both kinds of client; fair | 154k |
| `sessions` | does a connection leak, rest with a transaction or get shared, can all calls wait without InnoDB seeing a deadlock, is every commit one whole operation of `TripStore` as its caller asked for it, and does a trip that ends lose its claim | 3 threads, 2 connections, 2 trips, 1 key, 1 driver; a connection lost (before, in or after a commit), a wait for a lock timed out, a victim of a deadlock any number of times | 1.1M |

Violations, each a disagreement between the code and what the repository says of it:

| run | what TLC shows |
|---|---|
| `double_booking` | `save_match` commits and raises; the handler calls `release_driver` for a driver who is on a matched trip; the next trip claims and gets him. `schema.sql` calls this physically impossible. |
| `orphan_forever` | SIGKILL between claim and save leaves a claim that the reaper never releases, because of the missing `_conn` and a handler that swallows the error. The rider is stranded too: the stranded sweep re-queues the trip for ever, and the unique key on `trip_id` refuses every other driver while the orphan stays. The two sweeps are not as independent as `reaper.py` says. |
| `failed_probe` | A failed half-open probe starts no new cooldown: `_opened_at` is set only when the count equals the threshold. |
| `geo_cells` | A driver who moves stays in the set of the cell he left: `heartbeat` compares bytes with text, and `SREM` names a set that does not exist. `geo.py` says that every driver lives in exactly one cell. |
| `half_commit` | The `DELETE` of `advance` times out waiting for a lock. Only `IntegrityError` and `ConcurrentUpdate` are preceded by a rollback, so the connection goes back to the pool with the `UPDATE` uncommitted, and the next user's commit, a mere `get`, publishes a trip that has ended and still has its claim. `schema.sql` says that the claim is deleted when the trip reaches a terminal state. |

What came up and has no run of its own:
- InnoDB deadlocks on the two keys of `driver_claims`. `release_driver(d)` holds d's row, two
  `claim_driver(d, ...)` wait to look at it, the release commits, both read, neither can
  write, and one gets error 1213. That is an `OperationalError` and no `DriverAlreadyClaimed`:
  `match_once` is left by an exception and the id is requeued, where a collision would have
  led to the next candidate. In `Dispatch` it is a `db_error` (`RaiseUnheld`). Out of a
  `release_driver` inside an `except` it leaves the claim behind for the reaper.
- A match that lasts more than 30 s loses its claim to a sweep that can read claims; its
  driver may then be claimed and matched a second time before the first match is saved.
  `NoDoubleBooking`, `LiveTripKeepsItsClaim` and `MatcherHoldsItsClaim` all fail in the
  instance of `sweeps` if asked of every driver. `SweepsSparePromptMatches` says that the
  damage stays with that driver. With the store as it is the sweep reads nothing, and the
  three hold (`matching`; section 5).
- `stale_matched_trips` always takes the oldest 200 trips. As many unmatchable ones keep a
  younger trip, whose hint is lost, off the queue for ever, against `queue.py` lines 5-6.
  `QueueRebuilt` holds in `recovery` because two trips are fewer than 200.
- An exception that is no `RpcError` during a probe leaves `_probing` set, and the breaker
  refuses for ever. `HealsUnlessOdd` says what remains.
- `advance(trip, MATCHED)` passes the transition check and would store a matched row without
  driver and fare, against `domain.py` ("land together or not at all"); nobody calls it so.
- INVARIANT 3 of `chaos/verify.py` looks for claims whose trip has ended; the orphan a
  SIGKILL leaves belongs to a trip that is still REQUESTED, so that query does not see it.
- `geo.py` line 49 calls the candidates of a wider ring "strictly further away". They are
  not: a driver in a far corner of ring 1 may be further than one just past its edge, and
  `nearby` does not look there. `DriverBoard` promises the nearest ring, not the nearest
  driver.
- A heartbeat that arrives before the end of a shift and runs its pipeline after it puts the driver back on the map until 30 s
  have passed. `GhostsFade` says that this is all that happens.
- A hash that expires leaves its id in the set of its cell, with either client. With the
  clients of this repository ids stay in every cell their driver was ever in, and a driver
  in two cells of a ring is listed twice in one answer: it costs one of the five claim
  attempts, no more (`Dispatch` takes such answers into account).

Bounds and why they are enough.
- Two trips, two drivers and two matchers are the least for which every conflict on
  `driver_id`, on `trip_id` and on a row's version can happen, in both directions. The
  safety properties that matter most are also proved for any number (section 5).
- `MaxTrips` bounds how many ids are minted, a failure budget how often each failure
  happens: once each, at any point and in any combination. The proofs have no such bound.
- `BacklogCap` bounds the queue: no sweep starts over a longer list. The code has no such
  guard and its list grows without bound when nobody drains it. A cap of 0 still lets a
  sweep deliver an id that a matcher is working on, or that a requeue adds meanwhile.
- `MaxClaimAttempts` is 2 for 5: the code compares lengths with it and does nothing else.
  `SweepLimit` is 200 and never reached.
- One driver is enough for `geo`: two drivers share no key of Redis but the sets of cells,
  which they enter and leave independently, and what one search finds of two is covered by
  the proofs, which hold for any number of drivers, handlers and searched pickups. Three
  positions on a diagonal put one in the pickup's cell, one in the second ring and one out
  of reach, and negative longitudes exercise the floor.
- Three threads on two connections are the least with which the pool runs dry while two
  sessions conflict. Two ids for one key make an INSERT collide; `Losses` and `Timeouts`
  are 1, at any point. One driver lets claims collide on the driver and on the trip.
- The breaker's threshold is 2 for 5, and ticks keep the one relation that matters,
  a deadline below the cooldown. Its counters saturate one past what the code compares.
- In `recovery` and `sweeps` every rider sees the same ranking, which makes candidates
  contended, and there is one matcher, which keeps liveness checking within minutes. A claim
  the matcher lost, to an error, a kill or the sweep, is still contended by its next trip.
  What several matchers do to each other is in `matching` and, with sweeps and callers of
  `advance`, in the proofs.
- Symmetry is used for safety runs only.

## 4. Fairness

`FairSpec` assumes that a running handler, matcher and reaper keeps taking steps, that a
killed matcher is restarted (Kubernetes) and that time passes: as long as some trip or claim
has yet to grow old, one does. Requests, callers of
`advance` and failures owe nobody a step. Fairness of the reaper assumes that somebody
runs `Reaper.run_forever`, as the runbook's `deploy/reaper` says; no manifest and no entry
point of the repository does. Weak fairness is enough because a matcher's steps, once
enabled, are disabled by nobody else.

The liveness runs give every trip reachable drivers: that a rider in an empty city waits is
no defect.

Nothing relates the age of a claim to what its matcher does. Fairness makes claims grow old
some day; it may be at once or while the matcher is at work, and what follows is part of
every run and proof with `HasConn = TRUE`.

`GeoFairSpec` assumes that a handler finishes what it began, a search goes on, and 30 s
pass for a driver whose app is off. Nothing obliges Redis to expire a hash, riders to ask
or drivers to report.

`Sessions` states no fairness: `StandstillIsSeen` says in safety terms that some call can
go on, or that some of those that wait are a deadlock which InnoDB sees and ends. Who is
served next is the business of InnoDB's lock queue and of `LifoQueue`.

The breaker's fairness assumes that an RPC ends (its deadline), that time passes, and that
some matcher goes on asking for fares. Nothing makes pricing recover.

## 5. Proofs

All proofs are checked by TLAPS without any unproved step.

Unless said otherwise a theorem holds for any number of trips, drivers, keys, matchers,
handlers and callers, any answers of the geo index, any budget of every failure, and both
values of `HasConn`; the only assumptions are those on the constants in the modules
themselves.

### Dispatch

`DispatchTypes`: `TypeCorrect`, `Spec => []TypeOK`. It is the base of everything else.

`DispatchProofs`, who owns which driver.
- `SafeUntilAckLost`, without an assumption: as long as no statement has been committed
  and then raised (`Acked`) and no claim has grown old under a running matcher
  (`NoneStalled`), `NoDoubleBooking`, `LiveTripKeepsItsClaim` and `MatcherHoldsItsClaim`
  hold, whatever else has failed.
- `NeverDoubleBooked`, `ClaimsOutliveTrips`, `HoldersOwn`: the three as invariants of the
  code as it stands (`~HasConn`: ages are read by nobody), under `NoAckLoss` (the environment
  never commits and raises). Both conditions are needed: `double_booking` is a
  counterexample without the second, and section 3 describes one without the first.
- `PromptMatchesSpared` (`SweepsSparePromptMatches`), under `NoAckLoss` and for both values
  of `HasConn`, with any number of matchers and callers of `advance`: the orphan sweep, which
  selects, commits and then releases by driver alone, takes the claim of no live trip and of
  no matcher, as long as the claim of that driver has not grown old under a matcher.
- `NoLeaks`, `Spec => []NoLeakWithoutFailure`, without an assumption: the property itself
  is about behaviours in which no matcher was killed and no MySQL call has failed yet.

The argument. Double booking is excluded because a live trip's driver has a claim for that
trip and claims are unique by driver. Neither fact is inductive: `release_driver` deletes by
driver alone, so one must know that whoever calls it holds a claim that backs no live trip.
`IInv` says so. Of everybody:
- `ClaimsUnique`: the two keys of the table;
- `MatcherCopy`, `CallerCopy`: a copy of a row is stale or still right, so the version test
  makes a save or an advance act on the state it believes in;
- `UnmatchedHasNoDriver`.

And of the drivers whom no stalled match has touched (`Spared`):
- `LiveKept`, `HeldKept`: a live trip has its claim, and so has a matcher;
- `HoldersDiffer`, `HeldNotDriving`: what a matcher holds is nobody else's, and its driver
  is not already on that matcher's trip;
- `AgedIdle`: an old claim has no running matcher behind it, because a claim is young when
  it is made and grows old under a matcher only by taking its driver from `Spared`;
- `OrphansIdle`: a driver the orphan sweep selected stays idle until it is released. It
  follows from `AgedIdle` when he is selected, and holds from then on because the claim
  itself keeps others off that driver.

It is the same induction that shows that one driver's trouble is not another's: no step about
one driver touches what is said of the others. `NeverStalled` (`~HasConn` keeps `stalled`
empty) turns it into statements about all drivers.

Everything but the types and the ages holds until the first lost acknowledgement; since the count of
failures never falls (`FailuresGrow`), "the count is 0 after the step" gives it before the
step, and that is how the unconditional theorems are had from the same induction.
`NothingLeaks` adds that every claim is answered for, by a matcher that works under it or by
a live trip of its driver. It leans on `IInv`: a matcher that leaves a trip drops the only
claim it holds, and a terminal `advance` finds the claim through the driver in its copy.

`RowProofs`, what may happen to a row. Its invariant `RowInv` is the part of `IInv` that
survives a lost acknowledgement: types, `UnmatchedHasNoDriver` and the two copies. From it,
`StepIsRowStep` reduces every step of the system to one of four things (nothing, a row
opened, matched, moved), and the theorems follow from those four:
- `TableFollowed`, `Spec => TripsFollowTable`, without an assumption;
- `DriversKept`, `Spec => RiderKeepsDriver`, without an assumption;
- `MarketImplemented`, `Spec => ImplementsMarketplace`. It assumes `NoAckLoss` and
  `~HasConn` (a driver booked twice is no behaviour of the marketplace) and `OnlySaveMatches`, that nobody asks
  `advance` for MATCHED (a matched row without a driver is none either; section 3). In the
  step that matches, the claim is the reason why the driver is on no other live trip
  although nobody looks.

`ApiProofs`, requests and hints, without an assumption: `KeysNameOneTrip` (`OneTripPerKey`),
`CollisionsResolve` (`CollisionHasRow`) and `HintsFollowRows` (`HintsNameRows`). `ApiInv`
adds to `RowInv` that ids are fresh, so a refused INSERT was refused by the key and not by
the id; that one row has a key; that what clients were told are the rows of their keys; and
that the queue, the matchers' jobs and the reaper's list name rows. The last must be said
of all three together, because ids go round among them.

### Store sessions

`SessionsProofs`, for any number of threads, connections, trips, drivers and keys, any
number of lost connections and of waits that time out:
- `PoolConserved`, `SessionsSpec => []ConnsConserved`, whatever happens. `PoolInv` says who
  has which connection at which step of a call;
- `RestsClean` (`RestIsClean`), `StandstillsSeen` (`StandstillIsSeen`), `StoreImplemented`
  (`ImplementsStore`) and `ClaimsGoWithTrips` (`EndsUntilTimeout`): four properties that
  speak of behaviours in which no wait for a lock has timed out. `half_commit` shows that
  the last fails afterwards.

The invariant `TxnInv`, which holds until then:
- `AtRest`: a connection in the pool or closed by the server has no writes and no locks;
- `WorkDone`: what a connection has written, by the step of its thread;
- `StillTrue`: from the end of its first statement to its commit a call holds exclusive locks
  on what it read (`Guards`), and what it read is so still: its keys are free, its version is
  the row's. It is inductive because of `LocksExclude` (what one connection has locked
  exclusively, no other has locked at all), by which the guards of two calls are disjoint,
  and `PublishSpares` goes through all pairs of operations to show that one that
  commits spares what another found;
- `NewIds`: the id of an INSERT under way is its own. The lock on the key does not protect
  it, minting does.
`StandstillsSeen` does not say that nobody deadlocks: with `DELETE`, `INSERT` and `INSERT` of
one driver three sessions do. It says that whenever all calls wait, those that wait for locks
wait for each other alone. Who holds a lock is in a call and has a connection
(`AtRest`, `PoolInv`), so a standstill leaves it only a lock to wait for, and who waits for
the pool holds nothing. This is what putting the connection back before the lookup of
`create_trip` buys: a circle through the pool InnoDB would not see. `ClaimsGoWithTrips` needs one fact more (`CopiesTell`): while a row has
the version of a caller's copy it has the driver of the copy, so the `DELETE` names the right
one. The folds of `View` are evaluated by `SeesTables`, `SeesOneWrite` and `SeesTwoWrites`:
no transaction writes more than twice as long as every one starts empty.

### The other parts

`CircuitBreakerProofs`, for any number of threads, any threshold and any deadline below the
cooldown: `OneCallWhenHalfOpen` and `FlagFollowsProbe`. The strengthening says that a call
admitted before the trip is at least as old as the trip, so that its deadline ends it
before the cooldown is over: this is why a late answer can never reset somebody else's
probe, and why the deadline must be the shorter of the two.

`FaresProofs`, for all distances, stored surges and roundings: `OutageNeverDearer` and
`SurgeNeverRunsAway`. The float product of distance and rate is a parameter, for both
sides evaluate the same expression.

`GeoProofs`, for any number of drivers, handlers, positions and rings, and either kind of
client: `ListedWhereHeIs` (`GeoSpec => []FreshIsListed`) and `IndexImplementsBoard`
(`GeoSpec => ImplementsBoard`, every step of the index is a step of the board or changes
nothing on it). The inductive invariant `GeoIInv` adds to the type invariant and to
`FreshIsListed`:
- `Watched`: while a search runs, `reach` is at least the ring of where a driver is now, and
  past the last ring for those off the index or silent since its start;
- `NobodyNearer`: whoever could be seen in a ring already passed all along would have been
  found there, so nobody was;
- `NobodyMissed`: between the two pipelines of a ring, `ids` holds everybody who was to be
  seen in it since the start;
- `FoundWhenDone`: nothing is found before the search is done.
`FreshIsListed` is what makes the sets good enough although they list drivers where they no
longer are: nobody is found through a wrong entry that the hash does not confirm, and nobody
is missed because the right entry is there. That every pipeline writes the hash together
with its own entry is why overlapping requests do no harm.

`GeoTypeCorrect` and, in `CircuitBreakerProofs`, `BreakerTypeCorrect` are the type invariants
that these rest on.

### What is only model-checked

Every liveness property: `EventuallyServed`, `OrphansReleased`, `StrandedOnlyByOrphan`,
`QueueRebuilt`, `HealsUnlessOdd`, `GhostsFade` (fairness and ENABLED are beyond the prover).
Every invariant, action property and refinement of a passing run is proved. That the
abstract sequence of whole operations in `Sessions` is what the processes of `Dispatch`
see is not one theorem but two: `StoreImplemented` on one side, and on the other `Dispatch`
built from the actions of `TripStore`. A wait for a lock that times out is outside of both
(section 6).

## 6. Not modelled

- Requests of drivers that take longer than 30 s.
- Callers of `advance` beside the orphan sweep, and two matchers beside it, are not in a run,
  for its size; the proofs have both.
- Distances: `nearby` ranks by them what it found, and `Dispatch` accepts any list of
  drivers from a set per trip, which covers every ranking.
- What `Dispatch` becomes after a wait for a lock has timed out: `half_commit` shows that the
  store's operations are then no longer whole.
- Locks on the gaps between index entries and the order in which lock requests queue. Both
  make calls wait and deadlock in more cases than the locks of `Sessions` do; whatever they
  add ends in a statement that is granted later, times out or is a victim, and victims may
  be chosen anywhere. `StandstillIsSeen` speaks of the locks that are modelled.
- A crash of the process that owns a pool: its connections close, which is
  `ConnectionLost` for each of them, and its threads are gone; what it was doing in terms
  of whole operations is in `Dispatch`.
- Metrics; the gauge of held claims is never decremented when a trip ends.
- Rates, hotspots and statistics of the load generator, manifests, probes, alert rules,
  gRPC and HTTP plumbing: configuration and I/O without state of the system.
  `GET /rides` and `depth` change nothing.

## 7. Plan

Done, in this order: the core (`TripLifecycle` to `Dispatch`, `Marketplace`), its proofs,
the pricing client and fares with their proofs, the geo index with its abstract board and
the proof of the refinement, sessions of the store, proofs of all safety properties, ages of claims and locks index by
index.

Next module: the gauge of held claims beside the claims in `Dispatch`.

Next theorems: what makes the liveness properties true in safety terms. That a matcher's
step, once enabled, is disabled by nobody else (which is why weak fairness is enough); that
an orphaned claim shuts every other driver out of its trip as long as it stays; that a
stranded trip is on the queue, in a matcher's hands or within reach of the next sweep.
