# A verification of the event-driven C core

TLA+ models of the C core and of the benchmark around it, TLC runs over small
instances of them, and TLAPS proofs for the three network clients, the event
loop, the spike, the calendar, the breaker lockout and the latest ticks, the
backtest and its program, and the concurrent adapters. `PROJECT.json` maps every definition to the lines it stands for and lists
the hazards, the runs and the theorems.

## 1. The system

The program is a trading pipeline's native core. Its parts, and how they meet:

| part | source | module | status |
|---|---|---|---|
| PostgreSQL pipeline client | `core/platform/db/postgres.c` | `PgPipeline` | modelled, proved |
| Redis asynchronous client | `core/platform/cache/redis_async.c` | `RedisAsync` | modelled, proved |
| HTTP client over libcurl multi | `core/platform/http/http_client.c` | `HttpMulti` | modelled, proved |
| event loop over libwebsockets | `core/platform/event/lws_runtime.c` | `LwsRuntime` | modelled, proved |
| blocking Redis: breaker lockout, latest ticks | `core/platform/cache/redis_cache.c` | `BreakerLockout`, `TickCache` | modelled, proved |
| KRX calendar, civil dates | `core/src/calendar`, `core/src/domain/date.c` | `KrxCalendar` | modelled, proved |
| C driver benchmark adapter | `core/apps/c_driver_adapter.c` | `DriverAdapter`, `AdapterCases` | both cases, without the report |
| event-loop spike | `spike/event_loop/main.c` | `EventLoopSpike` | modelled, proved |
| backtest engine, costs, metrics | `core/src/backtest` | `BacktestEngine`, `BacktestMetrics` | partly; the account proved |
| screener, blending | `core/src/indicators`, `core/src/portfolio/blending.c` | `DecisionCore` | modelled |
| risk gates, position sizing | `core/src/risk`, `core/src/portfolio/sizing.c` | `RiskGates` | modelled |
| instrument ids, change of the day, rounding | `core/src/market_data`, `core/src/domain/round.c` | `MarketData` | modelled, rounding partly |
| backtest runner and fixture | `core/apps/backtest_{runner,fixture}.c` | `BacktestRunner` | modelled, proved |
| blend and risk runners | `core/apps/{blend,risk}_runner.c` | `BenchRunners` | the batches |
| Rust and Python benchmark adapters | `edge/driver-bench`, `bench/adapters` | `EdgeAdapter` | both cases, without the report; proved |
| benchmark matrix and stop gate | `bench/run_driver_mvp2.py`, `bench/evaluate_mvp2.py` | `DriverMatrix` | without the statistics |
| data lake stub, other benches and tools, vendored JSON | `edge/datalake`, `bench`, `tools`, `third_party` | | not modelled |

One thread runs the event loop. It polls the descriptors of the three network
clients and calls each client's `service` function when its descriptor is
ready; the clients call their owner back with results, and the owner may submit
again from inside that callback. None of the clients waits. The cache is
different: several processes, each with a blocking connection, share Redis
keys, and every call is a sequence of commands between which the others run. The
rest are pure functions, a simulation and the programs that call them, and the
benchmark that runs an adapter in each language, trial by trial, and decides
from their results.

## 2. The modules

Definitions keep the source's names. `pc` (or `at`, `step`) says where the
thread is: an action is what runs between two points at which something else
can happen, namely a callback, a return to the loop, or a command to a server.
The comments that start with "Mutant" introduce deliberately wrong variants of
the definition below them, used to see that a property can fail.

* **RequestFifo**, **RequestSet**: what the clients promise. A bounded queue
  whose requests are answered once and in order, a success carrying the answer
  to that very request; and a bounded set whose requests are each completed at
  most once.
* **PgPipeline**: the ring (`fifo`, `head`, `count`), `sync_sent`,
  `flush_pending` and the connection's state, as in `struct alpha_pg`. Actions:
  `alpha_pg_connect_start`, `service_connect`, `send_request` (both public
  requests go through it), `ServiceWrite` / `ServiceRead` / `ConsumeInput`
  (`alpha_pg_service`), one action per branch of `drain_results`,
  `complete_head`, `alpha_pg_close`. libpq (its command queue, its asynchronous
  and pipeline status, what `PQgetResult` returns next) and the server
  (execution, errors, skipping to the Sync, implicit transaction, buffered
  output, crash, termination) are external and run beside it. A row is the
  request it answers.
* **RedisAsync**: the adapter with the hiredis calls it makes and receives:
  connect, reply, timeout, disconnect, free. A handle whose context was freed
  stops the model.
* **HttpMulti**: the request list, libcurl's running transfers and finished
  messages, and a stack of completion callbacks, from which the owner may post
  and cancel. Of a body only its size is kept. An action drains the finished
  messages, or fails in libcurl and leaves them (`ActionFails`); `returned` is
  what the owner was told.
* **LwsRuntime**: the watch table, the callback in progress, and the position
  of the wake-up's walk over the table while callbacks change it. Its variables,
  initial states and steps are called `registry`, `RegistryInit`, `RegistryNext`,
  because HttpProofs extends it together with HttpMulti.
* **KrxCalendar** (functions), **BreakerLockout** (each call one action per
  Redis command, `frame` holding the call's locals). Redis's clock runs in half
  seconds, because TTL rounds and TIME truncates.
  **TickCache** is the same for the latest tick, where a call is one command on
  its way and one reply on its way back. **MCBreaker** gives the breaker its
  instants.
* **DriverAdapter** extends PgPipeline and takes all of its steps: the adapter
  is the owner that the client's module leaves open. **AdapterCases** adds the
  Redis case, an instance of RedisAsync whose callbacks (`redis_watch`,
  `redis_connect`, `redis_reply`) happen in the client's own steps. Both calls of
  `pg_cleanup`, before the trial and after it, are steps that may never end.
* **EdgeAdapter**: a trial of the Rust or of the Python adapter: the tasks, each
  with its share of the iterations, the barrier, the one connection (a permit, a
  pool of one), and the rows or the tick they all write and check. A command is
  sent by one step and answered, or broken, by another. `Eligible` is what
  `execute` asks of the printed result. Where the languages differ (what a failed
  iteration keeps, how long a connection is held, who compares the terminal
  state) the action says so.
* **DriverMatrix**: one trial a step through the loops of `execute`, then the
  attestation, the results and `evaluate`; an adapter may be rebuilt between any
  two trials. **MCAdapters** puts the C adapter, EdgeAdapter and DriverMatrix
  side by side: a behaviour is one of them.
* **EventLoopSpike**: one action per call that `service_tick` makes; `todo`
  holds the calls the last poll made due. libcurl asks for any direction of a
  socket at any time, and is refused when the table is full. libpq, hiredis, libcurl and the three
  servers are external, and one of the parts may fail at any moment.
* **BacktestEngine**: one bar a step, exact arithmetic in units of the cost
  rates. What doubles can change is a choice: a cost is up to `Ulp` off, and the
  affordable quantity is the whole number below any quotient within `Ulp`. The
  outlay that the guard compares is the one that is paid, as in the code.
  **BacktestMetrics**: what the report computes from the trades and the
  equity curve. **BacktestRunner**: the program around the engine, as the life of its blocks
  of memory on every path.
* **DecisionCore**, **RiskGates**, **MarketData**, **BenchRunners**,
  **CalendarWalk**: pure functions against reference definitions, over
  **Fractions**; a blend is the set of the results doubles allow, both signals
  where the score is on the threshold and both neighbours of a half; **MCCore** gives them, the backtest and the cache their
  instances, a behaviour being one of them. BenchRunners counts the decisions of the two benchmark
  batches; a batch is counted by its periods.
* **SeqLemmas, PgPipelineProofs, RedisProofs, HttpProofs, SpikeProofs,
  CacheProofs, CalendarProofs, ToolProofs**: section 5.

## 3. The runs

| run | instance | checks |
|---|---|---|
| PgAny | depth 2, 3 requests, 2 kinds, any owner | ring and libpq's queue agree; a failed request is not stored; the drain loop never spins; the client fails only with its connection; it implements RequestFifo; the inductive invariant |
| PgEager | depth 2, 3 requests, an owner that serves writability first; fairness | idle means the transaction ended; a success is stored unless a later statement of its batch failed; every request is called back or the connection is lost; service returns; the client becomes idle |
| RedisAny | 2 pending, 3 commands, 2 connections; fairness | the count is what hiredis owes; what is awaited is watched and the owner hears of every loss; RequestFifo; commands complete |
| Http | 2 pending, 3 posts, one token, bodies up to 1; fairness | list, count and libcurl agree; a success has the whole body; RequestSet; every request completes unless the client is destroyed, or an action failed and none followed |
| Lws | 2 slots, 3 owners; fairness | slots are owned, nothing polled is orphaned; callbacks reach registered owners; writers are called |
| Adapter | C adapter: 3 operations, either client. Rust, Python: 3 tasks, 4 iterations, either case. Matrix: 18 cells, 3 or 4 trials; fairness | each reply measures its operation and none is refused; the watch follows the client; a result that counts is true, and an undisturbed trial counts; what is published ran on the attested builds in a fair rotation; nothing hangs but in a service called without a timeout |
| Spike | 2 curl entries, 1 socket number, one failing part; fairness | the printed evidence is of what the servers did; a freed context is used only after Redis failed; curl is polled as it asked; the loop ends |
| Core | dates 1890-2110; lists up to 3; 4 bars, 3 prices; files of 2 bars and signals; one setter that also clears, one reader; two clients of a tick | date conversions and next sessions; screening and blending; gates and sizing; ids and changes; the recorded counts of the runners; the account and the metrics of a backtest; the runner's memory; the expiry is the next covered session; a lockout is released by clear or expiry only; what a reader is told of lockout or tick is so |
| PgIdleLate, RedisFailedConnect, BreakerRace, Gate | as above | violated: section 4 |

**Bounds.** Depth 2 with 3 requests is the least at which the ring wraps while
full, a batch has an earlier and a later statement, and a batch is followed by
another. Two pending commands and three in all fill the client and reuse a
place; two connections give one loss and one reconnect. One token with two
requests makes cancel choose; the body limit is 1, so that a body fits, is too
long at once, or passes the limit in the middle of its transfer. Two slots for three owners saturate the table and
reuse a slot. The breaker's instants are an afternoon two holidays and a
weekend before the session, the midnight before it, the half seconds
around it, and the next session; its calendars cover a year's end. The
setter's clock skew is tried at -6 (refused) and 0. In TLC, seconds fit 32 bits
only between 1902 and 2038, so sessions are asked for in 1969 and 1970, which
meet the epoch from both sides; dates are walked further. A holiday
window of four days reaches over a weekend and past it. Capital 6 pays
for two shares at price 2 exactly, where the quotient and the outlay round either
way and the quantity guard fires, and not exactly at price 3; a price of 0 is among
them. Three
operations are one round of the adapter. A tick lives two steps of a clock that
runs for four, so a key expires and is set again. With two entries for one
socket number the spike's table fills while an old entry of that number is still
there. One failing part at a time keeps the spike small; the parts share only
`failed`. Two trials and files of two items reach every branch of the runner.
Four iterations for three tasks leave a remainder to distribute, and make one
task come back while the others are still at work. Three trials are the period
of the rotation (the code has 30), the fourth is one more than the gate wants;
the cases and concurrencies of the matrix are the code's. One rebuild is enough,
because a rebuilt artifact is taken to be a new one.

**Deadlock** is checked for the spike, which must reach its exit; the other
models may stop (a closed client, exhausted bounds).

**Fairness.** The owner's loop is level-triggered, so a descriptor that stays
ready is reported again: strong fairness of servicing a wanted direction with
progress, because readiness comes and goes with the peer. The thread and the
callbacks go on (weak). The server answers what it has received or dies. curl's
own timeout ends each transfer, and the owner's actions return; that they succeed
is not assumed. LwsRuntime assumes that polls which find
nothing ready recur, since the wake-up only runs in those. The adapter's clock
advances and nothing is assumed of its servers, neither while it works nor in
`pg_cleanup`. In the concurrent adapters the runtime runs a task that can go on
(weak fairness of a step of the process, of no task in particular), and a command
ends only where the code gives it a timeout, which asyncpg's have and those of
sqlx, fred and redis-py have not; the orchestrator's `subprocess.run` has none
either, so a trial may never end. In the spike a call of libcurl returns, and what
a server is asked is answered in the end, but the deadline may come first; that the
process ends past it needs the thread and the return of that call alone.

## 4. What the models show

Four documented statements do not hold of the code, each shown by a run:

* *PgIdleLate.* `alpha_pg_is_idle` is true before any sync was sent, when the
  replies arrive before the loop reports writability. `postgres.h:72` promises
  the boundary. With an owner that serves writability first it holds (PgEager).
* *RedisFailedConnect.* After a failed connection attempt the handle keeps the
  context that hiredis frees; the adapter's `main` then closes that handle
  (AdapterCases lets that end the process).
* *BreakerRace.* Of two setters around midnight in Seoul, the one with the
  earlier session can write last and shorten the lockout.
* *Gate.* `evaluate` refuses every published matrix. It wants one `build` in all
  results of an adapter, while the Python and the Rust adapter report the
  dependencies of the case they ran and the orchestrator compares builds within
  a cell. The tests of both programs use one set of dependencies. The branch of
  `Evaluates` that decides GO or NO-GO is therefore not reached from a real
  matrix.

Also seen while modelling, without a run of its own:

* A position is reported OK when its row arrives; a later failure in the same
  batch rolls it back. The property in PgEager is stated with that exception.
* `SET ... EXAT` with an expiry that passes between TIME and SET stores nothing
  and reports success.
* GET on a key of another type returns `ALPHA_ERR_IO` and leaves `*locked`
  alone (`redis_cache.h:49-51` says it remains true).
* `parse_holiday_json` accepts the 30th of February, and a trailing comma.
* After ALPHA_ERR_HTTP from an action the transfers that are finished wait for the
  next action, which libcurl may not ask for; RequestsComplete says "or is
  stranded so" (`Stranded`).
* Cancelling a request by its own token from its completion finds it still
  listed, and completes and frees it twice. The runs assume that an owner does
  not do that (`CancelsOwn = FALSE`).
* The wake-up reports writability without readiness; the drivers tolerate it.
* One setter whose clock is ahead and then corrected across midnight shortens
  its own lockout; the runs have callers whose clock agrees with the server's.
* A connection lost after it was established leaves the PostgreSQL client READY
  with callbacks that never come, and close drops them; RequestsComplete says
  "or the connection is lost".
* No Redis command timeout is armed: a peer that neither answers nor closes
  stalls its commands; the C adapter's deadline ends such a wait.
* `pg_cleanup` blocks in libpq without a timeout before and after the trial, a
  command of sqlx, fred or redis-py has none of its own, and neither has the
  orchestrator's wait for an adapter. HangsOnlyInServices says that the benchmark
  ends or is at one of those.
* The adapter's close answers a Redis command still in flight after the result
  was decided; the answer changes nothing that was emitted.
* In the spike `app->redis` keeps pointing to the freed context after a Redis
  failure, until the loop sees `failed`: a SET alone in flight does not set it.
  Its README speaks of "deterministic saturation rejection", but
  `exercise_queue` fills the queue exactly and rejects nothing.
* NYSE and NASDAQ share the suffix "US", so an id of the NASDAQ comes back as
  one of the NYSE; MarketDataIsKept says "up to that".
* A blend whose exact score is the threshold depends on the order of its inputs:
  SELL 0.4, SELL 1.0 (weight 1 each), BUY 1.0 (weight 2) sum to a little more than
  0.15 and buy, reversed they sum to 0.15 and hold. SelectionIsFair says that
  their order changes no decision away from it.
* A buy with cash for exactly a whole number of shares may take one less: 33 at
  price 1 and 10 % slippage buys 29 of 30, because 33/1.1 is below 30 in doubles.
* The blend runner's recorded count lies within the cases whose exact score is
  the threshold: one of the seven in each 2700 is rounded up by doubles.
* The runner does not check the fixture's capital (with 0 the returns are not
  numbers) nor the order of its bars (a sale before its buy counts 0 days).
* A latest tick longer than the caller's buffer is cut without an error.
* An adapter that is rebuilt during the matrix and put back byte for byte before
  its end passes the attestation; PublishedIsFair is of builds that differ.

## 5. The proofs

The proofs are of `PgPipeline`, `RedisAsync`, `TickCache`, `BreakerLockout`,
`KrxCalendar`, `LwsRuntime`, `HttpMulti`, `EventLoopSpike`, `BacktestEngine`,
`BacktestRunner` and `EdgeAdapter`, for every value of their constants; the
assumptions are the named ASSUMEs of those modules (positive depths and shares,
natural bounds, a nonempty set of kinds, Booleans, a tick that lives, iterations
that fit the six digits of a token, holidays that are dates of their year) and
the hypotheses named below. Each follows the
same pattern: an inductive invariant that holds initially and is kept by each
action, from which the properties follow. The invariants were run through TLC on
small instances before they were proved.

**The PostgreSQL client.**
`PgFifoAligned` (each result goes to the request at the head) is not inductive:
whether it survives `DrainResult` depends on what libpq returns next, which
depends on what the server put on the wire, which depends on what it was sent.
The invariant `PgInv` therefore describes the whole loop:

* `Numbering`: requests in the ring continue the delivered ones;
* `StatusInv`: what libpq's status says of the head of its queue;
* `StreamInv`: rows answer the head of the queue one by one, an error ends its
  batch, a sync answers the Sync, a fatal message is last;
* `OutInv`: at most one Sync, last; unsent output keeps `flush_pending`;
* `ServerInv`: where a living server is: skipping exactly when an error is on
  its way or was consumed, otherwise at the point after what it answered;
* `EffectInv`: whatever the server executed has been or will be reported OK.

The theorems: `PgInvariant`, `PgTypeCorrect`,
`PgFifoAligned`, `PgCallbackIdentity`, `PgNoSpin`, `PgFailedHasNoEffect`,
`PgUnsentIsWanted`, `PgFailsOnlyWhenLost`, and `PgRefinesFifo`: the ring
implements RequestFifo, each step being an accept, a completion or a stutter.

`PgIdleIsSettled` is for an owner that serves writability before it reads
(`EagerOwner`; without it the statement is false, run PgIdleLate). An idle client
has an empty queue, so nothing in the present state says where the last Sync went.
`SettledInv` follows it: a service call and its callbacks run only after the Sync
was sent (`TurnInv`), a living server with nothing in flight is between two
transactions (`QuietInv`), the answer to the Sync follows the commit
(`SyncedInv`), and a success, reported or on its way, is in the transaction,
stored, or followed by an error of its batch (`StoredInv`).

**The Redis client** (RedisProofs). `RedisPendingExact` and
`RedisImplementsFifo`. That an answer goes to its own command needs the whole
way of a command: `RedisInv` says that hiredis's queue of callbacks is the
answers that came, the commands on the wire and those not sent, in that order
(`WholeQueue`), that on a broken connection the answers that came still fit
(`AnswersInOrder`), that no connection has anything in flight that was not
accepted on it (`Sent`), and that without one nothing is (`Connection`). While a
connection is given up the answers are no longer looked at (`Ending`), and
every callback is a failure.

`RedisOwnerInStep` adds what holds inside a call (`InStep`): what is watched while
the thread reads, writes or gives a connection up, and that the owner is told
before the call returns.

**The event loop** (also in HttpProofs). `RegistryOwnership` and `ReadyOwnership`.
SlotsAreOwned has the shape "some owner"; the invariant `LwsInv` says instead
that handle and context point at each other (`Linked`), which each step can
keep, that libwebsockets holds only slots in use (`Polled`), and that the count
is that of the slots in use, for which the finite-set theorems are needed.

**The HTTP client** (HttpProofs). `HttpOwnership`, `HttpSuccessIsComplete` and
`HttpImplementsSet`, all for an owner that does not cancel a request in that
request's own completion (`~CancelsOwn`): without it the statements are false
(section 4). `HttpInv` adds to Ownership that its three parts are disjoint
(`Parts`), that nothing is in the list, the message queue or the stack twice
(`Once`), how completions nest (`Nesting`), and that what libcurl handed over
was kept (`Kept`). That one more post still fits the set's bound follows from
the length of a list without repetitions.

**The calendar** (CalendarProofs, with the lemmas on dates at the beginning of
CacheProofs). `CalendarRight`: the walk of CalendarWalk through all years. The code
computes a date by closed formulas with six divisions; the walk counts. The
argument goes over years that begin on 1 March: every day number is a day of a year
of a 400-year era (`CivilYear`, `YearOfEraFacts`), one first of March is 365 or 366
days after the other (`MarchStep`), so the formula and the count of leap years,
which agree in 1970, agree in every year. Where
induction is needed, the proofs take the least counterexample (`Least`, from the
library's theorem that a nonempty set of naturals has a minimal element; the
induction rules proper take an operator and cannot be used).
The same device shows that the recursive search for the next session finds the
first open day or stops at the end of the calendar (`SearchFinds`): the measure is
what is left of the calendar. The function that knows no holidays stops because one
of three days in a row is a weekday. `WalkInv` is that the day is that of the date
and that the holidays lie ahead of it.

**The breaker lockout** (CacheProofs). `LockoutExpiry`, for any number of clients,
clocks and calendars that come, go stale and go while they are read. `BreakerInv`
says of each place in a call what the call holds by then: the list of the
first year is that of the event's year, the joined list is ascending and belongs to
both years (`GoodFrame`), so that the search runs over the right holidays.

`LockoutInForce` and `LockoutReported` need more: with two setters they are false
(run BreakerRace), and with one whose clock is set back across midnight as well
(section 4). Their hypothesis `OneClock(s, k)` is what is left: one client `s` sets
lockouts, its clock differs from the server's by the same `k` seconds in every call
that is not refused (a clock more than 5 seconds behind is), and an expiry that a
caller passes directly is not before the session after the present (`LongExpiries`).
`HoldInv` then says that there is an instant `n` such that what is due is the
session after `n` and the call under way is for an event no earlier than `n`; the
next session grows with the event, so no SET shortens the lockout.

**The latest tick** (also in CacheProofs). `TickNeverGoesBack` is an action
property: what a return of the getter may hand over. In `TickInv` the key holds
the last write or nothing, younger than its life (`KeyIsLatest`), and a reply on
its way is no older than what its client has seen (`ReplyIsCurrent`): a key that
has expired comes back only with a later write.

`CacheReads` is the property of the run, of both kinds of key at once: what a reader
is told of lockout or tick is so, under the hypothesis `OneClock(s, k)` for the
lockout.

**The spike** (SpikeProofs). `SpikeInvariant`, `SpikeEvidence`, `SpikePointer`,
`SpikePolls`. EvidenceIsReal is about the end and needs the whole way to it:
`PgProgress` says that the commands the server took are a prefix of the program of
two batches and the rest is on the wire or in libpq's buffer, in order; `Answered`,
that an answer of Redis or of curl follows its command; `Pointer` says which connection
`app->redis` points at, and that it is a dead one only after Redis failed;
`Entries`, that each socket libcurl watches owns one entry of `curl_watches`, and
entries of removed sockets poll nothing; `ThreadInv`, in which order a tick calls.

**The backtest program** (ToolProofs). `RunnerOwnership`. The heap is described as
a function of the place in the program and of the fixture's pointers (`Owned`), so
that each failing path has to give back exactly what it holds; `Progress` says how
far the two tables are filled at each place.

**The backtest** (also in ToolProofs). `BacktestBooks`: for any prices, bars,
signals, capital, rates and rounding, no buy overdraws the account or leaves more
than a share's worth (and the rounding of two amounts), each sale closes the buy before it, and the cash is the capital and
what the trades say, less the price of what is held. Its hypothesis is that the three
rates and the rounding together do not exceed 100 %: with more, a sale costs more than it brings and
overdraws the account, which the code does not check (its rates are below 1 %). The
sum over the trades is a recursive function of the list; each trade extends it by one
(`BookedBySums`). `BacktestInv` adds how the parity of the trades and the quantity of
the last of them go with the position. That a buy is paid for and
leaves no more, whichever way the quotient and the costs round, is `GuardedIsPaid`; it
needs that the rounding of two amounts is less than a unit of price, an assumption of
BacktestEngine.

**The concurrent adapters** (ToolProofs). `EdgeVerdict`, for every number of tasks
and iterations, either language and either case. That tasks do not count each
other's operations rests on arithmetic: the shares that `distribute` deals out are
disjoint and cover all iterations (`SharesAreDisjoint`, `SharesCover`; the sum of
the earlier shares is brought into closed form by taking the least task at which
it would differ, since the library's induction rules cannot be used). `EdgeInv`
says that a task works through its share (`Placed`), that an operation which is
not over has left no trace (`Untouched`), that without an error each one that is
over was answered and is counted once (`Counted`), that an error stands for an
operation that was not answered (`Missed`), and that without disturbance the rows
a task reads back are there (`Undisturbed`).

Only model-checked:

* every liveness property (fairness and ENABLED are outside the prover);
* the remaining sequential code of the run Core (screening, blending, gates, sizing,
  identifiers, the metrics of a backtest, the counts of the benchmark batches):
  folds, filters and sorts over lists, whose correctness for all inputs would need
  induction over data, or tables whose every line TLC visits;
* the C adapter (EachReplyMeasuresItsOperation, WatchFollowsClient and its part of
  TrialIsTrue), which takes the steps of two whole clients, and the matrix of
  trials (PublishedIsFair), which sorts and filters the trials.

## 6. Not modelled

* In modelled parts: calling `close` or `service` of a client from its own
  callback, which no caller in the repository does; a call of the Redis client's
  `service` for both directions (each is a call of its own, on a connection that is
  there); commit-time errors of
  deferred constraints; rows that do not fit the result's buffers; memory
  exhaustion except where it leaves state behind. A server that lost its
  connection stops in the model; a real one may still execute what it received,
  also after the adapter's cleanup deleted its rows.
* Doubles, but for the decisions named in section 2: sums of money are exact, so that
  the cash is what the trades say to the last unit. Prices and weights are whole; the Sharpe ratio and the
  annual return need roots and powers, and the rounding of the metrics is a
  property of decimal formatting.
* `alpha_replay_signal`: the backtest's signals are arbitrary, which covers it.
* Arguments, hashes, timing and the text of the reports.
* `raw_callback` of the spike, which nothing reaches: no descriptor is adopted.
* The concurrent adapters' connection pools beyond "one at a time, and given
  back", and how they reconnect. A trial that fails ends the matrix.
* The statistics of the gate (the bootstrap, the ratios): a comparison goes
  either way. The other fields it checks are copied from the orchestrator's own
  and cannot differ.
* The data lake crate (two constants), the other Python benches and the tools
  (process control, file generation and comparison, run once), and yyjson
  (vendored).

## 7. Plan

Done: the three clients with their abstract specifications and proofs, the
event loop, the spike and the programs around the drivers with theirs, the cache and the calendar, the adapter that composes
the loop with either client, its counterparts in Rust and Python and the matrix
that runs them, the spike, the backtest and its programs, the decisions. What is
left is the event loop's module composed with a client in place of the
adapter's own poll.
