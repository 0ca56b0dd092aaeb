# A TLA+ model of Hydra Engine

Hydra Engine is a trading system in Python: it collects candles, computes
indicators and market regimes, runs strategies, and sends orders to Korean,
US, crypto and prediction markets.  This directory models the order path, the
pipeline from candles to signals and the services around them, checks the models
with TLC and proves their main properties with TLAPS.  The modules follow the
code; where a document and the code disagree the code is modelled, and the
disagreement is a finding.

Contents: [the system](#1-the-system), [modules](#2-modules),
[runs](#3-runs), [findings](#4-what-the-violation-runs-show),
[bounds](#5-bounds), [fairness](#6-fairness), [proofs](#7-proofs),
[assumptions](#8-assumptions-and-abstractions),
[not modelled](#9-what-is-not-modelled), [plan](#10-plan).

## 1. The system

Several processes share one Redis: `hydra-core` (`main.py`: the API, the order
queue, the kill switch), the indicator, regime and strategy engines, the candle
collector, three supplemental pollers, the Telegram bot, and outside the
containers the CLI and the watchdog script that cron starts every minute.

| Component | State | Operations | Interacts with |
|---|---|---|---|
| Order queue `core/order_queue.py` | Redis `order_lock:*` (10 s), `idem:*` (24 h); `_blocked` in memory | `submit`, `block_new_orders` | risk engine (call), kill flag (shared), connectors (await) |
| Risk engine `core/risk_engine.py` | Redis `hydra:daily_pnl` | `check_order_allowed`, `update_daily_pnl`, `should_kill_switch` | called by the queue |
| Kill switch `core/kill_switch.py` | Redis `hydra:kill_switch_active`, set and never deleted | `execute`, `is_active`, `check_auto_triggers` | connectors, tracker, Telegram; API, CLI, watchdog, n8n call it |
| Position tracker `core/position_tracker.py` | Redis `hydra:positions:*` | `update`, `clear`, `get`, `get_all`, `save_snapshot` | read by the kill switch, the API, the shutdown |
| Graceful shutdown `resilience/graceful.py` | `_shutting_down` | `shutdown` on SIGTERM and SIGINT | blocks the queue, saves positions |
| Connectors `exchange/*` | circuit breaker; the account at the exchange | `create_order`, `cancel_all`, `set_leverage`, ... | subprocess (ccxt, Polymarket) or blocking HTTP (KIS) |
| Markets `config/markets.py`, `cli/market.py`, `cli/setup_wizard.py` | `markets.yaml`, a copy per process; stored keys | `enable`, `disable`, `get_active_markets` | connectors are built from it at startup |
| Resilience `resilience/*` | tokens; breaker state | `acquire`, the breaker's `call`, `with_retry` | the breaker by the crypto connectors, the others by nobody |
| Collector and stores `data/*` | table `ohlcv` | poll loop, `upsert`, `query`, `get_symbols` | publishes `hydra:candle:new` |
| Indicator, regime, strategy engines | Redis keys per (market, symbol, timeframe) | cold start, one handler per candle event | one channel, three subscribers; pass results through keys |
| Backtest `backtest/*`, `api/backtest.py` | position, trades, equity curve of a broker | `run`, `on_signal`, `close_open_position`, `compute_metrics` | the store and the decision tables of the live engines |
| PnL, state manager `core/pnl_tracker.py`, `core/state_manager.py` | Redis counters | `record_trade`, `reset_daily`, `get_summary` | `GET /pnl`; nobody in the repository records a trade |
| Pollers `supplemental/*` | Redis caches | three poll loops | outside services; read by the API and the bridge |
| OpenClaw bridge `agent/*` | Redis key with a TTL, report file | a round every 5 minutes | reads what the engines cached, asks an external agent |
| Watchdog `scripts/dr_watchdog.py` | failure count in DynamoDB | one run per minute | `/health`, kill switch, Telegram |
| Telegram bot `notify/telegram.py`, CLI `cli/kill.py` | none | `/killswitch`, `hydra kill` | HTTP |
| Read-only API, settings, logging | none | format and return | HTTP, Redis |

**How the core interacts.**  A client posts an order; `submit` answers from the
idempotency cache, or passes the kill flag, the Redis lock of (market, symbol,
side), the risk check and the connector lookup, then awaits one or two
connector calls, caches the answer and, in a `finally`, deletes the lock.  The
kill switch sets the flag that `submit` reads, cancels all resting orders,
reads the tracked positions and sends a closing order for each.  A shutdown
sets the in-memory block.

**How the pipeline interacts.**  Every minute the collector fetches the last 500
candles of each symbol, upserts them and publishes the symbol, whether or not
anything changed.  Three engines get the same message at the same time: one
reads the table and writes the indicator key, one reads the indicator key and
writes the regime key, one reads both and writes the signal key.  Nothing orders
them; what one reads may be what another has not rewritten yet.

**What is hard about it.**

* Interleaving: the Redis client is synchronous, so a coroutine runs alone
  between awaits, but every connector call lets other submissions, the kill
  switch and the shutdown in.  The kill flag is read before the awaits.
* Time: the lock lives 10 s; a submission may await two calls, each of which
  waits, without a limit, for a thread of the executor and the circuit breaker of
  its market, and then may run 15 s.
* Failure: a call can fail before or after the exchange acted, the process can
  die at any await (`restart: always`), and Redis keeps its keys.
* Partial failure: one exchange fails while others must still be cleared.
* Stale state: idempotency keys, tracked positions, a
  process's copy of `markets.yaml`, cached indicators and polls.
* Delivery: Redis pub/sub forgets what is published while a subscriber is away.
* Several commands where one is meant: `SET` then `EXPIRE`, truncate then write,
  three `GET`s for one summary, one `GET` per key for one snapshot.

**What makes each part correct.**  Order queue: one submission per slot, one
exchange order per idempotency key, answers that name an order really placed, no
order after the kill flag but from submissions under way, every submission ends.  Kill switch: nothing skipped
silently, only ever reduces, always answers, and with the queue leaves a flat
account.  Shutdown: the queue becomes quiet and stays so.  Pipeline: the
results of an event lie a bounded distance apart, and catch up.  Backtest: the
account reconciles, the report adds up, no decision looks ahead.  Rate limiter:
never more than capacity + rate * time, and everybody is served.  Breaker:
refuses only after failures in a row.  Markets: the last command stands.
Watchdog: closes after three failures and not before, and what is reported is
true.  Bridge: shows no effect without its cause, and nothing stale for ever.
Pollers: a failure leaves no trace.  PnL: a summary is of moments in order.
`PROJECT.json` lists the hazards, each at
its line, with the properties that would catch it.

## 2. Modules

`RiskEngine` holds `check_order_allowed` as an operator over integers in tenths
of a percent, so that comparisons at a limit are exact.

`OrderQueue` (extends `RiskEngine`) is `submit()` run by a set `Caller` of
coroutines.

| Code | Model |
|---|---|
| `order_lock:*` with `ex=LOCK_TIMEOUT` | `lockTTL[slot]`, ticks left, 0 = no key |
| `idem:*` | `idem[key]`, index in `book`, 0 = no key |
| `hydra:kill_switch_active`, `hydra:daily_pnl` | `killFlag`, `dailyPnl` |
| `OrderQueue._blocked` | `blocked` |
| where `submit` is suspended | `pc` = `idle`, `leverage` (in `set_leverage`), `create` (in `create_order`) |
| the `OrderRequest` | `req` |
| connector calls that have got to their subprocess, and its age | `running`, `callAge` |
| the answer of the running `create_order` | `landed` |
| the exchange: accepted orders | `book` |
| history variables | `answers`, `lapsed`, `atKill`; no guard reads them |

One action is one stretch between awaits.  `SubmitAdmitted` runs from the entry
of `submit` through the kill check, `SET NX EX`, the risk check and the
connector lookup to the first await.  `CallStarts` is a call that gets its thread
and, on a market in `OneAtATime`, the breaker, which lets one call run at a time
(`Breaker`); until then it waits for any time, and only then its `timeout=15`
begins.  A refused submission changes nothing: if
it took the lock, `finally` gives it back before any other coroutine can run, so
a refusal is a stuttering step.  `LeverageSet` and `CreateReturned` are the code
after each await, `LeverageFailed` and `CreateFailed` its exceptions with the
`finally`.  `CreateAccepted` is the exchange.  `Tick` ages locks and running
subprocesses; an order in `book` is `overdue` if a lock had lapsed in its slot when
it was placed.  `Crash` forgets the process and keeps Redis and the exchange.
`FuturesMode` are the connectors built with `is_futures=True`: none in the code as
it is deployed, so that `set_leverage` suspends only in the runs that want the lock
to age for as long as the code would let it; the leverage itself is not modelled.

`AdmissionGate` is the abstract specification: a turnstile that callers enter
while it is open, leave, and pass at most one order each per visit; closing is
for good.  `OrderQueue!ImplementsGate` is the refinement under
`gate <- GateState, inside <- InFlight, spent <- callers with a landed order,
landings <- Len(book)`.

`KillSwitch` is `execute()` as a set `Killer` of overlapping executions:
`Start` (flag, first `cancel_all`), `CancelDone/CancelFailed`,
`CloseDone/CloseFailed`, `Notified`, with `Track` for the position tracker.  The
exchanges move all the time: `Trade` is an order that reaches one and fills or
rests, `Fills` one that rests and fills, between any two steps of an execution.
`held` and `late` are history: what was really held when the positions were read,
and which instruments got an order after the flag was set.  A call that fails may
or may not have had its effect.

`TradingCore` (extends `OrderQueue`, instantiates `KillSwitch` with the flag
shared) is the `hydra-core` process: an accepted order fills or rests and may fill
later, the kill switch and `GracefulManager.shutdown` run beside submissions, and a
crash takes all of them down.  An order that was on its way when the flag was set
and landed after makes its instrument one of the `Stragglers`; they stand for
`KillSwitch!late`, so that this module implements `KillSwitch` as well as
`OrderQueue`.

`CandleStore` is the table behind `OhlcvStore` as functions from open times to
rows, with `upsert`, `query` (oldest first, up to a limit) and `get_symbols`.

`Pipeline` (extends `CandleStore`) is the collector and the three engines.

| Code | Model |
|---|---|
| table `ohlcv` | `table[k]`: open time to the tick of the stored revision |
| `hydra:indicator:k`, `hydra:regime:k`, `hydra:signal:k` | `indicator`, `regime`, `signal`: the revision of the newest candle they were computed from |
| where `_fetch_and_store` is suspended | `task[k]` |
| an engine's `main` | `mode[e]` = `start`, `cold`, `listen`, `away` (reconnecting); `todo[e]` |
| its subscription, its running handler | `inbox[e]`, `hand[e]` |
| history | `announced`, `calm`; no guard reads them |

A handler is one action per stretch between awaits (`RegimeReads`,
`RegimeWrites`, ...), so that reads and writes of the three interleave freely.
`TaskFails`, `HandlerFails`, `Disconnect` and `Restart` are what can go wrong.
With `STRATEGY_DRY_RUN=false` an order would follow a signal; none is ever sent,
because the strategy hands its asynchronous Redis client to a `RiskEngine` made
for a synchronous one, whose check raises, and the handler swallows it.

`StrategyRules` holds what the live engines and the backtest share: `detect`,
`generate` and the sizing, over integers or `Missing` (NaN).  What they are given
is not the same on both sides (see [not modelled](#9-what-is-not-modelled)).

`Backtest` (extends `StrategyRules`) is a request (`run_backtest`), the loop
(`Replay`, one bar per step) and the end (`Report`).  `BacktestBroker` is the
record `broker`.  Money is in thousandths and not rounded.

`Watchdog` is a run of `lambda_handler` step by step (`watch`), the count in
DynamoDB, the host, and the two other requesters of a kill.  `executed` and
`told` say of each requester's last request whether it was carried out and
whether success was reported.  `streak` is history of the host, not of the count:
how often in a row `/health` was not answered 200; `unrecorded` says that it has
answered 200 since the count was last 0.

`Markets` is `markets.yaml` and its editors.  A save is two steps, `Edit`
(truncates) and `_save` (writes), with others in between; `copy[p]` is a
process's `MarketManager._data`.  Disabling a market that the copy does not have
writes nothing and is reported like any other (`Drop`).  `asked` is what the last
command to each market was, as reported; `behind` and `mangled` are the markets of
which a copy, or the file, may be out of date, `dropped` those whose command was
lost in such a copy.  No guard reads these four.

`Advice` is the bridge: three groups of reads (`Sections`), the agent, then
`SetResult` and `ExpireResult`, beside engines that go on writing.  The age of
the analysis is counted from its `EXPIRE`.

`Pollers` are the three poll loops, with what the sources say abstracted to how
often it has changed; the events poller has a key or, as in the compose file, none.  `PnlLedger` is the three keys of `PnlTracker`, with a log
of trades as history, and the three reads of `get_summary`.  `RateLimiter` is
`acquire` under its lock, with a leaking bucket as history that measures what was
granted.  `Breaker` is pybreaker in front of one market's command line; it is a
library, modelled from how `CryptoExchange._run` uses it.

`MCOrderQueue`, `MCKillSwitch`, `MCTradingCore` and `MCPipeline` give the
constants small values.  `MCServices` does so for the eight components that share
no state with each other; a variable `scene` names the one that moves in a
behaviour, so that their state spaces are added and not multiplied.

The modules `*Proofs` hold the theorems, `NaturalLemmas` what several of them
need of the natural numbers.  In the component modules an operator
marked `slip` is a plausible bug, kept beside the definition it would replace; no
specification uses one, and each is known to break a property.

## 3. Runs

| Run | Question | Properties |
|---|---|---|
| `order_queue` | Is `submit` safe with waiting calls, expiring locks, lost replies, crashes, a kill and a shutdown? | `TypeOK`, `LateOrdersWereInFlight`, `AnswersSound`, `AnsweredIsCached`, `ExclusiveUntilLapse`, `RepeatsExplained`, `ImplementsGate` |
| `order_queue_live` | Does every submission end, every lock come free? | `EverySubmitReturns`, `LocksComeFree` |
| `kill_switch` | Does `execute()` survive failing exchanges and orders that land or fill under it? | `NothingSkipped`, `SuccessMeansClosed`, `KillEnds`, `KillOnlyReduces` |
| `trading_core` | Among real submissions, with retries, lapsing locks and crashes, what does a kill leave behind, and is the shutdown quiet? | `CoreTypeOK`, `OnlyStragglersRest`, `KillFlattens`, `ShutdownQuiesces`, `CoreKillOnlyReduces` |
| `pipeline` | How far may the three engines' results lie apart, and do they catch up after lost events, failures and restarts? | `PipelineTypeOK`, `BoundedLag`, `SignalCatchesUp` |
| `services` | Does each component around the order path keep its promise? | backtest: `EquityReconciles`, `ReportAddsUp`, `NoLookAhead`, `TradesInOrder`, `DrawdownIsWorst`; watchdog: `KillIsEarned`, `SlowHostIsKilled`, `SuccessIsTrue`; markets: `CommandsSurvive`, `DisabledStaysOut`; bridge: `SnapshotIsCausal`, `AnalysisFresh`; `PollersRecoverHere`; PnL: `SummaryInOrder`; rate limiter: `GrantedWithinRate`, `AcquireReturns`; breaker: `RefusedOnlyWhileFailing` |

What they show, beyond "no error":

* The lock excludes until it lapses, and no longer (`ExclusiveUntilLapse`).  No
  choice of `LOCK_TIMEOUT` would change that, because a call may wait for any time
  before its subprocess starts.
* After the kill flag, at most one order per submission that was under way
  (`LateOrdersWereInFlight`).  These stragglers are the only reason why a
  successful kill that read true positions can leave something resting or open
  at a connected exchange (`OnlyStragglersRest`, `KillFlattens`).
* An order is placed twice under its key for two reasons only: nobody was told of
  the first one, because its outcome was lost, or the lock lapsed under a
  submission of the slot (`RepeatsExplained`).
* A kill execution ends although every call fails, skips nothing connected, and
  as long as it is the only one never turns a position it read truly, unless an
  order for it landed after the flag or its `cancel_all` failed: only what was
  cancelled cannot fill between the reading and the closing order
  (`KillOnlyReduces`; with real submissions `CoreKillOnlyReduces`).
* After a shutdown, submissions under way still finish; then nothing is placed
  until a restart, which forgets the block.
* In the pipeline the strategy reads what the others may not have rewritten: the
  regime of a signal can be two announcements old, and a new symbol has its first
  signal after three.  No more than that without a failure (`BoundedLag`); and
  because every poll announces again, whatever was lost is made up for
  (`SignalCatchesUp`).
* The report of a backtest adds up once the entry commissions, which no trade's
  pnl contains, are taken into account (`ReportAddsUp`).
* The watchdog fires after fewer than three failed checks in a row only if a
  healthy answer before them could not be recorded (`KillIsEarned`); a slow
  host is killed in the end; one that is down cannot be.  A reported success is
  true but for the bot (its route does not exist) and for a watchdog whose key
  was replaced (`SuccessIsTrue` names these two exceptions).
* A command to a market can be undone only by a process with a copy from before
  it, by one that read the truncated file, or by a death while saving; and only
  a process with such a copy drops one without carrying it out.
* Without an API key the cached events are `[]` for ever; with one, no failed fetch
  leaves a trace (`PollersRecoverHere`).
* A rate limiter serves everyone in front of whom nobody asks for more than the
  capacity; such a call blocks all others for ever (`AcquireReturns`).

## 4. What the violation runs show

| Run | Property | Counterexample |
|---|---|---|
| `order_queue_lock` | `SlotExclusive` | The lock key (10 s) expires while the submission waits for its call, or during the call (15 s); a second submission of the slot enters.  The first one's `finally` then deletes the second one's lock. |
| `order_queue_retry` | `OneOrderPerKey` | The call fails after the exchange accepted; nothing was cached; the retry places a second order. |
| `kill_switch_unconnected` | `SuccessMeansClosed` | A position on a market without connector is skipped with no error; success is reported. |
| `kill_switch_twice` | `KillOnlyReduces` | Nothing keeps executions apart or clears the tracker; the second one opens the opposite position. |
| `pipeline_window` | `RegimeBecomesCurrent` | With more candles stored than the engine asks for, `ORDER BY open_time ASC LIMIT` returns the oldest ones; indicator, regime and signal stay those of the first window. |
| `watchdog_reset` | `KillOnlyAfterThree` | A healthy answer whose reset raises is counted as a failure; two failed checks follow and the positions are closed. |

`PROJECT.json` quotes the doc, comment or test that says otherwise.

## 5. Bounds

* Two coroutines: every hazard of `submit` needs two, one that holds something
  and one that comes in.  What is proved holds for any number.
* Two keys and four requests (`MCRequest`): the same slot under two keys, the
  same key on two slots, leveraged and not, and a market without a connector.
  `MCRequestDisciplined` has one key per slot, so that
  `order_queue_retry` does not fail on a key used for another order.  `trading_core` has one request,
  which two coroutines submit: a first time and as a retry.
* `MaxOrders` = 2: a repeated order, or one before and one after the kill.  It
  is a guard of `CreateAccepted`: a call whose order no longer fits can still
  fail.  `order_queue_live` uses 1; liveness does not depend on the book.
* A tick is 5 s: `LockTimeout` = 2 and `CallTimeout` = 3 are the code's 10 s and
  15 s, in every run of `OrderQueue`.  `trading_core` uses 1 and 1: a call may
  wait past the lock's life whatever the two are, so locks lapse there too.
* `DailyPnl` = {0, -30}: no loss and a loss of exactly the limit, where `<=`
  and `<` differ; in `trading_core`, whose questions it does not touch, {0}.
* `FuturesMode` is {binance} in `order_queue` and `order_queue_live`, so that a
  submission awaits two calls and locks have the longest time to lapse; it is {},
  as deployed, in `trading_core`.
* One kill execution for what a single one promises; two for
  `kill_switch_twice`, where they may overlap.  Two instruments on two markets so that one can fail.
  `Holding` bounds the positions that orders may lead to (-1 to 1 in
  `trading_core`), not what the kill switch does: two executions take a position
  of 1 to -1, and a straggler may fill at any moment of an execution.
* `Faults` says which of `crash`, `lost_reply` and `idem_ttl` happen in a run.
  A cache entry expires (24 h) only in `order_queue_live`: after that a key is
  new again by design.
* Symmetry is used over coroutines only, and never with liveness.
* `pipeline`: one symbol (the engines' handlers of different symbols share
  nothing but the inbox), a window of three candles of which two suffice, two
  revisions of a candle, one failure of any kind at any point, inboxes of one
  message.  A publish waits for room in the inboxes: Redis buffers far more, but
  a longer backlog only repeats messages that say the same.  `pipeline_window`
  lets the market go on past a window of two.
* `services`: seven candles, two of warm-up, with a gap in time and a query limit
  that cuts the last one, every history of three prices, and requests that begin
  before, inside and after the warm-up; a capital of 3 and trades of 8, so that a
  losing account is overdrawn; indicators reach every branch of both
  decision tables.  Three failures for the watchdog as in the code, two deaths;
  resets that raise are not bounded, and `watchdog_reset` needs no death.
  Two markets (one that needs keys), one worker and two command lines, two
  commands: a stale copy needs two processes, a torn one a third.  Three trades or
  resets around a midnight.  A capacity of three with demands of 1, 3 and 4.
  Two threads on a breaker that opens after three failures.

## 6. Fairness

`FairSpec` assumes `WF(Tick)`: time passes; `WF(CallEnds(p))`: a running
subprocess returns, fails, or is ended by `timeout=15` in `CryptoExchange` and
`PolymarketExchange`; and `SF(CallStarts(p))`: whoever waits for a thread or the
breaker, which come free again and again, gets them in the end (the executor's queue
is first in, first out; a lock gives no such order, but nobody can hold it for more
than 15 s at a time).  No bound is assumed on that wait.  `Tick` waits for running
subprocesses at their timeout, so time cannot pass those by; a call that has not
started holds no clock.  `FairKillSpec` assumes that the call an execution awaits ends.
Nobody has to submit, kill, trade, crash or have an order accepted.

`Pipeline!FairSpec` assumes that the collector polls for ever and its tasks end
(ccxt's 15 s timeout), and that each engine goes on with what it has.  Failures are
bounded and never forced; the market need not move.  `MCServices!Spec` assumes
that the watchdog's runs are scheduled and go on (a run may still die), that a
poll of each source succeeds again and again once the bounded failures are over,
that time passes and that a coroutine at the head of the rate limiter's queue is
run.  Nothing is assumed of the other components.

## 7. Proofs

`tlapm OrderQueueProofs.tla` proves, for all sets of coroutines, keys,
instruments, markets and requests and all timeouts, from `OrderAssumption`
(timeouts positive, requests well-formed, 0 a possible pnl) and
`RiskAssumption` (limits are naturals):

| Theorem | States |
|---|---|
| `TypeCorrect` | `Spec => []TypeOK` |
| `LockExcludes` | `Spec => []ExclusiveUntilLapse` |
| `KillStopsOrders` | `Spec => []LateOrdersWereInFlight` |
| `AnswersAreSound` | `Spec => []AnswersSound` |
| `AnsweredStaysCached` | `Spec => []AnsweredIsCached` |
| `RepeatsAreExplained` | `Spec => []RepeatsExplained` |
| `QueueIsGate` | `Spec => ImplementsGate`, the refinement |

The argument.  `TypeOK` is not inductive: a step that leaves `submit` looks up
`req[p]`, which is a request only while `p` is inside.  `Typed` adds `InHand`
(a caller inside has a request; one outside has no age and no landed order).
`ExclusiveUntilLapse` is inductive relative to it.
No theorem assumes anything of the two timeouts: a call may wait past the life of
the lock whatever they are, so that `SlotExclusive` has no condition on them to hold
under (`order_queue_lock`).  For `KillStopsOrders`, `KillAccounting` says whose late
order is in the book: everyone inside after the flag was inside when it was set and
has at most the one late order it has landed.  `AnswersSound` and `AnsweredIsCached`
are inductive relative to `Typed`.  `RepeatsExplained` needs all of these and
`Repeats`: what is cached has been answered; whoever has yet to place an order finds
only orphans under its key in its slot (`FindsOrphans`), unless a lock has lapsed
there; and the order that a caller carries is in the caller's slot.  It says of a
repeat what the code leaves possible, an orphan (`order_queue_retry`) or a lapse, and
both happen.
`QueueIsGate` maps each action to an action of the gate or to a stutter; refusals already are.

`tlapm KillSwitchProofs.tla` proves, for all sets of executions, instruments and
markets and any failures, from `KillAssumption`:

| Theorem | States |
|---|---|
| `KillTypeCorrect` | `KillSpec => []KillTypeOK` |
| `KillSkipsNothing` | `KillSpec => []NothingSkipped`, for overlapping executions too |
| `SuccessIsTrue` | `Connected = Market` implies `KillSpec => []SuccessMeansClosed` |
| `OneKillOnlyReduces` | one execution (`Alone`) implies `KillSpec => KillOnlyReduces` |

`NothingSkipped` speaks of the end only; `AllAccounted` extends it to every stage:
what rests, and did not land after the flag, is on one of the execution's lists; an
execution that has begun has set the flag, so that whatever comes to rest behind it
is late.  For the last theorem, `AllReadTrue` says that between the reading and the
closing order a position keeps its value, unless an order for it landed late or the
`cancel_all` of its market failed: of the rest, what could have filled was cancelled
before the reading.  It needs `Alone`, and `kill_switch_twice` shows why.
The conditions of `SuccessIsTrue` and `OneKillOnlyReduces` are exactly what the
two violation runs of the kill switch drop.

`tlapm CoreProofs.tla` proves of the composed process, from the assumptions of
`OrderQueue` and `CoreAssumption` (connectors are for known markets):

| Theorem | States |
|---|---|
| `CoreIsQueue` | `CoreSpec => Spec`: every step of the process is a step of `OrderQueue` or leaves it alone |
| `CoreKeepsTheQueue` | `ExclusiveUntilLapse`, `RepeatsExplained`, `AnsweredIsCached` and `LateOrdersWereInFlight`, for `CoreSpec` |
| `CoreTypeCorrect` | `CoreSpec => []CoreTypeOK` |
| `ShutdownIsQuiet` | `CoreSpec => ShutdownQuiesces` |
| `OnlyStragglersAreLeft` | `CoreSpec => []OnlyStragglersRest` |
| `KillIsFlat` | `CoreSpec => []KillFlattens` |
| `CoreIsKillSwitch` | `CoreSpec` implies `KillSpec` with `Stragglers` for `late`: the process implements the kill switch |
| `CoreKillReduces` | one execution implies `CoreSpec => CoreKillOnlyReduces` |

`CoreIsQueue` carries the queue's theorems over.  The shutdown needs only that a
process which is shutting down is blocked.  For the two theorems on the kill
switch, `RestAccounted` says at every stage what may still rest (on an exchange
still to be cancelled, one whose `cancel_all` failed, or a straggler's), with
`KillAccounting` showing that whoever lands an order after the flag is a
straggler; `Settled` says of a lone, true execution without errors that what is
really held is what it has still to close.  `CoreIsKillSwitch` shows that
every step of the process is a step of `KillSwitch` or leaves it alone: an order that
lands is a `Trade`, late exactly if it makes a straggler (`LandingIsTrade`).
`CoreKillReduces` follows from it and `OneKillOnlyReduces`, with real submissions in
place of orders from anywhere.

`tlapm PipelineProofs.tla` proves of the pipeline, for all sets of symbols, all
windows, clocks, inbox sizes and numbers of failures, from `PipelineAssumption`
(the minimum of candles fits the window, the window fits a fetch, bounds are
naturals):

| Theorem | States |
|---|---|
| `PipelineTypes` | `Spec => []PipelineTypeOK` |
| `PipelineLag` | `Spec => []BoundedLag` |
| `NewestNeverGoesBack` | `Spec => [][\A k \in Key : Computed(k) <= Computed(k)']_vars`: nothing takes back the newest candle the next indicator will include |

`PlTyped` is the type invariant with what engines have in hand.  `BoundedLag`
speaks only of symbols whose announcements are handled; it rests on what holds
while they are not.  `Kept` says of a table that every stored candle is of a
moment at which it was open, and that within the reach of a fetch none is missing
below the newest one; so no refetch takes a candle back or puts one in between
(which is `NewestNeverGoesBack`).  `Ordered` says that what is known of a symbol is known
in the order it is handed on: the last announcements, the indicator and the regime
are no newer than what they are made from, and a value read but not yet written is
no older than the one it will replace.  `Lag` then follows each announcement: an
engine that has neither been told (in its inbox) nor is about to read has what the
announcement promised, in its cache if it has written and in its hand if it has
not.  `calm`, which a failure or a restart resets, says how many announcements in a
row found the one before handled, and so how many steps of that argument apply.
`LagInv`, the three together with `PlTyped`, was checked by TLC on both pipeline
instances (364 682 and 1 259 345 states) before it was proved.

The components around them share two modules of proofs (`OperatorProofs` for what
an operator commands and reads, `ResilienceProofs` for the two guards of an
exchange); the backtest has its own.  All theorems are for every value of the
constants, from the assumptions of the component's module.

| Module | Theorem | States | Inductive invariant |
|---|---|---|---|
| `ResilienceProofs` | `NeverAboveRate` | `RlSpec => []GrantedWithinRate` | what the leaking bucket holds plus what a refill now would leave is at most the capacity |
| | `RefusalIsJustified` | `BrSpec => RefusedOnlyWhileFailing` | the breaker's counter is the true streak, its clock the true silence |
| `BacktestProofs` | `BacktestReconciles` | `BtSpec => []EquityReconciles` | the account is well typed and reconciles with `booked`, shown for `on_signal` and `close_open_position` by lemmas |
| | `BacktestLooksBack` | `BtSpec => []NoLookAhead` | the window of a bar is the same function whatever comes after it |
| | `BacktestAddsUp` | `BtSpec => []ReportAddsUp` | `BookInv`: `booked` is the total of the listed trades, and the last point of the curve is the capital |
| | `BacktestInOrder` | `BtSpec => []TradesInOrder` | `OrderInv`: the candles are sorted, trades and the open position follow one another, and nothing is from the candle of the next bar or later |
| | `BacktestDrawdown` | `BtSpec => []DrawdownIsWorst` | `BookInv`; a lemma on the loop of `compute_metrics`: after j points it holds the highest of them and the deepest fall up to there |
| | `SizeIsZeroOrOne` | from ten dollars on, the effective size is 0 in a falling market and 1 in any other | none: a fact of `StrategyRules` |
| `OperatorProofs` | `WatchdogWaits` | `WdSpec => KillIsEarned` | unless a healthy answer is unrecorded, the stored count never exceeds the true streak of failed checks; a run's copy is the stored count until it writes |
| | `ReportsAreTrue` | `WdSpec => []SuccessIsTrue` | an alert follows a request that was carried out or a bad key |
| | `AgentSeesCauses` | `AdSpec => []SnapshotIsCausal` | the cache is causal, and what was read is no newer than what is cached |
| | `AnalysisExpires` | `AdSpec => []AnalysisFresh` | an analysis without a TTL was severed or is about to get one |
| | `CommandStands` | `MkSpec => []CommandsSurvive` | a copy agrees with the commands but for what it is `behind` on, the file but for what is `mangled`, both but for what was `dropped` |
| | `DisabledIsNotConnected` | `MkSpec => DisabledStaysOut` | the same |
| | `SummaryReadsForward` | `PlSpec => []SummaryInOrder` | `PlInv`: the keys are what the log amounts to today, each field read so far is what a prefix amounts to, in the order of the reads |

Three of these speak of recursive functions over a list: `Total` of the trades,
`Drawdown`'s walk along the curve, `Books` of the log.  The library's induction
theorems take an operator, which no installed prover can instantiate; the form of
induction used here takes a set instead.  `NaturalLemmas` derives from
the well-foundedness of `<` that a set with 0 and the successors of its members
holds every natural (`InductiveSet`, `EveryIndex`), and with it that a function
defined by a first value and a step at each index exists and satisfies its
definition (`RecursionExists`).  `TotalOfPrefix`, `WalkOfCurve` and `BooksAreKept`
apply this to the three functions; after them a list with one more element is one
more step.

`DrawdownIsWorst` was first stated of every fall.  The proof failed where a peak
is not above zero, and TLC confirmed it with a trade amount above the capital:
nothing in `broker.py` compares the two, an account can be overdrawn, and then a
fall to below zero is deeper, relative to a smaller peak, than the one from the
running peak that `compute_metrics` measures.  The property now says which falls
count (`Counts`), and `services` trades with an amount that overdraws the account.

TLC checked each invariant first.  Every invariant and every action property of a
passing run is stated by a theorem, some under the conditions the tables give.  Only
model-checked is liveness (`EverySubmitReturns`, `LocksComeFree`, `KillEnds`,
`SignalCatchesUp`, `SlowHostIsKilled`, `PollersRecoverHere`, `AcquireReturns`),
which is out of the prover's reach.

## 8. Assumptions and abstractions

* The exchange handles a request while the connector call is running.  A request
  that is still on the wire when its subprocess is killed, and lands after, is
  not covered; it would be one more straggler or orphan.
* In `TradingCore` the kill switch's own calls take any time, which includes the
  wait for the executor and the breaker behind the submissions' calls; that a
  breaker which is open fails them at once is one of the ways in which they fail.
* Redis commands do not fail.  Where they would raise, `submit` has either done
  nothing yet or has its `finally`.
* The event loop is responsive.  The KIS connector blocks it (no await
  suspends), which `OrderQueue` does not cover.
* An order id is the order's place in `book`.  The ccxt answers
  have no `order_id`, so `submit` makes one up; what matters here is which order
  an answer stands for.
* The process restarts at once after a crash; connectors are the same again.
* Quantities, prices and order types are dropped; `TradingCore` trades units.
* `hydra:last_snapshot` is written at shutdown and read by nobody: left out.
* Nothing in the repository calls `PositionTracker.update` or
  `RiskEngine.update_daily_pnl`.  They are public operations, so `Track` and
  `UpdateDailyPnl` may happen at any time, or never.  So with
  `PnlTracker.record_trade` and the rate limiter.
* Results of the pipeline are revisions, not values: two candles that give the
  same regime count as different.  A revision of an open candle replaces the one
  before; the collector's fetch and its upsert are one step, because nobody else
  writes the table.
* Backtest amounts are integers (prices divide the trade amount) and are not
  rounded; the code rounds to six digits at the end.
* pybreaker is as its documentation and the code's use of it have it: one call at
  a time, consecutive failures, one trial after the timeout.
* Runs of the watchdog do not overlap: one per minute, of at most about 45 s of
  timeouts.
* Two overlapping saves of `markets.yaml` leave the document of the later one;
  that the tail of a longer document may stay behind a shorter one is left out.
* The bridge reads one symbol; the agent's answer is one value.

## 9. What is not modelled

* Indicator mathematics and the Sharpe ratio: numerical code over floats.  The
  indicators are an operator parameter where their values matter.
* The leverage of an exchange account.  `create_exchanges` builds no connector in
  futures mode (`factory.py:30-34`), and without it `set_leverage` returns without a
  call, so that no order gets its leverage, although the comment at
  `order_queue.py:110` has it set before every futures order.
* What live and backtest decide from the same history.  They share the rules, not the
  inputs: the live indicators are of the oldest 250 candles of the table
  (`pipeline_window`), the live close is 0.0 because `compute` has stripped the cached
  indicators of it, and the regime of a signal may be of another event (`BoundedLag`);
  the backtest's are of the last 210 candles before the bar.
* The KIS connector: it blocks the event loop without a timeout, so that a lock
  may lapse at any point of a submission; what then still holds is what
  `order_queue` shows for lapsed locks.
* `StateManager` (constructed, never called), `with_retry` (no caller),
  `check_auto_triggers` and `should_kill_switch` (no caller, no effect).
* What nobody reads: the snapshot of the shutdown, the scores, report and
  Telegram alerts of the bridge.  Its comment speaks of overwriting the sentiment
  of a symbol (`openclaw_bridge.py:223`), but its keys
  (`hydra:openclaw:sentiment:*`) are not those of the poller
  (`hydra:sentiment:*`), and nothing reads them.
* Unrealized pnl and the per-symbol counter of `PnlTracker`.
* Eviction by Redis (`allkeys-lru` in the expert profile), failing Redis commands
  in the order path, two `hydra-core` workers with an in-memory block each.
* HTTP routing and authentication, CLI formatting, settings, logging, and the GET
  routes that return what a key holds.

## 10. Plan

Done: `RiskEngine`, `AdmissionGate`, `OrderQueue`, `KillSwitch`, `TradingCore`;
`CandleStore`, `Pipeline`; `StrategyRules`, `Backtest`, `Watchdog`, `Markets`,
`Advice`, `Pollers`, `PnlLedger`, `RateLimiter`, `Breaker`; and eight modules of
proofs, with a theorem for every safety property that a passing run checks.

Next: `Watchdog` composed with `KillSwitch`: what a repeated request, after an
answer that was lost, does to positions that are already closed
(`kill_switch_twice` shows the mechanism).
