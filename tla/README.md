# A verification model of futures-bot-backend

TLA+ modules, TLC configurations and TLAPS proofs for the trading bot in this repository (NestJS, BullMQ,
TypeORM, Binance and Bybit futures). The modules are translated from the TypeScript; paths below are relative
to `src/`, and `PROJECT.json` maps every definition to the lines it stands for, lists the runs, the mutants,
the findings, the hazards and the theorems.

To check a run: `tlc -workers 2 -config X.cfg M`. To check a proof module: `tlapm M.tla`.

---------------------------------------------------------------------------------------------------------

## 1. The system

A single Node process trades a few symbols. A market stream delivers klines; a closed candle becomes a job of a
BullMQ queue (concurrency 1); the job generates a signal, asks the risk manager, and executes the signal with an
entry, a stop loss and a take profit on the exchange. A private stream reports fills; a cron reconciles the rows
with the exchange every minute; a dashboard starts, stops and kills the bot. PostgreSQL and Redis survive the
process, everything else does not. Node runs one callback at a time, but every `await` lets the other ones in, and
TypeORM's `save` writes the whole object that was read earlier: nearly everything that is hard here comes from that.

### 1.1 Inventory

| Component (source) | State | Operations | Talks to | Hard because | Correct when |
|---|---|---|---|---|---|
| **Trade lifecycle** (`trading/execution.service.ts`, `bot/kill-switch.service.ts`) | rows of `trade` and `order`, `closingTrades` | bracket-fill handlers, entry-price sync, `reconcilePositions`, trailing, `closeAllPositions`, orphan check | exchange, database, user stream, cron, dashboard | five activities interleave on the same rows with stale objects; lost and repeated updates; legs the exchange drops; restarts | a closed row means no position, a row is closed and booked once, the bot takes no stop from an open one, zombies end |
| **Entry** (`executeSignal`) | local to the call, order rows | size, leverage, entry (market, or limit + wait + cancel + IOC), stop, target, rows | exchange, database | twelve calls, each may be refused or lose its answer; partial fills | a row has its stop, the legs are linked, the exposure of one signal is bounded |
| **Risk manager** (`trading/risk-manager.service.ts`) | cooldown map, `pausedUntil` | seven checks started together, `recordTradeExecuted` | database, exchange | checks read at different moments, results are booked later, memory is lost on restart | limits overshoot by a bounded amount, entries are a cooldown apart, a pause ends |
| **Strategy cycle** (`bot/bot.module.ts`, `bot/strategy-cycle.processor.ts`, `bot/bot-state.service.ts`) | enabled, symbols, the queue | candle to job, `process`, start, stop, kill | market stream, queue, risk, execution | repeated candles, stalled jobs that run again, a switch-off during a job | one entry per candle, a stopped bot (almost) stops entering, shadow mode never enters |
| **Bybit market stream** (`bybit/bybit-market-ws.service.ts`) | socket, topics, reconnect timer, circuit, health check | subscribe, unsubscribe, reconnect | network, bot module | timers overwritten and not cleared, handshakes without data | always a way back, every symbol asked for, bounded attempts; a silent stream is not noticed |
| **Binance market stream** (`binance/binance-market-ws.service.ts`) | as above, one stream | as above | as above | as above, with two staleness clocks | as above |
| **Binance user stream** (`binance/binance-user-ws.service.ts`) | listen key, socket, reconnect timer | start, stop, keepalive, reconnect | bot module, kill switch, cron | every operation awaits REST while others run | one chain per start, silent when stopped, comes back after outages |
| **Bybit user stream** (`bybit/bybit-user-ws.service.ts`) | socket, authenticated, timer, circuit | start, stop, authenticate, reconnect | bot module, kill switch | timers overwritten; every attempt can fail at the socket or the authentication | comes back after an outage or opens its circuit, which bounds its attempts |
| **Exchange ports** (`exchange/*`) | the provider, fixed at start-up | hands out one of two services per port | everything that trades | callers cannot know which service they have | what callers rely on is true of both |
| **Pullback setups** (`strategy/pullback-ob-signal.service.ts`) | one setup per symbol: zones, bias, wait, break time | found, waited on, given up, entered, restored from a snapshot | signal generation, backtest | a dozen early returns; the last structure break changes its type later | a setup ages with the bars, loses broken zones, is cancelled only by news |
| **Trade simulator and backtest** (`backtest/trade-simulator.ts`, `backtest/backtest.service.ts`) | one position, cooldown, the bar | fill, break-even, three trailing modes, bracket, forced close | pullback service, files | what happens inside a candle; the same minutes serve the fill and the position | a stop only tightens, the bracket encloses the fill or misses it by a bound, trades are in time order up to a bound |
| **Daily result and telemetry** (`updateDailyPnl`, `trading/telemetry.service.ts`) | a `daily_pnl` and a `daily_telemetry` row per day | read, count, save | handlers, reconciler, kill switch, worker | concurrent read-count-save; nobody waits for the telemetry's calls, and a failed one is only logged | alone, what was written is exact; overlapping calls lose counts, never invent any |
| **Heartbeat** (`maintenance-cron.service.ts`) | time of the last alert | compares `latestCycleAt` of the day's row with a threshold | telemetry, notifications | reads what late saves may have put back and failed ones left out | a silent bot is reported (a working one may be, too) |
| **Signal generation** (`strategy/signal-generator.service.ts`, `pre-filter-gate`, `signal-cache`, `hybrid-signal`) | `previousCycle`, the cache of HOLDs, gate switch | gate, cache, strategy, save | market data, worker, heartbeat | what is remembered is saved before it is read; a coarse cache key | a skipped cycle is one that held; a crossover signal is a new cross (it is not: finding 3) |
| **Market structure** (`strategy/smc.service.ts`) | - | swings, structure breaks, order blocks, gaps of a window of candles | signal generation, backtest | asked again at every candle for a window one further on; live, the last candle is still open | what was found stands while its candles are in the window |
| Indicators, LLM (`strategy/*`) | - | arithmetic on one window; nothing calls the LLM | signal generation | floating point | inputs of the models |
| REST clients, exchange info, DTOs | caches of filters | signed requests | exchange | I/O | environment of the models |
| Dashboard, snapshots, notifications, health, config | - | reads, writes nobody reads back | - | - | - |

### 1.2 How the models fit together

```
 candle -> StrategyCycle -> RiskGate -> EntryProtocol -> TradeLifecycle  ==implements==>  TradeLedger
              ^ enabled                                     ^ updates
   ExchangePorts = MarketDataPort                        UserDataPort
     = BybitMarketStream | BinanceMarketStream             = BinanceUserStream | BybitUserStream

 SignalRecords = SignalGeneration (what a cycle decides) + DayRows (what is counted) + heartbeat

 Backtest = PullbackSetup (the live service) + TradeSimulator
 StructuredBacktest = Backtest + MarketStructure (shows what Backtest assumes)
```

Each module leaves open (as nondeterminism) what its neighbours decide. The interfaces: `StrategyCycle.Risk` approves
or rejects freely (with a position too: when the exchange cannot be asked and no row is open, `risk-manager.service.ts:152-174` approves); `RiskGate.Execute / ExecuteFails` are the outcomes that
`EntryProtocol` produces; `RiskGate.CloseRow` books between 0 and `MaxBooked` times because `TradeLifecycle`'s closers may
lose or repeat a booking (a stale save that undoes several earlier ones is in `DayRows`, not in `RiskGate`); `StrategyCycle`'s signals are what `PullbackSetup.Enter` gives, on any candle, or `SignalGeneration` in hybrid mode; `TradeLifecycle`'s `LoseEvent` is what an outage of the user stream does, since it has no replay.

---------------------------------------------------------------------------------------------------------

## 2. Modules and how they correspond to the code

**TradeLifecycle** (`MCTradeLifecycle`, `TradeLifecycleProofs`). The trades of one symbol from the entry to the closed row. An
action is the code between two awaits that matter; what an activity read is kept in variables of its own (`rcNew`, `rcKnown`, `ksTodo`,
`syncing`, `wkLegs`, ...), so a later save can overwrite what was written in between, as TypeORM's does. Activities:

| prefix | code | state |
|---|---|---|
| `Ws` | `handleConditionalUpdate`, `handleOrderUpdate` (the row found, then saved), `handleConditionalBracketFill`, `handleBracketFill`, the entry branch of `handleOrderUpdate` | `closing`, `wsPc`, `wsLeg`, `syncing` |
| `Rc` | `reconcilePositions`: absent branch (fills, cancel legs, save, book), present branch (mark, software stop, price correction, trailing) | `rcPc` ... `rcLeg` |
| `Ks` | `KillSwitchService.activate`, `closeAllPositions` | `ksPc`, `ksTodo`, `ksT` |
| `Rk` | `checkExistingPosition` (the orphan close) | `wk`, `wkT` |
| `Op` | `executeSignal` in market mode: entry, stop, row, target, trade, link | `wk`, `wkT`, `wkLegs` |
| rest | exchange (`Trigger`, `Drop`, `ManualClose`, `LoseEvent`), process (`Crash`, `Start`) | `pos`, `live`, `events`, `dropped`, `enabled` |

The exchange may cancel a resting leg, let it expire or reject it when it triggers (`Drop`): its row is saved as canceled, a warning is logged, and the trade
stays OPEN without the leg (`execution.service.ts:632-645`). REJECTED and EXPIRED are CANCELED in the model: nothing reads the difference. The entry order's own row, which the reconciler brings up to date
(`:954-962`), is left out; the save of a trade whose entry price was zero (`:946-948`) is part of `RcMark`.
A quantity is there or gone; prices appear only as `offPrice`. `Active` says which activities run, so that the runs can
combine the ones a question is about. A property that is only true, or only checked, without some activity says so where it is stated.
What `save` does is taken from TypeORM: all columns of a stale object are written; saving a trade with a loaded `orders` relation unlinks
the rows that were not loaded.

**TradeLedger** is the abstract specification: a trade that was entered is recorded once, closed only when its position is gone, stays
closed and is booked once, afterwards; once the kill switch was pressed (`alarm`), a row may be closed whatever the position and a result added again. `TradeLifecycle!ImplementsLedger` maps the row's status to the ledger's phase.

**EntryProtocol** (`EntryProtocolProofs`). `executeSignal`, call by call, in both entry modes, on both exchanges and with or without the IOC
fallback (`config`, chosen in `Init`). A failed call was *refused* (nothing happened) or *lost* (it happened, the answer never came). `Reported` models
that Bybit's answer to an order carries no fill: the adapter fills in `NEW` and `'0'`.

**RiskGate** (`MCRiskGate`, `RiskGateProofs`). `evaluateSignal` with each check answering at a time of its own, `recordTradeExecuted`, and around it
entries, closes, bookings, midnight, ticks and a restart. Timers are kept as what is left of them. Losses are units of one trade.

**StrategyCycle** (`StrategyCycleProofs`). Candles, the queue with its job ids and retention, the worker between its awaits, the bot's switches, shadow
mode, restarts (BullMQ gives a stalled job out once more, and fails one that stalls twice), possibly in another mode. A stop is the dashboard's or the kill switch's first step, which is the same call; positions are not part of this module.

**BybitMarketStream**, **BinanceMarketStream**, **BinanceUserStream**, **BybitUserStream**. One variable per field of the service;
`orphans`, `forgotten` and `lost` are timers and sockets whose handle was overwritten and that nevertheless fire or deliver. A timer that is armed may fire;
durations are left out. The market streams differ where the code differs: Bybit multiplexes topics and forgets timers, Binance has one stream and two staleness
clocks. So do the user streams: Binance awaits a listen key, so that `start()` and `stop()` are several steps with others in between; Bybit authenticates on the
open socket and takes the listeners off a socket before it drops it, so that only the current one matters. Both market streams can fall silent (`mute`): pings are answered and no klines come. Binance's second clock notices; Bybit's pongs set the one clock that its health check reads (`bybit-market-ws.service.ts:202`, `:222`), so it never does. Nothing in the Bybit user service notices a connection that
dies without a word, an authentication that is never answered or a subscription that is refused: `open` and `authed` say what the service believes.

**MarketDataPort** (`MarketDataPortProofs`) and **UserDataPort** compose two services each, as `exchange.module.ts` binds them: `EXCHANGE_PROVIDER` (validated against the two names) picks
one for the life of the process, the other one is constructed and never called. Both modules of a port name the same state alike, and the variables they share are
those of the service that is bound, so that a property of the port is stated once. **ExchangePorts** (`ExchangePortsProofs`) puts the two ports into one instance: they share the provider
and nothing else, so a behaviour follows one of them, from calls that the bot module and the dashboard may make to it.

**SignalGeneration**. One cycle of `generateSignal`, from `saveCycleData` on, is one action: everything that is fetched is there before. A *view* is what the indicators, SMC and
the 1h candles show; the gate's score, the cache key with its rounding, and the hybrid strategy's two branches are operators on a view. The pullback strategy's answer is left open here (it is
`PullbackSetup`), and so is `signalSchema`'s verdict on it. `held` is what a correct cache could know: conditions, rounded, for which the strategy did answer HOLD.

**DayRows**. The rows of `daily_pnl` or `daily_telemetry` (a behaviour follows one table) and the calls under way on them. What `save` does is taken from TypeORM: it selects the row, names in its
UPDATE the columns in which the copy differs (a decimal is read as a string, so `realizedPnl` always differs), and inserts when there is no row, which the unique date lets succeed
once. The telemetry saves a zero row first and counts in the same object. Each of these is a step; midnight may fall between any two. At each the query may fail or the process die (`Fails`): the telemetry logs it (`telemetry.service.ts:71`, `:96`), the closer gets an exception, and what was not written is never written.

**SignalRecords** (`MCSignalRecords`, `SignalRecordsProofs`) composes them: the worker's cycle, the records it makes of its signal without waiting for them, the bookings of closed trades, the heartbeat and time. The bot is on.

**PullbackSetup**. `generateSignal` as a disjunction of what it can do with the setup, in the order of the code: found (`Detect`), expired, cancelled, flipped,
mitigated, kept (`Await`), entered. Directions are 1 and -1, so `d * price` reads the same for a long and a short; distances in percent or in ATRs are prices. The
bias of the higher time frame, slope, premium, RSI, volume and candle patterns may be anything on any candle, under the constraints the code puts on them
(`HtfBias`, `Structures`). What SMC may report is `Active`; the last structure break is an input. `Restored` is `restoreFromSnapshot`: zones with their confluence marks, wait and break time. (The entity gets that time from a BIGINT column as a string, but the replay reads the file that `scripts/export-snapshot-for-replay.sh:34` writes, where `json_build_object` makes it a number, so the `!==` of line 172 compares numbers.)

**TradeSimulator**. One position through candles: best price, break-even lock, one of three trailing modes, stop and target, in the pessimistic mode asked before and
after the trailing. Prices are integers, and the trailing's tenths are rounded down. Quantities, commissions, the adverse excursion and
the buckets are only reported and left out.

**Backtest** (`MCBacktest`, `BacktestProofs`) composes the two as the loop of `BacktestService.run` does in `pullback-ob` mode: the position first, minute by minute if minutes were
downloaded; then cooldown, signal, and the fill in the first `LimitWait` minutes of the *next* bar. The structure breaks are the environment (`Breaks`, `LaterBreaks`): they stay, are
renewed, are renamed as older swings leave the window, or vanish. The warmup candles may have left one before the first bar, and a restored setup meets the break it was found under, one that is newer, or none; if only the live
bot saw that break, on the candle that had just opened (`OpenTime`), an older one may be the last. `entrySlippage` and `adverseSlip` are zero.

**MarketStructure**. What `analyze` finds in a window of candles, by quantified definitions instead of the loops: a swing is a candle higher (lower) than its `Lookback` neighbours on both sides, a break a swing
beyond the one before it, an order block the last candle of the other colour before a swing. A break is the place in which the code looks at it (by index; of one candle the high first), since that is all that orders breaks.
The second half is the calls: a window, and the next one a candle further on. In a backtest all candles are closed (`backtest.service.ts:323`). The live bot asks `getKlines` right after a candle has closed
(`signal-generator.service.ts:118`), and the exchange's last kline is then the one that has just opened; the code knows (`dashboard.controller.ts:278` takes its close for the current price), and `analyze` takes it like the others.

**StructuredBacktest** puts Backtest beside MarketStructure in one instance. They share no variable: a behaviour follows one of them, and what is proved of Backtest's `Spec` holds of it too (`CoversBacktest`). The second shows for windows of candles what the first takes for granted of the breaks (`LaterBreaks`, `Structures`).

Definitions marked `Mutant of X` stand next to `X`: each is a plausible bug, and with it in the place of `X` the property that
names it is violated (PROJECT.json, `mutants`).

---------------------------------------------------------------------------------------------------------

## 3. Runs

| Run | Instance | Shows |
|---|---|---|
| `lifecycle_trailing` | 1 trade; stop, target, trailed stop; 1 handler; worker, entry-price sync, handler, reconciler with trailing | `ClosedMeansFlat`: whoever wrote CLOSED_SL, _TP, _MANUAL or _ORPHAN, whatever stale rows it used, the quantity is gone |
| `lifecycle_ledger` | 2 trades of one symbol, one with stop and target, the other with its stop always refused; 2 handlers, 1 restart, 1 kill; handlers, zombie check, kill switch | `ClosersExclusive` (closingTrades is a mutex), `ImplementsLedger` |
| `lifecycle_live` | 1 trade, stop and target, no trailing; worker, handler, reconciler, legs dropped by the exchange; fairness of the reconciler only | `StopGuards`: the bot takes the stop of an OPEN trade in the position from nobody; `ZombiesEnd`: once the bot stays on and the symbol flat, all rows are closed for good |
| `entry` | quantity 3, both failures, all eight configurations | `OpenRowHasStop`, `LegsLinked`, `ExposureBounded`, `NakedHasCause` |
| `entry_partial` (violation) | quantity 2, no failures | a cancel that succeeds on a partly filled order: finding 1 |
| `risk` | 2 symbols, limits of 2, cooldown and pause of 2 ticks, 1 restart | `DayLossBounded`, `LossStreakBounded`, `EntrySpacing` |
| `risk_pause` (violation) | the same, fairness | the brake never lets go: finding 2 |
| `cycle` | 2 symbols, 2 candles each, 2 starts, 2 restarts | `OneEntryPerCandle`, `LateEntries`, `ShadowPlacesNothing` |
| `streams` | either port, either provider; 2 symbols, 2 intervals, 3 market calls, 4 user calls, 3 outages (silence among them), circuit at 2 | market: `NeverWedged`, `NoHammering`, `PortRecovers`; for Bybit `SymbolsAsked`; for Binance `SubscribeStartsOver`, `SilentIsSeen`. User: `OneChainPerStart`, `OneCallAtATime`, `PortReconnects` |
| `records` | 12 views of the market in hybrid mode, either gate; 1 in pullback mode; 2 days, 3 cycles, records or bookings, 2 at a time, any query failing | `SkipIsFresh`; `CountsAreReal`, `AloneIsExact`; `SilenceIsReported` |
| `hybrid` (violation) | the same | a crossover signal without a new cross: finding 3 |
| `backtest`, following the bars | 4 bars of 3 minutes in 7 shapes, 3 zones, 5 settings, fresh after a warmup or restored; the $50 above the smallest stop | `SetupAges`, `ZonesUnbroken`, `CancelledByNews`, `BracketEncloses`, `StopOnlyTightens`, `ExitsInTime` |
| the same, following the calls | windows of 8 candles of 8 shapes, lookback 1, closed or ending with an open one | `ZonesStand`, `BreaksAsAssumed` |

Of the type invariants `RecordsTypeOK` is checked by its run, and proved; those of TradeLifecycle, RiskGate, StrategyCycle, EntryProtocol, BinanceUserStream and Backtest are proved (section 5) and not repeated by the runs.

`CHECK_DEADLOCK FALSE` everywhere: the bounds on calls, outages, restarts and candles end every behaviour, and a bot that is off, a call
that has returned or a circuit that is open really has nothing to do.

### 3.1 Bounds

All are named constants and guards. *Lifecycle*: two trades suffice for what one trade's closer can do to another (positions are netted per symbol), two handlers for
the mutex, three legs for trailing to have an old and a new stop while the target rests; the second trade of `lifecycle_ledger` has a position and no leg, so that the first one's legs can take it out of the net position, and any handler's name will do for any other (symmetry). `booked` saturates at 2, beyond which nothing is told apart.
*Entry*: quantity 3 separates none, some, all but one and all. *Risk*: two symbols, so that one symbol's booking lands between another's check and entry;
`MaxBooked` 2, since two closers can overlap; the proofs remove the bounds. *Cycle*: the second candle shows that what the first left behind does not matter, the second restart that a job stalled twice fails; `Kept` is
as large as the number of jobs, as the code's 100 is against the few minutes in which a stream repeats a candle. *Streams*: three calls to the market stream are enough for subscribe, unsubscribe and subscribe
while earlier timers are pending, four to the user stream for a start, a stop and a start, one of them during the awaits of another; three outages for a failed reconnect after a failed reconnect; a circuit at two failures opens within them. *Backtest*: with a
wait of at most two cycles and a cooldown of two bars, four bars are enough to find a setup, keep it, enter it, carry the trade over a bar and close it, and for a trade after a trade; the seven shapes dip
into the zones, fall through them, rise through the opposite one, spike and return, come too late for the limit order, climb without reaching the target, and lack their minutes. The five
settings use each entry mode, each trailing mode, the break-even lock, the pessimistic mode and confluence at least once. The $50 are 35 and the smallest stop 30, as for symbols below about $16 700: a fill does lie beyond the stop that it keeps in this run. A real window grows from 51 to 100 candles after a warmup of 50 and slides from then on; the model's last break may do at every bar what either lets it.
*Structure*: a lookback of one (the code's is 5) makes three candles a swing, and eight are enough for four breaks, which is one more than the vote looks at; the shapes have three highs and three lows within reach, a rise that leaves a gap, and the way back, and every window of them is a first window. *Records*: three records are a cycle and the two of its signal, or three cycles or bookings; of two calls that overlap the second already loses what the first
counted, and the third can fail or undo it; two days have the midnight between them. The views have, for each branch of the gate and the strategy, one that takes it, and several pairs with the same cache key
and different answers. `Ttl`, `Stale` and `Cooldown` are 1, 1 and 2 ticks, so that each can have run out while the others have not.

### 3.2 Fairness

*ZombiesEnd*: the cron fires every minute (`RcStart`), the awaits of a run return (`RcStep`: REST calls have a timeout, and every query of the database ends), and the exchange answers `getPositions` for a trade again and again (`SF RcNext(t)`; a run whose
query fails skips the trade, and the code goes through the whole list each time). Nothing is assumed of the handlers and the worker, which may hang for ever, of the exchange, of updates, or of the user.
*PauseEnds*: time passes, checks answer, an approved signal ends, and every symbol's signals get into evaluation (strongly: the worker is busy in between).
*Streams*: a handshake is answered, data and pongs arrive on a connection that is neither dead nor mute, clocks and health check run, a terminated socket emits `close`, and reconnect timers fire. `Fire` is
strongly fair in the form "and the constructor does not throw": a timer that fails arms the next. For Binance's user stream, `Recreated` is strongly fair: an attempt that fails is repeated without limit and not all fail for ever; for Bybit's, an authentication is answered, either way.
*SilenceIsReported*: time passes, and the cron, which runs every five minutes and whose query is answered, finds the alert due. That queries of the telemetry fail is never excluded: the property speaks of a time of a cycle that was written.
A stream's `Fairness` is assumed in the port only while its service is the one that is bound.
Outages are bounded by `MaxOutages`, which stands for "once the outages are over".

---------------------------------------------------------------------------------------------------------

## 4. Properties worth a comment

* `ClosedMeansFlat` exempts CLOSED_KILL_SWITCH: `closeAllPositions` marks its rows although the exchange refused the close.
* `StopGuards` is about the bot: the exchange itself may cancel, reject or let expire a stop, and then the code warns, leaves the trade OPEN and places no other (`execution.service.ts:632-645`); no comment says that it would. It is for trailing off and no kill switch: a trailing step cancels the old stop before it places the new one, and when that is refused the trade has none until the next minute or the software stop.
* No closed row is opened again while neither the reconciler nor the entry-price sync runs (proved: `ClosedForGood`, and part of `ImplementsLedger`). Their stale saves can write OPEN over a close; `ClosedMeansFlat` and `ZombiesEnd` say what remains true then.
* `ImplementsLedger` lets the kill switch do two things more: close a row whose position is still there, and add a result again that a handler has added. A handler's save may then overwrite CLOSED_KILL_SWITCH with its own result: both are closed for the ledger.
* `DayLossBounded` and `LossStreakBounded` say by how much the limits are overshot: the rows open when the limit was last read, and one more trade.
* `EntrySpacing` holds until a restart, which forgets the cooldown map.
* `LateEntries`: `enabled` is read once per job, so a bot that was switched off can place one more entry, up to three minutes later, also after the kill switch has closed the positions; it is never more than one.
* `OneEntryPerCandle` allows a second entry only to a job that a restart interrupted.
* `NakedHasCause` lists the ways to a position without a stop after `executeSignal`: a failed call, or a cancel that succeeded. On Bybit the latter includes an IOC order that filled: the answer carries no fill, so it is taken for unfilled.
* `OneCallAtATime` joins `OneSocket`, `StoppedIsSilent` and `KeyKept`: they are for calls that do not overlap (`overlap`). When Binance's do, a stop during `createListenKey` is overtaken by the socket it should have prevented, a stop forgets the newer start's key, and a failed keep-alive beside a reconnect gives two sockets. With Bybit, `start()` keeps a pending timer, which later tears the new connection down; a bot that was stopped has no such timer. `OneChainPerStart` and `PortReconnects` hold in every overlap.
* `PortRecovers` exempts a Bybit market stream that answers pings and carries no klines, and counts a topic that Bybit refused as answered: pongs keep the connection fresh in both cases (`bybit-market-ws.service.ts:202`, `:222`). **The port asks for more**: "Detect silent streams (connection alive but no data) and surface them" (`exchange/interfaces/exchange.interfaces.ts:348`); Binance's service does (`SilentIsSeen`), Bybit's does not, and without the exemption TLC shows a stream that is mute for ever.
* In BinanceMarketStream each `subscribe` replaces the stream before, so with several symbols only the last one has candles.
* `CancelledByNews`: the code compares the times of breaks with `!==`, not with "newer", and the comment says newer. Both are the same because an older change of character cannot become the last break again: when the last break vanishes, the swing before it has left the window and with it every break of its own direction, so what is left has one direction and is called BOS (comment at `LaterBreaks`); `BreaksAsAssumed` shows it for windows of candles. **Live it is not so**: a newest break whose swing has the just-opened candle for a neighbour can be gone in the next call, and then the break before it is the last one again, which may be an old change of character, and the setup is cancelled by it although the comment promises "only if FRESH (newer than setup creation)" (`pullback-ob-signal.service.ts:167`). `BreaksAsAssumed` exempts exactly these breaks (`Unsettled`); without the exemption TLC finds the case. The proof of `NewsCancels` is therefore about the backtest. A replay inherits the setup of the live bot: one that was found under such a break (`OpenTime`) can be cancelled by the older one that the replay finds in its place, and only that is exempted.
* `ExitsInTime`: the minutes in which an order is filled are processed again for the position, from the first one, so an exit can carry an earlier time than its entry. It needs a limit order and stays below its wait. The order may rest no longer than a bar lasts (`LimitWait <= Minutes`), which leaves out bars of one minute. `trade-simulator.ts:29` counts candles from the first one after the entry; these come before it.
* `BracketEncloses`: a fill up to $50 from the signal keeps the stop of the signal (`backtest.service.ts:683`), whatever the price. The smallest stop, 0.3 % of the price, is above $50 for BTC and far below it for ETH, SOL and XRP, which `backtest_outputs/` has results of (`triage_*`). There a limit order that a gap fills at the open of a minute can lie beyond the stop it kept, so the position starts with its stop on the wrong side. The property says by how much at most (`MinSl - Drift`), that a market order never does, and that the target is always ahead; the run has the $50 above the smallest stop. The comment at `:681`, "Recalc SL/TP from actual fill if drift > $50", is what the code does. What is assumed is that break-even fits the prices (`BracketFits`), which the code does not check: the 0.05 % of the entry is within what triggers the lock, the economic 0.12 % is not in `tp-distance` mode with a reward of 1.6 or less at the smallest stop.
* In the pessimistic mode no minutes are downloaded ("which doesn't need them", `backtest.service.ts:144`), but limit orders are filled from minutes only: such a run has trades only with market entries.
* `ZonesStand`: swings, order blocks and gaps are neither repainted nor found late, except, live, those that rest on the open candle. It is about what is found, not about which of it is *active*: `mitigated` and `filled` compare with the current price alone, so a block that price has gone through is active again once price is back, in live and backtest.
* `SkipIsFresh` bounds how long ago the HOLD was that lets a cycle be skipped. "Conditions unchanged since last HOLD" (`signal-cache.service.ts:23`) is more than the key says: it has rounded values, and no symbol, slope or 1h context. The ten minutes of `CACHE_TTL_MS` are shorter than a 15m candle, so at that interval what is hit is mostly another symbol's HOLD.
* `CrossoversAreNew` is violated (finding 3). The breakout branch of the hybrid strategy compares the current price with a range of twelve candles that includes the current one ("breaks the 24-candle high/low range", `hybrid-signal.service.ts:162`), so it never signals: that is proved (`SignalsInTurmoil`).
* `CountsAreReal` and `AloneIsExact` are about the calls that wrote. A query that fails loses its count: the telemetry only logs it, the closer gets an exception after the trade was closed. What they exclude is that a failed call leaves half of itself, or that an isolated call is lost or counted twice. When calls overlap, counts and amounts are lost, and of two first bookings of a day one fails. How much is lost differs: a day with a booking keeps a row with at least one trade, whereas of a day with cycles the row may be left with nothing but zeros, because the telemetry first saves a zero row and two such saves can come after the counts.
* That an alert is *true* is no property of this code: the count of a signal writes back the `latestCycleAt` that it read before the next cycle, and a save that fails leaves an old one; the heartbeat then reports a bot that works. `SilenceIsReported` is for days with a cycle that was written: after midnight the heartbeat has no row until the first one, and in hybrid mode it never has ("latest moment the bot processed ANY cycle", `daily-telemetry.entity.ts:42`, is the latest *pullback* cycle that reached the strategy). The threshold is "proportional to active timeframe" (`maintenance-cron.service.ts:26`) only in so far as DEFAULT_TIMEFRAME is the active one.
* The kill switch closes the positions of the primary symbol only (`kill-switch.service.ts:31`); no doc promises more.
* While a position is open the backtest does not call the pullback service and the setup stands still; the live bot calls it on every candle.

### Findings

1. `entry_partial` (`CancelMeansUnfilled`): a limit order can be filled in part when the wait ends; `cancelOrder` then succeeds and the code takes that for "not filled". The filled part stays without stop, row and trade, and the IOC order is sent for the full quantity.
2. `risk_pause` (`PauseEnds`): when the pause is over, the check reads the same last losing trades and pauses again; no trade can be made to change them.
3. `hybrid` (`CrossoversAreNew`): "EMA9 crosses EMA21" and "New crossover detected" (`hybrid-signal.service.ts:50`, `:71`), but `saveCycleData` has overwritten the cycle before (`signal-generator.service.ts:225`) when it is read, and its structure is taken for that cycle's cross (`:280`). So the branch signals when structure and cross of one candle disagree, with or without a new cross, and is silent on a new cross that agrees.

---------------------------------------------------------------------------------------------------------

## 5. Proofs

Eight modules, each for all values of the constants under the named assumptions of its component: `LegAssumption`, `ConfigAssumption`, `RiskAssumption`, `CycleAssumption`, `EntryAssumption`; `StreamAssumption`, `BinanceAssumption`, `UserAssumption` (bounds are natural numbers, and the circuit of a market stream opens after at least one failure); `GenerationAssumption`, `RowsAssumption`, `RecordsAssumption`; for the backtest `SetupAssumption`, `SimulatorAssumption`, `BacktestAssumption`, `PriceAssumption`, which keeps zones below a million so that the model's "worst close" has a start value, and `StructureAssumption`. A run evaluates each of them. A theorem that needs more says so as its hypothesis.

| Module | Theorems | Argument |
|---|---|---|
| TradeLifecycleProofs | `TypeCorrect`, `ExclusiveClosers`, `FlatWhenClosed`, `ClosedForGood`, `LedgerImplemented`, `StopStands` | `TypeOK` is inductive with, per activity, "has the trade or leg its next step needs". The mutex is inductive as stated. Flatness needs two parts. `Grounded`: nothing is recorded, placed or remembered for a trade before its entry, so that an entry cannot come after a close. `GoneWhereNeeded`: whatever can still write a closed status (an undelivered fill, a handler at work, a stale entry sync, the reconciler in its absent branch or after its own close, the zombie check) does so for a trade that has left the position. For the ledger: every step is a ledger step or a stutter under `Phase`, with `BookInv`: before a handler adds a result the trade has none until the kill switch is pressed, and afterwards it is closed. `StopStands` (`StopInv`): whoever may still save a row as OPEN counts as if it were open, and each such trade in the position has a stop that rests or was dropped by the exchange; the reconciler cancels a stop only after it has decided to close the row. `ClosedForGood`, `LedgerImplemented` and `StopStands` assume the absence of the activities named in them; for the last, of trailing and the kill switch, which do cancel stops |
| RiskGateProofs | `TypeCorrect`, `DayLoss`, `LossStreak`, `Spacing` | `RiskInv` sets aside `MaxBooked` losses for every open row and for a signal that a check has let through: a check that does not reject puts its own reserve in order, closing a row gives its share back. `Spacing`: what is left of the cooldown and the time since the trade make up the cooldown, in the first life of the process |
| StrategyCycleProofs | `TypeCorrect`, `OneLateEntry`, `ShadowIsSafe`, `EntriesCounted` | types are inductive as stated, with what the lists keep (`LastOf`) still lists of jobs. A job running under a stopped bot is the only possible late one, and nothing starts while it is off; in shadow mode the worker never reaches `execute`. `EntriesCounted`: a job is in one place (queue, worker, completed, failed) and there once, so the lists never grow longer than there are jobs and no id is dropped from them; a job enters once, and once more only if a crash took it from the worker. It assumes `Remembers` (the two retentions are at least the number of jobs), true of the run's instance; in the code the ids of 100 completed jobs are kept and a candle is repeated within minutes |
| EntryProtocolProofs | `TypeCorrect`, `OneSignalExposure`, `RowsAreStopped`, `LegsAreLinked`, `NakedIsExplained` | `ExposureInv` says what each step of the call can have on the exchange: the limit order and the position make up the quantity until the cancel, less than all of it before the IOC. `LegsInv`: once the take profit is answered `tpOrder` knows of it. `CauseInv`: the error path is entered by a failed call or with nothing placed, the IOC only after a cancel that succeeded |
| MarketDataPortProofs | `BoundedTries`, `AlwaysAWay`, `CircuitStops`, `EverySymbolAsked` (Bybit); `NoTimerBehind`, `BinanceTries`, `BinanceAlwaysAWay` (Binance); `PortStreams`, `StartsOver` (the port) | Bybit has a budget: pending timers (forgotten ones too) and a live socket never outnumber the calls, so a data gap costs the counted failures and the calls; a wanted stream without a socket has a timer or an open circuit. A socket that connects was asked for nothing yet, and a request only moves from unanswered to answered. Binance has at most one timer, and only without a connection; attempts and live socket account for every try. The port (`PortInv`): the provider never changes, the bound service's step keeps its invariant, and the shared variables are its own |
| ExchangePortsProofs | `TypeCorrect`, `BoundedChains`, `SilentAndOnce`, `PortsStream` | Chains: every operation of Binance's user stream passes a chain on (start to socket, socket to timer, timer to creation, creation to socket or timer) and only `start()` begins one. `SilentAndOnce` for Binance (`Alone`): without overlaps at most one of start, recreation, deletion and renewal is under way, and what is closed or disabled has no chain. For Bybit (`BybitInv`): sockets and timers are paid for by failures and starts, a stop leaves no socket, and while only a stopped bot is started there is one way to a connection at most |
| SignalRecordsProofs | `RecordsTypeCorrect`, `SignalsInTurmoil`, `SkipsAreFresh`, `CountsReal`, `AloneExact` | three layers. `RecordsInv`: types, the cache holds what a correct one could (`held`), and what a call is at each of its stages. `CountsInv`: a row claims no more than what the calls that wrote were to count on its day, and a copy that was counted in no more than that and what its own call adds, so that its write keeps it; merging a stale copy into a row takes each column from one of the two. `AloneInv`: on a day without overlaps the row is exactly what was written, and the copy of its one call that plus what the call adds, or zero beside a zero row; a failing call takes its copy with it. Every step of a call is one of six (`Moves`), which the layers share |
| BacktestProofs | `TypeCorrect`, `StopsTighten`, `SetupsAge`, `ZonesHold`, `NewsCancels`, `ExitsAreDated`, `BracketsEnclose`; `CoversBacktest`, `NothingRepainted`, `BreaksAllowed` | types need `BarInv` (a next bar exists until the last, the minute to process exists). Every way to trail is a chain of `Raise`, each `Tightened`, and `Tightened` is transitive. `SetupInv`: while a setup waits nothing is open and no cooldown runs, so no bar passes without asking it; its last break is the one it was found with, a newer one, or none, and none is no change of character. `ExitsAreDated` (`TimeInv`): a position was entered no later than its order rested, and minutes are processed in order. `BracketsEnclose` (`BracketInv`, under `BracketFits`): the bracket encloses at the fill, and every raise of the stop stays behind the best price seen. `NothingRepainted`: a window and the next one have the settled candles in common, and a swing, its block, or a gap is made of its own candles only. `BreaksAllowed` (`AgainInv`): a break is gone when the swing before it has left the window, and then so are all earlier ones of its direction, so that the breaks left have one direction and the last is no change of character; that the market structure is not against a change of character is the count of the last three votes |

Why strengthening is needed: none of `ClosedMeansFlat`, `DayLossBounded`, `LateEntries`, `ExposureBounded`, `NoHammering` is inductive, because what breaks them was decided earlier (a row read, a check answered, a job taken, an order placed, a timer armed).

Only proved, and not a property of a run: the `TypeCorrect` theorems, `CircuitStops` (an open circuit and a connection exclude each other), Binance's `NoTimerBehind` and `BinanceTries` (the two halves of `SubscribeStartsOver`, for the service by itself), `ClosedForGood`, `SignalsInTurmoil` and `CoversBacktest`.

Only model-checked: liveness (`ZombiesEnd`, `PortRecovers`, `SilentIsSeen`, `PortReconnects`, `SilenceIsReported`), which needs fairness and ENABLED. Every invariant and every action property of a passing run is stated by a theorem; `EntriesCounted`, `StopStands`, `LedgerImplemented` and `BracketsEnclose` state hypotheses of their own.

---------------------------------------------------------------------------------------------------------

## 6. Not modelled

* The live side's prices, quantities in units, rounding, leverage arithmetic and funding; `shadowEvaluateFallback`, which only writes a record for comparison.
* DeepSeek, which nothing calls; indicators, liquidity zones, premium and discount, and whether a signal is any good; the backtest's other entry modes and System B.
* What is written and never read back by the bot: the gate's statistics and `cyclesSinceLastAction`, the telemetry's maps of reasons, snapshots, reports, push messages; dashboard reads, validation and bootstrap.
* The HTTP clients (what they answer, refuse or lose is nondeterminism of the models) and the exchange's own matching.
* What becomes of a `new WebSocket` that throws in the user streams: it throws for an invalid address only, nothing catches it, so a wrong `wsUrl` fails the first `start()`. (The market streams' constructors are caught by the code, and in the models.)
* The entry order's own row: the entry-price sync finds it and the reconciler brings it up to date, and nothing is decided by its status.
* What the `ws` library emits after `terminate()` on a connecting socket: the models let the socket vanish.
* Limit orders that a restart during the wait leaves behind: `EntryProtocol!Crash` has the step, no code promises anything about it.
* The first `createListenKey` failing: the code logs it and never tries again; `PortReconnects` is about streams that were connected.
* The mapping of the exchanges' messages to neutral updates, which keeps no state.
* What a higher time frame has really seen. The backtest's table of interval lengths has no `4h` (`backtest.service.ts:1287`), so Bybit's candles of four hours are dated closed 15 minutes after they open and a backtest's 4H structure looks ahead; the model lets that structure be anything.

## 7. Plan

Done, in this order: TradeLedger, TradeLifecycle, RiskGate, StrategyCycle, EntryProtocol, BybitMarketStream, BinanceMarketStream, BinanceUserStream and their proofs; BybitUserStream, the two ports, PullbackSetup, TradeSimulator, Backtest and its proofs; ExchangePorts, SignalGeneration, DayRows, SignalRecords, MarketStructure, StructuredBacktest.

Next, by importance:

1. **PositionSizing**: sizing and rounding to step and tick as integer operators against reference definitions; the notional and the margin are never exceeded.
2. **UserStream**, one abstract stream (silent, connecting, delivering) that both user streams implement.
3. A live counterpart of Backtest: PullbackSetup fed by windows that end with the open candle, for several symbols, with restarts from snapshots.
4. **System B**: its two strategies and their loop.

Theorems next: the inductive types of the market streams and BybitUserStream as theorems of their own; that RiskGate's bounds hold of the ledger's bookings; with the abstract UserStream, that both services implement it.
