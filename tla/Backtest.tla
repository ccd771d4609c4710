------------------------------ MODULE Backtest ------------------------------
(***************************************************************************)
(* The loop of BacktestService.run in pullback-ob mode: per bar it carries *)
(* the open position through the bar's minutes, or asks the pullback       *)
(* service of the live bot for a signal and simulates the fill of its      *)
(* order in the first minutes of the bar after it.                         *)
(*                                                                         *)
(* Time is counted in minutes; bar i ends with minute i * Minutes.         *)
(***************************************************************************)
EXTENDS PullbackSetup, TradeSimulator

CONSTANTS
  Bar,           \* what a bar may look like
  NoBar,
  Bars,          \* bound: bars after the warmup
  Minutes,       \* minutes of a bar
  LimitWait,     \* limitWaitMs
  Cooldown,      \* cooldownCandles
  IocSlip, MarketSlip,
  Drift,         \* $50: a fill this far from the signal moves the stop
  RewardRisk,    \* rrRatio
  Configs        \* the settings of the runs to check

EntryModes == {"market", "limit", "limit and ioc"}
Candle == [open : Int, high : Int, low : Int, close : Int]

\* A bar and its minutes are downloaded apart.  A gap is a bar without minutes.
ASSUME BacktestAssumption ==
  /\ Bar \subseteq [candle : Candle, minutes : Seq(Candle), gap : BOOLEAN]
  /\ \A b \in Bar : Len(b.minutes) = Minutes
  /\ Bars \in Nat \ {0} /\ Minutes \in Nat \ {0} /\ LimitWait \in 0..Minutes
  /\ Cooldown \in Nat
  /\ IocSlip \in Nat /\ MarketSlip \in Nat /\ Drift \in Nat
  /\ RewardRisk \in Nat \ {0}
  /\ Configs \subseteq [options : Options, simulator : Simulators, entryMode : EntryModes]

\* Better than any close.
Unseen == 1000000
ASSUME PriceAssumption == \A z \in Zone : z.low >= -Unseen /\ z.high <= Unseen

VARIABLES
  entryMode,
  i, bar, ahead,     \* the bar of this turn and the one after it
  brk,               \* lastStructureBreak
  pc,                \* "begin", "minutes", "over" or "done" with the bar
  minute,            \* minutes of this bar already processed
  cooldownUntil,
  born, worst        \* history: the bar the setup is from and the worst
                     \* close since, as the setup sees it

config == <<options, simulator, entryMode>>
data == <<i, bar, ahead, brk>>
history == <<born, worst>>
vars == <<config, data, pc, minute, setup, position, closed, cooldownUntil, history>>

TypeOK ==
  /\ SetupTypes /\ SimulatorTypes
  /\ entryMode \in EntryModes
  /\ i \in 1..Bars /\ bar \in Bar /\ ahead \in Bar \cup {NoBar}
  /\ brk \in [choch : {1, 0, -1}, time : NoTime..Bars]
  /\ pc \in {"begin", "minutes", "over", "done"} /\ minute \in 0..Minutes
  /\ cooldownUntil \in 0..(Bars + Cooldown)
  /\ born \in Int /\ worst \in Int

NoBrk == [choch |-> 0, time |-> NoTime]
BreaksAt(times) == {NoBrk} \cup [choch : {1, 0, -1}, time : times \ {NoTime}]

\* What is left of the marks of the zones that a live setup was found with; without
\* confluence nothing reads them.
Marks(zones, d) ==
  {{}} \cup {zones \cap Confluent(found) :
               found \in {f \in SUBSET {z \in Zone : z.dir = d} : options.confluence}}

\* A backtest starts without a setup, a replay from a snapshot.  The candles of the
\* warmup may have left a break.  A restored setup was found under one of its time,
\* which is still the last, unless there is a newer one or it has left the window;
\* if only the live bot saw that break, an older one may be the last.
Init ==
  /\ \E c \in Configs :
       options = c.options /\ simulator = c.simulator /\ entryMode = c.entryMode
  /\ i = 1 /\ bar \in Bar /\ ahead \in Bar
  /\ pc = "begin" /\ minute = 0
  /\ \/ setup = None /\ born = 0 /\ brk \in BreaksAt({0})
     \/ \E d \in Direction, zones \in SUBSET Zone, wait \in 0..MaxWait :
        \E marked \in Marks(zones, d), time \in {-wait, NoTime, OpenTime} :
          /\ zones # {} /\ \A z \in zones : z.dir = d
          /\ setup = Restored(d, zones, marked, wait, time) /\ born = -wait
          /\ brk \in BreaksAt({1, IF time = OpenTime THEN -wait ELSE time})
  /\ worst = Unseen
  /\ position = NoPosition /\ closed = NoTrade
  /\ cooldownUntil = 0

-----------------------------------------------------------------------------
(* Candles.                                                                *)

\* downloadKlines: a download that fails keeps what it has.  Minutes are asked for
\* unless the mode is pessimistic.
Downloaded(b) == IF simulator.pessimistic \/ b = NoBar THEN FALSE ELSE ~b.gap

\* getIntrabarSlice.
Slice(b, n) == IF Downloaded(b) THEN SubSeq(b.minutes, 1, n) ELSE <<>>

\* What processCandle is called with: the minutes, or the bar without any.
Candles == IF Slice(bar, Minutes) = <<>> THEN <<bar.candle>> ELSE Slice(bar, Minutes)
BarClose == i * Minutes
CandleClose(k) == BarClose - Len(Candles) + k

-----------------------------------------------------------------------------
(* The open position comes first.                                          *)

Manage ==
  /\ pc \in {"begin", "minutes"}
  /\ ProcessCandle(Candles[minute + 1], CandleClose(minute + 1))
  /\ minute' = minute + 1
  /\ pc' = IF closed' # NoTrade \/ minute + 1 = Len(Candles) THEN "over" ELSE "minutes"
  /\ cooldownUntil' = IF closed' = NoTrade THEN cooldownUntil ELSE i + Cooldown
  /\ UNCHANGED <<config, data, setup, history>>

-----------------------------------------------------------------------------
(* Without a position: a signal, and the order it leads to.                *)

Free == pc = "begin" /\ position = NoPosition /\ i >= cooldownUntil /\ pc' = "over"

Cool ==
  /\ pc = "begin" /\ position = NoPosition /\ i < cooldownUntil
  /\ pc' = "over" /\ closed' = NoTrade
  /\ UNCHANGED <<config, data, minute, setup, position, cooldownUntil, history>>

\* A price as the setup sees it.
Seen == setup.bias * bar.candle.close

NoEntry == closed' = NoTrade /\ UNCHANGED <<config, data, minute, position, cooldownUntil>>

HoldIdle == Free /\ NoSetup /\ NoEntry /\ UNCHANGED history

FindSetup ==
  /\ Free /\ Detect(bar.candle.close, brk) /\ NoEntry
  /\ born' = i /\ worst' = setup'.bias * bar.candle.close

DropSetup ==
  /\ Free /\ (Expire \/ Flip(brk) \/ Mitigate(bar.candle, brk)) /\ NoEntry
  /\ UNCHANGED history

CancelSetup == Free /\ Cancel(brk) /\ NoEntry /\ UNCHANGED history

KeepSetup ==
  /\ Free /\ Await(bar.candle, brk) /\ NoEntry
  /\ worst' = (IF Seen < worst THEN Seen ELSE worst) /\ UNCHANGED born

\* The first LimitWait minutes of the next bar, and the first that reaches the price.
Window == Slice(ahead, LimitWait)

Touches(k, d, signal) == d * (Worst(Window[k], d) - signal) <= 0
Touching(d, signal) ==
  {k \in DOMAIN Window : Touches(k, d, signal) /\ \A j \in 1..(k - 1) : ~Touches(j, d, signal)}

\* Mutant of Fills: every order fills at the market, dated by the close of the next bar.
FillsNextBar(d, signal) ==
  {[price |-> signal + d * MarketSlip, time |-> BarClose + Minutes]}

\* The fill of the order, if any: the limit order as soon as its price is
\* touched, else the IOC order at the end of the wait.
Fills(d, signal) ==
  LET touching == Touching(d, signal)
      n == Len(Window)
  IN IF entryMode = "market" THEN {[price |-> signal + d * MarketSlip, time |-> BarClose]}
     ELSE IF touching # {}
     THEN {[price |-> IF d * (Window[k].open - signal) <= 0 THEN Window[k].open ELSE signal,
            time |-> BarClose + k] : k \in touching}
     ELSE IF entryMode = "limit and ioc" /\ n > 0 /\ d * (Window[n].close - signal) <= IocSlip
     THEN {[price |-> Window[n].close, time |-> BarClose + n]}
     ELSE {}

Distance(a, b) == IF a > b THEN a - b ELSE b - a

\* Mutant of StopAfterFill: the stop stays where the signal put it.
StopOfSignal(d, z, price) == StopLoss(z, d)

StopAfterFill(d, z, price) ==
  IF Distance(price, Near(z, d)) > Drift
  THEN price - d * StopDistance(z, d) ELSE StopLoss(z, d)

\* buildTradeContext and shouldBlockEntry: the session and the change over 24
\* hours may block any entry.  The setup is gone already.
Blocked == closed' = NoTrade /\ UNCHANGED <<position, cooldownUntil>>

\* The order of an entry on zone z.
TakeEntry(z) ==
  LET d == setup.bias
  IN /\ Free /\ Enter(z, bar.candle, brk)
     /\ \/ Blocked
        \/ Fills(d, Near(z, d)) = {} /\ closed' = NoTrade /\ UNCHANGED <<position, cooldownUntil>>
        \/ \E fill \in Fills(d, Near(z, d)) :
             /\ OpenPosition(d, fill.price, StopAfterFill(d, z, fill.price),
                             fill.price + d * StopDistance(z, d) * RewardRisk, fill.time)
             /\ cooldownUntil' = i + Cooldown
     /\ UNCHANGED <<config, data, minute, history>>

-----------------------------------------------------------------------------
(* The next bar.  Its structure breaks: none is new, there is a new one,   *)
(* the last one is called a change of character or not as older swings     *)
(* leave the window, or it leaves the window itself.  While a position is  *)
(* open nobody looks.                                                      *)
(*                                                                         *)
(* `time' is the bar in which a break is first the last one: the service   *)
(* only asks whether it is the same.  When the last break goes because     *)
(* the swing before it leaves the window, those before it are gone or of   *)
(* one direction, hence no change of character: none comes back.           *)
(* StructuredBacktest shows that windows of candles report no others.      *)

LaterBreaks(b, now) ==
  {b} \cup BreaksAt({now, b.time})

Breaks == IF position # NoPosition THEN {brk} ELSE LaterBreaks(brk, i + 1)

NextBar ==
  /\ pc = "over" /\ i < Bars
  /\ i' = i + 1 /\ bar' = ahead /\ minute' = 0 /\ pc' = "begin"
  /\ ahead' \in IF i' = Bars THEN Bar \cup {NoBar} ELSE Bar
  /\ brk' \in Breaks
  /\ closed' = NoTrade
  /\ UNCHANGED <<config, setup, position, cooldownUntil, history>>

\* The data ends: what is open is closed at the last close.
Finish ==
  /\ pc = "over" /\ i = Bars /\ pc' = "done"
  /\ IF position = NoPosition
     THEN closed' = NoTrade /\ UNCHANGED position
     ELSE ForceClose(bar.candle.close, BarClose)
  /\ UNCHANGED <<config, data, minute, setup, cooldownUntil, history>>

Next ==
  \/ Manage \/ Cool \/ HoldIdle \/ FindSetup \/ DropSetup \/ CancelSetup \/ KeepSetup
  \/ \E z \in Zone : TakeEntry(z)
  \/ NextBar \/ Finish

Spec == Init /\ [][Next]_vars

-----------------------------------------------------------------------------
(* Properties.                                                             *)

Waiting == setup.state = "WAITING"
Exited == closed # NoTrade

\* The wait counter is the age of the setup in bars: no path of generateSignal
\* forgets to count, nothing is asked twice for a bar, and the setup ends in
\* time ("expirado").
SetupAges ==
  Waiting => /\ born + setup.wait = (IF pc = "begin" THEN i - 1 ELSE i)
             /\ setup.wait <= MaxWait

\* A zone is given up for good by the first close beyond it, also when the
\* slope kept the bot from trading on that candle.
ZonesUnbroken ==
  Waiting => \A z \in setup.zones : worst >= setup.bias * Far(z, setup.bias)

\* "Only if FRESH (newer than setup creation)": a change of character that the
\* setup was found under does not cancel it later, whatever the window shows, nor
\* in the replay of a setup that the live bot found under it.  A replay only breaks
\* this when the live bot saw a break on the open candle that did not stand.
CancelledByNews ==
  [][CancelSetup => brk.time > born \/ setup.breakTime = OpenTime]_vars

\* A stop never moves away from the price, over all modes and candles.
StopOnlyTightens ==
  [][position # NoPosition /\ position' # NoPosition
       => position.dir * (position'.stop - position.stop) >= 0]_vars

Held == IF position # NoPosition THEN {position} ELSE IF Exited THEN {closed.trade} ELSE {}

\* The prices at which an order may be filled.
FillPrices ==
  {Near(z, d) : z \in Zone, d \in Direction}
  \cup {Near(z, d) + d * MarketSlip : z \in Zone, d \in Direction}
  \cup {b.minutes[k].open : b \in Bar, k \in 1..Minutes}
  \cup {b.minutes[k].close : b \in Bar, k \in 1..Minutes}

\* The settings fit the prices: break-even is only reached by a price beyond its
\* buffer.
BracketFits ==
  \A s \in Simulators :
    /\ s.breakevenAt > 0 => Buffer <= s.breakevenAt
    /\ s.trailing /\ s.mode = "tp-distance" => 4 * Buffer <= MinSl * RewardRisk
    /\ s.trailing /\ s.mode = "entry-pct"
         => \A p \in FillPrices : p >= 0 /\ 1000 * Buffer <= BePct * p

\* The bracket encloses the entry of a market order, and of any fill while the
\* $50 are less than the smallest stop.  At the prices of the cheap symbols they are
\* more: a limit order that a gap fills keeps its stop and can lie beyond it, by no
\* more than what they are more.  A trailed stop is not ahead of the best price
\* seen: the market was there before the exit.
BracketEncloses ==
  \A p \in Held :
    /\ p.dir * (p.take - p.entry) > 0
    /\ p.dir * (p.entry - p.initial) >= MinSl - Drift
    /\ p.dir * (p.entry - p.initial) > 0 \/ entryMode # "market"
    /\ p.phase > 0 => p.dir * (p.peak - p.stop) >= 0

\* The candles of the next bar are looked at twice, for the fill and for the
\* position, from the first on: an exit can be dated before its entry, but only
\* with a limit order, by less than its wait, or when the data ends.
ExitsInTime ==
  Exited /\ closed.time < closed.trade.time =>
    /\ entryMode # "market"
    /\ closed.trade.time - closed.time <= LimitWait
=============================================================================
