--------------------------- MODULE SignalGeneration ---------------------------
(***************************************************************************)
(* One cycle of signal-generator.service.ts: the view of the market that   *)
(* the indicators compute goes through the gate (pre-filter-gate), the     *)
(* cache of recent HOLDs (signal-cache) and the strategy, which is either  *)
(* hybrid-signal or the setups of PullbackSetup, left open here.  All that *)
(* is fetched is there before the first step, so a cycle is one action.    *)
(*                                                                         *)
(* Fewer than 30 candles, or a fetch that fails, end a cycle before        *)
(* anything changes.  Left out is what only goes to the log and the        *)
(* dashboard: the gate's statistics, the rest of previousCycle, and        *)
(* prevEmaCrossover, which is read only where there is no previous cycle.  *)
(***************************************************************************)
EXTENDS Integers

CONSTANTS
  View,       \* what the indicators, SMC and the 1h candles may show
  MinScore,   \* GATE_MIN_SCORE
  MinAtr,     \* GATE_MIN_ATR_PERCENT, in 1/100 %
  Ttl         \* CACHE_TTL_MS, in ticks

Trend == {"BULLISH", "BEARISH"}
Structure == Trend \cup {"RANGING"}
Zones == {"PREMIUM", "DISCOUNT", "EQUILIBRIUM"}
Candle == [high : Nat, low : Nat, close : Nat]
Views ==
  [structure : Structure, cross : Trend, slope : {"RISING", "FALLING", "FLAT"},
   zone : Zones, inOB : BOOLEAN, inFVG : BOOLEAN, broke : BOOLEAN,
   manyOBs : BOOLEAN, manyFVGs : BOOLEAN,
   rsi : 0..100, atr : Nat,               \* atrPercent, in 1/100 %
   htf : Trend \cup {"none"},             \* the 1h cross, where it is known
   earlier : [high : Nat, low : Nat],     \* of the eleven candles before
   candle : Candle, change : {-1, 0, 1}]  \* sign of priceChange1h

ASSUME GenerationAssumption ==
  /\ View \subseteq Views
  /\ \A v \in View : v.candle.low <= v.candle.close /\ v.candle.close <= v.candle.high
  /\ MinScore \in Nat /\ MinAtr \in Nat /\ Ttl \in Nat \ {0}

VARIABLES
  pullback,     \* STRATEGY_MODE is pullback-ob
  gateEnabled,  \* GATE_ENABLED
  previous,     \* the structure in previousCycle
  cache,        \* ticks that a cached HOLD still counts
  held,         \* ticks left since the strategy last answered HOLD (history)
  lastCross,    \* of the last cycle of the hybrid strategy (history)
  outcome       \* of the cycle under way, and what it followed from

generator == <<pullback, gateEnabled, previous, cache, held, lastCross, outcome>>

-----------------------------------------------------------------------------
(* The gate.                                                               *)

Points(b, n) == IF b THEN n ELSE 0
Smaller(a, b) == IF a < b THEN a ELSE b
Larger(a, b) == IF a > b THEN a ELSE b

Volatility(v) ==
  CASE v.atr < MinAtr -> 0
    [] v.atr >= MinAtr /\ v.atr < 25 -> 10
    [] v.atr >= MinAtr /\ v.atr >= 25 /\ v.atr < 50 -> 15
    [] OTHER -> 20

Confluence(v) ==
  Smaller(40, Points(v.inOB, 15) + Points(v.inFVG, 10) + Points(v.broke, 10)
              + Points(v.zone # "EQUILIBRIUM", 5)
              + Points(v.manyOBs, 5) + Points(v.manyFVGs, 5))

Alignment(v) == Points(v.structure = v.cross, 15) + Points(v.slope # "FLAT", 5)

Momentum(v) ==
  CASE v.rsi < 30 \/ v.rsi > 70 -> 20
    [] v.rsi \in 30..39 \cup 61..70 \/ (v.rsi \in 40..60 /\ (v.inOB \/ v.inFVG)) -> 10
    [] OTHER -> Points(Volatility(v) >= 15, 5)

Passed(v) ==
  /\ Volatility(v) > 0
  /\ Volatility(v) + Confluence(v) + Alignment(v) + Momentum(v) >= MinScore

-----------------------------------------------------------------------------
(* The cache: neither symbol nor interval are part of the key.             *)

KeyOf(v) ==
  [rsi |-> (v.rsi + 2) \div 5, atr |-> (v.atr + 5) \div 10, structure |-> v.structure,
   zone |-> v.zone, inOB |-> v.inOB, inFVG |-> v.inFVG, cross |-> v.cross]
Key == {KeyOf(v) : v \in View}

\* Mutant of Elapsed: an entry of exactly ten minutes stays.
ElapsedKeepsOld(left) == [k \in {j \in DOMAIN left : left[j] > 0} |-> left[k] - 1]
\* Entries that are too old are gone.
Elapsed(left) == [k \in {j \in DOMAIN left : left[j] > 1} |-> left[k] - 1]

\* cacheHoldResult.
Remembered(left, key) == [k \in DOMAIN left \cup {key} |-> IF k = key THEN Ttl ELSE left[k]]

-----------------------------------------------------------------------------
(* The hybrid strategy.                                                    *)

HighVolatility(v) == v.atr > 70

\* The cross that generateSignal attributes to the previous cycle.
SavedCross(saved) == IF saved = "BULLISH" THEN "BULLISH" ELSE "BEARISH"

Crossover(v, saved) ==
  LET long == v.cross = "BULLISH"
      confirmed == /\ v.rsi \in (IF long THEN 41..74 ELSE 26..59)
                   /\ v.slope # (IF long THEN "FALLING" ELSE "RISING")
                   /\ v.htf \in {v.cross, "none"}
  IN CASE SavedCross(saved) = v.cross \/ ~confirmed -> "HOLD"
       [] OTHER -> IF long THEN "LONG" ELSE "SHORT"

\* recentCandles ends with the candle whose close is the price.
RecentRange(v) == [high |-> Larger(v.earlier.high, v.candle.high),
                   low |-> Smaller(v.earlier.low, v.candle.low)]

Breakout(v) ==
  LET r == RecentRange(v)
      tight == 1000 * (r.high - r.low) < 20 * r.high /\ 1000 * (r.high - r.low) > 5 * r.high
  IN CASE tight /\ v.candle.close > r.high /\ v.change >= 0 -> "LONG"
       [] tight /\ v.candle.close < r.low /\ v.change <= 0 -> "SHORT"
       [] OTHER -> "HOLD"

Hybrid(v, saved) == IF HighVolatility(v) THEN Crossover(v, saved) ELSE Breakout(v)

\* What the strategy may answer; saved is the structure in previousCycle by then.
Answers(v, saved) == IF pullback THEN {"LONG", "SHORT", "HOLD"} ELSE {Hybrid(v, saved)}

\* signalSchema: stop and target, at 1.5 and 3 ATRs, must be positive prices.
\* Those of a setup are left open.
MayBeInvalid(v, a) == pullback \/ 3 * v.atr >= (IF a = "LONG" THEN 20000 ELSE 10000)
MayBeValid(v, a) == pullback \/ ~MayBeInvalid(v, a)

-----------------------------------------------------------------------------
(* generateSignal, from saveCycleData on.                                  *)

Result(kind, v) ==
  outcome' = [kind |-> kind, volatile |-> HighVolatility(v), structure |-> v.structure,
              crossed |-> lastCross # v.cross, fresh |-> KeyOf(v) \in DOMAIN held]

Blocks(v) == ~pullback /\ gateEnabled /\ ~Passed(v)

Skips(v) == ~pullback /\ KeyOf(v) \in DOMAIN cache

GateSkips(v) == Blocks(v) /\ Result("blocked", v) /\ UNCHANGED <<cache, held>>

CacheHits(v) ==
  ~Blocks(v) /\ Skips(v) /\ Result("hit", v) /\ UNCHANGED <<cache, held>>

Holds(v) ==
  /\ ~Blocks(v) /\ ~Skips(v) /\ "HOLD" \in Answers(v, previous')
  /\ Result("HOLD", v)
  /\ cache' = Remembered(cache, KeyOf(v))
  /\ held' = Remembered(held, KeyOf(v))

\* Mutant of Signals: every answer is cached.
SignalsCached(v) ==
  /\ ~Blocks(v) /\ ~Skips(v)
  /\ \E a \in Answers(v, previous') \ {"HOLD"} : MayBeValid(v, a) /\ Result(a, v)
  /\ cache' = Remembered(cache, KeyOf(v))
  /\ UNCHANGED held
Signals(v) ==
  /\ ~Blocks(v) /\ ~Skips(v)
  /\ \E a \in Answers(v, previous') \ {"HOLD"} :
        \/ MayBeValid(v, a) /\ Result(a, v)
        \/ MayBeInvalid(v, a) /\ Result("invalid", v)
  /\ UNCHANGED <<cache, held>>

GenerateSignal(v) ==
  /\ previous' = v.structure
  /\ lastCross' = IF pullback THEN lastCross ELSE v.cross
  /\ \/ GateSkips(v) \/ CacheHits(v) \/ Holds(v) \/ Signals(v)
  /\ UNCHANGED <<pullback, gateEnabled>>

NoOutcome == [kind |-> "none"]

Signalled == outcome.kind \in {"LONG", "SHORT"}

\* Who asked for it is done.
Returned == outcome' = NoOutcome /\ UNCHANGED <<pullback, gateEnabled, previous, cache, held, lastCross>>

\* In the pullback mode the gate decides nothing.
GeneratorInit ==
  /\ pullback \in BOOLEAN
  /\ gateEnabled \in IF pullback THEN {TRUE} ELSE BOOLEAN
  /\ previous = "none" /\ lastCross = "none" /\ outcome = NoOutcome
  /\ cache = <<>> /\ held = <<>>

\* Ten minutes, in ticks, go by.
GeneratorTick ==
  /\ cache' = Elapsed(cache) /\ held' = Elapsed(held)
  /\ UNCHANGED <<pullback, gateEnabled, previous, lastCross, outcome>>

-----------------------------------------------------------------------------
(* Properties.                                                             *)

GeneratorTypeOK ==
  /\ pullback \in BOOLEAN /\ gateEnabled \in BOOLEAN
  /\ previous \in Structure \cup {"none"} /\ lastCross \in Trend \cup {"none"}
  /\ \A f \in {cache, held} : DOMAIN f \subseteq Key /\ \A k \in DOMAIN f : f[k] \in 1..Ttl
  /\ \/ outcome = NoOutcome
     \/ outcome \in [kind : {"blocked", "hit", "HOLD", "invalid", "LONG", "SHORT"},
                     volatile : BOOLEAN, structure : Structure, crossed : BOOLEAN, fresh : BOOLEAN]

\* "Enter when EMA9 crosses EMA21", "New crossover detected": a signal of the
\* crossover branch means that the cross changed since the last cycle.  It does
\* not: the cycle is saved before it is read as the previous one, and its
\* structure is taken for that one's cross.
CrossoversAreNew == ~pullback /\ Signalled /\ outcome.volatile => outcome.crossed

\* A cycle that the cache skips has conditions, rounded, for which the strategy
\* answered HOLD within the last ten minutes: neither a skip nor a cycle that the
\* gate stopped lets the next one be skipped.
SkipIsFresh == outcome.kind = "hit" => ~pullback /\ outcome.fresh
=============================================================================
