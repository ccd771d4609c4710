--------------------------- MODULE BacktestProofs ---------------------------
(***************************************************************************)
(* The types of the backtest's state, that a stop only tightens, what a    *)
(* waiting setup may rely on, how far entry and exit can be out of order,  *)
(* and the bracket, for all bars, zones, settings and bounds.              *)
(*                                                                         *)
(* Then the windows of candles, for all shapes, sizes and lookbacks: what  *)
(* is found stays, and the last structure break does what Backtest lets it *)
(* do.  A window and the next one have all candles but one in common, up   *)
(* to the last that has closed, so a swing whose neighbours are among them *)
(* is one in both.  A break also needs the swing before it.  When that one *)
(* leaves the window the break is gone, and with it every earlier one of   *)
(* its direction: the breaks that are left have the other direction, and   *)
(* none of them is a change of character.                                  *)
(***************************************************************************)
EXTENDS StructuredBacktest, SequenceTheorems, FiniteSetTheorems, WellFoundedInduction, TLAPS

-----------------------------------------------------------------------------
(* Arithmetic.                                                             *)

\* Multiplication by a direction.
LEMMA Directed ==
  ASSUME NEW d \in {1, -1}, NEW x \in Int
  PROVE  d * x \in Int /\ (d = 1 => d * x = x) /\ (d = -1 => d * x = -x)
<1>1. CASE d = 1 BY <1>1
<1>2. CASE d = -1 BY <1>2
<1> QED BY <1>1, <1>2

LEMMA Tenth == \A x \in Int : x \div 10 \in Int
  OBVIOUS

-----------------------------------------------------------------------------
(* The simulator.                                                          *)

\* What trailing may do to a position: move its stop in its favour and name it.
Tightened(q, p) ==
  /\ q \in Position
  /\ q = [p EXCEPT !.stop = q.stop, !.phase = q.phase]
  /\ p.dir * (q.stop - p.stop) >= 0

LEMMA TightenedAgain ==
  ASSUME NEW p \in Position, NEW q, NEW r, Tightened(q, p), Tightened(r, q)
  PROVE  Tightened(r, p)
<1>1. p.dir \in {1, -1} /\ p.stop \in Int BY DEF Position
<1>2. q.stop \in Int /\ q.dir = p.dir /\ r \in Position /\ r.stop \in Int
  BY DEF Tightened, Position
<1>3. r = [p EXCEPT !.stop = r.stop, !.phase = r.phase]
  BY DEF Tightened, Position
<1>4. p.dir * (r.stop - p.stop) >= 0
  <2>1. CASE p.dir = 1 BY <1>1, <1>2, <2>1, Directed DEF Tightened
  <2>2. CASE p.dir = -1 BY <1>1, <1>2, <2>2, Directed DEF Tightened
  <2> QED BY <1>1, <2>1, <2>2
<1> QED BY <1>2, <1>3, <1>4 DEF Tightened

LEMMA Unchanged ==
  ASSUME NEW p \in Position
  PROVE  Tightened(p, p)
<1>1. p.dir \in {1, -1} /\ p.stop - p.stop = 0 BY DEF Position
<1>2. p.dir * 0 = 0 BY <1>1, Directed
<1>3. p = [p EXCEPT !.stop = p.stop, !.phase = p.phase] BY DEF Position
<1> QED BY <1>1, <1>2, <1>3 DEF Tightened

LEMMA RaiseTightens ==
  ASSUME NEW p \in Position, NEW price \in Int, NEW phase \in 0..3
  PROVE  Tightened(Raise(p, price, phase), p)
<1>1. CASE p.dir * (price - p.stop) > 0
  <2>1. AtLeast(p.phase, phase) \in 0..3 BY DEF AtLeast, Position
  <2>2. Raise(p, price, phase) = [p EXCEPT !.stop = price, !.phase = AtLeast(p.phase, phase)]
    BY <1>1 DEF Raise
  <2>3. p.dir * (price - p.stop) \in Int
    <3>1. p.dir \in {1, -1} /\ price - p.stop \in Int BY DEF Position
    <3> QED BY <3>1, Directed
  <2> DEFINE q == [p EXCEPT !.stop = price, !.phase = AtLeast(p.phase, phase)]
  <2>4. q \in Position /\ q.stop = price /\ q.phase = AtLeast(p.phase, phase)
    BY <2>1 DEF Position
  <2>5. p.dir * (q.stop - p.stop) >= 0 BY <1>1, <2>3, <2>4
  <2> QED BY <2>2, <2>4, <2>5 DEF Tightened
<1>2. CASE ~(p.dir * (price - p.stop) > 0)
  BY <1>2, Unchanged DEF Raise
<1> QED BY <1>1, <1>2

LEMMA FollowTightens ==
  ASSUME NEW p \in Position, NEW diff \in Int, NEW tenths \in Int, NEW phase \in 0..3
  PROVE  Tightened(Follow(p, diff, tenths, phase), p)
<1>1. (diff * tenths) \div 10 \in Int BY Tenth
<1>2. p.entry \in Int /\ p.dir \in {1, -1} BY DEF Position
<1>3. p.entry + p.dir * ((diff * tenths) \div 10) \in Int BY <1>1, <1>2, Directed
<1> QED BY <1>3, RaiseTightens DEF Follow

LEMMA BreakEvenTightens ==
  ASSUME NEW p \in Position
  PROVE  Tightened(BreakEven(p), p)
<1>1. p.entry \in Int /\ p.dir \in {1, -1} BY DEF Position
<1>2. p.entry + p.dir * Buffer \in Int BY <1>1, SimulatorAssumption, Directed
<1> QED BY <1>2, RaiseTightens DEF BreakEven

LEMMA TrailTightens ==
  ASSUME NEW p \in Position, NEW c \in Candle, simulator \in Simulators
  PROVE  Tightened(Trail(p, c), p)
<1> DEFINE diff == p.dir * (BestPrice(c, p.dir) - p.entry)
           locked == Lock(p, diff)
<1>1. diff \in Int
  <2>1. BestPrice(c, p.dir) \in Int /\ p.entry \in Int /\ p.dir \in {1, -1}
    BY DEF BestPrice, Candle, Position
  <2> QED BY <2>1, Directed
<1>2. Tightened(locked, p) /\ locked \in Position
  BY BreakEvenTightens, Unchanged DEF Lock, Tightened
<1> HIDE DEF diff, locked
<1>3. Tightened(TrailByTarget(locked, diff), locked)
  BY <1>1, <1>2, FollowTightens, BreakEvenTightens, Unchanged DEF TrailByTarget
<1>4. Tightened(TrailByPercent(locked, diff), locked)
  BY <1>1, <1>2, FollowTightens, BreakEvenTightens, Unchanged DEF TrailByPercent
<1>5. Tightened(TrailByAmount(locked, diff), locked)
  <2>1. locked.entry \in Int /\ locked.dir \in {1, -1} BY <1>2 DEF Position
  <2>2. locked.entry + locked.dir * (diff - TrailFixed) \in Int
    BY <1>1, <2>1, SimulatorAssumption, Directed
  <2> QED BY <1>2, <2>2, RaiseTightens, Unchanged DEF TrailByAmount
<1>6. simulator.trailing \in BOOLEAN /\ simulator.mode \in Modes
  BY SimulatorAssumption
<1>7. Trail(p, c) \in {locked, TrailByTarget(locked, diff), TrailByPercent(locked, diff),
                       TrailByAmount(locked, diff)}
  BY <1>6 DEF Trail, Modes, diff, locked
<1> QED BY <1>2, <1>3, <1>4, <1>5, <1>7, TightenedAgain

LEMMA TrackTypes ==
  ASSUME NEW p \in Position, NEW c \in Candle
  PROVE  /\ Track(p, c) \in Position
         /\ Track(p, c) = [p EXCEPT !.peak = Track(p, c).peak]
         /\ Track(p, c).dir = p.dir /\ Track(p, c).stop = p.stop
         /\ Track(p, c).entry = p.entry /\ Track(p, c).time = p.time
BY DEF Track, BestPrice, Candle, Position

\* A candle first moves the best price, then perhaps the stop, and then closes the
\* position or does not.
LEMMA Carried ==
  ASSUME simulator \in Simulators, position \in Position, NEW c \in Candle, NEW time,
         ProcessCandle(c, time)
  PROVE  \E final \in Position :
           /\ final = Track(position, c) \/ final = Trail(Track(position, c), c)
           /\ Tightened(final, Track(position, c))
           /\ final.time = position.time
           /\ \/ \E price \in Int, reason \in Reasons : CloseTrade(final, price, time, reason)
              \/ position' = final /\ closed' = NoTrade
<1> DEFINE seen == Track(position, c)
           early == simulator.pessimistic /\ (StopHit(seen, c) \/ TakeHit(seen, c))
           final == IF early THEN seen ELSE Trail(seen, c)
<1>1. seen \in Position /\ seen.time = position.time BY TrackTypes DEF Position
<1>2. Tightened(final, seen) BY <1>1, TrailTightens, Unchanged
<1>3. final \in Position /\ final.stop \in Int /\ final.take \in Int /\ final.time = position.time
  <2> HIDE DEF seen, final
  <2> QED BY <1>1, <1>2 DEF Tightened, Position
<1>4. \/ \E price \in Int, reason \in Reasons : CloseTrade(final, price, time, reason)
      \/ position' = final /\ closed' = NoTrade
  <2> HIDE DEF early, final
  <2> QED BY <1>3 DEF ProcessCandle, Reasons, seen, early, final
<1>5. final = seen \/ final = Trail(seen, c) OBVIOUS
<1> HIDE DEF seen, early, final
<1>6. final \in Position BY <1>3
<1> QED BY <1>2, <1>3, <1>4, <1>5, <1>6 DEF seen

LEMMA Processed ==
  ASSUME SimulatorTypes, NEW c \in Candle, NEW time \in Nat, ProcessCandle(c, time),
         UNCHANGED simulator
  PROVE  /\ SimulatorTypes'
         /\ position' # NoPosition => position.dir * (position'.stop - position.stop) >= 0
<1>1. simulator \in Simulators /\ position \in Position
  BY DEF SimulatorTypes, ProcessCandle
<1>2. PICK final \in Position :
        /\ Tightened(final, Track(position, c))
        /\ \/ \E price \in Int, reason \in Reasons : CloseTrade(final, price, time, reason)
           \/ position' = final /\ closed' = NoTrade
  BY <1>1, Carried
<1>3. position.dir * (final.stop - position.stop) >= 0
  BY <1>1, <1>2, TrackTypes DEF Tightened
<1>4. CASE \E price \in Int, reason \in Reasons : CloseTrade(final, price, time, reason)
  BY <1>4 DEF CloseTrade, SimulatorTypes
<1>5. CASE position' = final /\ closed' = NoTrade
  BY <1>3, <1>5 DEF SimulatorTypes
<1> QED BY <1>2, <1>4, <1>5

-----------------------------------------------------------------------------
(* The setup.                                                              *)

LEMMA Forgotten == SetupTypes /\ UNCHANGED options /\ Reset => SetupTypes'
  BY SetupAssumption DEF SetupTypes, Reset, None, NoTime, Direction

LEMMA Waited ==
  ASSUME SetupTypes, UNCHANGED options, NEW c, NEW b, Await(c, b)
  PROVE  SetupTypes'
<1>1. Unbroken(c) \subseteq setup.zones BY DEF Unbroken
<1>2. setup.wait + 1 \in 0..MaxWait BY SetupAssumption DEF SetupTypes, Await, Stands, InTime
<1>3. setup' = [setup EXCEPT !.wait = setup.wait + 1, !.zones = Unbroken(c)] BY DEF Await
<1> QED BY <1>1, <1>2, <1>3 DEF SetupTypes

LEMMA Detected ==
  ASSUME SetupTypes, UNCHANGED options, NEW price, NEW b, b.time \in Int, Detect(price, b)
  PROVE  SetupTypes'
<1>1. \A h \in Htf : HtfBias(h) \in Direction \cup {0} BY DEF Htf, HtfBias, Direction
<1>2. \A d : ValidZones(price, d) \subseteq Zone BY DEF ValidZones, Active
<1>3. \A zones : Confluent(zones) \subseteq zones BY DEF Confluent
<1>4. PICK d \in Direction, zones \in SUBSET Zone :
        setup' = [state |-> "WAITING", bias |-> d, zones |-> zones,
                  marked |-> IF options.confluence THEN Confluent(zones) ELSE {},
                  wait |-> 0, breakTime |-> b.time]
  BY <1>1, <1>2 DEF Detect
<1> QED BY <1>3, <1>4, SetupAssumption DEF SetupTypes
-----------------------------------------------------------------------------
(* Bars and fills.                                                         *)

\* There is a bar to come until the last one, and a minute to process while the
\* position is carried through one.
BarInv ==
  /\ i < Bars => ahead \in Bar
  /\ pc = "begin" => minute = 0
  /\ pc = "minutes" => minute < Len(Candles)

LEMMA Slices ==
  ASSUME NEW b \in Bar \cup {NoBar}, NEW n \in 0..Minutes
  PROVE  /\ Slice(b, n) \in Seq(Candle)
         /\ Slice(b, n) = <<>> \/ Len(Slice(b, n)) = n
<1>1. CASE ~Downloaded(b) BY <1>1, EmptySeq DEF Slice
<1>2. CASE Downloaded(b)
  <2>1. b \in Bar BY <1>2 DEF Downloaded
  <2>2. b.minutes \in Seq(Candle) /\ Len(b.minutes) = Minutes BY <2>1, BacktestAssumption
  <2>3. \A k \in 1..n : b.minutes[k] \in Candle BY <2>2, BacktestAssumption, ElementOfSeq
  <2>4. 1 \in Int /\ n \in Int /\ Minutes \in Nat BY BacktestAssumption
  <2>5. SubSeq(b.minutes, 1, n) \in Seq(Candle)
        /\ Len(SubSeq(b.minutes, 1, n)) = IF 1 <= n THEN n - 1 + 1 ELSE 0
    BY <2>3, <2>4, SubSeqProperties
  <2>6. Slice(b, n) = SubSeq(b.minutes, 1, n) BY <1>2 DEF Slice
  <2> QED BY <2>4, <2>5, <2>6
<1> QED BY <1>1, <1>2

LEMMA CandlesOfBar ==
  ASSUME bar \in Bar
  PROVE  /\ Len(Candles) \in 1..Minutes
         /\ \A k \in 1..Len(Candles) : Candles[k] \in Candle
<1>1. Minutes \in Nat \ {0} /\ Minutes \in 0..Minutes /\ bar.candle \in Candle
  BY BacktestAssumption
<1>2. CASE Slice(bar, Minutes) = <<>>
  <2>1. Candles = <<bar.candle>> BY <1>2 DEF Candles
  <2>2. Len(Candles) = 1 /\ Candles[1] = bar.candle BY <2>1
  <2> QED BY <1>1, <2>2
<1>3. CASE Slice(bar, Minutes) # <<>>
  <2>1. Candles = Slice(bar, Minutes) BY <1>3 DEF Candles
  <2>2. Candles \in Seq(Candle) /\ Len(Candles) = Minutes BY <1>1, <1>3, <2>1, Slices
  <2> QED BY <1>1, <2>2, ElementOfSeq
<1> QED BY <1>2, <1>3

\* Times are natural numbers.
LEMMA Dates ==
  ASSUME i \in 1..Bars, bar \in Bar
  PROVE  /\ BarClose \in Nat
         /\ \A k \in 1..Len(Candles) : CandleClose(k) \in Nat
<1>1. i \in Nat \ {0} /\ Minutes \in Nat BY BacktestAssumption
<1>2. \A a \in Nat \ {0}, b \in Nat : a * b \in Nat /\ a * b >= b OBVIOUS
<1>3. i * Minutes \in Nat /\ i * Minutes >= Minutes BY <1>1, <1>2
<1>4. Len(Candles) \in Nat /\ Len(Candles) <= Minutes BY <1>1, CandlesOfBar
<1> QED BY <1>1, <1>3, <1>4 DEF BarClose, CandleClose

LEMMA FillTypes ==
  ASSUME ahead \in Bar \cup {NoBar}, i \in 1..Bars, bar \in Bar,
         NEW d \in Direction, NEW signal \in Int, NEW fill \in Fills(d, signal)
  PROVE  fill.price \in Int /\ fill.time \in Nat
<1>1. Window \in Seq(Candle) BY BacktestAssumption, Slices DEF Window
<1>2. \A k \in DOMAIN Window : Window[k].open \in Int /\ Window[k].close \in Int /\ k \in Nat
  <2>1. DOMAIN Window = 1..Len(Window) /\ Len(Window) \in Nat BY <1>1
  <2>2. \A k \in 1..Len(Window) : Window[k] \in Candle BY <1>1, ElementOfSeq
  <2> QED BY <2>1, <2>2 DEF Candle
<1>3. BarClose \in Nat BY Dates
<1>4. signal + d * MarketSlip \in Int BY BacktestAssumption, Directed DEF Direction
<1>5. Touching(d, signal) \subseteq DOMAIN Window BY DEF Touching
<1>6. Len(Window) \in Nat /\ (Len(Window) > 0 => Len(Window) \in DOMAIN Window) BY <1>1
<1> DEFINE atEnd == [price |-> Window[Len(Window)].close, time |-> BarClose + Len(Window)]
<1>7. \/ fill = [price |-> signal + d * MarketSlip, time |-> BarClose]
      \/ \E k \in Touching(d, signal) :
           fill = [price |-> IF d * (Window[k].open - signal) <= 0 THEN Window[k].open ELSE signal,
                   time |-> BarClose + k]
      \/ Len(Window) > 0 /\ fill = atEnd
  BY DEF Fills
<1> QED BY <1>2, <1>3, <1>4, <1>5, <1>6, <1>7

\* The order's stop and target are numbers, and so is what is opened with them.
LEMMA OpenedTypes ==
  ASSUME NEW d \in Direction, NEW z \in Zone, NEW fill, fill.price \in Int, fill.time \in Nat,
         OpenPosition(d, fill.price, StopAfterFill(d, z, fill.price),
                      fill.price + d * StopDistance(z, d) * RewardRisk, fill.time),
         SimulatorTypes, UNCHANGED simulator
  PROVE  SimulatorTypes'
<1>1. Near(z, d) \in Int /\ Far(z, d) \in Int BY SetupAssumption DEF Near, Far
<1>2. StopDistance(z, d) \in Int
  <2>1. d * (Near(z, d) - Far(z, d)) + SlBuffer \in Int
    BY <1>1, SetupAssumption, Directed DEF Direction
  <2> QED BY <2>1, SetupAssumption DEF StopDistance, Larger
<1>3. d * StopDistance(z, d) \in Int BY <1>2, Directed DEF Direction
<1>4. StopAfterFill(d, z, fill.price) \in Int BY <1>1, <1>3 DEF StopAfterFill, StopLoss
<1>5. d * StopDistance(z, d) * RewardRisk \in Int BY <1>3, BacktestAssumption
<1>6. fill.price + d * StopDistance(z, d) * RewardRisk \in Int BY <1>5
<1> QED BY <1>4, <1>6 DEF OpenPosition, SimulatorTypes, Position, Direction
-----------------------------------------------------------------------------
(* Type correctness.                                                       *)

TypeInv == TypeOK /\ BarInv

LEMMA TypeInit == Init => TypeInv
<1> SUFFICES ASSUME Init PROVE TypeInv
  OBVIOUS
<1>1. SetupTypes
  <2>1. options \in Options BY BacktestAssumption DEF Init
  <2>2. CASE setup = None
    BY <2>1, <2>2, SetupAssumption DEF None, NoTime, SetupTypes, Direction
  <2>3. ASSUME NEW d \in Direction, NEW zones \in SUBSET Zone, NEW wait \in 0..MaxWait,
               NEW marked \in Marks(zones, d), NEW time \in Int,
               setup = Restored(d, zones, marked, wait, time)
        PROVE  SetupTypes
    <3>1. marked \subseteq Zone BY DEF Marks
    <3> QED BY <2>1, <2>3, <3>1 DEF Restored, SetupTypes
  <2>4. ASSUME NEW wait \in 0..MaxWait PROVE {-wait, NoTime, OpenTime} \subseteq Int
    BY SetupAssumption DEF NoTime, OpenTime
  <2>5. ASSUME NEW d \in Direction, NEW zones \in SUBSET Zone, NEW wait \in 0..MaxWait,
               NEW marked \in Marks(zones, d), NEW time \in {-wait, NoTime, OpenTime},
               setup = Restored(d, zones, marked, wait, time)
        PROVE  SetupTypes
    <3>1. time \in Int BY <2>4
    <3> QED BY <2>3, <2>5, <3>1
  <2> QED BY <2>2, <2>5 DEF Init
<1>2. SimulatorTypes BY BacktestAssumption DEF Init, SimulatorTypes
<1>3. BarInv BY BacktestAssumption DEF Init, BarInv
<1>4. born \in Int /\ worst \in Int
  <2>1. \A wait \in 0..MaxWait : -wait \in Int BY SetupAssumption
  <2>2. born = 0 \/ \E wait \in 0..MaxWait : born = -wait BY DEF Init
  <2>3. Unseen \in Int BY SMT DEF Unseen
  <2> QED BY <2>1, <2>2, <2>3 DEF Init
<1>5. entryMode \in EntryModes BY BacktestAssumption DEF Init
<1>6. brk \in [choch : {1, 0, -1}, time : NoTime..Bars]
  <2>1. NoTime \in Int /\ NoTime < 0 /\ OpenTime < NoTime /\ Bars >= 1
    BY SetupAssumption, BacktestAssumption DEF NoTime, OpenTime
  <2>2. ASSUME NEW times, times \subseteq NoTime..Bars
        PROVE  BreaksAt(times) \subseteq [choch : {1, 0, -1}, time : NoTime..Bars]
    <3>1. NoTime \in NoTime..Bars BY <2>1, BacktestAssumption
    <3>2. NoBrk \in [choch : {1, 0, -1}, time : NoTime..Bars] BY <3>1 DEF NoBrk
    <3>3. [choch : {1, 0, -1}, time : times \ {NoTime}]
            \subseteq [choch : {1, 0, -1}, time : NoTime..Bars]
      BY <2>2
    <3> QED BY <3>2, <3>3 DEF BreaksAt
  <2>3. BreaksAt({0}) \subseteq [choch : {1, 0, -1}, time : NoTime..Bars]
    BY <2>1, <2>2, BacktestAssumption
  <2>4. ASSUME NEW wait \in 0..MaxWait, NEW time \in {-wait, NoTime, OpenTime}
        PROVE  BreaksAt({1, IF time = OpenTime THEN -wait ELSE time})
                 \subseteq [choch : {1, 0, -1}, time : NoTime..Bars]
    <3> DEFINE seen == IF time = OpenTime THEN -wait ELSE time
    <3>1. seen \in NoTime..Bars
      BY <2>1, SetupAssumption, BacktestAssumption DEF NoTime, OpenTime
    <3> HIDE DEF seen
    <3> QED BY <2>1, <2>2, <3>1, BacktestAssumption DEF seen
  <2> QED BY <2>3, <2>4 DEF Init
<1> QED BY <1>1, <1>2, <1>3, <1>4, <1>5, <1>6, BacktestAssumption DEF Init, TypeInv, TypeOK

\* Manage carries the position through one candle; all that is not the setup's.
LEMMA ManageStep ==
  ASSUME TypeInv, Manage
  PROVE  /\ TypeInv'
         /\ position' # NoPosition => position.dir * (position'.stop - position.stop) >= 0
<1>1. bar \in Bar /\ i \in 1..Bars /\ minute \in Nat BY BacktestAssumption DEF TypeInv, TypeOK
<1>2. minute + 1 \in 1..Len(Candles) BY <1>1, CandlesOfBar DEF TypeInv, BarInv, Manage
<1>3. Candles[minute + 1] \in Candle /\ CandleClose(minute + 1) \in Nat
  BY <1>1, <1>2, CandlesOfBar, Dates
<1>4. SimulatorTypes'
      /\ (position' # NoPosition => position.dir * (position'.stop - position.stop) >= 0)
  BY <1>3, Processed DEF TypeInv, TypeOK, Manage, config
<1>5. minute' \in 0..Minutes /\ (pc' = "minutes" => minute' < Len(Candles))
  <2>1. Len(Candles) \in 1..Minutes BY <1>1, CandlesOfBar
  <2>2. minute' = minute + 1 /\ (pc' = "minutes" => minute + 1 # Len(Candles)) BY DEF Manage
  <2> QED BY <1>1, <1>2, <2>1, <2>2, BacktestAssumption
<1>6. Candles' = Candles BY DEF Manage, config, data, Candles, Slice, Downloaded
<1>7. BarInv' BY <1>5, <1>6 DEF TypeInv, BarInv, Manage, data
<1>8. cooldownUntil' \in 0..(Bars + Cooldown)
  BY <1>1, BacktestAssumption DEF TypeInv, TypeOK, Manage
<1>9. SetupTypes' BY DEF TypeInv, TypeOK, SetupTypes, Manage, config
<1> QED BY <1>4, <1>5, <1>7, <1>8, <1>9 DEF TypeInv, TypeOK, Manage, config, data, history

\* A turn without a position that ends without an entry.
LEMMA IdleStep ==
  ASSUME TypeInv, pc' = "over", NoEntry, SetupTypes', born' \in Int, worst' \in Int
  PROVE  TypeInv'
  BY DEF TypeInv, TypeOK, BarInv, NoEntry, SimulatorTypes, config, data

LEMMA EntryStep ==
  ASSUME TypeInv, NEW z \in Zone, TakeEntry(z)
  PROVE  TypeInv'
<1> DEFINE d == setup.bias
<1>1. d \in Direction /\ i \in 1..Bars /\ bar \in Bar /\ ahead \in Bar \cup {NoBar}
  BY DEF TypeInv, TypeOK, SetupTypes
<1>2. SetupTypes' BY Forgotten DEF TypeInv, TypeOK, TakeEntry, Enter, config
<1>3. SimulatorTypes' /\ cooldownUntil' \in 0..(Bars + Cooldown)
  <2>1. CASE closed' = NoTrade /\ UNCHANGED <<position, cooldownUntil>>
    BY <2>1 DEF TypeInv, TypeOK, SimulatorTypes, TakeEntry, config
  <2>2. ASSUME NEW fill \in Fills(d, Near(z, d)),
               OpenPosition(d, fill.price, StopAfterFill(d, z, fill.price),
                            fill.price + d * StopDistance(z, d) * RewardRisk, fill.time),
               cooldownUntil' = i + Cooldown
        PROVE  SimulatorTypes' /\ cooldownUntil' \in 0..(Bars + Cooldown)
    <3>1. Near(z, d) \in Int BY SetupAssumption DEF Near
    <3>2. fill.price \in Int /\ fill.time \in Nat BY <1>1, <3>1, FillTypes
    <3>3. SimulatorTypes /\ UNCHANGED simulator BY DEF TypeInv, TypeOK, TakeEntry, config
    <3>4. SimulatorTypes' BY <1>1, <2>2, <3>2, <3>3, OpenedTypes
    <3> QED BY <1>1, <2>2, <3>4, BacktestAssumption
  <2> QED BY <2>1, <2>2 DEF TakeEntry, Blocked
<1> QED BY <1>2, <1>3 DEF TypeInv, TypeOK, BarInv, TakeEntry, Free, config, data, history

LEMMA TypeStep == TypeInv /\ [Next]_vars => TypeInv'
<1> SUFFICES ASSUME TypeInv, [Next]_vars PROVE TypeInv'
  OBVIOUS
<1> USE DEF TypeInv, TypeOK
<1>0. bar.candle.close \in Int /\ i \in 1..Bars BY BacktestAssumption DEF Candle
<1>1. CASE Manage BY <1>1, ManageStep
<1>2. CASE Cool
  BY <1>2 DEF Cool, BarInv, SetupTypes, SimulatorTypes, config, data, history
<1>3. CASE HoldIdle
  BY <1>3, IdleStep DEF HoldIdle, Free, NoSetup, NoEntry, SetupTypes, config, history
<1>4. CASE FindSetup
  <2>1. SetupTypes' BY <1>4, Detected DEF FindSetup, NoEntry, config
  <2>2. worst' \in Int BY <1>0, <1>4, <2>1, Directed DEF FindSetup, SetupTypes, Direction
  <2> QED BY <1>0, <1>4, <2>1, <2>2, IdleStep DEF FindSetup, Free
<1>5. CASE DropSetup
  <2>1. SetupTypes' BY <1>5, Forgotten DEF DropSetup, Expire, Flip, Mitigate, NoEntry, config
  <2> QED BY <1>5, <2>1, IdleStep DEF DropSetup, Free, history
<1>6. CASE CancelSetup
  <2>1. SetupTypes' BY <1>6, Forgotten DEF CancelSetup, Cancel, NoEntry, config
  <2> QED BY <1>6, <2>1, IdleStep DEF CancelSetup, Free, history
<1>7. CASE KeepSetup
  <2>1. SetupTypes' BY <1>7, Waited DEF KeepSetup, NoEntry, config
  <2>2. Seen \in Int BY <1>0, Directed DEF Seen, SetupTypes, Direction
  <2> QED BY <1>7, <2>1, <2>2, IdleStep DEF KeepSetup, Free
<1>8. ASSUME NEW z \in Zone, TakeEntry(z) PROVE TypeInv'
  BY <1>8, EntryStep
<1>9. CASE NextBar
  <2>1. brk' \in [choch : {1, 0, -1}, time : NoTime..Bars]
    <3>1. NoTime \in Int /\ NoTime < 0 BY SetupAssumption DEF NoTime
    <3> QED BY <1>0, <1>9, <3>1, BacktestAssumption
            DEF NextBar, Breaks, LaterBreaks, BreaksAt, NoBrk
  <2>2. i' \in 1..Bars /\ minute' \in 0..Minutes
    BY <1>0, <1>9, BacktestAssumption DEF NextBar
  <2>3. bar' \in Bar /\ ahead' \in Bar \cup {NoBar} /\ BarInv'
    BY <1>0, <1>9, <2>2 DEF NextBar, BarInv
  <2> QED BY <1>9, <2>1, <2>2, <2>3
          DEF NextBar, SetupTypes, SimulatorTypes, config, history
<1>10. CASE Finish
  <2>1. SimulatorTypes'
    <3>1. BarClose \in Nat BY Dates
    <3> QED BY <1>0, <1>10, <3>1
            DEF Finish, ForceClose, CloseTrade, Reasons, SimulatorTypes, config
  <2> QED BY <1>10, <2>1 DEF Finish, BarInv, SetupTypes, config, data, history
<1>11. CASE UNCHANGED vars
  <2>1. Candles' = Candles BY <1>11 DEF vars, config, data, Candles, Slice, Downloaded
  <2> QED BY <1>11, <2>1 DEF vars, config, data, history, BarInv, SetupTypes, SimulatorTypes
<1> QED BY <1>1, <1>2, <1>3, <1>4, <1>5, <1>6, <1>7, <1>8, <1>9, <1>10, <1>11 DEF Next

\* Whatever the bars, zones and settings are, the state of the loop, the setup and
\* the simulated trade keep their types; in particular a setup never waits for
\* more than MaxWait bars and the minutes of a bar are not overrun.
THEOREM TypeCorrect == Spec => []TypeOK
<1>1. Spec => []TypeInv BY TypeInit, TypeStep, PTL DEF Spec
<1> QED BY <1>1, PTL DEF TypeInv

-----------------------------------------------------------------------------
(* The stop.                                                               *)

\* processCandle never loosens the stop of the open trade, for any candles, in any
\* mode, with any lock and activation distance.
THEOREM StopsTighten == Spec => StopOnlyTightens
<1>1. ASSUME TypeInv, [Next]_vars, position # NoPosition, position' # NoPosition
      PROVE  position.dir * (position'.stop - position.stop) >= 0
  <2>1. CASE Manage BY <1>1, <2>1, ManageStep
  <2>2. CASE UNCHANGED position
    <3>1. position \in Position BY <1>1 DEF TypeInv, TypeOK, SimulatorTypes
    <3>2. Tightened(position, position) BY <3>1, Unchanged
    <3> QED BY <2>2, <3>2 DEF Tightened
  <2> QED BY <1>1, <2>1, <2>2
          DEF Next, vars, Cool, HoldIdle, FindSetup, DropSetup, CancelSetup, KeepSetup, NoEntry,
              TakeEntry, Free, NextBar, Finish, ForceClose, CloseTrade
<1>2. Spec => []TypeInv BY TypeInit, TypeStep, PTL DEF Spec
<1> QED BY <1>1, <1>2, PTL DEF Spec, StopOnlyTightens
-----------------------------------------------------------------------------
(* The waiting setup.                                                      *)

\* What is true of a setup that waits: nothing is open and no cooldown runs, so
\* that every bar asks it; its wait is its age; the last break is the one it was
\* found with, a newer one, or none, if it was found with a settled one; no close since was beyond one of its zones.
Sound ==
  /\ position = NoPosition /\ i >= cooldownUntil
  /\ born + setup.wait = (IF pc = "begin" THEN i - 1 ELSE i)
  /\ \/ brk.time \in {setup.breakTime, NoTime} \/ brk.time > born
     \/ setup.breakTime = OpenTime
  /\ \A z \in setup.zones : worst >= setup.bias * Far(z, setup.bias)

SetupInv == (brk.time = NoTime => brk.choch = 0) /\ (Waiting => Sound)

LEMMA FarInt ==
  ASSUME NEW z \in Zone, NEW d \in Direction
  PROVE  Far(z, d) \in Int /\ d * Far(z, d) \in Int
<1>1. Far(z, d) \in Int BY SetupAssumption DEF Far
<1> QED BY <1>1, Directed DEF Direction

LEMMA SetupInit == Init => SetupInv
<1> SUFFICES ASSUME Init PROVE SetupInv
  OBVIOUS
<1>0. \A times : \A b \in BreaksAt(times) :
        /\ b.time = NoTime => b.choch = 0
        /\ b.time \in times \cup {NoTime}
  BY DEF BreaksAt, NoBrk
<1>1. CASE setup = None BY <1>0, <1>1 DEF Init, SetupInv, Waiting, None, Restored
<1>2. ASSUME NEW d \in Direction, NEW zones \in SUBSET Zone, NEW wait \in 0..MaxWait,
             NEW marked, NEW time \in {-wait, NoTime, OpenTime},
             setup = Restored(d, zones, marked, wait, time), born = -wait,
             brk \in BreaksAt({1, IF time = OpenTime THEN -wait ELSE time})
      PROVE  SetupInv
  <2>0. Unseen \in Int BY SMT DEF Unseen
  <2>1. ASSUME NEW z \in zones PROVE worst >= d * Far(z, d)
    <3>1. /\ z.low \in Int /\ z.high \in Int /\ z.low <= z.high
          /\ z.low >= -Unseen /\ z.high <= Unseen
      BY <1>2, SetupAssumption, PriceAssumption
    <3>2. worst = Unseen BY DEF Init
    <3>3. CASE d = 1 BY <2>0, <3>1, <3>2, <3>3, SMT DEF Far
    <3>4. CASE d = -1 BY <2>0, <3>1, <3>2, <3>4, SMT DEF Far
    <3> QED BY <3>3, <3>4 DEF Direction
  <2>2. \A z \in zones : worst >= d * Far(z, d) BY <2>1
  <2>3. \/ brk.time \in {setup.breakTime, NoTime} \/ brk.time > born
        \/ setup.breakTime = OpenTime
    BY <1>0, <1>2 DEF Restored
  <2>4. brk.time = NoTime => brk.choch = 0 BY <1>0, <1>2
  <2>5. \A z \in setup.zones : worst >= setup.bias * Far(z, setup.bias)
    BY <1>2, <2>2 DEF Restored
  <2> QED BY <1>2, <2>3, <2>4, <2>5, SetupAssumption DEF Init, SetupInv, Sound, Restored
<1> QED BY <1>1, <1>2 DEF Init

\* A setup that is found: the zones are active, so the price is not beyond them.
LEMMA FoundSound ==
  ASSUME TypeInv, SetupInv, FindSetup
  PROVE  Sound'
<1>1. i \in Int /\ bar.candle.close \in Int
  BY BacktestAssumption DEF TypeInv, TypeOK, Candle
<1>2. PICK d \in Direction, zones \in SUBSET Zone :
        /\ zones \subseteq ValidZones(bar.candle.close, d)
        /\ setup' = [state |-> "WAITING", bias |-> d, zones |-> zones,
                     marked |-> IF options.confluence THEN Confluent(zones) ELSE {},
                     wait |-> 0, breakTime |-> brk.time]
  <2>1. PICK d \in {HtfBias(h) : h \in Htf} \ {0} :
          \E zones \in (SUBSET ValidZones(bar.candle.close, d)) \ {{}} :
            setup' = [state |-> "WAITING", bias |-> d, zones |-> zones,
                      marked |-> IF options.confluence THEN Confluent(zones) ELSE {},
                      wait |-> 0, breakTime |-> brk.time]
    BY DEF FindSetup, Detect
  <2>2. d \in Direction BY <2>1 DEF Htf, HtfBias, Direction
  <2>3. ValidZones(bar.candle.close, d) \subseteq Zone BY DEF ValidZones, Active
  <2> QED BY <2>1, <2>2, <2>3
<1>3. \A z \in zones : d * bar.candle.close >= d * Far(z, d)
  <2>1. SUFFICES ASSUME NEW z \in zones PROVE d * bar.candle.close >= d * Far(z, d)
    OBVIOUS
  <2>2. z \in Zone /\ d * (bar.candle.close - Far(z, d)) >= 0
    BY <1>2 DEF ValidZones, Active
  <2> QED BY <1>1, <2>2, FarInt, Directed DEF Direction
<1>4. worst' = d * bar.candle.close BY <1>2 DEF FindSetup
<1>5. \A z \in setup'.zones : worst' >= setup'.bias * Far(z, setup'.bias)
  BY <1>2, <1>3, <1>4
<1>6. born' + setup'.wait = i' /\ pc' = "over" /\ brk'.time = setup'.breakTime
  BY <1>1, <1>2 DEF FindSetup, Free, NoEntry, data
<1> QED BY <1>5, <1>6 DEF Sound, FindSetup, Free, NoEntry, data

\* A setup that is kept: its age grows with the bar and broken zones are dropped.
LEMMA KeptSound ==
  ASSUME TypeInv, SetupInv, KeepSetup
  PROVE  Sound'
<1>1. /\ i \in Int /\ bar.candle.close \in Int /\ setup.bias \in Direction
      /\ setup.zones \subseteq Zone /\ worst \in Int /\ born \in Int /\ setup.wait \in Int
  <2>1. i \in Int /\ worst \in Int /\ born \in Int
    BY BacktestAssumption DEF TypeInv, TypeOK
  <2>2. bar.candle.close \in Int BY BacktestAssumption DEF TypeInv, TypeOK, Candle
  <2>3. setup.bias \in Direction /\ setup.zones \subseteq Zone /\ setup.wait \in Int
    BY SetupAssumption DEF TypeInv, TypeOK, SetupTypes
  <2> QED BY <2>1, <2>2, <2>3
<1>2. setup.state = "WAITING" /\ pc = "begin" /\ pc' = "over"
  BY DEF KeepSetup, Await, Stands, InTime, Free
<1>3. Sound BY <1>2 DEF SetupInv, Waiting
<1>4. /\ setup'.wait = setup.wait + 1 /\ setup'.zones = Unbroken(bar.candle)
      /\ setup'.bias = setup.bias /\ setup'.breakTime = setup.breakTime
  BY DEF KeepSetup, Await, TypeInv, TypeOK, SetupTypes
<1>5. Seen \in Int /\ worst' = (IF Seen < worst THEN Seen ELSE worst)
  BY <1>1, Directed DEF Seen, KeepSetup, Direction
<1>6. \A z \in Unbroken(bar.candle) : worst' >= setup.bias * Far(z, setup.bias)
  <2>1. SUFFICES ASSUME NEW z \in Unbroken(bar.candle)
                 PROVE  worst' >= setup.bias * Far(z, setup.bias)
    OBVIOUS
  <2>2. z \in setup.zones /\ setup.bias * (bar.candle.close - Far(z, setup.bias)) >= 0
    BY DEF Unbroken
  <2>3. Seen >= setup.bias * Far(z, setup.bias)
    BY <1>1, <2>2, FarInt, Directed DEF Seen, Direction
  <2>4. worst >= setup.bias * Far(z, setup.bias) BY <1>3, <2>2 DEF Sound
  <2> QED BY <1>1, <1>5, <2>3, <2>4, FarInt
<1>7. born' + setup'.wait = i' BY <1>1, <1>2, <1>3, <1>4 DEF Sound, KeepSetup, NoEntry, data
<1>8. UNCHANGED <<position, cooldownUntil, i, brk, born>> BY DEF KeepSetup, NoEntry, data
<1> QED BY <1>2, <1>3, <1>4, <1>6, <1>7, <1>8 DEF Sound

LEMMA SetupStep == TypeInv /\ SetupInv /\ [Next]_vars => SetupInv'
<1> SUFFICES ASSUME TypeInv, SetupInv, [Next]_vars PROVE SetupInv'
  OBVIOUS
<1>0. i \in Int /\ born \in Int /\ setup.wait \in Nat /\ cooldownUntil \in Int
  BY BacktestAssumption, SetupAssumption DEF TypeInv, TypeOK, SetupTypes
<1>1. CASE Manage
  <2>1. position # NoPosition BY <1>1 DEF Manage, ProcessCandle
  <2>2. ~Waiting BY <2>1 DEF SetupInv, Sound
  <2>3. UNCHANGED <<setup, brk>> BY <1>1 DEF Manage, data
  <2> QED BY <2>2, <2>3 DEF SetupInv, Waiting
<1>2. CASE Cool
  <2>1. i < cooldownUntil /\ UNCHANGED <<setup, brk>> BY <1>2 DEF Cool, data
  <2>2. ~Waiting BY <1>0, <2>1 DEF SetupInv, Sound
  <2> QED BY <2>1, <2>2 DEF SetupInv, Waiting
<1>3. CASE HoldIdle BY <1>3 DEF HoldIdle, NoSetup, NoEntry, SetupInv, Waiting, data
<1>4. CASE FindSetup BY <1>4, FoundSound DEF FindSetup, NoEntry, SetupInv, data
<1>5. CASE DropSetup
  BY <1>5 DEF DropSetup, Expire, Flip, Mitigate, Reset, None, NoEntry, SetupInv, Waiting, data
<1>6. CASE CancelSetup
  BY <1>6 DEF CancelSetup, Cancel, Reset, None, NoEntry, SetupInv, Waiting, data
<1>7. CASE KeepSetup BY <1>7, KeptSound DEF KeepSetup, NoEntry, SetupInv, data
<1>8. ASSUME NEW z \in Zone, TakeEntry(z) PROVE SetupInv'
  BY <1>8 DEF TakeEntry, Enter, Reset, None, SetupInv, Waiting, data
<1>9. CASE NextBar
  <2>0. NoTime \in Int /\ NoTime < 0 BY SetupAssumption DEF NoTime
  <2>1. brk'.time = NoTime => brk'.choch = 0
    <3>1. i \in 1..Bars BY DEF TypeInv, TypeOK
    <3> QED BY <1>9, <2>0, <3>1 DEF NextBar, Breaks, LaterBreaks, BreaksAt, NoBrk, SetupInv
  <2>2. ASSUME Waiting PROVE Sound'
    <3>1. Sound BY <2>2 DEF SetupInv
    <3>2. brk'.time \in {brk.time, NoTime, i + 1}
      BY <1>9 DEF NextBar, Breaks, LaterBreaks, BreaksAt, NoBrk
    <3>3. born <= i BY <1>0, <1>9, <3>1 DEF NextBar, Sound
    <3> QED BY <1>0, <1>9, <3>1, <3>2, <3>3 DEF NextBar, Sound, history
  <2> QED BY <1>9, <2>1, <2>2 DEF NextBar, SetupInv, Waiting
<1>10. CASE Finish
  BY <1>0, <1>10 DEF Finish, SetupInv, Waiting, Sound, data, history
<1>11. CASE UNCHANGED vars
  BY <1>11 DEF vars, data, history, SetupInv, Waiting, Sound
<1> QED BY <1>1, <1>2, <1>3, <1>4, <1>5, <1>6, <1>7, <1>8, <1>9, <1>10, <1>11 DEF Next

LEMMA Invariant == Spec => [](TypeInv /\ SetupInv)
  BY TypeInit, TypeStep, SetupInit, SetupStep, PTL DEF Spec

\* The wait counter is the age of the setup in bars and never exceeds MaxWait, for
\* any number of bars: no return of generateSignal forgets to count.
THEOREM SetupsAge == Spec => []SetupAges
<1>1. TypeInv /\ SetupInv => SetupAges
  BY SetupAssumption DEF TypeInv, TypeOK, SetupTypes, SetupInv, Sound, SetupAges
<1> QED BY <1>1, Invariant, PTL

\* No zone survives a close beyond it, for any zones and candles.
THEOREM ZonesHold == Spec => []ZonesUnbroken
<1>1. TypeInv /\ SetupInv => ZonesUnbroken BY DEF SetupInv, Sound, ZonesUnbroken
<1> QED BY <1>1, Invariant, PTL

\* Only a break newer than the setup cancels it, although the code asks no more
\* than whether it is another one: also a restored setup that meets the break which
\* the live bot found it under, unless that bot saw a break that did not stand.
THEOREM NewsCancels == Spec => CancelledByNews
<1>1. TypeInv /\ SetupInv /\ CancelSetup => brk.time > born \/ setup.breakTime = OpenTime
  BY DEF TypeInv, TypeOK, SetupTypes, Direction, SetupInv, Waiting, Sound, CancelSetup, Cancel,
         InTime, Opposes
<1> QED BY <1>1, Invariant, PTL DEF Spec, CancelledByNews
-----------------------------------------------------------------------------
(* The times of entry and exit.                                            *)

\* The end of the last bar whose signal may have led to the open position, and how
\* long its order rests.
SignalTime == (IF pc \in {"begin", "minutes"} THEN i - 1 ELSE i) * Minutes
Rest == IF entryMode = "market" THEN 0 ELSE LimitWait

TimeInv ==
  /\ position # NoPosition => position.time <= SignalTime + Rest
  /\ Exited => closed.trade.time <= closed.time + Rest

LEMMA BarTimes ==
  ASSUME NEW n \in Nat \ {0}
  PROVE  /\ n * Minutes \in Nat /\ (n - 1) * Minutes \in Nat
         /\ n * Minutes = (n - 1) * Minutes + Minutes
<1>1. \A a \in Nat, b \in Nat : a * b \in Nat OBVIOUS
<1>2. \A a \in Int, b \in Int : a * b = (a - 1) * b + b OBVIOUS
<1> QED BY <1>1, <1>2, BacktestAssumption

\* An order is filled while it rests.
LEMMA FilledInTime ==
  ASSUME ahead \in Bar \cup {NoBar}, i \in 1..Bars, NEW d \in Direction, NEW signal \in Int,
         NEW fill \in Fills(d, signal)
  PROVE  fill.time <= BarClose + Rest
<1>1. LimitWait \in Nat /\ BarClose \in Nat BY BacktestAssumption, BarTimes DEF BarClose
<1>2. Len(Window) \in 0..LimitWait /\ DOMAIN Window = 1..Len(Window)
  <2>1. Window \in Seq(Candle) /\ (Window = <<>> \/ Len(Window) = LimitWait)
    BY BacktestAssumption, Slices DEF Window
  <2> QED BY <1>1, <2>1
<1>3. CASE entryMode = "market"
  <2>1. fill.time = BarClose BY <1>3 DEF Fills
  <2> QED BY <1>1, <1>3, <2>1 DEF Rest
<1>4. CASE entryMode # "market"
  <2>1. Touching(d, signal) \subseteq DOMAIN Window BY DEF Touching
  <2>2. \/ \E k \in Touching(d, signal) :
             fill = [price |-> IF d * (Window[k].open - signal) <= 0 THEN Window[k].open ELSE signal,
                     time |-> BarClose + k]
        \/ fill = [price |-> Window[Len(Window)].close, time |-> BarClose + Len(Window)]
    BY <1>4 DEF Fills
  <2> QED BY <1>1, <1>2, <1>4, <2>1, <2>2 DEF Rest
<1> QED BY <1>3, <1>4

\* processCandle keeps the date of the entry and dates the exit.
LEMMA ManagedTime ==
  ASSUME TypeInv, Manage
  PROVE  /\ position' # NoPosition => position'.time = position.time
         /\ closed' # NoTrade => /\ closed'.trade.time = position.time
                                 /\ closed'.time = CandleClose(minute + 1)
<1> DEFINE c == Candles[minute + 1]
<1>1. c \in Candle
  <2>1. bar \in Bar /\ i \in 1..Bars /\ minute \in Nat BY BacktestAssumption DEF TypeInv, TypeOK
  <2>2. minute + 1 \in 1..Len(Candles) BY <2>1, CandlesOfBar DEF TypeInv, BarInv, Manage
  <2> QED BY <2>1, <2>2, CandlesOfBar
<1>2. simulator \in Simulators /\ position \in Position
  BY DEF TypeInv, TypeOK, SimulatorTypes, Manage, ProcessCandle
<1>3. PICK final : /\ final \in Position /\ final.time = position.time
                   /\ \/ position' = NoPosition /\ closed'.trade = final
                          /\ closed'.time = CandleClose(minute + 1)
                      \/ position' = final /\ closed' = NoTrade
  BY <1>1, <1>2, Carried DEF Manage, CloseTrade
<1> QED BY <1>3

LEMMA TimeStep == TypeInv /\ TimeInv /\ [Next]_vars => TimeInv'
<1> SUFFICES ASSUME TypeInv, TimeInv, [Next]_vars PROVE TimeInv'
  OBVIOUS
<1>0. /\ i \in Nat \ {0} /\ Minutes \in Nat /\ Rest \in Nat
      /\ position # NoPosition => position \in Position /\ position.time \in Nat
  BY BacktestAssumption DEF TypeInv, TypeOK, SimulatorTypes, Position, Rest
<1>1. /\ i * Minutes \in Nat /\ (i - 1) * Minutes \in Nat
      /\ i * Minutes = (i - 1) * Minutes + Minutes
  BY <1>0, BarTimes
<1>2. Rest' = Rest
  BY DEF Next, vars, config, Rest, Manage, Cool, HoldIdle, FindSetup, DropSetup, CancelSetup,
         KeepSetup, NoEntry, TakeEntry, NextBar, Finish
<1>3. CASE Manage
  <2>1. pc \in {"begin", "minutes"} /\ position # NoPosition /\ UNCHANGED i
    BY <1>3 DEF Manage, ProcessCandle, data
  <2>2. position.time <= (i - 1) * Minutes + Rest BY <2>1 DEF TimeInv, SignalTime
  <2>3. (position' # NoPosition => position'.time = position.time)
        /\ (closed' # NoTrade => /\ closed'.trade.time = position.time
                                 /\ closed'.time = CandleClose(minute + 1))
    BY <1>3, ManagedTime
  <2>4. CandleClose(minute + 1) >= (i - 1) * Minutes + 1
    <3>1. Len(Candles) \in 1..Minutes /\ minute \in Nat
      BY CandlesOfBar, BacktestAssumption DEF TypeInv, TypeOK
    <3> QED BY <1>0, <1>1, <3>1 DEF CandleClose, BarClose
  <2>5. CandleClose(minute + 1) \in Int
    BY <1>1, CandlesOfBar, BacktestAssumption DEF TypeInv, TypeOK, CandleClose, BarClose
  <2> QED BY <1>0, <1>1, <1>2, <2>1, <2>2, <2>3, <2>4, <2>5 DEF TimeInv, SignalTime, Exited
<1>4. CASE Cool \/ HoldIdle \/ FindSetup \/ DropSetup \/ CancelSetup \/ KeepSetup
  BY <1>4 DEF Cool, HoldIdle, FindSetup, DropSetup, CancelSetup, KeepSetup, Free, NoEntry,
              TimeInv, Exited
<1>5. ASSUME NEW z \in Zone, TakeEntry(z) PROVE TimeInv'
  <2>1. position = NoPosition /\ pc' = "over" /\ closed' = NoTrade /\ UNCHANGED i
    BY <1>5 DEF TakeEntry, Free, Blocked, OpenPosition, data
  <2>2. position' # NoPosition => position'.time <= BarClose + Rest
    <3>1. Near(z, setup.bias) \in Int /\ setup.bias \in Direction
      BY SetupAssumption DEF Near, TypeInv, TypeOK, SetupTypes
    <3>2. \A fill \in Fills(setup.bias, Near(z, setup.bias)) : fill.time <= BarClose + Rest
      BY <3>1, FilledInTime DEF TypeInv, TypeOK
    <3> QED BY <1>5, <2>1, <3>2 DEF TakeEntry, Blocked, OpenPosition
  <2> QED BY <1>2, <2>1, <2>2 DEF TimeInv, SignalTime, BarClose, Exited
<1>6. CASE NextBar
  <2>1. /\ i' - 1 = i /\ pc = "over" /\ pc' = "begin" /\ closed' = NoTrade
        /\ UNCHANGED position
    BY <1>0, <1>6 DEF NextBar
  <2> QED BY <1>2, <2>1 DEF TimeInv, SignalTime, Exited
<1>7. CASE Finish
  <2>1. pc = "over" BY <1>7 DEF Finish
  <2>2. position' = NoPosition /\ (closed' # NoTrade => /\ position # NoPosition
                                                       /\ closed'.trade = position
                                                       /\ closed'.time = BarClose)
    BY <1>7 DEF Finish, ForceClose, CloseTrade
  <2> QED BY <1>0, <1>1, <1>2, <2>1, <2>2 DEF TimeInv, SignalTime, BarClose, Exited
<1>8. CASE UNCHANGED vars
  BY <1>2, <1>8 DEF vars, data, TimeInv, SignalTime, Exited
<1> QED BY <1>3, <1>4, <1>5, <1>6, <1>7, <1>8 DEF Next

\* An exit is dated before its entry only by the time that a limit order rests, for
\* any bars, minutes and waiting times.
THEOREM ExitsAreDated == Spec => []ExitsInTime
<1>1. Init => TimeInv BY DEF Init, TimeInv, Exited
<1>2. TypeInv /\ TimeInv => ExitsInTime
  <2> SUFFICES ASSUME TypeInv, TimeInv, Exited, closed.time < closed.trade.time
               PROVE  entryMode # "market" /\ closed.trade.time - closed.time <= LimitWait
    BY DEF ExitsInTime
  <2>1. closed.time \in Nat /\ closed.trade.time \in Nat /\ LimitWait \in Nat
    BY BacktestAssumption DEF TypeInv, TypeOK, SimulatorTypes, Exited, Position
  <2> QED BY <2>1 DEF TimeInv, Rest
<1> QED BY <1>1, <1>2, TimeStep, Invariant, PTL DEF Spec
-----------------------------------------------------------------------------
(* The bracket.                                                            *)

\* What is true of a position from its fill to its exit.
Enclosed(mode, p) ==
  /\ p.dir * (p.entry - p.initial) >= MinSl - Drift
  /\ p.dir * (p.entry - p.initial) > 0 \/ mode # "market"
  /\ p.dir * (p.take - p.entry) >= MinSl * RewardRisk
  /\ p.entry \in FillPrices
  /\ p.phase > 0 => p.dir * (p.peak - p.stop) >= 0

LEMMA Product ==
  ASSUME NEW a \in Nat \ {0}, NEW b \in Nat \ {0}
  PROVE  a * b \in Nat \ {0} /\ \A x \in Int : x >= a => x * b >= a * b
<1>1. \A x \in Nat \ {0}, y \in Nat \ {0} : x * y \in Nat \ {0} OBVIOUS
<1>2. \A x \in Int, y \in Int : x >= a /\ y = b => x * y >= a * y OBVIOUS
<1> QED BY <1>1, <1>2

\* A stop that is not ahead of the best price may be set.
LEMMA RaiseEncloses ==
  ASSUME NEW p \in Position, Enclosed(entryMode, p), NEW x \in Int, x <= p.dir * (p.peak - p.entry),
         NEW phase \in 0..3
  PROVE  Enclosed(entryMode, Raise(p, p.entry + p.dir * x, phase))
<1> DEFINE price == p.entry + p.dir * x
<1>1. p.dir \in {1, -1} /\ p.entry \in Int /\ p.peak \in Int /\ p.stop \in Int BY DEF Position
<1>2. price \in Int /\ p.dir * (p.peak - price) >= 0
  <2>1. CASE p.dir = 1 BY <1>1, <2>1, Directed
  <2>2. CASE p.dir = -1 BY <1>1, <2>2, Directed
  <2> QED BY <1>1, <2>1, <2>2
<1> HIDE DEF price
<1>3. Raise(p, price, phase) \in {p, [p EXCEPT !.stop = price, !.phase = AtLeast(p.phase, phase)]}
  BY DEF Raise
<1>4. Enclosed(entryMode, [p EXCEPT !.stop = price, !.phase = AtLeast(p.phase, phase)])
  BY <1>2 DEF Enclosed, Position
<1> QED BY <1>3, <1>4 DEF price

\* A share of the way to the best price is no more than the way.
LEMMA FollowEncloses ==
  ASSUME NEW p \in Position, Enclosed(entryMode, p), NEW diff \in Nat, diff <= p.dir * (p.peak - p.entry),
         NEW tenths \in {4, 5, 6, 7}, NEW phase \in 0..3
  PROVE  Enclosed(entryMode, Follow(p, diff, tenths, phase))
<1>1. (diff * tenths) \div 10 \in Int /\ (diff * tenths) \div 10 <= diff
  <2>1. \A x \in Nat : (x * 4) \div 10 <= x /\ (x * 5) \div 10 <= x
                       /\ (x * 6) \div 10 <= x /\ (x * 7) \div 10 <= x
    OBVIOUS
  <2> QED BY <2>1, Tenth
<1>2. p.dir * (p.peak - p.entry) \in Int
  <2>1. p.dir \in {1, -1} /\ p.peak - p.entry \in Int BY DEF Position
  <2> QED BY <2>1, Directed
<1>3. (diff * tenths) \div 10 <= p.dir * (p.peak - p.entry) BY <1>1, <1>2
<1> QED BY <1>1, <1>3, RaiseEncloses DEF Follow

LEMMA BreakEvenEncloses ==
  ASSUME NEW p \in Position, Enclosed(entryMode, p), Buffer <= p.dir * (p.peak - p.entry)
  PROVE  Enclosed(entryMode, BreakEven(p))
BY RaiseEncloses, SimulatorAssumption DEF BreakEven

LEMMA LockEncloses ==
  ASSUME BracketFits, simulator \in Simulators, NEW p \in Position, Enclosed(entryMode, p),
         NEW diff \in Int, diff <= p.dir * (p.peak - p.entry)
  PROVE  Enclosed(entryMode, Lock(p, diff))
<1>1. p.dir * (p.peak - p.entry) \in Int
  <2>1. p.dir \in {1, -1} /\ p.peak - p.entry \in Int BY DEF Position
  <2> QED BY <2>1, Directed
<1>2. CASE simulator.breakevenAt > 0 /\ diff >= simulator.breakevenAt
  <2>1. Buffer <= p.dir * (p.peak - p.entry)
    BY <1>1, <1>2, SimulatorAssumption DEF BracketFits
  <2> QED BY <1>2, <2>1, BreakEvenEncloses DEF Lock
<1>3. CASE ~(simulator.breakevenAt > 0 /\ diff >= simulator.breakevenAt)
  BY <1>3 DEF Lock
<1> QED BY <1>2, <1>3

LEMMA TargetEncloses ==
  ASSUME 4 * Buffer <= MinSl * RewardRisk, NEW p \in Position, Enclosed(entryMode, p),
         NEW diff \in Int, diff <= p.dir * (p.peak - p.entry)
  PROVE  Enclosed(entryMode, TrailByTarget(p, diff))
<1> DEFINE distance == AtLeast(p.take - p.entry, p.entry - p.take)
<1>1. p.dir * (p.peak - p.entry) \in Int
  <2>1. p.dir \in {1, -1} /\ p.peak - p.entry \in Int BY DEF Position
  <2> QED BY <2>1, Directed
<1>2. distance \in Int /\ distance >= MinSl * RewardRisk
  <2>1. MinSl * RewardRisk \in Nat \ {0} BY Product, SetupAssumption, BacktestAssumption
  <2>2. p.dir \in {1, -1} /\ p.take \in Int /\ p.entry \in Int BY DEF Position
  <2>3. p.dir * (p.take - p.entry) >= MinSl * RewardRisk BY DEF Enclosed
  <2>4. CASE p.dir = 1 BY <2>1, <2>2, <2>3, <2>4, Directed DEF AtLeast
  <2>5. CASE p.dir = -1 BY <2>1, <2>2, <2>3, <2>5, Directed DEF AtLeast
  <2> QED BY <2>2, <2>4, <2>5
<1>3. MinSl * RewardRisk \in Nat BY Product, SetupAssumption, BacktestAssumption
<1> HIDE DEF distance
<1>4. CASE diff <= 0 \/ distance = 0 \/ ~(4 * diff >= 1 * distance)
  BY <1>4 DEF TrailByTarget, distance
<1>5. CASE diff > 0 /\ distance # 0 /\ 4 * diff >= 1 * distance
  <2>1. Buffer <= p.dir * (p.peak - p.entry)
    BY <1>1, <1>2, <1>3, <1>5, SimulatorAssumption
  <2>2. Enclosed(entryMode, BreakEven(p)) BY <2>1, BreakEvenEncloses
  <2>3. Enclosed(entryMode, Follow(p, diff, 6, 3)) /\ Enclosed(entryMode, Follow(p, diff, 4, 2))
    BY <1>5, FollowEncloses
  <2>4. TrailByTarget(p, diff) \in {Follow(p, diff, 6, 3), Follow(p, diff, 4, 2), BreakEven(p)}
    BY <1>5 DEF TrailByTarget, distance
  <2> QED BY <2>2, <2>3, <2>4
<1> QED BY <1>1, <1>2, <1>4, <1>5

LEMMA PercentEncloses ==
  ASSUME \A price \in FillPrices : price >= 0 /\ 1000 * Buffer <= BePct * price,
         NEW p \in Position, Enclosed(entryMode, p), NEW diff \in Int, diff <= p.dir * (p.peak - p.entry)
  PROVE  Enclosed(entryMode, TrailByPercent(p, diff))
<1>1. p.dir * (p.peak - p.entry) \in Int
  <2>1. p.dir \in {1, -1} /\ p.peak - p.entry \in Int BY DEF Position
  <2> QED BY <2>1, Directed
<1>2. p.entry \in Nat /\ 1000 * Buffer <= BePct * p.entry BY DEF Enclosed, Position
<1>3. BePct * p.entry \in Nat /\ (BePct + 2) * p.entry >= BePct * p.entry
      /\ (BePct + 5) * p.entry >= BePct * p.entry
      /\ (BePct + 2) * p.entry \in Nat /\ (BePct + 5) * p.entry \in Nat
  <2>1. \A a \in Nat, b \in Nat : a * b \in Nat OBVIOUS
  <2>2. \A a \in Nat, b \in Nat : (a + 2) * b >= a * b /\ (a + 5) * b >= a * b OBVIOUS
  <2> QED BY <1>2, <2>1, <2>2, SimulatorAssumption
<1>4. CASE 1000 * diff >= BePct * p.entry
  <2>1. diff \in Nat /\ Buffer <= p.dir * (p.peak - p.entry)
    BY <1>1, <1>2, <1>3, <1>4, SimulatorAssumption
  <2>2. Enclosed(entryMode, BreakEven(p)) BY <2>1, BreakEvenEncloses
  <2>3. Enclosed(entryMode, Follow(p, diff, 7, 3)) /\ Enclosed(entryMode, Follow(p, diff, 5, 2))
    BY <2>1, FollowEncloses
  <2>4. TrailByPercent(p, diff) \in {Follow(p, diff, 7, 3), Follow(p, diff, 5, 2), BreakEven(p)}
    BY <1>4 DEF TrailByPercent
  <2> QED BY <2>2, <2>3, <2>4
<1>5. CASE ~(1000 * diff >= BePct * p.entry)
  <2>1. TrailByPercent(p, diff) = p BY <1>3, <1>5 DEF TrailByPercent
  <2> QED BY <2>1
<1> QED BY <1>4, <1>5

LEMMA AmountEncloses ==
  ASSUME NEW p \in Position, Enclosed(entryMode, p), NEW diff \in Int, diff <= p.dir * (p.peak - p.entry)
  PROVE  Enclosed(entryMode, TrailByAmount(p, diff))
<1>1. p.dir * (p.peak - p.entry) \in Int
  <2>1. p.dir \in {1, -1} /\ p.peak - p.entry \in Int BY DEF Position
  <2> QED BY <2>1, Directed
<1>2. diff - TrailFixed \in Int /\ diff - TrailFixed <= p.dir * (p.peak - p.entry)
  BY <1>1, SimulatorAssumption
<1> QED BY <1>2, RaiseEncloses DEF TrailByAmount

\* The best price is at least the candle's.
LEMMA TrackEncloses ==
  ASSUME NEW p \in Position, Enclosed(entryMode, p), NEW c \in Candle
  PROVE  /\ Enclosed(entryMode, Track(p, c))
         /\ p.dir * (BestPrice(c, p.dir) - p.entry) <= p.dir * (Track(p, c).peak - p.entry)
<1> DEFINE best == BestPrice(c, p.dir)
<1>1. /\ best \in Int /\ p.dir \in {1, -1}
      /\ p.entry \in Int /\ p.peak \in Int /\ p.stop \in Int
  BY DEF BestPrice, Candle, Position
<1> HIDE DEF best
<1>2. Track(p, c) = [p EXCEPT !.peak = IF p.dir * (best - p.peak) > 0 THEN best ELSE p.peak]
  BY DEF Track, best
<1>3. Track(p, c).peak = IF p.dir * (best - p.peak) > 0 THEN best ELSE p.peak
  BY <1>2 DEF Position
<1>4. CASE p.dir = 1
  BY <1>1, <1>2, <1>3, <1>4, Directed DEF Enclosed, Position, best
<1>5. CASE p.dir = -1
  BY <1>1, <1>2, <1>3, <1>5, Directed DEF Enclosed, Position, best
<1> QED BY <1>1, <1>4, <1>5

LEMMA TrailEncloses ==
  ASSUME BracketFits, simulator \in Simulators, NEW p \in Position, Enclosed(entryMode, p), NEW c \in Candle,
         p.dir * (BestPrice(c, p.dir) - p.entry) <= p.dir * (p.peak - p.entry)
  PROVE  Enclosed(entryMode, Trail(p, c))
<1> DEFINE diff == p.dir * (BestPrice(c, p.dir) - p.entry)
           locked == Lock(p, diff)
<1>1. diff \in Int
  <2>1. BestPrice(c, p.dir) \in Int /\ p.entry \in Int /\ p.dir \in {1, -1}
    BY DEF BestPrice, Candle, Position
  <2> QED BY <2>1, Directed
<1>2. Enclosed(entryMode, locked) BY <1>1, LockEncloses
<1>3. Tightened(locked, p) BY BreakEvenTightens, Unchanged DEF Lock
<1> HIDE DEF diff, locked
<1>4. locked \in Position /\ diff <= locked.dir * (locked.peak - locked.entry)
  BY <1>3 DEF Tightened, Position, diff
<1>5. simulator.trailing \in BOOLEAN /\ simulator.mode \in Modes
  BY SimulatorAssumption
<1>6. CASE ~simulator.trailing BY <1>2, <1>6 DEF Trail, locked, diff
<1>7. CASE simulator.trailing /\ simulator.mode = "tp-distance"
  <2>1. Enclosed(entryMode, TrailByTarget(locked, diff))
    BY <1>1, <1>2, <1>4, <1>7, TargetEncloses DEF BracketFits
  <2> QED BY <1>7, <2>1 DEF Trail, locked, diff
<1>8. CASE simulator.trailing /\ simulator.mode = "fixed-amount"
  <2>1. Enclosed(entryMode, TrailByAmount(locked, diff)) BY <1>1, <1>2, <1>4, AmountEncloses
  <2> QED BY <1>8, <2>1 DEF Trail, locked, diff
<1>9. CASE simulator.trailing /\ simulator.mode = "entry-pct"
  <2>1. Enclosed(entryMode, TrailByPercent(locked, diff))
    BY <1>1, <1>2, <1>4, <1>9, PercentEncloses DEF BracketFits
  <2> QED BY <1>9, <2>1 DEF Trail, locked, diff
<1> QED BY <1>5, <1>6, <1>7, <1>8, <1>9 DEF Modes

\* An order fills at one of the prices that it may fill at.
LEMMA FilledAt ==
  ASSUME ahead \in Bar \cup {NoBar}, NEW d \in Direction, NEW z \in Zone,
         NEW fill \in Fills(d, Near(z, d))
  PROVE  fill.price \in FillPrices
<1>1. \A k \in DOMAIN Window : Window[k].open \in FillPrices /\ Window[k].close \in FillPrices
  <2> SUFFICES ASSUME NEW k \in DOMAIN Window
               PROVE  Window[k].open \in FillPrices /\ Window[k].close \in FillPrices
    OBVIOUS
  <2>1. LimitWait \in 0..Minutes /\ Minutes \in Nat BY BacktestAssumption
  <2>2. Window \in Seq(Candle) /\ (Window = <<>> \/ Len(Window) = LimitWait)
    BY <2>1, Slices DEF Window
  <2>3. k \in 1..LimitWait /\ Window # <<>> BY <2>2
  <2>4. Downloaded(ahead) /\ Window = SubSeq(ahead.minutes, 1, LimitWait)
    BY <2>3 DEF Window, Slice
  <2>5. ahead \in Bar BY <2>4 DEF Downloaded
  <2>6. ahead.minutes \in Seq(Candle) /\ Len(ahead.minutes) = Minutes
    BY <2>5, BacktestAssumption
  <2>7. k \in 1..Minutes BY <2>1, <2>3
  <2>8. Window[k] = ahead.minutes[k]
    <3>1. \A j \in 1..LimitWait : ahead.minutes[j] \in Candle BY <2>1, <2>6, ElementOfSeq
    <3>2. SubSeq(ahead.minutes, 1, LimitWait)[k] = ahead.minutes[1 + k - 1]
      BY <2>1, <2>3, <3>1, SubSeqProperties
    <3> QED BY <2>1, <2>3, <2>4, <3>2
  <2> QED BY <2>5, <2>7, <2>8 DEF FillPrices
<1>2. Near(z, d) \in FillPrices /\ Near(z, d) + d * MarketSlip \in FillPrices
  BY DEF FillPrices
<1>3. Touching(d, Near(z, d)) \subseteq DOMAIN Window BY DEF Touching
<1>4. Len(Window) > 0 => Len(Window) \in DOMAIN Window
  BY BacktestAssumption, Slices DEF Window
<1>5. \/ fill = [price |-> Near(z, d) + d * MarketSlip, time |-> BarClose]
      \/ \E k \in Touching(d, Near(z, d)) :
           fill = [price |-> IF d * (Window[k].open - Near(z, d)) <= 0
                             THEN Window[k].open ELSE Near(z, d),
                   time |-> BarClose + k]
      \/ Len(Window) > 0
         /\ fill = [price |-> Window[Len(Window)].close, time |-> BarClose + Len(Window)]
  BY DEF Fills
<1> QED BY <1>1, <1>2, <1>3, <1>4, <1>5

\* The stop of an entry lies behind its fill, or as little before it as the drift
\* exceeds the smallest stop, and its target before it.
LEMMA EntryEncloses ==
  ASSUME NEW d \in Direction, NEW z \in Zone, NEW fill,
         fill.price \in Int, fill.price \in FillPrices, fill.time \in Nat,
         entryMode = "market" => fill.price = Near(z, d) + d * MarketSlip,
         OpenPosition(d, fill.price, StopAfterFill(d, z, fill.price),
                      fill.price + d * StopDistance(z, d) * RewardRisk, fill.time)
  PROVE  Enclosed(entryMode, position')
<1> DEFINE sd == StopDistance(z, d)
           stop == StopAfterFill(d, z, fill.price)
           take == fill.price + d * sd * RewardRisk
<1>1. d \in {1, -1} /\ Near(z, d) \in Int /\ Far(z, d) \in Int
  BY SetupAssumption DEF Near, Far, Direction
<1>2. sd \in Int /\ sd >= MinSl
  <2>1. d * (Near(z, d) - Far(z, d)) + SlBuffer \in Int BY <1>1, SetupAssumption, Directed
  <2> QED BY <2>1, SetupAssumption DEF StopDistance, Larger
<1> HIDE DEF sd
<1>3. /\ d * (fill.price - stop) >= MinSl - Drift
      /\ d * (fill.price - stop) > 0 \/ entryMode # "market"
  <2>1. stop = IF Distance(fill.price, Near(z, d)) > Drift
               THEN fill.price - d * sd ELSE Near(z, d) - d * sd
    BY DEF StopAfterFill, StopLoss, sd
  <2>2. Drift \in Nat /\ MinSl \in Nat \ {0} /\ MarketSlip \in Nat
    BY SetupAssumption, BacktestAssumption
  <2>3. CASE d = 1 BY <1>1, <1>2, <2>1, <2>2, <2>3, Directed DEF Distance
  <2>4. CASE d = -1 BY <1>1, <1>2, <2>1, <2>2, <2>4, Directed DEF Distance
  <2> QED BY <1>1, <2>3, <2>4
<1>4. d * (take - fill.price) >= MinSl * RewardRisk
  <2>1. sd * RewardRisk \in Int /\ sd * RewardRisk >= MinSl * RewardRisk
    BY <1>2, Product, SetupAssumption, BacktestAssumption
  <2>2. take \in Int /\ d * (take - fill.price) = sd * RewardRisk
    <3>1. CASE d = 1 BY <1>2, <2>1, <3>1
    <3>2. CASE d = -1
      <4>1. \A a \in Int, b \in Int : -1 * a * b = -(a * b) OBVIOUS
      <4>2. d * sd * RewardRisk = -(sd * RewardRisk) BY <1>2, <3>2, <4>1, BacktestAssumption
      <4> QED BY <2>1, <3>2, <4>2
    <3> QED BY <1>1, <3>1, <3>2
  <2> QED BY <2>1, <2>2
<1> HIDE DEF stop, take
<1>5. position' = [dir |-> d, entry |-> fill.price, stop |-> stop, take |-> take,
                   initial |-> stop, time |-> fill.time, phase |-> 0, peak |-> fill.price]
  BY DEF OpenPosition, stop, take, sd
<1> QED BY <1>3, <1>4, <1>5 DEF Enclosed

BracketInv == \A p \in Held : Enclosed(entryMode, p)

LEMMA BracketStep ==
  ASSUME BracketFits
  PROVE  TypeInv /\ BracketInv /\ [Next]_vars => BracketInv'
<1> SUFFICES ASSUME TypeInv, BracketInv, [Next]_vars PROVE BracketInv'
  OBVIOUS
<1>0. entryMode' = entryMode
  BY DEF Next, vars, config, Manage, Cool, HoldIdle, FindSetup, DropSetup, CancelSetup, KeepSetup,
         NoEntry, TakeEntry, NextBar, Finish
<1>1. CASE Manage
  <2> DEFINE c == Candles[minute + 1]
  <2>1. c \in Candle
    <3>1. bar \in Bar /\ i \in 1..Bars /\ minute \in Nat
      BY BacktestAssumption DEF TypeInv, TypeOK
    <3>2. minute + 1 \in 1..Len(Candles) BY <1>1, <3>1, CandlesOfBar DEF TypeInv, BarInv, Manage
    <3> QED BY <3>1, <3>2, CandlesOfBar
  <2>2. simulator \in Simulators /\ position \in Position /\ Enclosed(entryMode, position)
    BY <1>1 DEF TypeInv, TypeOK, SimulatorTypes, Manage, ProcessCandle, BracketInv, Held
  <2> DEFINE seen == Track(position, c)
  <2>3. /\ seen \in Position /\ Enclosed(entryMode, seen)
        /\ seen.dir * (BestPrice(c, seen.dir) - seen.entry) <= seen.dir * (seen.peak - seen.entry)
    BY <2>1, <2>2, TrackTypes, TrackEncloses
  <2>4. Enclosed(entryMode, Trail(seen, c)) BY <2>1, <2>2, <2>3, TrailEncloses
  <2>5. PICK final : /\ final = seen \/ final = Trail(seen, c)
                     /\ \/ position' = NoPosition /\ closed'.trade = final
                        \/ position' = final /\ closed' = NoTrade
    BY <1>1, <2>1, <2>2, Carried DEF Manage, CloseTrade
  <2> HIDE DEF seen
  <2> QED BY <1>0, <2>3, <2>4, <2>5 DEF BracketInv, Held, Exited
<1>2. ASSUME UNCHANGED position, closed' = NoTrade PROVE BracketInv'
  BY <1>0, <1>2 DEF BracketInv, Held, Exited
<1>3. CASE Cool \/ HoldIdle \/ FindSetup \/ DropSetup \/ CancelSetup \/ KeepSetup \/ NextBar
  BY <1>2, <1>3 DEF Cool, HoldIdle, FindSetup, DropSetup, CancelSetup, KeepSetup, NoEntry, NextBar
<1>4. ASSUME NEW z \in Zone, TakeEntry(z) PROVE BracketInv'
  <2> DEFINE d == setup.bias
  <2>1. d \in Direction /\ i \in 1..Bars /\ bar \in Bar /\ ahead \in Bar \cup {NoBar}
        /\ Near(z, d) \in Int
    BY SetupAssumption DEF TypeInv, TypeOK, SetupTypes, Near
  <2>2. CASE closed' = NoTrade /\ UNCHANGED position BY <1>2, <2>2
  <2>3. ASSUME NEW fill \in Fills(d, Near(z, d)),
               OpenPosition(d, fill.price, StopAfterFill(d, z, fill.price),
                            fill.price + d * StopDistance(z, d) * RewardRisk, fill.time)
        PROVE  BracketInv'
    <3>1. fill.price \in Int /\ fill.time \in Nat /\ fill.price \in FillPrices
      BY <2>1, FillTypes, FilledAt
    <3>2. entryMode = "market" => fill.price = Near(z, d) + d * MarketSlip BY DEF Fills
    <3>3. Enclosed(entryMode, position') BY <2>1, <2>3, <3>1, <3>2, EntryEncloses
    <3> QED BY <1>0, <2>3, <3>3 DEF BracketInv, Held, Exited, OpenPosition
  <2> QED BY <1>4, <2>2, <2>3 DEF TakeEntry, Blocked
<1>5. CASE Finish
  BY <1>0, <1>2, <1>5 DEF Finish, ForceClose, CloseTrade, BracketInv, Held, Exited
<1>6. CASE UNCHANGED vars
  BY <1>0, <1>6 DEF vars, BracketInv, Held, Exited
<1> QED BY <1>1, <1>3, <1>4, <1>5, <1>6 DEF Next

\* The target lies before the fill and the stop behind it, or before it by no more
\* than the $50 exceed the smallest stop, and a trailed stop is not ahead of the
\* best price seen, for any bars and zones, provided break-even fits the prices.
THEOREM BracketsEnclose ==
  ASSUME BracketFits
  PROVE  Spec => []BracketEncloses
<1>1. Init => BracketInv BY DEF Init, BracketInv, Held, Exited
<1>2. TypeInv /\ BracketInv => BracketEncloses
  <2> SUFFICES ASSUME TypeInv, BracketInv, NEW p \in Held PROVE p.dir * (p.take - p.entry) > 0
    BY DEF BracketInv, Enclosed, BracketEncloses
  <2>1. MinSl * RewardRisk \in Nat \ {0} BY Product, SetupAssumption, BacktestAssumption
  <2>2. p \in Position BY DEF TypeInv, TypeOK, SimulatorTypes, Held, Exited
  <2>3. p.dir \in {1, -1} /\ p.take - p.entry \in Int BY <2>2 DEF Position
  <2>4. p.dir * (p.take - p.entry) \in Int BY <2>3, Directed
  <2> QED BY <2>1, <2>4 DEF BracketInv, Enclosed
<1> QED BY <1>1, <1>2, BracketStep, Invariant, PTL DEF Spec

-----------------------------------------------------------------------------
(* Windows that slide.                                                     *)

AnyCandle == [open : Int, high : Int, low : Int, close : Int]
IsWindow(w) == w \in Seq(AnyCandle) /\ Len(w) = WindowSize

\* The candles of a window that have closed.
Settled == IF live THEN WindowSize - 1 ELSE WindowSize

\* v is w one candle further on, the candles of w being final up to e.
Slides(w, v, e) == \A j \in 1..(e - 1) : v[j] = w[j + 1]

Size == WindowSize \in Nat /\ Lookback \in Nat \ {0} /\ BlockDepth \in 1..Lookback
          /\ WindowSize > 2 * Lookback + 1

LEMMA Sizes == Size
  BY StructureAssumption DEF Size

LEMMA ShapesAreCandles == Shape \subseteq AnyCandle
  BY StructureAssumption DEF AnyCandle

LEMMA OpenedCandles ==
  ASSUME NEW b \in AnyCandle
  PROVE  Opened(b) \subseteq AnyCandle
  BY StructureAssumption DEF Opened, Flat, AnyCandle

LEMMA ChainsAreSequences ==
  ASSUME NEW n \in Nat
  PROVE  Chain(n) \subseteq Seq(AnyCandle) /\ \A r \in Chain(n) : Len(r) = n
<1> SUFFICES ASSUME NEW r \in Chain(n) PROVE r \in Seq(AnyCandle) /\ Len(r) = n
  OBVIOUS
<1>1. r \in [1..n -> AnyCandle] BY ShapesAreCandles DEF Chain
<1>2. r \in Seq(AnyCandle) BY <1>1, IsASeq
<1> QED BY <1>1, <1>2

LEMMA RunsAreSequences ==
  ASSUME NEW n \in Nat \ {0}
  PROVE  \A r \in Run(n) : r \in Seq(AnyCandle) /\ Len(r) = n
<1> SUFFICES ASSUME NEW r \in Run(n) PROVE r \in Seq(AnyCandle) /\ Len(r) = n
  OBVIOUS
<1>1. PICK m \in Nat : m = n \div 2 /\ n - m \in Nat OBVIOUS
<1>2. PICK a \in Chain(m), b \in Chain(n - m) : r = a \o b BY <1>1 DEF Run
<1>3. a \in Seq(AnyCandle) /\ Len(a) = m BY <1>1, ChainsAreSequences
<1>4. b \in Seq(AnyCandle) /\ Len(b) = n - m BY <1>1, ChainsAreSequences
<1>5. a \o b \in Seq(AnyCandle) /\ Len(a \o b) = Len(a) + Len(b)
  BY <1>3, <1>4, ConcatProperties
<1>6. m + (n - m) = n BY <1>1
<1> QED BY <1>2, <1>3, <1>4, <1>5, <1>6

LEMMA FirstWindow == \A w \in ClosedWindow \cup OpenWindow : IsWindow(w)
<1>1. ASSUME NEW w \in ClosedWindow PROVE IsWindow(w)
  BY <1>1, Sizes, RunsAreSequences DEF ClosedWindow, IsWindow, Size
<1>2. ASSUME NEW w \in OpenWindow PROVE IsWindow(w)
  <2>1. PICK r \in Run(WindowSize - 1) : w \in {Append(r, o) : o \in Opened(Last(r))}
    BY <1>2 DEF OpenWindow
  <2> PICK o \in Opened(Last(r)) : w = Append(r, o) BY <2>1
  <2>2. WindowSize - 1 \in Nat \ {0} BY Sizes DEF Size
  <2>3. r \in Seq(AnyCandle) /\ Len(r) = WindowSize - 1 BY <2>2, RunsAreSequences
  <2>4. Last(r) \in AnyCandle
    <3>1. r[WindowSize - 1] \in AnyCandle BY <2>2, <2>3, Sizes, ElementOfSeq DEF Size
    <3> QED BY <2>3, <3>1 DEF Last
  <2>5. o \in AnyCandle BY <2>4, OpenedCandles
  <2>6. Append(r, o) \in Seq(AnyCandle) /\ Len(Append(r, o)) = Len(r) + 1
    BY <2>3, <2>5, AppendProperties
  <2>7. WindowSize - 1 + 1 = WindowSize BY Sizes DEF Size
  <2> QED BY <2>3, <2>6, <2>7 DEF IsWindow
<1> QED BY <1>1, <1>2

LEMMA WindowStep ==
  ASSUME IsWindow(window), live \in BOOLEAN, StructureNext
  PROVE  IsWindow(window') /\ Slides(window, window', Settled)
<1> USE Sizes DEF Size, IsWindow, Slides, Settled
<1>1. CASE NextCandle
  <2>1. PICK c \in Shape : window' = Append(Tail(window), c) BY <1>1 DEF NextCandle, NextCall
  <2>2. c \in AnyCandle BY ShapesAreCandles
  <2>3. /\ Tail(window) \in Seq(AnyCandle) /\ Len(Tail(window)) = WindowSize - 1
        /\ \A j \in 1..(WindowSize - 1) : Tail(window)[j] = window[j + 1]
    BY HeadTailProperties
  <2>4. /\ window' \in Seq(AnyCandle) /\ Len(window') = WindowSize
        /\ \A j \in 1..(WindowSize - 1) : window'[j] = Tail(window)[j]
    BY <2>1, <2>2, <2>3, AppendProperties
  <2> QED BY <1>1, <2>3, <2>4 DEF NextCandle
<1>2. CASE NextOpens
  <2>1. PICK c \in Shape : \E o \in Opened(c) : window' = SubSeq(window, 2, WindowSize - 1) \o <<c, o>>
    BY <1>2 DEF NextOpens, NextCall
  <2> PICK o \in Opened(c) : window' = SubSeq(window, 2, WindowSize - 1) \o <<c, o>> BY <2>1
  <2>2. c \in AnyCandle /\ o \in AnyCandle BY ShapesAreCandles, OpenedCandles
  <2>3. <<c, o>> \in Seq(AnyCandle) /\ Len(<<c, o>>) = 2 BY <2>2
  <2> DEFINE s == SubSeq(window, 2, WindowSize - 1)
  <2>4. /\ s \in Seq(AnyCandle) /\ Len(s) = WindowSize - 2
        /\ \A j \in 1..(WindowSize - 2) : s[j] = window[j + 1]
    <3>1. \A j \in 2..(WindowSize - 1) : window[j] \in AnyCandle BY ElementOfSeq
    <3> QED BY <3>1, SubSeqProperties
  <2> HIDE DEF s
  <2>5. /\ window' \in Seq(AnyCandle) /\ Len(window') = WindowSize
        /\ \A j \in 1..(WindowSize - 2) : window'[j] = s[j]
    BY <2>1, <2>3, <2>4, ConcatProperties DEF s
  <2> QED BY <1>2, <2>4, <2>5 DEF NextOpens
<1> QED BY <1>1, <1>2 DEF StructureNext

-----------------------------------------------------------------------------
(* What is found slides with the window.                                   *)

LEMMA SwingsSlide ==
  ASSUME NEW w, NEW v, NEW e \in {WindowSize, WindowSize - 1}, Slides(w, v, e), NEW d,
         NEW k \in (Lookback + 2)..(e - Lookback)
  PROVE  /\ v[k - 1] = w[k]
         /\ k \in Swings(w, d) <=> k - 1 \in Swings(v, d)
<1> USE Sizes DEF Size, Slides
<1>1. \A j \in 0..Lookback : v[k - 1 - j] = w[k - j] /\ v[k - 1 + j] = w[k + j]
  <2> SUFFICES ASSUME NEW j \in 0..Lookback PROVE v[k - 1 - j] = w[k - j] /\ v[k - 1 + j] = w[k + j]
    OBVIOUS
  <2>1. k - 1 - j \in 1..(e - 1) /\ k - 1 + j \in 1..(e - 1) OBVIOUS
  <2>2. k - 1 - j + 1 = k - j /\ k - 1 + j + 1 = k + j OBVIOUS
  <2> QED BY <2>1, <2>2
<1>2. v[k - 1] = w[k]
  <2>1. 0 \in 0..Lookback /\ k - 1 - 0 = k - 1 /\ k - 0 = k OBVIOUS
  <2> QED BY <1>1, <2>1
<1>3. k \in Inner /\ k - 1 \in Inner BY DEF Inner
<1>4. \A j \in 1..Lookback : v[k - 1 - j] = w[k - j] /\ v[k - 1 + j] = w[k + j]
  <2>1. 1..Lookback \subseteq 0..Lookback OBVIOUS
  <2> QED BY <1>1, <2>1
<1> QED BY <1>2, <1>3, <1>4 DEF Swings

LEMMA SwingsAreInner ==
  ASSUME NEW w, NEW d, NEW k \in Swings(w, d)
  PROVE  k \in (Lookback + 1)..(WindowSize - Lookback) /\ k \in Int
  BY Sizes DEF Swings, Inner, Size

LEMMA LaterFound ==
  ASSUME NEW kind, NEW d, NEW low, NEW high, NEW first \in Int, NEW last \in Int
  PROVE  /\ Later(Found(kind, d, low, high, first, last)) = Found(kind, d, low, high, first - 1, last - 1)
         /\ Earlier(Found(kind, d, low, high, first, last)) = Found(kind, d, low, high, first + 1, last + 1)
  BY DEF Later, Earlier, Found

\* The candle that an order block is made of slides too.
LEMMA BlockSlides ==
  ASSUME NEW w, NEW v, NEW e \in {WindowSize, WindowSize - 1}, Slides(w, v, e), NEW d,
         NEW k \in (Lookback + 2)..(e - Lookback), NEW q \in Int
  PROVE  /\ q \in BlockOf(w, k, d) <=> q - 1 \in BlockOf(v, k - 1, d)
         /\ q \in BlockOf(w, k, d) => v[q - 1] = w[q]
<1> USE Sizes DEF Size
<1>1. \A j \in (k - BlockDepth)..(k - 1) : v[j - 1] = w[j]
  <2> SUFFICES ASSUME NEW j \in (k - BlockDepth)..(k - 1) PROVE v[j - 1] = w[j]
    OBVIOUS
  <2>1. j - 1 \in 1..(e - 1) /\ j - 1 + 1 = j OBVIOUS
  <2> QED BY <2>1 DEF Slides
<1>2. q \in (k - BlockDepth)..(k - 1) <=> q - 1 \in (k - 1 - BlockDepth)..(k - 1 - 1) OBVIOUS
<1>3. ASSUME q \in (k - BlockDepth)..(k - 1)
      PROVE  (\A j \in (q + 1)..(k - 1) : ~Turned(w[j], d))
               <=> (\A j \in (q - 1 + 1)..(k - 1 - 1) : ~Turned(v[j], d))
  <2>1. ASSUME \A j \in (q + 1)..(k - 1) : ~Turned(w[j], d), NEW j \in (q - 1 + 1)..(k - 1 - 1)
        PROVE  ~Turned(v[j], d)
    <3>1. j + 1 \in (q + 1)..(k - 1) /\ j + 1 \in (k - BlockDepth)..(k - 1) /\ j + 1 - 1 = j BY <1>3
    <3> QED BY <1>1, <2>1, <3>1
  <2>2. ASSUME \A j \in (q - 1 + 1)..(k - 1 - 1) : ~Turned(v[j], d), NEW j \in (q + 1)..(k - 1)
        PROVE  ~Turned(w[j], d)
    <3>1. j - 1 \in (q - 1 + 1)..(k - 1 - 1) /\ j \in (k - BlockDepth)..(k - 1) BY <1>3
    <3> QED BY <1>1, <2>2, <3>1
  <2> QED BY <2>1, <2>2
<1>4. CASE q \in (k - BlockDepth)..(k - 1)
  <2>1. v[q - 1] = w[q] BY <1>1, <1>4
  <2> QED BY <1>2, <1>3, <1>4, <2>1 DEF BlockOf
<1>5. CASE q \notin (k - BlockDepth)..(k - 1)
  BY <1>2, <1>5 DEF BlockOf
<1> QED BY <1>4, <1>5

LEMMA GapsSlide ==
  ASSUME NEW w, NEW v, NEW e \in {WindowSize, WindowSize - 1}, Slides(w, v, e),
         NEW k \in 3..(e - 1)
  PROVE  v[k - 2] = w[k - 1] /\ v[k - 1] = w[k] /\ v[k] = w[k + 1]
<1> USE Sizes DEF Size
<1>1. /\ k - 2 \in 1..(e - 1) /\ k - 1 \in 1..(e - 1) /\ k \in 1..(e - 1)
      /\ k - 2 + 1 = k - 1 /\ k - 1 + 1 = k
  OBVIOUS
<1> QED BY <1>1 DEF Slides

\* The three kinds of zones, told apart by what they are found in.
PointsOf(w) == SwingPoints(w, Swings(w, 1), 1) \cup SwingPoints(w, Swings(w, -1), -1)
BlocksOf(w) == OrderBlocks(w, Swings(w, 1), 1) \cup OrderBlocks(w, Swings(w, -1), -1)

LEMMA FoundIn ==
  ASSUME NEW w
  PROVE  Analyze(w).found = PointsOf(w) \cup BlocksOf(w) \cup FairValueGaps(w)
  BY DEF Analyze, PointsOf, BlocksOf

\* From one window to the next.
LEMMA PointsStay ==
  ASSUME NEW w, NEW v, NEW e \in {WindowSize, WindowSize - 1}, Slides(w, v, e),
         NEW d, NEW z \in SwingPoints(w, Swings(w, d), d), z.first > 1, z.last <= e
  PROVE  Later(z) \in SwingPoints(v, Swings(v, d), d)
<1>1. PICK k \in Swings(w, d) :
        z = Found("swing", d, w[k].low, w[k].high, k - Lookback, k + Lookback)
  BY DEF SwingPoints
<1>2. k \in Int /\ z.first = k - Lookback /\ z.last = k + Lookback
  BY <1>1, SwingsAreInner DEF Found
<1>3. k \in (Lookback + 2)..(e - Lookback) BY <1>2, Sizes DEF Size
<1>4. v[k - 1] = w[k] /\ k - 1 \in Swings(v, d)
  <2>1. v[k - 1] = w[k] /\ (k \in Swings(w, d) <=> k - 1 \in Swings(v, d)) BY <1>3, SwingsSlide
  <2> QED BY <2>1
<1>5. Later(z) = Found("swing", d, w[k].low, w[k].high, k - Lookback - 1, k + Lookback - 1)
  BY <1>1, LaterFound, <1>2, Sizes DEF Size
<1>6. k - Lookback - 1 = k - 1 - Lookback /\ k + Lookback - 1 = k - 1 + Lookback
  BY <1>2, Sizes DEF Size
<1> QED BY <1>4, <1>5, <1>6 DEF SwingPoints

LEMMA PointsStood ==
  ASSUME NEW w, NEW v, NEW e \in {WindowSize, WindowSize - 1}, Slides(w, v, e),
         NEW d, NEW z \in SwingPoints(v, Swings(v, d), d), z.last < e
  PROVE  Earlier(z) \in SwingPoints(w, Swings(w, d), d)
<1>1. PICK k \in Swings(v, d) :
        z = Found("swing", d, v[k].low, v[k].high, k - Lookback, k + Lookback)
  BY DEF SwingPoints
<1>2. k \in Int /\ k >= Lookback + 1 /\ z.last = k + Lookback
  BY <1>1, SwingsAreInner, Sizes DEF Found, Size
<1>3. PICK m \in (Lookback + 2)..(e - Lookback) : m = k + 1 /\ m - 1 = k
  BY <1>2, Sizes DEF Size
<1>4. v[k] = w[m] /\ m \in Swings(w, d)
  <2>1. v[m - 1] = w[m] /\ (m \in Swings(w, d) <=> m - 1 \in Swings(v, d)) BY SwingsSlide
  <2> QED BY <1>1, <1>3, <2>1
<1>5. Earlier(z) = Found("swing", d, v[k].low, v[k].high, k - Lookback + 1, k + Lookback + 1)
  BY <1>1, LaterFound, <1>2, Sizes DEF Size
<1>6. k - Lookback + 1 = m - Lookback /\ k + Lookback + 1 = m + Lookback
  BY <1>2, <1>3, Sizes DEF Size
<1> QED BY <1>4, <1>5, <1>6 DEF SwingPoints

LEMMA BlocksStay ==
  ASSUME NEW w, NEW v, NEW e \in {WindowSize, WindowSize - 1}, Slides(w, v, e),
         NEW d, NEW z \in OrderBlocks(w, Swings(w, d), d), z.first > 1, z.last <= e
  PROVE  Later(z) \in OrderBlocks(v, Swings(v, d), d)
<1>1. PICK k \in Swings(w, d) : \E q \in BlockOf(w, k, d) : z = Block(w, q, k, d)
  BY DEF OrderBlocks
<1>2. PICK q \in BlockOf(w, k, d) : z = Block(w, q, k, d) BY <1>1
<1>3. k \in Int /\ z.first = k - Lookback /\ z.last = k + Lookback
  BY <1>2, SwingsAreInner DEF Block, Found
<1>4. k \in (Lookback + 2)..(e - Lookback) BY <1>3, Sizes DEF Size
<1>5. q \in Int BY <1>3, Sizes DEF BlockOf, Size
<1>6. k - 1 \in Swings(v, d)
  <2>1. k \in Swings(w, d) <=> k - 1 \in Swings(v, d) BY <1>4, SwingsSlide
  <2> QED BY <2>1
<1>7. q - 1 \in BlockOf(v, k - 1, d) /\ v[q - 1] = w[q]
  <2>1. /\ q \in BlockOf(w, k, d) <=> q - 1 \in BlockOf(v, k - 1, d)
        /\ q \in BlockOf(w, k, d) => v[q - 1] = w[q]
    BY <1>4, <1>5, BlockSlides
  <2> QED BY <2>1
<1>8. k - Lookback - 1 = k - 1 - Lookback /\ k + Lookback - 1 = k - 1 + Lookback
  BY <1>3, Sizes DEF Size
<1>9. Later(z) = Block(v, q - 1, k - 1, d)
  BY <1>2, <1>3, <1>7, <1>8, LaterFound, Sizes DEF Block, Size
<1> QED BY <1>6, <1>7, <1>9 DEF OrderBlocks

LEMMA BlocksStood ==
  ASSUME NEW w, NEW v, NEW e \in {WindowSize, WindowSize - 1}, Slides(w, v, e),
         NEW d, NEW z \in OrderBlocks(v, Swings(v, d), d), z.last < e
  PROVE  Earlier(z) \in OrderBlocks(w, Swings(w, d), d)
<1>1. PICK k \in Swings(v, d) : \E q \in BlockOf(v, k, d) : z = Block(v, q, k, d)
  BY DEF OrderBlocks
<1>2. PICK q \in BlockOf(v, k, d) : z = Block(v, q, k, d) BY <1>1
<1>3. k \in Int /\ k >= Lookback + 1 /\ z.first = k - Lookback /\ z.last = k + Lookback
  BY <1>2, SwingsAreInner, Sizes DEF Block, Found, Size
<1>4. PICK m \in (Lookback + 2)..(e - Lookback) : m = k + 1 /\ m - 1 = k
  BY <1>3, Sizes DEF Size
<1>5. PICK n \in Int : n = q + 1 /\ n - 1 = q
  <2>1. q \in Int BY <1>3, Sizes DEF BlockOf, Size
  <2> QED BY <2>1
<1>6. m \in Swings(w, d)
  <2>1. m \in Swings(w, d) <=> m - 1 \in Swings(v, d) BY SwingsSlide
  <2> QED BY <1>4, <2>1
<1>7. n \in BlockOf(w, m, d) /\ v[q] = w[n]
  <2>1. /\ n \in BlockOf(w, m, d) <=> n - 1 \in BlockOf(v, m - 1, d)
        /\ n \in BlockOf(w, m, d) => v[n - 1] = w[n]
    BY BlockSlides
  <2> QED BY <1>4, <1>5, <2>1
<1>8. k - Lookback + 1 = m - Lookback /\ k + Lookback + 1 = m + Lookback
  BY <1>3, <1>4, Sizes DEF Size
<1>9. Earlier(z) = Block(w, n, m, d)
  BY <1>2, <1>3, <1>7, <1>8, LaterFound, Sizes DEF Block, Size
<1> QED BY <1>6, <1>7, <1>9 DEF OrderBlocks

LEMMA FairValueGapsStay ==
  ASSUME NEW w, NEW v, NEW e \in {WindowSize, WindowSize - 1}, Slides(w, v, e),
         NEW z \in FairValueGaps(w), z.first > 1, z.last <= e
  PROVE  Later(z) \in FairValueGaps(v)
<1>1. ASSUME NEW k \in 2..(WindowSize - 1), z.first = k - 1, z.last = k + 1
      PROVE  /\ k - 1 \in 2..(WindowSize - 1)
             /\ v[k - 1 - 1] = w[k - 1] /\ v[k - 1] = w[k] /\ v[k - 1 + 1] = w[k + 1]
  <2>1. k \in 3..(e - 1) /\ k - 1 - 1 = k - 2 /\ k - 1 + 1 = k BY <1>1, Sizes DEF Size
  <2>2. v[k - 2] = w[k - 1] /\ v[k - 1] = w[k] /\ v[k] = w[k + 1] BY <2>1, GapsSlide
  <2> QED BY <2>1, <2>2, Sizes DEF Size
<1>2. ASSUME NEW k \in 2..(WindowSize - 1), w[k - 1].high < w[k + 1].low, Rose(w[k]),
             z = Found("FVG", 1, w[k - 1].high, w[k + 1].low, k - 1, k + 1)
      PROVE  Later(z) \in FairValueGaps(v)
  <2>1. z.first = k - 1 /\ z.last = k + 1 BY <1>2 DEF Found
  <2>2. Later(z) = Found("FVG", 1, w[k - 1].high, w[k + 1].low, k - 1 - 1, k + 1 - 1)
    BY <1>2, LaterFound
  <2>3. k + 1 - 1 = k - 1 + 1 OBVIOUS
  <2> QED BY <1>1, <1>2, <2>1, <2>2, <2>3 DEF FairValueGaps
<1>3. ASSUME NEW k \in 2..(WindowSize - 1), w[k - 1].low > w[k + 1].high, Fell(w[k]),
             z = Found("FVG", -1, w[k + 1].high, w[k - 1].low, k - 1, k + 1)
      PROVE  Later(z) \in FairValueGaps(v)
  <2>1. z.first = k - 1 /\ z.last = k + 1 BY <1>3 DEF Found
  <2>2. Later(z) = Found("FVG", -1, w[k + 1].high, w[k - 1].low, k - 1 - 1, k + 1 - 1)
    BY <1>3, LaterFound
  <2>3. k + 1 - 1 = k - 1 + 1 OBVIOUS
  <2> QED BY <1>1, <1>3, <2>1, <2>2, <2>3 DEF FairValueGaps
<1> QED BY <1>2, <1>3 DEF FairValueGaps

LEMMA FairValueGapsStood ==
  ASSUME NEW w, NEW v, NEW e \in {WindowSize, WindowSize - 1}, Slides(w, v, e),
         NEW z \in FairValueGaps(v), z.last < e
  PROVE  Earlier(z) \in FairValueGaps(w)
<1>1. ASSUME NEW k \in 2..(WindowSize - 1), z.first = k - 1, z.last = k + 1
      PROVE  \E m \in 3..(WindowSize - 1) :
               /\ m = k + 1 /\ m - 1 = k - 1 + 1 /\ m + 1 = k + 1 + 1
               /\ v[k - 1] = w[m - 1] /\ v[k] = w[m] /\ v[k + 1] = w[m + 1]
  <2>1. PICK m \in 3..(e - 1) : m = k + 1 /\ m - 2 = k - 1 /\ m - 1 = k
    BY <1>1, Sizes DEF Size
  <2>2. v[m - 2] = w[m - 1] /\ v[m - 1] = w[m] /\ v[m] = w[m + 1] BY GapsSlide
  <2> QED BY <2>1, <2>2, Sizes DEF Size
<1>2. ASSUME NEW k \in 2..(WindowSize - 1), v[k - 1].high < v[k + 1].low, Rose(v[k]),
             z = Found("FVG", 1, v[k - 1].high, v[k + 1].low, k - 1, k + 1)
      PROVE  Earlier(z) \in FairValueGaps(w)
  <2>1. z.first = k - 1 /\ z.last = k + 1 BY <1>2 DEF Found
  <2>2. Earlier(z) = Found("FVG", 1, v[k - 1].high, v[k + 1].low, k - 1 + 1, k + 1 + 1)
    BY <1>2, LaterFound
  <2>3. PICK m \in 3..(WindowSize - 1) :
               /\ m = k + 1 /\ m - 1 = k - 1 + 1 /\ m + 1 = k + 1 + 1
               /\ v[k - 1] = w[m - 1] /\ v[k] = w[m] /\ v[k + 1] = w[m + 1]
    BY <1>1, <2>1
  <2>4. m \in 2..(WindowSize - 1) BY <2>3
  <2> QED BY <1>2, <2>2, <2>3, <2>4 DEF FairValueGaps
<1>3. ASSUME NEW k \in 2..(WindowSize - 1), v[k - 1].low > v[k + 1].high, Fell(v[k]),
             z = Found("FVG", -1, v[k + 1].high, v[k - 1].low, k - 1, k + 1)
      PROVE  Earlier(z) \in FairValueGaps(w)
  <2>1. z.first = k - 1 /\ z.last = k + 1 BY <1>3 DEF Found
  <2>2. Earlier(z) = Found("FVG", -1, v[k + 1].high, v[k - 1].low, k - 1 + 1, k + 1 + 1)
    BY <1>3, LaterFound
  <2>3. PICK m \in 3..(WindowSize - 1) :
               /\ m = k + 1 /\ m - 1 = k - 1 + 1 /\ m + 1 = k + 1 + 1
               /\ v[k - 1] = w[m - 1] /\ v[k] = w[m] /\ v[k + 1] = w[m + 1]
    BY <1>1, <2>1
  <2>4. m \in 2..(WindowSize - 1) BY <2>3
  <2> QED BY <1>3, <2>2, <2>3, <2>4 DEF FairValueGaps
<1> QED BY <1>2, <1>3 DEF FairValueGaps

LEMMA FoundWithin ==
  ASSUME NEW w, NEW z \in Analyze(w).found
  PROVE  z.last \in Int /\ z.last <= WindowSize
<1> USE Sizes DEF Size
<1>1. ASSUME NEW d, z \in SwingPoints(w, Swings(w, d), d) PROVE z.last \in Int /\ z.last <= WindowSize
  BY <1>1, SwingsAreInner DEF SwingPoints, Found
<1>2. ASSUME NEW d, z \in OrderBlocks(w, Swings(w, d), d) PROVE z.last \in Int /\ z.last <= WindowSize
  BY <1>2, SwingsAreInner DEF OrderBlocks, Block, Found
<1>3. ASSUME z \in FairValueGaps(w) PROVE z.last \in Int /\ z.last <= WindowSize
  BY <1>3 DEF FairValueGaps, Found
<1> QED BY <1>1, <1>2, <1>3, FoundIn DEF PointsOf, BlocksOf

LEMMA FoundStays ==
  ASSUME NEW w, NEW v, NEW e \in {WindowSize, WindowSize - 1}, Slides(w, v, e)
  PROVE  /\ \A z \in Analyze(w).found : z.first > 1 /\ z.last <= e => Later(z) \in Analyze(v).found
         /\ \A z \in Analyze(v).found : z.last < e => Earlier(z) \in Analyze(w).found
<1>1. ASSUME NEW z \in Analyze(w).found, z.first > 1, z.last <= e
      PROVE  Later(z) \in Analyze(v).found
  <2>1. CASE z \in PointsOf(w) BY <1>1, <2>1, PointsStay, FoundIn DEF PointsOf
  <2>2. CASE z \in BlocksOf(w) BY <1>1, <2>2, BlocksStay, FoundIn DEF BlocksOf
  <2>3. CASE z \in FairValueGaps(w) BY <1>1, <2>3, FairValueGapsStay, FoundIn
  <2> QED BY <1>1, <2>1, <2>2, <2>3, FoundIn
<1>2. ASSUME NEW z \in Analyze(v).found, z.last < e
      PROVE  Earlier(z) \in Analyze(w).found
  <2>1. CASE z \in PointsOf(v) BY <1>2, <2>1, PointsStood, FoundIn DEF PointsOf
  <2>2. CASE z \in BlocksOf(v) BY <1>2, <2>2, BlocksStood, FoundIn DEF BlocksOf
  <2>3. CASE z \in FairValueGaps(v) BY <1>2, <2>3, FairValueGapsStood, FoundIn
  <2> QED BY <1>2, <2>1, <2>2, <2>3, FoundIn
<1> QED BY <1>1, <1>2

\* What the calls keep: the last one's features are those of its window.
CallsInv ==
  live \in BOOLEAN /\ IsWindow(window) /\ features = Analyze(window)

LEMMA FirstCall == StructureInit => CallsInv
<1> SUFFICES ASSUME StructureInit PROVE CallsInv
  OBVIOUS
<1>1. window \in ClosedWindow \cup OpenWindow /\ live \in BOOLEAN /\ features = Analyze(window)
  BY DEF StructureInit
<1> QED BY <1>1, FirstWindow DEF CallsInv

LEMMA CallsStep ==
  ASSUME CallsInv, StructureNext
  PROVE  CallsInv' /\ Slides(window, window', Settled) /\ live' = live
<1>1. IsWindow(window') /\ Slides(window, window', Settled) BY WindowStep DEF CallsInv
<1>2. live' = live BY DEF StructureNext, NextCandle, NextOpens, NextCall
<1>3. features' = Analyze(window')
  <2>1. CASE NextCandle
    <3>1. PICK c \in Shape : NextCall(Append(Tail(window), c)) BY <2>1 DEF NextCandle
    <3> QED BY <3>1 DEF NextCall
  <2>2. CASE NextOpens
    <3>1. PICK c \in Shape : \E o \in Opened(c) : NextCall(SubSeq(window, 2, WindowSize - 1) \o <<c, o>>)
      BY <2>2 DEF NextOpens
    <3> QED BY <3>1 DEF NextCall
  <2> QED BY <2>1, <2>2 DEF StructureNext
<1> QED BY <1>1, <1>2, <1>3 DEF CallsInv, IsWindow

LEMMA StepStays ==
  ASSUME CallsInv, StructureNext
  PROVE  Stays /\ NotLate
<1>1. Slides(window, window', Settled) /\ CallsInv' BY CallsStep
<1>2. Settled \in {WindowSize, WindowSize - 1} BY DEF Settled
<1>3. /\ \A z \in Analyze(window).found :
           z.first > 1 /\ z.last <= Settled => Later(z) \in Analyze(window').found
      /\ \A z \in Analyze(window').found :
           z.last < Settled => Earlier(z) \in Analyze(window).found
  BY <1>1, <1>2, FoundStays
<1>4. features = Analyze(window) /\ features' = Analyze(window') BY <1>1 DEF CallsInv
<1>5. ASSUME NEW z \in features.found, z.first > 1, live => z.last < WindowSize
      PROVE  Later(z) \in features'.found
  <2>1. z.last \in Int /\ z.last <= WindowSize BY <1>4, FoundWithin
  <2> QED BY <1>3, <1>4, <1>5, <2>1, Sizes DEF Settled, Size
<1>6. ASSUME NEW z \in features'.found, z.last < WindowSize - (IF live THEN 1 ELSE 0)
      PROVE  Earlier(z) \in features.found
  BY <1>3, <1>4, <1>6, Sizes DEF Settled, Size
<1> QED BY <1>5, <1>6 DEF Stays, NotLate

\* A behaviour that follows the backtest is one of the backtest.
LEMMA StructuredStep ==
  ASSUME [StructuredNext]_<<vars, structureVars, following>>
  PROVE  [Next]_vars /\ [StructureNext]_structureVars
  BY DEF StructuredNext

THEOREM CoversBacktest == StructuredSpec => Spec
  BY StructuredStep, PTL DEF StructuredSpec, StructuredInit, Spec

LEMMA CallsHold == StructuredSpec => []CallsInv
<1>1. StructuredInit => CallsInv BY FirstCall DEF StructuredInit
<1>2. CallsInv /\ UNCHANGED structureVars => CallsInv'
  BY DEF CallsInv, structureVars, IsWindow
<1>3. CallsInv /\ [StructuredNext]_<<vars, structureVars, following>> => CallsInv'
  BY <1>2, CallsStep, StructuredStep
<1> QED BY <1>1, <1>3, PTL DEF StructuredSpec

\* Swings, order blocks and gaps are neither repainted nor found late, for every
\* market, window and lookback.
THEOREM NothingRepainted == StructuredSpec => ZonesStand
<1>1. CallsInv /\ [StructuredNext]_<<vars, structureVars, following>> =>
        [following = "calls" => Stays /\ NotLate]_structureVars
  BY StepStays, StructuredStep
<1> QED BY <1>1, CallsHold, PTL DEF StructuredSpec, ZonesStand

-----------------------------------------------------------------------------
(* The last of a bounded set of breaks.                                    *)

LEMMA Greatest ==
  ASSUME NEW n \in Nat, NEW S \in SUBSET (0..n), S # {}
  PROVE  Max(S) \in S /\ \A y \in S : y <= Max(S)
<1> DEFINE T == {n - y : y \in S}
<1>1. T \subseteq Nat /\ T # {}
  <2>1. \A y \in S : n - y \in Nat OBVIOUS
  <2>2. PICK y : y \in S OBVIOUS
  <2>3. n - y \in T BY <2>2
  <2> QED BY <2>1, <2>3
<1>2. PICK t \in T : \A u \in T : ~(<<u, t>> \in OpToRel(<, Nat))
  BY <1>1, NatLessThanWellFounded, WFMin
<1>3. \A u \in T : ~(u < t) BY <1>1, <1>2 DEF OpToRel
<1>4. PICK x \in S : t = n - x OBVIOUS
<1>5. \A y \in S : x >= y
  <2> SUFFICES ASSUME NEW y \in S PROVE x >= y OBVIOUS
  <2>1. n - y \in T OBVIOUS
  <2>2. ~(n - y < n - x) BY <1>3, <1>4, <2>1
  <2>3. x \in 0..n /\ y \in 0..n OBVIOUS
  <2> QED BY <2>2, <2>3
<1>6. Max(S) \in S /\ \A y \in S : Max(S) >= y BY <1>5 DEF Max
<1> QED BY <1>6

LEMMA GreatestIs ==
  ASSUME NEW n \in Nat, NEW S \in SUBSET (0..n), NEW x \in S, \A y \in S : y <= x
  PROVE  Max(S) = x
<1>1. Max(S) \in S /\ \A y \in S : y <= Max(S) BY Greatest
<1>2. Max(S) \in 0..n /\ x \in 0..n BY <1>1
<1>3. x <= Max(S) /\ Max(S) <= x BY <1>1
<1> QED BY <1>2, <1>3

-----------------------------------------------------------------------------
(* Structure breaks.                                                       *)

BreaksOf(w) == StructureBreaks(w, Swings(w, 1), Swings(w, -1))
\* Greater than the places of all breaks.
Top == 2 * WindowSize + 1

\* A break is a swing, and a swing before it of the same direction is the last
\* one that it goes beyond.
BreaksAfter(w, k, d, p) ==
  /\ k \in Swings(w, d) /\ p \in Swings(w, d) /\ p < k
  /\ Reach(w[k], d) > Reach(w[p], d) /\ Swings(w, d) \cap (p + 1)..(k - 1) = {}

LEMMA BreakIs ==
  ASSUME NEW w, NEW b
  PROVE  b \in BreaksOf(w) <=>
           /\ b \in Int /\ SwingOf(b) \in Int
           /\ \E p : BreaksAfter(w, SwingOf(b), DirectionOf(b), p)
<1>1. ASSUME b \in BreaksOf(w)
      PROVE  b \in Int /\ SwingOf(b) \in Int /\ \E p : BreaksAfter(w, SwingOf(b), DirectionOf(b), p)
  <2>1. CASE \E k \in Breaking(w, Swings(w, 1), 1) : b = 2 * k
    <3>1. PICK k \in Breaking(w, Swings(w, 1), 1) : b = 2 * k BY <2>1
    <3>2. k \in Int BY SwingsAreInner DEF Breaking
    <3>3. SwingOf(b) = k /\ DirectionOf(b) = 1 BY <3>1, <3>2 DEF SwingOf, DirectionOf
    <3> QED BY <3>1, <3>2, <3>3 DEF Breaking, BreaksAfter
  <2>2. CASE \E k \in Breaking(w, Swings(w, -1), -1) : b = 2 * k + 1
    <3>1. PICK k \in Breaking(w, Swings(w, -1), -1) : b = 2 * k + 1 BY <2>2
    <3>2. k \in Int BY SwingsAreInner DEF Breaking
    <3>3. SwingOf(b) = k /\ DirectionOf(b) = -1 BY <3>1, <3>2 DEF SwingOf, DirectionOf
    <3> QED BY <3>1, <3>2, <3>3 DEF Breaking, BreaksAfter
  <2> QED BY <1>1, <2>1, <2>2 DEF BreaksOf, StructureBreaks
<1>2. ASSUME b \in Int, NEW p, BreaksAfter(w, SwingOf(b), DirectionOf(b), p)
      PROVE  b \in BreaksOf(w)
  <2>1. SwingOf(b) \in Breaking(w, Swings(w, DirectionOf(b)), DirectionOf(b))
    BY <1>2 DEF Breaking, BreaksAfter
  <2>2. \/ DirectionOf(b) = 1 /\ b = 2 * SwingOf(b)
        \/ DirectionOf(b) = -1 /\ b = 2 * SwingOf(b) + 1
    BY <1>2 DEF SwingOf, DirectionOf
  <2> QED BY <2>1, <2>2 DEF BreaksOf, StructureBreaks
<1> QED BY <1>1, <1>2

LEMMA BreaksWithin ==
  ASSUME NEW w, NEW b \in BreaksOf(w)
  PROVE  /\ b \in 0..Top /\ SwingOf(b) \in (Lookback + 1)..(WindowSize - Lookback)
         /\ DirectionOf(b) \in {1, -1} /\ b \in {2 * SwingOf(b), 2 * SwingOf(b) + 1}
<1>1. b \in Int /\ SwingOf(b) \in Swings(w, DirectionOf(b)) BY BreakIs DEF BreaksAfter
<1>2. SwingOf(b) \in (Lookback + 1)..(WindowSize - Lookback) BY <1>1, SwingsAreInner
<1>3. DirectionOf(b) \in {1, -1} /\ b \in {2 * SwingOf(b), 2 * SwingOf(b) + 1}
  BY <1>1 DEF SwingOf, DirectionOf
<1> QED BY <1>1, <1>2, <1>3, Sizes DEF Top, Size

LEMMA BreakMoves ==
  ASSUME NEW b \in Int
  PROVE  /\ SwingOf(b - 2) = SwingOf(b) - 1 /\ DirectionOf(b - 2) = DirectionOf(b)
         /\ SwingOf(b + 2) = SwingOf(b) + 1 /\ DirectionOf(b + 2) = DirectionOf(b)
         /\ SwingOf(b) \in Int
  BY DEF SwingOf, DirectionOf

\* A break that both windows can have was already one.
LEMMA BreaksStood ==
  ASSUME NEW w, NEW v, NEW e \in {WindowSize, WindowSize - 1}, Slides(w, v, e),
         NEW b \in BreaksOf(v), SwingOf(b) < e - Lookback
  PROVE  /\ b + 2 \in BreaksOf(w)
         /\ \E p \in (Lookback + 2)..SwingOf(b) : BreaksAfter(w, SwingOf(b + 2), DirectionOf(b), p)
<1> DEFINE k == SwingOf(b)  d == DirectionOf(b)
<1>1. b \in Int /\ k \in (Lookback + 1)..(WindowSize - Lookback) /\ k \in Int
  BY BreaksWithin, Sizes DEF Size
<1>2. PICK p : BreaksAfter(v, k, d, p) BY BreakIs
<1>3. p \in (Lookback + 1)..(WindowSize - Lookback) /\ p \in Int /\ p < k
  BY <1>2, SwingsAreInner DEF BreaksAfter
<1>4. SwingOf(b + 2) = k + 1 /\ DirectionOf(b + 2) = d BY <1>1, BreakMoves
<1> HIDE DEF k, d
<1>5. PICK m \in (Lookback + 2)..(e - Lookback) : m = k + 1 /\ m - 1 = k
  BY <1>1, Sizes DEF k, Size
<1>6. PICK q \in (Lookback + 2)..(e - Lookback) : q = p + 1 /\ q - 1 = p
  BY <1>1, <1>3, Sizes DEF k, Size
<1>7. v[k] = w[m] /\ m \in Swings(w, d)
  <2>1. v[m - 1] = w[m] /\ (m \in Swings(w, d) <=> m - 1 \in Swings(v, d)) BY SwingsSlide
  <2> QED BY <1>2, <1>5, <2>1 DEF BreaksAfter
<1>8. v[p] = w[q] /\ q \in Swings(w, d)
  <2>1. v[q - 1] = w[q] /\ (q \in Swings(w, d) <=> q - 1 \in Swings(v, d)) BY SwingsSlide
  <2> QED BY <1>2, <1>6, <2>1 DEF BreaksAfter
<1>9. Swings(w, d) \cap (q + 1)..(m - 1) = {}
  <2> SUFFICES ASSUME NEW s \in (q + 1)..(m - 1), s \in Swings(w, d) PROVE FALSE OBVIOUS
  <2>1. s \in (Lookback + 2)..(e - Lookback) /\ s - 1 \in (p + 1)..(k - 1)
    BY <1>1, <1>3, <1>5, <1>6, Sizes DEF Size
  <2>2. s \in Swings(w, d) <=> s - 1 \in Swings(v, d) BY <2>1, SwingsSlide
  <2> QED BY <1>2, <2>1, <2>2 DEF BreaksAfter
<1>10. q \in (Lookback + 2)..k /\ q < m BY <1>1, <1>3, <1>5, <1>6, Sizes DEF Size
<1>11. BreaksAfter(w, m, d, q) BY <1>2, <1>7, <1>8, <1>9, <1>10 DEF BreaksAfter
<1> QED BY <1>1, <1>4, <1>5, <1>10, <1>11, BreakIs DEF k, d

\* A break whose own swing and the one before both stay is kept.
LEMMA BreaksStay ==
  ASSUME NEW w, NEW v, NEW e \in {WindowSize, WindowSize - 1}, Slides(w, v, e),
         NEW b \in BreaksOf(w), SwingOf(b) <= e - Lookback,
         NEW p \in Int, BreaksAfter(w, SwingOf(b), DirectionOf(b), p), p > Lookback + 1
  PROVE  b - 2 \in BreaksOf(v)
<1> DEFINE k == SwingOf(b)  d == DirectionOf(b)
<1>1. b \in Int /\ k \in (Lookback + 1)..(WindowSize - Lookback) /\ k \in Int
  BY BreaksWithin, Sizes DEF Size
<1>2. BreaksAfter(w, k, d, p) /\ p < k BY DEF BreaksAfter
<1>3. SwingOf(b - 2) = k - 1 /\ DirectionOf(b - 2) = d BY <1>1, BreakMoves
<1>4. k \in (Lookback + 2)..(e - Lookback) /\ p \in (Lookback + 2)..(e - Lookback)
  BY <1>1, <1>2, Sizes DEF Size
<1> HIDE DEF k, d
<1>5. v[k - 1] = w[k] /\ k - 1 \in Swings(v, d)
  <2>1. v[k - 1] = w[k] /\ (k \in Swings(w, d) <=> k - 1 \in Swings(v, d)) BY <1>4, SwingsSlide
  <2> QED BY <1>2, <2>1 DEF BreaksAfter
<1>6. v[p - 1] = w[p] /\ p - 1 \in Swings(v, d)
  <2>1. v[p - 1] = w[p] /\ (p \in Swings(w, d) <=> p - 1 \in Swings(v, d)) BY <1>4, SwingsSlide
  <2> QED BY <1>2, <2>1 DEF BreaksAfter
<1>7. Swings(v, d) \cap (p - 1 + 1)..(k - 1 - 1) = {}
  <2> SUFFICES ASSUME NEW s \in (p - 1 + 1)..(k - 1 - 1), s \in Swings(v, d) PROVE FALSE OBVIOUS
  <2>1. PICK m \in (Lookback + 2)..(e - Lookback) : m - 1 = s /\ m \in (p + 1)..(k - 1)
    BY <1>1, <1>4, Sizes DEF Size
  <2>2. m \in Swings(w, d) <=> m - 1 \in Swings(v, d) BY SwingsSlide
  <2> QED BY <1>2, <2>1, <2>2 DEF BreaksAfter
<1>8. BreaksAfter(v, k - 1, d, p - 1)
  BY <1>1, <1>2, <1>5, <1>6, <1>7 DEF BreaksAfter
<1> QED BY <1>1, <1>3, <1>8, BreakIs DEF k, d

\* When a break is gone, so are the earlier ones of its direction: the first swing
\* of that direction in the window is its own, or a later one.
LEMMA BreakGone ==
  ASSUME NEW w, NEW v, NEW e \in {WindowSize, WindowSize - 1}, Slides(w, v, e),
         NEW b \in BreaksOf(w), SwingOf(b) <= e - Lookback, b - 2 \notin BreaksOf(v),
         NEW a \in BreaksOf(v), a < b - 2
  PROVE  DirectionOf(a) # DirectionOf(b)
<1> SUFFICES ASSUME DirectionOf(a) = DirectionOf(b) PROVE FALSE OBVIOUS
<1>1. a \in Int /\ b \in Int /\ SwingOf(a) \in Int /\ SwingOf(b) \in Int
  BY BreaksWithin, Sizes DEF Size
<1>2. SwingOf(a) < SwingOf(b) - 1
  BY <1>1, BreaksWithin DEF DirectionOf, SwingOf
<1>3. PICK p \in (Lookback + 2)..SwingOf(a) : BreaksAfter(w, SwingOf(a + 2), DirectionOf(a), p)
  <2>1. SwingOf(a) < e - Lookback BY <1>1, <1>2, Sizes DEF Size
  <2> QED BY <2>1, BreaksStood
<1>4. p \in Swings(w, DirectionOf(b)) BY <1>3 DEF BreaksAfter
<1>5. PICK q : BreaksAfter(w, SwingOf(b), DirectionOf(b), q) BY BreakIs
<1>6. q \in (Lookback + 1)..(WindowSize - Lookback) /\ q \in Int
  BY <1>5, SwingsAreInner DEF BreaksAfter
<1>7. q <= Lookback + 1 BY <1>5, <1>6, BreaksStay, Sizes DEF Size
<1>8. p \in (q + 1)..(SwingOf(b) - 1) BY <1>1, <1>2, <1>3, <1>6, <1>7, Sizes DEF Size
<1> QED BY <1>4, <1>5, <1>8 DEF BreaksAfter

-----------------------------------------------------------------------------
(* The last break, and the votes of the last three.                        *)

LEMMA TwoElements ==
  ASSUME NEW a, NEW b, a # b
  PROVE  IsFiniteSet({a, b}) /\ Cardinality({a, b}) = 2
<1>1. IsFiniteSet({a}) /\ Cardinality({a}) = 1 BY FS_Singleton
<1>2. {a, b} = {a} \cup {b} OBVIOUS
<1> QED BY <1>1, <1>2, FS_AddElement

LEMMA ThreeElements ==
  ASSUME NEW a, NEW b, NEW c, a # b, a # c, b # c
  PROVE  Cardinality({a, b, c}) = 3
<1>1. IsFiniteSet({a, b}) /\ Cardinality({a, b}) = 2 BY TwoElements
<1>2. {a, b, c} = {a, b} \cup {c} /\ c \notin {a, b} OBVIOUS
<1> QED BY <1>1, <1>2, FS_AddElement

Recent(breaks) == {x \in breaks : Cardinality({y \in breaks : y > x}) < 3}

\* The last two, and the one before if there is one.
LEMMA RecentAre ==
  ASSUME NEW n \in Nat, NEW breaks \in SUBSET (0..n),
         NEW b \in breaks, NEW o \in breaks, o < b, \A y \in breaks \ {b} : y <= o
  PROVE  \/ Recent(breaks) = {b, o}
         \/ \E t \in breaks : t < o /\ Recent(breaks) = {b, o, t}
<1>0. /\ b \in Int /\ o \in Int /\ \A y \in breaks : y \in Int /\ y <= b
      /\ \A y \in breaks : y = b \/ y <= o
      /\ b # o
  OBVIOUS
<1>1. b \in Recent(breaks)
  <2>1. {y \in breaks : y > b} = {}
    <3>1. \A y \in breaks : ~(y > b) BY <1>0
    <3> QED BY <3>1
  <2> QED BY <2>1, FS_EmptySet DEF Recent
<1>2. o \in Recent(breaks)
  <2>1. {y \in breaks : y > o} = {b}
    <3>1. \A y \in breaks : y > o <=> y = b BY <1>0
    <3> QED BY <3>1
  <2>2. Cardinality({b}) = 1 BY FS_Singleton
  <2> QED BY <2>1, <2>2 DEF Recent
<1> DEFINE rest == breaks \ {b, o}
<1>3. CASE rest = {}
  <2>1. breaks = {b, o} BY <1>3
  <2> QED BY <1>1, <1>2, <2>1 DEF Recent
<1>4. CASE rest # {}
  <2>1. PICK t \in rest : \A y \in rest : y <= t
    <3>1. rest \in SUBSET (0..n) OBVIOUS
    <3> QED BY <1>4, <3>1, Greatest
  <2>2. t \in Int /\ t < o /\ t < b /\ t # o /\ t # b BY <1>0
  <2>3. t \in Recent(breaks)
    <3>1. {y \in breaks : y > t} = {b, o}
      <4>1. ASSUME NEW y \in breaks PROVE y > t <=> y \in {b, o}
        <5>1. CASE y \in {b, o} BY <1>0, <2>2, <5>1
        <5>2. CASE y \notin {b, o}
          <6>1. y \in rest BY <5>2
          <6>2. y <= t /\ y \in Int BY <1>0, <2>1, <6>1
          <6> QED BY <2>2, <5>2, <6>2
        <5> QED BY <5>1, <5>2
      <4> QED BY <4>1
    <3>2. Cardinality({b, o}) = 2 BY <1>0, TwoElements
    <3> QED BY <3>1, <3>2 DEF Recent
  <2>4. ASSUME NEW x \in breaks, x \notin {b, o, t} PROVE x \notin Recent(breaks)
    <3> DEFINE above == {y \in breaks : y > x}
    <3>1. x \in Int /\ x < t BY <1>0, <2>1, <2>2, <2>4
    <3>2. {b, o, t} \subseteq above BY <1>0, <2>2, <3>1
    <3>3. IsFiniteSet(above)
      <4>1. IsFiniteSet(0..n) BY FS_Interval
      <4> QED BY <4>1, FS_Subset
    <3>4. Cardinality({b, o, t}) = 3 BY <1>0, <2>2, ThreeElements
    <3>5. Cardinality({b, o, t}) <= Cardinality(above) BY <3>2, <3>3, FS_Subset
    <3>6. Cardinality(above) \in Nat BY <3>3, FS_CardinalityType
    <3> QED BY <3>4, <3>5, <3>6 DEF Recent
  <2>5. Recent(breaks) = {b, o, t} BY <1>1, <1>2, <2>3, <2>4 DEF Recent
  <2> QED BY <2>1, <2>2, <2>5
<1> QED BY <1>3, <1>4

\* After a change of character the market structure is the new direction, or none.
LEMMA TurnedScore ==
  ASSUME NEW n \in Nat, NEW breaks \in SUBSET (0..n),
         NEW b \in breaks, NEW o \in breaks, o < b, \A y \in breaks \ {b} : y <= o,
         DirectionOf(o) # DirectionOf(b)
  PROVE  Sign(Score(Recent(breaks))) \in {DirectionOf(b), 0}
<1> DEFINE D == DirectionOf(b)
<1>0. b \in Int /\ o \in Int /\ \A y \in breaks : y \in Int OBVIOUS
<1>1. \A y \in breaks : DirectionOf(y) \in {1, -1} BY <1>0 DEF DirectionOf
<1>2. DirectionOf(o) = -D /\ D \in {1, -1} BY <1>1
<1>3. Max(Recent(breaks)) = b
  <2>1. Recent(breaks) \in SUBSET (0..n) BY DEF Recent
  <2>2. b \in Recent(breaks) BY RecentAre
  <2>3. \A y \in Recent(breaks) : y <= b BY <1>0 DEF Recent
  <2> QED BY <2>1, <2>2, <2>3, GreatestIs
<1>4. Score(Recent(breaks)) = Votes(Recent(breaks)) + D BY <1>3 DEF Score
<1> DEFINE of(d) == {x \in Recent(breaks) : DirectionOf(x) = d}
<1>5. CASE Recent(breaks) = {b, o}
  <2>1. of(D) = {b} /\ of(-D) = {o} BY <1>2, <1>5
  <2>2. Cardinality(of(D)) = 1 /\ Cardinality(of(-D)) = 1 BY <2>1, FS_Singleton
  <2>3. Votes(Recent(breaks)) = 0 BY <1>2, <2>2 DEF Votes
  <2> QED BY <1>2, <1>4, <2>3 DEF Sign
<1>6. CASE \E t \in breaks : t < o /\ Recent(breaks) = {b, o, t}
  <2>1. PICK t \in breaks : t < o /\ Recent(breaks) = {b, o, t} BY <1>6
  <2>2. t # o /\ t # b /\ o # b BY <1>0, <2>1
  <2>3. CASE DirectionOf(t) = D
    <3>1. of(D) = {b, t} /\ of(-D) = {o} BY <1>2, <2>1, <2>3
    <3>2. Cardinality(of(D)) = 2 /\ Cardinality(of(-D)) = 1
      <4>1. Cardinality({b, t}) = 2 BY <2>2, TwoElements
      <4>2. Cardinality({o}) = 1 BY FS_Singleton
      <4> QED BY <3>1, <4>1, <4>2
    <3>3. Votes(Recent(breaks)) = D
      <4>1. CASE D = 1 BY <3>2, <4>1 DEF Votes
      <4>2. CASE D = -1 BY <3>2, <4>2 DEF Votes
      <4> QED BY <1>2, <4>1, <4>2
    <3> QED BY <1>2, <1>4, <3>3 DEF Sign
  <2>4. CASE DirectionOf(t) = -D
    <3>1. of(D) = {b} /\ of(-D) = {o, t} BY <1>2, <2>1, <2>4
    <3>2. Cardinality(of(D)) = 1 /\ Cardinality(of(-D)) = 2
      <4>1. Cardinality({o, t}) = 2 BY <2>2, TwoElements
      <4>2. Cardinality({b}) = 1 BY FS_Singleton
      <4> QED BY <3>1, <4>1, <4>2
    <3>3. Votes(Recent(breaks)) = -D BY <1>2, <3>2 DEF Votes
    <3> QED BY <1>2, <1>4, <3>3 DEF Sign
  <2> QED BY <1>1, <1>2, <2>1, <2>3, <2>4
<1> QED BY <1>5, <1>6, RecentAre

OneDirection(breaks) == \A x, y \in breaks : DirectionOf(x) = DirectionOf(y)

LEMMA LastBreakIs ==
  ASSUME NEW n \in Nat, NEW breaks \in SUBSET (0..n), NEW l, l = LastBreak(breaks)
  PROVE  /\ breaks = {} => l = NoBreak
         /\ breaks # {} => l.at \in breaks /\ \A y \in breaks : y <= l.at
         /\ OneDirection(breaks) => l.choch = 0
         /\ l.choch \in {1, 0, -1} /\ l.structure \in Structures(l)
<1>1. CASE breaks = {} BY <1>1 DEF LastBreak, NoBreak, Structures
<1>2. CASE breaks # {}
  <2> DEFINE b == Max(breaks)
             others == breaks \ {b}
             turned == others # {} /\ DirectionOf(Max(others)) # DirectionOf(b)
             score == Sign(Score(Recent(breaks)))
  <2>1. l = [at |-> b, choch |-> IF turned THEN DirectionOf(b) ELSE 0, structure |-> score]
    BY <1>2 DEF LastBreak, Recent
  <2>2. b \in breaks /\ \A y \in breaks : y <= b BY <1>2, Greatest
  <2>3. score \in {1, 0, -1} BY DEF Sign
  <2>4. DirectionOf(b) \in {1, -1} BY <2>2 DEF DirectionOf
  <2>5. ASSUME turned PROVE ~OneDirection(breaks) /\ score \in {DirectionOf(b), 0}
    <3>1. others \in SUBSET (0..n) OBVIOUS
    <3>2. Max(others) \in others /\ \A y \in others : y <= Max(others) BY <2>5, <3>1, Greatest
    <3>3. Max(others) < b
      <4>1. Max(others) # b /\ Max(others) \in 0..n /\ b \in 0..n BY <2>2, <3>2
      <4>2. Max(others) <= b BY <2>2, <3>2
      <4> QED BY <4>1, <4>2
    <3>4. score \in {DirectionOf(b), 0} BY <2>2, <2>5, <3>2, <3>3, TurnedScore
    <3>5. ~OneDirection(breaks) BY <2>2, <2>5, <3>2 DEF OneDirection
    <3> QED BY <3>4, <3>5
  <2> HIDE DEF b, others, turned, score
  <2>6. CASE turned BY <1>2, <2>1, <2>2, <2>3, <2>4, <2>5, <2>6 DEF Structures
  <2>7. CASE ~turned BY <1>2, <2>1, <2>2, <2>3, <2>7 DEF Structures
  <2> QED BY <2>6, <2>7
<1> QED BY <1>1, <1>2

LEMMA FeaturesLast ==
  ASSUME NEW w
  PROVE  /\ Top \in Nat /\ BreaksOf(w) \in SUBSET (0..Top)
         /\ Analyze(w).last = LastBreak(BreaksOf(w))
<1>1. Top \in Nat BY Sizes DEF Top, Size
<1>2. BreaksOf(w) \subseteq 0..Top BY BreaksWithin
<1>3. Analyze(w).last = LastBreak(BreaksOf(w)) BY DEF Analyze, BreaksOf
<1> QED BY <1>1, <1>2, <1>3

-----------------------------------------------------------------------------
(* From one call to the next.                                              *)

\* When the last break is an older one, or none, all breaks have its direction, and
\* the one that has gone was settled.
AgainInv ==
  again /\ features.last.at # 0 => OneDirection(BreaksOf(window)) /\ ~Unsettled(features.last)

\* What a step does to the last break, in terms of the two windows.
LEMMA LastBreakStep ==
  ASSUME NEW w, NEW v, NEW e \in {WindowSize, WindowSize - 1}, Slides(w, v, e),
         NEW old, NEW new, old = LastBreak(BreaksOf(w)), new = LastBreak(BreaksOf(v))
  PROVE  /\ old.at = 0 <=> BreaksOf(w) = {}
         /\ old.at \in Nat /\ new.at \in Nat
         /\ old.at # 0 => old.at > 2 /\ SwingOf(old.at) \in (Lookback + 1)..(WindowSize - Lookback)
         /\ old.at # 0 /\ SwingOf(old.at) <= e - Lookback =>
              /\ new.at # 0 /\ new.at < old.at - 2 => OneDirection(BreaksOf(v))
              /\ new.at # 0 /\ new.at <= old.at - 2 => SwingOf(new.at) < e - Lookback
              /\ OneDirection(BreaksOf(w)) /\ new.at = old.at - 2 => OneDirection(BreaksOf(v))
<1>1. /\ BreaksOf(w) = {} => old = NoBreak
      /\ BreaksOf(w) # {} => old.at \in BreaksOf(w)
  BY FeaturesLast, LastBreakIs
<1>2. /\ BreaksOf(v) = {} => new = NoBreak
      /\ BreaksOf(v) # {} => new.at \in BreaksOf(v) /\ \A y \in BreaksOf(v) : y <= new.at
  BY FeaturesLast, LastBreakIs
<1>3. \A x \in BreaksOf(w) : x > 2 /\ x \in Nat
  BY BreaksWithin, Sizes DEF Size, SwingOf
<1>4. \A x \in BreaksOf(v) : x > 2 /\ x \in Nat
  BY BreaksWithin, Sizes DEF Size, SwingOf
<1>5. /\ old.at = 0 <=> BreaksOf(w) = {}
      /\ old.at \in Nat /\ (old.at # 0 => old.at \in BreaksOf(w))
  BY <1>1, <1>3 DEF NoBreak
<1>6. /\ new.at = 0 <=> BreaksOf(v) = {}
      /\ new.at \in Nat /\ (new.at # 0 => new.at \in BreaksOf(v))
  BY <1>2, <1>4 DEF NoBreak
<1>7. old.at # 0 => old.at > 2 /\ SwingOf(old.at) \in (Lookback + 1)..(WindowSize - Lookback)
  BY <1>3, <1>5, BreaksWithin
<1>8. ASSUME old.at # 0, SwingOf(old.at) <= e - Lookback, new.at # 0, new.at <= old.at - 2
      PROVE  \A x \in BreaksOf(v) :
               /\ SwingOf(x) < e - Lookback /\ x \in Int /\ x <= new.at
               /\ x + 2 \in BreaksOf(w) /\ DirectionOf(x + 2) = DirectionOf(x)
  <2> SUFFICES ASSUME NEW x \in BreaksOf(v)
               PROVE  /\ SwingOf(x) < e - Lookback /\ x \in Int /\ x <= new.at
                      /\ x + 2 \in BreaksOf(w) /\ DirectionOf(x + 2) = DirectionOf(x)
    OBVIOUS
  <2>1. x \in Int /\ x <= new.at BY <1>2, <1>4, <1>6
  <2>2. x + 2 <= old.at BY <1>5, <1>6, <1>8, <2>1
  <2>3. SwingOf(x) + 1 <= SwingOf(old.at) BY <1>5, <2>1, <2>2 DEF SwingOf
  <2>4. SwingOf(x) < e - Lookback
    <3>1. SwingOf(x) \in Int /\ SwingOf(old.at) \in Int BY <1>5, <2>1 DEF SwingOf
    <3> QED BY <1>8, <2>3, <3>1, Sizes DEF Size
  <2>5. x + 2 \in BreaksOf(w) BY <2>4, BreaksStood
  <2> QED BY <2>1, <2>4, <2>5, BreakMoves
<1>9. ASSUME old.at # 0, SwingOf(old.at) <= e - Lookback, new.at # 0, new.at < old.at - 2
      PROVE  OneDirection(BreaksOf(v))
  <2>1. \A x \in BreaksOf(v) : x < old.at - 2 BY <1>2, <1>4, <1>5, <1>6, <1>9
  <2>2. old.at - 2 \notin BreaksOf(v) BY <1>5, <2>1
  <2>3. \A x \in BreaksOf(v) : DirectionOf(x) # DirectionOf(old.at)
    BY <1>5, <1>9, <2>1, <2>2, BreakGone
  <2>4. DirectionOf(old.at) \in {1, -1} BY <1>5, <1>9, BreaksWithin
  <2>5. \A x \in BreaksOf(v) : DirectionOf(x) \in {1, -1} BY BreaksWithin
  <2> QED BY <2>3, <2>4, <2>5 DEF OneDirection
<1>10. ASSUME old.at # 0, SwingOf(old.at) <= e - Lookback, OneDirection(BreaksOf(w)),
              new.at = old.at - 2
       PROVE  OneDirection(BreaksOf(v))
  <2>1. new.at # 0 /\ new.at <= old.at - 2 BY <1>5, <1>6, <1>7, <1>10
  <2> QED BY <1>8, <1>10, <2>1 DEF OneDirection
<1>11. ASSUME old.at # 0, SwingOf(old.at) <= e - Lookback, new.at # 0, new.at <= old.at - 2
       PROVE  SwingOf(new.at) < e - Lookback
  BY <1>6, <1>8, <1>11
<1> QED BY <1>5, <1>6, <1>7, <1>9, <1>10, <1>11

LEMMA LastBreakEmpty ==
  ASSUME NEW w, LastBreak(BreaksOf(w)).at = 0
  PROVE  BreaksOf(w) = {}
<1>1. BreaksOf(w) # {} => LastBreak(BreaksOf(w)).at \in BreaksOf(w) BY FeaturesLast, LastBreakIs
<1>2. \A x \in BreaksOf(w) : x # 0
  BY BreaksWithin, Sizes DEF Size, SwingOf
<1> QED BY <1>1, <1>2

LEMMA AgainIs ==
  ASSUME StructureNext
  PROVE  again' = (\/ features'.last.at = 0
                   \/ features'.last.at < Moved(features.last) /\ ~Unsettled(features.last)
                   \/ features'.last.at = Moved(features.last) /\ again)
<1>1. CASE NextCandle
  <2>1. PICK c \in Shape : NextCall(Append(Tail(window), c)) BY <1>1 DEF NextCandle
  <2> QED BY <2>1 DEF NextCall
<1>2. CASE NextOpens
  <2>1. PICK c \in Shape : \E o \in Opened(c) : NextCall(SubSeq(window, 2, WindowSize - 1) \o <<c, o>>)
    BY <1>2 DEF NextOpens
  <2> QED BY <2>1 DEF NextCall
<1> QED BY <1>1, <1>2 DEF StructureNext

LEMMA AgainStep ==
  ASSUME CallsInv, AgainInv, StructureNext
  PROVE  /\ AgainInv'
         /\ ~Unsettled(features.last) =>
              /\ SeenNow \in LaterBreaks(SeenBefore, 1)
              /\ features'.last.structure \in Structures(SeenNow)
<1> DEFINE w == window  v == window'  old == features.last  new == features'.last  e == Settled
<1>1. /\ CallsInv' /\ Slides(w, v, e) /\ live' = live /\ live \in BOOLEAN
      /\ e \in {WindowSize, WindowSize - 1}
  BY CallsStep DEF CallsInv, Settled
<1>2. old = LastBreak(BreaksOf(w)) /\ new = LastBreak(BreaksOf(v))
  BY <1>1, FeaturesLast DEF CallsInv
<1>3. /\ old.at = 0 <=> BreaksOf(w) = {}
      /\ old.at \in Nat /\ new.at \in Nat
      /\ old.at # 0 => old.at > 2 /\ SwingOf(old.at) \in (Lookback + 1)..(WindowSize - Lookback)
      /\ old.at # 0 /\ SwingOf(old.at) <= e - Lookback =>
           /\ new.at # 0 /\ new.at < old.at - 2 => OneDirection(BreaksOf(v))
           /\ new.at # 0 /\ new.at <= old.at - 2 => SwingOf(new.at) < e - Lookback
           /\ OneDirection(BreaksOf(w)) /\ new.at = old.at - 2 => OneDirection(BreaksOf(v))
  BY <1>1, <1>2, LastBreakStep
<1>4. /\ OneDirection(BreaksOf(v)) => new.choch = 0
      /\ new.choch \in {1, 0, -1} /\ new.structure \in Structures(new)
  BY <1>2, FeaturesLast, LastBreakIs
<1>5. again' = (\/ new.at = 0
                \/ new.at < old.at - 2 /\ ~Unsettled(old)
                \/ new.at = old.at - 2 /\ again)
  BY AgainIs DEF Moved
<1>6. old.at # 0 /\ ~Unsettled(old) => SwingOf(old.at) <= e - Lookback
  BY <1>1, <1>3, Sizes DEF Unsettled, Settled, Size
<1>7. old.at = 0 => ~(new.at < old.at - 2) /\ ~(new.at = old.at - 2) BY <1>3
<1>8. again /\ old.at # 0 => OneDirection(BreaksOf(w)) /\ ~Unsettled(old) BY DEF AgainInv
<1>9. AgainInv'
  <2> SUFFICES ASSUME again', new.at # 0
               PROVE  OneDirection(BreaksOf(v)) /\ ~(live' /\ SwingOf(new.at) = WindowSize - Lookback)
    BY DEF AgainInv, Unsettled
  <2>1. old.at # 0 /\ ~Unsettled(old) /\ new.at <= old.at - 2
    <3>1. \/ new.at < old.at - 2 /\ ~Unsettled(old)
          \/ new.at = old.at - 2 /\ again
      BY <1>5
    <3>2. old.at # 0 BY <1>7, <3>1
    <3>3. new.at <= old.at - 2 BY <1>3, <3>1
    <3>4. ~Unsettled(old) BY <1>8, <3>1, <3>2
    <3> QED BY <3>2, <3>3, <3>4
  <2>2. OneDirection(BreaksOf(v)) BY <1>3, <1>5, <1>6, <1>8, <2>1
  <2>3. SwingOf(new.at) < e - Lookback BY <1>3, <1>6, <2>1
  <2>4. ~(live' /\ SwingOf(new.at) = WindowSize - Lookback)
    BY <1>1, <2>3, Sizes DEF Settled, Size
  <2> QED BY <2>2, <2>4
<1>10. ASSUME ~Unsettled(old)
       PROVE  SeenNow \in LaterBreaks(SeenBefore, 1) /\ new.structure \in Structures(SeenNow)
  <2>1. SeenNow.choch = new.choch BY DEF SeenNow, Dated
  <2>2. SeenNow = [choch |-> new.choch, time |-> IF new.at = 0 \/ new.at < old.at - 2 THEN NoTime
                     ELSE IF new.at = old.at - 2 THEN SeenBefore.time ELSE 1]
    BY <1>3 DEF SeenNow, Dated, Moved
  <2>3. SeenBefore.time = IF again THEN NoTime ELSE 0 BY DEF SeenBefore, Dated
  <2>4. new.at # 0 /\ new.at < old.at - 2 => new.choch = 0 BY <1>3, <1>4, <1>6, <1>7, <1>10
  <2>5. new.at # 0 /\ new.at = old.at - 2 /\ again => new.choch = 0
    BY <1>3, <1>4, <1>6, <1>7, <1>8, <1>10
  <2>6. new.at = 0 => new.choch = 0
    <3>1. ASSUME new.at = 0 PROVE BreaksOf(v) = {}
      BY <1>1, <1>2, <3>1, LastBreakEmpty
    <3> QED BY <1>4, <3>1 DEF OneDirection
  <2>7. SeenNow \in LaterBreaks(SeenBefore, 1)
    <3>0. NoTime \in Int /\ NoTime < 0 BY SetupAssumption DEF NoTime
    <3>1. CASE new.at = 0 \/ new.at < old.at - 2
      BY <2>2, <2>4, <2>6, <3>1 DEF LaterBreaks, BreaksAt, NoBrk
    <3>2. CASE ~(new.at = 0 \/ new.at < old.at - 2) /\ new.at = old.at - 2
      BY <1>4, <2>2, <2>3, <2>5, <3>0, <3>2 DEF LaterBreaks, BreaksAt, NoBrk
    <3>3. CASE ~(new.at = 0 \/ new.at < old.at - 2) /\ new.at # old.at - 2
      BY <1>4, <2>2, <3>0, <3>3 DEF LaterBreaks, BreaksAt, NoBrk
    <3> QED BY <3>1, <3>2, <3>3
  <2> QED BY <1>4, <2>1, <2>7 DEF Structures
<1> QED BY <1>9, <1>10

LEMMA AgainHolds == StructuredSpec => [](CallsInv /\ AgainInv)
<1>1. StructuredInit => AgainInv BY DEF StructuredInit, StructureInit, AgainInv
<1>2. AgainInv /\ UNCHANGED structureVars => AgainInv'
  BY DEF AgainInv, structureVars, Unsettled, BreaksOf
<1>3. CallsInv /\ AgainInv /\ [StructuredNext]_<<vars, structureVars, following>> => AgainInv'
  BY <1>2, AgainStep, StructuredStep
<1> QED BY <1>1, <1>3, CallsHold, PTL DEF StructuredSpec

\* What Backtest lets the structure breaks do is all that a sliding window can make
\* them do, for every market, window and lookback.
THEOREM BreaksAllowed == StructuredSpec => BreaksAsAssumed
<1>1. CallsInv /\ AgainInv /\ [StructuredNext]_<<vars, structureVars, following>> =>
        [following = "calls" /\ ~Unsettled(features.last) =>
           /\ SeenNow \in LaterBreaks(SeenBefore, 1)
           /\ features'.last.structure \in Structures(SeenNow)]_structureVars
  BY AgainStep, StructuredStep
<1> QED BY <1>1, AgainHolds, PTL DEF StructuredSpec, BreaksAsAssumed

=============================================================================
