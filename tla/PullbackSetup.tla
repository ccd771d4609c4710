---------------------------- MODULE PullbackSetup ----------------------------
(***************************************************************************)
(* The setup that pullback-ob-signal.service.ts keeps per symbol: found    *)
(* when the higher time frame has a bias and zones lie behind the price,   *)
(* then waited on, candle by candle, until it expires, is invalidated or   *)
(* the price comes back to a zone.                                         *)
(*                                                                         *)
(* LONG and BULLISH are 1, SHORT and BEARISH are -1, RANGING is 0, so that *)
(* d * x compares prices x the way a trade of direction d sees them.       *)
(* Distances that the code takes in percent or in ATRs are prices here.    *)
(***************************************************************************)
EXTENDS Integers, FiniteSets

CONSTANTS
  Zone,           \* order blocks and fair value gaps that SMC may report
  MaxWait,        \* PULLBACK_MAX_WAIT_CYCLES
  MinDistance, MaxDistance,
  SlBuffer,       \* SL_BUFFER_ATR times the ATR
  MinSl,          \* 0.3% of the entry price
  Options         \* the settings to check

Direction == {1, -1}
OptionRecords ==
  [confluence : BOOLEAN, tiebreaker : BOOLEAN, soft : BOOLEAN, tolerant : BOOLEAN,
   slopeSoft : BOOLEAN, premium : BOOLEAN]

ASSUME SetupAssumption ==
  /\ Zone \subseteq [kind : {"OB", "FVG"}, dir : Direction, low : Int, high : Int]
  /\ \A z \in Zone : z.low <= z.high
  /\ MaxWait \in Nat /\ MinDistance \in Nat /\ MaxDistance \in Nat
  /\ SlBuffer \in Nat /\ MinSl \in Nat \ {0}
  /\ Options \subseteq OptionRecords

VARIABLES options, setup

\* Times of structure breaks are bars.  createdAtBreakTime without a break, and that
\* of a break that only the live bot saw, on a candle that had just opened.
NoTime == -MaxWait - 1
OpenTime == -MaxWait - 2

None == [state |-> "IDLE", bias |-> 1, zones |-> {}, marked |-> {}, wait |-> 0,
         breakTime |-> NoTime]

SetupTypes ==
  /\ options \in Options
  /\ setup \in [state : {"IDLE", "WAITING"}, bias : Direction, zones : SUBSET Zone,
                marked : SUBSET Zone, wait : 0..MaxWait, breakTime : Int]

\* restoreFromSnapshot: the replay starts from what the live bot saved.
Restored(d, zones, marked, wait, time) ==
  [state |-> "WAITING", bias |-> d, zones |-> zones, marked |-> marked, wait |-> wait,
   breakTime |-> time]

-----------------------------------------------------------------------------
(* Helpers.                                                                *)

\* The boundary of a zone that the price meets first, and the other one.
Near(z, d) == IF d = 1 THEN z.high ELSE z.low
Far(z, d) == IF d = 1 THEN z.low ELSE z.high
Worst(c, d) == IF d = 1 THEN c.low ELSE c.high
Best(c, d) == IF d = 1 THEN c.high ELSE c.low
Larger(a, b) == IF a > b THEN a ELSE b

\* determineHtfBias; a 4H structure that is not known is 2.
Htf == [ema : Direction, structure : {1, 0, -1}, structure4h : {1, 0, -1, 2}]
HtfBias(h) ==
  IF \/ h.structure # -h.ema
     \/ options.tiebreaker /\ h.structure4h = h.ema
     \/ options.tiebreaker /\ options.soft /\ h.structure4h = 0
  THEN h.ema ELSE 0

\* What findOrderBlocks and findFairValueGaps may leave active at this price: an
\* order block that the price is beyond is mitigated, a gap that it has crossed
\* to the far side is filled.
Active(price) ==
  {z \in Zone : /\ z.dir * (price - Far(z, z.dir)) >= 0
                /\ z.kind = "FVG" => price # Far(z, z.dir)}

\* findValidZones, of all that could be active.
ValidZones(price, d) ==
  {z \in Active(price) : /\ z.dir = d
                         /\ d * (price - Near(z, d)) > MinDistance
                         /\ d * (price - Near(z, d)) < MaxDistance}

\* determineMarketStructure: of the last three breaks the last one has two votes,
\* so the structure is never against it.
Structures(b) == IF b.choch = 0 THEN {1, 0, -1} ELSE {b.choch, 0}

Overlap(y, z) == (IF y.high < z.high THEN y.high ELSE z.high) > Larger(y.low, z.low)

\* markConfluenceZones.
Confluent(zones) ==
  {z \in zones : \E y \in zones : y.kind # z.kind /\ Overlap(y, z)}

\* A change of character against the setup, unless it is the break that was
\* there when the setup was found.
\* Mutant of Opposes: sticky breaks count.
OpposesAlways(b) == b.choch = -setup.bias
Opposes(b) == b.choch = -setup.bias /\ b.time # setup.breakTime

Flips(h) ==
  /\ HtfBias(h) = -setup.bias
  /\ ~(options.tolerant /\ h.structure # -setup.bias)

\* Zones that the candle did not close beyond.
Unbroken(c) == {z \in setup.zones : setup.bias * (c.close - Far(z, setup.bias)) >= 0}

StopDistance(z, d) == Larger(d * (Near(z, d) - Far(z, d)) + SlBuffer, MinSl)
StopLoss(z, d) == Near(z, d) - d * StopDistance(z, d)

\* The candle touches the zone, did not open behind it and is not stopped out.
Triggers(z, c, d) ==
  /\ d * (c.open - Far(z, d)) >= 0
  /\ d * (Worst(c, d) - Near(z, d)) <= 0
  /\ d * (Worst(c, d) - StopLoss(z, d)) > 0

\* The RSI, volume and candle filters are the same for all zones of a candle.
Eligible(c) ==
  {z \in Unbroken(c) : /\ Triggers(z, c, setup.bias)
                       /\ options.confluence => z \in setup.marked}

\* zones.sort: the nearest first, order blocks before gaps.
Before(y, z, d) ==
  d * (Near(y, d) - Near(z, d)) > 0 \/ (Near(y, d) = Near(z, d) /\ y.kind = "OB" /\ z.kind = "FVG")
First(zones, d) == {z \in zones : \A y \in zones \ {z} : ~Before(y, z, d)}

-----------------------------------------------------------------------------
(* generateSignal.  b is the last structure break, c the last candle; the  *)
(* bias of the higher time frame, the 15m structure, the slope and the     *)
(* premium or discount may be anything, so it is asked whether some value  *)
(* lets the step happen.                                                   *)

\* No bias, low volatility, a filter, a contradicting structure or no zone.
NoSetup == setup.state = "IDLE" /\ UNCHANGED setup

Detect(price, b) ==
  /\ setup.state = "IDLE"
  /\ \E d \in {HtfBias(h) : h \in Htf} \ {0} :
       /\ {premium \in {1, 0, -1} : ~(options.premium /\ premium = d)} # {}
       /\ {structure \in Structures(b) : structure # -d} # {}
       /\ \E zones \in (SUBSET ValidZones(price, d)) \ {{}} :
            setup' = [state |-> "WAITING", bias |-> d, zones |-> zones,
                      marked |-> IF options.confluence THEN Confluent(zones) ELSE {},
                      wait |-> 0, breakTime |-> b.time]

\* resetSetup.
Reset == setup' = None

InTime == setup.state = "WAITING" /\ setup.wait < MaxWait

Expire == setup.state = "WAITING" /\ setup.wait + 1 > MaxWait /\ Reset

Cancel(b) == InTime /\ Opposes(b) /\ Reset

Stands(b) == InTime /\ ~Opposes(b)

Flip(b) == Stands(b) /\ {h \in Htf : Flips(h)} # {} /\ Reset

Mitigate(c, b) == Stands(b) /\ Unbroken(c) = {} /\ Reset

\* The slope is against the bias, a filter refuses, or no zone is touched: all
\* of them may be so on any candle.
\* Mutant of Await: the slope is asked before broken zones are removed.
AwaitFirst(c, b) ==
  /\ Stands(b) /\ Unbroken(c) # {}
  /\ setup' = [setup EXCEPT !.wait = @ + 1]

\* Mutant of Await: a cycle that the slope or a filter ends is not counted.
AwaitUncounted(c, b) ==
  /\ Stands(b) /\ Unbroken(c) # {}
  /\ setup' = [setup EXCEPT !.zones = Unbroken(c),
                            !.wait = IF Eligible(c) = {} THEN @ + 1 ELSE @]

Await(c, b) ==
  /\ Stands(b) /\ Unbroken(c) # {}
  /\ setup' = [setup EXCEPT !.wait = @ + 1, !.zones = Unbroken(c)]

\* The entry on zone z.
Enter(z, c, b) ==
  /\ Stands(b)
  /\ {slope \in {1, 0, -1} : options.slopeSoft \/ slope # -setup.bias} # {}
  /\ z \in First(Eligible(c), setup.bias)
  /\ Reset
=============================================================================
