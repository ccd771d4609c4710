-------------------------- MODULE StructuredBacktest --------------------------
(***************************************************************************)
(* The backtest and what it takes for granted of the structure breaks that *)
(* smc.service.ts reports.  Backtest lets the last break be anything that  *)
(* LaterBreaks allows and needs no candles for it; MarketStructure has the *)
(* candles.  A behaviour follows one of them, the other one stays as it    *)
(* was made.                                                               *)
(***************************************************************************)
EXTENDS Backtest, MarketStructure

VARIABLE following

BacktestAtRest ==
  /\ setup = None /\ brk = NoBrk /\ bar = (CHOOSE b \in Bar : TRUE) /\ ahead = bar
  /\ LET c == CHOOSE c \in Configs : TRUE
     IN options = c.options /\ simulator = c.simulator /\ entryMode = c.entryMode

CallsAtRest == live = FALSE /\ window = (CHOOSE w \in ClosedWindow : TRUE)

StructuredInit ==
  /\ \/ following = "backtest" /\ CallsAtRest
     \/ following = "calls" /\ BacktestAtRest
  /\ Init /\ StructureInit

StructuredNext ==
  /\ \/ following = "backtest" /\ Next /\ UNCHANGED structureVars
     \/ following = "calls" /\ StructureNext /\ UNCHANGED vars
  /\ UNCHANGED following

StructuredSpec == StructuredInit /\ [][StructuredNext]_<<vars, structureVars, following>>

-----------------------------------------------------------------------------
(* Properties.                                                             *)

\* A break as Backtest has it: one from before the last has no time, a new one has
\* time 1.
Dated(b, time) == [choch |-> b.choch, time |-> time]
SeenBefore == Dated(features.last, IF again THEN NoTime ELSE 0)
SeenNow ==
  LET old == Moved(features.last)
      new == features'.last
  IN Dated(new, CASE new.at = 0 \/ new.at < old -> NoTime
                  [] new.at > 0 /\ new.at = old -> SeenBefore.time
                  [] new.at > 0 /\ new.at > old -> 1)

\* The structure breaks of the backtest are those that a sliding window can report:
\* an older change of character does not become the last break again, and the
\* market structure is never against a change of character.  For the live bot this
\* is so unless the break rested on the candle that had just opened: that one can
\* be gone in the next call, and the one before it is the last again.
BreaksAsAssumed ==
  [][following = "calls" /\ ~Unsettled(features.last) =>
       /\ SeenNow \in LaterBreaks(SeenBefore, 1)
       /\ features'.last.structure \in Structures(SeenNow)]_structureVars

\* Nothing is repainted: swings, order blocks and gaps are there as soon as their
\* candles have closed, and stay as they were found as long as the window has them.
\* Live, only what rests on the candle that has just opened may change.
ZonesStand == [][following = "calls" => Stays /\ NotLate]_structureVars
=============================================================================
