---------------------------- MODULE SignalRecords -----------------------------
(***************************************************************************)
(* What is written about the cycles, and who reads it: the worker (one     *)
(* cycle at a time, SignalGeneration) counts its cycles and signals in     *)
(* daily_telemetry without waiting for the calls (DayRows), and the        *)
(* heartbeat of maintenance-cron.service.ts reads from there when the      *)
(* last cycle was.  The bot is on: off, neither runs.                      *)
(*                                                                         *)
(* Behaviours that follow daily_pnl have closers that book trades instead. *)
(***************************************************************************)
EXTENDS SignalGeneration, DayRows

CONSTANTS
  PullbackView, \* bound on the views of the pullback mode, whose answer is left open
  Cooldown,    \* the 30 minutes between two alerts, in ticks
  MaxStarts    \* bound on the cycles and signals, or on the bookings

ASSUME RecordsAssumption ==
  PullbackView \subseteq View /\ Cooldown \in Nat \ {0} /\ MaxStarts \in Nat

VARIABLES
  pc,          \* where process() is
  starts,      \* cycles and what becomes of their signals, or bookings
  alerted      \* ticks since lastHeartbeatAlertAt, up to Cooldown

recordVars == <<generator, rowVars, pc, starts, alerted>>

RecordsTypeOK ==
  /\ GeneratorTypeOK /\ RowsTypeOK
  /\ pc \in {"idle", "generated", "saved"} /\ (pc = "idle" <=> outcome = NoOutcome) /\ starts \in 0..MaxStarts
  /\ alerted \in 0..Cooldown

RecordsInit ==
  /\ GeneratorInit /\ RowsInit
  /\ pc = "idle" /\ starts = 0 /\ alerted = Cooldown

-----------------------------------------------------------------------------
(* The worker.                                                             *)

Counts == starts < MaxStarts /\ starts' = starts + 1

\* recordCycleMetrics.
CycleCounts ==
  Only({"totalCycles"} \cup {c \in {"entriesAttempted"} : outcome'.kind # "HOLD"})

Cycle ==
  /\ table = "daily_telemetry" /\ pc = "idle" /\ Counts
  /\ \E v \in IF pullback THEN PullbackView ELSE View : GenerateSignal(v)
  /\ IF pullback THEN Begin(CycleCounts) ELSE UNCHANGED rowVars
  /\ pc' = "generated"
  /\ UNCHANGED alerted

SignalSaved ==
  /\ pc = "generated" /\ Signalled /\ pc' = "saved" /\ Counts
  /\ Begin(Only({"signalsGenerated"}))
  /\ UNCHANGED <<generator, alerted>>

\* The risk manager rejects, executeSignal returns nothing, or a trade.
SignalSettled ==
  /\ pc = "saved" /\ pc' = "idle" /\ Counts
  /\ \E c \in {"signalsExecuted", "signalsRejected"} : Begin(Only({c}))
  /\ Returned
  /\ UNCHANGED alerted

\* There is no signal, something throws, or in shadow mode it is not executed.
ProcessEnds ==
  /\ pc # "idle" /\ pc' = "idle"
  /\ Returned
  /\ UNCHANGED <<rowVars, starts, alerted>>

BookTrade ==
  /\ table = "daily_pnl" /\ Counts
  /\ \E adds \in Booking : Begin(adds)
  /\ UNCHANGED <<generator, pc, alerted>>

-----------------------------------------------------------------------------
(* The heartbeat.                                                          *)

HasBeat(d) == rows[d] # NoRow /\ rows[d].latest # Never

\* Mutant of Heartbeat: it goes on reading the row of the day it was started on.
HeartbeatOfStart ==
  /\ HasBeat(1) /\ rows[1].latest > Stale
  /\ alerted = Cooldown /\ alerted' = 0
  /\ UNCHANGED <<generator, rowVars, pc, starts>>
Heartbeat ==
  /\ HasBeat(today) /\ rows[today].latest > Stale
  /\ alerted = Cooldown /\ alerted' = 0
  /\ UNCHANGED <<generator, rowVars, pc, starts>>

RecordStep ==
  /\ CallStep \/ Midnight
  /\ UNCHANGED <<generator, pc, starts, alerted>>

Tick ==
  /\ GeneratorTick /\ RowsTick
  /\ alerted' = Smaller(alerted + 1, Cooldown)
  /\ UNCHANGED <<pc, starts>>

RecordsNext ==
  \/ Cycle \/ SignalSaved \/ SignalSettled \/ ProcessEnds \/ BookTrade
  \/ Heartbeat \/ RecordStep \/ Tick

\* Time passes and the cron runs, whose query is answered again and again.
RecordsSpec ==
  RecordsInit /\ [][RecordsNext]_recordVars /\ WF_recordVars(Tick) /\ WF_recordVars(Heartbeat)

-----------------------------------------------------------------------------
(* Properties.                                                             *)

\* A bot that has stopped processing is reported again and again, on a day that
\* has seen a cycle; one that stops before the day's first cycle never is.
SilenceIsReported == <>[]HasBeat(today) => []<>(alerted = 0)
=============================================================================
