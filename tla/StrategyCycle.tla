---------------------------- MODULE StrategyCycle ----------------------------
(***************************************************************************)
(* From a closed candle to an entry: bot.module.ts puts one job per symbol *)
(* and candle on a BullMQ queue, strategy-cycle.processor.ts takes the     *)
(* jobs one at a time, and bot-state.service.ts, kill-switch.service.ts    *)
(* and the dashboard switch the bot on and off meanwhile.  The queue lives *)
(* in Redis and survives the process; the bot's state does not.            *)
(*                                                                         *)
(* What a signal says, and why the risk manager rejects one (RiskGate), is *)
(* left open: even a position of the symbol does not reject one when the   *)
(* exchange cannot be asked and no row of it is open.                      *)
(***************************************************************************)
EXTENDS Naturals, Sequences, FiniteSets

CONSTANTS
  Symbol,
  NoJob,
  Kept,        \* removeOnComplete: how many completed jobs keep their id
  KeptFailed,  \* removeOnFail
  MaxCandle,   \* bound on the candles of a symbol
  MaxSwitches, \* bound on how often the bot is started
  MaxCrashes   \* bound on the number of crashes

ASSUME CycleAssumption ==
  /\ IsFiniteSet(Symbol) /\ NoJob \notin Symbol \X Nat
  /\ Kept \in Nat /\ KeptFailed \in Nat
  /\ MaxCandle \in Nat /\ MaxSwitches \in Nat /\ MaxCrashes \in Nat

Job == Symbol \X (1..MaxCandle)     \* jobId: candle-<symbol>-<closeTime>

VARIABLES
  enabled, symbols,   \* BotStateService
  shadow,             \* EXECUTION_MODE = shadow, as the process was started
  closes,             \* the symbol's last closed candle (exchange)
  queue,              \* waiting jobs
  completed, failed,  \* finished jobs whose id the queue still knows
  job, pc,            \* the worker's job and the next step of process()
  signal,             \* status of the last signal row, which nothing reads again
  entries,            \* entries placed for the job (history)
  late,               \* entries placed since the bot was last stopped (history)
  stalled,            \* jobs that a crash interrupted
  switches, crashes

bot == <<enabled, symbols, shadow, switches>>
jobs == <<queue, completed, failed>>
worker == <<job, pc, signal, entries, late>>
vars == <<bot, closes, jobs, worker, stalled, crashes>>

TypeOK ==
  /\ enabled \in BOOLEAN /\ symbols \subseteq Symbol /\ shadow \in BOOLEAN
  /\ closes \in [Symbol -> 0..MaxCandle]
  /\ queue \in Seq(Job) /\ completed \in Seq(Job) /\ failed \in Seq(Job)
  /\ job \in Job \cup {NoJob}
  /\ pc \in {"idle", "generate", "risk", "execute"}
  /\ job = NoJob <=> pc = "idle"
  /\ signal \in {"none", "PENDING", "REJECTED", "APPROVED", "SHADOW_EXECUTED", "EXECUTED"}
  /\ entries \in [Job -> Nat] /\ late \in Nat
  /\ stalled \subseteq Job
  /\ switches \in 0..MaxSwitches /\ crashes \in 0..MaxCrashes

Init ==
  /\ enabled = FALSE /\ symbols = Symbol /\ shadow \in BOOLEAN
  /\ closes = [s \in Symbol |-> 0]
  /\ queue = <<>> /\ completed = <<>> /\ failed = <<>>
  /\ job = NoJob /\ pc = "idle"
  /\ signal = "none"
  /\ entries = [j \in Job |-> 0] /\ late = 0
  /\ stalled = {} /\ switches = 0 /\ crashes = 0

-----------------------------------------------------------------------------
(* The bot's state.                                                        *)

\* POST bot/start, with one symbol or with those it had.
Start ==
  /\ switches < MaxSwitches /\ switches' = switches + 1
  /\ enabled' = TRUE
  /\ symbols' \in {symbols} \cup {{s} : s \in Symbol}
  /\ UNCHANGED <<shadow, closes, jobs, worker, stalled, crashes>>

\* stop(), from the dashboard or as the first step of the kill switch; its
\* subscribers disconnect the streams in the same call.
Stop ==
  /\ enabled /\ enabled' = FALSE
  /\ late' = 0
  /\ UNCHANGED <<symbols, shadow, switches, closes, jobs, job, pc, signal, entries,
                 stalled, crashes>>

-----------------------------------------------------------------------------
(* The queue.                                                              *)

Elements(q) == {q[i] : i \in DOMAIN q}

\* The queue ignores a job whose id it knows.
KnownWaiting(j) == j \in Elements(queue) \cup {job}      \* mutant of Known
Known(j) == j \in Elements(queue) \cup Elements(completed) \cup Elements(failed) \cup {job}

Enqueue(j) ==
  IF enabled /\ j[1] \in symbols /\ ~Known(j)
  THEN queue' \in {queue, Append(queue, j)}              \* add() may fail
  ELSE UNCHANGED queue

\* The candles of all symbols close together.
CandleClose(s) ==
  /\ closes[s] < MaxCandle /\ \A t \in Symbol : closes[s] <= closes[t]
  /\ closes' = [closes EXCEPT ![s] = @ + 1]
  /\ Enqueue(<<s, closes[s] + 1>>)
  /\ UNCHANGED <<bot, completed, failed, worker, stalled, crashes>>

\* The stream delivers the last closed candle once more.
CandleAgain(s) ==
  /\ closes[s] > 0 /\ Enqueue(<<s, closes[s]>>)
  /\ UNCHANGED <<bot, closes, completed, failed, worker, stalled, crashes>>

LastOf(q, n) == SubSeq(q, IF Len(q) > n THEN Len(q) - n + 1 ELSE 1, Len(q))

-----------------------------------------------------------------------------
(* process(): one job at a time.                                           *)

Done ==
  /\ job' = NoJob /\ pc' = "idle"
  /\ completed' = LastOf(Append(completed, job), Kept) /\ UNCHANGED failed

Throws ==
  /\ job' = NoJob /\ pc' = "idle"
  /\ failed' = LastOf(Append(failed, job), KeptFailed) /\ UNCHANGED completed

Goto(step) == pc' = step /\ UNCHANGED <<job, completed, failed>>

NothingElse == UNCHANGED <<bot, closes, queue, late, stalled, crashes>>

\* A disabled bot skips the job.
TakeAlways ==                                        \* mutant of Take
  /\ job = NoJob /\ queue # <<>>
  /\ queue' = Tail(queue)
  /\ job' = Head(queue) /\ pc' = "generate" /\ UNCHANGED completed
  /\ UNCHANGED <<failed, bot, closes, signal, entries, late, stalled, crashes>>

Take ==
  /\ job = NoJob /\ queue # <<>>
  /\ queue' = Tail(queue)
  /\ IF enabled
     THEN job' = Head(queue) /\ pc' = "generate" /\ UNCHANGED completed
     ELSE /\ completed' = LastOf(Append(completed, Head(queue)), Kept)
          /\ UNCHANGED <<job, pc>>
  /\ UNCHANGED <<failed, bot, closes, signal, entries, late, stalled, crashes>>

\* No signal, an exception, or a signal that is saved as PENDING.
Generate ==
  /\ pc = "generate"
  /\ \/ (Done \/ Throws) /\ UNCHANGED signal
     \/ signal' = "PENDING" /\ Goto("risk")
  /\ NothingElse /\ UNCHANGED entries

\* Mutant of Risk: shadow mode is looked at after the execution.
RiskForgetsShadow ==
  /\ pc = "risk"
  /\ \/ Throws /\ UNCHANGED signal
     \/ Done /\ signal' = "REJECTED"
     \/ /\ signal' = "APPROVED"
        /\ Goto("execute")
  /\ NothingElse /\ UNCHANGED entries

\* The risk manager throws, rejects or approves; in shadow mode that is all.
Risk ==
  /\ pc = "risk"
  /\ \/ Throws /\ UNCHANGED signal
     \/ Done /\ signal' = "REJECTED"
     \/ /\ signal' = "APPROVED"
        /\ IF shadow THEN Throws ELSE Goto("execute")
     \/ /\ shadow
        /\ Done /\ signal' = "SHADOW_EXECUTED"
  /\ NothingElse /\ UNCHANGED entries

Entered ==
  /\ entries' = [entries EXCEPT ![job] = @ + 1]
  /\ late' = IF enabled THEN late ELSE late + 1

\* executeSignal returns null, without an entry or although one was placed, or
\* the trade; the save that says so may fail.
Execute ==
  /\ pc = "execute"
  /\ \/ Done /\ UNCHANGED <<signal, entries, late>>
     \/ Entered /\ (Done \/ Throws) /\ UNCHANGED signal
     \/ Entered /\ Done /\ signal' = "EXECUTED"
  /\ UNCHANGED <<bot, closes, queue, stalled, crashes>>

\* The process dies.  The queue gives the worker's job out again, once; what it
\* had saved and placed remains; the process may come back in another mode.
Crash ==
  /\ crashes < MaxCrashes /\ crashes' = crashes + 1
  /\ enabled' = FALSE /\ symbols' = Symbol /\ shadow' \in BOOLEAN
  /\ job' = NoJob /\ pc' = "idle"
  /\ IF job = NoJob THEN UNCHANGED <<queue, failed, stalled>>
     ELSE IF job \in stalled
     THEN failed' = LastOf(Append(failed, job), KeptFailed) /\ UNCHANGED <<queue, stalled>>
     ELSE queue' = <<job>> \o queue /\ stalled' = stalled \cup {job} /\ UNCHANGED failed
  /\ \/ UNCHANGED <<entries, late>>
     \/ pc = "execute" /\ Entered
  /\ UNCHANGED <<switches, closes, completed, signal>>

Next ==
  \/ Start \/ Stop
  \/ \E s \in Symbol : CandleClose(s) \/ CandleAgain(s)
  \/ Take \/ Generate \/ Risk \/ Execute
  \/ Crash

Spec == Init /\ [][Next]_vars

-----------------------------------------------------------------------------
(* Properties.                                                             *)

\* However often the stream repeats a candle, and whatever the worker was doing
\* with it, a candle leads to one entry of its symbol; a job that a crash
\* interrupted may lead to a second one, since it runs again.
OneEntryPerCandle ==
  \A j \in Job : entries[j] <= IF j \in stalled THEN 2 ELSE 1

\* enabled is looked at once, when the job starts, so an entry can be placed
\* after the bot was stopped; but only by the job then running: what waits in
\* the queue is skipped.
LateEntries == late <= 1

\* Shadow mode records what it would do but places no order, also for the job
\* that a process in another mode left behind.
ShadowPlacesNothing == [][entries' # entries => ~shadow]_vars
=============================================================================
