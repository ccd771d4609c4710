-------------------------- MODULE BinanceUserStream --------------------------
(***************************************************************************)
(* The user data stream of binance-user-ws.service.ts with its callers:    *)
(* the bot's state changes (bot.module.ts), the kill switch and the        *)
(* keep-alive cron.  start(), stop(), keepalive() and the reconnect timer  *)
(* await the exchange, so what one of them began goes on under the others. *)
(* A chain is a start() that is under way, a socket with its listeners, a  *)
(* reconnect timer or a listen key being created for one.  The delay       *)
(* between two attempts, which has no limit of attempts, is left out.      *)
(***************************************************************************)
EXTENDS Integers

CONSTANTS
  MaxCalls,    \* bound on start, stop, kill and keep-alive
  MaxOutages   \* bound on closed connections

\* Assumed by the modules that instantiate or prove something of this one.
StreamAssumption == MaxCalls \in Nat /\ MaxOutages \in Nat

VARIABLES
  enabled,     \* BotStateService
  killing,     \* KillSwitchService.activate has not disconnected yet
  destroyed,
  key,         \* listenKey is not null
  ws,          \* this.ws
  lost,        \* sockets connect() overwrote, their listeners attached: how
               \* many connect, how many are open
  held, forgotten,  \* reconnectTimer is pending; overwritten timers that are
  starting,    \* start() calls that await createListenKey
  recreating,  \* reconnect timers that await it
  deleting,    \* stop() calls that await deleteListenKey
  renewing,    \* keepalive: "no", "put", or "stop" when its stop() awaits
               \* deleteListenKey, "stopped" when that had no key to delete
  starts,      \* start() calls so far (history)
  overlap,     \* a call began before those before it were over, or a bot that
               \* ran was started (history)
  calls, outages

caller == <<enabled, killing>>
sockets == <<ws, lost>>
timers == <<held, forgotten>>
pending == <<starting, recreating, deleting, renewing>>
vars == <<caller, destroyed, key, sockets, timers, pending, starts, overlap, calls, outages>>

FlagsOK ==
  /\ enabled \in BOOLEAN /\ killing \in BOOLEAN
  /\ destroyed \in BOOLEAN /\ key \in BOOLEAN /\ held \in BOOLEAN
  /\ ws \in {"null", "connecting", "open", "closed"}
  /\ renewing \in {"no", "put", "stop", "stopped"} /\ overlap \in BOOLEAN
CountsOK ==
  /\ lost \in [{"connecting", "open"} -> Nat] /\ forgotten \in Nat
  /\ starting \in Nat /\ recreating \in Nat /\ deleting \in Nat
  /\ starts \in Nat /\ calls \in 0..MaxCalls /\ outages \in 0..MaxOutages
TypeOK == FlagsOK /\ CountsOK

Init ==
  /\ enabled = FALSE /\ killing = FALSE
  /\ destroyed = FALSE /\ key = FALSE
  /\ ws = "null" /\ lost = [state \in {"connecting", "open"} |-> 0]
  /\ held = FALSE /\ forgotten = 0
  /\ starting = 0 /\ recreating = 0 /\ deleting = 0 /\ renewing = "no"
  /\ starts = 0 /\ overlap = FALSE /\ calls = 0 /\ outages = 0

Quiet == starting = 0 /\ recreating = 0 /\ deleting = 0 /\ renewing = "no"
Begin == overlap' = (overlap \/ ~Quiet)
BeginFresh == overlap' = (overlap \/ enabled \/ ~Quiet)
NoBegin == UNCHANGED <<overlap, calls, outages>>
Attached(socket) == socket \in {"connecting", "open"}

Call == calls < MaxCalls /\ calls' = calls + 1 /\ UNCHANGED outages
Outage == outages < MaxOutages /\ outages' = outages + 1 /\ UNCHANGED calls
NoBound == UNCHANGED <<calls, outages>>

-----------------------------------------------------------------------------
(* start() and stop(), up to the first await.                              *)

BeginStart ==
  destroyed' = FALSE /\ starting' = starting + 1 /\ starts' = starts + 1

DropSocket == ws' = "null"

\* Everything the service still knows is dropped; without a key stop() is over.
BeginStop ==
  /\ destroyed' = TRUE
  /\ held' = FALSE
  /\ DropSocket
  /\ UNCHANGED <<lost, forgotten>>

StopAwaits == deleting' = deleting + (IF key THEN 1 ELSE 0)

\* connect(): the socket before, if any, keeps its listeners.
Connect ==
  /\ ws' = "connecting"
  /\ lost' = IF Attached(ws) THEN [lost EXCEPT ![ws] = @ + 1] ELSE lost

\* scheduleReconnect.
Schedule ==
  IF destroyed THEN UNCHANGED timers
  ELSE held' = TRUE /\ forgotten' = forgotten + (IF held THEN 1 ELSE 0)

-----------------------------------------------------------------------------
(* The callers.                                                            *)

StartBot ==
  /\ Call
  /\ BeginFresh
  /\ enabled' = TRUE /\ UNCHANGED killing
  /\ BeginStart
  /\ UNCHANGED <<key, sockets, timers, recreating, deleting, renewing>>

StopBot ==
  /\ Call
  /\ Begin
  /\ enabled' = FALSE /\ killing' \in {killing, TRUE}
  /\ BeginStop /\ StopAwaits
  /\ UNCHANGED <<key, starting, recreating, renewing, starts>>

\* The kill switch disconnects once more, when the positions are closed.
KillDisconnects ==
  /\ killing /\ Begin
  /\ killing' = FALSE /\ UNCHANGED enabled
  /\ BeginStop /\ StopAwaits
  /\ UNCHANGED <<key, starting, recreating, renewing, starts>> /\ NoBound

KeepAlive ==
  /\ Call
  /\ enabled /\ key /\ renewing = "no" /\ Begin
  /\ renewing' = "put"
  /\ UNCHANGED <<caller, destroyed, key, sockets, timers, starting, recreating, deleting,
                 starts>>

-----------------------------------------------------------------------------
(* What the awaited calls answer.                                          *)

Created ==
  /\ starting > 0
  /\ starting' = starting - 1
  /\ key' = TRUE /\ Connect
  /\ UNCHANGED <<caller, destroyed, timers, recreating, deleting, renewing, starts>>
  /\ NoBegin

\* start() gives up.
CreateFails ==
  /\ starting > 0
  /\ starting' = starting - 1
  /\ UNCHANGED <<caller, destroyed, key, sockets, timers, recreating, deleting, renewing,
                 starts>> /\ NoBegin

Recreated ==
  /\ recreating > 0
  /\ recreating' = recreating - 1
  /\ key' = TRUE /\ Connect
  /\ UNCHANGED <<caller, destroyed, timers, starting, deleting, renewing, starts>>
  /\ NoBegin

\* Mutant of RecreateFails: the error is logged, nothing else.
RecreateGivesUp ==
  /\ recreating > 0
  /\ recreating' = recreating - 1
  /\ UNCHANGED <<caller, destroyed, key, sockets, timers, starting, deleting, renewing,
                 starts>> /\ NoBegin

RecreateFails ==
  /\ recreating > 0
  /\ recreating' = recreating - 1
  /\ Schedule
  /\ UNCHANGED <<caller, destroyed, key, sockets, starting, deleting, renewing, starts>>
  /\ NoBegin

\* deleteListenKey has answered, or failed: the key is forgotten, whichever it is.
Deleted ==
  /\ deleting > 0
  /\ deleting' = deleting - 1
  /\ key' = FALSE
  /\ UNCHANGED <<caller, destroyed, sockets, timers, starting, recreating, renewing, starts>>
  /\ NoBegin

Renewed ==
  /\ renewing = "put"
  /\ renewing' = "no"
  /\ UNCHANGED <<caller, destroyed, key, sockets, timers, starting, recreating, deleting,
                 starts>> /\ NoBegin

\* Mutant of RenewStops: start() does not wait for stop().
RenewOverlaps ==
  /\ renewing = "put"
  /\ held' = FALSE /\ DropSocket /\ UNCHANGED <<lost, forgotten>> /\ renewing' = "no"
  /\ StopAwaits /\ BeginStart
  /\ UNCHANGED <<caller, key, recreating>> /\ NoBegin

\* The keep-alive fails: stop() and, when that is over, start().
RenewStops ==
  /\ renewing = "put"
  /\ BeginStop /\ renewing' = IF key THEN "stop" ELSE "stopped"
  /\ UNCHANGED <<caller, key, starting, recreating, deleting, starts>> /\ NoBegin

RenewStarts ==
  /\ renewing \in {"stop", "stopped"}
  /\ renewing' = "no" /\ key' = (key /\ renewing = "stopped")
  /\ BeginStart
  /\ UNCHANGED <<caller, sockets, timers, recreating, deleting>> /\ NoBegin

-----------------------------------------------------------------------------
(* Sockets and timers.                                                     *)

Fire(own) ==
  /\ IF own THEN held ELSE forgotten > 0
  /\ Begin
  /\ held' = (held /\ ~own)
  /\ forgotten' = forgotten - (IF own THEN 0 ELSE 1)
  /\ recreating' = recreating + (IF destroyed THEN 0 ELSE 1)
  /\ UNCHANGED <<caller, destroyed, key, sockets, starting, deleting, renewing, starts>>
  /\ NoBound

Opened ==
  /\ \/ ws = "connecting" /\ ws' = "open" /\ UNCHANGED lost
     \/ /\ lost["connecting"] > 0 /\ UNCHANGED ws
        /\ lost' = [lost EXCEPT !["connecting"] = @ - 1, !["open"] = @ + 1]
  /\ UNCHANGED <<caller, destroyed, key, timers, pending, starts>> /\ NoBegin

\* 'close' of the current socket or of an overwritten one.
SocketCloses ==
  \/ Attached(ws) /\ ws' = "closed" /\ UNCHANGED lost
  \/ \E state \in {"connecting", "open"} :
       /\ lost[state] > 0 /\ lost' = [lost EXCEPT ![state] = @ - 1]
       /\ UNCHANGED ws

\* Mutant of Closed: 'error' and the 'close' after it both schedule.
ClosedTwice ==
  /\ Outage
  /\ SocketCloses
  /\ IF destroyed THEN UNCHANGED timers
     ELSE held' = TRUE /\ forgotten' = forgotten + (IF held THEN 2 ELSE 1)
  /\ UNCHANGED <<caller, destroyed, key, pending, starts, overlap>>

Closed ==
  /\ Outage
  /\ SocketCloses
  /\ Schedule
  /\ UNCHANGED <<caller, destroyed, key, pending, starts, overlap>>

Next ==
  \/ StartBot \/ StopBot \/ KillDisconnects \/ KeepAlive
  \/ Created \/ CreateFails \/ Recreated \/ RecreateFails \/ Deleted
  \/ Renewed \/ RenewStops \/ RenewStarts
  \/ \E own \in BOOLEAN : Fire(own)
  \/ Opened \/ Closed

Spec == Init /\ [][Next]_vars

\* Timers fire, handshakes end, and createListenKey does not fail for ever.
Fairness ==
  /\ WF_vars(\E own \in BOOLEAN : Fire(own)) /\ WF_vars(Opened) /\ SF_vars(Recreated)

-----------------------------------------------------------------------------
(* Properties.                                                             *)

AttachedSockets == (IF Attached(ws) THEN 1 ELSE 0) + lost["connecting"] + lost["open"]
Timers == (IF held THEN 1 ELSE 0) + forgotten
Chains == starting + recreating + Timers + AttachedSockets

\* Events are handled once per attached socket.  Reconnecting never multiplies
\* sockets: each start() leads to one at most, however calls, failures and
\* outages overlap.
OneChainPerStart == Chains <= starts

\* What start() has once connected comes back after every outage, until stop().
Reconnects ==
  (~destroyed /\ Chains > starting) ~> (ws = "open" \/ lost["open"] > 0 \/ destroyed)

\* When no call overlaps another, and only a stopped bot is started: once stop()
\* is over no socket delivers events (KillSwitchService: "3. Disconnect
\* WebSockets"), ...
StoppedIsSilent == destroyed /\ Quiet /\ ~overlap => AttachedSockets = 0

\* ... events are delivered once, ...
OneSocket == ~overlap => AttachedSockets + Timers <= 1

\* ... and a connection is not left without the key that keepalive() renews.
KeyKept == Quiet /\ ~destroyed /\ ~overlap /\ AttachedSockets > 0 => key
=============================================================================
