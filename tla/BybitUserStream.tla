--------------------------- MODULE BybitUserStream ---------------------------
(***************************************************************************)
(* The private stream of bybit-user-ws.service.ts with its callers.        *)
(* Where BinanceUserStream awaits a listen key, this service authenticates *)
(* on the open socket, and connect() takes the listeners off a socket      *)
(* before it drops it, so start() and stop() are steps of their own and    *)
(* only the current socket matters.  Nothing here notices a connection     *)
(* that dies without a word, or a subscription that is refused: `open' and *)
(* `authed' say what the service believes.                                 *)
(***************************************************************************)
EXTENDS Integers

CONSTANTS
  MaxFails,    \* MAX_CONSECUTIVE_FAILS
  MaxCalls,    \* bound on start, stop and kill
  MaxOutages   \* bound on closed connections

VARIABLES
  enabled,     \* BotStateService
  killing,     \* KillSwitchService.activate has not disconnected yet
  destroyed,
  ws,          \* this.ws
  authed,      \* it has answered the authentication with success
  attempts,    \* reconnectAttempts
  circuitOpen,
  held, forgotten,  \* reconnectTimer is pending; overwritten timers that are
  starts,      \* start() calls so far (history)
  tries,       \* sockets made since the last successful authentication (history)
  overlap,     \* a bot that ran was started (history)
  calls, outages

caller == <<enabled, killing>>
timers == <<held, forgotten>>
breaker == <<attempts, circuitOpen>>
vars == <<caller, destroyed, ws, authed, breaker, timers, starts, tries, overlap, calls,
          outages>>

TypeOK ==
  /\ enabled \in BOOLEAN /\ killing \in BOOLEAN /\ destroyed \in BOOLEAN
  /\ ws \in {"null", "connecting", "open", "closing", "closed"} /\ authed \in BOOLEAN
  /\ attempts \in 0..MaxFails /\ circuitOpen \in BOOLEAN
  /\ held \in BOOLEAN /\ forgotten \in Nat
  /\ starts \in Nat /\ tries \in Nat /\ overlap \in BOOLEAN
  /\ calls \in 0..MaxCalls /\ outages \in 0..MaxOutages

Init ==
  /\ enabled = FALSE /\ killing = FALSE /\ destroyed = FALSE
  /\ ws = "null" /\ authed = FALSE
  /\ attempts = 0 /\ circuitOpen = FALSE
  /\ held = FALSE /\ forgotten = 0
  /\ starts = 0 /\ tries = 0 /\ overlap = FALSE /\ calls = 0 /\ outages = 0

Call == calls < MaxCalls /\ calls' = calls + 1 /\ UNCHANGED outages
Outage == outages < MaxOutages /\ outages' = outages + 1 /\ UNCHANGED calls
NoBegin == UNCHANGED <<overlap, calls, outages>>

\* connect() with the circuit closed: the socket before is terminated.
Connect == ws' = "connecting" /\ authed' = FALSE /\ tries' = tries + 1

\* Mutant of Schedule: the circuit never opens.
ScheduleForever ==
  IF destroyed THEN UNCHANGED <<breaker, timers>>
  ELSE /\ attempts' = (IF attempts = MaxFails THEN attempts ELSE attempts + 1)
       /\ held' = TRUE /\ forgotten' = forgotten + (IF held THEN 1 ELSE 0)
       /\ UNCHANGED circuitOpen

\* scheduleReconnect.
Schedule ==
  IF destroyed THEN UNCHANGED <<breaker, timers>>
  ELSE IF attempts >= MaxFails THEN circuitOpen' = TRUE /\ UNCHANGED <<attempts, timers>>
  ELSE /\ attempts' = attempts + 1
       /\ held' = TRUE /\ forgotten' = forgotten + (IF held THEN 1 ELSE 0)
       /\ UNCHANGED circuitOpen

-----------------------------------------------------------------------------
(* start() and stop().                                                     *)

\* The circuit is closed, but neither the counter nor a pending timer is reset.
StartBot ==
  /\ Call
  /\ overlap' = (overlap \/ enabled)
  /\ enabled' = TRUE /\ UNCHANGED killing
  /\ destroyed' = FALSE /\ circuitOpen' = FALSE
  /\ Connect
  /\ starts' = starts + 1
  /\ UNCHANGED <<attempts, timers>>

Stop ==
  /\ destroyed' = TRUE
  /\ held' = FALSE
  /\ ws' = "null" /\ authed' = FALSE
  /\ UNCHANGED <<breaker, forgotten, starts, tries>>

StopBot ==
  /\ Call
  /\ enabled' = FALSE /\ killing' \in {killing, TRUE}
  /\ Stop /\ UNCHANGED overlap

\* The kill switch disconnects once more, when the positions are closed.
KillDisconnects ==
  /\ killing /\ killing' = FALSE /\ UNCHANGED enabled
  /\ Stop /\ NoBegin

-----------------------------------------------------------------------------
(* Sockets and timers.                                                     *)

Fire(own) ==
  /\ IF own THEN held ELSE forgotten > 0
  /\ held' = (held /\ ~own)
  /\ forgotten' = forgotten - (IF own THEN 0 ELSE 1)
  /\ IF destroyed \/ circuitOpen THEN UNCHANGED <<ws, authed, tries>> ELSE Connect
  /\ UNCHANGED <<caller, destroyed, breaker, starts>> /\ NoBegin

\* 'open': the request to authenticate is sent.
Opened ==
  /\ ws = "connecting" /\ ws' = "open"
  /\ UNCHANGED <<caller, destroyed, authed, breaker, timers, starts, tries>> /\ NoBegin

AuthAccepted ==
  /\ ws = "open" /\ ~authed
  /\ authed' = TRUE /\ attempts' = 0 /\ tries' = 0
  /\ UNCHANGED <<caller, destroyed, ws, circuitOpen, timers, starts>> /\ NoBegin

\* A refused client closes the connection itself.
AuthRefused ==
  /\ ws = "open" /\ ~authed
  /\ ws' = "closing"
  /\ UNCHANGED <<caller, destroyed, authed, breaker, timers, starts, tries>> /\ NoBegin

\* 'close', also of a handshake that failed.
Closed ==
  /\ ws \in {"connecting", "open", "closing"}
  /\ IF ws = "closing" THEN UNCHANGED <<calls, outages>> ELSE Outage
  /\ ws' = "closed" /\ authed' = FALSE
  /\ Schedule
  /\ UNCHANGED <<caller, destroyed, starts, tries, overlap>>

Next ==
  \/ StartBot \/ StopBot \/ KillDisconnects
  \/ \E own \in BOOLEAN : Fire(own)
  \/ Opened \/ AuthAccepted \/ AuthRefused \/ Closed

\* Timers fire, a handshake ends, an authentication is answered, a socket that is
\* being closed emits 'close'.
Fairness ==
  /\ WF_vars(\E own \in BOOLEAN : Fire(own)) /\ WF_vars(Opened)
  /\ WF_vars(AuthAccepted \/ AuthRefused) /\ WF_vars(ws = "closing" /\ Closed)

Spec == Init /\ [][Next]_vars

-----------------------------------------------------------------------------
(* Properties.                                                             *)

\* MAX_CONSECUTIVE_FAILS: without an accepted authentication the service makes
\* at most MaxFails sockets on its own.
NoHammering == tries <= MaxFails + starts

\* What was started is connected again after every outage, unless it is stopped or
\* the circuit opens.
Reconnects ==
  (~destroyed /\ starts > 0) ~> (ws = "open" /\ authed) \/ destroyed \/ circuitOpen
=============================================================================
