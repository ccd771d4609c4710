------------------------- MODULE BinanceMarketStream -------------------------
(***************************************************************************)
(* The market data socket of binance-market-ws.service.ts.  It differs     *)
(* from BybitMarketStream where the code does: one stream per socket, a    *)
(* subscribe() that starts from scratch (timer, counter and circuit), and  *)
(* a health check that looks at pongs and at data separately.              *)
(***************************************************************************)
EXTENDS Integers

CONSTANTS
  Stream,      \* a symbol with an interval
  NoStream,
  MaxFails,    \* MAX_CONSECUTIVE_FAILS
  MaxCalls,    \* bound on subscribe() and unsubscribe()
  MaxOutages   \* bound on what network and exchange do to the connection

\* Assumed by the modules that instantiate or prove something of this one.
StreamAssumption ==
  /\ NoStream \notin Stream
  /\ MaxFails \in Nat \ {0} /\ MaxCalls \in Nat /\ MaxOutages \in Nat

VARIABLES
  currentStream, destroyed,
  attempts,      \* reconnectAttempts
  circuitOpen,
  held, orphans, \* reconnectTimer is pending; overwritten timers that are
  health,        \* healthCheckTimer runs
  ws,            \* readyState of the current socket, "null" without one
  dead,          \* open, and neither data nor pongs arrive (network)
  mute,          \* open, and pongs arrive but no data (exchange)
  oldPong, oldMessage,  \* older than the two STALE thresholds
  tries,         \* sockets created since data flowed or subscribe() (history)
  calls, outages

wanted == <<currentStream, destroyed>>
timers == <<held, orphans>>
staleness == <<oldPong, oldMessage>>
vars == <<wanted, attempts, circuitOpen, timers, health, ws, dead, mute, staleness,
          tries, calls, outages>>

TypeOK ==
  /\ currentStream \in Stream \cup {NoStream} /\ destroyed \in BOOLEAN
  /\ attempts \in 0..MaxFails /\ circuitOpen \in BOOLEAN
  /\ held \in BOOLEAN /\ orphans \in Nat /\ health \in BOOLEAN
  /\ ws \in {"null", "connecting", "open", "closing", "closed"}
  /\ dead \in BOOLEAN /\ mute \in BOOLEAN
  /\ oldPong \in BOOLEAN /\ oldMessage \in BOOLEAN
  /\ tries \in Nat /\ calls \in 0..MaxCalls /\ outages \in 0..MaxOutages

Init ==
  /\ currentStream = NoStream /\ destroyed = FALSE
  /\ attempts = 0 /\ circuitOpen = FALSE /\ held = FALSE /\ orphans = 0
  /\ health = FALSE /\ ws = "null" /\ dead = FALSE /\ mute = FALSE
  /\ oldPong = TRUE /\ oldMessage = TRUE
  /\ tries = 0 /\ calls = 0 /\ outages = 0

Call == calls < MaxCalls /\ calls' = calls + 1 /\ UNCHANGED outages
Outage == outages < MaxOutages /\ outages' = outages + 1 /\ UNCHANGED calls
NoBound == UNCHANGED <<calls, outages>>
NoSocket(state) == ws' = state /\ dead' = FALSE /\ mute' = FALSE

\* scheduleReconnect, when the timers h and o are pending and the counter is a.
Schedule(h, o, a) ==
  IF a >= MaxFails
  THEN circuitOpen' = TRUE /\ held' = h /\ orphans' = o /\ attempts' = a
  ELSE /\ attempts' = a + 1
       /\ held' = TRUE /\ orphans' = o + (IF h THEN 1 ELSE 0)
       /\ circuitOpen' = FALSE

\* connect(): a new socket, or a constructor that throws.
Connect(h, o, a) ==
  \/ /\ NoSocket("connecting") /\ held' = h /\ orphans' = o /\ attempts' = a
     /\ circuitOpen' = FALSE
  \/ NoSocket("null") /\ Schedule(h, o, a)

SubscribeAgain(s) ==
  /\ Call
  /\ currentStream = s /\ ws = "open"
  /\ UNCHANGED <<currentStream, destroyed, attempts, circuitOpen, timers, health, ws,
                 dead, mute, staleness, tries>>

\* Mutant of Subscribe: the pending timer is not cleared.
SubscribeKeepsTimer(s) ==
  /\ Call
  /\ currentStream # s \/ ws # "open"
  /\ currentStream' = s /\ destroyed' = FALSE
  /\ health' = FALSE /\ tries' = 1
  /\ Connect(held, orphans, 0)
  /\ UNCHANGED staleness

\* Everything is dropped, the stream before too, and the count starts again.
Subscribe(s) ==
  /\ Call
  /\ currentStream # s \/ ws # "open"
  /\ currentStream' = s /\ destroyed' = FALSE
  /\ health' = FALSE /\ tries' = 1
  /\ Connect(FALSE, orphans, 0)
  /\ UNCHANGED staleness

Unsubscribe ==
  /\ Call
  /\ destroyed' = TRUE /\ currentStream' = NoStream
  /\ health' = FALSE /\ held' = FALSE /\ NoSocket("null")
  /\ UNCHANGED <<attempts, circuitOpen, orphans, staleness, tries>>

\* A reconnect timer fires: the one reconnectTimer holds, or an overwritten one.
Fire(own) ==
  LET h == ~own /\ held
      o == IF own THEN orphans ELSE orphans - 1 IN
  /\ IF own THEN held ELSE orphans > 0
  /\ IF destroyed \/ circuitOpen \/ currentStream = NoStream
     THEN held' = h /\ orphans' = o
          /\ UNCHANGED <<attempts, circuitOpen, ws, dead, mute, tries>>
     ELSE tries' = tries + 1 /\ Connect(h, o, attempts)
  /\ UNCHANGED <<wanted, health, staleness>> /\ NoBound

Opened ==
  /\ ws = "connecting"
  /\ ws' = "open"
  /\ health' = TRUE /\ oldPong' = FALSE /\ oldMessage' = FALSE
  /\ UNCHANGED <<wanted, attempts, circuitOpen, timers, dead, mute, tries>> /\ NoBound

\* A message: only now the failures are forgotten.
Kline ==
  /\ ws = "open" /\ ~dead /\ ~mute
  /\ attempts' = 0 /\ tries' = 0 /\ oldMessage' = FALSE
  /\ UNCHANGED <<wanted, circuitOpen, timers, health, ws, dead, mute, oldPong>>
  /\ NoBound

Pong ==
  /\ ws = "open" /\ ~dead
  /\ oldPong' = FALSE
  /\ UNCHANGED <<wanted, attempts, circuitOpen, timers, health, ws, dead, mute,
                 oldMessage, tries>> /\ NoBound

\* 5 minutes without a pong; 20 minutes without a message.
PongsAge ==
  /\ ~oldPong /\ (ws # "open" \/ dead)
  /\ oldPong' = TRUE
  /\ UNCHANGED <<wanted, attempts, circuitOpen, timers, health, ws, dead, mute,
                 oldMessage, tries>> /\ NoBound
MessagesAge ==
  /\ ~oldMessage /\ (ws # "open" \/ dead \/ mute)
  /\ oldMessage' = TRUE
  /\ UNCHANGED <<wanted, attempts, circuitOpen, timers, health, ws, dead, mute,
                 oldPong, tries>> /\ NoBound

\* Mutant of HealthCheck: only the pongs count.
HealthCheckPongs ==
  /\ health /\ oldPong /\ currentStream # NoStream /\ ~destroyed
  /\ ws \in {"connecting", "open"}
  /\ ws' = "closing"
  /\ UNCHANGED <<wanted, attempts, circuitOpen, timers, health, dead, mute, staleness,
                 tries>> /\ NoBound

\* Terminates a socket, a connecting one too, for either reason.
HealthCheck ==
  /\ health /\ (oldPong \/ oldMessage) /\ currentStream # NoStream /\ ~destroyed
  /\ ws \in {"connecting", "open"}
  /\ ws' = "closing"
  /\ UNCHANGED <<wanted, attempts, circuitOpen, timers, health, dead, mute, staleness,
                 tries>> /\ NoBound

\* 'close', also of a handshake that failed.
Closed ==
  /\ ws \in {"connecting", "open", "closing"}
  /\ IF ws = "closing" THEN NoBound ELSE Outage
  /\ NoSocket("closed")
  /\ IF destroyed \/ currentStream = NoStream
     THEN UNCHANGED <<attempts, circuitOpen, timers>> ELSE Schedule(held, orphans, attempts)
  /\ UNCHANGED <<wanted, health, staleness, tries>>

\* The network goes away without a word; the exchange serves a silent stream.
Die ==
  /\ Outage /\ ws = "open" /\ ~dead
  /\ dead' = TRUE
  /\ UNCHANGED <<wanted, attempts, circuitOpen, timers, health, ws, mute, staleness, tries>>
FallSilent ==
  /\ Outage /\ ws = "open" /\ ~mute
  /\ mute' = TRUE
  /\ UNCHANGED <<wanted, attempts, circuitOpen, timers, health, ws, dead, staleness, tries>>

Next ==
  \/ \E s \in Stream : SubscribeAgain(s) \/ Subscribe(s)
  \/ Unsubscribe
  \/ \E own \in BOOLEAN : Fire(own)
  \/ Opened \/ Kline \/ Pong \/ PongsAge \/ MessagesAge \/ HealthCheck \/ Closed
  \/ Die \/ FallSilent

Spec == Init /\ [][Next]_vars

\* Timers fire and their constructor does not throw for ever, a handshake ends,
\* a terminated socket emits 'close', time passes, a good stream has data.
Fairness ==
  /\ WF_vars(Opened) /\ WF_vars(Kline)
  /\ WF_vars(PongsAge) /\ WF_vars(MessagesAge) /\ WF_vars(HealthCheck)
  /\ WF_vars(ws = "closing" /\ Closed)
  /\ \A own \in BOOLEAN : SF_vars(Fire(own) /\ ws' = "connecting")

-----------------------------------------------------------------------------
(* Properties.                                                             *)

Wanted == ~destroyed /\ currentStream # NoStream

\* While there is a connection no reconnect timer is pending, own or forgotten:
\* a connection is never torn down by a timer of the connection before.
NoStaleTimer == ws \in {"connecting", "open", "closing"} => ~held /\ orphans = 0

\* A stream that somebody wants always has a way back: a socket that will open or
\* emit 'close', the one timer, or the circuit breaker that has said so.
NeverWedged ==
  Wanted => ws \in {"connecting", "open", "closing"} \/ held \/ circuitOpen

\* "Reset backoff only when actual data flows": without data, a subscribe()
\* leads to at most MaxFails + 1 sockets, however long the outage.
NoHammering == tries <= MaxFails + 1

\* IMarketDataPort: "Detect silent streams (connection alive but no data)": a
\* silent stream does not stay.
Mute == Wanted /\ ws = "open" /\ mute
SilentIsSeen == Mute ~> ~Mute

\* Once the outages are over, a wanted stream has data, or its circuit is open.
Recovers == Wanted ~> (ws = "open" /\ ~dead /\ ~mute) \/ circuitOpen \/ ~Wanted
=============================================================================
