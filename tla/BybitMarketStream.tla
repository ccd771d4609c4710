-------------------------- MODULE BybitMarketStream --------------------------
(***************************************************************************)
(* The market data socket of bybit-market-ws.service.ts: subscribe and     *)
(* unsubscribe, the connection with its reconnect timer, backoff counter   *)
(* and circuit breaker, and the health check for silent connections.       *)
(*                                                                         *)
(* connect() and cleanup() take the listeners off a socket before they     *)
(* drop it, so only the current socket matters.  A timer that is armed is  *)
(* forgotten, not cleared, when the next one is armed: `orphans' counts    *)
(* the forgotten ones.  Durations are left out, a timer that is armed may  *)
(* fire; a connected socket answers the 20 s pings, and a pong counts as a   *)
(* message, so it never gets to the 20 min without one.                    *)
(***************************************************************************)
EXTENDS Integers

CONSTANTS
  Symbol, Interval,
  NoInterval,
  MaxFails,    \* MAX_CONSECUTIVE_FAILS
  MaxCalls,    \* bound on subscribe() and unsubscribe()
  MaxOutages   \* bound on what the network does to the connection

ASSUME StreamAssumption ==
  /\ NoInterval \notin Interval
  /\ MaxFails \in Nat \ {0}
  /\ MaxCalls \in Nat /\ MaxOutages \in Nat

VARIABLES
  subscribed, interval, destroyed,
  attempts,      \* reconnectAttempts
  circuitOpen,
  held, orphans, \* reconnectTimer is pending; forgotten timers that are
  health,        \* healthCheckTimer runs
  ws,            \* readyState of the current socket, "null" without one
  requests,      \* topics of the subscribe requests without an answer (exchange)
  feed,          \* topics the exchange sends on this socket
  refused,       \* topics it has refused on this socket
  dead,          \* the socket is open and nothing arrives (network)
  mute,          \* the socket is open, answers arrive, but no klines (exchange)
  silent,        \* the last message is older than STALE_MESSAGE_THRESHOLD_MS
  tries,         \* sockets created since the last kline (history)
  calls, outages

wanted == <<subscribed, interval, destroyed>>
timers == <<held, orphans>>
topics == <<requests, feed, refused>>
vars == <<wanted, attempts, circuitOpen, timers, health, ws, topics, dead, mute, silent,
          tries, calls, outages>>

Topic == Symbol \X Interval
Topics(subs) == subs \X {interval}

TypeOK ==
  /\ subscribed \subseteq Symbol /\ interval \in Interval \cup {NoInterval}
  /\ destroyed \in BOOLEAN /\ circuitOpen \in BOOLEAN
  /\ attempts \in 0..MaxFails
  /\ held \in BOOLEAN /\ orphans \in Nat /\ health \in BOOLEAN
  /\ ws \in {"null", "connecting", "open", "closing", "closed"}
  /\ requests \subseteq SUBSET Topic /\ feed \subseteq Topic /\ refused \subseteq Topic
  /\ dead \in BOOLEAN /\ mute \in BOOLEAN /\ silent \in BOOLEAN
  /\ tries \in Nat /\ calls \in 0..MaxCalls /\ outages \in 0..MaxOutages

Init ==
  /\ subscribed = {} /\ interval = NoInterval /\ destroyed = FALSE
  /\ attempts = 0 /\ circuitOpen = FALSE /\ held = FALSE /\ orphans = 0
  /\ health = FALSE /\ ws = "null" /\ requests = {} /\ feed = {} /\ refused = {}
  /\ dead = FALSE /\ mute = FALSE /\ silent = TRUE /\ tries = 0 /\ calls = 0 /\ outages = 0

NoTopics ==
  requests' = {} /\ feed' = {} /\ refused' = {} /\ dead' = FALSE /\ mute' = FALSE

Call == calls < MaxCalls /\ calls' = calls + 1 /\ UNCHANGED outages
Outage == outages < MaxOutages /\ outages' = outages + 1 /\ UNCHANGED calls
NoBound == UNCHANGED <<calls, outages>>

\* scheduleReconnect, when the pending timers are h and o.  The timer that is
\* armed replaces the held one.
Schedule(h, o) ==
  IF attempts >= MaxFails
  THEN circuitOpen' = TRUE /\ held' = h /\ orphans' = o /\ UNCHANGED attempts
  ELSE /\ attempts' = attempts + 1
       /\ held' = TRUE /\ orphans' = o + (IF h THEN 1 ELSE 0)
       /\ circuitOpen' = FALSE

\* connect() with the circuit closed: the old socket goes, a new one is made;
\* the constructor may throw.
Connect(h, o) ==
  /\ tries' = tries + 1
  /\ NoTopics
  /\ \/ /\ ws' = "connecting" /\ held' = h /\ orphans' = o
        /\ circuitOpen' = FALSE /\ UNCHANGED attempts
     \/ ws' = "null" /\ Schedule(h, o)

\* Already subscribed on an open socket.
SubscribeAgain(s, i) ==
  /\ Call
  /\ s \in subscribed /\ interval = i /\ ws = "open"
  /\ UNCHANGED <<wanted, attempts, circuitOpen, timers, health, ws, topics, dead, mute,
                 silent, tries>>

\* One more symbol on an open socket.
SubscribeMore(s, i) ==
  /\ Call
  /\ s \notin subscribed /\ interval = i /\ ws = "open"
  /\ subscribed' = subscribed \cup {s}
  /\ requests' = requests \cup {{<<s, i>>}}
  /\ UNCHANGED <<interval, destroyed, attempts, circuitOpen, timers, health, ws, feed,
                 refused, dead, mute, silent, tries>>

\* No open socket, or one for another interval, which is dropped with all its
\* symbols.  A pending timer is cleared only in the second case, and attempts
\* stays what it is.
SubscribeConnect(s, i) ==
  LET changed == interval # NoInterval /\ interval # i IN
  /\ Call
  /\ changed \/ ws # "open"
  /\ subscribed' = IF changed THEN {s} ELSE subscribed \cup {s}
  /\ interval' = i /\ destroyed' = FALSE
  /\ health' = (health /\ ~changed)
  /\ Connect(held /\ ~changed, orphans)
  /\ UNCHANGED silent

Unsubscribe ==
  /\ Call
  /\ destroyed' = TRUE
  /\ subscribed' = {} /\ interval' = NoInterval
  /\ health' = FALSE /\ held' = FALSE /\ ws' = "null" /\ NoTopics
  /\ UNCHANGED <<attempts, circuitOpen, orphans, silent, tries>>

\* A reconnect timer fires: the one reconnectTimer holds, or a forgotten one.
Fire(own) ==
  LET h == ~own /\ held
      o == IF own THEN orphans ELSE orphans - 1 IN
  /\ IF own THEN held ELSE orphans > 0
  /\ IF destroyed \/ circuitOpen \/ subscribed = {}
     THEN held' = h /\ orphans' = o
          /\ UNCHANGED <<attempts, circuitOpen, ws, topics, dead, mute, tries>>
     ELSE Connect(h, o)
  /\ UNCHANGED <<wanted, health, silent>> /\ NoBound

\* Mutant of Opened: the failures are forgotten before data flows.
OpenedResets ==
  /\ ws = "connecting"
  /\ ws' = "open" /\ attempts' = 0
  /\ requests' = {Topics(subscribed)}
  /\ health' = TRUE /\ silent' = FALSE
  /\ UNCHANGED <<wanted, circuitOpen, timers, feed, refused, dead, mute, tries>> /\ NoBound

\* Mutant of Opened: one symbol per socket.
OpenedForOne ==
  /\ ws = "connecting"
  /\ ws' = "open"
  /\ \E s \in subscribed : requests' = {Topics({s})}
  /\ health' = TRUE /\ silent' = FALSE
  /\ UNCHANGED <<wanted, attempts, circuitOpen, timers, feed, refused, dead, mute, tries>>
  /\ NoBound

\* 'open': every symbol is subscribed, the health check and the pings start.
Opened ==
  /\ ws = "connecting"
  /\ ws' = "open"
  /\ requests' = {Topics(subscribed)}
  /\ health' = TRUE /\ silent' = FALSE
  /\ UNCHANGED <<wanted, attempts, circuitOpen, timers, feed, refused, dead, mute, tries>>
  /\ NoBound

\* The answer to a subscribe request.  A refusal is only logged.
Ack(req, ok) ==
  /\ ws = "open" /\ ~dead /\ req \in requests
  /\ requests' = requests \ {req}
  /\ feed' = IF ok THEN feed \cup req ELSE feed
  /\ refused' = IF ok THEN refused ELSE refused \cup req
  /\ silent' = FALSE
  /\ UNCHANGED <<wanted, attempts, circuitOpen, timers, health, ws, dead, mute, tries>>
  /\ NoBound

\* A kline arrives: the failure count starts again.
Kline ==
  /\ ws = "open" /\ ~dead /\ ~mute /\ feed # {}
  /\ attempts' = 0 /\ tries' = 0 /\ silent' = FALSE
  /\ UNCHANGED <<wanted, circuitOpen, timers, health, ws, topics, dead, mute>> /\ NoBound

\* 20 minutes without a message, not even a pong.
Silence ==
  /\ ~silent /\ (ws # "open" \/ dead)
  /\ silent' = TRUE
  /\ UNCHANGED <<wanted, attempts, circuitOpen, timers, health, ws, topics, dead, mute, tries>>
  /\ NoBound

\* The health check terminates a silent socket, a connecting one too: the time
\* of the last message is still that of the socket before.
HealthCheck ==
  /\ health /\ silent /\ subscribed # {} /\ ~destroyed
  /\ ws \in {"connecting", "open"}
  /\ ws' = "closing"
  /\ UNCHANGED <<wanted, attempts, circuitOpen, timers, health, topics, dead, mute, silent,
                 tries>>
  /\ NoBound

\* Mutant of Closed: only a socket that was open is connected again.
ClosedIfOpen ==
  /\ ws \in {"connecting", "open", "closing"}
  /\ IF ws = "closing" THEN NoBound ELSE Outage
  /\ ws' = "closed" /\ NoTopics
  /\ IF destroyed \/ subscribed = {} \/ ws = "connecting"
     THEN UNCHANGED <<attempts, circuitOpen, timers>> ELSE Schedule(held, orphans)
  /\ UNCHANGED <<wanted, health, silent, tries>>

\* 'close', also of a handshake that failed.
Closed ==
  /\ ws \in {"connecting", "open", "closing"}
  /\ IF ws = "closing" THEN NoBound ELSE Outage
  /\ ws' = "closed" /\ NoTopics
  /\ IF destroyed \/ subscribed = {}
     THEN UNCHANGED <<attempts, circuitOpen, timers>> ELSE Schedule(held, orphans)
  /\ UNCHANGED <<wanted, health, silent, tries>>

\* The network goes away without a word.
Die ==
  /\ Outage /\ ws = "open" /\ ~dead
  /\ dead' = TRUE
  /\ UNCHANGED <<wanted, attempts, circuitOpen, timers, health, ws, topics, mute, silent,
                 tries>>

\* The exchange goes on answering but sends no data.
FallSilent ==
  /\ Outage /\ ws = "open" /\ ~mute
  /\ mute' = TRUE
  /\ UNCHANGED <<wanted, attempts, circuitOpen, timers, health, ws, topics, dead, silent,
                 tries>>

Next ==
  \/ \E s \in Symbol, i \in Interval :
       SubscribeAgain(s, i) \/ SubscribeMore(s, i) \/ SubscribeConnect(s, i)
  \/ Unsubscribe
  \/ \E own \in BOOLEAN : Fire(own)
  \/ Opened \/ Kline \/ Silence \/ HealthCheck \/ Closed \/ Die
  \/ FallSilent
  \/ \E req \in requests, ok \in BOOLEAN : Ack(req, ok)

Spec == Init /\ [][Next]_vars

\* Timers fire, a handshake ends, requests are answered, a terminated socket
\* emits 'close', time passes.  An outage is never required to happen.
Fairness ==
  /\ WF_vars(Opened) /\ WF_vars(Silence) /\ WF_vars(HealthCheck)
  /\ WF_vars(ws = "closing" /\ Closed)
  /\ \A own \in BOOLEAN : SF_vars(Fire(own) /\ ws' = "connecting")
  /\ WF_vars(\E req \in requests, ok \in BOOLEAN : Ack(req, ok))

-----------------------------------------------------------------------------
(* Properties.                                                             *)

Wanted == ~destroyed /\ subscribed # {}

\* A stream that somebody wants is never left alone: there is a socket that
\* will open or emit 'close', or a timer that will make one, or the circuit
\* breaker has said so.
NeverWedged ==
  Wanted => ws \in {"connecting", "open", "closing"} \/ held \/ orphans > 0 \/ circuitOpen

\* Every subscribed symbol, and no other, was asked for on the open socket,
\* also after reconnects and after symbols were added meanwhile.
SymbolsAsked ==
  ws = "open" => feed \cup refused \cup UNION requests = Topics(subscribed)

\* "stop after MAX_CONSECUTIVE_FAILS to avoid hammering a throttled exchange":
\* the sockets made without a single kline are bounded by the failures allowed
\* and the calls of subscribe(); forgotten timers and handshakes that succeed
\* without data do not get around it.
NoHammering == tries <= MaxFails + calls

\* An open circuit means that there is no connection and none is tried, also
\* when timers armed before are still pending.
CircuitHolds == circuitOpen => ws \in {"null", "closed"}

\* Once the outages are over, a wanted stream delivers every symbol the exchange
\* has not refused, or the circuit breaker has stopped it, or nobody wants it.
\* One outage is excepted, for it is never noticed: a connection that answers the
\* pings and carries no data.
Delivers == ws = "open" /\ ~dead /\ ~mute /\ feed \cup refused = Topics(subscribed)
Recovers == Wanted ~> Delivers \/ circuitOpen \/ ~Wanted \/ mute
=============================================================================
