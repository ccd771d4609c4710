---------------------------- MODULE ExchangePorts ----------------------------
(***************************************************************************)
(* The two streaming ports of exchange.module.ts, bound by the same        *)
(* EXCHANGE_PROVIDER.  The services behind them share nothing and do not   *)
(* call each other, so a behaviour follows one port; the other one stays   *)
(* as it was made.  The market data port is extended, with its properties; *)
(* the user data port is User, its variables renamed where both have one.  *)
(***************************************************************************)
EXTENDS MarketDataPort

CONSTANT MaxCommands    \* bound on the calls of the user data port

VARIABLES
  port,
  enabled, killing, closed, key, socket, lost, waiting, forgotten, starting,
  recreating, deleting, renewing, starts, overlap, commands, drops,
  authed, failures, breaker, sockets

User == INSTANCE UserDataPort WITH
  MaxCalls <- MaxCommands,
  destroyed <- closed, ws <- socket, held <- waiting, calls <- commands,
  outages <- drops, attempts <- failures, circuitOpen <- breaker, tries <- sockets

ASSUME UserAssumption == User!PortAssumption

marketVars == <<vars, binanceOnly>>
userVars ==
  <<enabled, killing, closed, key, socket, lost, waiting, forgotten, starting,
    recreating, deleting, renewing, starts, overlap, commands, drops,
    authed, failures, breaker, sockets>>

PortsInit ==
  /\ port \in {"marketData", "userData"}
  /\ PortInit /\ User!PortInit

PortsNext ==
  /\ \/ port = "marketData" /\ PortNext /\ UNCHANGED userVars
     \/ port = "userData" /\ User!PortNext /\ UNCHANGED marketVars
  /\ UNCHANGED port

PortsSpec ==
  /\ PortsInit /\ [][PortsNext]_<<marketVars, userVars, provider, port>>
  /\ \/ port = "marketData" /\ PortFairness
     \/ port = "userData" /\ User!PortFairness

-----------------------------------------------------------------------------
(* Properties, besides those of the market data port.                      *)

\* Reconnecting never multiplies the sockets of the user stream: on Binance, each
\* start() leads to one at most; on Bybit, the breaker bounds what is tried.
OneChainPerStart == User!OneChainPerStart /\ User!NoHammering

\* While no call overlaps another, stopped is silent and events come once.
OneCallAtATime == User!OneCallAtATime

\* A started user stream comes back after every outage.
PortReconnects == User!PortReconnects
=============================================================================
