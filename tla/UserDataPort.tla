---------------------------- MODULE UserDataPort ----------------------------
(***************************************************************************)
(* IUserDataPort as exchange.module.ts binds it: one of the two services,  *)
(* chosen by EXCHANGE_PROVIDER when the process starts.  The other one is  *)
(* made too and never called.  The variables that both services have are   *)
(* those of the one that is bound.                                         *)
(***************************************************************************)
EXTENDS BinanceUserStream

CONSTANT MaxFails

\* Assumed by the module that instantiates this one.
PortAssumption == StreamAssumption /\ MaxFails \in Nat

VARIABLES provider, authed, attempts, circuitOpen, tries

Bybit == INSTANCE BybitUserStream

bybitOnly == <<authed, attempts, circuitOpen, tries>>
binanceOnly == <<key, lost, pending>>

PortInit == provider \in {"binance", "bybit"} /\ Init /\ Bybit!Init

PortNext ==
  /\ \/ provider = "binance" /\ Next /\ UNCHANGED bybitOnly
     \/ provider = "bybit" /\ Bybit!Next /\ UNCHANGED binanceOnly
  /\ UNCHANGED provider

PortFairness ==
  \/ provider = "binance" /\ Fairness
  \/ provider = "bybit" /\ Bybit!Fairness

PortSpec == PortInit /\ [][PortNext]_<<vars, bybitOnly, provider>> /\ PortFairness

-----------------------------------------------------------------------------
(* Properties.                                                             *)

\* When no call overlaps another, and only a stopped bot is started, either service
\* is silent once stopped, delivers events once and cannot be torn down by a timer
\* of the connection before; Binance's has a key that can be renewed.
OneCallAtATime ==
  ~overlap => /\ StoppedIsSilent
              /\ OneSocket
              /\ provider = "binance" => KeyKept

\* The breaker of the Bybit service bounds its connections; Binance's has none.
NoHammering == provider = "bybit" => Bybit!NoHammering

\* A started stream comes back after every outage.
PortReconnects ==
  /\ provider = "binance" => Reconnects
  /\ provider = "bybit" => Bybit!Reconnects
=============================================================================
