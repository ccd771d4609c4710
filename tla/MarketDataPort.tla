--------------------------- MODULE MarketDataPort ---------------------------
(***************************************************************************)
(* IMarketDataPort as exchange.module.ts binds it: one of the two services *)
(* for the life of the process.  The other one is made too and never       *)
(* called.  The variables that both services have are those of the one     *)
(* that is bound; a property of both is stated once, on these.             *)
(***************************************************************************)
EXTENDS BybitMarketStream

CONSTANTS Stream, NoStream  \* see BinanceMarketStream

VARIABLES provider, currentStream, oldPong, oldMessage

Binance == INSTANCE BinanceMarketStream

ASSUME BinanceAssumption == Binance!StreamAssumption

bybitOnly == <<subscribed, interval, topics, silent>>
binanceOnly == <<currentStream, oldPong, oldMessage>>

PortInit ==
  /\ provider \in {"binance", "bybit"}
  /\ Init /\ Binance!Init

PortNext ==
  /\ \/ provider = "bybit" /\ Next /\ UNCHANGED binanceOnly
     \/ provider = "binance" /\ Binance!Next /\ UNCHANGED bybitOnly
  /\ UNCHANGED provider

PortFairness ==
  \/ provider = "bybit" /\ Fairness
  \/ provider = "binance" /\ Binance!Fairness

PortSpec == PortInit /\ [][PortNext]_<<vars, binanceOnly, provider>> /\ PortFairness

-----------------------------------------------------------------------------
(* Properties.                                                             *)

\* Binance: a subscribe() starts from scratch.  No timer of a connection before it
\* tears a later one down, and without data it leads to at most MaxFails + 1
\* sockets.
SubscribeStartsOver ==
  provider = "binance" => Binance!NoStaleTimer /\ Binance!NoHammering

\* Binance: a stream that is alive but has no data does not stay.  (On Bybit it
\* stays, as PortRecovers says.)
SilentIsSeen == provider = "binance" => Binance!SilentIsSeen

\* After the outages there is data or an open circuit, except on a Bybit stream
\* that answers without data, which its health check takes for a good one.
PortRecovers ==
  /\ provider = "bybit" => Recovers
  /\ provider = "binance" => Binance!Recovers
=============================================================================
