--------------------------- MODULE VenueMessages ---------------------------
(***************************************************************************)
(* What the five exchange adapters of ingest/ do with a message of their   *)
(* socket.  A message is reduced to what the handlers branch on: its kind  *)
(* and the candle it speaks of.  "update" is the candle in progress,       *)
(* "closed" its last message, "snapshot" the history sent on subscribing.  *)
(*                                                                         *)
(* Definitions named Bug... are faulty variants of the definition below    *)
(* them, kept to show that the properties can fail.                        *)
(***************************************************************************)
EXTENDS Naturals

Venues == {"binance", "bybit", "okx", "coinbase", "kraken"}
CandleKinds == {"snapshot", "update", "closed"}

\* Which kinds a venue sends (Coinbase: "candles events only fire on close").
Sends(v) ==
    CASE v = "binance"  -> {"update", "closed", "trades"}
      [] v = "bybit"    -> {"control", "update", "closed", "trades"}
      [] v = "okx"      -> {"control", "update", "closed", "trades"}
      [] v = "coinbase" -> {"control", "closed", "trades"}
      [] v = "kraken"   -> {"control", "snapshot", "update", "closed", "trades"}

\* The receive loops, reduced to the handler they call: subscription answers
\* and pongs are skipped, the topic or channel chooses the rest.
BybitDispatch(kind) ==
    IF kind = "control" THEN "skip" ELSE IF kind = "trades" THEN "trade" ELSE "candle"
OkxDispatch(kind) ==
    IF kind = "control" THEN "skip" ELSE IF kind \in CandleKinds THEN "candle" ELSE "trade"
CoinbaseDispatch(kind) ==
    IF kind = "control" THEN "skip" ELSE IF kind \in CandleKinds THEN "candle" ELSE "trade"
KrakenDispatch(kind) ==
    IF kind = "control" THEN "skip" ELSE IF kind \in CandleKinds THEN "candle" ELSE "trade"

\* The candle handlers: which messages become rows.
BinanceCandle(kind) == kind = "closed"
BugBybitHandleKline(kind) == BybitDispatch(kind) = "candle"
BybitHandleKline(kind) == BybitDispatch(kind) = "candle" /\ kind = "closed"
OkxHandleCandle(kind) == OkxDispatch(kind) = "candle" /\ kind = "closed"
CoinbaseHandleCandles(kind) == CoinbaseDispatch(kind) = "candle"
KrakenHandleOhlc(kind) == KrakenDispatch(kind) = "candle" /\ kind # "snapshot"

CandleStored(v, kind) ==
    CASE v = "binance"  -> BinanceCandle(kind)
      [] v = "bybit"    -> BybitHandleKline(kind)
      [] v = "okx"      -> OkxHandleCandle(kind)
      [] v = "coinbase" -> CoinbaseHandleCandles(kind)
      [] v = "kraken"   -> KrakenHandleOhlc(kind)

\* The trade handlers: all but Binance's insert the rows of a message at once.
BybitHandleTrade(kind) == BybitDispatch(kind) = "trade"
OkxHandleTrade(kind) == OkxDispatch(kind) = "trade"
CoinbaseHandleTrades(kind) == CoinbaseDispatch(kind) = "trade"
KrakenHandleTrade(kind) == KrakenDispatch(kind) = "trade"

TradeStored(v, kind) ==
    CASE v = "bybit"    -> BybitHandleTrade(kind)
      [] v = "okx"      -> OkxHandleTrade(kind)
      [] v = "coinbase" -> CoinbaseHandleTrades(kind)
      [] v = "kraken"   -> KrakenHandleTrade(kind)
=============================================================================
