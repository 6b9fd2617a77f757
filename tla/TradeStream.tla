---------------------------- MODULE TradeStream ----------------------------
(***************************************************************************)
(* stream_trades of the adapters: trades arrive on a socket and become     *)
(* rows of market_data.crypto_trades.  Binance collects them and inserts   *)
(* a batch when it is large or five seconds old, judged when a trade       *)
(* arrives; the others insert each message.  Any exception, the insert's   *)
(* too, ends the connection, and what had been collected is dropped.       *)
(* The venue never changes; TradesInit chooses it.                         *)
(*                                                                         *)
(* Definitions named Bug... are faulty variants of the definition below    *)
(* them, kept to show that the properties can fail.                        *)
(***************************************************************************)
EXTENDS Naturals, Sequences, FiniteSets, SequencesExt, VenueMessages

CONSTANTS FlushAt,                    \* 500
          MaxTradeMsgs, MaxTradeDrops \* bounds of the run

ASSUME TradesAssumption ==
    FlushAt \in Nat \ {0} /\ MaxTradeMsgs \in Nat /\ MaxTradeDrops \in Nat

VARIABLES tvenue, tlink, buffer,
          arrived,   \* trades received so far; they are numbered from 1
          stored,    \* rows of crypto_trades
          tlost,     \* history: received and dropped
          tdrops

tradeVars == <<tvenue, tlink, buffer, arrived, stored, tlost, tdrops>>

TradesInit ==
    /\ tvenue \in Venues
    /\ tlink = "down" /\ buffer = << >> /\ arrived = 0
    /\ stored = {} /\ tlost = {} /\ tdrops = 0

\* websockets.connect and the subscription; the buffer is a new one.
TradeConnect ==
    /\ tlink = "down"
    /\ tlink' = "up" /\ buffer' = << >>
    /\ UNCHANGED <<tvenue, arrived, stored, tlost, tdrops>>

Arrives == tlink = "up" /\ arrived < MaxTradeMsgs /\ arrived' = arrived + 1

\* Binance: append, and insert the batch when it is full or old enough.
BugBinanceTrade ==
    /\ tvenue = "binance" /\ Arrives
    /\ LET batch == Append(buffer, arrived')
       IN \/ buffer' = << >> /\ stored' = stored \union ToSet(batch)
          \/ buffer' = batch /\ UNCHANGED stored
    /\ UNCHANGED <<tvenue, tlink, tlost, tdrops>>
BinanceTrade ==
    /\ tvenue = "binance" /\ Arrives
    /\ LET batch == Append(buffer, arrived')
       IN \/ buffer' = << >> /\ stored' = stored \union ToSet(batch)
          \/ Len(batch) < FlushAt /\ buffer' = batch /\ UNCHANGED stored
    /\ UNCHANGED <<tvenue, tlink, tlost, tdrops>>

VenueTrade ==
    /\ tvenue # "binance" /\ Arrives
    /\ TradeStored(tvenue, "trades")
    /\ stored' = stored \union {arrived'}
    /\ UNCHANGED <<tvenue, tlink, buffer, tlost, tdrops>>

\* The socket fails, or the insert of the trade just received does.
TradeDrop ==
    /\ tlink = "up" /\ tdrops < MaxTradeDrops
    /\ tdrops' = tdrops + 1 /\ tlink' = "down"
    /\ \/ UNCHANGED arrived
       \/ Arrives
    /\ tlost' = tlost \union ToSet(buffer) \union (arrived + 1 .. arrived')
    /\ buffer' = << >>
    /\ UNCHANGED <<tvenue, stored>>

TradesNext == TradeConnect \/ BinanceTrade \/ VenueTrade \/ TradeDrop

TradesSpec == TradesInit /\ [][TradesNext]_tradeVars

-----------------------------------------------------------------------------
\* Every trade received is a row, waiting in the buffer, or was lost with a
\* connection; a connection takes at most a batch with it, and only Binance's
\* takes more than the message it was handling.
TradeLossBounded ==
    /\ 1 .. arrived = stored \union ToSet(buffer) \union tlost
    /\ stored \intersect tlost = {}
    /\ Len(buffer) < FlushAt
    /\ Cardinality(tlost) <= tdrops * (IF tvenue = "binance" THEN FlushAt ELSE 1)
=============================================================================
