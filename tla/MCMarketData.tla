---------------------------- MODULE MCMarketData ----------------------------
(***************************************************************************)
(* What brings market data in, side by side for TLC: the ingestor's parts  *)
(* and the engine's live feeds.  They share no state, so a behaviour       *)
(* follows one of them (part) and leaves the others at rest.  Parts names  *)
(* the parts a run follows.                                                *)
(***************************************************************************)
EXTENDS Candles, TradeStream, OracleLoops, PolymarketLoop, TradePaging, MarketDiscovery,
        Feeds

CONSTANT Parts

VARIABLE part

MCListings == {{0, 2, 4, 6, 8}, {0, 6}}
MCListedAt == [m \in Mkts |-> IF m \in Fifteen THEN 0 ELSE IF m \in NoTokens THEN 1 ELSE 0]
MCClosesAt == [m \in Mkts |-> IF m \in Fifteen THEN 4 ELSE IF m \in NoTokens THEN 4 ELSE 1]

\* Of the feeds: a, of the first 5m series, and b, of the 15m scan.
MCCloses == [m \in FMarkets |-> IF m \in Fifteen THEN 3 ELSE 2]
MCWindow == [m \in FMarkets |-> IF m \in Fifteen THEN 2 ELSE 1]

MCNoOptions == [metadata |-> TRUE, prices |-> TRUE, trades |-> TRUE, limit |-> 0]

\* The script without options, without the prices and the metadata, and with a
\* limit and without the trades.
MCOptions ==
    {MCNoOptions, [MCNoOptions EXCEPT !.metadata = FALSE, !.prices = FALSE],
     [MCNoOptions EXCEPT !.trades = FALSE, !.limit = 1]}
MCFamilies == {{1, 2, 3, 4}, {1, 3}}

\* The choices of a part at rest.
CandlesRest == venue = "binance" /\ listed = {0, 6} /\ from = 0 /\ to = 7 /\ keeps = "oldest"
TradesRest == tvenue = "binance"
PagingRest == how = "agg" /\ stamps = << >>
DiscoveryRest == path = "series" /\ Family = {1, 3} /\ since = 1 /\ listing = 1

MarketDataInit ==
    /\ part \in Parts
    /\ IF part = "candles" THEN TRUE ELSE CandlesRest
    /\ IF part = "trades" THEN TRUE ELSE TradesRest
    /\ IF part = "paging" THEN TRUE ELSE PagingRest
    /\ IF part = "discovery" THEN TRUE ELSE DiscoveryRest
    /\ CandlesInit /\ TradesInit /\ OracleInit /\ LoopInit /\ PagingInit /\ DiscoveryInit /\ FeedsInit
    /\ path \notin Scripts => opts = MCNoOptions

ingestVars == <<candleVars, tradeVars, oracleVars, loopVars, pagingVars, discoveryVars>>
marketDataVars == <<part, ingestVars, feedVars>>

Only(p) == part = p /\ UNCHANGED part

MarketDataNext ==
    \/ /\ Only("candles") /\ CandlesNext
       /\ UNCHANGED <<tradeVars, oracleVars, loopVars, pagingVars, discoveryVars, feedVars>>
    \/ /\ Only("trades") /\ TradesNext
       /\ UNCHANGED <<candleVars, oracleVars, loopVars, pagingVars, discoveryVars, feedVars>>
    \/ /\ Only("chainlink") /\ ChainlinkPoll
       /\ UNCHANGED <<candleVars, tradeVars, loopVars, pagingVars, discoveryVars, feedVars>>
    \/ /\ Only("clusters") /\ ClustersNext
       /\ UNCHANGED <<candleVars, tradeVars, loopVars, pagingVars, discoveryVars, feedVars>>
    \/ /\ Only("loop") /\ LoopNext
       /\ UNCHANGED <<candleVars, tradeVars, oracleVars, pagingVars, discoveryVars, feedVars>>
    \/ /\ Only("paging") /\ PagingNext
       /\ UNCHANGED <<candleVars, tradeVars, oracleVars, loopVars, discoveryVars, feedVars>>
    \/ /\ Only("discovery") /\ DiscoveryNext
       /\ UNCHANGED <<candleVars, tradeVars, oracleVars, loopVars, pagingVars, feedVars>>
    \/ /\ Only("feeds") /\ FeedsNext
       /\ UNCHANGED ingestVars

\* A part at rest owes nothing: fairness is that of the part followed.
MarketDataSpec ==
    /\ MarketDataInit /\ [][MarketDataNext]_marketDataVars
    /\ CandlesFairness
    /\ WF_feedVars(part = "feeds" /\ ConnectClob) /\ WF_feedVars(part = "feeds" /\ DiffSubscribe)

-----------------------------------------------------------------------------
\* Through crashes of the loop and of its queries, every open market is in a
\* running price stream, and the ingestor gives up, or loses track of a stream,
\* only after as many failures as _guarded allows.
MarketsStreamed == OpenMarketsStreamed /\ SupervisionSound

\* No page border loses a trade or a market while the list grows under the
\* offsets of backfill_market_trades, _fetch_window and discovery.
FetchersSkipNothing == PagesLoseNothing /\ DiscoveryComplete

\* Nothing received goes unaccounted and nothing is counted twice: trades are
\* rows, buffered or lost in bounded number with a connection; a liquidation
\* bar has one row; the manifest names only data that is there; a stretch of
\* stale oracle answers is reported once.
RowsAccounted == TradeLossBounded /\ ClustersSound /\ ManifestBacked /\ StaleAlertExact
=============================================================================
