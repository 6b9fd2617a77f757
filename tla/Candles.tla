------------------------------ MODULE Candles ------------------------------
(***************************************************************************)
(* market_data.crypto_ohlcv and its two writers: backfill_ohlcv of each    *)
(* adapter, run from cli/backfill, and the candle streams of the ingestor. *)
(* Both insert with ON CONFLICT DO NOTHING, so the first value written for *)
(* a candle is the one that stays.                                         *)
(*                                                                         *)
(* Time is counted in ticks, CandleTicks to a candle, so that the "+ 1" of *)
(* an empty page is less than a candle.  The venue, the candles the        *)
(* exchange has (it has none for an interval without trades) and the       *)
(* arguments of the backfill never change; Init chooses them.  A range may *)
(* end in the future, when the candle in progress is fetched unfinished.   *)
(*                                                                         *)
(* Definitions named Bug... are faulty variants of the definition below    *)
(* them, kept to show that the properties can fail.                        *)
(***************************************************************************)
EXTENDS Integers, FiniteSets, FiniteSetsExt, VenueMessages

CONSTANTS
    CandleTicks,      \* INTERVAL_MS, INTERVAL_S
    PageCandles,      \* candles of a page: 1000 (720, 300 on Kraken, OKX)
    Listings,         \* the sets of candles considered, each by its opening time
    Froms, Tos,       \* --from, --to
    LastTick,         \* bound of the clock
    MaxPageErrs       \* pages that fail in spite of the retries

ASSUME CandlesAssumption ==
    /\ CandleTicks \in Nat \ {0} /\ PageCandles \in Nat \ {0}
    /\ LastTick \in Nat /\ MaxPageErrs \in Nat
    /\ Froms \subseteq Nat /\ Tos \subseteq Nat /\ Listings \subseteq SUBSET Nat
    /\ \A S \in Listings : \A t, u \in S : t < u => t + CandleTicks <= u

VARIABLES venue, listed, from, to, \* chosen by Init
          keeps,                   \* so is what Kraken leaves of a long list
          clock,
          bf,                      \* where the backfill is
          began,                   \* history: when it was first started
          cursor, ohlcv, pageErrs

chosen == <<venue, listed, from, to, keeps>>
candleVars == <<chosen, clock, bf, began, cursor, ohlcv, pageErrs>>

Closed(t) == clock >= t + CandleTicks
Value(t) == IF Closed(t) THEN "final" ELSE "partial"
Opened == {t \in listed : t <= clock}

CandlesInit ==
    /\ venue \in Venues /\ listed \in Listings /\ from \in Froms /\ to \in Tos
    /\ keeps \in IF venue = "kraken" THEN {"oldest", "newest"} ELSE {"oldest"}
    /\ clock = 0 /\ bf = "idle" /\ began = 0 /\ cursor = 0 /\ pageErrs = 0
    /\ ohlcv = [t \in listed |-> "none"]

\* upsert_many, and bulk_upsert_via_copy without and with update_columns.
UpsertMany(table, S) ==
    [t \in DOMAIN table |-> IF t \in S /\ table[t] = "none" THEN Value(t) ELSE table[t]]
BulkUpsertViaCopy(table, S, update) ==
    [t \in DOMAIN table |->
       IF t \in S /\ (update \/ table[t] = "none") THEN Value(t) ELSE table[t]]

-----------------------------------------------------------------------------
\* The REST pages.  What an exchange leaves out when a page is full is
\* external.  Binance and Bybit are asked for a range that holds one candle
\* more than the page, both ends included: Binance answers with the oldest,
\* Bybit lists the newest first (bybit/adapter.py:96).  A Coinbase range fits
\* its page.  Kraken is asked for all since a time, and nothing in the adapter
\* says which rows of a longer list it gets.
Oldest(S) == {t \in S : Cardinality({u \in S : u < t}) < PageCandles}
Newest(S) == {t \in S : Cardinality({u \in S : u > t}) < PageCandles}

BinanceKlinesPage(start, end) == Oldest({t \in Opened : start <= t /\ t <= end})
BybitKlinesPage(start, end) == Newest({t \in Opened : start <= t /\ t <= end})
CoinbaseCandlesPage(start, end) == {t \in Opened : start <= t /\ t <= end}
OkxCandlesPage(before) == Newest({t \in Opened : t < before})
KrakenOhlcPage(since) ==
    LET rows == {t \in Opened : since <= t}
    IN IF keeps = "oldest" THEN Oldest(rows) ELSE Newest(rows)

\* Where the next page begins, and whether there is one.
MoveTo(c, more) == cursor' = c /\ bf' = IF more THEN "page" ELSE "done"

PageEnd == Min({cursor + PageCandles * CandleTicks, to})

\* The loop body that Binance, Bybit and Coinbase share.
WalkForward(page, end) ==
    LET next == IF page = {} THEN end + 1 ELSE Max(page) + CandleTicks
    IN MoveTo(next, next < to)

\* cli/backfill: a run, or another one with the same arguments after a failure.
BackfillStart ==
    /\ bf \in {"idle", "failed"}
    /\ began' = IF bf = "idle" THEN clock ELSE began
    /\ MoveTo(IF venue = "okx" THEN to ELSE from, from < to)
    /\ UNCHANGED <<chosen, clock, ohlcv, pageErrs>>

BugBinanceBackfill ==
    /\ venue = "binance" /\ bf = "page"
    /\ LET page == BinanceKlinesPage(cursor, PageEnd)
       IN /\ ohlcv' = BulkUpsertViaCopy(ohlcv, page, FALSE)
          /\ IF page = {} THEN UNCHANGED <<cursor, bf>> ELSE WalkForward(page, PageEnd)
    /\ UNCHANGED <<chosen, clock, began, pageErrs>>
BinanceBackfill ==
    /\ venue = "binance" /\ bf = "page"
    /\ LET page == BinanceKlinesPage(cursor, PageEnd)
       IN /\ ohlcv' = BulkUpsertViaCopy(ohlcv, page, FALSE)
          /\ WalkForward(page, PageEnd)
    /\ UNCHANGED <<chosen, clock, began, pageErrs>>

BybitBackfill ==
    /\ venue = "bybit" /\ bf = "page"
    /\ LET page == BybitKlinesPage(cursor, PageEnd)
       IN ohlcv' = UpsertMany(ohlcv, page) /\ WalkForward(page, PageEnd)
    /\ UNCHANGED <<chosen, clock, began, pageErrs>>

CoinbaseBackfill ==
    /\ venue = "coinbase" /\ bf = "page"
    /\ LET page == CoinbaseCandlesPage(cursor, PageEnd)
       IN ohlcv' = UpsertMany(ohlcv, page) /\ WalkForward(page, PageEnd)
    /\ UNCHANGED <<chosen, clock, began, pageErrs>>

\* Newest first: the cursor goes down from the end.
OkxBackfill ==
    /\ venue = "okx" /\ bf = "page"
    /\ LET page == OkxCandlesPage(cursor)
           next == Min(page) - CandleTicks
       IN /\ ohlcv' = UpsertMany(ohlcv, {t \in page : t >= from})
          /\ IF page = {} \/ Min(page) >= cursor
             THEN bf' = "done" /\ UNCHANGED cursor
             ELSE MoveTo(next, next > from)
    /\ UNCHANGED <<chosen, clock, began, pageErrs>>

\* No end in the request: the rows are cut, and a page without progress ends it.
BugKrakenBackfill ==
    /\ venue = "kraken" /\ bf = "page"
    /\ LET page == KrakenOhlcPage(cursor)
       IN /\ ohlcv' = UpsertMany(ohlcv, {t \in page : cursor < t /\ t <= to})
          /\ IF page = {} \/ Max(page) <= cursor
             THEN bf' = "done" /\ UNCHANGED cursor
             ELSE MoveTo(Max(page) + CandleTicks, Max(page) + CandleTicks < to)
    /\ UNCHANGED <<chosen, clock, began, pageErrs>>
KrakenBackfill ==
    /\ venue = "kraken" /\ bf = "page"
    /\ LET page == KrakenOhlcPage(cursor)
       IN /\ ohlcv' = UpsertMany(ohlcv, {t \in page : cursor <= t /\ t <= to})
          /\ IF page = {} \/ Max(page) <= cursor
             THEN bf' = "done" /\ UNCHANGED cursor
             ELSE MoveTo(Max(page) + CandleTicks, Max(page) + CandleTicks < to)
    /\ UNCHANGED <<chosen, clock, began, pageErrs>>

Page == BinanceBackfill \/ BybitBackfill \/ CoinbaseBackfill \/ OkxBackfill \/ KrakenBackfill

\* A page or its insert raises after five attempts; earlier pages stay.
PageFails ==
    /\ bf = "page" /\ pageErrs < MaxPageErrs
    /\ pageErrs' = pageErrs + 1 /\ bf' = "failed"
    /\ UNCHANGED <<chosen, clock, began, cursor, ohlcv>>

-----------------------------------------------------------------------------
\* A message of the candle stream and the handler's insert.  One that is lost
\* with its connection, or whose insert fails, is simply not received.
StreamCandle ==
    /\ \E t \in Opened, kind \in CandleKinds \intersect Sends(venue) :
          /\ kind = "closed" <=> Closed(t)
          /\ clock <= t + CandleTicks
          /\ CandleStored(venue, kind)
          /\ ohlcv' = UpsertMany(ohlcv, {t})
    /\ ohlcv' # ohlcv
    /\ UNCHANGED <<chosen, clock, bf, began, cursor, pageErrs>>

CandleTick ==
    /\ clock < LastTick /\ clock' = clock + 1
    /\ UNCHANGED <<chosen, bf, began, cursor, ohlcv, pageErrs>>

CandlesNext == BackfillStart \/ Page \/ PageFails \/ StreamCandle \/ CandleTick

CandlesSpec == CandlesInit /\ [][CandlesNext]_candleVars
\* The loop of backfill_ohlcv runs on: nothing but its own requests stops it.
CandlesFairness == WF_candleVars(Page)

-----------------------------------------------------------------------------
\* The candles of the range that there were when the backfill was first run.
Wanted == {t \in listed : from <= t /\ t < to /\ t <= began}

\* What a page may lose: on OKX the candle next to an older end of a page; on
\* Bybit the first of a page whose range is full, never a second one after it;
\* on Kraken, if it keeps the newest rows, what is further back than a page.
Lost(t) ==
    \/ venue = "okx" /\ \E u \in listed : u > t /\ u - CandleTicks <= t /\ ohlcv[u] # "none"
    \/ /\ venue = "bybit"
       /\ Cardinality({u \in listed : /\ t < u /\ u <= t + PageCandles * CandleTicks
                                     /\ ohlcv[u] # "none"}) >= PageCandles
    \/ /\ venue = "kraken" /\ keeps = "newest"
       /\ Cardinality({u \in Opened : t < u}) >= PageCandles

\* A backfill that ends has stored every candle of its range but for those of
\* Lost, whatever gaps the exchange has, also when it was run again after a
\* failure, when its range ends in the future, and with the stream writing too.
BackfillComplete == bf = "done" => \A t \in Wanted : ohlcv[t] # "none" \/ Lost(t)

NoGap == bf = "done" => \A t \in Wanted : ohlcv[t] # "none"

\* Nothing is lost from OKX.  The adapter steps back by a whole candle and then
\* asks for rows older than that (okx/adapter.py:98, "exclusive"), which loses
\* one candle per page.
OkxLeavesNoGap == venue = "okx" => NoGap

\* Nothing is lost from Bybit.  The adapter asks for a range one candle longer
\* than the page and the oldest is left out, again one candle per page.
BybitLeavesNoGap == venue = "bybit" => NoGap

\* No value of an unfinished candle stays in the table, except for candles that
\* were in progress, or to come, when a backfill whose range they are in was
\* started, and on Kraken, whose updates are all inserted.
FinalUnlessOpen ==
    \A t \in listed : Closed(t) /\ ohlcv[t] = "partial" =>
       venue = "kraken" \/ (bf # "idle" /\ t <= to /\ began < t + CandleTicks)

\* No gap and no page makes the loop spin: a backfill comes to an end.
BackfillEnds == bf = "page" ~> bf \in {"done", "failed"}
=============================================================================
