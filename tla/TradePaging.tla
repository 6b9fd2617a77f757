---------------------------- MODULE TradePaging ----------------------------
(***************************************************************************)
(* Two ways of paging through trades.                                      *)
(*                                                                         *)
(* "data_api": PolymarketAdapter.backfill_market_trades pages by offset    *)
(* through a list that is newest first and grows while it is read.         *)
(*                                                                         *)
(* "agg": scripts/backfill_binance_aggtrades asks for a time window first  *)
(* and then by trade id, where the answer is not cut to the window.        *)
(*                                                                         *)
(* A trade is its place on the tape, oldest first; its key in the table    *)
(* (hash or id) is taken to tell trades apart.  PagingInit chooses how and  *)
(* on which tape.                                                          *)
(*                                                                         *)
(* Definitions named Bug... are faulty variants of the definition below    *)
(* them, kept to show that the properties can fail.                        *)
(***************************************************************************)
EXTENDS Naturals, Sequences, FiniteSets

CONSTANTS TradePage,      \* page_size 500, LIMIT 1000
          MaxTape,        \* bound of the tape
          WinStart, WinEnd, LastStamp, \* the window, and the last time stamp
          MaxFetchErrs

ASSUME PagingAssumption ==
    /\ {TradePage, MaxTape, WinStart, WinEnd, LastStamp, MaxFetchErrs} \subseteq Nat
    /\ TradePage > 0

VARIABLES how, stamps,    \* chosen by PagingInit; stamps[i] is the time of trade i
          fetching,       \* where the call is
          offset, fromId, \* the two cursors, 0 for none
          gathered,       \* rows inserted, or collected in out
          first,          \* history: trades on the tape when the call began
          refused,        \* history: a page was answered with an odd status
          fetchErrs

pagingVars == <<how, stamps, fetching, offset, fromId, gathered, first, refused, fetchErrs>>

Tape == DOMAIN stamps
Rising(s) == \A i \in 1 .. Len(s) - 1 : s[i] <= s[i + 1]

PagingInit ==
    /\ how \in {"data_api", "agg"}
    /\ stamps \in {s \in UNION {[1 .. n -> 0 .. LastStamp] : n \in 0 .. MaxTape} : Rising(s)}
    /\ fetching = "page" /\ offset = 0 /\ fromId = 0
    /\ gathered = {} /\ first = Tape /\ refused = FALSE /\ fetchErrs = 0

\* A trade happens while the pages are read.
NewTrade ==
    /\ how = "data_api" /\ fetching = "page" /\ Len(stamps) < MaxTape
    /\ stamps' = Append(stamps, LastStamp)
    /\ UNCHANGED <<how, fetching, offset, fromId, gathered, first, refused, fetchErrs>>

\* _fetch_trades_page: rows offset+1 .. offset+TradePage counted from the newest.
FetchTradesPage ==
    {i \in Tape : LET rank == Len(stamps) + 1 - i
                  IN offset < rank /\ rank <= offset + TradePage}

\* backfill_market_trades
BugBackfillMarketTrades ==
    /\ how = "data_api" /\ fetching = "page"
    /\ gathered' = gathered \union FetchTradesPage
    /\ offset' = offset + TradePage + 1
    /\ fetching' = IF Cardinality(FetchTradesPage) < TradePage THEN "done" ELSE "page"
    /\ UNCHANGED <<how, stamps, fromId, first, refused, fetchErrs>>
BackfillMarketTrades ==
    /\ how = "data_api" /\ fetching = "page"
    /\ gathered' = gathered \union FetchTradesPage
    /\ offset' = offset + TradePage
    /\ fetching' = IF Cardinality(FetchTradesPage) < TradePage THEN "done" ELSE "page"
    /\ UNCHANGED <<how, stamps, fromId, first, refused, fetchErrs>>

\* Any status but 200, 429 and 5xx is read as an empty page: the end of the list.
EmptyForRefused ==
    /\ how = "data_api" /\ fetching = "page"
    /\ fetching' = "done" /\ refused' = TRUE
    /\ UNCHANGED <<how, stamps, offset, fromId, gathered, first, fetchErrs>>

-----------------------------------------------------------------------------
InWindow(i) == WinStart <= stamps[i] /\ stamps[i] <= WinEnd
Lowest(S) == {i \in S : Cardinality({j \in S : j < i}) < TradePage}
LastOf(S) == CHOOSE i \in S : \A j \in S : j <= i

AggAnswer == Lowest({i \in Tape : IF fromId = 0 THEN InWindow(i) ELSE i >= fromId})

\* _fetch_window: an answer by id is clipped; a short answer, an empty clip or
\* a last trade at the end of the window ends the loop.
FetchWindow ==
    /\ how = "agg" /\ fetching = "page"
    /\ LET batch == {i \in AggAnswer : InWindow(i)}
       IN /\ gathered' = gathered \union batch
          /\ IF batch = {} \/ Cardinality(AggAnswer) < TradePage \/ stamps[LastOf(batch)] >= WinEnd
             THEN fetching' = "done" /\ UNCHANGED fromId
             ELSE fromId' = LastOf(batch) + 1 /\ UNCHANGED fetching
    /\ UNCHANGED <<how, stamps, offset, first, refused, fetchErrs>>

\* A failed request: the adapter raises after five attempts, the script keeps
\* what it has and goes on to the next market.
FetchFails ==
    /\ fetching = "page" /\ fetchErrs < MaxFetchErrs
    /\ fetchErrs' = fetchErrs + 1
    /\ fetching' = "failed"
    /\ UNCHANGED <<how, stamps, offset, fromId, gathered, first, refused>>

PagingNext == NewTrade \/ BackfillMarketTrades \/ EmptyForRefused \/ FetchWindow \/ FetchFails

PagingSpec == PagingInit /\ [][PagingNext]_pagingVars

-----------------------------------------------------------------------------
\* By offset: a page never leaves a hole behind it, whatever the list grows by,
\* whatever fails; a call that ends has all of them unless a page was refused.
\* By id: the trades of the window, whichever of the two requests brought them.
\* (Trades in the last millisecond of a window may be cut off.)
PagesLoseNothing ==
    IF how = "data_api"
    THEN /\ \A i \in gathered, j \in first : i <= j => j \in gathered
         /\ fetching = "done" /\ ~refused => first \subseteq gathered
    ELSE fetching = "done" =>
            /\ {i \in Tape : InWindow(i) /\ stamps[i] < WinEnd} \subseteq gathered
            /\ \A i \in gathered : InWindow(i)

\* "Fetch all historical trades for `condition_id`" (polymarket/adapter.py:614):
\* a call that ends without an exception has fetched them.
AllTradesFetched == how = "data_api" /\ fetching = "done" => first \subseteq gathered
=============================================================================
