------------------------------- MODULE Feeds -------------------------------
(***************************************************************************)
(* The live feeds of the engine process: socket tasks, the market          *)
(* refresher and the tick recorder, which share a FeedState.  The third    *)
(* socket, Chainlink's, only writes a price that ticks carry along.        *)
(*                                                                         *)
(* A task runs from one await to the next without interruption, and no one *)
(* awaits anything while holding state.lock, so each block under the lock  *)
(* is one step.  A spot price is the time at which it arrived.  A market's *)
(* two tokens are always added, subscribed and dropped together, so the    *)
(* token maps are identified with the market.                              *)
(*                                                                         *)
(* The recorder keeps references to MarketMeta records over its awaits;    *)
(* the refresher replaces the records.  held is what the recorder sees,    *)
(* detached the markets whose record is no longer the one in the state.    *)
(*                                                                         *)
(* Definitions named Bug... are faulty variants of the definition below    *)
(* them, kept to show that the properties can fail.                        *)
(***************************************************************************)
EXTENDS Naturals, FiniteSets, Functions

CONSTANTS
    FMarkets, Closes,     \* markets and their window_close_ts
    Series1, Series2,     \* the two 5m series; the other markets are 15m
    Window,               \* _window_seconds_for_slug, per market
    LeadTime, CaptureTime,\* WINDOW_OPEN_LEAD_S, 5 s
    GraceTime,            \* 300 s after the close a market is forgotten
    PagesPerRefresh,      \* GLOBAL_15M_PAGES_PER_REFRESH
    FeedEnd, MaxFeedDrops, MaxRefreshErrs, MaxRefreshes \* bounds

ASSUME FeedsAssumption ==
    /\ Closes \in [FMarkets -> Nat] /\ Window \in [FMarkets -> Nat]
    /\ Series1 \subseteq FMarkets /\ Series2 \subseteq FMarkets
    /\ {LeadTime, CaptureTime, GraceTime, PagesPerRefresh} \subseteq Nat
    /\ {FeedEnd, MaxFeedDrops, MaxRefreshErrs, MaxRefreshes} \subseteq Nat

VARIABLES
    fnow,
    linked,        \* sockets that are connected
    spot,  \* spot_ts, 0 before the first message
    registry,      \* state.markets: [condition ids -> records]
    books,         \* condition ids with a book
    subscribed,    \* known_tokens of the connection
    served,        \* what the venue's side of the connection sends
    refresher,     \* "sleep" or the request the refresher waits for
    rpage,         \* page of the 15m scan
    recorder,      \* "wait" or "round"
    lastSpot,      \* last_spot_ts
    rnow, rspot,   \* now and feed_snapshot["spot"] of the round
    held, detached, todoTicks, heldBooks,
    opens,         \* history: [market -> nonzero open prices published]
    raced,         \* history: markets captured on a detached record
    fdrops, refreshErrs, refreshes

stateVars == <<spot, registry, books>>
clobVars == <<linked, subscribed, served>>
refreshVars == <<refresher, rpage, refreshErrs, refreshes>>
roundVars == <<recorder, lastSpot, rnow, rspot, held, todoTicks, heldBooks, opens, raced>>
feedVars == <<fnow, stateVars, clobVars, refreshVars, roundVars, detached, fdrops>>

FeedsInit ==
    /\ fnow = 1 /\ linked = {} /\ spot = 0
    /\ registry = << >> /\ books = {} /\ subscribed = {} /\ served = {}
    /\ refresher = "sleep" /\ rpage = 0
    /\ recorder = "wait" /\ lastSpot = 0 /\ rnow = 0 /\ rspot = 0
    /\ held = << >> /\ detached = {} /\ todoTicks = {} /\ heldBooks = {}
    /\ opens = [m \in FMarkets |-> {}] /\ raced = {}
    /\ fdrops = 0 /\ refreshErrs = 0 /\ refreshes = 0

Known == DOMAIN registry
Opening(m) == Closes[m] - Window[m]

-----------------------------------------------------------------------------
\* The socket tasks.  The backoff only delays a reconnection.
RunBinanceSpot ==
    /\ \/ "binance" \notin linked /\ linked' = linked \union {"binance"} /\ UNCHANGED spot
       \/ "binance" \in linked /\ spot < fnow /\ spot' = fnow /\ UNCHANGED linked
    /\ UNCHANGED <<fnow, registry, books, subscribed, served, refreshVars, roundVars, detached, fdrops>>

\* run_clob_l2 connects once there are tokens and subscribes to all of them.
BugConnectClob ==
    /\ "clob" \notin linked /\ Known # {}
    /\ linked' = linked \union {"clob"}
    /\ subscribed' = subscribed \union Known /\ served' = Known \ subscribed
    /\ UNCHANGED <<fnow, stateVars, refreshVars, roundVars, detached, fdrops>>
ConnectClob ==
    /\ "clob" \notin linked /\ Known # {}
    /\ linked' = linked \union {"clob"}
    /\ subscribed' = Known /\ served' = Known
    /\ UNCHANGED <<fnow, stateVars, refreshVars, roundVars, detached, fdrops>>

\* _diff_subscribe_loop
DiffSubscribe ==
    /\ "clob" \in linked /\ Known \ subscribed # {}
    /\ served' = served \union (Known \ subscribed)
    /\ subscribed' = subscribed \union Known
    /\ UNCHANGED <<fnow, stateVars, linked, refreshVars, roundVars, detached, fdrops>>

\* _apply_clob_event: an event of a token that is no longer known is ignored.
BugApplyClobEvent ==
    /\ "clob" \in linked
    /\ \E m \in served : m \notin books /\ books' = books \union {m}
    /\ UNCHANGED <<fnow, clobVars, spot, registry, refreshVars, roundVars, detached, fdrops>>
ApplyClobEvent ==
    /\ "clob" \in linked
    /\ \E m \in served \intersect Known : m \notin books /\ books' = books \union {m}
    /\ UNCHANGED <<fnow, clobVars, spot, registry, refreshVars, roundVars, detached, fdrops>>

\* A socket fails, in the reader or in the subscriber; both end.
FeedDrop ==
    /\ fdrops < MaxFeedDrops /\ fdrops' = fdrops + 1
    /\ \E s \in linked :
          /\ linked' = linked \ {s}
          /\ served' = IF s = "clob" THEN {} ELSE served
    /\ UNCHANGED <<fnow, stateVars, subscribed, refreshVars, roundVars, detached>>

-----------------------------------------------------------------------------
\* refresh_markets_loop: series 1, series 2, then pages of all events.
StartRefresh ==
    /\ refresher = "sleep" /\ refreshes < MaxRefreshes
    /\ refresher' = "series1" /\ refreshes' = refreshes + 1
    /\ UNCHANGED <<fnow, stateVars, clobVars, rpage, refreshErrs, roundVars, detached, fdrops>>

NewRecord == [open |-> 0, captured |-> FALSE]

\* The records for the markets of an answer: new ones, or copies of the old.
WithRecords(S) ==
    [m \in Known \union S |-> IF m \in Known THEN registry[m] ELSE NewRecord]

\* Markets are listed long before they open; those past their close are skipped.
Upcoming(S) == {m \in S : Closes[m] > fnow}

\* _refresh_once_5m_series, with the markets past their grace dropped.
RefreshSeries(S) ==
    LET records == WithRecords(Upcoming(S))
        kept == {m \in DOMAIN records : Closes[m] + GraceTime >= fnow}
    IN /\ registry' = Restrict(records, kept)
       /\ books' = books \intersect kept
       /\ detached' = (detached \union Upcoming(S) \union (Known \ kept)) \intersect DOMAIN held

\* _refresh_once: an error in the first series also skips the second.
RefreshOnce ==
    /\ \/ /\ refresher = "series1"
          /\ RefreshSeries(Series1) /\ refresher' = "series2" /\ UNCHANGED refreshErrs
       \/ /\ refresher = "series2"
          /\ RefreshSeries(Series2) /\ refresher' = "pages" /\ UNCHANGED refreshErrs
       \/ /\ refresher \in {"series1", "series2"} /\ refreshErrs < MaxRefreshErrs
          /\ refreshErrs' = refreshErrs + 1 /\ refresher' = "pages"
          /\ UNCHANGED <<registry, books, detached>>
    /\ rpage' = 0
    /\ UNCHANGED <<fnow, spot, clobVars, refreshes, roundVars, fdrops>>

\* _refresh_once_15m: what a page holds is up to the venue; an error or an
\* empty page ends the scan.
RefreshOnce15m ==
    /\ refresher = "pages"
    /\ \/ /\ rpage < PagesPerRefresh /\ rpage' = rpage + 1
          /\ \E S \in SUBSET Upcoming(FMarkets \ (Series1 \union Series2)) :
                /\ registry' = WithRecords(S)
                /\ detached' = detached \union (S \intersect DOMAIN held)
          /\ UNCHANGED refresher
       \/ refresher' = "sleep" /\ UNCHANGED <<registry, detached, rpage>>
    /\ UNCHANGED <<fnow, spot, books, clobVars, refreshErrs, refreshes, roundVars, fdrops>>

-----------------------------------------------------------------------------
\* TickRecorder.run: a new spot price starts a round on the markets around
\* their window.
StartRound ==
    /\ recorder = "wait" /\ spot > lastSpot
    /\ recorder' = "round" /\ lastSpot' = spot /\ rnow' = fnow /\ rspot' = spot
    /\ LET inWindow == {m \in Known : Opening(m) <= fnow + LeadTime /\ fnow < Closes[m]}
       IN held' = Restrict(registry, inWindow) /\ todoTicks' = inWindow
    /\ heldBooks' = books /\ detached' = {}
    /\ UNCHANGED <<fnow, stateVars, clobVars, refreshVars, opens, raced, fdrops>>

\* Whether the round takes the open price of m now.
BugCaptures(m) == rnow >= Opening(m) /\ rnow <= Opening(m) + CaptureTime
Captures(m) == ~held[m].captured /\ rnow >= Opening(m) /\ rnow <= Opening(m) + CaptureTime

\* One market of the round, up to the await of its publication.
RecordMarket ==
    /\ recorder = "round"
    /\ \E m \in todoTicks :
          LET record == IF Captures(m) THEN [open |-> rspot, captured |-> TRUE] ELSE held[m]
          IN /\ todoTicks' = todoTicks \ {m}
             /\ IF m \in heldBooks
                THEN /\ held' = [held EXCEPT ![m] = record]
                     /\ registry' = IF m \in detached THEN registry ELSE [registry EXCEPT ![m] = record]
                     /\ opens' = [opens EXCEPT ![m] = @ \union ({record.open} \ {0})]
                     /\ raced' = raced \union {n \in detached : n = m /\ Captures(n)}
                ELSE UNCHANGED <<held, registry, opens, raced>>
    /\ UNCHANGED <<fnow, spot, books, clobVars, refreshVars, recorder, lastSpot, rnow, rspot, heldBooks, detached, fdrops>>

\* The rows are inserted, or that fails; either way the round is over.
EndRound ==
    /\ recorder = "round" /\ todoTicks = {} /\ recorder' = "wait"
    /\ held' = << >> /\ detached' = {} /\ heldBooks' = {} /\ rnow' = 0 /\ rspot' = 0
    /\ UNCHANGED <<fnow, stateVars, clobVars, refreshVars, lastSpot, todoTicks, opens, raced, fdrops>>

FeedTick ==
    /\ fnow < FeedEnd /\ fnow' = fnow + 1
    /\ UNCHANGED <<stateVars, clobVars, refreshVars, roundVars, detached, fdrops>>

FeedsNext ==
    \/ RunBinanceSpot \/ ConnectClob \/ DiffSubscribe \/ ApplyClobEvent
    \/ FeedDrop \/ StartRefresh \/ RefreshOnce \/ RefreshOnce15m
    \/ StartRound \/ RecordMarket \/ EndRound \/ FeedTick

\* Each task is an infinite loop on the event loop; only messages may stay out.
FeedsSpec ==
    /\ FeedsInit /\ [][FeedsNext]_feedVars
    /\ WF_feedVars(ConnectClob) /\ WF_feedVars(DiffSubscribe)

-----------------------------------------------------------------------------
\* All ticks of a market that carry an opening price carry the same one, a
\* spot price current in the first CaptureTime seconds of its window, however
\* often the refresher rewrites the market's record, unless it did so between
\* the start of the round and the capture.
OpenPriceStable ==
    \A m \in FMarkets :
       /\ m \notin raced => Cardinality(opens[m]) <= 1
       /\ \A p \in opens[m] : p <= Opening(m) + CaptureTime
       /\ m \in Known \ raced /\ opens[m] # {} => registry[m].open \in opens[m]

\* Books are kept only for markets that can be dropped with them: no event
\* that arrives late brings back the book of a market that is forgotten.
BooksOfKnownMarkets == books \subseteq Known

\* Once the socket stops failing, every market that is discovered gets its
\* events over the current connection, whenever it was found and however often
\* the connection was made again.
FeedsRecover == \A m \in FMarkets : m \in Known ~> (m \in served \/ m \notin Known)
=============================================================================
