-------------------------- MODULE MarketDiscovery --------------------------
(***************************************************************************)
(* How Polymarket markets get into the tables: discover_markets of the     *)
(* adapter and scripts/backfill_polymarket_initial, which enumerates a     *)
(* family itself, stores the markets, fetches prices and trades for each   *)
(* and writes research.market_manifest_polymarket.                         *)
(*                                                                         *)
(* An event is its end date; Gamma lists events by end date, latest first, *)
(* and new ones appear at the front while pages are read.  Family is the   *)
(* set of events with the slug asked for; a series lists only these.       *)
(* DiscoveryInit chooses the path, the family's events, the lookback and   *)
(* the script's options; any of the paths may be run again, the script     *)
(* with other options.                                                     *)
(***************************************************************************)
EXTENDS Naturals, FiniteSets, FiniteSetsExt

CONSTANTS LastEvent,       \* events are 1 .. LastEvent
          Families,        \* the events a family may have
          Options,         \* what the script may be called with; no limit is 0
          EventPage,       \* GAMMA_EVENTS_PAGE_SIZE
          PageCap,         \* GLOBAL_EVENTS_SAFETY_PAGE_CAP; 30 or 60 in the script
          MaxGammaErrs, MaxDiscoveries

Events == 1 .. LastEvent

ASSUME DiscoveryAssumption ==
    /\ LastEvent \in Nat /\ EventPage \in Nat \ {0} /\ PageCap \in Nat \ {0}
    /\ MaxGammaErrs \in Nat /\ MaxDiscoveries \in Nat /\ Families \subseteq SUBSET Events
    /\ Options \subseteq [metadata : BOOLEAN, prices : BOOLEAN, trades : BOOLEAN, limit : Nat]

VARIABLES
    path, Family, since,   \* chosen by DiscoveryInit
    opts,          \* the script's: phases not skipped, and the limit
    listing,       \* the latest event at Gamma, which has 1 .. listing
    stage, eoffset, page,
    out,           \* the script's list of markets
    markets,       \* polymarket_markets
    todo,          \* markets left in this phase of the script
    priced,        \* [markets -> tokens with rows in polymarket_prices_history]
    traded,        \* markets with rows in polymarket_trades
    manifest,      \* [markets -> their flags]
    discoveries,   \* runs begun
    atStart,       \* history: the listing at the start
    clean,         \* history: nothing skipped, unanswered or short in this run
    gammaErrs      \* failures, and answers without all their rows, so far

inputs == <<path, Family, since, opts, discoveries>>
tables == <<markets, priced, traded, manifest>>
discoveryVars ==
    <<inputs, listing, stage, eoffset, page, out, tables, todo, atStart, clean, gammaErrs>>

Scripts == {"script_5m", "script_15m"}

DiscoveryInit ==
    /\ path \in {"series", "global"} \union Scripts /\ Family \in Families /\ since \in Events
    /\ opts \in Options /\ clean = (opts.prices /\ opts.trades) /\ discoveries = 1
    /\ listing \in Events /\ atStart = 1 .. listing
    /\ stage = "page" /\ eoffset = 0 /\ page = 0 /\ out = {} /\ todo = {}
    /\ markets = {} /\ traded = {} /\ priced = [e \in Events |-> {}] /\ manifest = << >>
    /\ gammaErrs = 0

GammaFails == gammaErrs < MaxGammaErrs /\ gammaErrs' = gammaErrs + 1

\* The ingestor discovers again, or the operator calls the script again.
DiscoverAgain ==
    /\ stage \in {"done", "capped", "failed"} /\ discoveries < MaxDiscoveries
    /\ discoveries' = discoveries + 1
    /\ opts' \in (IF path \in Scripts THEN Options ELSE {opts}) /\ clean' = (opts'.prices /\ opts'.trades)
    /\ stage' = "page" /\ eoffset' = 0 /\ page' = 0 /\ out' = {} /\ todo' = {}
    /\ atStart' = 1 .. listing
    /\ UNCHANGED <<path, Family, since, listing, tables, gammaErrs>>

ListEvent ==
    /\ stage = "page" /\ listing < LastEvent
    /\ listing' = listing + 1
    /\ UNCHANGED <<inputs, stage, eoffset, page, out, tables, todo, atStart, clean, gammaErrs>>

\* The place of an event in the answer for S, latest first, and the page of
\* that answer at the offset.
Rank(S, e) == Cardinality({f \in S : f >= e})
PageOf(S) == {e \in S : eoffset < Rank(S, e) /\ Rank(S, e) <= eoffset + EventPage}

\* _fetch_events_page and _fetch_events_page_global
FetchEventsPage == PageOf((1 .. listing) \intersect Family)
FetchEventsPageGlobal == PageOf(1 .. listing)

\* _market_row_from_event: the slug decides
MarketRows(events) == events \intersect Family

\* _discover_via_series: pages until one reaches back beyond since.
DiscoverViaSeries ==
    /\ path = "series" /\ stage = "page"
    /\ LET events == FetchEventsPage
       IN /\ markets' = markets \union MarketRows(events)
          /\ eoffset' = eoffset + EventPage
          /\ stage' = IF events = {} \/ Min(events) < since THEN "done" ELSE "page"
    /\ UNCHANGED <<inputs, listing, page, out, priced, traded, manifest, todo, atStart, clean, gammaErrs>>

\* What ends the scan of all events, in both versions of it.
ScanEnds(events) ==
    events = {} \/ Min(events) < since \/ Cardinality(events) < EventPage

\* _discover_via_global_events: filtered here, bounded by the cap.
DiscoverViaGlobalEvents ==
    /\ path = "global" /\ stage = "page"
    /\ LET events == FetchEventsPageGlobal
       IN /\ markets' = markets \union MarketRows(events)
          /\ stage' = IF ScanEnds(events) THEN "done" ELSE IF page + 1 = PageCap THEN "capped" ELSE "page"
    /\ page' = page + 1 /\ eoffset' = page' * EventPage
    /\ UNCHANGED <<inputs, listing, out, priced, traded, manifest, todo, atStart, clean, gammaErrs>>

\* _enumerate of the script, and the limit once it ends: the first of a list
\* that is in Gamma's order.  Nothing is stored yet.
Enumerate ==
    /\ path \in Scripts /\ stage = "page"
    /\ LET events == IF path = "script_5m" THEN FetchEventsPage ELSE FetchEventsPageGlobal
           found == out \union MarketRows(events)
           ends == ScanEnds(events) \/ page + 1 = PageCap
       IN /\ out' = IF ends /\ opts.limit > 0 THEN {e \in found : Rank(found, e) <= opts.limit} ELSE found
          /\ stage' = IF ends THEN "metadata" ELSE "page"
    /\ page' = page + 1 /\ eoffset' = eoffset + EventPage
    /\ UNCHANGED <<inputs, listing, tables, todo, atStart, clean, gammaErrs>>

\* A page fails after its retries: discovery raises, the script returns 1.
PageError ==
    /\ stage = "page" /\ GammaFails /\ stage' = "failed"
    /\ UNCHANGED <<inputs, listing, eoffset, page, out, tables, todo, atStart, clean>>

\* Phase 1: the markets' rows, DO NOTHING on the condition id.
StoreMetadata ==
    /\ stage = "metadata" /\ stage' = "prices"
    /\ todo' = IF opts.prices THEN out ELSE {}
    /\ markets' = IF opts.metadata THEN markets \union out ELSE markets
    /\ UNCHANGED <<inputs, listing, eoffset, page, out, priced, traded, manifest, atStart, clean, gammaErrs>>

\* Phase 2: backfill_market_prices_history for a market: nothing without its
\* row; YES, then NO.  A side gets no rows, with no failure, where the history
\* is empty or refused, neither does where the market's row lacks its times or
\* a token; a failure in between keeps the first and is logged.
PriceHistory ==
    /\ stage = "prices"
    /\ \E m \in todo :
          /\ todo' = todo \ {m}
          /\ \/ /\ m \notin markets /\ clean' = FALSE
                /\ UNCHANGED <<priced, gammaErrs>>
             \/ /\ m \in markets /\ priced' = [priced EXCEPT ![m] = {"YES", "NO"}]
                /\ UNCHANGED <<clean, gammaErrs>>
             \/ /\ GammaFails /\ m \in markets /\ clean' = FALSE
                /\ \E kept \in {{}, {"YES"}, {"NO"}} : priced' = [priced EXCEPT ![m] = @ \union kept]
    /\ UNCHANGED <<inputs, listing, stage, eoffset, page, out, markets, traded, manifest, atStart>>

PricesDone ==
    /\ stage = "prices" /\ todo = {}
    /\ stage' = "trades" /\ todo' = IF opts.trades THEN out ELSE {}
    /\ UNCHANGED <<inputs, listing, eoffset, page, out, tables, atStart, clean, gammaErrs>>

\* Phase 3: backfill_market_trades for a market (its paging: TradePaging),
\* which asks for no row; a failure or a refused page may leave it with none.
Trades ==
    /\ stage = "trades"
    /\ \E m \in todo :
          /\ todo' = todo \ {m}
          /\ \/ traded' = traded \union {m} /\ UNCHANGED <<clean, gammaErrs>>
             \/ GammaFails /\ clean' = FALSE /\ traded' \in {traded, traded \union {m}}
    /\ UNCHANGED <<inputs, listing, stage, eoffset, page, out, markets, priced, manifest, atStart>>

\* Phase 4: the flags are counts of what is in the tables, written over those
\* of an earlier run.
WriteManifest ==
    /\ stage = "trades" /\ todo = {} /\ stage' = "done"
    /\ manifest' = [m \in out \union DOMAIN manifest |->
                       IF m \in out THEN [book |-> priced[m] # {}, trade |-> m \in traded]
                                    ELSE manifest[m]]
    /\ UNCHANGED <<inputs, listing, eoffset, page, out, markets, priced, traded, todo, atStart, clean, gammaErrs>>

\* The statement of phase 1 or 4 raises, or the script is stopped in a phase.
ScriptDies ==
    /\ stage \in {"metadata", "prices", "trades"} /\ GammaFails /\ stage' = "failed"
    /\ UNCHANGED <<inputs, listing, eoffset, page, out, tables, todo, atStart, clean>>

DiscoveryNext ==
    \/ ListEvent \/ DiscoverViaSeries \/ DiscoverViaGlobalEvents \/ Enumerate \/ PageError
    \/ StoreMetadata \/ PriceHistory \/ PricesDone \/ Trades \/ WriteManifest
    \/ ScriptDies \/ DiscoverAgain

DiscoverySpec == DiscoveryInit /\ [][DiscoveryNext]_discoveryVars

-----------------------------------------------------------------------------
\* Discovery that ends without hitting its cap has stored every market of the
\* family since the lookback that was listed when it began, although the
\* offsets shift under it; the script, called without a limit, has them in its
\* list.
DiscoveryComplete ==
    LET wanted == {e \in atStart : e \in Family /\ e >= since}
    IN /\ stage = "done" /\ path \notin Scripts => wanted \subseteq markets
       /\ stage \notin {"page", "failed"} /\ path \in Scripts /\ page < PageCap /\ opts.limit = 0 =>
             wanted \subseteq out

\* Over runs with any options, short answers and runs that die half way, the
\* manifest never promises data that is not there; and whatever earlier runs
\* left undone, after a run that skipped no prices or trades and got all of its
\* answers every market of its list has both and says so.
ManifestBacked ==
    /\ \A m \in DOMAIN manifest :
          (manifest[m].book => priced[m] # {}) /\ (manifest[m].trade => m \in traded)
    /\ path \in Scripts /\ stage = "done" /\ clean =>
          \A m \in out : /\ priced[m] = {"YES", "NO"} /\ m \in traded
                         /\ m \in DOMAIN manifest /\ manifest[m].book /\ manifest[m].trade
=============================================================================
