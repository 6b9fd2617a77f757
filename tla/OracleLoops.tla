---------------------------- MODULE OracleLoops ----------------------------
(***************************************************************************)
(* The two polling loops of the ingestor.                                  *)
(*                                                                         *)
(* run_chainlink_loop stores each answer and raises one alert when the     *)
(* feed stays stale for MaxStaleStreak answers.                            *)
(*                                                                         *)
(* run_liquidation_loop polls the last LookBack minutes of liquidation     *)
(* bars and stores each at a price: the bar's own if the answer has one,   *)
(* else the Binance close of its minute, or of up to SpotWalk minutes      *)
(* before.  The price is part of the key.  scripts/backfill_coinalyze      *)
(* writes the same table, but updates rows and ignores a bar's own price.  *)
(* Amounts are reduced to whether the bar was complete when read, closes   *)
(* to their minute; a bar's own price may move until the bar is complete.  *)
(***************************************************************************)
EXTENDS Integers, FiniteSets, FiniteSetsExt

CONSTANTS MaxStaleStreak,  \* 5
          MaxPolls,        \* bound of the polls
          LookBack,        \* 300 s, in minutes
          SpotWalk,        \* 5 minutes
          Quoted,          \* bars that come with a price of their own
          LastMinute       \* bound of the clock

ASSUME OracleAssumption ==
    /\ {MaxStaleStreak, MaxPolls, LookBack, SpotWalk, LastMinute} \subseteq Nat
    /\ MaxStaleStreak > 0

VARIABLES streak, fired,   \* stale_streak, stale_alert_fired
          polls,           \* polls so far
          staleRun,        \* history: stale answers since the last fresh one
          alerts,          \* history: alerts since the last fresh answer
          minute,          \* the clock of the liquidation loop
          closes,          \* minutes whose Binance close is stored
          clusters,        \* rows: [<<bar, price>> -> complete?]
          early,           \* history: bars read while their price was not settled
          repaired         \* history: bars the script has gone over

chainVars == <<streak, fired, polls, staleRun, alerts>>
liqVars == <<minute, closes, clusters, early, repaired>>
oracleVars == <<chainVars, liqVars>>

OracleInit ==
    /\ streak = 0 /\ fired = FALSE /\ polls = 0 /\ staleRun = 0 /\ alerts = 0
    /\ minute = 0 /\ closes = {} /\ clusters = << >> /\ early = {} /\ repaired = {}

\* An answer.  No answer and an exception change nothing (a poll is counted).
ChainlinkPoll ==
    /\ polls < MaxPolls /\ polls' = polls + 1
    /\ \/ /\ streak' = streak + 1 /\ staleRun' = staleRun + 1
          /\ fired' = (fired \/ streak' >= MaxStaleStreak)
          /\ alerts' = alerts + IF fired' /\ ~fired THEN 1 ELSE 0
       \/ streak' = 0 /\ fired' = FALSE /\ staleRun' = 0 /\ alerts' = 0
       \/ UNCHANGED <<streak, fired, staleRun, alerts>>
    /\ UNCHANGED liqVars

-----------------------------------------------------------------------------
\* _btc_closes_for_window
WindowCloses(since, until) == {m \in closes : since - SpotWalk <= m /\ m <= until}

\* _spot_for_bar: the minutes that can price the bar; the nearest one does.
SpotMinutes(S, bar) == {m \in S : bar - SpotWalk <= m /\ m <= bar}

Complete(bar) == bar < minute
Bars(since, until) == {b \in 0 .. minute : since <= b /\ b <= until}

\* A bar's own price, final or still moving, told from any close.
OwnPrice(bar) == IF Complete(bar) THEN -1 ELSE -2

\* The rows' keys for the bars of a window, priced by closes alone.
SpotKeys(bars, S) ==
    {<<b, Max(SpotMinutes(S, b))>> : b \in {b \in bars : SpotMinutes(S, b) # {}}}

\* _expand_bars_to_clusters: a bar's own price comes first.
ExpandBars(bars, S) ==
    {<<b, OwnPrice(b)>> : b \in bars \intersect Quoted} \union SpotKeys(bars \ Quoted, S)

\* A round of run_liquidation_loop: DO NOTHING on (symbol, side, price, ts).
\* A failed query of the closes leaves it without any.
LiquidationPoll ==
    \E S \in {WindowCloses(minute - LookBack, minute), {}} :
       LET bars == Bars(minute - LookBack, minute)
           keys == ExpandBars(bars, S)
       IN /\ clusters' = [k \in DOMAIN clusters \union keys |->
                            IF k \in DOMAIN clusters THEN clusters[k] ELSE Complete(k[1])]
          /\ early' = early \union {b \in bars : IF b \in Quoted THEN ~Complete(b) ELSE b \notin closes}
          /\ UNCHANGED <<chainVars, minute, closes, repaired>>

\* The script, chunk by chunk over a range: DO UPDATE on the same key, which
\* for a bar with its own price is not that of the loop's row.
BackfillClusters ==
    \E since, until \in 0 .. minute :
       LET bars == Bars(since, until)
           keys == SpotKeys(bars, WindowCloses(since, until))
       IN /\ since < until
          /\ clusters' = [k \in DOMAIN clusters \union keys |->
                            IF k \in keys THEN Complete(k[1]) ELSE clusters[k]]
          /\ early' = early \union {b \in bars : b \in Quoted \/ b \notin closes}
          /\ repaired' = repaired \union {b \in bars : b \in closes /\ Complete(b)}
          /\ UNCHANGED <<chainVars, minute, closes>>

\* A minute passes; its candle is ingested in time, late, or never.
Minute ==
    /\ minute < LastMinute /\ minute' = minute + 1
    /\ UNCHANGED <<chainVars, closes, clusters, early, repaired>>
StoreClose ==
    /\ \E m \in 0 .. minute : m \notin closes /\ closes' = closes \union {m}
    /\ UNCHANGED <<chainVars, minute, clusters, early, repaired>>

ClustersNext == LiquidationPoll \/ BackfillClusters \/ Minute \/ StoreClose
OracleNext == ChainlinkPoll \/ ClustersNext

OracleSpec == OracleInit /\ [][OracleNext]_oracleVars

-----------------------------------------------------------------------------
\* A stale feed is reported once for every stretch of stale answers that gets
\* long enough, however many polls fail in between.
StaleAlertExact == alerts = IF staleRun >= MaxStaleStreak THEN 1 ELSE 0

RowsOf(bar) == {k \in DOMAIN clusters : k[1] = bar}

\* A liquidation bar is not counted twice, though it is polled several times
\* while candles arrive, unless it was read before its own candle was there, or
\* brings its own price and was read while open or by the script as well; and
\* going over a bar with the script leaves its full amount.
ClustersSound ==
    /\ \A b \in 0 .. minute : b \notin early => Cardinality(RowsOf(b)) <= 1
    /\ \A b \in repaired : clusters[<<b, b>>]
=============================================================================
