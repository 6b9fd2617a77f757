------------------------------ MODULE Backtest ------------------------------
(***************************************************************************)
(* run_backtest: the markets of a loader are replayed one after the other, *)
(* in the order of their first tick, against ONE RiskManager.  A market is *)
(* settled, and the manager told so with the market's close as its clock,  *)
(* before the first tick of the next market is looked at.                  *)
(*                                                                         *)
(* Prices are whole numbers and 0 is a missing one; a trade wins or loses  *)
(* one unit.  Both loaders supply settle prices, so the fallback to the    *)
(* last tick is left out.                                                  *)
(*                                                                         *)
(* Definitions named Bug... are faulty variants of the definition below    *)
(* them, kept to show that the properties can fail.                        *)
(***************************************************************************)
EXTENDS RiskManager, FiniteSets

CONSTANTS
    Tapes,          \* sets of markets: [open, close, ticks, strike, settle]
    EarliestEntry, LatestEntry, \* EntryWindowConfig
    Ranges          \* the from and to of a backtest

MarketType == [open : Nat, close : Nat, ticks : SUBSET Nat, strike : Nat, settle : Nat]

\* The entry window lies within a market's window and is over before the next
\* market has ticks, which is a few seconds before it opens.
ASSUME BacktestAssumption ==
    /\ EarliestEntry \in Nat /\ LatestEntry \in Nat /\ Ranges \subseteq Nat \X Nat
    /\ \A ms \in Tapes : /\ ms \subseteq MarketType
                         /\ \A m \in ms : m.open + LatestEntry <= m.close
                         /\ \A m, n \in ms : m.close <= n.open =>
                               \A t \in n.ticks : m.open + LatestEntry < t

Sides == {"YES_UP", "YES_DOWN"}

VARIABLES tape, range, bypass, \* what is replayed, from when to when, bypass_risk
          todo,      \* markets the loader has yet to yield
          market,    \* << >> or <<the market being replayed>>
          ticksLeft, \* its remaining ticks
          position, signalSeen, risk, btTrades

btVars == <<tape, range, bypass, todo, market, ticksLeft, position, signalSeen, risk, btTrades>>

Flat == [side |-> "none", ts |-> 0]

\* The ticks a query over a range returns.
InRange(m, r) == {t \in m.ticks : r[1] <= t /\ t <= r[2]}
FirstTick(m, r) == CHOOSE t \in InRange(m, r) : \A u \in InRange(m, r) : t <= u

\* iter_markets of both loaders: ascending by the first tick in the range.  What
\* comes next of the markets that are left; ties are in no order.
IterMarkets(ms, r) == {m \in ms : \A n \in ms : FirstTick(m, r) <= FirstTick(n, r)}

BacktestInit ==
    /\ tape \in Tapes /\ range \in Ranges /\ bypass \in BOOLEAN
    /\ todo = {m \in tape : InRange(m, range) # {}}
    /\ market = << >> /\ ticksLeft = {} /\ position = Flat /\ signalSeen = 0
    /\ risk = RiskInit /\ btTrades = << >>

\* The next market; one without a settle price is skipped.
NextMarket ==
    /\ market = << >>
    /\ \E m \in IterMarkets(todo, range) :
          /\ todo' = todo \ {m}
          /\ IF m.settle = 0 THEN UNCHANGED <<market, ticksLeft>>
             ELSE market' = <<m>> /\ ticksLeft' = InRange(m, range)
    /\ position' = Flat /\ signalSeen' = 0
    /\ UNCHANGED <<tape, range, bypass, risk, btTrades>>

\* Whether a tick is evaluated at all.
Evaluated(m, ts) ==
    position = Flat /\ EarliestEntry <= ts - m.open /\ ts - m.open <= LatestEntry

\* One tick, in their order: outside the entry window, refused by the risk manager, skipped by
\* the strategy or missed by the fill simulation it only passes; else it fills.
ReplayTick ==
    /\ market # << >>
    /\ \E ts \in ticksLeft :
          /\ \A u \in ticksLeft : ts <= u
          /\ ticksLeft' = ticksLeft \ {ts}
          /\ IF ~Evaluated(market[1], ts) THEN UNCHANGED <<risk, position, signalSeen>>
             ELSE /\ risk' = IF bypass THEN risk ELSE AfterCanEnter(risk, ts)
                  /\ \/ UNCHANGED <<position, signalSeen>>
                     \/ /\ bypass \/ RiskAllows(risk, ts)
                        /\ signalSeen' = IF signalSeen = 0 THEN ts ELSE signalSeen
                        /\ position' \in {position} \union {[side |-> s, ts |-> ts] : s \in Sides}
    /\ UNCHANGED <<tape, range, bypass, todo, market, btTrades>>

\* _won_market
Won(m, side) ==
    /\ m.strike > 0 /\ m.settle > 0
    /\ (side = "YES_UP") <=> m.settle >= m.strike

\* The end of a market: the trade, then on_trade_closed at the market's close.
BugCloseMarket ==
    /\ market # << >> /\ ticksLeft = {} /\ market' = << >>
    /\ IF position = Flat THEN UNCHANGED <<btTrades, risk>>
       ELSE LET win == Won(market[1], position.side) IN
            /\ btTrades' = Append(btTrades, [m |-> market[1], entry |-> position, win |-> win, seen |-> signalSeen])
            /\ risk' = OnTradeClosed(risk, IF win THEN 1 ELSE -1, position.ts)
    /\ UNCHANGED <<tape, range, bypass, todo, ticksLeft, position, signalSeen>>
CloseMarket ==
    /\ market # << >> /\ ticksLeft = {} /\ market' = << >>
    /\ IF position = Flat THEN UNCHANGED <<btTrades, risk>>
       ELSE LET win == Won(market[1], position.side) IN
            /\ btTrades' = Append(btTrades, [m |-> market[1], entry |-> position, win |-> win, seen |-> signalSeen])
            /\ risk' = IF bypass THEN risk
                       ELSE OnTradeClosed(risk, IF win THEN 1 ELSE -1, market[1].close)
    /\ UNCHANGED <<tape, range, bypass, todo, ticksLeft, position, signalSeen>>

BacktestNext == NextMarket \/ ReplayTick \/ CloseMarket

BacktestSpec == BacktestInit /\ [][BacktestNext]_btVars

-----------------------------------------------------------------------------
\* Windows that follow each other, as those of one 5-minute series do.  The
\* paper_ticks of several series overlap.
Disjoint == \A m, n \in tape : m = n \/ m.close <= n.open \/ n.close <= m.open

ClosedOn(d) == Cardinality({i \in DOMAIN btTrades : Day(btTrades[i].m.close) = d})

\* Within a series the replay never looks ahead: when a trade is entered, every
\* trade the risk manager knows of is already over, by the cooldown if it
\* ended on the same day, and no day closes more trades than its limit; a
\* market is traded once, in its entry window and in the range; the signal is
\* not seen after the entry; a tie is a win for UP alone.
BacktestSound ==
    /\ \A i \in DOMAIN btTrades : LET t == btTrades[i] IN
          /\ t.entry.ts \in InRange(t.m, range) /\ t.seen <= t.entry.ts /\ t.m.settle # 0
          /\ t.m.settle = t.m.strike => (t.win <=> t.entry.side = "YES_UP")
          /\ \A j \in DOMAIN btTrades : i # j => btTrades[j].m # t.m
    /\ Disjoint /\ ~bypass =>
          /\ \A i, j \in DOMAIN btTrades : i < j =>
                LET left == btTrades[i].m.close  entered == btTrades[j].entry.ts
                IN  entered >= left /\ (Day(left) = Day(entered) => entered >= left + CooldownSeconds)
          /\ \A i \in DOMAIN btTrades : ClosedOn(Day(btTrades[i].m.close)) <= DailyTradeLimit
=============================================================================
