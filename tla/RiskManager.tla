---------------------------- MODULE RiskManager ----------------------------
(***************************************************************************)
(* The entry gate of one strategy (src/trading/engine/risk.py).            *)
(*                                                                         *)
(* The state of a RiskManager is a record that only two calls change:      *)
(* can_enter, on every tick of an entry window, and on_trade_closed, once  *)
(* per settlement.  Both roll the state to the UTC day of the time stamp   *)
(* they are given, and the two callers give them different clocks: the     *)
(* tick's ts and the settlement's ts.  The operators below are those two   *)
(* calls as functions of the state; PaperDriver applies them.              *)
(*                                                                         *)
(* Definitions named Bug... are faulty variants of the definition below    *)
(* them, kept to show that the properties can fail.                        *)
(***************************************************************************)
EXTENDS Integers, Sequences

CONSTANTS
    DayLen,             \* length of a UTC day, in the model's time unit
    CooldownSeconds,    \* cooldown_seconds
    DailyLossLimit,     \* daily_loss_limit_usd
    DailyTradeLimit,    \* daily_trade_limit
    LossPauseThreshold, \* loss_pause_threshold_usd; 0 turns the gate off
    LossPauseWindow,    \* loss_pause_window_minutes
    LossPauseDuration   \* loss_pause_duration_minutes

ASSUME RiskAssumption ==
    /\ DayLen \in Nat \ {0}
    /\ {CooldownSeconds, DailyLossLimit, DailyTradeLimit, LossPauseThreshold,
        LossPauseWindow, LossPauseDuration} \subseteq Nat

\* The UTC day of a time stamp (RiskManager._today).
Day(ts) == ts \div DayLen

\* RiskState as __init__ builds it for a day key.
RiskState(day) ==
    [day_key |-> day, daily_pnl |-> 0, daily_trades |-> 0,
     circuit_breaker_tripped |-> FALSE,
     cooldown_until |-> 0, pause_until |-> 0, recent_pnls |-> << >>]

\* A fresh manager carries the day key of the epoch.
RiskInit == RiskState(Day(0))

\* _roll_day: ANY other day, an earlier one too, replaces the whole state.
RiskRollDay(s, ts) == IF Day(ts) = s.day_key THEN s ELSE RiskState(Day(ts))

\* The gates of can_enter that come before the daily loss limit.
TimeAndCountGates(s, ts) ==
    /\ ~s.circuit_breaker_tripped
    /\ ts >= s.pause_until
    /\ ts >= s.cooldown_until
    /\ s.daily_trades < DailyTradeLimit

\* can_enter's answer, market-quality gates (spread, depth, z, edge) aside.
RiskAllows(s, ts) ==
    LET r == RiskRollDay(s, ts)
    IN  TimeAndCountGates(r, ts) /\ r.daily_pnl > -DailyLossLimit

\* The state can_enter leaves behind: reaching the loss limit trips the breaker.
AfterCanEnter(s, ts) ==
    LET r == RiskRollDay(s, ts)
    IN  IF TimeAndCountGates(r, ts) /\ r.daily_pnl <= -DailyLossLimit
        THEN [r EXCEPT !.circuit_breaker_tripped = TRUE]
        ELSE r

\* The popleft loop: drops the prefix of entries older than the cutoff.
DropOld(q, cutoff) ==
    LET kept == {i \in 1..Len(q) : \E j \in 1..i : q[j].ts >= cutoff}
    IN  IF kept = {} THEN << >>
        ELSE SubSeq(q, CHOOSE i \in kept : \A j \in kept : i <= j, Len(q))

\* sum(p for _, p in recent_pnls)
WindowPnl(q) ==
    LET upto[i \in 0..Len(q)] == IF i = 0 THEN 0 ELSE upto[i - 1] + q[i].pnl
    IN  upto[Len(q)]

\* The rolling-loss part of on_trade_closed.
RollingLossPause(s, pnl, ts) ==
    LET recent == DropOld(Append(s.recent_pnls, [ts |-> ts, pnl |-> pnl]),
                          ts - LossPauseWindow)
    IN  IF LossPauseThreshold = 0 THEN s
        ELSE IF WindowPnl(recent) <= -LossPauseThreshold
        THEN [s EXCEPT !.pause_until = ts + LossPauseDuration,
                       !.recent_pnls = << >>]
        ELSE [s EXCEPT !.recent_pnls = recent]

BugOnTradeClosed(s, pnl, ts) ==
    RollingLossPause([s EXCEPT !.daily_pnl = @ + pnl], pnl, ts)

\* on_trade_closed
OnTradeClosed(s, pnl, ts) ==
    LET r == RiskRollDay(s, ts)
    IN  RollingLossPause([r EXCEPT !.daily_pnl = @ + pnl,
                                   !.daily_trades = @ + 1,
                                   !.cooldown_until = ts + CooldownSeconds],
                         pnl, ts)
=============================================================================
