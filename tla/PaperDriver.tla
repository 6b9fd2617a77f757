----------------------------- MODULE PaperDriver -----------------------------
(***************************************************************************)
(* One paper-trading driver (src/trading/paper/driver.py) with its         *)
(* simulated execution client (exec_client.py), the tick recorder that     *)
(* feeds it (tick_recorder.py) and the Postgres tables they share.         *)
(*                                                                         *)
(* The engine is one asyncio process.  Code between two awaits is atomic   *)
(* and every await is a point where the other tasks, the recorder, the     *)
(* clock or a crash may step in, so an action is one segment between       *)
(* awaits.  Two tasks settle positions: "main" (the pub/sub listen loop,   *)
(* which also enters) and "wd" (the settle watchdog).                      *)
(*                                                                         *)
(* Prices are abstracted to whether a settlement is won; a market is its   *)
(* window; an order is identified, as by the client_order_id hash, by its  *)
(* slug and the tick's time stamp.                                         *)
(*                                                                         *)
(* Definitions named Bug... are faulty variants of the definition below    *)
(* them, kept to show that the properties can fail.                        *)
(***************************************************************************)
EXTENDS RiskManager, FiniteSets

CONSTANTS
    Markets,                \* market slugs
    WindowOpen, WindowClose,\* [Markets -> Nat]
    SettleT,                \* the 300 s the driver takes every window to last
    EarliestEntryT, LatestEntryT, LateEntryGuard,
    WatchdogGrace,          \* 15 s
    OhlcvAge,               \* 120 s
    GiveUpAge,              \* 600 s, of the settle watchdog
    IdleAge,                \* 600 s, of the orphan sweep
    RehydrateWindow,        \* 10 minutes
    WinPnl, LossPnl,        \* pnl of a won and (negated) of a lost trade
    DailyPauseLoss,         \* capital * daily_loss_pause_pct
    CandleTimes,            \* minutes the OHLCV ingestor may ever deliver
    StoreOutcomes,          \* {TRUE}, or BOOLEAN if tick rows may be lost
    PauseStates,            \* {FALSE}, or BOOLEAN if operators pause
    KillStates,             \* {FALSE}, or BOOLEAN if operators use the file
    MaxTime, MaxInbox, MaxCrashes, MaxDbErrs, MaxDrops  \* bounds

ASSUME DriverAssumption ==
    /\ WindowOpen \in [Markets -> Nat] /\ WindowClose \in [Markets -> Nat]
    /\ {SettleT, EarliestEntryT, LatestEntryT, LateEntryGuard, WatchdogGrace,
        OhlcvAge, GiveUpAge, IdleAge, RehydrateWindow, WinPnl, LossPnl,
        DailyPauseLoss, MaxTime, MaxInbox, MaxCrashes, MaxDbErrs, MaxDrops} \subseteq Nat
    /\ CandleTimes \subseteq Nat
    /\ StoreOutcomes \subseteq BOOLEAN /\ PauseStates \subseteq BOOLEAN
    /\ KillStates \subseteq BOOLEAN

VARIABLES
    now,          \* wall clock
    kill,         \* is a KILL_SWITCH file present?
    lastPub,      \* [Markets -> time stamp of the recorder's latest tick]
    unstored,     \* the recorder's db_rows: published, not yet inserted
    ticks,        \* market_data.paper_ticks: [Markets -> time stamps]
    candles,      \* market_data.crypto_ohlcv: time stamps with a candle
    orders,       \* trading.orders: client order ids
    entries,      \* trading.fills of kind "entry": client order ids
    exits,        \* trading.fills of kind "settle"
    inbox,        \* ticks delivered to the pub/sub socket and not yet read
    paused,       \* _paused
    positions,    \* _open_positions: [Markets -> order id or NoPos]
    ledger,       \* _today, _daily_pnl, _daily_trades, _trade_taken
    risk,         \* the RiskManager's state
    lastTickAt,   \* _last_tick_at, and with it the per-market buffers
    pc,           \* [Tasks -> the await the task is suspended at]
    job,          \* [Tasks -> locals of the task's suspended call]
    expired,      \* positions the watchdog's current round has left to do
    dropped,      \* history: orders given up with settle_timeout
    crashes, dbErrs, drops

recVars   == <<lastPub, unstored>>
dbVars    == <<ticks, candles, orders, entries, exits>>
memVars   == <<paused, positions, ledger, risk, lastTickAt>>
taskVars  == <<pc, job, expired>>
faultVars == <<crashes, dbErrs, drops>>
vars == <<now, kill, recVars, dbVars, inbox, memVars, taskVars, dropped,
          faultVars>>

Tasks == {"main", "wd"}
NoPos == [slug |-> "none", ts |-> -1]
NoTick == -1
NoDay == -1
NoJob == [coid |-> NoPos, now |-> 0, ts |-> 0, won |-> FALSE]

Coid(slug, ts) == [slug |-> slug, ts |-> ts]
Coids == [slug : Markets, ts : Nat]
Exits == [coid : Coids, ts : Nat, won : BOOLEAN]

BootPCs    == {"boot_pause", "boot_taken", "boot_pnl"}
EntryPCs   == {"order", "fill", "opened"}
QueryPCs   == {"last_tick", "ohlcv_close", "first_tick", "ohlcv_open"}
PayoutPCs  == {"exit_row", "ledger"}
SettlePCs  == QueryPCs \cup PayoutPCs \cup {"notify"}
MainPCs    == {"down", "connect", "listen"} \cup BootPCs \cup EntryPCs
                \cup SettlePCs
WdPCs      == {"down", "sleep", "next"} \cup SettlePCs

\* The background tasks exist once run() has finished booting.
Running == pc["main"] \notin {"down"} \cup BootPCs
Subscribed == Running /\ pc["main"] # "connect"

BugPnl(won) == WinPnl
Pnl(won) == IF won THEN WinPnl ELSE -LossPnl

\* SELECT SUM(pnl) over a set of settle fills.
SettledPnl(rows) == WinPnl * Cardinality({e \in rows : e.won})
                      - LossPnl * Cardinality({e \in rows : ~e.won})

FreshLedger(day) ==
    [today |-> day, daily_pnl |-> 0, daily_trades |-> 0, trade_taken |-> {}]

Init ==
    /\ now = 0 /\ kill = FALSE
    /\ lastPub = [m \in Markets |-> NoTick] /\ unstored = {}
    /\ ticks = [m \in Markets |-> {}] /\ candles = {}
    /\ orders = {} /\ entries = {} /\ exits = {}
    /\ inbox = << >>
    /\ paused = FALSE
    /\ positions = [m \in Markets |-> NoPos]
    /\ ledger = FreshLedger(NoDay)
    /\ risk = RiskInit
    /\ lastTickAt = [m \in Markets |-> NoTick]
    /\ pc = [t \in Tasks |-> "down"] /\ job = [t \in Tasks |-> NoJob]
    /\ expired = {} /\ dropped = {}
    /\ crashes = 0 /\ dbErrs = 0 /\ drops = 0

-----------------------------------------------------------------------------
(* The environment: clock, kill switch, recorder, candle ingestor. *)

\* An insert of the recorder takes less than one unit of time.
Clock ==
    /\ now < MaxTime /\ unstored = {}
    /\ now' = now + 1
    /\ UNCHANGED <<kill, recVars, dbVars, inbox, memVars, taskVars, dropped,
                   faultVars>>

\* An operator touches or removes the file.
ToggleKill ==
    /\ kill' \in KillStates /\ kill' # kill
    /\ UNCHANGED <<now, recVars, dbVars, inbox, memVars, taskVars, dropped,
                   faultVars>>

\* The recorder publishes one tick of a market whose window is open.  The
\* message is lost if the publish raises or nobody is subscribed.
RecordTick(m) ==
    /\ pc["main"] # "down"
    /\ WindowOpen[m] <= now /\ now < WindowClose[m]
    /\ lastPub[m] < now
    /\ lastPub' = [lastPub EXCEPT ![m] = now]
    /\ unstored' = unstored \cup {Coid(m, now)}
    /\ \/ /\ Subscribed /\ Len(inbox) < MaxInbox
          /\ inbox' = Append(inbox, Coid(m, now))
          /\ UNCHANGED drops
       \/ ~Subscribed /\ UNCHANGED <<inbox, drops>>
       \/ drops < MaxDrops /\ drops' = drops + 1 /\ UNCHANGED inbox
    /\ UNCHANGED <<now, kill, dbVars, memVars, taskVars, dropped, crashes,
                   dbErrs>>

\* The insert that ends the recorder's round; an error is logged and the rows
\* are gone.
StoreTicks ==
    /\ unstored # {}
    /\ unstored' = {}
    /\ \E stored \in StoreOutcomes :
          ticks' = IF stored
                   THEN [m \in Markets |->
                           ticks[m] \cup {c.ts : c \in {d \in unstored : d.slug = m}}]
                   ELSE ticks
    /\ UNCHANGED <<now, kill, lastPub, candles, orders, entries, exits, inbox,
                   memVars, taskVars, dropped, faultVars>>

\* The ingestor delivers the 1 m candle of a past minute.
IngestCandle(c) ==
    /\ c \in CandleTimes \ candles /\ c < now
    /\ candles' = candles \cup {c}
    /\ UNCHANGED <<now, kill, recVars, ticks, orders, entries, exits, inbox,
                   memVars, taskVars, dropped, faultVars>>

-----------------------------------------------------------------------------
(* Process start, boot and crash. *)

Goto(t, where) == pc' = [pc EXCEPT ![t] = where]

DbError == dbErrs < MaxDbErrs /\ dbErrs' = dbErrs + 1

\* create_trading_node refuses to start while a kill-switch file is present.
Start ==
    /\ pc["main"] = "down" /\ ~kill
    /\ Goto("main", "boot_pause")
    /\ UNCHANGED <<now, kill, recVars, dbVars, inbox, memVars, job, expired,
                   dropped, faultVars>>

\* The flag persisted in trading.strategy_state.
RehydratePauseState ==
    /\ pc["main"] = "boot_pause"
    /\ \/ paused' \in PauseStates /\ UNCHANGED dbErrs
       \/ DbError /\ UNCHANGED paused
    /\ Goto("main", "boot_taken")
    /\ UNCHANGED <<now, kill, recVars, dbVars, inbox, positions, ledger, risk,
                   lastTickAt, job, expired, dropped, crashes, drops>>

\* Slugs of the orders of the last ten minutes.
BugRecentSlugs == {o.slug \o "-YES" : o \in {p \in orders : p.ts > now - RehydrateWindow}}
RecentSlugs == {o.slug : o \in {p \in orders : p.ts > now - RehydrateWindow}}

RehydrateTradeTaken ==
    /\ pc["main"] = "boot_taken"
    /\ \/ /\ ledger' = [ledger EXCEPT !.trade_taken = @ \cup RecentSlugs]
          /\ UNCHANGED dbErrs
       \/ DbError /\ UNCHANGED ledger
    /\ Goto("main", "boot_pnl")
    /\ UNCHANGED <<now, kill, recVars, dbVars, inbox, paused, positions, risk,
                   lastTickAt, job, expired, dropped, crashes, drops>>

\* Afterwards run() starts the background tasks and begins to subscribe.
BootstrapDailyPnl ==
    /\ pc["main"] = "boot_pnl"
    /\ \/ /\ ledger' = [ledger EXCEPT
               !.daily_pnl = SettledPnl({e \in exits : e.ts >= now - DayLen}),
               !.daily_trades = Cardinality({c \in entries :
                                               c.ts >= now - DayLen})]
          /\ UNCHANGED dbErrs
       \/ DbError /\ UNCHANGED ledger
    /\ pc' = [main |-> "connect", wd |-> "sleep"]
    /\ UNCHANGED <<now, kill, recVars, dbVars, inbox, paused, positions, risk,
                   lastTickAt, job, expired, dropped, crashes, drops>>

Subscribe ==
    /\ pc["main"] = "connect"
    /\ Goto("main", "listen")
    /\ UNCHANGED <<now, kill, recVars, dbVars, inbox, memVars, job, expired,
                   dropped, faultVars>>

\* listen() raises: what was queued for the subscription is gone.
Disconnect ==
    /\ pc["main"] = "listen" /\ drops < MaxDrops
    /\ drops' = drops + 1
    /\ inbox' = << >>
    /\ Goto("main", "connect")
    /\ UNCHANGED <<now, kill, recVars, dbVars, memVars, job, expired, dropped,
                   crashes, dbErrs>>

\* The process dies or is restarted: only the database and the clock survive.
Crash ==
    /\ pc["main"] # "down" /\ crashes < MaxCrashes
    /\ crashes' = crashes + 1
    /\ inbox' = << >> /\ unstored' = {}
    /\ paused' = FALSE
    /\ positions' = [m \in Markets |-> NoPos]
    /\ ledger' = FreshLedger(NoDay)
    /\ risk' = RiskInit
    /\ lastTickAt' = [m \in Markets |-> NoTick]
    /\ pc' = [t \in Tasks |-> "down"] /\ job' = [t \in Tasks |-> NoJob]
    /\ expired' = {}
    /\ UNCHANGED <<now, kill, lastPub, dbVars, dropped, dbErrs, drops>>
-----------------------------------------------------------------------------
(* _handle_tick: the synchronous part, up to its first await. *)

\* _roll_day.  _today is "" (NoDay) after a boot, so the first tick resets too.
RollDay(l, ts) == IF Day(ts) = l.today THEN l ELSE FreshLedger(Day(ts))

BugDailyPaused(l) == l.daily_pnl < -DailyPauseLoss
DailyPaused(l) == l.daily_pnl <= -DailyPauseLoss

\* The daily pause gate marks a market it blocks as already traded.
DailyPauseGate(l, slug) ==
    IF DailyPaused(l) /\ positions[slug] = NoPos
    THEN [l EXCEPT !.trade_taken = @ \cup {slug}]
    ELSE l

\* t_in_window, which the recorder computes.
TInWindow(tk) == tk.ts - WindowOpen[tk.slug]

Cleaned(slug) == [lastTickAt EXCEPT ![slug] = NoTick]
Buffered(tk) == [lastTickAt EXCEPT ![tk.slug] = tk.ts]

\* The listen loop takes the next tick; tk and l are what the gates look at.
Receive(tk) ==
    /\ pc["main"] = "listen"
    /\ inbox # << >> /\ tk = Head(inbox)
    /\ inbox' = Tail(inbox)

Gated(tk) == DailyPauseGate(RollDay(ledger, tk.ts), tk.slug)

\* A tick of a market with neither a position nor a trade-taken mark.
BugUntraded(tk) == ~paused
Untraded(tk) ==
    /\ ~paused
    /\ positions[tk.slug] = NoPos
    /\ tk.slug \notin Gated(tk).trade_taken

InEntryWindow(tk) == /\ EarliestEntryT <= TInWindow(tk)
                     /\ TInWindow(tk) <= LatestEntryT

TickPaused(tk) ==
    /\ Receive(tk) /\ paused
    /\ ledger' = RollDay(ledger, tk.ts)
    /\ lastTickAt' = Buffered(tk)
    /\ UNCHANGED <<now, kill, recVars, dbVars, paused, positions, risk,
                   taskVars, dropped, faultVars>>

TickHolding(tk) ==
    /\ Receive(tk) /\ ~paused
    /\ positions[tk.slug] # NoPos /\ TInWindow(tk) < SettleT
    /\ ledger' = Gated(tk)
    /\ lastTickAt' = Buffered(tk)
    /\ UNCHANGED <<now, kill, recVars, dbVars, paused, positions, risk,
                   taskVars, dropped, faultVars>>

\* _settle_position: from here the main task runs the watchdog's routine.
TickSettle(tk) ==
    /\ Receive(tk) /\ ~paused
    /\ positions[tk.slug] # NoPos /\ TInWindow(tk) >= SettleT
    /\ ledger' = Gated(tk)
    /\ lastTickAt' = Buffered(tk)
    /\ Goto("main", "last_tick")
    /\ job' = [job EXCEPT !["main"] =
                 [NoJob EXCEPT !.coid = positions[tk.slug], !.now = now]]
    /\ UNCHANGED <<now, kill, recVars, dbVars, paused, positions, risk,
                   expired, dropped, faultVars>>

TickTaken(tk) ==
    /\ Receive(tk) /\ ~paused
    /\ positions[tk.slug] = NoPos /\ tk.slug \in Gated(tk).trade_taken
    /\ IF TInWindow(tk) >= SettleT
       THEN /\ ledger' = [Gated(tk) EXCEPT !.trade_taken = @ \ {tk.slug}]
            /\ lastTickAt' = Cleaned(tk.slug)
       ELSE /\ ledger' = Gated(tk)
            /\ lastTickAt' = Buffered(tk)
    /\ UNCHANGED <<now, kill, recVars, dbVars, paused, positions, risk,
                   taskVars, dropped, faultVars>>

TickOutOfWindow(tk) ==
    /\ Receive(tk) /\ Untraded(tk) /\ ~InEntryWindow(tk)
    /\ ledger' = Gated(tk)
    /\ lastTickAt' = IF TInWindow(tk) > SettleT THEN Cleaned(tk.slug)
                                                ELSE Buffered(tk)
    /\ UNCHANGED <<now, kill, recVars, dbVars, paused, positions, risk,
                   taskVars, dropped, faultVars>>

\* In the entry window, but a gate says no: risk, strategy, kill switch, late
\* entry or the simulated fill.
TickNoEntry(tk) ==
    /\ Receive(tk) /\ Untraded(tk) /\ InEntryWindow(tk)
    /\ ledger' = Gated(tk)
    /\ risk' = AfterCanEnter(risk, tk.ts)
    /\ lastTickAt' = Buffered(tk)
    /\ UNCHANGED <<now, kill, recVars, dbVars, paused, positions, taskVars,
                   dropped, faultVars>>

\* Every gate passes and try_enter awaits the insert of the order row.
TickSubmit(tk) ==
    /\ Receive(tk) /\ Untraded(tk) /\ InEntryWindow(tk)
    /\ ~DailyPaused(Gated(tk))
    /\ RiskAllows(risk, tk.ts)
    /\ ~kill
    /\ TInWindow(tk) <= LatestEntryT - LateEntryGuard
    /\ ledger' = Gated(tk)
    /\ risk' = AfterCanEnter(risk, tk.ts)
    /\ lastTickAt' = Buffered(tk)
    /\ Goto("main", "order")
    /\ job' = [job EXCEPT !["main"] = [NoJob EXCEPT !.coid = tk]]
    /\ UNCHANGED <<now, kill, recVars, dbVars, paused, positions, expired,
                   dropped, faultVars>>

\* _handle_control_message: the same loop reads the control channel.
HandleControl ==
    /\ pc["main"] = "listen"
    /\ paused' \in PauseStates /\ paused' # paused
    /\ UNCHANGED <<now, kill, recVars, dbVars, inbox, positions, ledger, risk,
                   lastTickAt, taskVars, dropped, faultVars>>

-----------------------------------------------------------------------------
(* try_enter after the gates: two inserts, then back in _handle_tick. *)

OrderUpsert ==
    /\ pc["main"] = "order"
    /\ orders' = orders \cup {job["main"].coid}
    /\ Goto("main", "fill")
    /\ UNCHANGED <<now, kill, recVars, ticks, candles, entries, exits, inbox,
                   memVars, job, expired, dropped, faultVars>>

EntryFillUpsert ==
    /\ pc["main"] = "fill"
    /\ entries' = entries \cup {job["main"].coid}
    /\ Goto("main", "opened")
    /\ UNCHANGED <<now, kill, recVars, ticks, candles, orders, exits, inbox,
                   memVars, job, expired, dropped, faultVars>>

BugEntryPersistError ==
    /\ DbError
    /\ pc["main"] \in {"order", "fill"}
    /\ Goto("main", "opened")
    /\ UNCHANGED <<now, kill, recVars, dbVars, inbox, memVars, job, expired,
                   dropped, crashes, drops>>

\* An insert raises, its transaction committed or not; try_enter returns None.
EntryPersistError ==
    /\ DbError
    /\ \/ /\ pc["main"] = "order"
          /\ orders' \in {orders, orders \cup {job["main"].coid}}
          /\ UNCHANGED entries
       \/ /\ pc["main"] = "fill"
          /\ entries' \in {entries, entries \cup {job["main"].coid}}
          /\ UNCHANGED orders
    /\ Goto("main", "listen")
    /\ UNCHANGED <<now, kill, recVars, ticks, candles, exits, inbox, memVars,
                   job, expired, dropped, crashes, drops>>

OpenPosition ==
    /\ pc["main"] = "opened"
    /\ LET c == job["main"].coid IN
       /\ positions' = [positions EXCEPT ![c.slug] = c]
       /\ ledger' = [ledger EXCEPT !.trade_taken = @ \cup {c.slug},
                                   !.daily_trades = @ + 1]
    /\ Goto("main", "listen")
    /\ UNCHANGED <<now, kill, recVars, dbVars, inbox, paused, risk, lastTickAt,
                   job, expired, dropped, faultVars>>
-----------------------------------------------------------------------------
(* Settlement.  _settle_via_watchdog runs in either task. *)

\* Where a task resumes when a settlement call returns.
Return(t) == IF t = "main" THEN "listen"
             ELSE IF expired = {} THEN "sleep" ELSE "next"

Expired(m) == positions[m] # NoPos /\ now - WindowClose[m] > WatchdogGrace

\* A watchdog round snapshots the expired positions and the time.
WatchdogWake ==
    LET late == {positions[m] : m \in {n \in Markets : Expired(n)}}
    IN  /\ pc["wd"] = "sleep" /\ late # {}
        /\ expired' = late
        /\ job' = [job EXCEPT !["wd"] = [NoJob EXCEPT !.now = now]]
        /\ Goto("wd", "next")
        /\ UNCHANGED <<now, kill, recVars, dbVars, inbox, memVars, dropped,
                       faultVars>>

WatchdogNext(c) ==
    /\ pc["wd"] = "next" /\ c \in expired
    /\ expired' = expired \ {c}
    /\ job' = [job EXCEPT !["wd"].coid = c]
    /\ Goto("wd", "last_tick")
    /\ UNCHANGED <<now, kill, recVars, dbVars, inbox, memVars, dropped,
                   faultVars>>

Slug(t) == job[t].coid.slug
CloseTs(t) == WindowClose[Slug(t)]
Age(t) == job[t].now - CloseTs(t)

\* Both tick queries look at [close - 305 s, close + 5 s].
WindowTicks(m) == {ts \in ticks[m] : /\ WindowClose[m] - SettleT <= ts
                                     /\ ts <= WindowClose[m]}

BugLatest(S) == CHOOSE x \in S : \A y \in S : x <= y
Latest(S) == CHOOSE x \in S : \A y \in S : y <= x

\* A query answers None: there is no such row, or the query raised.
NoAnswer(exists) == \/ ~exists /\ UNCHANGED dbErrs
                    \/ DbError

BugGiveUpOrReturn(t) ==
    Goto(t, Return(t)) /\ UNCHANGED <<job, positions, lastTickAt, dropped>>

\* settle_price is None: retry in the next round, or give up and drop.
GiveUpOrReturn(t) ==
    /\ IF Age(t) > GiveUpAge
       THEN /\ positions' = [positions EXCEPT ![Slug(t)] = NoPos]
            /\ lastTickAt' = Cleaned(Slug(t))
            /\ dropped' = dropped \cup ({positions[Slug(t)]} \ {NoPos})
       ELSE UNCHANGED <<positions, lastTickAt, dropped>>
    /\ Goto(t, Return(t))
    /\ UNCHANGED job

PriceFound(t, ts) ==
    /\ job' = [job EXCEPT ![t].ts = ts]
    /\ Goto(t, "first_tick")
    /\ UNCHANGED <<positions, lastTickAt, dropped>>

\* _last_paper_tick_price
LastTickQuery(t) ==
    LET rows == WindowTicks(Slug(t)) IN
    /\ pc[t] = "last_tick"
    /\ \/ rows # {} /\ PriceFound(t, Latest(rows)) /\ UNCHANGED dbErrs
       \/ /\ NoAnswer(rows # {})
          /\ IF Age(t) > OhlcvAge
             THEN Goto(t, "ohlcv_close")
                  /\ UNCHANGED <<job, positions, lastTickAt, dropped>>
             ELSE GiveUpOrReturn(t)
    /\ UNCHANGED <<now, kill, recVars, dbVars, inbox, paused, ledger, risk,
                   expired, crashes, drops>>

\* _ohlcv_close_at(window_close_ts)
OhlcvCloseQuery(t) ==
    /\ pc[t] = "ohlcv_close"
    /\ \/ CloseTs(t) \in candles /\ PriceFound(t, CloseTs(t))
          /\ UNCHANGED dbErrs
       \/ /\ NoAnswer(CloseTs(t) \in candles)
          /\ GiveUpOrReturn(t)
    /\ UNCHANGED <<now, kill, recVars, dbVars, inbox, paused, ledger, risk,
                   expired, crashes, drops>>

BugPopPosition(t) ==
    /\ \E won \in BOOLEAN : job' = [job EXCEPT ![t].won = won]
    /\ Goto(t, "exit_row") /\ UNCHANGED positions

\* _settle_from_values up to its await: pop first, stop if the other task did.
PopPosition(t) ==
    LET c == positions[Slug(t)] IN
    IF c = NoPos
    THEN Goto(t, Return(t)) /\ UNCHANGED <<job, positions>>
    ELSE /\ positions' = [positions EXCEPT ![Slug(t)] = NoPos]
         /\ \E won \in BOOLEAN :
               job' = [job EXCEPT ![t].coid = c, ![t].won = won]
         /\ Goto(t, "exit_row")

\* _first_paper_tick_spot
FirstTickQuery(t) ==
    LET rows == WindowTicks(Slug(t)) IN
    /\ pc[t] = "first_tick"
    /\ \/ rows # {} /\ PopPosition(t) /\ UNCHANGED dbErrs
       \/ /\ NoAnswer(rows # {})
          /\ Goto(t, "ohlcv_open") /\ UNCHANGED <<job, positions>>
    /\ UNCHANGED <<now, kill, recVars, dbVars, inbox, paused, ledger, risk,
                   lastTickAt, expired, dropped, crashes, drops>>

\* _ohlcv_close_at(window_close_ts - 300); without it the call just returns.
OhlcvOpenQuery(t) ==
    LET open == CloseTs(t) - SettleT IN
    /\ pc[t] = "ohlcv_open"
    /\ \/ open \in candles /\ PopPosition(t) /\ UNCHANGED dbErrs
       \/ /\ NoAnswer(open \in candles)
          /\ Goto(t, Return(t)) /\ UNCHANGED <<job, positions>>
    /\ UNCHANGED <<now, kill, recVars, dbVars, inbox, paused, ledger, risk,
                   lastTickAt, expired, dropped, crashes, drops>>

ExitRow(t) == [coid |-> job[t].coid, ts |-> job[t].ts, won |-> job[t].won]

\* exec.settle inserts the settle fill; an error is logged and swallowed.
ExitFillUpsert(t) ==
    /\ pc[t] = "exit_row"
    /\ \/ exits' = exits \cup {ExitRow(t)} /\ UNCHANGED dbErrs
       \/ exits' \in {exits, exits \cup {ExitRow(t)}} /\ DbError
    /\ Goto(t, "ledger")
    /\ UNCHANGED <<now, kill, recVars, ticks, candles, orders, entries, inbox,
                   memVars, job, expired, dropped, crashes, drops>>

BookPnl(t) ==
    /\ pc[t] = "ledger"
    /\ ledger' = [ledger EXCEPT !.daily_pnl = @ + Pnl(job[t].won)]
    /\ risk' = OnTradeClosed(risk, Pnl(job[t].won), job[t].ts)
    /\ Goto(t, "notify")
    /\ UNCHANGED <<now, kill, recVars, dbVars, inbox, paused, positions,
                   lastTickAt, job, expired, dropped, faultVars>>

\* After the Telegram sends.
CleanupMarket(t) ==
    /\ pc[t] = "notify"
    /\ lastTickAt' = Cleaned(Slug(t))
    /\ Goto(t, Return(t))
    /\ UNCHANGED <<now, kill, recVars, dbVars, inbox, paused, positions,
                   ledger, risk, job, expired, dropped, faultVars>>

\* Buffers of a market that went idle without a position.
BugOrphaned(m) == lastTickAt[m] # NoTick /\ lastTickAt[m] - now > IdleAge
Orphaned(m) == /\ lastTickAt[m] # NoTick
               /\ now - lastTickAt[m] > IdleAge
               /\ positions[m] = NoPos

\* _orphan_cleanup_loop, one round.
OrphanCleanup ==
    LET stale == {m \in Markets : Orphaned(m)}
    IN  /\ Running /\ stale # {}
        /\ lastTickAt' = [m \in Markets |-> IF m \in stale THEN NoTick
                                            ELSE lastTickAt[m]]
        /\ UNCHANGED <<now, kill, recVars, dbVars, inbox, paused, positions,
                       ledger, risk, taskVars, dropped, faultVars>>

-----------------------------------------------------------------------------
HandleTick(tk) ==
    \/ TickPaused(tk) \/ TickHolding(tk) \/ TickSettle(tk) \/ TickTaken(tk)
    \/ TickOutOfWindow(tk) \/ TickNoEntry(tk) \/ TickSubmit(tk)

Boot == \/ Start \/ RehydratePauseState \/ RehydrateTradeTaken
        \/ BootstrapDailyPnl \/ Subscribe

Enter == OrderUpsert \/ EntryFillUpsert \/ EntryPersistError \/ OpenPosition

Settle(t) ==
    \/ LastTickQuery(t) \/ OhlcvCloseQuery(t) \/ FirstTickQuery(t)
    \/ OhlcvOpenQuery(t) \/ ExitFillUpsert(t) \/ BookPnl(t) \/ CleanupMarket(t)

Watchdog == WatchdogWake \/ \E c \in expired : WatchdogNext(c)

Environment ==
    \/ Clock \/ ToggleKill \/ Crash \/ Disconnect
    \/ StoreTicks \/ \E m \in Markets : RecordTick(m)
    \/ \E c \in CandleTimes : IngestCandle(c)

Listen == HandleControl \/ \E m \in Markets, ts \in 0..MaxTime :
                             HandleTick(Coid(m, ts))

Next == \/ Environment \/ Boot \/ Listen \/ Enter \/ Watchdog
        \/ (\E t \in Tasks : Settle(t)) \/ OrphanCleanup

Spec == Init /\ [][Next]_vars

\* The event loop runs every ready task and time passes; faults, operators,
\* the feed and the ingestor owe nothing.
Fairness ==
    /\ WF_vars(Clock) /\ WF_vars(StoreTicks) /\ WF_vars(Boot) /\ WF_vars(OrphanCleanup)
    /\ WF_vars(\E m \in Markets, ts \in 0..MaxTime : HandleTick(Coid(m, ts)))
    /\ WF_vars(Enter) /\ WF_vars(Watchdog)
    /\ \A t \in Tasks : WF_vars(Settle(t))

FairSpec == Spec /\ Fairness
-----------------------------------------------------------------------------
(* Properties. *)

Ledgers == [today : Int, daily_pnl : Int, daily_trades : Nat,
            trade_taken : SUBSET Markets]
Jobs == [coid : Coids \cup {NoPos}, now : Nat, ts : Nat, won : BOOLEAN]

\* Every variable keeps its type: the driver's state of driver.py, the tables
\* it shares and the locals of its suspended calls.
TypeOK ==
    /\ now \in Nat /\ kill \in BOOLEAN /\ paused \in BOOLEAN
    /\ lastPub \in [Markets -> Nat \cup {NoTick}] /\ unstored \subseteq Coids
    /\ ticks \in [Markets -> SUBSET Nat]
    /\ candles \subseteq CandleTimes
    /\ orders \subseteq Coids /\ entries \subseteq Coids
    /\ exits \subseteq Exits
    /\ inbox \in Seq(Coids)
    /\ positions \in [Markets -> Coids \cup {NoPos}]
    /\ ledger \in Ledgers
    /\ lastTickAt \in [Markets -> Nat \cup {NoTick}]
    /\ pc \in [Tasks -> MainPCs \cup WdPCs]
    /\ job \in [Tasks -> Jobs]
    /\ expired \subseteq Coids /\ dropped \subseteq Coids
    /\ crashes \in Nat /\ dbErrs \in Nat /\ drops \in Nat

\* No order gets a second settle fill, though the tick path and the watchdog
\* both run _settle_via_watchdog over the same position and suspend in it, and
\* the (fill_id, ts) key of trading.fills would accept a second row.
SettledOnce == \A e, f \in exits : e.coid = f.coid => e = f

\* Whatever crashes or failed inserts happen, an open position of driver.py
\* stands for an order and an entry fill that are in the database, under its
\* own slug, and so does every settle fill.
FillsBacked ==
    /\ \A m \in Markets : positions[m] # NoPos =>
          positions[m].slug = m /\ positions[m] \in orders \cap entries
    /\ \A e \in exits : e.coid \in orders \cap entries

Open     == {positions[m] : m \in Markets} \ {NoPos}
Opening  == IF pc["main"] = "opened" THEN {job["main"].coid} ELSE {}
Paying(where) == {job[t].coid : t \in {u \in Tasks : pc[u] \in where}}
Settled  == {e.coid : e \in exits}

\* While nothing has failed, no entry fill is lost sight of: it is being
\* opened, open, being settled, settled, or was given up with settle_timeout,
\* and only one of these.  It is the open-count comparison of
\* _reconciliation_loop, without its tolerance.
EntryAccounted ==
    crashes = 0 /\ dbErrs = 0 =>
    \A c \in entries :
       Cardinality({place \in {"opening", "open", "paying", "settled", "dropped"} :
          c \in CASE place = "opening" -> Opening
                  [] place = "open"    -> Open
                  [] place = "paying"  -> Paying({"exit_row"})
                  [] place = "settled" -> Settled
                  [] OTHER             -> dropped}) = 1

\* A market is traded at most once: what _trade_taken, and at boot
\* _rehydrate_trade_taken, are there for.
OneEntryPerMarket == \A c, d \in entries : c.slug = d.slug => c = d

Unbooked == {ExitRow(t) : t \in {u \in Tasks : pc[u] = "ledger"}}

\* _daily_pnl is the sum of the last day's settle fills, but for a settlement
\* between its insert and its bookkeeping: what _bootstrap_daily_pnl_from_db
\* restores and _reconciliation_loop compares.
LedgerMatchesDb ==
    Running => ledger.daily_pnl =
                 SettledPnl({e \in exits : e.ts >= now - DayLen} \ Unbooked)

\* Within a day the driver's ledger and the RiskManager's, rolled by separate
\* code, agree: same pnl, and every trade opened is closed, given up, open or
\* being settled.
LedgersAgree ==
    Running =>
    /\ risk.daily_pnl = ledger.daily_pnl
    /\ ledger.daily_trades = risk.daily_trades
         + Cardinality(Open \cup Paying(PayoutPCs) \cup dropped)

\* A position is settled only once its market's window has closed: "Settle or
\* skip if post-window" (driver.py:348).  The code compares with 300 s, so it
\* holds for windows that are not longer.
NoEarlySettle ==
    \A t \in Tasks : pc[t] = "exit_row" => now >= CloseTs(t)

\* When no tick row is lost, a trade is settled against a price that is not
\* older than its entry (the ORDER BY ts DESC of _last_paper_tick_price).
SettleAfterEntry == \A e \in exits : e.ts >= e.coid.ts

\* No order is submitted once the settle fills in the database, less one that
\* is not booked yet, add up to the daily pause loss (gate of _handle_tick).
NoEntryBelowDailyPause ==
    [][pc["main"] = "listen" /\ pc'["main"] = "order" =>
         SettledPnl(exits \ Unbooked) > -DailyPauseLoss]_vars

\* The fills table behaves as its readers expect (module TradeLedger).
TL == INSTANCE TradeLedger WITH entered <- entries, settled <- exits
RefinesTradeLedger == TL!Spec

\* Every open position is eventually settled or given up: the purpose of
\* _settle_watchdog_loop ("Drop so we don't keep retrying forever").
PositionsLeave ==
    \A m \in Markets : positions[m] # NoPos ~> positions[m] = NoPos

\* The per-market buffers are eventually reclaimed, for markets that were
\* never traded as well (_orphan_cleanup_loop).
BuffersReclaimed ==
    <>[](\A m \in Markets : lastTickAt[m] = NoTick)
=============================================================================
