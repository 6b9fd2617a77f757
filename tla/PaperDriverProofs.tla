-------------------------- MODULE PaperDriverProofs --------------------------
(***************************************************************************)
(* Proofs about PaperDriver, for every set of markets, every window        *)
(* schedule, any number of crashes, failing statements and disconnects.    *)
(***************************************************************************)
EXTENDS PaperDriver, FiniteSetTheorems, SequenceTheorems,
        WellFoundedInduction, TLAPS

\* A suspended call of try_enter or of a settlement has an order.
JobsTyped == \A t \in Tasks : pc[t] \in EntryPCs \cup SettlePCs =>
                               job[t].coid \in Coids

\* The tables are finite, so the sums of _bootstrap_daily_pnl_from_db exist.
FiniteTables == IsFiniteSet(entries) /\ IsFiniteSet(exits)

TypeInv == TypeOK /\ JobsTyped /\ FiniteTables

LEMMA ConstantTypes ==
    /\ DayLen \in Nat \ {0} /\ WinPnl \in Nat /\ LossPnl \in Nat
    /\ WindowOpen \in [Markets -> Nat] /\ WindowClose \in [Markets -> Nat]
    /\ CandleTimes \subseteq Nat /\ PauseStates \subseteq BOOLEAN
    /\ KillStates \subseteq BOOLEAN /\ SettleT \in Nat /\ MaxTime \in Nat
    /\ MaxCrashes \in Nat /\ MaxDrops \in Nat /\ MaxDbErrs \in Nat
    /\ NoPos \notin Coids
BY RiskAssumption, DriverAssumption DEF NoPos, Coids

LEMMA LedgerUpdate ==
    ASSUME NEW l \in Ledgers, NEW m \in Markets
    PROVE  [l EXCEPT !.trade_taken = @ \cup {m}, !.daily_trades = @ + 1]
             \in Ledgers
<1>1. /\ l.trade_taken \cup {m} \in SUBSET Markets
      /\ l.daily_trades + 1 \in Nat
  BY DEF Ledgers
<1>. QED
  BY <1>1 DEF Ledgers

LEMMA SettledPnlType ==
    ASSUME NEW rows, IsFiniteSet(rows)
    PROVE  SettledPnl(rows) \in Int
<1>1. /\ Cardinality({e \in rows : e.won}) \in Nat
      /\ Cardinality({e \in rows : ~e.won}) \in Nat
  BY FS_Subset, FS_CardinalityType
<1>. QED
  BY <1>1, ConstantTypes DEF SettledPnl

\* The ledger keeps its type through _roll_day and the daily pause gate.
LEMMA LedgerType ==
    ASSUME TypeOK, NEW tk \in Coids
    PROVE  /\ RollDay(ledger, tk.ts) \in Ledgers
           /\ Gated(tk) \in Ledgers
<1>1. Day(tk.ts) \in Int
  BY ConstantTypes DEF Day, Coids
<1>2. RollDay(ledger, tk.ts) \in Ledgers
  BY <1>1 DEF TypeOK, RollDay, FreshLedger, Ledgers
<1>. QED
  BY <1>2 DEF Gated, DailyPauseGate, Coids, Ledgers

\* A received tick is typed, and so is what it leaves in the queue.
LEMMA ReceiveType ==
    ASSUME TypeOK, NEW tk, Receive(tk)
    PROVE  tk \in Coids /\ tk.slug \in Markets /\ tk.ts \in Nat
           /\ inbox' \in Seq(Coids)
<1>1. inbox \in Seq(Coids) /\ inbox # << >>
  BY DEF TypeOK, Receive
<1>2. tk \in Coids /\ inbox' \in Seq(Coids)
  BY <1>1, HeadTailProperties DEF Receive
<1>. QED
  BY <1>2 DEF Coids

\* A failing statement uses up one unit of the error budget.
LEMMA DbErrsType ==
    ASSUME TypeOK, DbError \/ dbErrs' = dbErrs
    PROVE  dbErrs' \in Nat
BY DEF TypeOK, DbError

LEMMA EmptyInbox == << >> \in Seq(Coids)
BY EmptySeq

\* ORDER BY ts DESC LIMIT 1 answers with a row of the window: the rows are
\* bounded by the close, so there is a latest one.
LEMMA LatestRow ==
    ASSUME TypeOK, NEW m \in Markets, WindowTicks(m) # {}
    PROVE  /\ Latest(WindowTicks(m)) \in WindowTicks(m)
           /\ \A ts \in WindowTicks(m) : ts <= Latest(WindowTicks(m))
<1>. DEFINE close == WindowClose[m]
            rows  == WindowTicks(m)
            lags  == {close - ts : ts \in rows}
            less  == {p \in Nat \X Nat : p[1] < p[2]}
<1>1. rows \subseteq Nat /\ (\A ts \in rows : ts <= close) /\ close \in Nat
  BY ConstantTypes DEF TypeOK, WindowTicks
<1>2. lags \subseteq Nat /\ lags # {}
  BY <1>1
<1>3. PICK x \in lags : \A y \in lags : <<y, x>> \notin less
  <2>1. IsWellFoundedOn(less, Nat)
    BY NatLessThanWellFounded DEF OpToRel
  <2>. HIDE DEF lags, less
  <2>. QED
    BY <1>2, <2>1, WFMin
<1>4. PICK ts \in rows : x = close - ts
  OBVIOUS
<1>5. \A other \in rows : other <= ts
  <2>1. SUFFICES ASSUME NEW other \in rows PROVE other <= ts
    OBVIOUS
  <2>2. ~(close - other < close - ts)
    BY <1>2, <1>3, <1>4
  <2>. HIDE DEF rows, close
  <2>. QED
    BY <1>1, <2>2
<1>6. Latest(rows) \in rows /\ \A other \in rows : other <= Latest(rows)
  <2>. HIDE DEF rows
  <2>. QED
    BY <1>5 DEF Latest
<1>. QED
  BY <1>6

Query(t) == \/ LastTickQuery(t) \/ OhlcvCloseQuery(t) \/ FirstTickQuery(t)
            \/ OhlcvOpenQuery(t)

\* A price query of a settlement call does one of three things: it goes on or
\* returns, it gives the position up, or it pops the position to pay it out.
Proceeds(t) ==
    \E j \in Jobs, where \in QueryPCs \cup {Return(t)} :
       /\ j.coid = job[t].coid
       /\ job' = [job EXCEPT ![t] = j]
       /\ pc' = [pc EXCEPT ![t] = where]
       /\ UNCHANGED <<positions, lastTickAt, dropped>>

GivesUp(t) ==
    /\ job' = job
    /\ pc' = [pc EXCEPT ![t] = Return(t)]
    /\ positions' = [positions EXCEPT ![Slug(t)] = NoPos]
    /\ lastTickAt' = [lastTickAt EXCEPT ![Slug(t)] = NoTick]
    /\ dropped' = dropped \cup ({positions[Slug(t)]} \ {NoPos})

Pops(t) ==
    \E j \in Jobs :
       /\ positions[Slug(t)] # NoPos /\ j.coid = positions[Slug(t)]
       /\ job' = [job EXCEPT ![t] = j]
       /\ pc' = [pc EXCEPT ![t] = "exit_row"]
       /\ positions' = [positions EXCEPT ![Slug(t)] = NoPos]
       /\ UNCHANGED <<lastTickAt, dropped>>

LEMMA QueryStep ==
    ASSUME TypeOK, JobsTyped, NEW t \in Tasks, Query(t)
    PROVE  /\ pc[t] \in QueryPCs /\ Slug(t) \in Markets
           /\ Proceeds(t) \/ GivesUp(t) \/ Pops(t)
           /\ DbError \/ dbErrs' = dbErrs
           /\ UNCHANGED <<now, kill, lastPub, unstored, ticks, candles,
                          orders, entries, exits, inbox, paused, ledger, risk, expired, crashes,
                          drops>>
<1>1. pc[t] \in QueryPCs
  BY DEF Query, LastTickQuery, OhlcvCloseQuery, FirstTickQuery, OhlcvOpenQuery,
         QueryPCs
<1>2. job[t] \in Jobs /\ job[t].coid \in Coids /\ Slug(t) \in Markets
  BY <1>1 DEF TypeOK, JobsTyped, SettlePCs, Slug, Coids
<1>3. job = [job EXCEPT ![t] = job[t]]
  BY DEF TypeOK
<1>4. ASSUME GiveUpOrReturn(t) PROVE Proceeds(t) \/ GivesUp(t)
  BY <1>2, <1>3, <1>4 DEF GiveUpOrReturn, Proceeds, GivesUp, Cleaned, Goto
<1>5. ASSUME NEW ts \in Nat, PriceFound(t, ts) PROVE Proceeds(t)
  <2>1. [job[t] EXCEPT !.ts = ts] \in Jobs
    BY <1>2 DEF Jobs
  <2>. QED
    BY <1>2, <1>5, <2>1 DEF PriceFound, Proceeds, Goto, QueryPCs, Jobs
<1>6. ASSUME NEW w \in QueryPCs \cup {Return(t)}, Goto(t, w),
             UNCHANGED <<job, positions, lastTickAt, dropped>>
      PROVE  Proceeds(t)
  BY <1>2, <1>3, <1>6 DEF Proceeds, Goto
<1>7. ASSUME PopPosition(t), UNCHANGED <<lastTickAt, dropped>>
      PROVE  Proceeds(t) \/ Pops(t)
  <2>1. CASE positions[Slug(t)] = NoPos
    BY <1>6, <1>7, <2>1 DEF PopPosition
  <2>2. CASE positions[Slug(t)] # NoPos
    <3>1. positions[Slug(t)] \in Coids
      BY <1>2, <2>2 DEF TypeOK
    <3>2. PICK won \in BOOLEAN :
            job' = [job EXCEPT ![t].coid = positions[Slug(t)], ![t].won = won]
      BY <1>7, <2>2 DEF PopPosition
    <3>. DEFINE j == [job[t] EXCEPT !.coid = positions[Slug(t)], !.won = won]
    <3>3. j \in Jobs /\ j.coid = positions[Slug(t)]
      BY <1>2, <3>1 DEF Jobs
    <3>4. job' = [job EXCEPT ![t] = j]
      BY <3>2 DEF TypeOK
    <3>. QED
      BY <1>7, <2>2, <3>3, <3>4 DEF PopPosition, Pops, Goto
  <2>. QED
    BY <2>1, <2>2
<1>8. CASE LastTickQuery(t)
  <2>1. WindowTicks(Slug(t)) # {} => Latest(WindowTicks(Slug(t))) \in Nat
    BY <1>2, LatestRow DEF WindowTicks, TypeOK
  <2>. QED
    BY <1>1, <1>2, <1>4, <1>5, <1>6, <1>8, <2>1
       DEF LastTickQuery, NoAnswer, recVars, dbVars, QueryPCs
<1>9. CASE OhlcvCloseQuery(t)
  BY <1>1, <1>2, <1>4, <1>5, <1>9, ConstantTypes
     DEF OhlcvCloseQuery, NoAnswer, recVars, dbVars, CloseTs
<1>10. CASE FirstTickQuery(t)
  BY <1>1, <1>2, <1>6, <1>7, <1>10
     DEF FirstTickQuery, NoAnswer, recVars, dbVars, QueryPCs
<1>11. CASE OhlcvOpenQuery(t)
  BY <1>1, <1>2, <1>6, <1>7, <1>11
     DEF OhlcvOpenQuery, NoAnswer, recVars, dbVars, QueryPCs
<1>. QED
  BY <1>8, <1>9, <1>10, <1>11 DEF Query

\* Every step that leaves a call suspended leaves it with an order.
LEMMA JobsStep ==
    ASSUME TypeOK, JobsTyped, [Next]_vars
    PROVE  JobsTyped'
<1>. USE ConstantTypes DEF Tasks, JobsTyped, EntryPCs, SettlePCs, QueryPCs,
                           PayoutPCs, Goto
<1>1. CASE UNCHANGED <<pc, job>>
  BY <1>1
<1>2. CASE pc' = [t \in Tasks |-> "down"]
  BY <1>2
<1>3. CASE Boot \/ Disconnect
  BY <1>3 DEF Boot, Start, RehydratePauseState, RehydrateTradeTaken,
              BootstrapDailyPnl, Subscribe, Disconnect, TypeOK
<1>4. ASSUME NEW tk, TickSettle(tk) PROVE JobsTyped'
  <2>1. tk.slug \in Markets
    BY <1>4, ReceiveType DEF TickSettle
  <2>2. positions[tk.slug] \in Coids
    BY <1>4, <2>1 DEF TickSettle, TypeOK
  <2>3. /\ pc' = [pc EXCEPT !["main"] = "last_tick"]
        /\ job' = [job EXCEPT !["main"] =
                 [NoJob EXCEPT !.coid = positions[tk.slug], !.now = now]]
    BY <1>4 DEF TickSettle
  <2>. QED
    BY <2>2, <2>3 DEF TypeOK, NoJob
<1>5. ASSUME NEW tk, TickSubmit(tk) PROVE JobsTyped'
  <2>1. tk \in Coids
    BY <1>5, ReceiveType DEF TickSubmit
  <2>2. /\ pc' = [pc EXCEPT !["main"] = "order"]
        /\ job' = [job EXCEPT !["main"] = [NoJob EXCEPT !.coid = tk]]
    BY <1>5 DEF TickSubmit
  <2>. QED
    BY <2>1, <2>2 DEF TypeOK, NoJob
<1>6. CASE Enter
  BY <1>6 DEF Enter, OrderUpsert, EntryFillUpsert, EntryPersistError,
              OpenPosition, TypeOK
<1>7. CASE WatchdogWake
  BY <1>7 DEF WatchdogWake, TypeOK
<1>8. ASSUME NEW c \in expired, WatchdogNext(c) PROVE JobsTyped'
  BY <1>8 DEF WatchdogNext, TypeOK, Jobs
<1>9. ASSUME NEW t \in Tasks, Settle(t) PROVE JobsTyped'
  <2>1. CASE Query(t)
    <3>1. Slug(t) \in Markets /\ pc[t] \in QueryPCs
          /\ (Proceeds(t) \/ GivesUp(t) \/ Pops(t))
      BY <2>1, QueryStep
    <3>2. CASE Proceeds(t)
      BY <3>1, <3>2 DEF Proceeds, TypeOK
    <3>3. CASE GivesUp(t)
      BY <3>1, <3>3 DEF GivesUp, TypeOK
    <3>4. CASE Pops(t)
      BY <3>1, <3>4 DEF Pops, TypeOK
    <3>. QED
      BY <3>1, <3>2, <3>3, <3>4
  <2>2. CASE ExitFillUpsert(t) \/ BookPnl(t) \/ CleanupMarket(t)
    BY <2>2 DEF ExitFillUpsert, BookPnl, CleanupMarket, memVars, Return, TypeOK
  <2>. QED
    BY <1>9, <2>1, <2>2 DEF Settle, Query
<1>10. ASSUME NEW tk, HandleTick(tk) PROVE JobsTyped'
  BY <1>1, <1>4, <1>5, <1>10
     DEF HandleTick, TickPaused, TickHolding, TickTaken, TickOutOfWindow,
         TickNoEntry, taskVars
<1>11. CASE Environment
  BY <1>1, <1>2, <1>3, <1>11
     DEF Environment, Clock, ToggleKill, Crash, RecordTick, StoreTicks,
         IngestCandle, taskVars
<1>12. CASE HandleControl \/ OrphanCleanup
  BY <1>1, <1>12 DEF HandleControl, OrphanCleanup, taskVars
<1>. QED
  BY <1>1, <1>3, <1>6, <1>7, <1>8, <1>9, <1>10, <1>11, <1>12
     DEF Next, Listen, Watchdog, vars, taskVars

LEMMA TypeStep ==
    TypeInv /\ [Next]_vars => TypeInv'
<1>. SUFFICES ASSUME TypeInv, [Next]_vars PROVE (TypeOK /\ FiniteTables)'
  BY JobsStep DEF TypeInv
<1>. USE ConstantTypes DEF TypeInv, Ledgers, recVars, dbVars, memVars, taskVars,
                          faultVars
<1>1. CASE Clock
  BY <1>1 DEF Clock, TypeOK, FiniteTables
<1>2. CASE ToggleKill
  BY <1>2 DEF ToggleKill, TypeOK, FiniteTables
<1>3. ASSUME NEW m \in Markets, RecordTick(m) PROVE (TypeOK /\ FiniteTables)'
  <2>1. Coid(m, now) \in Coids
    BY DEF TypeOK, Coid, Coids
  <2>2. inbox' \in Seq(Coids)
    <3>1. Append(inbox, Coid(m, now)) \in Seq(Coids)
      BY <2>1, AppendProperties DEF TypeOK
    <3>. QED
      BY <1>3, <3>1 DEF RecordTick, TypeOK
  <2>3. unstored' \subseteq Coids
    BY <1>3, <2>1 DEF RecordTick, TypeOK
  <2>4. drops' \in Nat
    BY <1>3 DEF RecordTick, TypeOK
  <2>5. lastPub' \in [Markets -> Nat \cup {NoTick}]
    BY <1>3 DEF RecordTick, TypeOK
  <2>6. /\ UNCHANGED <<now, kill, ticks, candles, orders, entries, exits>>
        /\ UNCHANGED <<paused, positions, ledger, lastTickAt, pc, job, expired>>
        /\ UNCHANGED <<dropped, crashes, dbErrs>>
    BY <1>3 DEF RecordTick
  <2>7. TypeOK'
    BY <2>2, <2>3, <2>4, <2>5, <2>6 DEF TypeOK
  <2>. QED
    BY <2>6, <2>7 DEF FiniteTables
<1>4. ASSUME NEW c \in CandleTimes, IngestCandle(c) PROVE (TypeOK /\ FiniteTables)'
  BY <1>4 DEF IngestCandle, TypeOK, FiniteTables
<1>5. CASE Crash
  <2>1. inbox' \in Seq(Coids)
    BY <1>5, EmptyInbox DEF Crash
  <2>2. /\ ledger' \in Ledgers
        /\ positions' \in [Markets -> Coids \cup {NoPos}]
        /\ lastTickAt' \in [Markets -> Nat \cup {NoTick}]
    BY <1>5 DEF Crash, FreshLedger, NoDay
  <2>3. pc' \in [Tasks -> MainPCs \cup WdPCs] /\ job' \in [Tasks -> Jobs]
    BY <1>5 DEF Crash, NoJob, Jobs, MainPCs
  <2>4. /\ expired' \subseteq Coids /\ unstored' \subseteq Coids
        /\ paused' \in BOOLEAN /\ kill' \in BOOLEAN
    BY <1>5 DEF Crash, TypeOK
  <2>5. /\ crashes' = crashes + 1
        /\ UNCHANGED <<now, lastPub, dropped, dbErrs, drops>>
        /\ UNCHANGED <<ticks, candles, orders, entries, exits>>
    BY <1>5 DEF Crash
  <2>6. FiniteTables'
    BY <2>5 DEF FiniteTables
  <2>7. TypeOK'
    BY <2>1, <2>2, <2>3, <2>4, <2>5 DEF TypeOK
  <2>. QED
    BY <2>6, <2>7
<1>6. CASE Disconnect
  <2>1. inbox' \in Seq(Coids)
    BY <1>6, EmptyInbox DEF Disconnect
  <2>2. pc' = [pc EXCEPT !["main"] = "connect"] /\ drops' = drops + 1
    BY <1>6 DEF Disconnect, Goto
  <2>3. /\ UNCHANGED <<now, lastPub, unstored, dropped, crashes, dbErrs, job,
                       expired>>
        /\ UNCHANGED <<ticks, candles, orders, entries, exits>>
        /\ UNCHANGED <<kill, paused, positions, ledger, lastTickAt>>
    BY <1>6 DEF Disconnect
  <2>4. pc' \in [Tasks -> MainPCs \cup WdPCs]
    BY <2>2 DEF TypeOK, MainPCs
  <2>5. FiniteTables'
    BY <2>3 DEF FiniteTables
  <2>6. drops' \in Nat
    BY <2>2 DEF TypeOK
  <2>7. TypeOK'
    BY <2>1, <2>3, <2>4, <2>6 DEF TypeOK
  <2>. QED
    BY <2>5, <2>7
<1>7. CASE Start
  BY <1>7 DEF Start, Goto, TypeOK, FiniteTables, MainPCs, BootPCs
<1>8. CASE RehydratePauseState
  <2>1. paused' \in BOOLEAN /\ dbErrs' \in Nat
    BY <1>8, DbErrsType DEF RehydratePauseState, TypeOK
  <2>. QED
    BY <1>8, <2>1 DEF RehydratePauseState, Goto, TypeOK, FiniteTables, MainPCs,
                      BootPCs
<1>9. CASE RehydrateTradeTaken
  <2>1. RecentSlugs \subseteq Markets
    <3>1. \A o \in orders : o.slug \in Markets
      BY DEF TypeOK, Coids
    <3>. QED
      BY <3>1 DEF RecentSlugs
  <2>2. ledger' \in Ledgers
    BY <1>9, <2>1 DEF RehydrateTradeTaken, TypeOK
  <2>3. dbErrs' \in Nat
    BY <1>9, DbErrsType DEF RehydrateTradeTaken
  <2>. QED
    BY <1>9, <2>2, <2>3 DEF RehydrateTradeTaken, Goto, TypeOK, FiniteTables,
                            MainPCs, BootPCs
<1>10. CASE BootstrapDailyPnl
  <2>1. /\ SettledPnl({e \in exits : e.ts >= now - DayLen}) \in Int
        /\ Cardinality({c \in entries : c.ts >= now - DayLen}) \in Nat
    BY FS_Subset, FS_CardinalityType, SettledPnlType DEF FiniteTables
  <2>2. ledger' \in Ledgers
    BY <1>10, <2>1 DEF BootstrapDailyPnl, TypeOK
  <2>3. dbErrs' \in Nat
    BY <1>10, DbErrsType DEF BootstrapDailyPnl
  <2>4. pc' \in [Tasks -> MainPCs \cup WdPCs]
    BY <1>10 DEF BootstrapDailyPnl, MainPCs, WdPCs, Tasks
  <2>. QED
    BY <1>10, <2>2, <2>3, <2>4 DEF BootstrapDailyPnl, TypeOK, FiniteTables
<1>11. CASE Subscribe
  BY <1>11 DEF Subscribe, Goto, TypeOK, FiniteTables, MainPCs
<1>12. CASE HandleControl
  BY <1>12 DEF HandleControl, TypeOK, FiniteTables
<1>13. ASSUME NEW tk, HandleTick(tk) PROVE (TypeOK /\ FiniteTables)'
  <2>1. Receive(tk)
    BY <1>13 DEF HandleTick, TickPaused, TickHolding, TickSettle, TickTaken,
                 TickOutOfWindow, TickNoEntry, TickSubmit
  <2>. USE <2>1, ReceiveType, LedgerType DEF NoTick
  <2>2. CASE TickPaused(tk)
    BY <2>2 DEF TickPaused, Buffered, TypeOK, FiniteTables
  <2>3. CASE TickHolding(tk)
    BY <2>3 DEF TickHolding, Buffered, TypeOK, FiniteTables
  <2>4. CASE TickSettle(tk)
    BY <2>4 DEF TickSettle, Buffered, Goto, TypeOK, FiniteTables, MainPCs,
                SettlePCs, QueryPCs, NoJob, Jobs
  <2>5. CASE TickTaken(tk)
    <3>1. lastTickAt' \in [Markets -> Nat \cup {NoTick}]
      BY <2>5 DEF TickTaken, Buffered, Cleaned, TypeOK
    <3>2. ledger' \in Ledgers
      <4>. DEFINE L == Gated(tk)
      <4>1. L \in Ledgers
        OBVIOUS
      <4>2. ledger' = L \/ ledger' = [L EXCEPT !.trade_taken = @ \ {tk.slug}]
        BY <2>5 DEF TickTaken
      <4>. HIDE DEF L
      <4>. QED
        BY <4>1, <4>2
    <3>. QED
      BY <2>5, <3>1, <3>2 DEF TickTaken, TypeOK, FiniteTables
  <2>6. CASE TickOutOfWindow(tk)
    BY <2>6 DEF TickOutOfWindow, Buffered, Cleaned, TypeOK, FiniteTables
  <2>7. CASE TickNoEntry(tk)
    BY <2>7 DEF TickNoEntry, Buffered, TypeOK, FiniteTables
  <2>8. CASE TickSubmit(tk)
    BY <2>8 DEF TickSubmit, Buffered, Goto, TypeOK, FiniteTables, MainPCs,
                EntryPCs, NoJob, Jobs
  <2>. QED
    BY <1>13, <2>2, <2>3, <2>4, <2>5, <2>6, <2>7, <2>8 DEF HandleTick
<1>14. CASE OrderUpsert
  <2>1. job["main"].coid \in Coids
    BY <1>14 DEF OrderUpsert, JobsTyped, EntryPCs, Tasks
  <2>. QED
    BY <1>14, <2>1 DEF OrderUpsert, Goto, TypeOK, FiniteTables, MainPCs,
                       EntryPCs
<1>15. CASE EntryFillUpsert
  <2>1. job["main"].coid \in Coids
    BY <1>15 DEF EntryFillUpsert, JobsTyped, EntryPCs, Tasks
  <2>2. IsFiniteSet(entries')
    BY <1>15, FS_AddElement DEF EntryFillUpsert, FiniteTables
  <2>. QED
    BY <1>15, <2>1, <2>2 DEF EntryFillUpsert, Goto, TypeOK, FiniteTables,
                             MainPCs, EntryPCs
<1>16. CASE EntryPersistError
  <2>1. job["main"].coid \in Coids
    BY <1>16 DEF EntryPersistError, JobsTyped, EntryPCs, Tasks
  <2>2. orders' \subseteq Coids /\ entries' \subseteq Coids
    BY <1>16, <2>1 DEF EntryPersistError, TypeOK
  <2>3. IsFiniteSet(entries')
    BY <1>16, FS_AddElement DEF EntryPersistError, FiniteTables
  <2>4. dbErrs' \in Nat
    BY <1>16, DbErrsType DEF EntryPersistError
  <2>. QED
    BY <1>16, <2>2, <2>3, <2>4 DEF EntryPersistError, Goto, TypeOK,
                                   FiniteTables, MainPCs
<1>17. CASE OpenPosition
  <2>1. job["main"].coid \in Coids /\ job["main"].coid.slug \in Markets
    BY <1>17 DEF OpenPosition, JobsTyped, EntryPCs, Tasks, Coids
  <2>2. ledger' \in Ledgers
    BY <1>17, <2>1, LedgerUpdate DEF OpenPosition, TypeOK
  <2>3. positions' \in [Markets -> Coids \cup {NoPos}]
    BY <1>17, <2>1 DEF OpenPosition, TypeOK
  <2>. QED
    BY <1>17, <2>2, <2>3 DEF OpenPosition, Goto, TypeOK, FiniteTables, MainPCs
<1>18. CASE WatchdogWake
  <2>1. expired' \subseteq Coids
    BY <1>18 DEF WatchdogWake, Expired, TypeOK
  <2>2. job' \in [Tasks -> Jobs]
    BY <1>18 DEF WatchdogWake, TypeOK, NoJob, Jobs
  <2>. QED
    BY <1>18, <2>1, <2>2 DEF WatchdogWake, Goto, TypeOK, FiniteTables, WdPCs
<1>19. ASSUME NEW c \in expired, WatchdogNext(c)
       PROVE  (TypeOK /\ FiniteTables)'
  <2>1. job' \in [Tasks -> Jobs]
    <3>1. c \in Coids /\ job \in [Tasks -> Jobs]
      BY DEF TypeOK
    <3>2. job' = [job EXCEPT !["wd"].coid = c]
      BY <1>19 DEF WatchdogNext
    <3>. QED
      BY <3>1, <3>2 DEF Jobs, Tasks
  <2>. QED
    BY <1>19, <2>1 DEF WatchdogNext, Goto, TypeOK, FiniteTables, WdPCs,
                       SettlePCs, QueryPCs
<1>20. ASSUME NEW t \in Tasks, Settle(t) PROVE (TypeOK /\ FiniteTables)'
  <2>1. pc[t] \in SettlePCs /\ Slug(t) \in Markets /\ job[t].coid \in Coids
    <3>1. pc[t] \in SettlePCs
      BY <1>20 DEF Settle, LastTickQuery, OhlcvCloseQuery, FirstTickQuery,
         OhlcvOpenQuery, ExitFillUpsert, BookPnl, CleanupMarket, SettlePCs,
         QueryPCs, PayoutPCs
    <3>. QED
      BY <3>1 DEF JobsTyped, Slug, Coids
  <2>2. {Return(t), "exit_row", "ledger", "notify"} \cup QueryPCs
           \subseteq MainPCs \cup WdPCs
    BY DEF Return, MainPCs, WdPCs, SettlePCs, PayoutPCs
  <2>3. CASE Query(t)
    <3>1. /\ Proceeds(t) \/ GivesUp(t) \/ Pops(t)
          /\ UNCHANGED <<now, kill, lastPub, unstored, ticks, candles, orders,
                         entries, exits, inbox, paused, ledger, expired,
                         crashes, drops>>
      BY <2>3, QueryStep
    <3>2. dbErrs' \in Nat
      BY <2>3, QueryStep, DbErrsType
    <3>3. pc' \in [Tasks -> MainPCs \cup WdPCs]
      BY <2>2, <3>1 DEF Proceeds, GivesUp, Pops, TypeOK
    <3>4. job' \in [Tasks -> Jobs]
      BY <3>1 DEF Proceeds, GivesUp, Pops, TypeOK
    <3>5. /\ positions' \in [Markets -> Coids \cup {NoPos}]
          /\ lastTickAt' \in [Markets -> Nat \cup {NoTick}]
      BY <3>1 DEF Proceeds, GivesUp, Pops, TypeOK
    <3>6. dropped' \subseteq Coids
      BY <2>1, <3>1 DEF Proceeds, GivesUp, Pops, TypeOK
    <3>7. TypeOK'
      BY <3>1, <3>2, <3>3, <3>4, <3>5, <3>6 DEF TypeOK
    <3>. QED
      BY <3>1, <3>7 DEF FiniteTables
  <2>4. CASE ExitFillUpsert(t)
    <3>1. ExitRow(t) \in Exits
      BY <2>1 DEF ExitRow, Exits, TypeOK, Jobs
    <3>2. exits' \in {exits, exits \cup {ExitRow(t)}}
      BY <2>4 DEF ExitFillUpsert
    <3>3. IsFiniteSet(exits')
      BY <3>2, FS_AddElement DEF FiniteTables
    <3>4. dbErrs' \in Nat
      BY <2>4, DbErrsType DEF ExitFillUpsert
    <3>. QED
      BY <2>2, <2>4, <3>1, <3>2, <3>3, <3>4
         DEF ExitFillUpsert, Goto, TypeOK, FiniteTables
  <2>5. CASE BookPnl(t)
    <3>1. Pnl(job[t].won) \in Int
      BY DEF Pnl
    <3>2. ledger' \in Ledgers
      <4>. DEFINE p == Pnl(job[t].won)
      <4>1. ledger' = [ledger EXCEPT !.daily_pnl = @ + p]
        BY <2>5 DEF BookPnl
      <4>2. ledger \in Ledgers
        BY DEF TypeOK
      <4>3. p \in Int
        BY <3>1
      <4>. HIDE DEF p
      <4>. QED
        BY <4>1, <4>2, <4>3
    <3>. QED
      BY <2>2, <2>5, <3>2 DEF BookPnl, Goto, TypeOK, FiniteTables
  <2>6. CASE CleanupMarket(t)
    BY <2>1, <2>2, <2>6 DEF CleanupMarket, Cleaned, Goto, TypeOK, FiniteTables
  <2>. QED
    BY <1>20, <2>3, <2>4, <2>5, <2>6 DEF Settle, Query
<1>21. CASE OrphanCleanup
  BY <1>21 DEF OrphanCleanup, TypeOK, FiniteTables
<1>22. CASE StoreTicks
  <2>1. PICK stored \in StoreOutcomes : ticks' =
           IF stored
           THEN [m \in Markets |->
                   ticks[m] \cup {c.ts : c \in {d \in unstored : d.slug = m}}]
           ELSE ticks
    BY <1>22 DEF StoreTicks
  <2>2. \A c \in unstored : c.ts \in Nat
    BY DEF TypeOK, Coids
  <2>3. ticks' \in [Markets -> SUBSET Nat]
    BY <2>1, <2>2 DEF TypeOK
  <2>. QED
    BY <1>22, <2>3 DEF StoreTicks, TypeOK, FiniteTables
<1>23. CASE UNCHANGED vars
  BY <1>23 DEF vars, TypeOK, FiniteTables
<1>. QED
  BY <1>1, <1>2, <1>3, <1>4, <1>5, <1>6, <1>7, <1>8, <1>9, <1>10, <1>11, <1>12,
     <1>13, <1>14, <1>15, <1>16, <1>17, <1>18, <1>19, <1>20, <1>21, <1>22,
     <1>23
     DEF Next, Environment, Boot, Listen, Enter, Watchdog

LEMMA TypeInit == Init => TypeInv
<1>. SUFFICES ASSUME Init PROVE TypeInv
  OBVIOUS
<1>1. FiniteTables
  BY FS_EmptySet DEF Init, FiniteTables
<1>2. JobsTyped
  BY DEF Init, JobsTyped, Tasks, EntryPCs, SettlePCs, QueryPCs, PayoutPCs
<1>3. ledger \in Ledgers
  BY DEF Init, FreshLedger, NoDay, Ledgers
<1>4. pc \in [Tasks -> MainPCs \cup WdPCs] /\ job \in [Tasks -> Jobs]
  BY DEF Init, NoJob, Jobs, MainPCs
<1>5. inbox \in Seq(Coids)
  BY EmptyInbox DEF Init
<1>6. TypeOK
  BY <1>3, <1>4, <1>5 DEF Init, TypeOK
<1>. QED
  BY <1>1, <1>2, <1>6 DEF TypeInv

\* Every variable of the driver keeps its type, whatever the schedule.
THEOREM TypeCorrect == Spec => []TypeOK
<1>1. Spec => []TypeInv
  BY TypeInit, TypeStep, PTL DEF Spec
<1>2. TypeInv => TypeOK
  BY DEF TypeInv
<1>. QED
  BY <1>1, <1>2, PTL

-----------------------------------------------------------------------------
(* The life of an order: submitted once, entered, opened, popped, settled. *)

\* Order ids taken: stored, or on their way to the table.
Used == orders \cup (IF pc["main"] = "order" THEN {job["main"].coid} ELSE {})

\* A client_order_id is never used twice: the recorder publishes a market's
\* ticks in increasing order, and every tick is read at most once.
TicksFresh ==
    /\ \A c \in Used : c.ts <= lastPub[c.slug]
    /\ \A i \in 1..Len(inbox) : /\ inbox[i].ts <= lastPub[inbox[i].slug]
                                /\ inbox[i] \notin Used
    /\ \A i, j \in 1..Len(inbox) : inbox[i] = inbox[j] => i = j

IsOpen(c) == \E m \in Markets : positions[m] = c

\* What each await of try_enter knows of its order.
EntryStages ==
    /\ pc["main"] = "order" => job["main"].coid \notin orders
    /\ pc["main"] = "fill" => job["main"].coid \in orders \ entries
    /\ pc["main"] = "opened" =>
          /\ job["main"].coid \in entries \ Settled
          /\ ~IsOpen(job["main"].coid)
          /\ pc["wd"] = "exit_row" => job["wd"].coid # job["main"].coid

\* An open position is entered, not settled, and filed under its own slug.
OpenUnsettled ==
    \A m \in Markets : positions[m] # NoPos =>
       positions[m].slug = m /\ positions[m] \in entries \ Settled

\* A task about to insert a settle fill is the only one to know its order.
PayoutExclusive ==
    /\ \A t \in Tasks : pc[t] = "exit_row" =>
          job[t].coid \in entries \ Settled /\ ~IsOpen(job[t].coid)
    /\ \A t, u \in Tasks :
          pc[t] = "exit_row" /\ pc[u] = "exit_row"
             /\ job[t].coid = job[u].coid => t = u

LifeInv == /\ entries \subseteq orders /\ Settled \subseteq entries
           /\ EntryStages /\ OpenUnsettled /\ PayoutExclusive /\ SettledOnce

SafetyInv == TypeInv /\ TicksFresh /\ LifeInv

\* Nothing new is published or submitted.
LEMMA TicksFrame ==
    ASSUME TicksFresh, Used' \subseteq Used, lastPub' = lastPub,
           inbox' = inbox \/ inbox' = << >>
    PROVE  TicksFresh'
<1>1. CASE inbox' = inbox
  BY <1>1 DEF TicksFresh
<1>2. CASE inbox' = << >>
  BY <1>2 DEF TicksFresh
<1>. QED
  BY <1>1, <1>2

\* A tick leaves the queue; it may become the id of an order.
LEMMA TicksReceive ==
    ASSUME TypeOK, TicksFresh, NEW tk, Receive(tk), lastPub' = lastPub,
           Used' \subseteq Used \cup {tk}
    PROVE  TicksFresh'
<1>1. inbox \in Seq(Coids) /\ inbox # << >> /\ tk = inbox[1]
      /\ inbox' = Tail(inbox)
  BY DEF Receive, TypeOK
<1>2. /\ Len(inbox') = Len(inbox) - 1 /\ Len(inbox) \in Nat
      /\ \A i \in 1..Len(inbox') : inbox'[i] = inbox[i + 1]
  BY <1>1, HeadTailProperties
<1>3. 1 \in 1..Len(inbox)
  BY <1>1, <1>2, EmptySeq
<1>4. \A c \in Used' : c.ts <= lastPub'[c.slug]
  BY <1>1, <1>3 DEF TicksFresh
<1>5. ASSUME NEW i \in 1..Len(inbox')
      PROVE  /\ inbox'[i].ts <= lastPub'[inbox'[i].slug]
             /\ inbox'[i] \notin Used'
  <2>1. i + 1 \in 1..Len(inbox) /\ i + 1 # 1 /\ inbox'[i] = inbox[i + 1]
    BY <1>2
  <2>2. inbox[i + 1] # tk
    BY <1>1, <1>3, <2>1 DEF TicksFresh
  <2>. QED
    BY <2>1, <2>2 DEF TicksFresh
<1>6. ASSUME NEW i \in 1..Len(inbox'), NEW j \in 1..Len(inbox'),
             inbox'[i] = inbox'[j]
      PROVE  i = j
  <2>1. /\ i + 1 \in 1..Len(inbox) /\ inbox'[i] = inbox[i + 1]
        /\ j + 1 \in 1..Len(inbox) /\ inbox'[j] = inbox[j + 1]
    BY <1>2
  <2>2. i + 1 = j + 1
    BY <1>6, <2>1 DEF TicksFresh
  <2>. QED
    BY <2>2
<1>. QED
  BY <1>4, <1>5, <1>6 DEF TicksFresh

\* The recorder's clock moves on, so a new tick differs from everything seen.
LEMMA TicksRecord ==
    ASSUME TypeOK, JobsTyped, TicksFresh, NEW m \in Markets, RecordTick(m)
    PROVE  TicksFresh'
<1>. DEFINE tk == Coid(m, now)
<1>1. /\ lastPub' = [lastPub EXCEPT ![m] = now] /\ lastPub[m] < now
      /\ inbox' = inbox \/ inbox' = Append(inbox, tk)
      /\ UNCHANGED <<orders, pc, job>>
  BY DEF RecordTick, dbVars, taskVars
<1>2. Used' = Used
  BY <1>1 DEF Used
<1>3. Used \subseteq Coids
  BY DEF Used, TypeOK, JobsTyped, EntryPCs, Tasks
<1>4. ASSUME NEW c \in Coids, c.ts <= lastPub[c.slug]
      PROVE  c.ts <= lastPub'[c.slug] /\ c # tk
  <2>1. /\ now \in Nat /\ lastPub[m] \in Int /\ c.ts \in Nat
        /\ c.slug \in Markets /\ lastPub \in [Markets -> Nat \cup {NoTick}]
    BY DEF TypeOK, Coids, NoTick
  <2>2. CASE c.slug = m
    BY <1>1, <1>4, <2>1, <2>2 DEF Coid
  <2>3. CASE c.slug # m
    BY <1>1, <1>4, <2>1, <2>3 DEF Coid
  <2>. QED
    BY <2>2, <2>3
<1>5. \A c \in Used' : c.ts <= lastPub'[c.slug]
  BY <1>2, <1>3, <1>4 DEF TicksFresh
<1>6. inbox \in Seq(Coids)
  BY DEF TypeOK
<1>7. \A i \in 1..Len(inbox) : inbox[i] \in Coids
  BY <1>6
<1>8. \A i \in 1..Len(inbox) : /\ inbox[i].ts <= lastPub'[inbox[i].slug]
                               /\ inbox[i] # tk /\ inbox[i] \notin Used'
  BY <1>2, <1>4, <1>7 DEF TicksFresh
<1>9. CASE inbox' = inbox
  BY <1>5, <1>8, <1>9 DEF TicksFresh
<1>10. CASE inbox' = Append(inbox, tk)
  <2>1. tk \in Coids /\ tk.ts <= lastPub'[tk.slug]
    BY <1>1 DEF Coid, Coids, TypeOK
  <2>2. tk \notin Used'
    BY <1>2, <1>3, <1>4 DEF TicksFresh
  <2>3. /\ Len(inbox') = Len(inbox) + 1 /\ Len(inbox) \in Nat
        /\ inbox'[Len(inbox) + 1] = tk
        /\ \A i \in 1..Len(inbox) : inbox'[i] = inbox[i]
    BY <1>6, <1>10, <2>1, AppendProperties
  <2>4. \A i \in 1..Len(inbox') : i \in 1..Len(inbox) \/ i = Len(inbox) + 1
    BY <2>3
  <2>. HIDE DEF tk
  <2>5. \A i \in 1..Len(inbox') : /\ inbox'[i].ts <= lastPub'[inbox'[i].slug]
                                  /\ inbox'[i] \notin Used'
    BY <1>8, <2>1, <2>2, <2>3, <2>4
  <2>6. \A i, j \in 1..Len(inbox') : inbox'[i] = inbox'[j] => i = j
    BY <1>8, <2>3, <2>4 DEF TicksFresh
  <2>. QED
    BY <1>5, <2>5, <2>6 DEF TicksFresh
<1>. QED
  BY <1>1, <1>9, <1>10

\* How ticks move in a step: they stay or are lost with a connection, one is
\* read and may become an order, or one is published.
Quiet == /\ Used' \subseteq Used /\ lastPub' = lastPub
         /\ inbox' = inbox \/ inbox' = << >>
         /\ now' = now \/ (now' = now + 1 /\ unstored = {})
Reads(tk) == /\ Receive(tk) /\ Used' \subseteq Used \cup {tk}
             /\ UNCHANGED <<lastPub, now>>

LEMMA TickFlow ==
    ASSUME TypeOK, JobsTyped, [Next]_vars
    PROVE  Quiet \/ (\E tk : Reads(tk)) \/ \E m \in Markets : RecordTick(m)
<1>. USE DEF recVars, dbVars, memVars, taskVars, faultVars, Goto
<1>2. ASSUME NEW tk, HandleTick(tk) PROVE Reads(tk)
  <2>1. Receive(tk) /\ lastPub' = lastPub /\ orders' = orders /\ now' = now
    BY <1>2 DEF HandleTick, TickPaused, TickHolding, TickSettle, TickTaken,
                TickOutOfWindow, TickNoEntry, TickSubmit
  <2>2. CASE TickSubmit(tk)
    BY <2>1, <2>2 DEF TickSubmit, Used, TypeOK, NoJob, Tasks, Reads
  <2>3. CASE ~TickSubmit(tk)
    <3>1. pc'["main"] \in {"listen", "last_tick"}
      BY <1>2, <2>1, <2>3
         DEF HandleTick, TickPaused, TickHolding, TickSettle, TickTaken,
             TickOutOfWindow, TickNoEntry, TypeOK, Receive, Tasks
    <3>2. Used' \subseteq Used
      BY <2>1, <3>1 DEF Used
    <3>. QED
      BY <2>1, <3>2 DEF Reads
  <2>. QED
    BY <2>2, <2>3
<1>3. CASE Enter
  <2>1. lastPub' = lastPub /\ inbox' = inbox /\ now' = now
    BY <1>3 DEF Enter, OrderUpsert, EntryFillUpsert, EntryPersistError,
                OpenPosition
  <2>2. Used' \subseteq Used
    BY <1>3 DEF Enter, OrderUpsert, EntryFillUpsert, EntryPersistError,
                OpenPosition, Used, TypeOK, Tasks
  <2>. QED
    BY <2>1, <2>2 DEF Quiet
<1>4. ASSUME pc'["main"] # "order" \/ UNCHANGED <<pc, job>>, orders' = orders,
             lastPub' = lastPub, inbox' = inbox \/ inbox' = << >>,
             now' = now \/ (now' = now + 1 /\ unstored = {})
      PROVE  Quiet
  BY <1>4 DEF Used, Quiet
<1>5. CASE Boot \/ Disconnect \/ Crash
  <2>1. /\ orders' = orders /\ lastPub' = lastPub /\ now' = now
        /\ inbox' = inbox \/ inbox' = << >>
    BY <1>5 DEF Boot, Start, RehydratePauseState, RehydrateTradeTaken,
                BootstrapDailyPnl, Subscribe, Disconnect, Crash
  <2>2. pc'["main"] # "order"
    BY <1>5 DEF Boot, Start, RehydratePauseState, RehydrateTradeTaken,
                BootstrapDailyPnl, Subscribe, Disconnect, Crash, TypeOK, Tasks
  <2>. QED
    BY <1>4, <2>1, <2>2
<1>6. CASE Watchdog
  <2>1. /\ orders' = orders /\ lastPub' = lastPub /\ inbox' = inbox
        /\ pc'["main"] = pc["main"] /\ job'["main"] = job["main"]
        /\ now' = now
    BY <1>6 DEF Watchdog, WatchdogWake, WatchdogNext, TypeOK, Tasks
  <2>. QED
    BY <2>1 DEF Used, Quiet
<1>7. ASSUME NEW t \in Tasks, Settle(t) PROVE Quiet
  <2>1. orders' = orders /\ lastPub' = lastPub /\ inbox' = inbox /\ now' = now
    BY <1>7 DEF Settle, LastTickQuery, OhlcvCloseQuery, FirstTickQuery,
         OhlcvOpenQuery, ExitFillUpsert, BookPnl, CleanupMarket
  <2>2. pc'["main"] = "order" =>
           pc["main"] = "order" /\ job'["main"] = job["main"]
    <3>1. CASE Query(t)
      BY <3>1, QueryStep
         DEF Proceeds, GivesUp, Pops, QueryPCs, Return, TypeOK, Tasks
    <3>2. CASE ExitFillUpsert(t) \/ BookPnl(t) \/ CleanupMarket(t)
      BY <3>2 DEF ExitFillUpsert, BookPnl, CleanupMarket, Return, TypeOK, Tasks
    <3>. QED
      BY <1>7, <3>1, <3>2 DEF Settle, Query
  <2>3. Used' \subseteq Used
    BY <2>1, <2>2 DEF Used
  <2>. QED
    BY <2>1, <2>3 DEF Quiet
<1>8. CASE Clock \/ ToggleKill \/ StoreTicks \/ HandleControl \/ OrphanCleanup
  BY <1>4, <1>8 DEF Clock, ToggleKill, StoreTicks, HandleControl, OrphanCleanup
<1>9. ASSUME NEW c \in CandleTimes, IngestCandle(c) PROVE Quiet
  BY <1>4, <1>9 DEF IngestCandle
<1>10. CASE UNCHANGED vars
  BY <1>4, <1>10 DEF vars
<1>. QED
  BY <1>2, <1>3, <1>5, <1>6, <1>7, <1>8, <1>9, <1>10
     DEF Next, Environment, Listen

LEMMA TicksStep ==
    ASSUME TypeOK, JobsTyped, TicksFresh, [Next]_vars
    PROVE  TicksFresh'
BY TickFlow, TicksFrame, TicksReceive, TicksRecord DEF Quiet, Reads

\* Steps that touch neither the tables nor an order between two awaits; a
\* position may be given up.
LEMMA LifeFrame ==
    ASSUME LifeInv, TypeOK, JobsTyped, UNCHANGED <<orders, entries, exits>>,
           \A m \in Markets : positions'[m] \in {positions[m], NoPos},
           \A t \in Tasks :
              \/ pc'[t] = pc[t] /\ job'[t].coid = job[t].coid
              \/ pc'[t] \notin EntryPCs \cup {"exit_row"}
    PROVE  LifeInv'
<1>1. Settled' = Settled
  BY DEF Settled
<1>2. \A c \in Coids : IsOpen(c)' => IsOpen(c)
  BY ConstantTypes DEF IsOpen
<1>3. \A t \in Tasks : pc[t] \in EntryPCs \cup {"exit_row"} =>
         job[t].coid \in Coids
  BY DEF JobsTyped, SettlePCs, PayoutPCs
<1>4. EntryStages'
  BY <1>1, <1>2, <1>3 DEF LifeInv, EntryStages, EntryPCs, Tasks
<1>5. OpenUnsettled'
  BY <1>1 DEF LifeInv, OpenUnsettled
<1>6. PayoutExclusive'
  BY <1>1, <1>2, <1>3 DEF LifeInv, PayoutExclusive, Tasks
<1>. QED
  BY <1>1, <1>4, <1>5, <1>6 DEF LifeInv, SettledOnce

\* A submitted order is new, because its tick was.
LEMMA LifeSubmit ==
    ASSUME LifeInv, TypeOK, JobsTyped, TicksFresh, NEW tk, TickSubmit(tk)
    PROVE  LifeInv'
<1>1. tk \notin orders
  <2>1. inbox \in Seq(Coids) /\ inbox # << >> /\ tk = inbox[1]
    BY DEF TypeOK, TickSubmit, Receive
  <2>2. 1 \in 1..Len(inbox)
    BY <2>1, EmptySeq
  <2>. QED
    BY <2>1, <2>2 DEF TicksFresh, Used
<1>2. /\ pc' = [pc EXCEPT !["main"] = "order"]
      /\ job' = [job EXCEPT !["main"] = [NoJob EXCEPT !.coid = tk]]
      /\ UNCHANGED <<orders, entries, exits, positions>>
  BY DEF TickSubmit, Goto, dbVars
<1>3. /\ pc'["main"] = "order" /\ job'["main"].coid = tk
      /\ pc'["wd"] = pc["wd"] /\ job'["wd"] = job["wd"]
  BY <1>2 DEF TypeOK, Tasks, NoJob
<1>4. Settled' = Settled /\ \A c : IsOpen(c)' = IsOpen(c)
  BY <1>2 DEF Settled, IsOpen
<1>5. EntryStages'
  BY <1>1, <1>2, <1>3 DEF EntryStages
<1>6. OpenUnsettled'
  BY <1>2, <1>4 DEF LifeInv, OpenUnsettled
<1>7. PayoutExclusive'
  BY <1>2, <1>3, <1>4 DEF LifeInv, PayoutExclusive, Tasks, IsOpen
<1>. QED
  BY <1>2, <1>4, <1>5, <1>6, <1>7 DEF LifeInv, SettledOnce

\* try_enter's inserts, complete or failing, and the new position.
LEMMA LifeEnter ==
    ASSUME LifeInv, TypeOK, JobsTyped, Enter
    PROVE  LifeInv'
<1>. DEFINE c == job["main"].coid
<1>. USE DEF dbVars, memVars, Goto
<1>1. /\ job' = job /\ exits' = exits /\ pc'["wd"] = pc["wd"]
      /\ pc["main"] \in EntryPCs
      /\ entries \subseteq entries' /\ orders \subseteq orders'
  BY DEF Enter, OrderUpsert, EntryFillUpsert, EntryPersistError, OpenPosition,
         TypeOK, Tasks, EntryPCs
<1>2. c \in Coids /\ c # NoPos /\ c.slug \in Markets
  BY <1>1, ConstantTypes DEF JobsTyped, Tasks, Coids
<1>3. Settled' = Settled
  BY <1>1 DEF Settled
<1>4. SettledOnce' /\ (Settled \subseteq entries)'
  BY <1>1, <1>3 DEF LifeInv, SettledOnce
<1>5. CASE OpenPosition
  <2>1. /\ pc["main"] = "opened" /\ pc'["main"] = "listen"
        /\ positions' = [positions EXCEPT ![c.slug] = c]
        /\ UNCHANGED <<orders, entries>>
    BY <1>5 DEF OpenPosition, TypeOK, Tasks
  <2>2. c \in entries \ Settled /\ (pc["wd"] = "exit_row" => job["wd"].coid # c)
    BY <2>1 DEF LifeInv, EntryStages
  <2>3. \A d : IsOpen(d)' => IsOpen(d) \/ d = c
    BY <2>1 DEF IsOpen, TypeOK
  <2>. HIDE DEF c
  <2>4. OpenUnsettled'
    BY <1>1, <1>2, <1>3, <2>1, <2>2 DEF LifeInv, OpenUnsettled, TypeOK
  <2>5. PayoutExclusive'
    BY <1>1, <1>3, <2>1, <2>2, <2>3 DEF LifeInv, PayoutExclusive, Tasks, IsOpen
  <2>6. EntryStages'
    BY <2>1 DEF EntryStages
  <2>. QED
    BY <1>4, <2>1, <2>4, <2>5, <2>6 DEF LifeInv
<1>6. CASE ~OpenPosition
  <2>1. positions' = positions /\ pc["main"] \in {"order", "fill"}
    BY <1>6 DEF Enter, OrderUpsert, EntryFillUpsert, EntryPersistError
  <2>2. \A d : IsOpen(d)' = IsOpen(d)
    BY <2>1 DEF IsOpen
  <2>3. OpenUnsettled'
    BY <1>1, <1>3, <2>1 DEF LifeInv, OpenUnsettled
  <2>4. pc'["main"] \in {"fill", "opened", "listen"}
    BY <1>6 DEF Enter, OrderUpsert, EntryFillUpsert, EntryPersistError,
                TypeOK, Tasks
  <2>5. PayoutExclusive'
    BY <1>1, <1>3, <2>1, <2>4 DEF LifeInv, PayoutExclusive, Tasks, IsOpen
  <2>6. (entries \subseteq orders)'
    BY <1>1, <1>6 DEF Enter, OrderUpsert, EntryFillUpsert, EntryPersistError,
                      LifeInv, EntryStages
  <2>7. EntryStages'
    <3>1. CASE OrderUpsert
      <4>1. /\ pc'["main"] = "fill" /\ pc["main"] = "order"
            /\ orders' = orders \cup {c} /\ entries' = entries
        BY <3>1 DEF OrderUpsert, TypeOK, Tasks
      <4>. QED
        BY <1>1, <4>1 DEF EntryStages, LifeInv
    <3>2. CASE EntryFillUpsert
      <4>1. /\ pc'["main"] = "opened" /\ pc["main"] = "fill"
            /\ entries' = entries \cup {c}
        BY <3>2 DEF EntryFillUpsert, TypeOK, Tasks
      <4>2. c \notin entries /\ c \notin Settled
        BY <4>1 DEF LifeInv, EntryStages
      <4>3. ~IsOpen(c)
        BY <1>2, <4>2 DEF LifeInv, OpenUnsettled, IsOpen
      <4>4. pc["wd"] = "exit_row" => job["wd"].coid # c
        BY <4>2 DEF LifeInv, PayoutExclusive, Tasks
      <4>. QED
        BY <1>1, <1>3, <2>1, <4>1, <4>2, <4>3, <4>4 DEF EntryStages, IsOpen
    <3>3. CASE EntryPersistError
      <4>1. pc'["main"] = "listen"
        BY <3>3 DEF EntryPersistError, TypeOK, Tasks
      <4>. QED
        BY <4>1 DEF EntryStages
    <3>. QED
      BY <1>6, <3>1, <3>2, <3>3 DEF Enter
  <2>. QED
    BY <1>4, <2>3, <2>5, <2>6, <2>7 DEF LifeInv
<1>. QED
  BY <1>5, <1>6

\* _settle_from_values pops before it awaits, so the popped order is known to
\* this task only.
LEMMA LifePop ==
    ASSUME LifeInv, TypeOK, JobsTyped, NEW t \in Tasks, Pops(t),
           pc[t] \in QueryPCs, Slug(t) \in Markets,
           UNCHANGED <<orders, entries, exits>>
    PROVE  LifeInv'
<1>. DEFINE m == Slug(t)
            c == positions[m]
<1>1. PICK j \in Jobs : /\ c # NoPos /\ j.coid = c
                        /\ job' = [job EXCEPT ![t] = j]
                        /\ pc' = [pc EXCEPT ![t] = "exit_row"]
                        /\ positions' = [positions EXCEPT ![m] = NoPos]
  BY DEF Pops
<1>2. /\ pc'[t] = "exit_row" /\ job'[t].coid = c
      /\ \A u \in Tasks : u # t => pc'[u] = pc[u] /\ job'[u] = job[u]
  BY <1>1 DEF TypeOK
<1>3. c \in entries \ Settled /\ c.slug = m
  BY <1>1 DEF LifeInv, OpenUnsettled
<1>4. Settled' = Settled
  BY DEF Settled
<1>5. \A n \in Markets : positions'[n] # c
  <2>1. ASSUME NEW n \in Markets PROVE positions'[n] # c
    <3>1. n # m => positions'[n] = positions[n]
      BY <1>1 DEF TypeOK
    <3>2. positions[n] = c => n = m
      BY <1>1, <1>3 DEF LifeInv, OpenUnsettled
    <3>3. positions'[m] = NoPos
      BY <1>1 DEF TypeOK
    <3>. QED
      BY <1>1, <3>1, <3>2, <3>3
  <2>. QED
    BY <2>1
<1>6. \A d : d # NoPos /\ IsOpen(d)' => IsOpen(d)
  BY <1>1 DEF IsOpen, TypeOK
<1>7. IsOpen(c)
  BY DEF IsOpen
<1>8. \A u \in Tasks : u # t /\ pc[u] = "exit_row" =>
         job[u].coid # c /\ job[u].coid # NoPos
  BY <1>7, ConstantTypes DEF LifeInv, PayoutExclusive, JobsTyped, SettlePCs,
                             PayoutPCs
<1>9. OpenUnsettled'
  BY <1>1, <1>4 DEF LifeInv, OpenUnsettled, TypeOK
<1>. HIDE DEF c, m
<1>10. PayoutExclusive'
  <2>1. ASSUME NEW u \in Tasks, pc'[u] = "exit_row"
        PROVE  /\ job'[u].coid \in entries \ Settled
               /\ \A n \in Markets : positions'[n] # job'[u].coid
    <3>1. CASE u = t
      BY <1>2, <1>3, <1>5, <3>1
    <3>2. CASE u # t
      BY <1>2, <1>6, <1>8, <2>1, <3>2 DEF LifeInv, PayoutExclusive, IsOpen
    <3>. QED
      BY <3>1, <3>2
  <2>2. ASSUME NEW u \in Tasks, NEW v \in Tasks, pc'[u] = "exit_row",
               pc'[v] = "exit_row", job'[u].coid = job'[v].coid
        PROVE  u = v
    BY <1>2, <1>8, <2>2 DEF LifeInv, PayoutExclusive
  <2>. QED
    BY <1>4, <2>1, <2>2 DEF PayoutExclusive, IsOpen
<1>11. EntryStages'
  <2>1. CASE t = "main"
    BY <1>2, <2>1 DEF EntryStages
  <2>2. CASE t = "wd"
    <3>1. pc'["main"] = pc["main"] /\ job'["main"] = job["main"]
      BY <1>2, <2>2 DEF Tasks
    <3>2. pc["main"] = "opened" => job["main"].coid # c /\ job["main"].coid # NoPos
      BY <1>7, ConstantTypes DEF LifeInv, EntryStages, JobsTyped, EntryPCs, Tasks
    <3>. QED
      BY <1>2, <1>4, <1>6, <2>2, <3>1, <3>2 DEF LifeInv, EntryStages, IsOpen
  <2>. QED
    BY <2>1, <2>2 DEF Tasks
<1>. QED
  BY <1>4, <1>9, <1>10, <1>11 DEF LifeInv, SettledOnce

\* The settle fill is inserted for an order that had none.
LEMMA LifeExit ==
    ASSUME LifeInv, TypeOK, JobsTyped, NEW t \in Tasks, ExitFillUpsert(t)
    PROVE  LifeInv'
<1>. DEFINE c == job[t].coid
<1>1. /\ pc[t] = "exit_row" /\ pc' = [pc EXCEPT ![t] = "ledger"]
      /\ exits' = exits \/ exits' = exits \cup {ExitRow(t)}
      /\ UNCHANGED <<orders, entries, positions, job>>
  BY DEF ExitFillUpsert, memVars, Goto
<1>2. /\ pc'[t] = "ledger"
      /\ \A u \in Tasks : u # t => pc'[u] = pc[u]
  BY <1>1 DEF TypeOK
<1>3. c \in entries \ Settled /\ ~IsOpen(c)
  BY <1>1 DEF LifeInv, PayoutExclusive
<1>4. ExitRow(t).coid = c
  BY DEF ExitRow
<1>5. Settled' \subseteq Settled \cup {c}
  BY <1>1, <1>4 DEF Settled
<1>6. SettledOnce'
  BY <1>1, <1>3, <1>4 DEF LifeInv, SettledOnce, Settled
<1>7. OpenUnsettled'
  BY <1>1, <1>3, <1>5 DEF LifeInv, OpenUnsettled, IsOpen
<1>8. PayoutExclusive'
  <2>1. ASSUME NEW u \in Tasks, pc'[u] = "exit_row"
        PROVE  u # t /\ pc[u] = "exit_row" /\ job[u].coid # c
    BY <1>1, <1>2, <2>1 DEF LifeInv, PayoutExclusive
  <2>. QED
    BY <1>1, <1>5, <2>1 DEF LifeInv, PayoutExclusive, IsOpen
<1>9. EntryStages'
  <2>1. CASE t = "main"
    BY <1>2, <2>1 DEF EntryStages
  <2>2. CASE t = "wd"
    BY <1>1, <1>2, <1>5, <2>2 DEF LifeInv, EntryStages, IsOpen, Tasks
  <2>. QED
    BY <2>1, <2>2 DEF Tasks
<1>. QED
  BY <1>1, <1>3, <1>5, <1>6, <1>7, <1>8, <1>9 DEF LifeInv

LEMMA LifeStep ==
    ASSUME LifeInv, TypeOK, JobsTyped, TicksFresh, [Next]_vars
    PROVE  LifeInv'
<1>. USE DEF recVars, dbVars, memVars, taskVars, faultVars, Goto
<1>1. ASSUME UNCHANGED <<orders, entries, exits, positions, pc, job>>
      PROVE  LifeInv'
  BY <1>1, LifeFrame
<1>2. CASE Crash
  <2>1. /\ \A m \in Markets : positions'[m] = NoPos
        /\ \A t \in Tasks : pc'[t] = "down"
        /\ UNCHANGED <<orders, entries, exits>>
    BY <1>2 DEF Crash
  <2>. QED
    BY <2>1, LifeFrame DEF EntryPCs
<1>3. CASE Boot \/ Disconnect
  <2>1. /\ UNCHANGED <<orders, entries, exits, positions, job>>
        /\ \A t \in Tasks : \/ pc'[t] = pc[t]
                             \/ pc'[t] \notin EntryPCs \cup {"exit_row"}
    BY <1>3 DEF Boot, Start, RehydratePauseState, RehydrateTradeTaken,
                BootstrapDailyPnl, Subscribe, Disconnect, TypeOK, Tasks,
                EntryPCs
  <2>. QED
    BY <2>1, LifeFrame
<1>4. ASSUME NEW tk, TickSettle(tk) PROVE LifeInv'
  <2>1. /\ UNCHANGED <<orders, entries, exits, positions>>
        /\ pc'["main"] = "last_tick"
        /\ pc'["wd"] = pc["wd"] /\ job'["wd"] = job["wd"]
    BY <1>4 DEF TickSettle, TypeOK, Tasks
  <2>. QED
    BY <2>1, LifeFrame DEF EntryPCs, Tasks
<1>5. ASSUME NEW tk, HandleTick(tk) PROVE LifeInv'
  BY <1>1, <1>4, <1>5, LifeSubmit
     DEF HandleTick, TickPaused, TickHolding, TickTaken, TickOutOfWindow,
         TickNoEntry
<1>6. CASE Watchdog
  <2>1. /\ UNCHANGED <<orders, entries, exits, positions>>
        /\ pc'["wd"] \in {"next", "last_tick"}
        /\ pc'["main"] = pc["main"] /\ job'["main"] = job["main"]
    BY <1>6 DEF Watchdog, WatchdogWake, WatchdogNext, TypeOK, Tasks
  <2>. QED
    BY <2>1, LifeFrame DEF EntryPCs, Tasks
<1>7. ASSUME NEW t \in Tasks, Settle(t) PROVE LifeInv'
  <2>1. CASE Query(t)
    <3>1. /\ pc[t] \in QueryPCs /\ Slug(t) \in Markets
          /\ Proceeds(t) \/ GivesUp(t) \/ Pops(t)
          /\ UNCHANGED <<orders, entries, exits>>
      BY <2>1, QueryStep
    <3>2. CASE Proceeds(t) \/ GivesUp(t)
      <4>1. /\ pc'[t] \in QueryPCs \cup {Return(t)}
            /\ \A u \in Tasks : u # t => pc'[u] = pc[u] /\ job'[u] = job[u]
        BY <3>2 DEF Proceeds, GivesUp, TypeOK
      <4>2. pc'[t] \notin EntryPCs \cup {"exit_row"}
        BY <4>1 DEF QueryPCs, Return, EntryPCs
      <4>3. \A m \in Markets : positions'[m] \in {positions[m], NoPos}
        BY <3>2 DEF Proceeds, GivesUp, TypeOK
      <4>. QED
        BY <3>1, <4>1, <4>2, <4>3, LifeFrame
    <3>3. CASE Pops(t)
      BY <3>1, <3>3, LifePop
    <3>. QED
      BY <3>1, <3>2, <3>3
  <2>2. CASE ExitFillUpsert(t)
    BY <2>2, LifeExit
  <2>3. CASE BookPnl(t) \/ CleanupMarket(t)
    <3>1. /\ UNCHANGED <<orders, entries, exits, positions, job>>
          /\ pc' = [pc EXCEPT ![t] = "notify"] \/ pc' = [pc EXCEPT ![t] = Return(t)]
      BY <2>3 DEF BookPnl, CleanupMarket
    <3>2. \A u \in Tasks : pc'[u] = pc[u] \/ pc'[u] \notin EntryPCs \cup {"exit_row"}
      BY <3>1 DEF Return, EntryPCs, TypeOK
    <3>. QED
      BY <3>1, <3>2, LifeFrame
  <2>. QED
    BY <1>7, <2>1, <2>2, <2>3 DEF Settle, Query
<1>8. CASE Clock \/ ToggleKill \/ StoreTicks \/ HandleControl \/ OrphanCleanup
  BY <1>1, <1>8 DEF Clock, ToggleKill, StoreTicks, HandleControl, OrphanCleanup
<1>9. ASSUME NEW m \in Markets, RecordTick(m) PROVE LifeInv'
  BY <1>1, <1>9 DEF RecordTick
<1>10. ASSUME NEW c \in CandleTimes, IngestCandle(c) PROVE LifeInv'
  BY <1>1, <1>10 DEF IngestCandle
<1>11. CASE UNCHANGED vars
  BY <1>1, <1>11 DEF vars
<1>. QED
  BY <1>2, <1>3, <1>5, <1>6, <1>7, <1>8, <1>9, <1>10, <1>11, LifeEnter
     DEF Next, Environment, Listen

LEMMA SafetyInit == Init => SafetyInv
<1>. SUFFICES ASSUME Init PROVE TicksFresh /\ LifeInv
  BY TypeInit DEF SafetyInv
<1>1. TicksFresh
  BY DEF Init, TicksFresh, Used, Tasks
<1>2. LifeInv
  BY DEF Init, LifeInv, EntryStages, OpenUnsettled, PayoutExclusive, Settled,
         SettledOnce, Tasks
<1>. QED
  BY <1>1, <1>2

\* The invariant that carries the safety theorems is inductive.
LEMMA SafetyHolds == Spec => []SafetyInv
<1>1. SafetyInv /\ [Next]_vars => SafetyInv'
  BY TypeStep, TicksStep, LifeStep DEF SafetyInv, TypeInv
<1>. QED
  BY <1>1, SafetyInit, PTL DEF Spec

\* No order gets two settle fills, for any number of markets, crashes, failing
\* statements and disconnects (the pop-first rule of _settle_from_values).
THEOREM SettledOnceHolds == Spec => []SettledOnce
<1>1. SafetyInv => SettledOnce
  BY DEF SafetyInv, LifeInv
<1>. QED
  BY <1>1, SafetyHolds, PTL

\* Positions and settle fills always stand for stored orders and entry fills
\* (the insert order of try_enter and its early return on an error).
THEOREM FillsBackedHolds == Spec => []FillsBacked
<1>1. SafetyInv => FillsBacked
  BY DEF SafetyInv, LifeInv, OpenUnsettled, FillsBacked, Settled
<1>. QED
  BY <1>1, SafetyHolds, PTL

\* Every step of the driver changes trading.fills as TradeLedger allows.
THEOREM ImplementsTradeLedger == Spec => RefinesTradeLedger
<1>1. Init => TL!Init
  BY DEF Init, TL!Init
<1>2. ASSUME SafetyInv, [Next]_vars
      PROVE  [TL!Next]_<<entries, exits>>
  <2>. USE DEF dbVars
  <2>1. CASE EntryFillUpsert \/ EntryPersistError
    <3>1. exits' = exits /\ entries' \in {entries, entries \cup {job["main"].coid}}
      BY <2>1 DEF EntryFillUpsert, EntryPersistError
    <3>2. CASE entries' = entries
      BY <3>1, <3>2
    <3>3. CASE entries' # entries
      <4>1. TL!EnterOrder
        BY <3>1, <3>3 DEF TL!EnterOrder
      <4>. QED
        BY <4>1 DEF TL!Next
    <3>. QED
      BY <3>2, <3>3
  <2>2. ASSUME NEW t \in Tasks, ExitFillUpsert(t)
        PROVE  [TL!Next]_<<entries, exits>>
    <3>1. /\ exits' = exits \/ exits' = exits \cup {ExitRow(t)}
          /\ entries' = entries /\ pc[t] = "exit_row"
      BY <2>2 DEF ExitFillUpsert
    <3>2. CASE exits' = exits
      BY <3>1, <3>2
    <3>3. CASE exits' # exits
      <4>1. ExitRow(t).coid \in entries \ Settled
        BY <1>2, <3>1 DEF SafetyInv, LifeInv, PayoutExclusive, ExitRow
      <4>2. TL!SettleOrder
        BY <3>1, <3>3, <4>1 DEF TL!SettleOrder, Settled
      <4>. QED
        BY <4>2 DEF TL!Next
    <3>. QED
      BY <3>2, <3>3
  <2>3. CASE UNCHANGED <<entries, exits>>
    BY <2>3
  <2>4. CASE Environment \/ Boot \/ Watchdog \/ OrphanCleanup \/ UNCHANGED vars
    <3>1. UNCHANGED <<entries, exits>>
      BY <2>4 DEF Environment, Clock, ToggleKill, Crash, Disconnect, RecordTick,
         StoreTicks, IngestCandle, Boot, Start, RehydratePauseState, RehydrateTradeTaken,
         BootstrapDailyPnl, Subscribe, Watchdog, WatchdogWake, WatchdogNext,
         OrphanCleanup, vars
    <3>. QED
      BY <2>3, <3>1
  <2>5. CASE Listen
    <3>1. ASSUME NEW tk, HandleTick(tk) PROVE UNCHANGED <<entries, exits>>
      BY <3>1 DEF HandleTick, TickPaused, TickHolding, TickSettle, TickTaken,
                  TickOutOfWindow, TickNoEntry, TickSubmit
    <3>2. HandleControl => UNCHANGED <<entries, exits>>
      BY DEF HandleControl
    <3>. QED
      BY <2>3, <2>5, <3>1, <3>2 DEF Listen
  <2>6. CASE OrderUpsert \/ OpenPosition
    BY <2>3, <2>6 DEF OrderUpsert, OpenPosition
  <2>7. ASSUME NEW t \in Tasks, Settle(t) PROVE [TL!Next]_<<entries, exits>>
    <3>1. ~ExitFillUpsert(t) => UNCHANGED <<entries, exits>>
      BY <2>7 DEF Settle, LastTickQuery, OhlcvCloseQuery, FirstTickQuery,
         OhlcvOpenQuery, BookPnl, CleanupMarket
    <3>. QED
      BY <2>2, <2>3, <3>1
  <2>. QED
    BY <1>2, <2>1, <2>4, <2>5, <2>6, <2>7 DEF Next, Enter
<1>. QED
  BY <1>1, <1>2, SafetyHolds, PTL DEF Spec, RefinesTradeLedger, TL!Spec
=============================================================================
