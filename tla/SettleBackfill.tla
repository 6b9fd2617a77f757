--------------------------- MODULE SettleBackfill ---------------------------
(***************************************************************************)
(* scripts/backfill_paper_settles.py beside a running engine.  The script  *)
(* reads the paper orders that have no settle fill, prices them, and       *)
(* inserts their fills at the market's close time; the engine inserts its  *)
(* own at the moment it settles.  A fill's key is (fill_id, ts).           *)
(*                                                                         *)
(* Every row of trading.orders in paper mode is such an order: those of    *)
(* the paper driver, with or without an entry fill, and the limit orders   *)
(* of the market maker (MakerOrders), filled, resting or cancelled, which  *)
(* the engine never holds as a position.                                   *)
(*                                                                         *)
(* Definitions named Bug... are faulty variants of the definition below    *)
(* them, kept to show that the properties can fail.                        *)
(***************************************************************************)
EXTENDS Naturals, FiniteSets

CONSTANTS PaperOrders, MakerOrders, ScriptRuns,
          CloseTime,   \* [PaperOrders -> when its market closes]
          SettleEnd    \* bound

ASSUME SettleAssumption ==
    SettleEnd \in Nat /\ CloseTime \in [PaperOrders -> Nat] /\ MakerOrders \subseteq PaperOrders

VARIABLES snow,
          entryFills, \* orders with an entry fill or a limit fill
          held,      \* orders whose position the engine holds
          exits,     \* settle fills: <<order, ts>>
          candles,   \* orders that can be priced: a close candle, an open price, a market row
          script,    \* [ScriptRuns -> where it is]
          loaded,    \* [ScriptRuns -> the orders it read]
          heldAtLoad \* history: orders read while the engine held them

settleVars == <<snow, entryFills, held, exits, candles, script, loaded, heldAtLoad>>

SettleInit ==
    /\ snow = 0 /\ exits = {} /\ candles = {}
    /\ entryFills \in SUBSET PaperOrders /\ held = entryFills \ MakerOrders
    /\ script = [r \in ScriptRuns |-> "idle"] /\ loaded = [r \in ScriptRuns |-> {}]
    /\ heldAtLoad = {}

\* The engine settles after the close.  A failed insert is swallowed, and a
\* crash forgets every position.
EngineSettles(o) ==
    /\ o \in held /\ snow > CloseTime[o]
    /\ held' = held \ {o}
    /\ exits' \in {exits, exits \union {<<o, snow>>}}
    /\ UNCHANGED <<snow, entryFills, candles, script, loaded, heldAtLoad>>
EngineForgets ==
    /\ held # {} /\ held' = {}
    /\ UNCHANGED <<snow, entryFills, exits, candles, script, loaded, heldAtLoad>>

\* The book fills a limit order of the market maker and writes its fill.
MakerFills(o) ==
    /\ o \in MakerOrders \ entryFills /\ entryFills' = entryFills \union {o}
    /\ UNCHANGED <<snow, held, exits, candles, script, loaded, heldAtLoad>>

\* The ingestor stores the candle of an order's close minute.
CandleArrives(o) ==
    /\ o \notin candles /\ snow >= CloseTime[o] /\ candles' = candles \union {o}
    /\ UNCHANGED <<snow, entryFills, held, exits, script, loaded, heldAtLoad>>

\* _load_pending_orders
BugPending == PaperOrders
Pending == {o \in PaperOrders : ~\E t \in 0 .. SettleEnd : <<o, t>> \in exits}
LoadPendingOrders(r) ==
    /\ script[r] = "idle" /\ script' = [script EXCEPT ![r] = "price"]
    /\ loaded' = [loaded EXCEPT ![r] = Pending]
    /\ heldAtLoad' = heldAtLoad \union (Pending \intersect held)
    /\ UNCHANGED <<snow, entryFills, held, exits, candles>>

\* The bulk reads; an open market and one without a candle are skipped.
PriceOrders(r) ==
    /\ script[r] = "price" /\ script' = [script EXCEPT ![r] = "insert"]
    /\ loaded' = [loaded EXCEPT ![r] = {o \in @ : CloseTime[o] <= snow /\ o \in candles}]
    /\ UNCHANGED <<snow, entryFills, held, exits, candles, heldAtLoad>>

\* executemany with ON CONFLICT DO NOTHING: one transaction, or none of it.
InsertExits(r) ==
    /\ script[r] = "insert" /\ script' = [script EXCEPT ![r] = "done"]
    /\ exits' \in {exits, exits \union {<<o, CloseTime[o]>> : o \in loaded[r]}}
    /\ UNCHANGED <<snow, entryFills, held, candles, loaded, heldAtLoad>>

SettleTick ==
    /\ snow < SettleEnd /\ snow' = snow + 1
    /\ UNCHANGED <<entryFills, held, exits, candles, script, loaded, heldAtLoad>>

SettleNext ==
    \/ \E o \in PaperOrders : EngineSettles(o) \/ CandleArrives(o) \/ MakerFills(o)
    \/ \E r \in ScriptRuns : LoadPendingOrders(r) \/ PriceOrders(r) \/ InsertExits(r)
    \/ EngineForgets \/ SettleTick

SettleSpec == SettleInit /\ [][SettleNext]_settleVars

-----------------------------------------------------------------------------
\* Run any number of times, also side by side, the script settles an order
\* once and not before its close; the only orders that can be settled twice
\* are those the engine still held when the script read them.
SettlesSound ==
    \A o \in PaperOrders : LET times == {t \in 0 .. SettleEnd : <<o, t>> \in exits} IN
       /\ \A t \in times : t >= CloseTime[o] /\ t <= snow
       /\ Cardinality(times) > 1 => o \in heldAtLoad

\* Only orders with an entry get a settlement: "the order rows sit forever with
\* only an entry fill" (backfill_paper_settles.py:6).  The script's query asks
\* for no entry fill, so it also settles orders that never filled.
SettlesEntered == \A x \in exits : x[1] \in entryFills
=============================================================================
