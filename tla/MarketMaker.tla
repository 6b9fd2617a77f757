----------------------------- MODULE MarketMaker -----------------------------
(***************************************************************************)
(* One market-making driver (src/trading/paper/mm_driver.py) with its      *)
(* strategy (strategies/polymarket_btc15m/mm_rebate_v1.py), the simulated  *)
(* limit book it quotes into (limit_book_sim.py), the aggregate caps       *)
(* (global_mm_state.py) and the inventory cap of engine/mm_safety.py.      *)
(*                                                                         *)
(* Two records of the same quotes are kept apart: the strategy's ledger    *)
(* (live) and the book.  A tick is handled in four parts: the strategy     *)
(* updates its ledger and returns actions, the driver dispatches them one  *)
(* after the other, the book matches, the strategy learns of the fills.    *)
(* Between the parts lie awaits, at which the process may be cancelled.    *)
(* A persist that raises is swallowed, so it is one of the outcomes of the *)
(* part it belongs to.                                                     *)
(*                                                                         *)
(* Prices are integers in fractions of a cent.  The prices the quoting     *)
(* formula yields are left free.  The cancel/fill ratio of the guard is    *)
(* the subject of module MMSafety: here a market may be killed at any tick *)
(* if the guard is configured to kill.                                     *)
(*                                                                         *)
(* Definitions named Bug... are faulty variants of the definition below    *)
(* them, kept to show that the properties can fail.                        *)
(***************************************************************************)
EXTENDS Integers, FiniteSets, FiniteSetsExt

CONSTANTS
    Markets,                 \* slugs of this instance's family
    WindowOpen, WindowClose, \* [Markets -> Nat]
    Lead,                    \* WINDOW_OPEN_LEAD_S
    EntryStart,              \* entry_window_start_s
    TauTerminal,             \* tau_terminal_s
    Zone,                    \* mids inside the active and outside the dead zone
    One,                     \* a YES price of 1.0; quotes are in 1 .. One - 1
    Cent,                    \* the move that makes a quote be replaced
    Stake,                   \* stake_nominal_usd
    InventoryCap,            \* inventory_cap_usdc
    GlobalCap,               \* the smaller of the two [paper.global_caps]
    Ttl,                     \* quote_ttl_seconds; 0 is good till cancelled
    AutoKill,                \* auto_kill_on_breach
    PauseStates,             \* {FALSE}, or BOOLEAN if operators pause
    KillStates,              \* {FALSE}, or BOOLEAN if operators use the file
    MaxTime, MaxCrashes, MaxDbErrs, MaxDrops     \* bounds

ASSUME MakerAssumption ==
    /\ WindowOpen \in [Markets -> Nat] /\ WindowClose \in [Markets -> Nat]
    /\ {Lead, EntryStart, TauTerminal, One, Cent, Stake, InventoryCap,
        GlobalCap, Ttl, MaxTime, MaxCrashes, MaxDbErrs, MaxDrops} \subseteq Nat
    /\ Zone \subseteq 0 .. One
    /\ AutoKill \in BOOLEAN
    /\ PauseStates \subseteq BOOLEAN /\ KillStates \subseteq BOOLEAN

VARIABLES
    now,      \* wall clock, in ticks of the recorder
    kill,     \* is a KILL_SWITCH file present?
    paused,   \* _paused, and the row it is rehydrated from
    seen,     \* [Markets -> instant of the market's latest published tick]
    live,     \* _live_quotes_by_market: the strategy's ledger
    inv,      \* _inventory_shares
    book,     \* LimitBookSim._orders
    pc,       \* where the driver's task is suspended
    tick,     \* the tick being handled
    todo,     \* [Sides -> the action of on_tick left to dispatch]
    hits,     \* fills the matcher returned and the strategy has not seen
    orders,   \* trading.orders: order id -> status
    fills,    \* trading.fills: the filled quotes
    crashes, dbErrs, drops

memVars   == <<live, inv, book, pc, tick, todo, hits>>
dbVars    == <<orders, fills>>
faultVars == <<crashes, dbErrs, drops>>
vars == <<now, kill, paused, seen, memVars, dbVars, faultVars>>

Sides == {"BUY", "SELL"}
Sign(s) == IF s = "BUY" THEN 1 ELSE -1
NoTick == [market |-> "none", mid |-> 0]
NoQuote == [market |-> "none", ts |-> 0, side |-> "none", price |-> 0, qty |-> 0]

\* An MMAction: CancelQuote, PostQuote or ReplaceQuote.
Act(kind, old, new) == [kind |-> kind, old |-> old, new |-> new]
Nothing == Act("none", NoQuote, NoQuote)
Idle == [s \in Sides |-> Nothing]

Quotes == [market : Markets, ts : Nat, side : Sides, price : Nat, qty : Nat]

\* client_order_id: the hash of strategy, slug, tick time, side and seed,
\* where the seed repeats the side.
Coid(q) == <<q.market, q.ts, q.side>>
Ids(quotes) == {Coid(q) : q \in quotes}
Statuses == {"NEW", "FILLED", "CANCELLED"}

Init ==
    /\ now = 0 /\ kill = FALSE /\ paused = FALSE
    /\ seen = [m \in Markets |-> -1]
    /\ live = {} /\ inv = [m \in Markets |-> 0] /\ book = {}
    /\ pc = "idle" /\ tick = NoTick /\ todo = Idle /\ hits = {}
    /\ orders = [c \in {} |-> "NEW"] /\ fills = {}
    /\ crashes = 0 /\ dbErrs = 0 /\ drops = 0

-----------------------------------------------------------------------------
(* The recorder and the operators.                                         *)

Open(m) == WindowOpen[m] - Lead <= now /\ now < WindowClose[m]
Due(m) == Open(m) /\ seen[m] < now

\* Once per second every open market gets a tick.  Handling one takes less.
Clock ==
    /\ now < MaxTime
    /\ pc = "down" \/ (pc = "idle" /\ \A m \in Markets : ~Due(m))
    /\ now' = now + 1
    /\ UNCHANGED <<kill, paused, seen, memVars, dbVars, faultVars>>

ToggleKill ==
    /\ kill' \in KillStates
    /\ UNCHANGED <<now, paused, seen, memVars, dbVars, faultVars>>

HandleControl ==
    /\ pc = "idle"
    /\ paused' \in PauseStates
    /\ UNCHANGED <<now, kill, seen, memVars, dbVars, faultVars>>

\* A tick published while the subscription was down.
LoseTick(m) ==
    /\ pc = "idle" /\ Due(m) /\ drops < MaxDrops
    /\ seen' = [seen EXCEPT ![m] = now]
    /\ drops' = drops + 1
    /\ UNCHANGED <<now, kill, paused, memVars, dbVars, crashes, dbErrs>>

\* The process dies: ledger, inventory and book are gone, the rows stay.
Crash ==
    /\ pc # "down" /\ crashes < MaxCrashes
    /\ crashes' = crashes + 1
    /\ pc' = "down" /\ tick' = NoTick /\ todo' = Idle /\ hits' = {}
    /\ live' = {} /\ book' = {} /\ inv' = [m \in Markets |-> 0]
    /\ UNCHANGED <<now, kill, paused, seen, dbVars, dbErrs, drops>>

\* create_trading_node refuses to start while the kill switch is present; the
\* ticks of this instant were published while nobody was subscribed.
Start ==
    /\ pc = "down" /\ ~kill
    /\ pc' = "idle"
    /\ seen' = [m \in Markets |-> IF Due(m) THEN now ELSE seen[m]]
    /\ UNCHANGED <<now, kill, paused, live, inv, book, tick, todo, hits,
                   dbVars, faultVars>>

-----------------------------------------------------------------------------
(* The strategy's on_tick.                                                 *)

TInWindow(m) == IF now < WindowOpen[m] THEN 0 ELSE now - WindowOpen[m]

BugInQuotingWindow(m) == EntryStart <= TInWindow(m)
InQuotingWindow(m) ==
    /\ EntryStart <= TInWindow(m)
    /\ TInWindow(m) <= WindowClose[m] - WindowOpen[m] - TauTerminal

AnyOf(quotes) == CHOOSE q \in quotes : TRUE
Existing(m, s) == {q \in live : q.market = m /\ q.side = s}

\* MMSafetyGuard.block_post_quote
OverCap(shares, mid) == shares * mid > InventoryCap \/ shares * mid < -InventoryCap
InventoryBlocks(m, s, qty, mid) == OverCap(inv[m] + Sign(s) * qty, mid)

BugNewQuote(m, s, price, qty) ==
    [market |-> m, ts |-> now, side |-> IF s = "BUY" THEN "YES_UP" ELSE "YES_DOWN",
     price |-> price, qty |-> qty]
NewQuote(m, s, price, qty) ==
    [market |-> m, ts |-> now, side |-> s, price |-> price, qty |-> qty]

\* "Replace if price moved more than 1c from the live quote."
Moved(q, price) == q.price - price >= Cent \/ price - q.price >= Cent

\* The action _post_or_replace_side returns for a side.
BugSideAction(m, new, mid) ==
    LET old == Existing(m, new.side) IN
    IF InventoryBlocks(m, new.side, new.qty, mid)
    THEN IF old = {} THEN Nothing
         ELSE Act("cancel", AnyOf(old), NoQuote)
    ELSE IF \E q \in old : ~Moved(q, new.price) THEN Nothing
         ELSE Act("post", NoQuote, new)
SideAction(m, new, mid) ==
    LET old == Existing(m, new.side) IN
    IF InventoryBlocks(m, new.side, new.qty, mid)
    THEN IF old = {} THEN Nothing
         ELSE Act("cancel", AnyOf(old), NoQuote)
    ELSE IF old = {} THEN Act("post", NoQuote, new)
    ELSE IF ~Moved(AnyOf(old), new.price) THEN Nothing
    ELSE Act("replace", AnyOf(old), new)

\* The ledger after _track_new and _untrack of an action.
BugUntracked(act) == IF act.kind = "replace" THEN {act.old} ELSE {}
Untracked(act) == IF act.kind \in {"cancel", "replace"} THEN {act.old} ELSE {}
Tracked(act)   == IF act.kind \in {"post", "replace"} THEN {act.new} ELSE {}

Receive(m) ==
    /\ pc = "idle" /\ Due(m)
    /\ seen' = [seen EXCEPT ![m] = now]

TickPaused(m) ==
    /\ Receive(m) /\ paused
    /\ UNCHANGED <<now, kill, paused, memVars, dbVars, faultVars>>

\* Out of zone, out of the quoting window or killed: _cancel_all_for_market.
TickWithdraw(m, mid) ==
    /\ Receive(m) /\ ~paused
    /\ mid \notin Zone \/ ~InQuotingWindow(m) \/ AutoKill
    /\ todo' = [s \in Sides |->
                  IF Existing(m, s) = {} THEN Nothing
                  ELSE Act("withdraw", AnyOf(Existing(m, s)), NoQuote)]
    /\ live' = {q \in live : q.market # m}
    /\ tick' = [market |-> m, mid |-> mid]
    /\ pc' = "dispatch"
    /\ UNCHANGED <<now, kill, paused, inv, book, hits, dbVars, faultVars>>

TickQuote(m, mid, bid, ask) ==
    /\ Receive(m) /\ ~paused
    /\ mid \in Zone /\ InQuotingWindow(m)
    /\ LET qty == Stake \div bid
           act == [s \in Sides |->
                     SideAction(m, NewQuote(m, s, IF s = "BUY" THEN bid ELSE ask, qty), mid)]
       IN /\ todo' = act
          /\ live' = (live \ UNION {Untracked(act[s]) : s \in Sides})
                       \cup UNION {Tracked(act[s]) : s \in Sides}
    /\ tick' = [market |-> m, mid |-> mid]
    /\ pc' = "dispatch"
    /\ UNCHANGED <<now, kill, paused, inv, book, hits, dbVars, faultVars>>

-----------------------------------------------------------------------------
(* _dispatch_action, one action of the tick at a time: the bid side first, *)
(* withdrawals in the order of the ledger.                                 *)

Ready(s) == /\ pc = "dispatch"
            /\ s = "BUY" \/ todo["BUY"].kind \in {"none", "withdraw"}

\* GlobalMMState.block_post_quote.  update_strategy, which would record the
\* exposure of the strategies, has no caller: both sums are empty.
GlobalBlocks(q) == q.qty * q.price > GlobalCap

\* LimitBookSim.place, cancel and their rows.
Placed(b, q) == IF Coid(q) \in Ids(b) THEN b ELSE b \cup {q}
BugRemoved(b, q) == b
Removed(b, q) == {o \in b : Coid(o) # Coid(q)}
NewRow(rows, q) ==
    [c \in DOMAIN rows \cup {Coid(q)} |-> IF c = Coid(q) THEN "NEW" ELSE rows[c]]
SetStatus(rows, ids, status) ==
    [c \in DOMAIN rows |-> IF c \in ids THEN status ELSE rows[c]]

\* n persists of a step raise, and are logged.
DbErrors(n) == dbErrs + n <= MaxDbErrs /\ dbErrs' = dbErrs + n

Done(s) == todo' = [todo EXCEPT ![s] = Nothing]

DropPost(s) ==
    /\ Ready(s) /\ todo[s].kind = "post"
    /\ GlobalBlocks(todo[s].new)
    /\ Done(s)
    /\ UNCHANGED <<now, kill, paused, seen, live, inv, book, pc, tick, hits,
                   dbVars, faultVars>>

Post(s) ==
    /\ Ready(s) /\ todo[s].kind = "post"
    /\ LET new == todo[s].new IN
       /\ ~GlobalBlocks(new)
       /\ book' = Placed(book, new)
       /\ \/ /\ orders' = IF Coid(new) \in Ids(book) THEN orders
                          ELSE NewRow(orders, new)
             /\ UNCHANGED dbErrs
          \/ DbErrors(1) /\ UNCHANGED orders
    /\ Done(s)
    /\ UNCHANGED <<now, kill, paused, seen, live, inv, pc, tick, hits, fills,
                   crashes, drops>>

Cancel(s) ==
    /\ Ready(s) /\ todo[s].kind \in {"cancel", "withdraw"}
    /\ LET old == todo[s].old IN
       /\ book' = Removed(book, old)
       /\ \/ /\ orders' = IF Coid(old) \in Ids(book)
                          THEN SetStatus(orders, {Coid(old)}, "CANCELLED")
                          ELSE orders
             /\ UNCHANGED dbErrs
          \/ DbErrors(1) /\ UNCHANGED orders
    /\ Done(s)
    /\ UNCHANGED <<now, kill, paused, seen, live, inv, pc, tick, hits, fills,
                   crashes, drops>>

\* cancel() returned False: the new quote is not placed.
ReplaceMissing(s) ==
    /\ Ready(s) /\ todo[s].kind = "replace"
    /\ Coid(todo[s].old) \notin Ids(book)
    /\ Done(s)
    /\ UNCHANGED <<now, kill, paused, seen, live, inv, book, pc, tick, hits,
                   dbVars, faultVars>>

\* Cancel and place are two persists, each of which may raise.
Replace(s) ==
    /\ Ready(s) /\ todo[s].kind = "replace"
    /\ LET old == todo[s].old
           new == todo[s].new
       IN /\ Coid(old) \in Ids(book)
          /\ book' = Placed(Removed(book, old), new)
          /\ LET cancelled == SetStatus(orders, {Coid(old)}, "CANCELLED") IN
             \/ orders' = NewRow(cancelled, new) /\ UNCHANGED dbErrs
             \/ orders' = NewRow(orders, new) /\ DbErrors(1)
             \/ orders' = cancelled /\ DbErrors(1)
             \/ UNCHANGED orders /\ DbErrors(2)
    /\ Done(s)
    /\ UNCHANGED <<now, kill, paused, seen, live, inv, pc, tick, hits, fills,
                   crashes, drops>>

-----------------------------------------------------------------------------
(* LimitBookSim.on_tick, then on_fill for every fill, oldest order first.  *)

InBook(m) == {o \in book : o.market = m}
ExpiredAt(o) == Ttl > 0 /\ now >= o.ts + Ttl
Expired(m) == {o \in InBook(m) : ExpiredAt(o)}
Crossed(m, mid) ==
    {o \in InBook(m) \ Expired(m) :
        \/ o.side = "BUY" /\ mid <= o.price
        \/ o.side = "SELL" /\ mid >= o.price}

Finish == pc' = "idle" /\ tick' = NoTick

\* The rows an expired order and a fill leave; marked are the fills whose
\* order was updated before a statement raised.
MatchRows(gone, hit, ids, rows, marked) ==
    /\ orders' = SetStatus(SetStatus(orders, ids, "CANCELLED"), Ids(marked), "FILLED")
    /\ fills' = fills \cup rows
    /\ IF ids = Ids(gone) /\ marked = hit THEN UNCHANGED dbErrs ELSE DbErrors(1)

BugMatch ==
    /\ pc = "dispatch" /\ todo = Idle /\ tick.mid \in 1 .. One - 1
    /\ LET gone == Expired(tick.market)
           hit  == Crossed(tick.market, tick.mid)
       IN /\ book' = book \ gone
          /\ hits' = hit
          /\ IF hit = {} THEN Finish ELSE pc' = "fills" /\ tick' = tick
          /\ MatchRows(gone, hit, Ids(gone), hit, hit)
    /\ UNCHANGED <<now, kill, paused, seen, live, inv, todo, crashes, drops>>
Match ==
    /\ pc = "dispatch" /\ todo = Idle /\ tick.mid \in 1 .. One - 1
    /\ LET gone == Expired(tick.market)
           hit  == Crossed(tick.market, tick.mid)
       IN /\ book' = book \ (gone \cup hit)
          /\ hits' = hit
          /\ IF hit = {} THEN Finish ELSE pc' = "fills" /\ tick' = tick
          /\ \E some \in SUBSET gone, rows \in {{}, hit}, marked \in SUBSET hit :
                /\ marked \subseteq rows
                /\ \A x \in marked, y \in hit : y.ts < x.ts => y \in marked
                /\ MatchRows(gone, hit, Ids(some), rows, marked)
    /\ UNCHANGED <<now, kill, paused, seen, live, inv, todo, crashes, drops>>

\* A mid of 0 or 1 is not matched.
SkipMatch ==
    /\ pc = "dispatch" /\ todo = Idle /\ tick.mid \notin 1 .. One - 1
    /\ Finish
    /\ UNCHANGED <<now, kill, paused, seen, live, inv, book, todo, hits,
                   dbVars, faultVars>>

BugOnFill ==
    /\ pc = "fills"
    /\ \E o \in hits :
          /\ inv' = [inv EXCEPT ![o.market] = @ + o.qty]
          /\ live' = Removed(live, o)
          /\ hits' = hits \ {o}
          /\ IF hits = {o} THEN Finish ELSE UNCHANGED <<pc, tick>>
    /\ UNCHANGED <<now, kill, paused, seen, book, todo, dbVars, faultVars>>
OnFill ==
    /\ pc = "fills"
    /\ \E o \in hits :
          /\ \A x \in hits : o.ts <= x.ts
          /\ inv' = [inv EXCEPT ![o.market] = @ + Sign(o.side) * o.qty]
          /\ live' = Removed(live, o)
          /\ hits' = hits \ {o}
          /\ IF hits = {o} THEN Finish ELSE UNCHANGED <<pc, tick>>
    /\ UNCHANGED <<now, kill, paused, seen, book, todo, dbVars, faultVars>>

-----------------------------------------------------------------------------
Tick(m) ==
    \/ TickPaused(m)
    \/ \E mid \in 0 .. One : TickWithdraw(m, mid)
    \/ \E mid \in Zone, bid, ask \in 1 .. One - 1 :
          bid < ask /\ TickQuote(m, mid, bid, ask)

Dispatch(s) ==
    DropPost(s) \/ Post(s) \/ Cancel(s) \/ ReplaceMissing(s) \/ Replace(s)

Next ==
    \/ Clock \/ ToggleKill \/ HandleControl \/ Crash \/ Start
    \/ \E m \in Markets : LoseTick(m) \/ Tick(m)
    \/ \E s \in Sides : Dispatch(s)
    \/ Match \/ SkipMatch \/ OnFill

Spec == Init /\ [][Next]_vars

-----------------------------------------------------------------------------
ActionKinds == {"none", "post", "cancel", "withdraw", "replace"}
Actions == [kind : ActionKinds, old : Quotes \cup {NoQuote},
            new : Quotes \cup {NoQuote}]

\* Types of the ledger, the book, the tick in hand and the rows.
TypeOK ==
    /\ now \in Nat /\ kill \in BOOLEAN /\ paused \in BOOLEAN
    /\ seen \in [Markets -> Int] /\ inv \in [Markets -> Int]
    /\ live \subseteq Quotes /\ book \subseteq Quotes /\ hits \subseteq Quotes
    /\ pc \in {"idle", "dispatch", "fills", "down"}
    /\ tick \in [market : Markets \cup {"none"}, mid : Int]
    /\ pc \in {"dispatch", "fills"} => tick.market \in Markets
    /\ todo \in [Sides -> Actions]
    /\ DOMAIN orders \subseteq Markets \X Nat \X Sides
    /\ orders \in [DOMAIN orders -> Statuses]
    /\ fills \subseteq Quotes
    /\ crashes \in Nat /\ dbErrs \in Nat /\ drops \in Nat

OnePerSide(quotes) ==
    \A p, q \in quotes : p.market = q.market /\ p.side = q.side => p = q

\* "One bid + one ask at most" (mm_rebate_v1.py:146) holds for what rests in
\* the book, at every await: an action that replaces or cancels a quote never
\* leaves the old one behind, whatever was dropped, expired or not persisted.
OneQuotePerSide == OnePerSide(live) /\ OnePerSide(book)

\* Between ticks the strategy knows of every order that may still fill.
BookTracked == pc = "idle" => book \subseteq live

\* An order that trading.orders shows as cancelled has no fill.
CancelledNeverFills ==
    \A q \in fills : Coid(q) \in DOMAIN orders => orders[Coid(q)] # "CANCELLED"

\* Between ticks the ledger holds only quotes that rest in the book
\* (mm_rebate_v1.py:19, its "per-market resting-quote ledger").
LedgerRests == pc = "idle" => live \subseteq book

\* Without failing persists and restarts, the rows in status NEW are the
\* orders in the book.
RowsFollowBook ==
    pc = "idle" => {c \in DOMAIN orders : orders[c] = "NEW"} = Ids(book)

\* The sum of the quantities of some quotes: each counts once for every share.
Shares(quotes) == Cardinality(UNION {{q} \X (1 .. q.qty) : q \in quotes})
FillsOf(m, s) == {q \in fills : q.market = m /\ q.side = s}

\* Without failing persists and restarts, the inventory the guard caps is
\* what the fills add up to, bought less sold.
InventoryMatchesFills ==
    pc = "idle" => \A m \in Markets :
        inv[m] = Shares(FillsOf(m, "BUY")) - Shares(FillsOf(m, "SELL"))

\* Nothing rests in the book once the window has closed (mm_driver.py:96,
\* "Cleanup on post-window is implicit").
WithdrawnAtClose == \A o \in book : now < WindowClose[o.market]

\* "|q x p_market| <= cap" (mm_safety.py:11): a fill never takes the inventory
\* further from zero than the cap allows at the mid of its tick.
FillsRespectCap ==
    [][\A m \in Markets :
          /\ pc = "fills"
          /\ \/ inv'[m] > inv[m] /\ inv[m] >= 0
             \/ inv'[m] < inv[m] /\ inv[m] <= 0
          => ~OverCap(inv'[m], tick.mid)]_vars

\* The notional of all resting quotes stays within the aggregate cap
\* (global_mm_state.py:3, "Enforces global caps").
RestingWithinGlobalCap ==
    MapThenSumSet(LAMBDA o : o.qty * o.price, book) <= GlobalCap
=============================================================================
