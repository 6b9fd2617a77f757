# Trading-Edge-App: TLA+ specification

Trading-Edge-App trades Polymarket "BTC up or down" windows on paper. One
asyncio process (`cli/paper_engine.py`) runs the feeds, a tick recorder, a
heartbeat and one driver per strategy; a FastAPI process, a Telegram bot and an
ingestor run beside it. They share Postgres, Redis (pub/sub and a TTL key) and a
kill-switch file. This directory models the two trading drivers with everything
they share (money accounting rests on them), the paths by which market data comes
in, and what surrounds the engine: pause control, alerts, bot, jobs, copilot,
backtest, settlement repair, walk-forward and the model registry.

Paths below are relative to `src/src/trading/` unless they start with `Docs/`
(`src/Docs/`) or `scripts/` (`src/scripts/`).

## Inventory

| Component | State it keeps | Operations | Talks to | What makes it correct |
|---|---|---|---|---|
| Paper driver (`paper/driver.py`) | `_open_positions`, `_trade_taken`, `_daily_pnl`, `_daily_trades`, `_today`, `_paused`, per-market buffers | boot (3 queries), listen loop, `_handle_tick`, `_handle_control_message`, settle watchdog, orphan sweep, reconciliation | Redis pub/sub, Postgres, exec client, risk manager, Telegram | a market entered once, an order settled once, after its window; ledger equals database; positions leave memory |
| Exec client (`paper/exec_client.py`, `engine/fill_model.py`) | none (rows in `trading.orders`, `trading.fills`) | `try_enter`, `settle` | Postgres, kill-switch file | no position without its rows, no settle row without its entry row |
| Risk manager (`engine/risk.py`) | `RiskState` of one day | `can_enter`, `on_trade_closed` | driver | its counts agree with the driver's |
| Tick recorder (`paper/tick_recorder.py`) | latest spot time stamp, opening price capture | publish, then insert, once per second | FeedState, Redis, `market_data.paper_ticks` | one tick per market and instant |
| Pause control plane (`api/main.py`, `api/db.py`, driver) | `trading.strategy_state` row, `_paused` | pause, resume, rehydrate | Postgres, Redis | an accepted pause takes effect and survives a restart |
| Kill switch (`engine/node.py`, `api/service_control.py`) | two files | touch, remove, test | engine start, every submit | no submit while present |
| Feeds (`paper/feeds.py`, `paper/state.py`) | markets, books, prices under one lock | refresh (three requests), book and price updates, subscription diff | exchanges, recorder | one opening price per market; every known market is subscribed; nothing of a forgotten market |
| Market making (`paper/mm_driver.py`, `paper/limit_book_sim.py`, `paper/global_mm_state.py`, `engine/mm_safety.py`, `strategies/polymarket_btc15m/mm_rebate_v1.py`) | quotes in the book, the strategy's own ledger, inventory, aggregate exposure | post, replace, cancel, match, fill | driver, Postgres | strategy and book agree on live quotes; caps hold |
| Heartbeat and watcher (`paper/heartbeat.py`, `bots/telegram/watcher.py`) | TTL key, one flag per condition | beat, two polling loops | Redis, API, Telegram client | a flagged condition was handed to the client |
| Telegram client (`notifications/telegram.py`) | dedupe times, posts of the last minute, breaker | `send` | Telegram | the breaker holds with two senders |
| Jobs (`api/worker.py`, `api/main.py`, `api/db.py`) | job rows, tasks, children | submit, run, kill, finish, follow up | Postgres, subprocess, bot | the row and what the user is told are what the child did |
| LLM copilot (`llm/*`) | conversations, daily usage | check caps, call provider, store, record | OpenRouter, Postgres | spend is recorded; caps exceeded by running turns only; threads stay coherent |
| Bot commands (`bots/telegram/commands.py`) | offset, kill-switch prompts, ask session | poll, dispatch, confirm | Telegram, API, Redis | no command lost; nothing armed without its confirmation; replay is harmless |
| Ingestor (`cli/ingestor.py`, `cli/backfill.py`, `ingest/*`, `scripts/backfill_*`) | `market_data.*` rows, cursors, buffers, stream tasks | stream, page, discover, reconnect, supervise | exchanges, Postgres | no gaps, no double counting, no partial candle that stays |
| Backtest (`engine/backtest_driver.py`, `engine/data_loader.py`, `paper/backtest_loader.py`) | one market at a time, one risk manager | replay, settle | tables | no look-ahead within a series; limits hold |
| Settlement repair (`scripts/backfill_paper_settles.py`) | none | read, price, insert | Postgres, beside the engine | an order is settled once |
| Walk-forward (`cli/walk_forward.py`, `research/walk_forward.py`) | folds, results | build, evaluate, summarise | Postgres | folds tile the range; a recommendation is earned |
| Model registry (`cli/train_last90s.py`, `research.models`) | files, rows, the active flag | sample, train, write, promote, load | Postgres, disk, engine boot | the active model passed its gate and exists |
| Strategies, research reports, dashboard | files, reports | numeric, offline, read-only | Postgres | numeric |

What is hard here: every `await` is a point where the other tasks of the driver
run; two tasks settle the same positions; the process is restarted in the middle
of a window and keeps only what is in Postgres; pub/sub loses what nobody is
subscribed for; an insert may commit although its caller sees an error; three
clocks (wall clock, tick time, settle time) drive two ledgers that roll their
days separately. Around the engine: offsets move under a reader of a growing list,
rows are written first-come by two writers, a bot that dies is given its last
messages again, caps are checked before and spent after a slow call, and
promotions take two statements. `PROJECT.json` lists each such hazard at its line.

## Modules

| Module | Models |
|---|---|
| `RiskManager` | `engine/risk.py`: `can_enter` and `on_trade_closed` as functions of a `RiskState` record |
| `PaperDriver` | the driver, its exec client, the recorder that feeds it and the shared tables |
| `TradeLedger` | abstract: what the readers of `trading.fills` rely on |
| `PaperDriverProofs`, `PaperLedgerProofs` | theorems about `PaperDriver`: orders and rows; ledgers, days and prices |
| `ControlPlane` | API endpoints, the state row, the control channel and the driver's side of it |
| `MarketMaker` | the market-making driver, its strategy's ledger, the limit book, the caps, the rows |
| `MarketMakerProofs`, `MakerLedgerProofs` | theorems about `MarketMaker`: book and ledger at every await; between ticks and at the close |
| `MMSafety` | the cancel/fill ratio of `engine/mm_safety.py` and the kills it causes |
| `VenueMessages` | what the five exchange adapters do with a message of their socket |
| `Candles` | `crypto_ohlcv`: five REST backfills and the candle streams, both first-come |
| `TradeStream` | `stream_trades`: Binance's batch against the others' single inserts |
| `OracleLoops` | the Chainlink and the liquidation loop, and `scripts/backfill_coinalyze.py` |
| `PolymarketLoop` | `Supervisor._guarded` around `_polymarket_loop` and its `stream_prices` tasks |
| `TradePaging` | `backfill_market_trades` (by offset) and `scripts/backfill_binance_aggtrades.py` (by time, then id) |
| `MarketDiscovery` | `discover_markets` and the phases of `scripts/backfill_polymarket_initial.py` |
| `Feeds` | the engine's sockets, the market refresher and the tick recorder on one `FeedState` |
| `Alerts` | heartbeat, watcher and Telegram client |
| `Jobs` | backtest jobs from submission to the answer in the chat |
| `Copilot` | `run_turn` with its caps, concurrent turns and resets |
| `BotCommands` | `CommandPoller` with its offset, dialogue and restarts |
| `Backtest` | `run_backtest` on a `RiskManager` (the module `PaperDriver` uses too) |
| `SettleBackfill` | the settlement script beside an engine |
| `WalkForward`, `ModelRegistry` | folds and verdicts; training, promotion and loading of models |
| `OperatorProofs` | theorems about `ControlPlane`, `Jobs`, `BotCommands`, `Copilot` |
| `MarketDataProofs` | theorems about `Feeds`, `Candles` and the composed ingestor |
| `ResearchProofs` | theorems about `Backtest`, `SettleBackfill`, `WalkForward`, `ModelRegistry` |
| `OperationsProofs` | theorems about `MMSafety` and `Alerts` |
| `MCPaperDriver`, `MCMarketMaker` | window times for the runs |
| `MCMarketData`, `MCOperations` | compose the parts that bring data in, and those around the engine |

Definitions named `Bug...` are faulty variants (a dropped guard, a wrong sign, a
missing roll) of the definition below them. Substituting one for its original
makes the property named in `PROJECT.json` fail, which shows that the property
depends on that code.

### PaperDriver

An action is the code between two awaits. The two tasks that settle are `main`
(the listen loop) and `wd` (the settle watchdog); `pc[t]` is the await a task is
suspended at, `job[t]` the locals of its suspended call.

- Boot: `Start`, `RehydratePauseState`, `RehydrateTradeTaken`,
  `BootstrapDailyPnl`, `Subscribe` are the awaits of `run()` in their order; each
  query may fail and is then skipped, as in the code.
- `_handle_tick` up to its first await is one of seven actions, by where it
  returns: `TickPaused`, `TickHolding`, `TickSettle`, `TickTaken`,
  `TickOutOfWindow`, `TickNoEntry`, `TickSubmit`. All of them roll the day and
  touch the buffers first. The second daily-pause test of `_handle_tick` (line
  363) cannot be reached, since the first one marks the market as traded; the
  model has no action for it.
- `try_enter`: `OrderUpsert`, `EntryFillUpsert`, `EntryPersistError`, then
  `OpenPosition`. A strategy, the fill model and the market-quality gates are
  free to say no (`TickNoEntry`), so every property holds for every strategy.
- `_settle_via_watchdog`: `LastTickQuery`, `OhlcvCloseQuery`, `FirstTickQuery`,
  `OhlcvOpenQuery`, then `ExitFillUpsert`, `BookPnl`, `CleanupMarket`; it runs in
  `main` from `TickSettle` and in `wd` from `WatchdogWake`/`WatchdogNext`.
- Recorder and environment: `RecordTick` publishes, `StoreTicks` inserts later
  and may fail; `IngestCandle` delivers a candle of a past minute, late or never;
  `Disconnect`, `Crash`, `ToggleKill`, `HandleControl`.

Abstractions. Prices are reduced to whether a settlement is won, so every
outcome is explored. A `client_order_id` (a hash of strategy, slug, time and
side) is the pair of slug and tick time; the side is not needed to tell two
orders of one strategy apart because a tick yields one decision. Stored tick
rows carry a price. Time is counted in units of about a minute: the 2 s lead of
the recorder, the 5 s slack of the tick queries and the 100 ms of simulated
latency vanish, and an insert of the recorder finishes within a unit (`Clock`
waits for it). The watchdog and the sweep may run at any moment rather than every
15 s and 60 s, and a round without work is a stutter. The loops that only log or
alert (evaluation summary, kill-switch alert, reconciliation) are left out; what
reconciliation compares is stated as `LedgerMatchesDb` and `EntryAccounted`.

### ControlPlane

`ApiPersist` and `ApiPublish` are the two awaits of `api_pause` and `api_resume`;
either may fail. The driver reads the row at boot (`Rehydrate`) and after that
only listens. `missed` is a history variable: a message was lost since the row
was last read.

### MarketMaker

The strategy keeps a ledger of its quotes (`live`) and the limit book keeps the
orders (`book`); they are joined only by the order id both compute from the tick.
Handling a tick is cut at its awaits:

- on_tick of the strategy runs without an await: `TickPaused`, `TickWithdraw`
  (out of zone, out of the quoting window, killed) or `TickQuote`, where
  `SideAction` is `_post_or_replace_side` and `todo` holds the actions returned;
- `_dispatch_action`, an await for each action: `Post`, `DropPost`, `Cancel`,
  `Replace`, `ReplaceMissing`, each with the row it writes, which may fail and be
  logged;
- the matcher: `Match` (expiry before crossing, rows after both) or `SkipMatch`;
- `OnFill` for each fill, with the send to Telegram as the await in between.

Abstractions. Prices are integers, several to a cent; the quoting formula and its
k estimator are replaced by any bid below any ask. The quantity is the stake
divided by the bid, as in the code, so quotes differ in size. Zones are one set of
mids; the fourth stage of on_tick repeats the test of the second with the same
`tau_terminal_s` in every config and has no branch of its own. The cancel/fill
ratio is a module of its own; here a market may be killed at any tick. A tick of
another instance's slug has no effect. Ticks do not queue up: one is handled well
within the second between two. Buffers, counters, heartbeat and fees are left out.
`update_strategy` of the aggregate state has no caller, so `GlobalBlocks` compares
a single quote with the cap.

### MMSafety

`RecordCancel`, `RecordFill` and `IsMarketKilled` are the three calls the strategy
makes, in any order and at any time. Three logs are history: they hold all events,
and the properties compare the pruned deques and `killed_until` with them: `InWindow`
says that a deque is the end of its log that is younger than the cutoff. The
inventory gate of the guard is in `MarketMaker`; the taker-fee canary is never
called.

### Market data

`VenueMessages` says which kinds of message each venue sends and which become
rows; `Candles` and `TradeStream` extend it. In `Candles` the clock counts ticks
of half a candle, so the `+ 1` ms after an empty page is less than a candle.
`BackfillStart` is `cli/backfill.py`, whose range may end in the future; each of the
five `...Backfill` actions is one turn of the adapter's loop with its page, its
upsert and its next cursor; `PageFails` ends the command, which may be run again.
What a venue leaves out of a full page is external: Bybit and OKX list the newest
first, as their adapters say, so the oldest are cut off; for Kraken nothing says
which, so it is either (`keeps`). What that loses is named by `Lost`. `UpsertMany`
keeps the first value, so a candle carries "partial" or "final" from then on.

`TradeStream` numbers the trades of a connection; the five seconds after which Binance's
batch is flushed are a choice. `OracleLoops` reduces a liquidation amount to "was complete
when read" and a price to where it comes from, the bar itself (`Quoted`) or the close of a
minute, since the price is part of the key. `PolymarketLoop` cuts the loop at its awaits:
`Discover`, `SelectOpen` (query, cancel, new task), `Wake`. `StreamPrices` is the first
query of a stream task, outside its `try`: when it fails, its exception waits in the task
until `SelectOpen` awaits it (`AwaitRaises`), and `Guarded` is what the supervisor makes of
that or of a crash in the loop's own query. `TradePaging` and `MarketDiscovery` let the list
grow between two pages; `EmptyForRefused` is a page that `_fetch_trades_page` returns empty
because of its status. `MarketDiscovery` follows the two discovery paths and the script's
four phases market by market, over several calls with their options; a phase may end with no
rows for a market and no error; events are numbered in the order in which they were listed,
so the list is a number and a page a range of ranks below it. The failures `PolymarketLoop`
counts, like the posts of `Alerts`, come in the order of time, so dropping the old ones
leaves the end of the list.

`Feeds`: the recorder holds references to `MarketMeta` records over its awaits,
the refresher replaces them; `held` and `detached` model that aliasing. A spot
price is the time it arrived. `served` is the venue's side of a subscription.

### Around the engine

`Alerts`: `Send` is `TelegramClient.send` up to its await, `Posted` its end; the two loops
can both be in between. The control loop judges its four conditions in order (`round`), the
first two by one status (`killSeen`), and latches the day of its loss alert before it is
sent. `fate` is history: what became of the latest alert of a condition. `Jobs`: a task per
job with the executor's threads; `abandoned` is history. `Copilot`: one action per await of
`run_turn`; a turn costs one unit and one token. `BotCommands`: updates are numbered;
`forgotten` is what Telegram will not send again, `offset` what the process remembers; `Die`
empties its memory. "read" stands for the commands that only ask. `Backtest`: a market is
its window, ticks, strike and settle price; the strategy and the fill simulation are
choices; days and the cooldown are those of `RiskManager`. What comes next is the market
with the earliest first tick of those that are left, which is the sorted order of the
loaders; markets that tie may come in any order. `SettleBackfill`: the engine is its effect
on positions and rows; the orders are all paper orders, with or without an entry fill, those
of the market maker (`MakerOrders`) included. `WalkForward`: AUCs in hundredths from a small
set, 0 for None; the median is the value of the middle ranks, where `Ranked(rs, k)` is the
value with fewer than k measured ones below it and at least k up to it, and stays doubled so
that it is whole. `ModelRegistry`: a trainer is its version, the gate a choice; a market has
or lacks candles, ticks and trades (`Complete`) and prices (`Priced`), which only a trainer
with `use_real_implied_prob` asks for.

`MCMarketData` and `MCOperations` put modules side by side that share no variable:
`part` names the one a behaviour follows, the others rest. One run then covers
them at the sum, not the product, of their sizes; the constant `Parts` says
which. Nothing is claimed about their interaction: they have none.

## Runs

Deadlock is not checked: the clock stops at `MaxTime` and requests run out, so
the bounded model ends although the system does not.

| Run | Instance | Shows |
|---|---|---|
| `faults` | one market, one crash, one failing statement, lost tick rows, late candles; the watchdog settles | `TypeOK`, `FillsBacked`, refinement of `TradeLedger` |
| `day` | two consecutive markets within a day, one disconnect or lost message, pauses; no crash, no failing statement | `OneEntryPerMarket`, `LedgerMatchesDb`, `LedgersAgree`, `SettleAfterEntry`, `NoEntryBelowDailyPause` |
| `live` | fairness; one market longer than 300 s with midnight in it, no candles, a failing statement, tick rows that may be lost | tick path and watchdog race for one position while the day rolls: `SettledOnce`, `EntryAccounted`; `PositionsLeave`, `BuffersReclaimed` |
| `mm_quotes` | two markets quoted from open to close, no faults | `LedgerRests`, `RowsFollowBook`, `InventoryMatchesFills`, `WithdrawnAtClose` |
| `mm_faults` | one market; quotes expire, are dropped by the aggregate cap or withdrawn by a kill; pauses, kill switch, one crash, two failing persists, one lost tick | `TypeOK`, `OneQuotePerSide`, `BookTracked`, `CancelledNeverFills` |
| `market_data` | each part on its own, with its faults | see the next table |
| `operations` | each part on its own, with its faults | see the next table |

| Run | Property | Says |
|---|---|---|
| `market_data` | `BackfillComplete` | a backfill that ends has every candle of its range but those of `Lost`, whatever the gaps, the pages, the failures and the reruns |
| | `FinalUnlessOpen` | no value of an unfinished candle stays, except on Kraken and for candles not closed when a backfill of their range was first started |
| | `BackfillEnds` | no gap makes a backfill spin |
| | `OpenPriceStable` | the ticks of a market carry one opening price, from the first seconds of its window |
| | `BooksOfKnownMarkets` | a late event brings no forgotten market back |
| | `FeedsRecover` | every known market gets its events over the current connection |
| | `MarketsStreamed` | through crashes of the loop every open market is in a running stream, or in the last one, whose failure the next change of the set raises; the ingestor stops only after more failures than allowed within the window |
| | `FetchersSkipNothing` | no page border loses a trade or a market while lists grow; a refused page cuts off only what is older |
| | `RowsAccounted` | trades are rows, buffered or lost in bounded number; a liquidation bar has one row unless it was read too early; the manifest promises what is there; a stale stretch is reported once |
| `operations` | `FollowsRowUnlessMissed` | a driver that lost no message follows the persisted pause |
| | `RestartRestoresPause` | a persisted pause is in force after a restart |
| | `GuardSound` | the guard's pruned windows are exact; a market is killed at exactly the moments its breaches call for |
| | `AlertsSound` | at most one post above the breaker's limit; a condition that is flagged, or latched for its day, reached the client |
| | `JobsSound` | a job ends as its child did or was abandoned; the user is told that result |
| | `CopilotSound` | recorded spend is what was answered; caps exceeded by running turns only; conversations are real threads |
| | `CommandsSound` | at least once, armed only by its prompt's answer, replay converges, a reset session is not asked again |
| | `BacktestSound` | no look-ahead within a series, cooldown and daily limit hold, one trade per market, ties go to UP |
| | `WalkForwardSound` | folds are the ones that fit, in order; a recommendation is earned by most folds |
| | `SettlesSound` | the script settles an order once and not before its close, unless the engine held it |
| | `RegistrySound` | the active and the loaded model are gated, stored and trained on markets with every source their samples use |

Five runs are expected to fail; each shows that the code does not do what its
own text says (`findings` in `PROJECT.json`):

| Run | Property | What happens |
|---|---|---|
| `restart_reentry` | `OneEntryPerMarket` | `_today` is `""` after a boot, the first tick rolls the day and clears the rehydrated `_trade_taken`; the market is entered again |
| `pause_lost` | `AcceptedPauseTakesEffect` | a pause published while the driver reconnects is lost |
| `mm_inventory_cap` | `FillsRespectCap` | the cap is checked with a new quote's quantity while the old quote is kept with its own |
| `mm_global_cap` | `RestingWithinGlobalCap` | the exposure is never recorded, replacements are not checked |
| `okx_gap` | `OkxLeavesNoGap` | each page starts one candle too low, so one candle per page is never fetched |

Further deviations, found with the same modules by changing a constant, or by checking
a property that none of the runs checks:

- `NoEarlySettle` fails with the windows of `live`: a position is settled at
  `t_in_window >= 300` (`paper/driver.py:350`, "post-window") although the recorder
  publishes windows of 900 s and the driver takes the ticks of every market.
- `BybitLeavesNoGap` (`Candles`) fails: a range of the backfill holds one candle more
  than a page (`ingest/bybit/adapter.py:110`), the venue lists the newest first (:96), so
  the candle at the cursor is cut off. `Docs/Design.md:340` has the backfill fill the
  history.
- `AllTradesFetched` (`TradePaging`) fails: a status other than 200, 429 and 5xx is an
  empty page (`ingest/polymarket/adapter.py:693`), hence the end of the list: success,
  with the older trades missing (:614: "Fetch all historical trades").
- `SettlesEntered` (`SettleBackfill`) fails: the script asks for no entry fill
  (`scripts/backfill_paper_settles.py:66`; :6: "with only an entry fill") and settles
  orders that were never filled, cancelled limit orders of the market maker included.
- `LedgerMatchesDb` fails with `MaxCrashes` = 1: the roll of `restart_reentry` also
  clears the totals `_bootstrap_daily_pnl_from_db` has just loaded
  (`paper/driver.py:92` says what they are for).
- `PositionsLeave` fails when only the closing candle comes: with a closing price and no
  opening price the call returns at line 552, before the age is tested, in every
  round (line 528: "so we don't keep retrying forever").
- `LedgerRests` fails with `Ttl` > 0: the strategy is not told of an expired order,
  keeps it in its ledger, and replacing it is dropped
  (`mm_rebate_v1.py:148`: "driver auto-cancels"). Every config has the value 0.
- `WithdrawnAtClose` fails with pauses: a paused driver skips the ticks that would
  withdraw its quotes (`mm_driver.py:96`).
- The market maker places orders while the kill switch is on; only
  `SimulatedExecutionClient.try_enter` tests the file, although
  `Docs/runbook.md:455` says that the engine "stops accepting new orders".

Met while modelling, and admitted by the properties above:

- Candles. Kraken's handler inserts every update, so the first partial value stays;
  a backfill whose `--to` is now or later keeps candles partial
  (`cli/backfill.py` does not look at the clock). These are the exceptions of
  `FinalUnlessOpen`. A Kraken page asked for too far back loses what is older than a
  page if the venue keeps the newest rows, which the adapter does not say.
- Streams. The batch of a dropped Binance socket is lost; a crash of the Polymarket loop
  leaves its stream task running beside the new one; a `stream_prices` task that fails in
  its first query is replaced only when the set of markets changes, and then its exception
  crashes the loop (`cli/ingestor.py:155` suppresses `CancelledError` only); aggregate
  trades in the last millisecond of a window can be cut off; fills of one transaction share
  a key in `polymarket_trades`.
- Liquidations polled before their own candle get a second row at another price,
  and a partial bar stays until the script goes over it. A bar that brings its own
  price has one key in the loop and another in the script, which ignores it.
- Discovery. `scripts/backfill_polymarket_initial.py` ends with success whatever its
  phases brought: an empty or refused history, a refused page of trades, a market
  without its row. Its manifest is honest about that.
- Feeds. A refresh between the start of a round and the capture loses the captured
  price (`raced` in `OpenPriceStable`); after a reconnection no snapshot is fetched
  (`paper/feeds.py:132` says it is) and the old book is published until an event
  comes, which the stale-book guard (`paper/driver.py:397`) cannot notice; an error
  in the first 5-minute series skips the second.
- Alerts. A failed or suppressed alert is not tried again while its condition
  lasts; a second outage within the dedupe time is not reported; at an age of
  exactly 60 s `/status` says down and the watcher does not.
- Jobs. After a crash of the API its jobs say queued or running for ever; a job
  waiting for a thread says running.
- Copilot. Caps are exceeded by concurrent turns; two turns of one session
  overwrite each other; an answer with tool calls is paid for and not recorded.
- Bot. A bot that dies handles its last batch again; `/restart` of its own service
  is therefore repeated, and any text, `/pause` too, answers a pending prompt.
- Backtest. With several series in `paper_ticks` the risk manager learns of closes
  that lie ahead; `PaperTicksLoader` takes every window for 300 s of BTC.
- Settlement script. Besides the run above: an order the engine still holds can be settled
  twice, since the two rows differ in `ts` (`scripts/backfill_paper_settles.py:10`:
  "Idempotent"); a tie goes to DOWN there and to UP in a backtest.
- Walk-forward. `_replay_rules_fold` reads attributes a split does not have, so
  rules strategies are never validated; `soak_longer` cannot be reached;
  `--promote-winner` promotes nothing.
- Registry. A trainer that dies between its two statements leaves no active model;
  without `use_real_implied_prob` every sample gets an implied probability of 0.5.

Bounds. `MaxTime` covers one or two windows, the watchdog's grace, the candle age
and the give-up age, so every branch on an age is taken both ways. `MaxInbox` = 2
lets a tick wait while another is handled. One crash, one failing statement or
one disconnect is enough to hit every await once; the safety theorems remove
these bounds. The market-making windows have a tick before the open, one before
the quoting starts, three or four in which quotes are made, and one that withdraws
them; `Cent` = 2 makes quotes be kept as well as replaced, and `Stake` = 6 gives
quantities from 1 to 6. The guard's windows are a few instants long, so that
events fall on, before and after every cutoff.

In `market_data` pages hold two candles, events or trades and lists have up to five, so
there are full, short and empty pages and a page border inside every range; a range starts on
or off a candle and ends off one, in the past or the future; the list grows by any number up to its bound. Ranges also end after
the last candle, discovery and its script are called twice, with three sets of options. One
failure (of a page, a request, a refresh), two dropped trade sockets and four failures of
the Polymarket loop against a budget of two are allowed. The feeds have a market of a series
and one of the scan whose windows open, close and run out of grace within the clock's bound.
In `operations` every cap, limit and threshold is one or two and at least one more actor
than it wants to pass it: three turns against a cap of one, two loops against a breaker of
one, two jobs for a thread, two trainers for one active row, four markets that can be traded
over three days against a limit of two. The tapes of the backtest hold a tie, a missing
strike, a missing settle price, an empty market, two series that overlap and two midnights.

Fairness. `FairSpec` assumes weak fairness of the clock, of the recorder's
pending insert and of every task of the event loop: asyncio runs each ready task,
and no action of the driver waits on another driver task. Nothing is assumed of
the feeds, candles, operators or faults. In `ControlPlane` an accepted request
runs to its publish and the driver's task is scheduled. In `Feeds` the book
socket's task connects and its subscription diff runs (both are endless loops on
the event loop that only sleep); in `Candles` the backfill loop goes on. Nothing
is assumed of venues, users, refreshes or crashes.

## Proofs

`PaperDriverProofs` proves, for every set of markets, every window schedule and
any number of crashes, disconnects and failing statements:

- `TypeCorrect`: `Spec => []TypeOK`. The inductive invariant `TypeInv` adds that
  a suspended call has an order (`JobsTyped`) and that the fills are finite, so
  that the sums of the boot query exist.
- `SettledOnceHolds` and `FillsBackedHolds`, from the inductive invariant
  `SafetyInv`. `SettledOnce` is not inductive: it needs that an order id is never
  used twice (`TicksFresh`: published ticks increase, queued ticks are distinct
  and unused), what each await of `try_enter` knows (`EntryStages`), that an open
  position is not settled (`OpenUnsettled`) and that a task about to insert a
  settle row is the only one to hold the order (`PayoutExclusive`, the effect of
  popping before the await).
- `ImplementsTradeLedger`: `Spec => RefinesTradeLedger`, from the same invariant.

`MarketMakerProofs` proves, for every set of markets, windows, caps, time to live
and any number of crashes, lost ticks and failing persists: `MakerTypes`,
`MakerOnePerSide`, `MakerBookTracked` and `MakerCancelledNeverFills`. The
inductive invariant is `MakerInv`. `OneQuotePerSide` alone is not inductive,
because during the dispatch the book lags behind the ledger: `TrackedOrLeaving`
says that an order which is no longer in the ledger is the one the pending action
of its side removes, `PendingFresh` that a quote still to be placed is in the
ledger under an id nothing has used (ids carry the tick's time, and `Stamped`
bounds every id by the market's latest tick), and `FillsGone` keeps the ids of
filled and of resting orders apart. All five kinds of action go through one lemma,
`HandledInv`.

The proofs about `PaperDriver` rest on `DriverAssumption` and `RiskAssumption` only: the
constants are natural numbers and the windows are functions on the markets. `SafetyInv` was
checked with TLC on the instances of `faults` and `day` before it was proved. The proofs
about `MarketMaker` rest on `MakerAssumption`: the parameters are natural numbers, the zone
a set of prices.

### Ledgers of the paper driver

`PaperLedgerProofs` builds on `SafetyInv`. Each theorem adds what its property lacks
to be inductive; those that are false after a crash or a failed statement in the code
itself (see the deviations above) are stated under `Unfailed`, a state predicate.

- `EntryAccountedHolds`, from `AccountInv`: opening a position overwrites none
  (`SlotFree`), what is given up stays given up, and an entry is in one of its stages.
- `NoEarlySettleHolds`, under `ShortWindows` (no window is longer than the 300 s the
  driver assumes; the windows of the 5-minute series). The proof shows something
  about the code: the recorder publishes ticks strictly before the close, so with such
  windows the settle branch of `_handle_tick` is never due and the watchdog settles
  everything.
- `SettleAfterEntryHolds`, under `ShortWindows` and when no tick row is lost
  (`StoreOutcomes` is TRUE): the row of every tick that is or may become an entry is
  stored or in the recorder's round (`RowsKept`), so the watchdog's price is no older.
- `OneEntryPerMarketHolds`, under `ShortWindows` and `DayWindows` (no window contains
  midnight: slots are aligned to five minutes). Ticks are read in the order of time, so
  the day never rolls back and a mark of today's market is there (`TakenInv`).
- `LedgerMatchesDbHolds`, `LedgersAgreeHolds`, `NoEntryBelowDailyPauseHolds`, within
  one day (`OneDay`), from `DayInv`: `Books` says which settlements have their row and
  which are booked, in both ledgers. The sums are `SettledPnl` as in the boot query;
  what one more fill does to them follows from the cardinality theorems, without
  induction. A position that is open over midnight is booked to the next day by the
  driver and to the day of its row by the query, so a second day is not covered.

### Ledger of the market maker

`MakerLedgerProofs` builds on `MakerInv`.

- `RowsFollowBookHolds`, under `Unfailed`: the rows that say NEW are the book.
- `LedgerRestsHolds`, for `Ttl` = 0 (every config) and quotes that fit the aggregate
  cap one by one (`QuotesFit`; the config's cap is far above a stake). `Resting` says what
  a quote in the ledger is at each await: resting, just filled or about to be placed.
- `InventoryMatchesFillsHolds`, under `Unfailed`. A sum over a set of fills is the
  cardinality of its shares (`Shares`: each fill with the numbers up to its quantity), so it
  grows by a lemma about finite sets (`SharesAdd`) and needs no recursion. The invariant
  (`Inventory`) sums the fills the strategy has been told of (`Heard`), since the rows are
  written before `on_fill` is called; between two steps of the loop these are all.
- `WithdrawnAtCloseHolds`, for a terminal phase longer than a tick, no lost tick and no
  pause: `InTime` says that a tracked quote was last looked at before that phase. The
  deviations above show what happens with a pause or an expiry.

### Control, operators, data

- `OperatorProofs`, `ControlPlane`: `FollowsRow`, for one request at a time (`MaxInFlight` <= 1).
  `HeardRow` speaks of what the driver will think once it has read its socket, since a
  message waits there. Two requests side by side may publish in the other order than
  they were stored, so the bound is needed.
- `OperatorProofs`, around it: `JobsAreSound` (`JobOrder`: how far a job's task, child and row
  are), `CommandsAreSound` (`BotInv`: cursors of the batch, what was handled in which
  life, which prompt each arming used up, what a replay still has to repeat),
  `CopilotIsSound` (`CopilotInv`: `SpendingBounded` bounds spending together with the
  turns that are past the check, which makes the caps inductive; `ThreadsKept` is about
  what is stored and about what each turn has read).
- `MarketDataProofs`, `Feeds`: `OpenPriceStableHolds` and `BooksOfKnownMarketsHolds`. The
  hard part is aliasing: `HeldCurrent` says when the record the recorder holds is still
  the one in the state.
- `MarketDataProofs`, `Candles`: `BackfillCompleteHolds` and `FinalUnlessOpenHolds` from
  `CandlesInv`: what the cursor has passed is stored or `Lost`, for each of the five ways of
  stepping. On Bybit the candle left out of a page is the first of a full range, so a page's
  worth of stored candles lies behind it (`BybitPage`). On Kraken the argument needs pages
  of more than one candle (`PageCandles` > 1; a page holds 720), because a page with only
  the row at the cursor is taken for the last one.
- `MarketDataProofs`, the composed ingestor (`MarketDataSpec`): `RowsAccountedHolds`,
  `FetchersSkipNothingHolds`, `MarketsStreamedHolds`. `IngestInv` is the conjunction of an
  invariant per part and `StepOfParts` reduces a step of the whole to one of a part.
  Paging rests on the growing list moving what was read only to higher offsets
  (`ScanInv`, `PagingInv`).
- `OperationsProofs`: `GuardSoundHolds` (`WindowsExact`: each deque is the young end of
  its log; `KillBacked`: the newest kill is the latest to end), `AlertsSoundHolds`
  (`BreakerHolds` counts a loop that is past the breaker together with the posts).
- `ResearchProofs`, `SettleBackfill` and `ModelRegistry`: `SettlesSoundHolds` (an order
  loaded by a script is settled by scripts only, all at the same time stamp, unless the
  engine held it) and `RegistrySoundHolds` (`ClearedBy`: who
  took the active flag away and what became of him).
- `ResearchProofs`, `Backtest`: `BacktestSoundHolds`. `BacktestSound` speaks of trades,
  the code only of one risk state. `Known` ties the two together: the manager's day is the
  last one, its count that day's number of trades, its cooldown no earlier than theirs
  asks for. `Ahead` is the reason why the manager, which replaces its whole state on ANY
  other day, never goes back: every tick that may still be evaluated is later than every
  close it knows of. It follows from the order of the loaders and from `BehindTheClose`:
  a market that is left opens for entry only after the one being replayed has closed.
  `LetIn` carries the answer of `can_enter` from the entry to the close.
- `ResearchProofs`, `WalkForward`: `WalkForwardSoundHolds`. `Tiled` says that the folds
  are the multiples of the step below the anchor, in order. `StableDominates`: three
  folds in four leave no other verdict as frequent. `MedianHalf`: `RankHeld` shows that
  every rank is held by a measured value, the two middle ones are ordered, so the upper
  one reaches the threshold and half of the values are no less.

### Assumptions

Besides the hypotheses named above the proofs rest on the `ASSUME`s of the modules:
parameters are natural numbers and functions on the right sets. Those that say more:
`DriverAssumption` and `RiskAssumption` only type the constants; `CandlesAssumption` says
that the candles of an exchange do not overlap; `FailWindow` and `KillThreshold` are
positive (five minutes and 2 in the code); the markets a trainer looks at are finitely many.
`BacktestAssumption`: the entry window lies within a market's window and is over before the
next one has ticks (at most 297 of 300 seconds in the configs, while ticks are recorded from
2 seconds before the open). `WfAssumption`: the threshold and the AUCs are positive
hundredths; plans may be invalid, since `build_folds` checks them. `RegistryAssumption`
speaks of the sources of resolved markets only, since no other is loaded. TLC evaluates all
of them in the runs, and the inductive invariants `SafetyInv`, `MakerInv` and those of the
ledgers were checked with TLC before they were proved.

### Only model-checked

- Liveness: `PositionsLeave`, `BuffersReclaimed`, `BackfillEnds`, `FeedsRecover`,
  `RestartRestoresPause`. Fairness and ENABLED are outside the prover.

Every invariant of the passing runs is a theorem, for all values of the constants that satisfy
the assumptions and hypotheses above; so are the action property
`NoEntryBelowDailyPause` and the refinement of `TradeLedger`. `NoEarlySettle`, which fails for
longer windows, is proved for those it holds for.

## Plan

1. `SettleBackfill` composed with `PaperDriver` instead of its own small engine, so that
   "the engine still held it" is a state of the driver's restart.
2. An abstract specification of the market maker's ledger, as `TradeLedger` is for the
   paper driver.
3. The context loader of the copilot and the engine's configuration.

## Not modelled

Strategies, indicators, features and sizing are floating-point computations with no state
shared between processes; the drivers and the backtest let the strategy decide freely. The
fitting itself, Monte Carlo, reports and the dashboard are offline or read-only.
`scripts/backfill_btc15m_initial.py` and `scripts/backfill_polymarket_prices_history.py`
repeat phases of the modelled script. `llm/context_loader.py` reads tables and never raises.
The watcher's two clock-driven loops start the daily report and the weekly walk-forwards as
subprocesses and keep one date each. Pooling, metrics and logging keep no state the program
acts on. Live mode does not exist in the code (`create_trading_node` raises).
