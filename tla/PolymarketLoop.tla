--------------------------- MODULE PolymarketLoop ---------------------------
(***************************************************************************)
(* The Polymarket side of the ingestor: Supervisor._guarded around         *)
(* _polymarket_loop, which discovers markets, asks the table for the open  *)
(* ones and keeps a stream_prices task for them.  The other guarded tasks  *)
(* catch every exception themselves; this one can raise, in its query and  *)
(* where it awaits a stream task that has failed.                          *)
(*                                                                         *)
(* Definitions named Bug... are faulty variants of the definition below    *)
(* them, kept to show that the properties can fail.                        *)
(***************************************************************************)
EXTENDS Naturals, Sequences, FiniteSets

CONSTANTS
    Mkts, ListedAt, ClosesAt,  \* markets, when they are listed and when they close
    Fifteen,                   \* the 15m markets among them
    NoTokens,                  \* markets whose metadata has no token ids
    FailBudget, FailWindow,    \* 3, 5 minutes
    LoopEnd, MaxLoopErrs, MaxStreams \* bounds

ASSUME LoopAssumption ==
    /\ ListedAt \in [Mkts -> Nat] /\ ClosesAt \in [Mkts -> Nat]
    /\ Fifteen \subseteq Mkts /\ NoTokens \subseteq Mkts
    /\ {FailBudget, FailWindow, LoopEnd, MaxLoopErrs, MaxStreams} \subseteq Nat
    /\ FailWindow > 0

VARIABLES
    mnow, loop,       \* the time in minutes; where the loop is
    pulled,           \* did_historical_pull
    known,            \* polymarket_markets, rows with resolved = FALSE
    streamed, last,   \* streamed_ids; last_stream_task, 0 for None
    streams,          \* all stream_prices tasks ever made
    fails,            \* fails_in_window
    crashes,          \* history: exceptions that reached _guarded
    loopErrs

loopVars == <<mnow, loop, pulled, known, streamed, last, streams, fails, crashes, loopErrs>>

LoopInit ==
    /\ mnow = 0 /\ loop = "discover" /\ pulled = FALSE /\ known = {}
    /\ streamed = {} /\ last = 0 /\ streams = << >> /\ fails = << >>
    /\ crashes = 0 /\ loopErrs = 0

Fails == loopErrs < MaxLoopErrs /\ loopErrs' = loopErrs + 1
Listed(S) == {m \in S : ListedAt[m] <= mnow}
Running(i) == streams[i].state \in {"load", "run"}

\* The historical pull, 5m only, or the near-real-time one of both families.
\* One that fails is logged and has stored some of its pages.  A market found
\* after its window is stored as resolved.
Found == {m \in Listed(IF pulled THEN Mkts ELSE Mkts \ Fifteen) : ClosesAt[m] >= mnow}
Discover ==
    /\ loop = "discover" /\ loop' = "query"
    /\ \/ known' = known \union Found /\ pulled' = TRUE /\ UNCHANGED loopErrs
       \/ Fails /\ UNCHANGED pulled /\ \E S \in SUBSET Found : known' = known \union S
    /\ UNCHANGED <<mnow, streamed, last, streams, fails, crashes>>

\* SELECT the open ones; when the set has changed, the old task is cancelled
\* and awaited and a new one started.
OpenIds == {m \in known : ClosesAt[m] >= mnow}
Changed == OpenIds # {} /\ OpenIds # streamed
AwaitRaises == Changed /\ last # 0 /\ streams[last].state = "failed"
SelectOpen ==
    /\ loop = "query" /\ ~AwaitRaises /\ loop' = "sleep"
    /\ IF Changed
       THEN /\ Len(streams) < MaxStreams
            /\ streamed' = OpenIds
            /\ streams' = Append([i \in DOMAIN streams |->
                                    IF i = last /\ Running(i)
                                    THEN [streams[i] EXCEPT !.state = "cancelled"]
                                    ELSE streams[i]],
                                 [ids |-> OpenIds, state |-> "load"])
            /\ last' = Len(streams')
       ELSE UNCHANGED <<streamed, streams, last>>
    /\ UNCHANGED <<mnow, pulled, known, fails, crashes, loopErrs>>

\* The query raises, or the stream task awaited had failed and raises what it
\* died of: _guarded counts the failures of the last minutes and gives up the
\* whole ingestor, or sleeps and calls the loop again, whose locals start anew.
\* A stream task that runs is nobody's then, and runs on.
\* The failures are in the order of time: those that are dropped come first.
Recent ==
    LET old == {i \in DOMAIN fails : mnow - fails[i] >= FailWindow}
    IN SubSeq(fails, Cardinality(old) + 1, Len(fails))
BugGuarded ==
    /\ loop = "query" /\ (Fails \/ (AwaitRaises /\ UNCHANGED loopErrs))
    /\ fails' = Append(fails, mnow)
    /\ loop' = IF Len(fails') > FailBudget THEN "stopped" ELSE "guard"
    /\ crashes' = crashes + 1
    /\ pulled' = FALSE /\ streamed' = {} /\ last' = 0
    /\ UNCHANGED <<mnow, known, streams>>
Guarded ==
    /\ loop = "query" /\ (Fails \/ (AwaitRaises /\ UNCHANGED loopErrs))
    /\ fails' = Append(Recent, mnow)
    /\ loop' = IF Len(fails') > FailBudget THEN "stopped" ELSE "guard"
    /\ crashes' = crashes + 1
    /\ pulled' = FALSE /\ streamed' = {} /\ last' = 0
    /\ UNCHANGED <<mnow, known, streams>>

CallAgain ==
    /\ loop = "guard" /\ loop' = "discover"
    /\ UNCHANGED <<mnow, pulled, known, streamed, last, streams, fails, crashes, loopErrs>>

\* asyncio.sleep(60)
Wake ==
    /\ loop = "sleep" /\ mnow < LoopEnd
    /\ mnow' = mnow + 1 /\ loop' = "discover"
    /\ UNCHANGED <<pulled, known, streamed, last, streams, fails, crashes, loopErrs>>

\* Discovery with its retries, or the pause of _guarded, take a while.
Passes ==
    /\ loop \in {"discover", "guard"} /\ mnow < LoopEnd
    /\ mnow' = mnow + 1
    /\ UNCHANGED <<loop, pulled, known, streamed, last, streams, fails, crashes, loopErrs>>

\* stream_prices: the token query is outside its try; without tokens it
\* returns, and an exception ends the task and waits for who awaits it.  After
\* that it reconnects for ever.
StreamPrices ==
    /\ \E i \in DOMAIN streams :
          /\ streams[i].state = "load"
          /\ \/ streams' = [streams EXCEPT ![i].state =
                              IF streams[i].ids \subseteq NoTokens THEN "empty" ELSE "run"]
                /\ UNCHANGED loopErrs
             \/ Fails /\ streams' = [streams EXCEPT ![i].state = "failed"]
    /\ UNCHANGED <<mnow, loop, pulled, known, streamed, last, fails, crashes>>

LoopNext == Discover \/ SelectOpen \/ Guarded \/ CallAgain \/ Wake \/ Passes \/ StreamPrices

LoopSpec == LoopInit /\ [][LoopNext]_loopVars

-----------------------------------------------------------------------------
\* While the loop sleeps, every market it knows and that is still open is in
\* a stream that runs, or in the last one, whose token query failed and which
\* the next change of the set will raise: a crash and a fresh start of the
\* loop, a failed discovery or a market closing meanwhile leave none behind.
OpenMarketsStreamed ==
    loop = "sleep" => \A m \in OpenIds \ NoTokens :
       \/ \E i \in DOMAIN streams : Running(i) /\ m \in streams[i].ids
       \/ last # 0 /\ m \in streams[last].ids /\ streams[last].state = "failed"

\* The ingestor is given up only after more than FailBudget failures of the loop
\* within the window, those of its stream tasks included, and a stream runs
\* without an owner only after a crash of the loop.
SupervisionSound ==
    /\ loop = "stopped" => /\ Len(fails) > FailBudget
                           /\ \A i \in DOMAIN fails : fails[Len(fails)] - fails[i] < FailWindow
    /\ Cardinality({i \in DOMAIN streams : Running(i)}) <= crashes + 1
=============================================================================
