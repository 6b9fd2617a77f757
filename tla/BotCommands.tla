---------------------------- MODULE BotCommands ----------------------------
(***************************************************************************)
(* CommandPoller: one loop that asks Telegram for a batch of updates and   *)
(* handles them in turn.  The offset lives in memory and Telegram forgets  *)
(* a batch only when the NEXT poll carries that offset, so a bot that dies *)
(* is given its latest batch again, while its kill-switch prompts, kept in *)
(* memory too, are gone.                                                   *)
(*                                                                         *)
(* Definitions named Bug... are faulty variants of the definition below    *)
(* them, kept to show that the properties can fail.                        *)
(***************************************************************************)
EXTENDS Naturals, Sequences, FiniteSets

CONSTANTS Users, Authorized,
          Mail,        \* the updates that are sent: <<user, text>>
          PromptTtl,   \* KILLSWITCH_FSM_TTL_S
          AskTtl,      \* LLM_SESSION_TTL_S
          MaxUpdates, MaxBotDeaths, MaxCallErrs, BotEnd \* bounds

\* "read" is /status, /positions, /trades, /pnl and /help; "phrase" is the
\* confirmation; "/restart" names the bot's own service.
Texts == {"read", "phrase", "/killswitch", "/pause", "/resume", "/restart", "/ask", "/ask_reset"}

ASSUME BotAssumption ==
    /\ Authorized \subseteq Users /\ Mail \subseteq Users \X Texts
    /\ {PromptTtl, AskTtl, MaxUpdates, MaxBotDeaths, MaxCallErrs, BotEnd} \subseteq Nat

VARIABLES
    bnow,
    updates,   \* every update so far, with its sender and text
    forgotten, \* how many of them Telegram will not deliver again
    offset,    \* _offset - 1: the last update fetched; 0 for none
    batch,     \* how many of the fetched updates were handled
    pending,   \* _killswitch_pending: [Users -> time of the prompt, or 0]
    strategyRow, \* paused, as the API persists it
    askKey,    \* tea:llm:session: [sid, until], sid 0 for none
    sids,      \* session ids handed out so far
    closedSids,\* history: sessions that /ask_reset has ended
    runs,      \* history: [update -> how often it was handled]
    armings,   \* history: [by, prompted, at, life, upd] of every arming
    prompts,   \* history: [by, at, life, upd] of every prompt
    deaths, callErrs

botVars == <<bnow, updates, forgotten, offset, batch, pending, strategyRow, askKey, sids,
             closedSids, runs, armings, prompts, deaths, callErrs>>

NoKey == [sid |-> 0, until |-> 0]

BotInit ==
    /\ bnow = 1 /\ updates = << >> /\ forgotten = 0 /\ offset = 0 /\ batch = 0
    /\ pending = [u \in Users |-> 0] /\ strategyRow = FALSE
    /\ askKey = NoKey /\ sids = 0 /\ closedSids = {}
    /\ runs = << >> /\ armings = {} /\ prompts = {}
    /\ deaths = 0 /\ callErrs = 0

\* A message reaches Telegram.
SendUpdate(m) ==
    /\ Len(updates) < MaxUpdates
    /\ updates' = Append(updates, [by |-> m[1], text |-> m[2]])
    /\ runs' = Append(runs, 0)
    /\ UNCHANGED <<bnow, forgotten, offset, batch, pending, strategyRow, askKey, sids,
                   closedSids, armings, prompts, deaths, callErrs>>

-----------------------------------------------------------------------------
\* _get_updates: the request confirms what precedes its offset and returns
\* the rest; without an offset it confirms nothing.  A poll whose answer is
\* lost has confirmed all the same.
Confirmed == IF offset > 0 THEN offset ELSE forgotten
BugGetUpdates ==
    /\ batch = offset
    /\ offset' = Len(updates) /\ batch' = Confirmed
    /\ forgotten' = Len(updates)
    /\ Len(updates) > Confirmed
    /\ UNCHANGED <<bnow, updates, pending, strategyRow, askKey, sids, closedSids, runs,
                   armings, prompts, deaths, callErrs>>
GetUpdates ==
    /\ batch = offset
    /\ forgotten' = Confirmed
    /\ \/ /\ Len(updates) > Confirmed
          /\ offset' = Len(updates) /\ batch' = Confirmed
          /\ UNCHANGED callErrs
       \/ /\ callErrs < MaxCallErrs /\ callErrs' = callErrs + 1
          /\ UNCHANGED <<offset, batch>>
    /\ UNCHANGED <<bnow, updates, pending, strategyRow, askKey, sids, closedSids, runs,
                   armings, prompts, deaths>>

\* The update under the loop, and whether it answers an unexpired prompt of
\* its sender.
Current == updates[batch + 1]
Answers(upd) == pending[upd.by] # 0 /\ bnow - pending[upd.by] < PromptTtl

\* A call to the API or to Redis that fails is logged by the loop and the
\* update counts as handled.
CallFails == callErrs < MaxCallErrs /\ callErrs' = callErrs + 1

\* _cmd_killswitch_confirm, with api_killswitch_on.
Arm(u) ==
    /\ armings' = armings \union {[by |-> u, prompted |-> pending[u], at |-> bnow, life |-> deaths,
                                upd |-> batch + 1]}
    /\ UNCHANGED callErrs
KillswitchConfirm(upd) ==
    /\ IF upd.text = "phrase" THEN Arm(upd.by) \/ (CallFails /\ UNCHANGED armings)
       ELSE UNCHANGED <<armings, callErrs>>
    /\ UNCHANGED <<strategyRow, askKey, sids, closedSids, prompts>>

\* _cmd_killswitch
KillswitchPrompt(upd) ==
    /\ prompts' = prompts \union {[by |-> upd.by, at |-> bnow, life |-> deaths, upd |-> batch + 1]}
    /\ UNCHANGED <<strategyRow, askKey, sids, closedSids, armings, callErrs>>

\* _cmd_pause and _cmd_resume; an upsert that fails may have committed.
SetPause(upd) ==
    /\ \/ strategyRow' = (upd.text = "/pause") /\ UNCHANGED callErrs
       \/ CallFails /\ strategyRow' \in {strategyRow, upd.text = "/pause"}
    /\ UNCHANGED <<askKey, sids, closedSids, armings, prompts>>

\* _cmd_ask: _get_or_create_session renews the key or makes a new one.
KeyLives == askKey.sid # 0 /\ bnow < askKey.until
Ask ==
    /\ \/ /\ askKey' = [sid |-> IF KeyLives THEN askKey.sid ELSE sids + 1, until |-> bnow + AskTtl]
          /\ sids' = IF KeyLives THEN sids ELSE sids + 1
          /\ UNCHANGED callErrs
       \/ CallFails /\ UNCHANGED <<askKey, sids>>
    /\ UNCHANGED <<strategyRow, closedSids, armings, prompts>>

\* _cmd_ask_reset: the key goes first, then the conversation.
AskReset ==
    /\ askKey' = NoKey
    /\ \/ /\ closedSids' = IF KeyLives THEN closedSids \union {askKey.sid} ELSE closedSids
          /\ UNCHANGED callErrs
       \/ KeyLives /\ CallFails /\ UNCHANGED closedSids
    /\ UNCHANGED <<sids, strategyRow, armings, prompts>>

\* _cmd_status, _cmd_positions, _cmd_trades, _cmd_pnl, _cmd_help and what is
\* no command: questions to the API and a reply.
ReadOnly == UNCHANGED <<strategyRow, askKey, sids, closedSids, armings, prompts, callErrs>>

\* The handler table, behind the confirmation of a prompt.
Dispatch(upd) ==
    CASE Answers(upd) -> KillswitchConfirm(upd)
      [] ~Answers(upd) /\ upd.text = "/killswitch" -> KillswitchPrompt(upd)
      [] ~Answers(upd) /\ upd.text \in {"/pause", "/resume"} -> SetPause(upd)
      [] ~Answers(upd) /\ upd.text = "/ask" -> Ask
      [] ~Answers(upd) /\ upd.text = "/ask_reset" -> AskReset
      [] OTHER -> ReadOnly

\* _handle_update.  A pending prompt is consumed by any text of its user.
Restarts(upd) == upd.by \in Authorized /\ ~Answers(upd) /\ upd.text = "/restart"
AfterText(upd) ==
    [pending EXCEPT ![upd.by] = IF ~Answers(upd) /\ upd.text = "/killswitch" THEN bnow ELSE 0]
HandleUpdate ==
    /\ batch < offset /\ ~Restarts(Current)
    /\ batch' = batch + 1
    /\ runs' = [runs EXCEPT ![batch + 1] = @ + 1]
    /\ IF Current.by \in Authorized
       THEN Dispatch(Current) /\ pending' = AfterText(Current)
       ELSE UNCHANGED <<pending, strategyRow, askKey, sids, closedSids, armings, prompts, callErrs>>
    /\ UNCHANGED <<bnow, updates, forgotten, offset, deaths>>

\* The process ends, by a crash, a deploy, or the /restart it was told to ask
\* for, and comes back with an empty memory.
Die == /\ deaths < MaxBotDeaths /\ deaths' = deaths + 1
       /\ offset' = 0 /\ batch' = 0 /\ pending' = [u \in Users |-> 0]
       /\ UNCHANGED <<bnow, updates, forgotten, strategyRow, askKey, sids, closedSids,
                      armings, prompts, callErrs>>
BotCrash == Die /\ UNCHANGED runs
RestartSelf ==
    /\ batch < offset /\ Restarts(Current)
    /\ runs' = [runs EXCEPT ![batch + 1] = @ + 1]
    /\ Die

BotTick ==
    /\ bnow < BotEnd /\ bnow' = bnow + 1
    /\ UNCHANGED <<updates, forgotten, offset, batch, pending, strategyRow, askKey, sids,
                   closedSids, runs, armings, prompts, deaths, callErrs>>

BotNext ==
    \/ \E m \in Mail : SendUpdate(m)
    \/ GetUpdates \/ HandleUpdate \/ RestartSelf \/ BotCrash \/ BotTick

BotSpec == BotInit /\ [][BotNext]_botVars

-----------------------------------------------------------------------------
\* Telegram forgets no update that was not handled, and no update is handled
\* more often than once for each life of the bot.
AtLeastOnce ==
    \A i \in 1 .. Len(updates) :
       /\ i <= forgotten => runs[i] >= 1
       /\ runs[i] <= 1 + deaths

\* The kill switch is armed only in answer to a prompt the same user asked for
\* in the same life of the bot, before it expired, and once per prompt.
ArmedOnlyByAnswer ==
    /\ \A a \in armings :
          /\ a.by \in Authorized /\ a.at - a.prompted < PromptTtl
          /\ \E p \in prompts : p.by = a.by /\ p.at = a.prompted /\ p.life = a.life /\ p.upd < a.upd
    /\ Cardinality(armings) <= Cardinality(prompts)

\* A batch that is handled again ends where it ended before: once the loop has
\* caught up, the latest /pause or /resume is in force, unless a call failed
\* or a prompt of the kill switch has swallowed one of them.
Switches ==
    {i \in 1 .. Len(updates) :
       runs[i] > 0 /\ updates[i].by \in Authorized /\ updates[i].text \in {"/pause", "/resume"}}
ReplayConverges ==
    offset > 0 /\ batch = offset /\ callErrs = 0 /\ prompts = {} =>
       (strategyRow <=> \E i \in Switches : updates[i].text = "/pause" /\ \A j \in Switches : j <= i)

\* What the operator may rely on when he talks to the bot: nothing is lost, the
\* switch is armed only on purpose, handling a batch twice is harmless, and an
\* ask session that was reset is never asked again.
CommandsSound ==
    /\ AtLeastOnce /\ ArmedOnlyByAnswer /\ ReplayConverges
    /\ KeyLives => askKey.sid \notin closedSids
=============================================================================
