------------------------------ MODULE Copilot ------------------------------
(***************************************************************************)
(* POST /api/v1/llm/chat: run_turn reads the conversation, checks the caps,*)
(* loads the context, asks the provider, overwrites the conversation with  *)
(* what it read plus its own turn, and adds to the day's usage, each in an *)
(* await of its own.  Turns run concurrently, of one session too; /ask     *)
(* keeps its session id in Redis for a while.                              *)
(*                                                                         *)
(* All sessions are one user's (the user id is a hash of the one API       *)
(* token).  A turn costs one unit and one token; its message is the turn.  *)
(*                                                                         *)
(* Definitions named Bug... are faulty variants of the definition below    *)
(* them, kept to show that the properties can fail.                        *)
(***************************************************************************)
EXTENDS Naturals, Sequences, FiniteSets, SequencesExt

CONSTANTS Turns, Sessions,
          CostCap, SessionCap, TokenCap,  \* daily cost, daily sessions, tokens
          MaxTurnErrs, MaxResets          \* bounds

ASSUME CopilotAssumption ==
    {CostCap, SessionCap, TokenCap, MaxTurnErrs, MaxResets} \subseteq Nat

VARIABLES
    at,           \* [Turns -> where run_turn is]
    session,      \* [Turns -> its session]
    prior,        \* [Turns -> the thread it read, << >> for no row]
    conversation, \* llm_conversations: [Sessions -> messages; << >> is no row]
    usage,        \* llm_usage_daily: sessions and cost of the day
    answered,     \* history: turns the provider answered
    unrecorded,   \* history: answered turns that failed before record_turn
    peak,         \* history: most turns that were past the check at one time
    turnErrs, resets

copilotVars == <<at, session, prior, conversation, usage, answered, unrecorded, peak, turnErrs, resets>>

CopilotInit ==
    /\ at = [t \in Turns |-> "idle"] /\ session \in [Turns -> Sessions]
    /\ prior = [t \in Turns |-> << >>] /\ conversation = [s \in Sessions |-> << >>]
    /\ usage = [sessions |-> 0, cost |-> 0]
    /\ answered = {} /\ unrecorded = {} /\ peak = 0 /\ turnErrs = 0 /\ resets = 0

Raises == turnErrs < MaxTurnErrs /\ turnErrs' = turnErrs + 1
Go(t, pc) == at' = [at EXCEPT ![t] = pc]

\* Validation and get_by_session.
GetBySession(t) ==
    /\ at[t] = "idle" /\ Go(t, "check")
    /\ prior' = [prior EXCEPT ![t] = conversation[session[t]]]
    /\ UNCHANGED <<session, conversation, usage, answered, unrecorded, peak, turnErrs, resets>>

IsFirst(t) == prior[t] = << >>

\* The turns that are past the check, in a function that says where each is.
Running(pc) == Cardinality({t \in Turns : pc[t] \in {"call", "upsert", "record"}})

\* The three limits of check_before_turn.
BugOverLimit(t) ==
    \/ Len(prior[t]) >= TokenCap \/ usage.cost > CostCap
    \/ IsFirst(t) /\ usage.sessions >= SessionCap
OverLimit(t) ==
    \/ Len(prior[t]) >= TokenCap \/ usage.cost >= CostCap
    \/ IsFirst(t) /\ usage.sessions >= SessionCap

CheckBeforeTurn(t) ==
    /\ at[t] = "check"
    /\ Go(t, IF OverLimit(t) THEN "refused" ELSE "call")
    /\ peak' = IF Running(at') > peak THEN Running(at') ELSE peak
    /\ UNCHANGED <<session, prior, conversation, usage, answered, unrecorded, turnErrs, resets>>

\* load_contexts never raises; chat_completion may: a transport or provider
\* error, or an answer with tool calls, which is discarded but was paid for.
ChatCompletion(t) ==
    /\ at[t] = "call"
    /\ \/ Go(t, "upsert") /\ answered' = answered \union {t} /\ UNCHANGED <<unrecorded, turnErrs>>
       \/ Raises /\ Go(t, "failed") /\ UNCHANGED <<answered, unrecorded>>
       \/ /\ Raises /\ Go(t, "failed")
          /\ answered' = answered \union {t} /\ unrecorded' = unrecorded \union {t}
    /\ UNCHANGED <<session, prior, conversation, usage, peak, resets>>

\* upsert_turn
UpsertTurn(t) ==
    /\ at[t] = "upsert"
    /\ \/ /\ Go(t, "record")
          /\ conversation' = [conversation EXCEPT ![session[t]] = Append(prior[t], t)]
          /\ UNCHANGED <<unrecorded, turnErrs>>
       \/ /\ Raises /\ Go(t, "failed") /\ unrecorded' = unrecorded \union {t}
          /\ UNCHANGED conversation
    /\ UNCHANGED <<session, prior, usage, answered, peak, resets>>

\* record_turn: increments, so concurrent turns add up.
RecordTurn(t) ==
    /\ at[t] = "record"
    /\ \/ /\ Go(t, "done")
          /\ usage' = [sessions |-> usage.sessions + (IF IsFirst(t) THEN 1 ELSE 0),
                       cost |-> usage.cost + 1]
          /\ UNCHANGED <<unrecorded, turnErrs>>
       \/ /\ Raises /\ Go(t, "failed") /\ unrecorded' = unrecorded \union {t}
          /\ UNCHANGED usage
    /\ UNCHANGED <<session, prior, conversation, answered, peak, resets>>

\* api_llm_reset, from /ask_reset.
Reset(s) ==
    /\ resets < MaxResets /\ resets' = resets + 1
    /\ conversation' = [conversation EXCEPT ![s] = << >>]
    /\ UNCHANGED <<at, session, prior, usage, answered, unrecorded, peak, turnErrs>>

CopilotNext ==
    \/ \E t \in Turns : \/ GetBySession(t) \/ CheckBeforeTurn(t) \/ ChatCompletion(t)
                        \/ UpsertTurn(t) \/ RecordTurn(t)
    \/ \E s \in Sessions : Reset(s)

CopilotSpec == CopilotInit /\ [][CopilotNext]_copilotVars

-----------------------------------------------------------------------------
Count(P) == Cardinality({t \in Turns : at[t] = P})

\* Every answer that was paid for is in the day's usage, except those whose
\* turn failed on the way.  The day's caps are checked before the call and
\* spent after it: they are exceeded, by the other turns that were running at
\* the same time and no more.  A conversation is always a thread some turn
\* really had: no turn twice, only its own session's turns, each after what
\* it had read, and never longer than the cap.
CopilotSound ==
    /\ usage.cost = Cardinality(answered \ unrecorded) - Count("upsert") - Count("record")
    /\ usage.cost + 1 <= CostCap + peak \/ usage.cost = 0
    /\ usage.sessions + 1 <= SessionCap + peak \/ usage.sessions = 0
    /\ \A s \in Sessions : LET c == conversation[s] IN
          /\ IsInjective(c) /\ Len(c) <= TokenCap
          /\ \A i \in DOMAIN c : session[c[i]] = s /\ c[i] \in answered
          /\ c # << >> => Front(c) = prior[Last(c)]
=============================================================================
