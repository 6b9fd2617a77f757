------------------------------ MODULE MMSafety ------------------------------
(***************************************************************************)
(* The cancel/fill ratio of MMSafetyGuard (src/trading/engine/mm_safety.py)*)
(* for one market.  The strategy calls record_cancel, record_fill and      *)
(* is_market_killed at moments of its own, so any interleaving of the      *)
(* three with the clock is explored.  The deques are pruned only by the    *)
(* two record calls, and killed_until is cleared only by the query.        *)
(*                                                                         *)
(* Definitions named Bug... are faulty variants of the definition below    *)
(* them, kept to show that the properties can fail.                        *)
(***************************************************************************)
EXTENDS Integers, Sequences

CONSTANTS
    RatioMax,       \* cancel_fill_ratio_max
    RatioWindow,    \* cancel_fill_window_minutes
    BreachGap,         \* breaches closer than this count once
    KillThreshold,  \* cancel_fill_kill_threshold
    KillWindow,     \* cancel_fill_kill_window_min
    ResumeAfter,         \* cancel_fill_resume_min
    AutoKill,       \* auto_kill_on_breach
    SafetyEnd, MaxSafetyEvents \* bounds

ASSUME SafetyAssumption ==
    /\ {RatioMax, RatioWindow, BreachGap, KillThreshold, KillWindow, ResumeAfter,
        SafetyEnd, MaxSafetyEvents} \subseteq Nat
    /\ KillThreshold > 0 /\ AutoKill \in BOOLEAN

VARIABLES
    gnow,
    st,         \* _MarketMMState
    cancelLog, fillLog, breachLog, \* history: every event so far
    gcAt        \* history: time of the latest record call

safetyVars == <<gnow, st, cancelLog, fillLog, breachLog, gcAt>>

Never == -1

SafetyInit ==
    /\ gnow = 0
    /\ st = [cancels |-> << >>, fills |-> << >>, breach_events |-> << >>,
             killed_until |-> Never]
    /\ cancelLog = << >> /\ fillLog = << >> /\ breachLog = << >>
    /\ gcAt = 0

-----------------------------------------------------------------------------
\* The popleft loop: drops the leading entries older than the cutoff.
PruneOld(q, cutoff) ==
    LET kept == {i \in 1 .. Len(q) : \E j \in 1 .. i : q[j] >= cutoff}
    IN  IF kept = {} THEN << >>
        ELSE SubSeq(q, CHOOSE i \in kept : \A j \in kept : i <= j, Len(q))

BugGcWindow(s) ==
    [cancels |-> PruneOld(s.cancels, gnow - RatioWindow), fills |-> s.fills,
     breach_events |-> PruneOld(s.breach_events, gnow - KillWindow),
     killed_until |-> s.killed_until]
GcWindow(s) ==
    [cancels |-> PruneOld(s.cancels, gnow - RatioWindow),
     fills |-> PruneOld(s.fills, gnow - RatioWindow),
     breach_events |-> PruneOld(s.breach_events, gnow - KillWindow),
     killed_until |-> s.killed_until]

AtLeastOne(n) == IF n = 0 THEN 1 ELSE n

\* A breach that counts: the ratio is exceeded and the latest breach is not
\* within the minute.
IsBreach(s) ==
    /\ Len(s.cancels) > RatioMax * AtLeastOne(Len(s.fills))
    /\ s.breach_events # << >> =>
          gnow - s.breach_events[Len(s.breach_events)] >= BreachGap

MaybeBreach(s) ==
    LET events == Append(s.breach_events, gnow)
    IN  IF ~IsBreach(s) THEN s
        ELSE [s EXCEPT !.breach_events = events,
                       !.killed_until = IF Len(events) >= KillThreshold /\ AutoKill
                                        THEN gnow + ResumeAfter ELSE @]

RecordCancel ==
    /\ Len(cancelLog) + Len(fillLog) < MaxSafetyEvents
    /\ LET pruned == GcWindow([st EXCEPT !.cancels = Append(@, gnow)])
       IN  /\ st' = MaybeBreach(pruned)
           /\ breachLog' = IF IsBreach(pruned) THEN Append(breachLog, gnow)
                           ELSE breachLog
    /\ cancelLog' = Append(cancelLog, gnow)
    /\ gcAt' = gnow
    /\ UNCHANGED <<gnow, fillLog>>

RecordFill ==
    /\ Len(cancelLog) + Len(fillLog) < MaxSafetyEvents
    /\ st' = GcWindow([st EXCEPT !.fills = Append(@, gnow)])
    /\ fillLog' = Append(fillLog, gnow)
    /\ gcAt' = gnow
    /\ UNCHANGED <<gnow, cancelLog, breachLog>>

\* is_market_killed: an elapsed kill is cleared as a side effect.
IsMarketKilled ==
    /\ st' = IF gnow >= st.killed_until THEN [st EXCEPT !.killed_until = Never]
             ELSE st
    /\ UNCHANGED <<gnow, cancelLog, fillLog, breachLog, gcAt>>

SafetyTick ==
    /\ gnow < SafetyEnd
    /\ gnow' = gnow + 1
    /\ UNCHANGED <<st, cancelLog, fillLog, breachLog, gcAt>>

SafetyNext == RecordCancel \/ RecordFill \/ IsMarketKilled \/ SafetyTick

SafetySpec == SafetyInit /\ [][SafetyNext]_safetyVars

-----------------------------------------------------------------------------
\* A deque holds the events of a log from the cutoff on: all of them and no
\* other, in their order.
InWindow(q, log, cutoff) ==
    \E k \in 0 .. Len(log) :
       /\ q = SubSeq(log, k + 1, Len(log))
       /\ \A i \in 1 .. Len(log) : log[i] >= cutoff <=> i > k

\* The pruned deques hold exactly the events of their window as of the latest
\* record call, so the ratio is that of the last five minutes and a breach
\* older than an hour does not count.
WindowsExact ==
    /\ InWindow(st.cancels, cancelLog, gcAt - RatioWindow)
    /\ InWindow(st.fills, fillLog, gcAt - RatioWindow)
    /\ InWindow(st.breach_events, breachLog, gcAt - KillWindow)

\* The j-th breach was the KillThreshold-th or a later one within its window.
Kills(j) ==
    /\ AutoKill /\ j >= KillThreshold
    /\ breachLog[j] - breachLog[j - KillThreshold + 1] <= KillWindow

\* A market is refused quotes at every moment of the ResumeAfter period after a
\* breach that completes the threshold, and at no other moment.
KilledIffBreached ==
    (st.killed_until # Never /\ gnow < st.killed_until) <=>
       \E j \in 1 .. Len(breachLog) : Kills(j) /\ gnow < breachLog[j] + ResumeAfter

\* The guard judges by the last minutes only, and its verdict is the one the
\* whole history of breaches calls for (engine/mm_safety.py).
GuardSound == WindowsExact /\ KilledIffBreached
=============================================================================
