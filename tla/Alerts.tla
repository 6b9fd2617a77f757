------------------------------- MODULE Alerts -------------------------------
(***************************************************************************)
(* Who tells the operator: HeartbeatPublisher of the engine, the watcher's *)
(* heartbeat loop and control loop, and the TelegramClient they share,     *)
(* with its dedupe and its circuit breaker.                                *)
(*                                                                         *)
(* A loop computes a condition and, when it changed, awaits send() before  *)
(* it stores the new flag; send() awaits the rate limiter and the request. *)
(* The two loops are tasks of their own, so both can be in send().  A      *)
(* round of the control loop judges four conditions one after another, the *)
(* first two by one status, read before the first may be sent.             *)
(*                                                                         *)
(* Definitions named Bug... are faulty variants of the definition below    *)
(* them, kept to show that the properties can fail.                        *)
(***************************************************************************)
EXTENDS Naturals, Sequences, FiniteSets

CONSTANTS
    LostAfter,                \* LOST_THRESHOLD_S; 60 s in _status_payload too
    DedupeTime,               \* DEDUPE_SECONDS
    BreakerWindow, BreakerMax, Cooldown,
    AlertDay,                 \* a day
    AlertEnd, MaxSendErrs, MaxToggles \* bounds

ASSUME AlertsAssumption ==
    /\ {LostAfter, DedupeTime, BreakerWindow, BreakerMax, Cooldown} \subseteq Nat
    /\ {AlertEnd, MaxSendErrs, MaxToggles} \subseteq Nat /\ AlertDay \in Nat \ {0}

\* What is alerted on, and the kinds of the alerts.
Conditions == {"lost", "down", "kill", "pnl", "stale"}
KindOf(c) ==
    CASE c = "lost" -> "HEARTBEAT_LOST" [] c = "down" -> "CONTROL_ENGINE_DOWN"
      [] c = "kill" -> "CONTROL_KILL_SWITCH_ON" [] c = "pnl" -> "CONTROL_PNL_ALERT"
      [] c = "stale" -> "CONTROL_STALE_TRADES"
Kinds == {"HEARTBEAT_LOST", "HEARTBEAT_RECOVERED", "CONTROL_ENGINE_DOWN", "CONTROL_KILL_SWITCH_ON",
          "CONTROL_PNL_ALERT", "CONTROL_STALE_TRADES"}
Loops == {"heartbeat", "control"}
Flags == Conditions \ {"pnl"}

VARIABLES
    anow, engineUp, killFile,
    lossNow,                   \* /pnl is at or below the threshold
    staleNow,                  \* /trades/recent shows no recent trade
    beat,                      \* ts in tea:engine:last_heartbeat
    flag,                      \* _last_state_lost and the alert_active flags
    pnlDay,                    \* _pnl_alert_day; 0 is none
    round,                     \* the condition the control loop judges next
    killSeen,                  \* the switch in the status it has read
    sending,                   \* [Loops -> the kind in send(), or "none"]
    lastSeen, suppressedUntil, \* the client; 0 is the epoch
    sentWindow,                \* its posts of the last BreakerWindow
    fate,                      \* history: [Conditions -> what became of its latest alert]
    sendErrs, toggles

world == <<engineUp, killFile, lossNow, staleNow>>
client == <<lastSeen, sentWindow, suppressedUntil>>
control == <<pnlDay, round, killSeen>>
alertVars == <<anow, world, beat, flag, control, sending, client, fate, sendErrs, toggles>>

Start0 == DedupeTime + BreakerWindow \* a present long after the epoch

AlertsInit ==
    /\ anow = Start0 /\ engineUp = TRUE /\ killFile = FALSE /\ beat = Start0
    /\ lossNow = FALSE /\ staleNow = FALSE
    /\ flag = [f \in Flags |-> FALSE] /\ fate = [c \in Conditions |-> "none"]
    /\ pnlDay = 0 /\ round = "down" /\ killSeen = FALSE
    /\ sending = [l \in Loops |-> "none"]
    /\ lastSeen = [k \in Kinds |-> 0] /\ sentWindow = << >> /\ suppressedUntil = 0
    /\ sendErrs = 0 /\ toggles = 0

\* HeartbeatPublisher.run: the key outlives the threshold, so its expiry
\* changes nothing.
Beat ==
    /\ engineUp /\ beat' = anow /\ beat # anow
    /\ UNCHANGED <<anow, world, flag, control, sending, client, fate, sendErrs, toggles>>

\* The engine stops or comes back, the kill switch is armed or removed, the
\* day's pnl crosses the threshold, trades stop or go on.
Toggle ==
    /\ toggles < MaxToggles /\ toggles' = toggles + 1
    /\ \/ engineUp' = ~engineUp /\ UNCHANGED <<killFile, lossNow, staleNow>>
       \/ killFile' = ~killFile /\ UNCHANGED <<engineUp, lossNow, staleNow>>
       \/ lossNow' = ~lossNow /\ UNCHANGED <<engineUp, killFile, staleNow>>
       \/ staleNow' = ~staleNow /\ UNCHANGED <<engineUp, killFile, lossNow>>
    /\ UNCHANGED <<anow, beat, flag, control, sending, client, fate, sendErrs>>

-----------------------------------------------------------------------------
\* The times after the cutoff; the list is in the order of time.
Posts(w, cutoff) == SubSeq(w, Cardinality({i \in DOMAIN w : w[i] <= cutoff}) + 1, Len(w))

\* _dedupe and _circuit_open
Duplicate(k) == anow - lastSeen[k] < DedupeTime
Tripping == Len(sentWindow) >= BreakerMax
BugCircuitOpen == anow < suppressedUntil
CircuitOpen == anow < suppressedUntil \/ Tripping

\* TelegramClient.send up to its await, by a loop, for a kind; what becomes
\* of the alert at once.
Send(l, k) ==
    /\ lastSeen' = IF Duplicate(k) THEN lastSeen ELSE [lastSeen EXCEPT ![k] = anow]
    /\ sending' = [sending EXCEPT ![l] = IF Duplicate(k) \/ CircuitOpen THEN "none" ELSE k]
    /\ suppressedUntil' =
          IF ~Duplicate(k) /\ anow >= suppressedUntil /\ CircuitOpen THEN anow + Cooldown
          ELSE suppressedUntil
    /\ UNCHANGED sentWindow
AtOnce(k) == IF Duplicate(k) \/ CircuitOpen THEN "dropped" ELSE "sending"

\* One round of run_heartbeat.  The flag is stored when send() is back.
Lost == anow - beat > LostAfter
RunHeartbeat ==
    /\ sending["heartbeat"] = "none" /\ Lost # flag["lost"]
    /\ flag' = [flag EXCEPT !["lost"] = Lost]
    /\ LET kind == IF Lost THEN "HEARTBEAT_LOST" ELSE "HEARTBEAT_RECOVERED"
       IN /\ Send("heartbeat", kind)
          /\ fate' = [fate EXCEPT !["lost"] = IF Lost THEN AtOnce(kind) ELSE "none"]
    /\ UNCHANGED <<anow, world, beat, control, sendErrs, toggles>>

\* _observe_once judges a condition that has a flag.
EngineDown == anow - beat >= LostAfter
Observe(f, condition) ==
    /\ flag' = [flag EXCEPT ![f] = condition]
    /\ IF condition /\ ~flag[f]
       THEN Send("control", KindOf(f)) /\ fate' = [fate EXCEPT ![f] = AtOnce(KindOf(f))]
       ELSE /\ fate' = IF condition THEN fate ELSE [fate EXCEPT ![f] = "none"]
            /\ UNCHANGED <<sending, client>>

\* Its four parts, in their order; a read that fails ends the round (that of
\* the status: nothing has happened yet).  The switch is judged as it was read
\* with the engine's state, before that was sent.
ObserveDown ==
    /\ round = "down" /\ sending["control"] = "none"
    /\ Observe("down", EngineDown) /\ killSeen' = killFile /\ round' = "kill"
    /\ UNCHANGED <<anow, world, beat, pnlDay, sendErrs, toggles>>
ObserveKill ==
    /\ round = "kill" /\ sending["control"] = "none"
    /\ Observe("kill", killSeen) /\ round' = "pnl"
    /\ UNCHANGED <<anow, world, beat, pnlDay, killSeen, sendErrs, toggles>>

\* The day is latched before its alert is sent.
Today == anow \div AlertDay
ObservePnl ==
    /\ round = "pnl" /\ sending["control"] = "none" /\ round' \in {"stale", "down"}
    /\ IF round' = "stale" /\ lossNow /\ pnlDay # Today
       THEN /\ pnlDay' = Today /\ Send("control", KindOf("pnl"))
            /\ fate' = [fate EXCEPT !["pnl"] = AtOnce(KindOf("pnl"))]
       ELSE UNCHANGED <<pnlDay, sending, client, fate>>
    /\ UNCHANGED <<anow, world, beat, flag, killSeen, sendErrs, toggles>>
ObserveStale ==
    /\ round = "stale" /\ sending["control"] = "none" /\ round' = "down"
    /\ Observe("stale", staleNow) \/ UNCHANGED <<flag, fate, sending, client>>
    /\ UNCHANGED <<anow, world, beat, pnlDay, killSeen, sendErrs, toggles>>
ObserveOnce == ObserveDown \/ ObserveKill \/ ObservePnl \/ ObserveStale

Settle(k, outcome) ==
    fate' = [c \in Conditions |-> IF KindOf(c) = k /\ fate[c] = "sending" THEN outcome ELSE fate[c]]

\* The request is answered 200, or not.
Posted ==
    /\ \E l \in Loops :
          /\ sending[l] # "none"
          /\ sending' = [sending EXCEPT ![l] = "none"]
          /\ \/ sentWindow' = Append(sentWindow, anow) /\ Settle(sending[l], "posted") /\ UNCHANGED sendErrs
             \/ /\ sendErrs < MaxSendErrs /\ sendErrs' = sendErrs + 1
                /\ Settle(sending[l], "dropped") /\ UNCHANGED sentWindow
    /\ UNCHANGED <<anow, world, beat, flag, control, lastSeen, suppressedUntil, toggles>>

\* Posts that have left the window are dropped by the next _circuit_open.
AlertTick ==
    /\ anow < Start0 + AlertEnd /\ anow' = anow + 1
    /\ sentWindow' = Posts(sentWindow, anow' - BreakerWindow)
    /\ UNCHANGED <<world, beat, flag, control, sending, lastSeen, suppressedUntil, fate,
                   sendErrs, toggles>>

AlertsNext == Beat \/ Toggle \/ RunHeartbeat \/ ObserveOnce \/ Posted \/ AlertTick

AlertsSpec == AlertsInit /\ [][AlertsNext]_alertVars

-----------------------------------------------------------------------------
\* The breaker holds although both loops may pass it before either has posted:
\* no window sees more than one post above the limit.  And a condition that is
\* flagged, or latched for its day, was handed to the client: its alert was
\* posted, is being posted, or was dropped by the dedupe, the breaker or a
\* failed request (it is never tried again while the condition lasts, or that
\* day); one being posted is in a loop that still waits for the answer.
AlertsSound ==
    /\ Len(sentWindow) <= BreakerMax + Cardinality(Loops) - 1
    /\ \A f \in Flags : flag[f] => fate[f] # "none"
    /\ pnlDay # 0 => fate["pnl"] # "none"
    /\ \A c \in Conditions : fate[c] = "sending" => \E l \in Loops : sending[l] = KindOf(c)
=============================================================================
