---------------------------- MODULE ControlPlane ----------------------------
(***************************************************************************)
(* Pausing a strategy (ADR 0009): the API persists the flag in             *)
(* trading.strategy_state and then publishes it on tea:control:<name>; the *)
(* driver reads the row once, at boot, and afterwards only listens.  Redis *)
(* pub/sub delivers to whoever is subscribed at that moment.               *)
(*                                                                         *)
(* Definitions named Bug... are faulty variants of the definition below    *)
(* them, kept to show that the properties can fail.                        *)
(***************************************************************************)
EXTENDS Naturals, Sequences, FiniteSets

CONSTANTS
    Requests,    \* calls of the pause and resume endpoints
    MaxInFlight, \* how many of them run at the same time
    MaxCrashes, MaxDrops, MaxErrs  \* engine crashes, disconnects, failed I/O

ASSUME ControlAssumption ==
    {MaxInFlight, MaxCrashes, MaxDrops, MaxErrs} \subseteq Nat

VARIABLES
    stateRow,  \* trading.strategy_state.state.paused
    stage,     \* [Requests -> where the endpoint is]
    op,        \* [Requests -> TRUE for pause, FALSE for resume]
    driver,    \* where PaperDriver.run is
    paused,    \* PaperDriver._paused
    chan,      \* control messages on the driver's socket
    missed,    \* history: a message was lost since the row was last read
    crashes, drops, errs

controlFaults == <<crashes, drops, errs>>
controlVars == <<stateRow, stage, op, driver, paused, chan, missed, controlFaults>>

InFlight == {r \in Requests : stage[r] = "publish"}

ControlInit ==
    /\ stateRow = FALSE
    /\ stage = [r \in Requests |-> "idle"]
    /\ op = [r \in Requests |-> FALSE]
    /\ driver = "down" /\ paused = FALSE /\ chan = << >>
    /\ missed = FALSE
    /\ crashes = 0 /\ drops = 0 /\ errs = 0

IoError == errs < MaxErrs /\ errs' = errs + 1

\* set_strategy_pause: the first await of api_pause and api_resume.  When it
\* raises, its upsert committed or not, nothing is published.
ApiPersist(r) ==
    /\ stage[r] = "idle" /\ Cardinality(InFlight) < MaxInFlight
    /\ op' \in {[op EXCEPT ![r] = b] : b \in BOOLEAN}
    /\ \/ /\ stateRow' = op'[r]
          /\ stage' = [stage EXCEPT ![r] = "publish"]
          /\ UNCHANGED <<missed, errs>>
       \/ /\ IoError
          /\ stage' = [stage EXCEPT ![r] = "failed"]
          /\ stateRow' \in {stateRow, op'[r]}
          /\ missed' = (missed \/ stateRow' # stateRow)
    /\ UNCHANGED <<driver, paused, chan, crashes, drops>>

\* The publish reaches the driver only if it is subscribed; the endpoint
\* answers 200 either way.
BugApiPublish(r) ==
    /\ stage[r] = "publish"
    /\ stage' = [stage EXCEPT ![r] = "done"]
    /\ UNCHANGED <<stateRow, op, driver, paused, chan, missed, controlFaults>>
ApiPublish(r) ==
    /\ stage[r] = "publish"
    /\ stage' = [stage EXCEPT ![r] = "done"]
    /\ IF driver = "listen"
       THEN chan' = Append(chan, op[r]) /\ UNCHANGED missed
       ELSE missed' = TRUE /\ UNCHANGED chan
    /\ UNCHANGED <<stateRow, op, driver, paused, controlFaults>>

\* Redis is away: the endpoint fails after the row was written.
ApiPublishError(r) ==
    /\ stage[r] = "publish" /\ IoError
    /\ stage' = [stage EXCEPT ![r] = "failed"]
    /\ missed' = TRUE
    /\ UNCHANGED <<stateRow, op, driver, paused, chan, crashes, drops>>

Start ==
    /\ driver = "down"
    /\ driver' = "rehydrate"
    /\ UNCHANGED <<stateRow, stage, op, paused, chan, missed, controlFaults>>

\* _rehydrate_pause_state; a failed query is logged and the flag stays FALSE.
BugRehydrate ==
    /\ driver = "rehydrate" /\ driver' = "connect"
    /\ UNCHANGED <<stateRow, stage, op, paused, chan, missed, controlFaults>>
Rehydrate ==
    /\ driver = "rehydrate"
    /\ \/ paused' = stateRow /\ missed' = FALSE /\ UNCHANGED errs
       \/ IoError /\ missed' = TRUE /\ UNCHANGED paused
    /\ driver' = "connect"
    /\ UNCHANGED <<stateRow, stage, op, chan, crashes, drops>>

Subscribe ==
    /\ driver = "connect"
    /\ driver' = "listen"
    /\ UNCHANGED <<stateRow, stage, op, paused, chan, missed, controlFaults>>

\* _handle_control_message
HandleControl ==
    /\ driver = "listen" /\ chan # << >>
    /\ paused' = Head(chan)
    /\ chan' = Tail(chan)
    /\ UNCHANGED <<stateRow, stage, op, driver, missed, controlFaults>>

\* listen() raises; run() reconnects after a backoff without rehydrating.
Disconnect ==
    /\ driver = "listen" /\ drops < MaxDrops
    /\ drops' = drops + 1
    /\ driver' = "connect"
    /\ chan' = << >>
    /\ missed' = (missed \/ chan # << >>)
    /\ UNCHANGED <<stateRow, stage, op, paused, crashes, errs>>

Crash ==
    /\ driver # "down" /\ crashes < MaxCrashes
    /\ crashes' = crashes + 1
    /\ driver' = "down" /\ paused' = FALSE /\ chan' = << >>
    /\ UNCHANGED <<stateRow, stage, op, missed, drops, errs>>

Api(r) == ApiPersist(r) \/ ApiPublish(r) \/ ApiPublishError(r)
Driver == Start \/ Rehydrate \/ Subscribe \/ HandleControl

ControlNext == (\E r \in Requests : Api(r)) \/ Driver \/ Disconnect \/ Crash

ControlSpec == ControlInit /\ [][ControlNext]_controlVars

\* An accepted request runs to its answer; the driver's task is scheduled.
ControlFairSpec == /\ ControlSpec
            /\ WF_controlVars(Driver)
            /\ \A r \in Requests : WF_controlVars(ApiPublish(r))

-----------------------------------------------------------------------------
Quiet == InFlight = {} /\ chan = << >>

\* With one request at a time, a driver that has booted and has nothing left
\* to read follows the persisted flag, unless a message was lost since it
\* read the row: reconnecting does not repair a loss.
FollowsRowUnlessMissed ==
    driver \in {"connect", "listen"} /\ Quiet /\ ~missed => paused = stateRow

\* A pause that is in the row when the engine is down is in force after the
\* restart (ADR 0009 step 4), as long as no query fails.
RestartRestoresPause ==
    (driver = "down" /\ stateRow) ~> (paused \/ ~stateRow \/ errs > 0)

\* An accepted pause is eventually in force, unless a resume follows
\* (ADR 0009 steps 2 and 3: the driver "flips self._paused").
AcceptedPauseTakesEffect ==
    \A r \in Requests :
       (stage[r] = "done" /\ op[r]) ~> (paused \/ ~stateRow)
=============================================================================
