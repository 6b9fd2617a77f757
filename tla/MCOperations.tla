---------------------------- MODULE MCOperations ----------------------------
(***************************************************************************)
(* What surrounds the trading engine, as one instance for TLC: the control *)
(* plane, the market maker's guard, alerts, jobs, copilot, bot and the     *)
(* research tools.  They share no state here, so a behaviour follows one   *)
(* of them (part, one of the Parts of the run) and leaves the others at    *)
(* rest.                                                                   *)
(***************************************************************************)
EXTENDS ControlPlane, MMSafety, Alerts, Jobs, Copilot, BotCommands, Backtest,
        SettleBackfill, WalkForward, ModelRegistry

CONSTANT Parts

VARIABLE part

MCMail == {<<"u", x>> : x \in Texts \ {"read"}} \union {<<"v", "phrase">>, <<"stranger", "/pause">>}

Market(open, close, ticks, strike, settle) ==
    [open |-> open, close |-> close, ticks |-> ticks, strike |-> strike, settle |-> settle]

\* A series with a tie and a missing price, two series that overlap, and a
\* series that crosses midnight twice.
MCTapes ==
    {{Market(0, 3, 0 .. 3, 1, 1), Market(3, 6, 3 .. 5, 2, 1), Market(6, 9, 7 .. 9, 1, 2),
      Market(9, 12, {10, 11}, 1, 0), Market(12, 15, 12 .. 14, 2, 1)},
     {Market(0, 9, {1, 2, 4, 8}, 1, 2), Market(0, 3, 0 .. 2, 2, 1), Market(3, 6, 3 .. 5, 1, 1)},
     {Market(0, 3, {}, 1, 1), Market(3, 6, 4 .. 6, 0, 1), Market(6, 9, {7, 8}, 1, 1),
      Market(9, 12, 9 .. 11, 2, 1), Market(12, 17, 12 .. 16, 2, 2)}}
MCRanges == {<<0, 17>>, <<2, 8>>}
MCCloseTime == [o \in PaperOrders |-> IF o = "o1" THEN 1 ELSE 2]
Plan(to, isDays, oosDays, stepDays) ==
    [to |-> to, isDays |-> isDays, oosDays |-> oosDays, stepDays |-> stepDays]
MCPlans == {Plan(6, 2, 1, 1), Plan(7, 2, 2, 1), Plan(6, 1, 2, 2), Plan(2, 2, 1, 1),
            Plan(6, 0, 1, 1), Plan(6, 2, 0, 1), Plan(6, 2, 1, 0), Plan(0, 2, 1, 1)}

\* The choices of a part at rest.
CopilotRest == session = [t \in Turns |-> CHOOSE s \in Sessions : TRUE]
BacktestRest == tape = (CHOOSE t \in Tapes : TRUE) /\ range = <<0, 17>> /\ bypass = FALSE
WfRest == plan = Plan(2, 2, 1, 1) /\ wfKind = "ml"
SettleRest == entryFills = PaperOrders
RegistryRest == promotes = [t \in Trainers |-> TRUE] /\ realProb = promotes

OperationsInit ==
    /\ part \in Parts
    /\ ControlInit /\ SafetyInit /\ AlertsInit /\ JobsInit /\ CopilotInit /\ BotInit
    /\ BacktestInit /\ SettleInit /\ WfInit /\ RegistryInit
    /\ IF part = "copilot" THEN TRUE ELSE CopilotRest
    /\ IF part = "backtest" THEN TRUE ELSE BacktestRest
    /\ IF part = "settles" THEN TRUE ELSE SettleRest
    /\ IF part = "walk" THEN TRUE ELSE WfRest
    /\ IF part = "registry" THEN TRUE ELSE RegistryRest

Others(p) ==
    /\ part = p /\ UNCHANGED part
    /\ IF p = "control" THEN TRUE ELSE UNCHANGED controlVars
    /\ IF p = "guard" THEN TRUE ELSE UNCHANGED safetyVars
    /\ IF p = "alerts" THEN TRUE ELSE UNCHANGED alertVars
    /\ IF p = "jobs" THEN TRUE ELSE UNCHANGED jobVars
    /\ IF p = "copilot" THEN TRUE ELSE UNCHANGED copilotVars
    /\ IF p = "bot" THEN TRUE ELSE UNCHANGED botVars
    /\ IF p = "backtest" THEN TRUE ELSE UNCHANGED btVars
    /\ IF p = "settles" THEN TRUE ELSE UNCHANGED settleVars
    /\ IF p = "walk" THEN TRUE ELSE UNCHANGED wfVars
    /\ IF p = "registry" THEN TRUE ELSE UNCHANGED registryVars

OperationsNext ==
    \/ Others("control") /\ ControlNext
    \/ Others("guard") /\ SafetyNext
    \/ Others("alerts") /\ AlertsNext
    \/ Others("jobs") /\ JobsNext
    \/ Others("copilot") /\ CopilotNext
    \/ Others("bot") /\ BotNext
    \/ Others("backtest") /\ BacktestNext
    \/ Others("settles") /\ SettleNext
    \/ Others("walk") /\ WfNext
    \/ Others("registry") /\ RegistryNext

operationsVars == <<part, controlVars, safetyVars, alertVars, jobVars, copilotVars, botVars,
                    btVars, settleVars, wfVars, registryVars>>

\* An accepted request runs to its answer and the driver's task is scheduled.
OperationsSpec ==
    /\ OperationsInit /\ [][OperationsNext]_operationsVars
    /\ WF_operationsVars(Others("control") /\ Driver)
    /\ \A r \in Requests : WF_operationsVars(Others("control") /\ ApiPublish(r))
=============================================================================
