--------------------------- MODULE ModelRegistry ---------------------------
(***************************************************************************)
(* research.models: the trainers write a model's files, then, to promote   *)
(* it, clear the active row and insert their own, in two statements that   *)
(* are not one transaction; a unique index allows one active row.  The     *)
(* engine loads the active model once, at boot, or runs without one.       *)
(*                                                                         *)
(* A trainer is its version.  A market makes a sample when the sources it  *)
(* needs have it: candles at both ends, ticks, trades, and with            *)
(* --use-real-implied-prob the price history too.                          *)
(*                                                                         *)
(* Definitions named Bug... are faulty variants of the definition below    *)
(* them, kept to show that the properties can fail.                        *)
(***************************************************************************)
EXTENDS Naturals, FiniteSets

CONSTANTS Trainers,
          TrainMarkets, Resolved,           \* all, those with candles at both ends
          Complete, Priced,                 \* of those: with ticks and trades; with prices
          MinSamples,                       \* the least markets and samples
          MaxTrainDeaths, MaxBoots          \* bounds

ASSUME RegistryAssumption ==
    /\ Complete \union Priced \subseteq Resolved /\ Resolved \subseteq TrainMarkets /\ IsFiniteSet(TrainMarkets)
    /\ {MinSamples, MaxTrainDeaths, MaxBoots} \subseteq Nat

VARIABLES
    step,      \* [Trainers -> where it is]
    samples,   \* [Trainers -> the markets it trains on]
    promotes,  \* [Trainers -> --promote was given]
    realProb,  \* [Trainers -> --use-real-implied-prob was given]
    gate,      \* [Trainers -> _passes_promotion]
    files,     \* versions whose files are on disk
    models,    \* versions with a row
    active,    \* those whose row is active
    runner,    \* << >> or <<the version the engine loaded>>
    everActive, cleared, \* history: a model was promoted; versions that cleared the row
    trainDeaths, boots

registryVars == <<step, samples, promotes, realProb, gate, files, models, active, runner,
                  everActive, cleared, trainDeaths, boots>>

RegistryInit ==
    /\ step = [t \in Trainers |-> "load"] /\ samples = [t \in Trainers |-> {}]
    /\ promotes \in [Trainers -> BOOLEAN] /\ realProb \in [Trainers -> BOOLEAN]
    /\ gate = [t \in Trainers |-> FALSE]
    /\ files = {} /\ models = {} /\ active = {} /\ runner = << >>
    /\ everActive = FALSE /\ cleared = {} /\ trainDeaths = 0 /\ boots = 0

StepTo(t, s) == step' = [step EXCEPT ![t] = s]

\* _load_resolved_markets for a range of days: a gap in the candles drops one.
LoadMarkets(t) ==
    /\ step[t] = "load"
    /\ \E ms \in SUBSET TrainMarkets :
          /\ samples' = [samples EXCEPT ![t] = ms \intersect Resolved]
          /\ StepTo(t, IF Cardinality(ms \intersect Resolved) < MinSamples THEN "too_few" ELSE "samples")
    /\ UNCHANGED <<promotes, realProb, gate, files, models, active, runner, everActive, cleared,
                   trainDeaths, boots>>

\* build_samples: a market that lacks a source is dropped.  Without the flag the
\* implied probability is 0.5 in every sample and no prices are read.
Usable(t) == IF realProb[t] THEN Complete \intersect Priced ELSE Complete
BuildSamples(t) ==
    /\ step[t] = "samples"
    /\ samples' = [samples EXCEPT ![t] = @ \intersect Usable(t)]
    /\ StepTo(t, IF Cardinality(samples'[t]) < MinSamples THEN "too_few" ELSE "train")
    /\ UNCHANGED <<promotes, realProb, gate, files, models, active, runner, everActive, cleared,
                   trainDeaths, boots>>

\* train and the gate of _passes_promotion.
TrainModel(t) ==
    /\ step[t] = "train" /\ StepTo(t, "write")
    /\ gate' \in {gate, [gate EXCEPT ![t] = TRUE]}
    /\ UNCHANGED <<samples, promotes, realProb, files, models, active, runner, everActive, cleared,
                   trainDeaths, boots>>

\* write_artefacts: the files come first.
IsActive(t) == promotes[t] /\ gate[t]
BugWriteFiles(t) ==
    /\ step[t] = "write" /\ files' = files \union {t}
    /\ StepTo(t, IF promotes[t] THEN "clear" ELSE "insert")
    /\ UNCHANGED <<samples, promotes, realProb, gate, models, active, runner, everActive, cleared,
                   trainDeaths, boots>>
WriteFiles(t) ==
    /\ step[t] = "write" /\ files' = files \union {t}
    /\ StepTo(t, IF IsActive(t) THEN "clear" ELSE "insert")
    /\ UNCHANGED <<samples, promotes, realProb, gate, models, active, runner, everActive, cleared,
                   trainDeaths, boots>>

ClearActive(t) ==
    /\ step[t] = "clear" /\ StepTo(t, "insert")
    /\ active' = {} /\ cleared' = cleared \union {t}
    /\ UNCHANGED <<samples, promotes, realProb, gate, files, models, runner, everActive,
                   trainDeaths, boots>>

\* The insert raises when another promotion came in between.
InsertRow(t) ==
    /\ step[t] = "insert"
    /\ IF IsActive(t) /\ active # {}
       THEN StepTo(t, "failed") /\ UNCHANGED <<models, active, everActive>>
       ELSE /\ StepTo(t, "done") /\ models' = models \union {t}
            /\ active' = IF IsActive(t) THEN {t} ELSE active
            /\ everActive' = (everActive \/ IsActive(t))
    /\ UNCHANGED <<samples, promotes, realProb, gate, files, runner, cleared, trainDeaths, boots>>

\* A trainer is killed, or a statement of its fails.
TrainerDies(t) ==
    /\ trainDeaths < MaxTrainDeaths /\ trainDeaths' = trainDeaths + 1
    /\ step[t] \notin {"done", "failed", "too_few"} /\ StepTo(t, "failed")
    /\ UNCHANGED <<samples, promotes, realProb, gate, files, models, active, runner, everActive,
                   cleared, boots>>

\* load_runner_async at the engine's boot; a query or a file that fails leaves
\* the strategy without a model.
BootEngine ==
    /\ boots < MaxBoots /\ boots' = boots + 1
    /\ runner' \in {<< >>} \union {<<t>> : t \in active \intersect files}
    /\ UNCHANGED <<step, samples, promotes, realProb, gate, files, models, active, everActive, cleared,
                   trainDeaths>>

RegistryNext ==
    \/ \E t \in Trainers : \/ LoadMarkets(t) \/ BuildSamples(t) \/ TrainModel(t) \/ WriteFiles(t)
                           \/ ClearActive(t) \/ InsertRow(t) \/ TrainerDies(t)
    \/ BootEngine

RegistrySpec == RegistryInit /\ [][RegistryNext]_registryVars

-----------------------------------------------------------------------------
\* What trades real signals was trained on enough markets with every source its
\* samples use, passed the gate and has its files, although promotions race; a
\* promoted model leaves the registry without an active one only while the
\* promotion that cleared it is under way, or because that one died half-way.
RegistrySound ==
    /\ Cardinality(active) <= 1 /\ active \subseteq models \intersect files
    /\ \A t \in active \union (IF runner = << >> THEN {} ELSE {runner[1]}) :
          /\ gate[t] /\ promotes[t] /\ Cardinality(samples[t]) >= MinSamples
          /\ samples[t] \subseteq Complete /\ (realProb[t] => samples[t] \subseteq Priced)
    /\ everActive /\ active = {} =>
          \E t \in cleared : step[t] = "insert" \/ (step[t] = "failed" /\ trainDeaths > 0)
=============================================================================
