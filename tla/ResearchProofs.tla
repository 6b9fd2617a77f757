--------------------------- MODULE ResearchProofs ----------------------------
(***************************************************************************)
(* Theorems about the research tools: the settlement repair script         *)
(* (SettleBackfill), the registry of models (ModelRegistry), the backtest  *)
(* (Backtest) and the walk-forward (WalkForward), for any orders, trainers,*)
(* tapes, plans and faults.                                                *)
(***************************************************************************)
EXTENDS Backtest, SettleBackfill, WalkForward, ModelRegistry,
        FiniteSetTheorems, SequenceTheorems, WellFoundedInduction, TLAPS

\* A set of natural numbers has a least one.
LEMMA LeastOf ==
    ASSUME NEW S, S \subseteq Nat, S # {}
    PROVE  LET m == CHOOSE i \in S : \A j \in S : i <= j IN m \in S /\ \A j \in S : m <= j
<1>. DEFINE less == {ss \in Nat \X Nat : ss[1] < ss[2]}
<1>1. IsWellFoundedOn(less, Nat)
  BY NatLessThanWellFounded DEF OpToRel
<1>. HIDE DEF less
<1>2. PICK x \in S : \A y \in S : <<y, x>> \notin less
  BY <1>1, WFMin
<1>3. \A y \in S : x \in Nat /\ y \in Nat /\ ~(y < x)
  BY <1>2 DEF less
<1>4. \A y \in S : x <= y
  BY <1>3
<1>. QED
  BY <1>4

-----------------------------------------------------------------------------
(* The settlement script beside the engine. *)

ScriptPlaces == {"idle", "price", "insert", "done"}

\* Every row is for a close that is over.
RowsInTime ==
    \A x \in exits : /\ x \in PaperOrders \X Nat
                     /\ CloseTime[x[1]] <= x[2] /\ x[2] <= snow

\* An order the engine held at no read of the script: while it is held it is in
\* no script's list and has no row; once it is in one, its only row can be the
\* one at its close; and it has one row at most.
SettledByOne ==
    \A o \in PaperOrders \ heldAtLoad :
       /\ o \in held => (\A r \in ScriptRuns : o \notin loaded[r]) /\ \A t : <<o, t>> \notin exits
       /\ \A r \in ScriptRuns : o \in loaded[r] => \A t : <<o, t>> \in exits => t = CloseTime[o]
       /\ \E v : \A t : <<o, t>> \in exits => t = v

SettleInv ==
    /\ snow \in Nat /\ snow <= SettleEnd /\ held \subseteq PaperOrders
    /\ loaded \in [ScriptRuns -> SUBSET PaperOrders] /\ script \in [ScriptRuns -> ScriptPlaces]
    /\ \A r \in ScriptRuns : script[r] = "insert" => \A o \in loaded[r] : CloseTime[o] <= snow
    /\ RowsInTime /\ SettledByOne

LEMMA SettleStart == SettleInit => SettleInv
<1>1. SUFFICES ASSUME SettleInit PROVE SettleInv
  OBVIOUS
<1>2. SettledByOne
  BY <1>1 DEF SettleInit, SettledByOne
<1>. QED
  BY <1>1, <1>2, SettleAssumption DEF SettleInit, SettleInv, RowsInTime, ScriptPlaces

\* An order is pending when it has no row at all.
LEMMA PendingHasNoRow ==
    ASSUME SettleInv
    PROVE  \A o \in Pending : o \in PaperOrders /\ \A t : <<o, t>> \notin exits
<1>1. SUFFICES ASSUME NEW o \in Pending, NEW t, <<o, t>> \in exits PROVE FALSE
  BY DEF Pending
<1>2. t \in Nat /\ t <= snow
  BY <1>1 DEF SettleInv, RowsInTime
<1>3. t \in 0 .. SettleEnd
  BY <1>2, SettleAssumption DEF SettleInv
<1>. QED
  BY <1>1, <1>3 DEF Pending

LEMMA SettleStep ==
    ASSUME SettleInv, [SettleNext]_settleVars
    PROVE  SettleInv'
<1>0. /\ snow \in Nat /\ SettleEnd \in Nat /\ CloseTime \in [PaperOrders -> Nat]
      /\ loaded \in [ScriptRuns -> SUBSET PaperOrders] /\ script \in [ScriptRuns -> ScriptPlaces]
  BY SettleAssumption DEF SettleInv
<1>1. ASSUME NEW o \in PaperOrders, EngineSettles(o) PROVE SettleInv'
  <2>1. /\ o \in held /\ snow > CloseTime[o] /\ held' = held \ {o}
        /\ exits' \in {exits, exits \union {<<o, snow>>}}
        /\ UNCHANGED <<snow, entryFills, candles, script, loaded, heldAtLoad>>
    BY <1>1 DEF EngineSettles
  <2>2. RowsInTime'
    BY <1>0, <2>1 DEF SettleInv, RowsInTime
  <2>3. SettledByOne'
    <3>1. SUFFICES ASSUME NEW p \in PaperOrders \ heldAtLoad
                   PROVE  /\ p \in held' => (\A r \in ScriptRuns : p \notin loaded[r])
                                             /\ \A t : <<p, t>> \notin exits'
                          /\ \A r \in ScriptRuns : p \in loaded[r] =>
                                \A t : <<p, t>> \in exits' => t = CloseTime[p]
                          /\ \E v : \A t : <<p, t>> \in exits' => t = v
      BY <2>1 DEF SettledByOne
    <3>2. CASE p # o
      BY <2>1, <3>1, <3>2 DEF SettleInv, SettledByOne
    <3>3. CASE p = o
      BY <2>1, <3>1, <3>3 DEF SettleInv, SettledByOne
    <3>. QED
      BY <3>2, <3>3
  <2>. QED
    BY <2>1, <2>2, <2>3 DEF SettleInv
<1>9. ASSUME NEW o \in PaperOrders, MakerFills(o) PROVE SettleInv'
  BY <1>9 DEF MakerFills, SettleInv, RowsInTime, SettledByOne
<1>2. CASE EngineForgets
  BY <1>2 DEF EngineForgets, SettleInv, RowsInTime, SettledByOne
<1>3. ASSUME NEW o \in PaperOrders, CandleArrives(o) PROVE SettleInv'
  BY <1>3 DEF CandleArrives, SettleInv, RowsInTime, SettledByOne
<1>4. ASSUME NEW r \in ScriptRuns, LoadPendingOrders(r) PROVE SettleInv'
  <2>1. /\ script' = [script EXCEPT ![r] = "price"] /\ loaded' = [loaded EXCEPT ![r] = Pending]
        /\ heldAtLoad' = heldAtLoad \union (Pending \intersect held)
        /\ UNCHANGED <<snow, entryFills, held, exits, candles>>
    BY <1>4 DEF LoadPendingOrders
  <2>2. Pending \subseteq PaperOrders
    BY DEF Pending
  <2>3. loaded' \in [ScriptRuns -> SUBSET PaperOrders] /\ script' \in [ScriptRuns -> ScriptPlaces]
    BY <1>0, <2>1, <2>2 DEF ScriptPlaces
  <2>4. \A q \in ScriptRuns : script'[q] = "insert" => script[q] = "insert" /\ loaded'[q] = loaded[q]
    BY <1>0, <2>1
  <2>5. SettledByOne'
    <3>1. SUFFICES ASSUME NEW p \in PaperOrders \ heldAtLoad'
                   PROVE  /\ p \in held => (\A q \in ScriptRuns : p \notin loaded'[q])
                                            /\ \A t : <<p, t>> \notin exits
                          /\ \A q \in ScriptRuns : p \in loaded'[q] =>
                                \A t : <<p, t>> \in exits => t = CloseTime[p]
                          /\ \E v : \A t : <<p, t>> \in exits => t = v
      BY <2>1 DEF SettledByOne
    <3>2. p \notin heldAtLoad /\ (p \in held => p \notin Pending)
      BY <2>1, <3>1
    <3>3. \A q \in ScriptRuns : p \in loaded'[q] => p \in loaded[q] \/ p \in Pending
      BY <1>0, <2>1
    <3>. QED
      BY <3>1, <3>2, <3>3, PendingHasNoRow DEF SettleInv, SettledByOne
  <2>. QED
    BY <2>1, <2>3, <2>4, <2>5 DEF SettleInv, RowsInTime
<1>5. ASSUME NEW r \in ScriptRuns, PriceOrders(r) PROVE SettleInv'
  <2>1. /\ script' = [script EXCEPT ![r] = "insert"]
        /\ loaded' = [loaded EXCEPT ![r] = {o \in @ : CloseTime[o] <= snow /\ o \in candles}]
        /\ UNCHANGED <<snow, entryFills, held, exits, candles, heldAtLoad>>
    BY <1>5 DEF PriceOrders
  <2>2. loaded' \in [ScriptRuns -> SUBSET PaperOrders] /\ script' \in [ScriptRuns -> ScriptPlaces]
    BY <1>0, <2>1 DEF ScriptPlaces
  <2>3. \A q \in ScriptRuns : /\ loaded'[q] \subseteq loaded[q]
                              /\ script'[q] = "insert" => \A o \in loaded'[q] : CloseTime[o] <= snow
    BY <1>0, <2>1 DEF SettleInv
  <2>4. SettledByOne'
    BY <2>1, <2>3 DEF SettleInv, SettledByOne
  <2>. QED
    BY <2>1, <2>2, <2>3, <2>4 DEF SettleInv, RowsInTime
<1>6. ASSUME NEW r \in ScriptRuns, InsertExits(r) PROVE SettleInv'
  <2>1. /\ script[r] = "insert" /\ script' = [script EXCEPT ![r] = "done"]
        /\ exits' \in {exits, exits \union {<<o, CloseTime[o]>> : o \in loaded[r]}}
        /\ UNCHANGED <<snow, entryFills, held, candles, loaded, heldAtLoad>>
    BY <1>6 DEF InsertExits
  <2>2. /\ script' \in [ScriptRuns -> ScriptPlaces]
        /\ \A q \in ScriptRuns : script'[q] = "insert" => script[q] = "insert"
    BY <1>0, <2>1 DEF ScriptPlaces
  <2>3. RowsInTime'
    <3>1. SUFFICES ASSUME NEW x \in exits', x \notin exits
                   PROVE  x \in PaperOrders \X Nat /\ CloseTime[x[1]] <= x[2] /\ x[2] <= snow
      BY <2>1 DEF SettleInv, RowsInTime
    <3>2. PICK o \in loaded[r] : x = <<o, CloseTime[o]>>
      BY <2>1, <3>1
    <3>3. o \in PaperOrders /\ CloseTime[o] \in Nat /\ CloseTime[o] <= snow
      BY <1>0, <2>1 DEF SettleInv
    <3>. QED
      BY <3>2, <3>3
  <2>4. SettledByOne'
    <3>1. SUFFICES ASSUME NEW p \in PaperOrders \ heldAtLoad
                   PROVE  /\ p \in held => (\A q \in ScriptRuns : p \notin loaded[q])
                                            /\ \A t : <<p, t>> \notin exits'
                          /\ \A q \in ScriptRuns : p \in loaded[q] =>
                                \A t : <<p, t>> \in exits' => t = CloseTime[p]
                          /\ \E v : \A t : <<p, t>> \in exits' => t = v
      BY <2>1 DEF SettledByOne
    <3>2. CASE p \in loaded[r]
      <4>1. \A t : <<p, t>> \in exits' => t = CloseTime[p]
        BY <2>1, <3>1, <3>2 DEF SettleInv, SettledByOne
      <4>. QED
        BY <3>1, <3>2, <4>1 DEF SettleInv, SettledByOne
    <3>3. CASE p \notin loaded[r]
      <4>1. \A t : <<p, t>> \in exits' => <<p, t>> \in exits
        BY <2>1, <3>3
      <4>. QED
        BY <3>1, <4>1 DEF SettleInv, SettledByOne
    <3>. QED
      BY <3>2, <3>3
  <2>. QED
    BY <2>1, <2>2, <2>3, <2>4 DEF SettleInv
<1>7. CASE SettleTick
  <2>1. /\ snow < SettleEnd /\ snow' = snow + 1
        /\ UNCHANGED <<entryFills, held, exits, candles, script, loaded, heldAtLoad>>
    BY <1>7 DEF SettleTick
  <2>2. \A t \in Nat : t <= snow => t <= snow'
    BY <1>0, <2>1
  <2>3. RowsInTime'
    BY <2>1, <2>2 DEF SettleInv, RowsInTime
  <2>4. \A r \in ScriptRuns : script'[r] = "insert" => \A o \in loaded'[r] : CloseTime[o] <= snow'
    BY <1>0, <2>1, <2>2 DEF SettleInv
  <2>5. SettledByOne'
    BY <2>1 DEF SettleInv, SettledByOne
  <2>. QED
    BY <1>0, <2>1, <2>3, <2>4, <2>5 DEF SettleInv
<1>8. CASE UNCHANGED settleVars
  BY <1>8 DEF settleVars, SettleInv, RowsInTime, SettledByOne
<1>. QED
  BY <1>1, <1>2, <1>3, <1>4, <1>5, <1>6, <1>7, <1>8, <1>9 DEF SettleNext

LEMMA SettleSafe == SettleInv => SettlesSound
<1>1. SUFFICES ASSUME SettleInv, NEW o \in PaperOrders
               PROVE  /\ \A t \in {u \in 0 .. SettleEnd : <<o, u>> \in exits} : t >= CloseTime[o] /\ t <= snow
                      /\ Cardinality({u \in 0 .. SettleEnd : <<o, u>> \in exits}) > 1 => o \in heldAtLoad
  BY DEF SettlesSound
<1>. DEFINE times == {u \in 0 .. SettleEnd : <<o, u>> \in exits}
<1>2. \A t \in times : t >= CloseTime[o] /\ t <= snow
  <2>1. SUFFICES ASSUME NEW t \in times PROVE t >= CloseTime[o] /\ t <= snow
    OBVIOUS
  <2>2. CloseTime[o] \in Nat /\ t \in Nat /\ CloseTime[o] <= t /\ t <= snow
    BY <1>1, <2>1, SettleAssumption DEF SettleInv, RowsInTime
  <2>. QED
    BY <2>2
<1>3. ASSUME o \notin heldAtLoad PROVE ~(Cardinality(times) > 1)
  <2>1. PICK v : \A t : <<o, t>> \in exits => t = v
    BY <1>1, <1>3 DEF SettleInv, SettledByOne
  <2>2. times \subseteq {v}
    BY <2>1
  <2>3. IsFiniteSet({v}) /\ Cardinality({v}) = 1
    BY FS_Singleton
  <2>. HIDE DEF times
  <2>4. IsFiniteSet(times) /\ Cardinality(times) <= 1
    BY <2>2, <2>3, FS_Subset
  <2>. QED
    BY <2>4, FS_CardinalityType
<1>. QED
  BY <1>2, <1>3

\* Run any number of times, also side by side, scripts/backfill_paper_settles.py
\* settles an order once and not before its close, unless the engine still held
\* the order when the script read it.
THEOREM SettlesSoundHolds == SettleSpec => []SettlesSound
<1>. QED
  BY SettleStart, SettleStep, SettleSafe, PTL DEF SettleSpec

-----------------------------------------------------------------------------
(* The registry of models: promotions that race. *)

TrainPlaces == {"load", "samples", "train", "write", "clear", "insert", "done", "failed", "too_few"}

Deployable(t) == IsActive(t) /\ step[t] = "done" /\ t \in files

\* What a trainer has behind it at each place.
TrainerStages ==
    \A t \in Trainers :
       /\ step[t] \in {"train", "write", "clear", "insert", "done"} =>
             samples[t] \subseteq Usable(t) /\ Cardinality(samples[t]) >= MinSamples
       /\ step[t] \in {"clear", "insert", "done"} => t \in files
       /\ step[t] = "clear" => IsActive(t)

\* The active row and the engine's model are of finished promotions.
ActiveDeployed ==
    /\ active = {} \/ \E t \in Trainers : active = {t} /\ Deployable(t) /\ t \in models
    /\ runner = << >> \/ \E t \in Trainers : runner = <<t>> /\ Deployable(t)

\* Only a promotion clears the row, and goes on to its insert.
ClearedPromotes ==
    \A t \in cleared : /\ t \in Trainers /\ IsActive(t) /\ step[t] \in {"insert", "done", "failed"}

\* Where the active model went.
ClearedBy ==
    everActive /\ active = {} =>
       \E t \in cleared : step[t] = "insert" \/ (step[t] = "failed" /\ trainDeaths > 0)

RegistryInv ==
    /\ step \in [Trainers -> TrainPlaces] /\ samples \in [Trainers -> SUBSET TrainMarkets]
    /\ promotes \in [Trainers -> BOOLEAN] /\ realProb \in [Trainers -> BOOLEAN]
    /\ gate \in [Trainers -> BOOLEAN]
    /\ trainDeaths \in Nat
    /\ TrainerStages /\ ActiveDeployed /\ ClearedPromotes /\ ClearedBy

LEMMA RegistryStart == RegistryInit => RegistryInv
BY DEF RegistryInit, RegistryInv, TrainPlaces, TrainerStages, ActiveDeployed, ClearedPromotes,
       ClearedBy

\* One trainer goes to a place that is no end of a promotion, and nothing the
\* rows and the engine rest on changes for the others.
LEMMA TrainerMoves ==
    ASSUME RegistryInv, NEW t \in Trainers, NEW s \in TrainPlaces,
           step[t] \notin {"insert", "done", "failed"}, step' = [step EXCEPT ![t] = s],
           UNCHANGED <<promotes, models, active, runner, everActive, cleared, trainDeaths>>,
           files \subseteq files',
           \A u \in Trainers \ {t} : (IsActive(u) <=> IsActive(u)')
    PROVE  /\ step' \in [Trainers -> TrainPlaces]
           /\ step'[t] = s /\ \A u \in Trainers \ {t} : step'[u] = step[u]
           /\ ActiveDeployed' /\ ClearedPromotes' /\ ClearedBy'
<1>1. /\ step' \in [Trainers -> TrainPlaces] /\ step'[t] = s
      /\ \A u \in Trainers \ {t} : step'[u] = step[u]
  BY DEF RegistryInv
<1>2. \A u \in Trainers : Deployable(u) => u # t /\ Deployable(u)'
  BY <1>1 DEF Deployable
<1>3. ActiveDeployed'
  BY <1>2 DEF RegistryInv, ActiveDeployed
<1>4. \A u \in cleared : u \in Trainers \ {t}
  BY DEF RegistryInv, ClearedPromotes
<1>5. ClearedPromotes' /\ ClearedBy'
  BY <1>1, <1>4 DEF RegistryInv, ClearedPromotes, ClearedBy
<1>. QED
  BY <1>1, <1>3, <1>5

LEMMA RegistryStep ==
    ASSUME RegistryInv, [RegistryNext]_registryVars
    PROVE  RegistryInv'
<1>0. /\ step \in [Trainers -> TrainPlaces] /\ samples \in [Trainers -> SUBSET TrainMarkets]
      /\ promotes \in [Trainers -> BOOLEAN] /\ gate \in [Trainers -> BOOLEAN] /\ trainDeaths \in Nat
      /\ MinSamples \in Nat
  BY RegistryAssumption DEF RegistryInv
<1>1. ASSUME NEW t \in Trainers, LoadMarkets(t) PROVE RegistryInv'
  <2>1. PICK ms \in SUBSET TrainMarkets :
           /\ samples' = [samples EXCEPT ![t] = ms \intersect Resolved]
           /\ StepTo(t, IF Cardinality(ms \intersect Resolved) < MinSamples THEN "too_few" ELSE "samples")
    BY <1>1 DEF LoadMarkets
  <2>2. PICK s \in {"too_few", "samples"} : step' = [step EXCEPT ![t] = s]
    BY <2>1 DEF StepTo
  <2>3. /\ step[t] = "load"
        /\ UNCHANGED <<promotes, realProb, gate, files, models, active, runner, everActive, cleared, trainDeaths>>
    BY <1>1 DEF LoadMarkets
  <2>4. s \in TrainPlaces /\ \A u \in Trainers : IsActive(u) <=> IsActive(u)'
    BY <2>3 DEF TrainPlaces, IsActive
  <2>5. /\ step' \in [Trainers -> TrainPlaces] /\ step'[t] = s
        /\ \A u \in Trainers \ {t} : step'[u] = step[u]
        /\ ActiveDeployed' /\ ClearedPromotes' /\ ClearedBy'
    BY <2>2, <2>3, <2>4, TrainerMoves
  <2>6. /\ samples' \in [Trainers -> SUBSET TrainMarkets]
        /\ \A u \in Trainers \ {t} : samples'[u] = samples[u]
    BY <1>0, <2>1
  <2>7. TrainerStages'
    BY <2>2, <2>3, <2>4, <2>5, <2>6 DEF RegistryInv, TrainerStages, Usable
  <2>. QED
    BY <1>0, <2>3, <2>5, <2>6, <2>7 DEF RegistryInv
<1>2. ASSUME NEW t \in Trainers, BuildSamples(t) PROVE RegistryInv'
  <2>1. /\ step[t] = "samples" /\ samples' = [samples EXCEPT ![t] = @ \intersect Usable(t)]
        /\ StepTo(t, IF Cardinality(samples'[t]) < MinSamples THEN "too_few" ELSE "train")
        /\ UNCHANGED <<promotes, realProb, gate, files, models, active, runner, everActive, cleared, trainDeaths>>
    BY <1>2 DEF BuildSamples
  <2>2. /\ samples' \in [Trainers -> SUBSET TrainMarkets] /\ samples'[t] \subseteq Usable(t)
        /\ \A u \in Trainers \ {t} : samples'[u] = samples[u]
    BY <1>0, <2>1
  <2>3. PICK s \in {"too_few", "train"} :
           /\ step' = [step EXCEPT ![t] = s]
           /\ s = "train" => ~(Cardinality(samples'[t]) < MinSamples)
    BY <2>1 DEF StepTo
  <2>4. s \in TrainPlaces /\ \A u \in Trainers : IsActive(u) <=> IsActive(u)'
    BY <2>1 DEF TrainPlaces, IsActive
  <2>5. /\ step' \in [Trainers -> TrainPlaces] /\ step'[t] = s
        /\ \A u \in Trainers \ {t} : step'[u] = step[u]
        /\ ActiveDeployed' /\ ClearedPromotes' /\ ClearedBy'
    BY <2>1, <2>3, <2>4, TrainerMoves
  <2>6. s = "train" => Cardinality(samples'[t]) >= MinSamples
    <3>1. IsFiniteSet(samples'[t])
      BY <2>2, RegistryAssumption, FS_Subset
    <3>. QED
      BY <1>0, <2>3, <3>1, FS_CardinalityType
  <2>7. TrainerStages'
    BY <2>1, <2>2, <2>3, <2>4, <2>5, <2>6 DEF RegistryInv, TrainerStages, Usable
  <2>. QED
    BY <1>0, <2>1, <2>2, <2>5, <2>7 DEF RegistryInv
<1>3. ASSUME NEW t \in Trainers, TrainModel(t) PROVE RegistryInv'
  <2>1. /\ step[t] = "train" /\ step' = [step EXCEPT ![t] = "write"]
        /\ gate' \in {gate, [gate EXCEPT ![t] = TRUE]}
        /\ UNCHANGED <<samples, promotes, realProb, files, models, active, runner, everActive, cleared, trainDeaths>>
    BY <1>3 DEF TrainModel, StepTo
  <2>2. gate' \in [Trainers -> BOOLEAN] /\ \A u \in Trainers \ {t} : gate'[u] = gate[u]
    BY <1>0, <2>1
  <2>3. \A u \in Trainers \ {t} : IsActive(u) <=> IsActive(u)'
    BY <2>1, <2>2 DEF IsActive
  <2>4. /\ step' \in [Trainers -> TrainPlaces] /\ step'[t] = "write"
        /\ \A u \in Trainers \ {t} : step'[u] = step[u]
        /\ ActiveDeployed' /\ ClearedPromotes' /\ ClearedBy'
    <3>1. "write" \in TrainPlaces
      BY DEF TrainPlaces
    <3>. QED
      BY <2>1, <2>3, <3>1, TrainerMoves
  <2>5. TrainerStages'
    BY <2>1, <2>3, <2>4 DEF RegistryInv, TrainerStages, Usable
  <2>. QED
    BY <1>0, <2>1, <2>2, <2>4, <2>5 DEF RegistryInv
<1>4. ASSUME NEW t \in Trainers, WriteFiles(t) PROVE RegistryInv'
  <2>1. /\ step[t] = "write" /\ files' = files \union {t}
        /\ step' = [step EXCEPT ![t] = IF IsActive(t) THEN "clear" ELSE "insert"]
        /\ UNCHANGED <<samples, promotes, realProb, gate, models, active, runner, everActive, cleared, trainDeaths>>
    BY <1>4 DEF WriteFiles, StepTo
  <2>2. PICK s \in {"clear", "insert"} : step' = [step EXCEPT ![t] = s] /\ (s = "clear" => IsActive(t))
    BY <2>1
  <2>3. s \in TrainPlaces /\ \A u \in Trainers : IsActive(u) <=> IsActive(u)'
    BY <2>1 DEF TrainPlaces, IsActive
  <2>4. /\ step' \in [Trainers -> TrainPlaces] /\ step'[t] = s
        /\ \A u \in Trainers \ {t} : step'[u] = step[u]
        /\ ActiveDeployed' /\ ClearedPromotes' /\ ClearedBy'
    BY <2>1, <2>2, <2>3, TrainerMoves
  <2>5. TrainerStages'
    BY <2>1, <2>2, <2>3, <2>4 DEF RegistryInv, TrainerStages, Usable
  <2>. QED
    BY <1>0, <2>1, <2>4, <2>5 DEF RegistryInv
<1>5. ASSUME NEW t \in Trainers, ClearActive(t) PROVE RegistryInv'
  <2>1. /\ step[t] = "clear" /\ step' = [step EXCEPT ![t] = "insert"]
        /\ active' = {} /\ cleared' = cleared \union {t}
        /\ UNCHANGED <<samples, promotes, realProb, gate, files, models, runner, everActive, trainDeaths>>
    BY <1>5 DEF ClearActive, StepTo
  <2>2. /\ step' \in [Trainers -> TrainPlaces] /\ step'[t] = "insert"
        /\ \A u \in Trainers \ {t} : step'[u] = step[u]
        /\ \A u \in Trainers : IsActive(u) <=> IsActive(u)'
    BY <1>0, <2>1 DEF TrainPlaces, IsActive
  <2>3. \A u \in Trainers : Deployable(u) => Deployable(u)'
    BY <2>1, <2>2 DEF Deployable
  <2>4. ActiveDeployed'
    BY <2>1, <2>3 DEF RegistryInv, ActiveDeployed
  <2>5. TrainerStages' /\ ClearedPromotes' /\ ClearedBy'
    BY <2>1, <2>2 DEF RegistryInv, TrainerStages, Usable, ClearedPromotes, ClearedBy
  <2>. QED
    BY <1>0, <2>1, <2>2, <2>4, <2>5 DEF RegistryInv
<1>6. ASSUME NEW t \in Trainers, InsertRow(t) PROVE RegistryInv'
  <2>1. /\ step[t] = "insert"
        /\ UNCHANGED <<samples, promotes, realProb, gate, files, runner, cleared, trainDeaths>>
        /\ \A u \in Trainers : IsActive(u) <=> IsActive(u)'
    BY <1>6 DEF InsertRow, IsActive
  <2>2. CASE IsActive(t) /\ active # {}
    <3>1. step' = [step EXCEPT ![t] = "failed"] /\ UNCHANGED <<models, active, everActive>>
      BY <1>6, <2>2 DEF InsertRow, StepTo
    <3>2. /\ step' \in [Trainers -> TrainPlaces] /\ step'[t] = "failed"
          /\ \A u \in Trainers \ {t} : step'[u] = step[u]
      BY <1>0, <3>1 DEF TrainPlaces
    <3>3. \A u \in Trainers : Deployable(u) => Deployable(u)'
      BY <2>1, <3>2 DEF Deployable
    <3>4. ActiveDeployed'
      BY <2>1, <3>1, <3>3 DEF RegistryInv, ActiveDeployed
    <3>5. TrainerStages' /\ ClearedPromotes' /\ ClearedBy'
      BY <2>1, <2>2, <3>1, <3>2 DEF RegistryInv, TrainerStages, Usable, ClearedPromotes, ClearedBy
    <3>. QED
      BY <1>0, <2>1, <3>2, <3>4, <3>5 DEF RegistryInv
  <2>3. CASE ~(IsActive(t) /\ active # {})
    <3>1. /\ step' = [step EXCEPT ![t] = "done"] /\ models' = models \union {t}
          /\ active' = IF IsActive(t) THEN {t} ELSE active
          /\ everActive' = (everActive \/ IsActive(t))
      BY <1>6, <2>3, Zenon DEF InsertRow, StepTo
    <3>2. /\ step' \in [Trainers -> TrainPlaces] /\ step'[t] = "done"
          /\ \A u \in Trainers \ {t} : step'[u] = step[u]
      BY <1>0, <3>1 DEF TrainPlaces
    <3>3. /\ \A u \in Trainers : Deployable(u) => Deployable(u)'
          /\ IsActive(t) => Deployable(t)'
      BY <2>1, <3>2 DEF RegistryInv, TrainerStages, Usable, Deployable
    <3>4. ActiveDeployed'
      BY <2>1, <3>1, <3>3 DEF RegistryInv, ActiveDeployed
    <3>5. TrainerStages' /\ ClearedPromotes'
      BY <2>1, <3>1, <3>2 DEF RegistryInv, TrainerStages, Usable, ClearedPromotes
    <3>6. ClearedBy'
      <4>1. SUFFICES ASSUME everActive', active' = {}
                     PROVE  \E u \in cleared : step'[u] = "insert" \/ (step'[u] = "failed" /\ trainDeaths > 0)
        BY <2>1 DEF ClearedBy
      <4>2. ~IsActive(t) /\ active = {} /\ t \notin cleared
        BY <3>1, <4>1 DEF RegistryInv, ClearedPromotes
      <4>3. everActive
        BY <3>1, <4>1, <4>2, Zenon
      <4>. QED
        BY <3>2, <4>2, <4>3 DEF RegistryInv, ClearedBy, ClearedPromotes
    <3>. QED
      BY <1>0, <2>1, <3>2, <3>4, <3>5, <3>6 DEF RegistryInv
  <2>. QED
    BY <2>2, <2>3
<1>7. ASSUME NEW t \in Trainers, TrainerDies(t) PROVE RegistryInv'
  <2>1. /\ trainDeaths' = trainDeaths + 1 /\ step[t] \notin {"done", "failed", "too_few"}
        /\ step' = [step EXCEPT ![t] = "failed"]
        /\ UNCHANGED <<samples, promotes, realProb, gate, files, models, active, runner, everActive, cleared>>
    BY <1>7 DEF TrainerDies, StepTo
  <2>2. /\ step' \in [Trainers -> TrainPlaces] /\ step'[t] = "failed"
        /\ \A u \in Trainers \ {t} : step'[u] = step[u]
        /\ \A u \in Trainers : IsActive(u) <=> IsActive(u)'
        /\ trainDeaths' \in Nat /\ trainDeaths' > 0
    BY <1>0, <2>1 DEF TrainPlaces, IsActive
  <2>3. \A u \in Trainers : Deployable(u) => Deployable(u)'
    BY <2>1, <2>2 DEF Deployable
  <2>4. ActiveDeployed'
    BY <2>1, <2>3 DEF RegistryInv, ActiveDeployed
  <2>5. TrainerStages' /\ ClearedPromotes' /\ ClearedBy'
    BY <2>1, <2>2 DEF RegistryInv, TrainerStages, Usable, ClearedPromotes, ClearedBy
  <2>. QED
    BY <1>0, <2>1, <2>2, <2>4, <2>5 DEF RegistryInv
<1>8. CASE BootEngine
  <2>1. /\ runner' \in {<< >>} \union {<<t>> : t \in active \intersect files}
        /\ UNCHANGED <<step, samples, promotes, realProb, gate, files, models, active, everActive, cleared, trainDeaths>>
    BY <1>8 DEF BootEngine
  <2>2. \A u \in Trainers : Deployable(u) <=> Deployable(u)'
    BY <2>1 DEF Deployable, IsActive
  <2>3. ActiveDeployed'
    BY <2>1, <2>2 DEF RegistryInv, ActiveDeployed
  <2>. QED
    BY <2>1, <2>3 DEF RegistryInv, TrainerStages, Usable, ClearedPromotes, ClearedBy, IsActive
<1>9. CASE UNCHANGED registryVars
  BY <1>9 DEF registryVars, RegistryInv, TrainerStages, Usable, ActiveDeployed, ClearedPromotes, ClearedBy,
     IsActive, Deployable
<1>. QED
  BY <1>1, <1>2, <1>3, <1>4, <1>5, <1>6, <1>7, <1>8, <1>9 DEF RegistryNext

LEMMA RegistrySafe == RegistryInv => RegistrySound
<1>1. SUFFICES ASSUME RegistryInv PROVE RegistrySound
  OBVIOUS
<1>2. Cardinality(active) <= 1 /\ active \subseteq models \intersect files
  <2>1. CASE active = {}
    BY <2>1, FS_EmptySet
  <2>2. CASE active # {}
    <3>1. PICK t \in Trainers : active = {t} /\ Deployable(t) /\ t \in models
      BY <1>1, <2>2 DEF RegistryInv, ActiveDeployed
    <3>2. Cardinality({t}) = 1
      BY FS_Singleton
    <3>. QED
      BY <3>1, <3>2 DEF Deployable
  <2>. QED
    BY <2>1, <2>2
<1>3. \A t \in active \union (IF runner = << >> THEN {} ELSE {runner[1]}) : t \in Trainers /\ Deployable(t)
  <2>1. \A t \in active : t \in Trainers /\ Deployable(t)
    BY <1>1 DEF RegistryInv, ActiveDeployed
  <2>2. runner # << >> => runner[1] \in Trainers /\ Deployable(runner[1])
    BY <1>1 DEF RegistryInv, ActiveDeployed
  <2>. QED
    BY <2>1, <2>2
<1>4. \A t \in Trainers : Deployable(t) =>
         /\ gate[t] /\ promotes[t] /\ Cardinality(samples[t]) >= MinSamples
         /\ samples[t] \subseteq Complete /\ (realProb[t] => samples[t] \subseteq Priced)
  BY <1>1 DEF RegistryInv, TrainerStages, Usable, Deployable, IsActive
<1>. QED
  BY <1>1, <1>2, <1>3, <1>4 DEF RegistrySound, RegistryInv, ClearedBy

\* However promotions race, die half-way or fail on the unique index, at most
\* one model is active, it and the engine's were trained on enough markets with
\* every source their samples use, passed the gate and have their files, and the
\* registry is without an active model only during or after a broken promotion.
THEOREM RegistrySoundHolds == RegistrySpec => []RegistrySound
<1>. QED
  BY RegistryStart, RegistryStep, RegistrySafe, PTL DEF RegistrySpec

-----------------------------------------------------------------------------
(* The backtest: one risk manager over the markets of a tape. *)

LEMMA RiskConsts ==
    /\ DayLen \in Nat \ {0} /\ CooldownSeconds \in Nat /\ DailyTradeLimit \in Nat
    /\ \A ts \in Nat : Day(ts) \in Nat
<1>1. DayLen \in Nat \ {0} /\ CooldownSeconds \in Nat /\ DailyTradeLimit \in Nat
  BY RiskAssumption
<1>2. \A n \in Nat \ {0}, ts \in Nat : ts \div n \in Nat
  OBVIOUS
<1>. QED
  BY <1>1, <1>2 DEF Day

LEMMA DayMonotone ==
    ASSUME NEW a \in Nat, NEW b \in Nat, a <= b
    PROVE  Day(a) <= Day(b)
<1>1. \A n \in Nat \ {0} : a \div n <= b \div n
  OBVIOUS
<1>. QED
  BY <1>1, RiskConsts DEF Day

RiskFields == {"day_key", "daily_pnl", "daily_trades", "circuit_breaker_tripped",
               "cooldown_until", "pause_until", "recent_pnls"}

\* What _roll_day, can_enter and on_trade_closed do to the day, its count and
\* the cooldown.
LEMMA RollFields ==
    ASSUME NEW s, DOMAIN s = RiskFields, NEW ts
    PROVE  LET r == RiskRollDay(s, ts)
           IN  /\ DOMAIN r = RiskFields /\ r.day_key = Day(ts)
               /\ Day(ts) = s.day_key => r = s
               /\ Day(ts) # s.day_key => r.daily_trades = 0 /\ r.cooldown_until = 0
BY DEF RiskRollDay, RiskState, RiskFields

LEMMA EnterFields ==
    ASSUME NEW s, DOMAIN s = RiskFields, NEW ts
    PROVE  LET r == RiskRollDay(s, ts)
               e == AfterCanEnter(s, ts)
           IN  /\ DOMAIN e = RiskFields /\ e.day_key = Day(ts)
               /\ e.daily_trades = r.daily_trades /\ e.cooldown_until = r.cooldown_until
<1>. DEFINE r == RiskRollDay(s, ts)
<1>1. DOMAIN r = RiskFields /\ r.day_key = Day(ts)
  BY RollFields
<1>2. AfterCanEnter(s, ts) \in {r, [r EXCEPT !.circuit_breaker_tripped = TRUE]}
  BY DEF AfterCanEnter
<1>. HIDE DEF r
<1>3. LET e == [r EXCEPT !.circuit_breaker_tripped = TRUE]
      IN  /\ DOMAIN e = RiskFields /\ e.day_key = r.day_key
          /\ e.daily_trades = r.daily_trades /\ e.cooldown_until = r.cooldown_until
  BY <1>1 DEF RiskFields
<1>4. LET e == AfterCanEnter(s, ts)
      IN  /\ DOMAIN e = RiskFields /\ e.day_key = Day(ts)
          /\ e.daily_trades = r.daily_trades /\ e.cooldown_until = r.cooldown_until
  BY <1>1, <1>2, <1>3
<1>. QED
  BY <1>4 DEF r

LEMMA CloseFields ==
    ASSUME NEW s, DOMAIN s = RiskFields, NEW pnl, NEW ts
    PROVE  LET r == RiskRollDay(s, ts)
               c == OnTradeClosed(s, pnl, ts)
           IN  /\ DOMAIN c = RiskFields /\ c.day_key = Day(ts)
               /\ c.daily_trades = r.daily_trades + 1 /\ c.cooldown_until = ts + CooldownSeconds
<1>. DEFINE r == RiskRollDay(s, ts)
            q == [r EXCEPT !.daily_pnl = @ + pnl, !.daily_trades = @ + 1,
                           !.cooldown_until = ts + CooldownSeconds]
<1>1. DOMAIN r = RiskFields /\ r.day_key = Day(ts)
  BY RollFields
<1>2. OnTradeClosed(s, pnl, ts) = RollingLossPause(q, pnl, ts)
  BY DEF OnTradeClosed
<1>. HIDE DEF r
<1>3. /\ DOMAIN q = RiskFields /\ q.day_key = r.day_key
      /\ q.daily_trades = r.daily_trades + 1 /\ q.cooldown_until = ts + CooldownSeconds
  BY <1>1 DEF RiskFields
<1>. HIDE DEF q
<1>. DEFINE recent == DropOld(Append(q.recent_pnls, [ts |-> ts, pnl |-> pnl]), ts - LossPauseWindow)
<1>4. RollingLossPause(q, pnl, ts)
        \in {q, [q EXCEPT !.pause_until = ts + LossPauseDuration, !.recent_pnls = << >>],
             [q EXCEPT !.recent_pnls = recent]}
  BY DEF RollingLossPause
<1>. HIDE DEF recent
<1>5. LET c == RollingLossPause(q, pnl, ts)
      IN  /\ DOMAIN c = RiskFields /\ c.day_key = q.day_key
          /\ c.daily_trades = q.daily_trades /\ c.cooldown_until = q.cooldown_until
  BY <1>3, <1>4 DEF RiskFields
<1>6. LET c == OnTradeClosed(s, pnl, ts)
      IN  /\ DOMAIN c = RiskFields /\ c.day_key = Day(ts)
          /\ c.daily_trades = r.daily_trades + 1 /\ c.cooldown_until = ts + CooldownSeconds
  BY <1>1, <1>2, <1>3, <1>5
<1>. QED
  BY <1>6 DEF r

TradeType == [m : MarketType, entry : [side : Sides, ts : Nat], win : BOOLEAN, seen : Nat]

Replaying(m) == market = <<m>>
Enterable(m, u) == m.open <= u /\ u <= m.open + LatestEntry

\* The markets that are left come after the one being replayed, and its ticks
\* that are left after the signal.
ReplayTypes ==
    /\ tape \in Tapes /\ range \in Ranges /\ bypass \in BOOLEAN
    /\ todo \subseteq tape /\ \A n \in todo : InRange(n, range) # {}
    /\ market = << >> \/ \E m \in tape \ todo : Replaying(m)
    /\ \A m \in tape : Replaying(m) =>
          /\ m.settle # 0 /\ InRange(m, range) # {} /\ ticksLeft \subseteq InRange(m, range)
          /\ \A n \in todo : FirstTick(m, range) <= FirstTick(n, range)
          /\ \A u \in ticksLeft : signalSeen <= u
    /\ signalSeen \in Nat /\ btTrades \in Seq(TradeType)

Holding ==
    \A m \in tape : Replaying(m) /\ position # Flat =>
       /\ position \in [side : Sides, ts : InRange(m, range)]
       /\ signalSeen <= position.ts /\ Enterable(m, position.ts)

\* A trade that can be told from those to come by its market.
Kept(t) ==
    /\ t.m \in tape \ todo /\ ~Replaying(t.m)
    /\ t.entry.ts \in InRange(t.m, range) /\ t.seen <= t.entry.ts /\ t.m.settle # 0
    /\ t.m.settle = t.m.strike => (t.win <=> t.entry.side = "YES_UP")

Traded ==
    \A i \in 1 .. Len(btTrades) :
       /\ Kept(btTrades[i])
       /\ \A j \in 1 .. Len(btTrades) : i # j => btTrades[j].m # btTrades[i].m

LEMMA MarketFacts ==
    ASSUME tape \in Tapes, range \in Ranges, NEW m \in tape
    PROVE  /\ m \in MarketType /\ m.open \in Nat /\ m.close \in Nat /\ m.strike \in Nat /\ m.settle \in Nat
           /\ m.open + LatestEntry <= m.close /\ LatestEntry \in Nat /\ EarliestEntry \in Nat
           /\ InRange(m, range) \subseteq m.ticks /\ InRange(m, range) \subseteq Nat
           /\ \A n \in tape : m.close <= n.open => \A t \in n.ticks : m.open + LatestEntry < t
           /\ InRange(m, range) # {} => /\ FirstTick(m, range) \in InRange(m, range)
                                        /\ \A u \in InRange(m, range) : FirstTick(m, range) <= u
<1>1. /\ m \in MarketType /\ m.open + LatestEntry <= m.close /\ LatestEntry \in Nat /\ EarliestEntry \in Nat
      /\ \A n \in tape : m.close <= n.open => \A t \in n.ticks : m.open + LatestEntry < t
  BY BacktestAssumption
<1>2. m.open \in Nat /\ m.close \in Nat /\ m.strike \in Nat /\ m.settle \in Nat /\ m.ticks \subseteq Nat
  BY <1>1 DEF MarketType
<1>3. InRange(m, range) \subseteq m.ticks
  BY DEF InRange
<1>4. ASSUME InRange(m, range) # {}
      PROVE  FirstTick(m, range) \in InRange(m, range)
             /\ \A u \in InRange(m, range) : FirstTick(m, range) <= u
  <2>. DEFINE S == InRange(m, range)
  <2>1. S \subseteq Nat /\ S # {}
    BY <1>2, <1>3, <1>4
  <2>2. FirstTick(m, range) = CHOOSE i \in S : \A j \in S : i <= j
    BY DEF FirstTick
  <2>. HIDE DEF S
  <2>3. FirstTick(m, range) \in S /\ \A j \in S : FirstTick(m, range) <= j
    BY <2>1, <2>2, LeastOf
  <2>. QED
    BY <2>3 DEF S
<1>. QED
  BY <1>1, <1>2, <1>3, <1>4

LEMMA ReplayStart == BacktestInit => ReplayTypes /\ Holding /\ Traded
<1>1. SUFFICES ASSUME BacktestInit PROVE ReplayTypes /\ Holding /\ Traded
  OBVIOUS
<1>2. market = << >> /\ btTrades = << >> /\ \A m : ~Replaying(m)
  BY <1>1 DEF BacktestInit, Replaying
<1>3. << >> \in Seq(TradeType) /\ Len(<< >>) = 0
  BY EmptySeq
<1>. QED
  BY <1>1, <1>2, <1>3 DEF BacktestInit, ReplayTypes, Holding, Traded

LEMMA NextMarketKeeps ==
    ASSUME ReplayTypes, Holding, Traded, NextMarket
    PROVE  ReplayTypes' /\ Holding' /\ Traded'
<1>1. PICK m \in IterMarkets(todo, range) :
         /\ todo' = todo \ {m}
         /\ IF m.settle = 0 THEN UNCHANGED <<market, ticksLeft>>
            ELSE market' = <<m>> /\ ticksLeft' = InRange(m, range)
  BY DEF NextMarket
<1>2. /\ market = << >> /\ position' = Flat /\ signalSeen' = 0
      /\ UNCHANGED <<tape, range, bypass, risk, btTrades>>
  BY DEF NextMarket
<1>3. m \in todo /\ m \in tape /\ \A n \in todo : FirstTick(m, range) <= FirstTick(n, range)
  BY <1>1 DEF IterMarkets, ReplayTypes
<1>4. \A n \in tape : Replaying(n)' => n = m /\ m.settle # 0 /\ ticksLeft' = InRange(m, range)
  BY <1>1, <1>2 DEF Replaying
<1>5. market' = << >> \/ Replaying(m)'
  BY <1>1, <1>2 DEF Replaying
<1>6. InRange(m, range) \subseteq Nat
  BY <1>3, MarketFacts DEF ReplayTypes
<1>7. ReplayTypes'
  <2>1. /\ tape' \in Tapes /\ range' \in Ranges /\ bypass' \in BOOLEAN
        /\ todo' \subseteq tape' /\ \A n \in todo' : InRange(n, range') # {}
    BY <1>1, <1>2 DEF ReplayTypes
  <2>2. market' = << >> \/ \E n \in tape' \ todo' : Replaying(n)'
    BY <1>1, <1>2, <1>3, <1>5
  <2>3. ASSUME NEW n \in tape', Replaying(n)'
        PROVE  /\ n.settle # 0 /\ InRange(n, range') # {} /\ ticksLeft' \subseteq InRange(n, range')
               /\ \A x \in todo' : FirstTick(n, range') <= FirstTick(x, range')
               /\ \A u \in ticksLeft' : signalSeen' <= u
    <3>1. n = m /\ m.settle # 0 /\ ticksLeft' = InRange(m, range)
      BY <1>2, <1>4, <2>3
    <3>2. \A u \in InRange(m, range) : 0 <= u
      BY <1>6
    <3>. QED
      BY <1>1, <1>2, <1>3, <3>1, <3>2 DEF ReplayTypes
  <2>4. signalSeen' \in Nat /\ btTrades' \in Seq(TradeType)
    BY <1>2 DEF ReplayTypes
  <2>. QED
    BY <2>1, <2>2, <2>3, <2>4 DEF ReplayTypes
<1>8. Holding'
  BY <1>2 DEF Holding
<1>9. Traded'
  <2>1. ASSUME NEW i \in 1 .. Len(btTrades) PROVE Kept(btTrades[i])'
    <3>1. Kept(btTrades[i])
      BY <2>1 DEF Traded
    <3>2. ~Replaying(btTrades[i].m)'
      BY <1>2, <1>3, <1>4, <3>1 DEF Kept
    <3>. QED
      BY <1>1, <1>2, <3>1, <3>2 DEF Kept, Replaying
  <2>. QED
    BY <1>2, <2>1 DEF Traded
<1>. QED
  BY <1>7, <1>8, <1>9

\* What a tick does: the ones that are left are later, and a position or a
\* signal is of this tick.
TickOf(m, ts) ==
    /\ Replaying(m) /\ ts \in InRange(m, range) /\ ts \in ticksLeft
    /\ ticksLeft' = ticksLeft \ {ts} /\ (\A u \in ticksLeft : ts <= u)
    /\ \/ UNCHANGED <<position, risk, signalSeen>>
       \/ /\ position = Flat /\ Enterable(m, ts) /\ signalSeen' \in {signalSeen, ts}
          /\ risk' = IF bypass THEN risk ELSE AfterCanEnter(risk, ts)
          /\ \/ position' = Flat
             \/ /\ position' \in {[side |-> s, ts |-> ts] : s \in Sides}
                /\ bypass \/ RiskAllows(risk, ts)

LEMMA ReplayTickFacts ==
    ASSUME ReplayTypes, ReplayTick
    PROVE  \E m \in tape \ todo : \E ts \in Nat : TickOf(m, ts)
<1>1. PICK m \in tape \ todo : Replaying(m)
  BY DEF ReplayTypes, ReplayTick
<1>2. market[1] = m
  BY <1>1 DEF Replaying
<1>3. PICK ts \in ticksLeft :
          /\ \A u \in ticksLeft : ts <= u
          /\ ticksLeft' = ticksLeft \ {ts}
          /\ IF ~Evaluated(m, ts) THEN UNCHANGED <<risk, position, signalSeen>>
             ELSE /\ risk' = IF bypass THEN risk ELSE AfterCanEnter(risk, ts)
                  /\ \/ UNCHANGED <<position, signalSeen>>
                     \/ /\ bypass \/ RiskAllows(risk, ts)
                        /\ signalSeen' = IF signalSeen = 0 THEN ts ELSE signalSeen
                        /\ position' \in {position} \union {[side |-> s, ts |-> ts] : s \in Sides}
  BY <1>2 DEF ReplayTick
<1>4. ts \in InRange(m, range) /\ signalSeen <= ts
  BY <1>1 DEF ReplayTypes
<1>5. /\ m.open \in Nat /\ ts \in Nat /\ EarliestEntry \in Nat /\ LatestEntry \in Nat
  BY <1>4, MarketFacts DEF ReplayTypes
<1>6. Evaluated(m, ts) => position = Flat /\ Enterable(m, ts)
  BY <1>5 DEF Evaluated, Enterable
<1>7. TickOf(m, ts)
  BY <1>1, <1>3, <1>4, <1>6 DEF TickOf
<1>. QED
  BY <1>5, <1>7

LEMMA ReplayTickKeeps ==
    ASSUME ReplayTypes, Holding, Traded, ReplayTick
    PROVE  ReplayTypes' /\ Holding' /\ Traded'
<1>1. PICK m \in tape \ todo : \E ts \in Nat : TickOf(m, ts)
  BY ReplayTickFacts
<1>0. PICK ts \in Nat : TickOf(m, ts)
  BY <1>1
<1>2. UNCHANGED <<tape, range, bypass, todo, market, btTrades>>
  BY DEF ReplayTick
<1>3. \A n : Replaying(n)' <=> Replaying(n)
  BY <1>2 DEF Replaying
<1>4. Replaying(m) /\ \A n : Replaying(n) => n = m
  BY <1>0 DEF Replaying, TickOf
<1>5. InRange(m, range) \subseteq Nat
  BY MarketFacts DEF ReplayTypes
<1>a. /\ ticksLeft \subseteq InRange(m, range) /\ \A u \in ticksLeft : signalSeen <= u
  BY <1>4 DEF ReplayTypes
<1>b. signalSeen' \in {signalSeen, ts} /\ ts \in ticksLeft /\ ticksLeft' = ticksLeft \ {ts}
      /\ \A u \in ticksLeft : ts <= u
  BY <1>0 DEF TickOf
<1>6. ReplayTypes'
  <2>1. \A u \in ticksLeft' : signalSeen' <= u
    BY <1>a, <1>b
  <2>2. ticksLeft' \subseteq InRange(m, range) /\ signalSeen' \in Nat
    BY <1>a, <1>b DEF ReplayTypes
  <2>3. ASSUME NEW n \in tape', Replaying(n)'
        PROVE  /\ n.settle # 0 /\ InRange(n, range') # {} /\ ticksLeft' \subseteq InRange(n, range')
               /\ \A x \in todo' : FirstTick(n, range') <= FirstTick(x, range')
               /\ \A u \in ticksLeft' : signalSeen' <= u
    <3>1. n = m
      BY <1>3, <1>4, <2>3
    <3>2. /\ m.settle # 0 /\ InRange(m, range) # {}
          /\ \A x \in todo : FirstTick(m, range) <= FirstTick(x, range)
      BY <1>4 DEF ReplayTypes
    <3>. QED
      BY <1>2, <2>1, <2>2, <3>1, <3>2
  <2>4. market' = << >> \/ \E n \in tape' \ todo' : Replaying(n)'
    BY <1>2, <1>3, <1>4
  <2>. QED
    BY <1>2, <2>2, <2>3, <2>4 DEF ReplayTypes
<1>7. Holding'
  <2>1. SUFFICES ASSUME position' # Flat
                 PROVE  /\ position' \in [side : Sides, ts : InRange(m, range)]
                        /\ signalSeen' <= position'.ts /\ Enterable(m, position'.ts)
    BY <1>2, <1>3, <1>4 DEF Holding, Enterable
  <2>2. CASE UNCHANGED <<position, risk, signalSeen>>
    <3>1. position # Flat
      BY <2>1, <2>2
    <3>. QED
      BY <1>4, <2>2, <3>1 DEF Holding
  <2>3. CASE ~UNCHANGED <<position, risk, signalSeen>>
    <3>1. Enterable(m, ts) /\ position' \in {[side |-> s, ts |-> ts] : s \in Sides}
      BY <1>0, <2>1, <2>3 DEF TickOf
    <3>2. PICK s \in Sides : position' = [side |-> s, ts |-> ts]
      BY <3>1
    <3>3. signalSeen' <= ts
      BY <1>a, <1>b, <1>5
    <3>. QED
      BY <1>0, <3>1, <3>2, <3>3 DEF TickOf
  <2>. QED
    BY <2>2, <2>3
<1>8. Traded'
  BY <1>2, <1>3 DEF Traded, Kept
<1>. QED
  BY <1>6, <1>7, <1>8

\* The trade the end of a market appends.
ClosedTrade(m) ==
    [m |-> m, entry |-> position, win |-> Won(m, position.side), seen |-> signalSeen]

LEMMA CloseMarketFacts ==
    ASSUME ReplayTypes, Holding, Traded, CloseMarket, NEW m \in tape, Replaying(m)
    PROVE  /\ m.close \in Nat /\ m.open \in Nat
           /\ IF position = Flat THEN UNCHANGED <<btTrades, risk>>
              ELSE /\ ClosedTrade(m) \in TradeType /\ position.ts \in Nat
                   /\ position.ts <= m.close
                   /\ btTrades' = Append(btTrades, ClosedTrade(m)) /\ Len(btTrades') = Len(btTrades) + 1
                   /\ btTrades'[Len(btTrades) + 1] = ClosedTrade(m)
                   /\ \A i \in 1 .. Len(btTrades) : btTrades'[i] = btTrades[i]
                   /\ ~bypass => \E pnl : risk' = OnTradeClosed(risk, pnl, m.close)
<1>1. m \in MarketType /\ m.close \in Nat /\ m.open \in Nat /\ m.open + LatestEntry <= m.close
      /\ LatestEntry \in Nat /\ InRange(m, range) \subseteq Nat
  BY MarketFacts DEF ReplayTypes
<1>2. market[1] = m
  BY DEF Replaying
<1>3. CASE position = Flat
  BY <1>1, <1>3 DEF CloseMarket
<1>4. CASE position # Flat
  <2>1. position \in [side : Sides, ts : InRange(m, range)] /\ Enterable(m, position.ts)
    BY <1>4 DEF Holding
  <2>2. position \in [side : Sides, ts : Nat] /\ position.ts \in Nat
    BY <1>1, <2>1
  <2>3. position.ts <= m.close
    BY <1>1, <2>1, <2>2 DEF Enterable
  <2>4. Won(m, position.side) \in BOOLEAN /\ signalSeen \in Nat
    BY DEF Won, ReplayTypes
  <2>5. ClosedTrade(m) \in TradeType
    BY <1>1, <2>2, <2>4 DEF ClosedTrade, TradeType
  <2>6. btTrades' = Append(btTrades, ClosedTrade(m))
    BY <1>2, <1>4 DEF CloseMarket, ClosedTrade
  <2>7. ~bypass => risk' = OnTradeClosed(risk, IF Won(m, position.side) THEN 1 ELSE -1, m.close)
    BY <1>2, <1>4 DEF CloseMarket
  <2>8. btTrades \in Seq(TradeType)
    BY DEF ReplayTypes
  <2>9. /\ Len(btTrades') = Len(btTrades) + 1 /\ btTrades'[Len(btTrades) + 1] = ClosedTrade(m)
        /\ \A i \in 1 .. Len(btTrades) : btTrades'[i] = btTrades[i]
    BY <2>5, <2>6, <2>8, AppendProperties
  <2>. QED
    BY <1>1, <1>4, <2>2, <2>3, <2>5, <2>6, <2>7, <2>9
<1>. QED
  BY <1>3, <1>4

LEMMA CloseMarketKeeps ==
    ASSUME ReplayTypes, Holding, Traded, CloseMarket
    PROVE  ReplayTypes' /\ Holding' /\ Traded'
<1>1. PICK m \in tape \ todo : Replaying(m)
  BY DEF ReplayTypes, CloseMarket
<1>2. market' = << >> /\ UNCHANGED <<tape, range, bypass, todo, ticksLeft, position, signalSeen>>
  BY DEF CloseMarket
<1>3. \A n : ~Replaying(n)'
  BY <1>2 DEF Replaying
<1>4. /\ m.close \in Nat /\ m.open \in Nat
      /\ IF position = Flat THEN UNCHANGED <<btTrades, risk>>
         ELSE /\ ClosedTrade(m) \in TradeType /\ position.ts \in Nat
              /\ position.ts <= m.close
              /\ btTrades' = Append(btTrades, ClosedTrade(m)) /\ Len(btTrades') = Len(btTrades) + 1
              /\ btTrades'[Len(btTrades) + 1] = ClosedTrade(m)
              /\ \A i \in 1 .. Len(btTrades) : btTrades'[i] = btTrades[i]
              /\ ~bypass => \E pnl : risk' = OnTradeClosed(risk, pnl, m.close)
  BY <1>1, CloseMarketFacts
<1>5. btTrades \in Seq(TradeType) /\ Len(btTrades) \in Nat
  BY DEF ReplayTypes
<1>6. btTrades' \in Seq(TradeType)
  <2>1. CASE position = Flat
    BY <1>4, <1>5, <2>1
  <2>2. CASE position # Flat
    BY <1>4, <1>5, <2>2, AppendProperties
  <2>. QED
    BY <2>1, <2>2
<1>7. ReplayTypes'
  BY <1>2, <1>3, <1>6 DEF ReplayTypes
<1>8. Holding'
  BY <1>3 DEF Holding
<1>9. Traded'
  <2>1. \A i \in 1 .. Len(btTrades) : Kept(btTrades[i]) /\ btTrades[i].m # m
    BY <1>1 DEF Traded, Kept
  <2>2. CASE position = Flat
    <3>1. btTrades' = btTrades
      BY <1>4, <2>2
    <3>. QED
      BY <1>2, <1>3, <3>1 DEF Traded, Kept
  <2>3. CASE position # Flat
    <3>1. PICK t : t = ClosedTrade(m)
      OBVIOUS
    <3>2. PICK n \in Nat : n = Len(btTrades)
      BY <1>5
    <3>3. /\ Len(btTrades') = n + 1 /\ btTrades'[n + 1] = t
          /\ \A i \in 1 .. n : btTrades'[i] = btTrades[i]
      BY <1>4, <2>3, <3>1, <3>2
    <3>4. /\ t.m = m /\ t.entry = position /\ t.seen = signalSeen /\ (t.win <=> Won(m, position.side))
      BY <3>1 DEF ClosedTrade
    <3>5. /\ position \in [side : Sides, ts : InRange(m, range)] /\ signalSeen <= position.ts
          /\ m.settle # 0
      BY <1>1, <2>3 DEF Holding, ReplayTypes
    <3>6. m.settle = m.strike => (Won(m, position.side) <=> position.side = "YES_UP")
      <4>1. m.settle \in Nat /\ m.strike \in Nat
        BY MarketFacts DEF ReplayTypes
      <4>. QED
        BY <3>5, <4>1 DEF Won
    <3>7. \A x : Kept(x) => Kept(x)'
      BY <1>2, <1>3 DEF Kept
    <3>8. Kept(t)'
      <4>1. t.entry.ts \in InRange(t.m, range) /\ t.seen <= t.entry.ts /\ t.m.settle # 0
        BY <3>4, <3>5
      <4>2. t.m.settle = t.m.strike => (t.win <=> t.entry.side = "YES_UP")
        BY <3>4, <3>6
      <4>. QED
        BY <1>1, <1>2, <1>3, <3>4, <4>1, <4>2 DEF Kept
    <3>9. ASSUME NEW i \in 1 .. n + 1
          PROVE  /\ \A x : x = btTrades'[i] => Kept(x)'
                 /\ \A j \in 1 .. n + 1 : i # j => btTrades'[j].m # btTrades'[i].m
      <4>1. \A j \in 1 .. n + 1 : j \in 1 .. n \/ j = n + 1
        OBVIOUS
      <4>2. \A j \in 1 .. n : btTrades'[j].m # m
        BY <2>1, <3>2, <3>3
      <4>3. CASE i \in 1 .. n
        BY <2>1, <3>2, <3>3, <3>4, <3>7, <4>1, <4>2, <4>3 DEF Traded
      <4>4. CASE i = n + 1
        BY <3>3, <3>4, <3>8, <4>1, <4>2, <4>4
      <4>. QED
        BY <4>1, <4>3, <4>4
    <3>10. \A i \in 1 .. n + 1 : Kept(btTrades[i])'
      BY <3>9 DEF Kept
    <3>. QED
      BY <3>3, <3>9, <3>10 DEF Traded
  <2>. QED
    BY <2>2, <2>3
<1>. QED
  BY <1>7, <1>8, <1>9

-----------------------------------------------------------------------------
(* What the risk manager knows, within one series and without bypass_risk. *)

Over(i) == btTrades[i].m.close

\* A tick that may still be evaluated.
Coming(n, u) ==
    /\ Enterable(n, u)
    /\ n \in todo \/ (Replaying(n) /\ position = Flat /\ u \in ticksLeft)

\* Everything that is still to be evaluated is later than all that is known.
Ahead ==
    \A n \in tape : \A u \in InRange(n, range) : Coming(n, u) =>
       risk.day_key <= Day(u) /\ \A i \in 1 .. Len(btTrades) : Over(i) <= u

\* The manager's day is the last one, its count and cooldown those of its trades.
Known ==
    /\ DOMAIN risk = RiskFields
    /\ risk.day_key \in Nat /\ risk.daily_trades \in Nat /\ risk.cooldown_until \in Nat
    /\ \A d \in Nat : d = risk.day_key => risk.daily_trades = ClosedOn(d)
    /\ \A i \in 1 .. Len(btTrades) :
          /\ Day(Over(i)) <= risk.day_key
          /\ Day(Over(i)) = risk.day_key => Over(i) + CooldownSeconds <= risk.cooldown_until

EnteredAfter(i, ts) == ts >= Over(i) /\ (Day(Over(i)) = Day(ts) => ts >= Over(i) + CooldownSeconds)

\* A position was let in by what the manager knows now.
LetIn ==
    \A m \in tape : Replaying(m) /\ position # Flat =>
       /\ risk.day_key = Day(position.ts) /\ risk.daily_trades < DailyTradeLimit
       /\ \A i \in 1 .. Len(btTrades) : EnteredAfter(i, position.ts)

Spaced ==
    /\ \A i, j \in 1 .. Len(btTrades) : i < j => EnteredAfter(i, btTrades[j].entry.ts)
    /\ \A d \in Nat : ClosedOn(d) <= DailyTradeLimit

Honest == Ahead /\ Known /\ LetIn /\ Spaced

ReplayInv == ReplayTypes /\ Holding /\ Traded /\ (Disjoint /\ ~bypass => Honest)

LEMMA OverType ==
    ASSUME ReplayTypes, NEW i \in 1 .. Len(btTrades)
    PROVE  Over(i) \in Nat /\ Day(Over(i)) \in Nat /\ btTrades[i].entry.ts \in Nat
           /\ btTrades[i] \in TradeType
<1>1. btTrades[i] \in TradeType
  BY DEF ReplayTypes
<1>2. btTrades[i].m \in MarketType /\ btTrades[i].entry \in [side : Sides, ts : Nat]
  BY <1>1 DEF TradeType
<1>3. btTrades[i].m.close \in Nat /\ btTrades[i].entry.ts \in Nat
  BY <1>2 DEF MarketType
<1>. QED
  BY <1>1, <1>3, RiskConsts DEF Over

\* The trades of a day, counted.
LEMMA ClosedFinite ==
    ASSUME NEW s \in Seq(TradeType), NEW d
    PROVE  LET S == {i \in DOMAIN s : Day(s[i].m.close) = d}
           IN  IsFiniteSet(S) /\ Cardinality(S) \in Nat /\ (S = {} => Cardinality(S) = 0)
<1>. DEFINE S == {i \in DOMAIN s : Day(s[i].m.close) = d}
<1>1. DOMAIN s = 1 .. Len(s) /\ Len(s) \in Nat
  OBVIOUS
<1>2. \A n \in Nat : IsFiniteSet(1 .. n)
  BY FS_Interval
<1>3. IsFiniteSet(DOMAIN s)
  BY <1>1, <1>2
<1>4. S \subseteq DOMAIN s
  OBVIOUS
<1>. HIDE DEF S
<1>5. IsFiniteSet(S) /\ Cardinality(S) \in Nat
  BY <1>3, <1>4, FS_Subset, FS_CardinalityType
<1>. QED
  BY <1>5, FS_EmptySet DEF S

LEMMA ClosedAppend ==
    ASSUME NEW s \in Seq(TradeType), NEW t \in TradeType, NEW d
    PROVE  LET S == {i \in DOMAIN s : Day(s[i].m.close) = d}
               R == {i \in DOMAIN Append(s, t) : Day(Append(s, t)[i].m.close) = d}
           IN  Cardinality(R) = IF Day(t.m.close) = d THEN Cardinality(S) + 1 ELSE Cardinality(S)
<1>. DEFINE S == {i \in DOMAIN s : Day(s[i].m.close) = d}
            R == {i \in DOMAIN Append(s, t) : Day(Append(s, t)[i].m.close) = d}
            n == Len(s)
<1>1. DOMAIN s = 1 .. n /\ n \in Nat
  OBVIOUS
<1>2. /\ DOMAIN Append(s, t) = 1 .. n + 1 /\ Append(s, t)[n + 1] = t
      /\ \A i \in 1 .. n : Append(s, t)[i] = s[i]
  BY AppendProperties
<1>3. IsFiniteSet(S) /\ n + 1 \notin S
  <2>1. IsFiniteSet(S)
    BY ClosedFinite
  <2>. HIDE DEF n
  <2>2. n + 1 \notin 1 .. n
    BY <1>1
  <2>. QED
    BY <1>1, <2>1, <2>2
<1>4. R = IF Day(t.m.close) = d THEN S \union {n + 1} ELSE S
  <2>1. \A i : i \in 1 .. n + 1 <=> i \in 1 .. n \/ i = n + 1
    BY <1>1
  <2>. DEFINE a == Append(s, t)
  <2>2. DOMAIN a = 1 .. n + 1 /\ a[n + 1] = t /\ \A i \in 1 .. n : a[i] = s[i]
    BY <1>2
  <2>3. R = {i \in DOMAIN a : Day(a[i].m.close) = d}
    OBVIOUS
  <2>. HIDE DEF a, n, R
  <2>4. \A i : i \in R <=> i \in S \/ (i = n + 1 /\ Day(t.m.close) = d)
    BY <1>1, <2>1, <2>2, <2>3
  <2>. QED
    BY <2>4
<1>. HIDE DEF R, S
<1>5. Cardinality(S \union {n + 1}) = Cardinality(S) + 1
  BY <1>3, FS_AddElement
<1>6. Cardinality(R) = IF Day(t.m.close) = d THEN Cardinality(S) + 1 ELSE Cardinality(S)
  BY <1>4, <1>5
<1>. QED
  BY <1>6 DEF R, S

\* The entry window of a market that is left opens after the market being
\* replayed has closed.
LEMMA BehindTheClose ==
    ASSUME ReplayTypes, Disjoint, NEW m \in tape \ todo, Replaying(m), NEW n \in todo,
           NEW u \in InRange(n, range), Enterable(n, u)
    PROVE  m.close <= u
<1>1. n \in tape /\ m # n
  BY DEF ReplayTypes
<1>2. /\ m.open \in Nat /\ m.close \in Nat /\ InRange(m, range) \subseteq Nat
      /\ InRange(m, range) \subseteq m.ticks /\ InRange(m, range) # {}
      /\ FirstTick(m, range) \in InRange(m, range)
  BY MarketFacts DEF ReplayTypes
<1>3. /\ n.open \in Nat /\ n.close \in Nat /\ InRange(n, range) \subseteq Nat /\ LatestEntry \in Nat
      /\ FirstTick(n, range) \in InRange(n, range) /\ FirstTick(n, range) <= u
      /\ n.close <= m.open => \A t \in m.ticks : n.open + LatestEntry < t
  BY <1>1, MarketFacts DEF ReplayTypes
<1>4. FirstTick(m, range) <= FirstTick(n, range)
  BY DEF ReplayTypes
<1>5. ~(n.close <= m.open)
  BY <1>2, <1>3, <1>4 DEF Enterable
<1>6. m.close <= n.open
  BY <1>1, <1>5 DEF Disjoint
<1>. QED
  BY <1>2, <1>3, <1>6 DEF Enterable

LEMMA HonestStart == BacktestInit => Honest
<1>1. SUFFICES ASSUME BacktestInit PROVE Honest
  OBVIOUS
<1>2. market = << >> /\ btTrades = << >> /\ Len(btTrades) = 0 /\ (\A m : ~Replaying(m)) /\ risk = RiskInit
  BY <1>1, EmptySeq DEF BacktestInit, Replaying
<1>3. Day(0) \in Nat /\ \A u \in Nat : Day(0) <= Day(u)
  BY DayMonotone, RiskConsts
<1>4. \A d : ClosedOn(d) = 0
  <2>1. DOMAIN btTrades = {}
    BY <1>2
  <2>2. \A d : {i \in DOMAIN btTrades : Day(btTrades[i].m.close) = d} = {}
    BY <2>1
  <2>. QED
    BY <2>2, FS_EmptySet DEF ClosedOn
<1>5. /\ DOMAIN risk = RiskFields /\ risk.day_key = Day(0) /\ risk.daily_trades = 0 /\ risk.cooldown_until = 0
  BY <1>2 DEF RiskInit, RiskState, RiskFields
<1>6. Ahead
  <2>1. \A n \in tape : InRange(n, range) \subseteq Nat
    BY <1>1, MarketFacts DEF BacktestInit
  <2>. QED
    BY <1>2, <1>3, <1>5, <2>1 DEF Ahead
<1>7. Known
  BY <1>2, <1>3, <1>4, <1>5 DEF Known
<1>8. LetIn
  BY <1>2 DEF LetIn
<1>9. Spaced
  BY <1>2, <1>4, RiskConsts DEF Spaced
<1>. QED
  BY <1>6, <1>7, <1>8, <1>9 DEF Honest

\* Facts about the trades that a step leaves alone.
LEMMA SameTrades ==
    ASSUME btTrades' = btTrades
    PROVE  /\ \A i : Over(i)' = Over(i)
           /\ \A d : ClosedOn(d)' = ClosedOn(d)
           /\ \A i, ts : EnteredAfter(i, ts)' <=> EnteredAfter(i, ts)
           /\ Spaced => Spaced'
<1>1. \A i : Over(i)' = Over(i)
  BY DEF Over
<1>2. \A d : ClosedOn(d)' = ClosedOn(d)
  BY DEF ClosedOn
<1>3. \A i, ts : EnteredAfter(i, ts)' <=> EnteredAfter(i, ts)
  BY <1>1 DEF EnteredAfter
<1>4. Spaced => Spaced'
  <2>1. \A i, j \in 1 .. Len(btTrades) : EnteredAfter(i, btTrades[j].entry.ts) => EnteredAfter(i, btTrades[j].entry.ts)'
    BY <1>1 DEF EnteredAfter
  <2>. QED
    BY <1>2, <2>1 DEF Spaced
<1>. QED
  BY <1>1, <1>2, <1>3, <1>4

LEMMA NextMarketHonest ==
    ASSUME ReplayTypes, Holding, Traded, Honest, NextMarket
    PROVE  Honest'
<1>1. PICK m \in IterMarkets(todo, range) :
         /\ todo' = todo \ {m}
         /\ IF m.settle = 0 THEN UNCHANGED <<market, ticksLeft>>
            ELSE market' = <<m>> /\ ticksLeft' = InRange(m, range)
  BY DEF NextMarket
<1>2. /\ market = << >> /\ position' = Flat
      /\ UNCHANGED <<tape, range, bypass, risk, btTrades>>
  BY DEF NextMarket
<1>3. m \in todo
  BY <1>1 DEF IterMarkets
<1>4. \A n \in tape, u \in Nat : Coming(n, u)' => Coming(n, u)
  BY <1>1, <1>2, <1>3 DEF Coming, Replaying, Enterable
<1>5. \A n \in tape : InRange(n, range) \subseteq Nat
  BY MarketFacts DEF ReplayTypes
<1>6. Ahead'
  BY <1>2, <1>4, <1>5, SameTrades DEF Ahead, Honest
<1>7. Known'
  BY <1>2, SameTrades DEF Known, Honest
<1>8. LetIn'
  BY <1>2 DEF LetIn
<1>. QED
  BY <1>2, <1>6, <1>7, <1>8, SameTrades DEF Honest

LEMMA ReplayTickHonest ==
    ASSUME ReplayTypes, Holding, Traded, Disjoint, ~bypass, Honest, ReplayTick
    PROVE  Honest'
<1>1. PICK m \in tape \ todo : \E ts \in Nat : TickOf(m, ts)
  BY ReplayTickFacts
<1>2. PICK ts \in Nat : TickOf(m, ts)
  BY <1>1
<1>3. UNCHANGED <<tape, range, bypass, todo, market, btTrades>>
  BY DEF ReplayTick
<1>4. /\ Replaying(m) /\ ts \in InRange(m, range) /\ ts \in ticksLeft
      /\ ticksLeft' = ticksLeft \ {ts} /\ (\A u \in ticksLeft : ts <= u)
  BY <1>2 DEF TickOf
<1>5. \A n : (Replaying(n)' <=> Replaying(n)) /\ (Replaying(n) => n = m)
  BY <1>3, <1>4 DEF Replaying
<1>6. CASE UNCHANGED <<position, risk, signalSeen>>
  <2>1. \A n \in tape, u \in Nat : Coming(n, u)' => Coming(n, u)
    BY <1>3, <1>4, <1>5, <1>6 DEF Coming, Enterable
  <2>2. \A n \in tape : InRange(n, range) \subseteq Nat
    BY MarketFacts DEF ReplayTypes
  <2>3. Ahead'
    BY <1>3, <1>6, <2>1, <2>2, SameTrades DEF Ahead, Honest
  <2>4. Known'
    BY <1>3, <1>6, SameTrades DEF Known, Honest
  <2>5. LetIn'
    <3>1. \A i : EnteredAfter(i, position.ts)' <=> EnteredAfter(i, position.ts)
      BY <1>3, <1>6 DEF EnteredAfter, Over
    <3>. QED
      BY <1>3, <1>5, <1>6, <3>1 DEF LetIn, Honest
  <2>. QED
    BY <1>3, <2>3, <2>4, <2>5, SameTrades DEF Honest
<1>7. CASE /\ position = Flat /\ Enterable(m, ts) /\ risk' = AfterCanEnter(risk, ts)
           /\ \/ position' = Flat
              \/ /\ position' \in {[side |-> s, ts |-> ts] : s \in Sides}
                 /\ RiskAllows(risk, ts)
  <2>1. PICK r : r = RiskRollDay(risk, ts)
    OBVIOUS
  <2>2. DOMAIN risk = RiskFields
    BY DEF Honest, Known
  <2>3. /\ DOMAIN r = RiskFields /\ r.day_key = Day(ts)
        /\ Day(ts) = risk.day_key => r = risk
        /\ Day(ts) # risk.day_key => r.daily_trades = 0 /\ r.cooldown_until = 0
    BY <2>1, <2>2, RollFields
  <2>4. /\ DOMAIN risk' = RiskFields /\ risk'.day_key = Day(ts)
        /\ risk'.daily_trades = r.daily_trades /\ risk'.cooldown_until = r.cooldown_until
    BY <1>7, <2>1, <2>2, EnterFields
  <2>5. Coming(m, ts)
    BY <1>4, <1>7 DEF Coming
  <2>6. risk.day_key <= Day(ts) /\ \A i \in 1 .. Len(btTrades) : Over(i) <= ts
    BY <1>4, <2>5 DEF Ahead, Honest
  <2>7. /\ m.open \in Nat /\ m.close \in Nat /\ ts <= m.close /\ LatestEntry \in Nat
    <3>1. /\ m.open \in Nat /\ m.close \in Nat /\ m.open + LatestEntry <= m.close /\ LatestEntry \in Nat
      BY MarketFacts DEF ReplayTypes
    <3>. QED
      BY <1>7, <3>1 DEF Enterable
  <2>8. Day(ts) \in Nat
    BY RiskConsts
  <2>9. \A i \in 1 .. Len(btTrades) : Over(i) \in Nat /\ Day(Over(i)) \in Nat
    BY OverType
  <2>10. Ahead'
    <3>1. ASSUME NEW n \in tape, NEW u \in InRange(n, range), Coming(n, u)'
          PROVE  Day(ts) <= Day(u) /\ \A i \in 1 .. Len(btTrades) : Over(i) <= u
      <4>1. u \in Nat
        BY MarketFacts DEF ReplayTypes
      <4>2. CASE n \in todo
        <5>1. m.close <= u /\ Coming(n, u)
          BY <1>3, <1>4, <3>1, <4>2, BehindTheClose DEF Coming, Enterable
        <5>2. ts <= u
          BY <2>7, <4>1, <5>1
        <5>. QED
          BY <4>1, <4>2, <5>1, <5>2, DayMonotone DEF Ahead, Honest
      <4>3. CASE n \notin todo
        <5>1. u \in ticksLeft
          BY <1>3, <1>4, <3>1, <4>3 DEF Coming
        <5>2. ts <= u
          BY <1>4, <5>1
        <5>3. \A i \in 1 .. Len(btTrades) : Over(i) <= u
          BY <2>6, <2>9, <4>1, <5>2
        <5>. QED
          BY <4>1, <5>2, <5>3, DayMonotone
      <4>. QED
        BY <4>2, <4>3
    <3>. QED
      BY <1>3, <2>4, <3>1, SameTrades DEF Ahead
  <2>11. ASSUME Day(ts) # risk.day_key
         PROVE  (\A i \in 1 .. Len(btTrades) : Day(Over(i)) < Day(ts)) /\ ClosedOn(Day(ts)) = 0
    <3>1. \A i \in 1 .. Len(btTrades) : Day(Over(i)) < Day(ts)
      BY <2>6, <2>8, <2>9, <2>11 DEF Known, Honest
    <3>2. DOMAIN btTrades = 1 .. Len(btTrades) /\ btTrades \in Seq(TradeType)
      BY DEF ReplayTypes
    <3>3. \A i \in DOMAIN btTrades : Day(btTrades[i].m.close) # Day(ts)
      BY <2>8, <2>9, <3>1, <3>2 DEF Over
    <3>4. {i \in DOMAIN btTrades : Day(btTrades[i].m.close) = Day(ts)} = {}
      BY <3>3
    <3>5. ClosedOn(Day(ts)) = 0
      BY <3>4, FS_EmptySet DEF ClosedOn
    <3>. QED
      BY <3>1, <3>5
  <2>12. /\ r.daily_trades \in Nat /\ r.cooldown_until \in Nat /\ r.daily_trades = ClosedOn(Day(ts))
         /\ \A i \in 1 .. Len(btTrades) :
               /\ Day(Over(i)) <= Day(ts)
               /\ Day(Over(i)) = Day(ts) => Over(i) + CooldownSeconds <= r.cooldown_until
    <3>1. CASE Day(ts) = risk.day_key
      BY <2>3, <2>8, <3>1 DEF Known, Honest
    <3>2. CASE Day(ts) # risk.day_key
      BY <2>3, <2>8, <2>9, <2>11, <3>2
    <3>. QED
      BY <3>1, <3>2
  <2>13. Known'
    <3>1. \A d \in Nat : d = risk'.day_key => risk'.daily_trades = ClosedOn(d)
      BY <2>4, <2>12
    <3>2. \A i \in 1 .. Len(btTrades) :
               /\ Day(Over(i)) <= risk'.day_key
               /\ Day(Over(i)) = risk'.day_key => Over(i) + CooldownSeconds <= risk'.cooldown_until
      BY <2>4, <2>12
    <3>3. risk'.day_key \in Nat /\ risk'.daily_trades \in Nat /\ risk'.cooldown_until \in Nat
      BY <2>4, <2>8, <2>12
    <3>. QED
      BY <1>3, <2>4, <3>1, <3>2, <3>3, SameTrades DEF Known
  <2>14. LetIn'
    <3>1. CASE position' = Flat
      BY <3>1 DEF LetIn
    <3>2. CASE position' # Flat
      <4>1. position'.ts = ts /\ RiskAllows(risk, ts)
        BY <1>7, <3>2
      <4>2. ts >= r.cooldown_until /\ r.daily_trades < DailyTradeLimit
        BY <2>1, <4>1 DEF RiskAllows, TimeAndCountGates
      <4>3. \A i \in 1 .. Len(btTrades) : EnteredAfter(i, ts)
        <5>1. ASSUME NEW i \in 1 .. Len(btTrades), Day(Over(i)) = Day(ts)
              PROVE  Over(i) + CooldownSeconds <= ts
          <6>1. Over(i) + CooldownSeconds <= r.cooldown_until /\ Over(i) \in Nat
            BY <2>9, <2>12, <5>1
          <6>2. r.cooldown_until \in Nat /\ CooldownSeconds \in Nat
            BY <2>12, RiskConsts
          <6>. QED
            BY <4>2, <6>1, <6>2
        <5>. QED
          BY <2>6, <2>9, <5>1, RiskConsts DEF EnteredAfter
      <4>4. \A i \in 1 .. Len(btTrades) : EnteredAfter(i, position.ts)'
        BY <1>3, <4>1, <4>3 DEF EnteredAfter, Over
      <4>. QED
        BY <1>3, <2>4, <4>1, <4>2, <4>4 DEF LetIn
    <3>. QED
      BY <3>1, <3>2
  <2>. QED
    BY <1>3, <2>10, <2>13, <2>14, SameTrades DEF Honest
<1>. QED
  BY <1>2, <1>6, <1>7 DEF TickOf

LEMMA CloseMarketHonest ==
    ASSUME ReplayTypes, Holding, Traded, Disjoint, ~bypass, Honest, CloseMarket
    PROVE  Honest'
<1>1. PICK m \in tape \ todo : Replaying(m)
  BY DEF ReplayTypes, CloseMarket
<1>2. market' = << >> /\ UNCHANGED <<tape, range, bypass, todo, ticksLeft, position, signalSeen>>
  BY DEF CloseMarket
<1>3. \A n : ~Replaying(n)'
  BY <1>2 DEF Replaying
<1>4. /\ m.close \in Nat /\ m.open \in Nat
      /\ IF position = Flat THEN UNCHANGED <<btTrades, risk>>
         ELSE /\ ClosedTrade(m) \in TradeType /\ position.ts \in Nat
              /\ position.ts <= m.close
              /\ btTrades' = Append(btTrades, ClosedTrade(m)) /\ Len(btTrades') = Len(btTrades) + 1
              /\ btTrades'[Len(btTrades) + 1] = ClosedTrade(m)
              /\ \A i \in 1 .. Len(btTrades) : btTrades'[i] = btTrades[i]
              /\ ~bypass => \E pnl : risk' = OnTradeClosed(risk, pnl, m.close)
  BY <1>1, CloseMarketFacts
<1>5. \A n \in tape, u \in Nat : Coming(n, u)' => n \in todo /\ Coming(n, u) /\ Enterable(n, u)
  BY <1>2, <1>3 DEF Coming, Enterable
<1>6. \A n \in tape : InRange(n, range) \subseteq Nat
  BY MarketFacts DEF ReplayTypes
<1>7. LetIn'
  BY <1>3 DEF LetIn
<1>8. CASE position = Flat
  <2>1. UNCHANGED <<btTrades, risk>>
    BY <1>4, <1>8
  <2>2. Ahead'
    BY <1>2, <1>5, <1>6, <2>1, SameTrades DEF Ahead, Honest
  <2>3. Known'
    BY <2>1, SameTrades DEF Known, Honest
  <2>. QED
    BY <1>7, <2>1, <2>2, <2>3, SameTrades DEF Honest
<1>9. CASE position # Flat
  <2>1. PICK pnl : risk' = OnTradeClosed(risk, pnl, m.close)
    BY <1>4, <1>9
  <2>2. PICK t \in TradeType : t = ClosedTrade(m)
    BY <1>4, <1>9
  <2>3. PICK n \in Nat : n = Len(btTrades)
    BY DEF ReplayTypes
  <2>4. PICK p \in Nat : p = position.ts
    BY <1>4, <1>9
  <2>5. PICK c \in Nat : c = m.close
    BY <1>4
  <2>6. /\ btTrades' = Append(btTrades, t) /\ Len(btTrades') = n + 1
        /\ btTrades'[n + 1] = t /\ (\A i \in 1 .. n : btTrades'[i] = btTrades[i]) /\ p <= c
    BY <1>4, <1>9, <2>2, <2>3, <2>4, <2>5
  <2>7. t.m = m /\ t.entry.ts = p /\ t.m.close = c
    BY <2>2, <2>4, <2>5 DEF ClosedTrade
  <2>8. PICK r : r = RiskRollDay(risk, c)
    OBVIOUS
  <2>9. DOMAIN risk = RiskFields
    BY DEF Honest, Known
  <2>10. /\ r.day_key = Day(c)
         /\ Day(c) = risk.day_key => r = risk
         /\ Day(c) # risk.day_key => r.daily_trades = 0
    BY <2>8, <2>9, RollFields
  <2>11. /\ DOMAIN risk' = RiskFields /\ risk'.day_key = Day(c)
         /\ risk'.daily_trades = r.daily_trades + 1 /\ risk'.cooldown_until = c + CooldownSeconds
    BY <2>1, <2>5, <2>8, <2>9, CloseFields
  <2>12. /\ risk.day_key = Day(p) /\ risk.daily_trades < DailyTradeLimit
         /\ \A i \in 1 .. n : EnteredAfter(i, p)
    BY <1>1, <1>9, <2>3, <2>4 DEF LetIn, Honest
  <2>13. Day(c) \in Nat /\ Day(p) \in Nat /\ Day(p) <= Day(c) /\ CooldownSeconds \in Nat /\ DailyTradeLimit \in Nat
    BY <2>6, DayMonotone, RiskConsts
  <2>14. /\ \A i \in 1 .. n : Over(i)' = Over(i) /\ Over(i) \in Nat /\ Day(Over(i)) \in Nat
         /\ \A i : i = n + 1 => Over(i)' = c
    <3>1. \A i \in 1 .. n : Over(i)' = Over(i) /\ Over(i) \in Nat /\ Day(Over(i)) \in Nat
      BY <2>3, <2>6, OverType DEF Over
    <3>. QED
      BY <2>6, <2>7, <3>1 DEF Over
  <2>15. \A i \in 1 .. n + 1 : i \in 1 .. n \/ i = n + 1
    OBVIOUS
  <2>16. \A i \in 1 .. n : Over(i) <= c
    BY <2>6, <2>12, <2>14 DEF EnteredAfter
  <2>17. \A d : ClosedOn(d)' = IF Day(c) = d THEN ClosedOn(d) + 1 ELSE ClosedOn(d)
    <3>1. btTrades \in Seq(TradeType)
      BY DEF ReplayTypes
    <3>2. ASSUME NEW d PROVE ClosedOn(d)' = IF Day(c) = d THEN ClosedOn(d) + 1 ELSE ClosedOn(d)
      <4>1. Cardinality({i \in DOMAIN Append(btTrades, t) : Day(Append(btTrades, t)[i].m.close) = d})
              = IF Day(t.m.close) = d THEN Cardinality({i \in DOMAIN btTrades : Day(btTrades[i].m.close) = d}) + 1
                ELSE Cardinality({i \in DOMAIN btTrades : Day(btTrades[i].m.close) = d})
        BY <3>1, ClosedAppend
      <4>. QED
        BY <2>6, <2>7, <4>1 DEF ClosedOn
    <3>. QED
      BY <3>2
  <2>18. r.daily_trades \in Nat /\ r.daily_trades = ClosedOn(Day(c)) /\ r.daily_trades + 1 <= DailyTradeLimit
    <3>1. risk.daily_trades \in Nat
      BY DEF Known, Honest
    <3>2. CASE Day(c) = risk.day_key
      BY <2>10, <2>12, <2>13, <3>1, <3>2 DEF Known, Honest
    <3>3. CASE Day(c) # risk.day_key
      <4>1. \A i \in 1 .. n : Day(Over(i)) < Day(c)
        BY <2>3, <2>12, <2>13, <2>14, <3>3 DEF Known, Honest
      <4>2. DOMAIN btTrades = 1 .. n /\ btTrades \in Seq(TradeType)
        BY <2>3 DEF ReplayTypes
      <4>3. \A i \in DOMAIN btTrades : Day(btTrades[i].m.close) # Day(c)
        BY <2>13, <2>14, <4>1, <4>2 DEF Over
      <4>4. {i \in DOMAIN btTrades : Day(btTrades[i].m.close) = Day(c)} = {}
        BY <4>3
      <4>5. ClosedOn(Day(c)) = 0
        BY <4>4, FS_EmptySet DEF ClosedOn
      <4>. QED
        BY <2>10, <2>12, <2>13, <3>1, <3>3, <4>5
    <3>. QED
      BY <3>2, <3>3
  <2>19. Ahead'
    <3>1. ASSUME NEW x \in tape, NEW u \in InRange(x, range), Coming(x, u)'
          PROVE  Day(c) <= Day(u) /\ \A i \in 1 .. n + 1 : Over(i)' <= u
      <4>1. u \in Nat /\ x \in todo /\ Enterable(x, u)
        BY <1>5, <1>6, <3>1
      <4>2. c <= u
        BY <1>1, <2>5, <4>1, BehindTheClose
      <4>3. \A i \in 1 .. n + 1 : Over(i)' <= u
        BY <2>14, <2>15, <2>16, <4>1, <4>2
      <4>. QED
        BY <4>1, <4>2, <4>3, DayMonotone
    <3>. QED
      BY <1>2, <2>6, <2>11, <3>1 DEF Ahead
  <2>20. Known'
    <3>1. \A d \in Nat : d = risk'.day_key => risk'.daily_trades = ClosedOn(d)'
      BY <2>11, <2>17, <2>18
    <3>2. \A i \in 1 .. n + 1 : Over(i)' \in Nat /\ Over(i)' <= c
      BY <2>14, <2>15, <2>16
    <3>3. \A i \in 1 .. n + 1 : Day(Over(i)') <= Day(c) /\ Over(i)' + CooldownSeconds <= c + CooldownSeconds
      BY <2>13, <3>2, DayMonotone
    <3>4. risk'.day_key \in Nat /\ risk'.daily_trades \in Nat /\ risk'.cooldown_until \in Nat
      BY <2>11, <2>13, <2>18
    <3>5. \A i \in 1 .. n + 1 : Day(Over(i))' = Day(Over(i)')
      BY DEF Day
    <3>. QED
      BY <2>6, <2>11, <3>1, <3>3, <3>4, <3>5 DEF Known
  <2>21. Spaced'
    <3>1. ASSUME NEW i \in 1 .. n + 1, NEW j \in 1 .. n + 1, i < j
          PROVE  EnteredAfter(i, btTrades[j].entry.ts)'
      <4>1. i \in 1 .. n /\ Over(i)' = Over(i)
        BY <2>14, <3>1
      <4>2. EnteredAfter(i, btTrades'[j].entry.ts)
        <5>1. CASE j \in 1 .. n
          <6>1. btTrades'[j] = btTrades[j]
            BY <2>6, <5>1
          <6>. QED
            BY <2>3, <3>1, <4>1, <5>1, <6>1 DEF Spaced, Honest
        <5>2. CASE j = n + 1
          <6>1. btTrades'[j].entry.ts = p
            BY <2>6, <2>7, <5>2
          <6>. QED
            BY <2>12, <4>1, <6>1
        <5>. QED
          BY <2>15, <5>1, <5>2
      <4>. QED
        BY <4>1, <4>2 DEF EnteredAfter
    <3>2. ASSUME NEW d \in Nat PROVE ClosedOn(d)' <= DailyTradeLimit
      <4>1. ClosedOn(d) <= DailyTradeLimit
        BY DEF Spaced, Honest
      <4>. QED
        BY <2>17, <2>18, <4>1
    <3>. QED
      BY <2>6, <3>1, <3>2 DEF Spaced
  <2>. QED
    BY <1>7, <2>19, <2>20, <2>21 DEF Honest
<1>. QED
  BY <1>8, <1>9

LEMMA ReplayStep ==
    ASSUME ReplayInv, [BacktestNext]_btVars
    PROVE  ReplayInv'
<1>. USE DEF ReplayInv
<1>1. CASE NextMarket
  <2>1. UNCHANGED <<tape, bypass>>
    BY <1>1 DEF NextMarket
  <2>. QED
    BY <1>1, <2>1, NextMarketKeeps, NextMarketHonest DEF Disjoint
<1>2. CASE ReplayTick
  <2>1. UNCHANGED <<tape, bypass>>
    BY <1>2 DEF ReplayTick
  <2>. QED
    BY <1>2, <2>1, ReplayTickKeeps, ReplayTickHonest DEF Disjoint
<1>3. CASE CloseMarket
  <2>1. UNCHANGED <<tape, bypass>>
    BY <1>3 DEF CloseMarket
  <2>. QED
    BY <1>3, <2>1, CloseMarketKeeps, CloseMarketHonest DEF Disjoint
<1>4. CASE UNCHANGED btVars
  <2>. USE <1>4 DEF btVars
  <2>1. \A n : Replaying(n)' <=> Replaying(n)
    BY DEF Replaying
  <2>2. ReplayTypes'
    BY <2>1 DEF ReplayTypes
  <2>3. Holding'
    BY <2>1 DEF Holding, Enterable
  <2>4. Traded'
    BY <2>1 DEF Traded, Kept
  <2>5. ASSUME Honest PROVE Honest'
    <3>1. \A n \in tape, u \in Nat : Coming(n, u)' => Coming(n, u)
      BY <2>1 DEF Coming, Enterable
    <3>2. \A n \in tape : InRange(n, range) \subseteq Nat
      BY MarketFacts DEF ReplayTypes
    <3>3. Ahead'
      BY <2>5, <3>1, <3>2, SameTrades DEF Ahead, Honest
    <3>4. Known'
      BY <2>5, SameTrades DEF Known, Honest
    <3>5. LetIn'
      <4>1. \A i : EnteredAfter(i, position.ts)' <=> EnteredAfter(i, position.ts)
        BY DEF EnteredAfter, Over
      <4>. QED
        BY <2>1, <2>5, <4>1 DEF LetIn, Honest
    <3>. QED
      BY <2>5, <3>3, <3>4, <3>5, SameTrades DEF Honest
  <2>6. (Disjoint /\ ~bypass)' => Disjoint /\ ~bypass
    BY DEF Disjoint
  <2>. QED
    BY <2>2, <2>3, <2>4, <2>5, <2>6
<1>. QED
  BY <1>1, <1>2, <1>3, <1>4 DEF BacktestNext

LEMMA ReplaySafe == ReplayInv => BacktestSound
<1>1. SUFFICES ASSUME ReplayInv PROVE BacktestSound
  OBVIOUS
<1>2. DOMAIN btTrades = 1 .. Len(btTrades)
  BY <1>1 DEF ReplayInv, ReplayTypes
<1>3. \A i \in DOMAIN btTrades : LET t == btTrades[i] IN
          /\ t.entry.ts \in InRange(t.m, range) /\ t.seen <= t.entry.ts /\ t.m.settle # 0
          /\ t.m.settle = t.m.strike => (t.win <=> t.entry.side = "YES_UP")
          /\ \A j \in DOMAIN btTrades : i # j => btTrades[j].m # t.m
  BY <1>1, <1>2 DEF ReplayInv, Traded, Kept
<1>4. ASSUME Disjoint, ~bypass
      PROVE  /\ \A i, j \in DOMAIN btTrades : i < j =>
                   LET left == btTrades[i].m.close  entered == btTrades[j].entry.ts
                   IN  entered >= left /\ (Day(left) = Day(entered) => entered >= left + CooldownSeconds)
             /\ \A i \in DOMAIN btTrades : ClosedOn(Day(btTrades[i].m.close)) <= DailyTradeLimit
  <2>1. Spaced
    BY <1>1, <1>4 DEF ReplayInv, Honest
  <2>2. \A i \in DOMAIN btTrades : Day(btTrades[i].m.close) \in Nat
    BY <1>1, <1>2, OverType DEF ReplayInv, Over
  <2>. QED
    BY <1>2, <2>1, <2>2 DEF Spaced, EnteredAfter, Over
<1>. QED
  BY <1>3, <1>4 DEF BacktestSound

\* For every tape whose entry windows end before the next market has ticks: a
\* trade is entered only when every earlier one is over and cooled down, the
\* limit of a day holds, and a market is traded at most once, inside the range.
THEOREM BacktestSoundHolds == BacktestSpec => []BacktestSound
<1>1. BacktestInit => ReplayInv
  BY ReplayStart, HonestStart DEF ReplayInv
<1>2. ReplayInv /\ [BacktestNext]_btVars => ReplayInv'
  BY ReplayStep
<1>. QED
  BY <1>1, <1>2, ReplaySafe, PTL DEF BacktestSpec

-----------------------------------------------------------------------------
(* The walk-forward: the folds tile the range, and a recommendation is earned. *)

LEMMA Quotient ==
    ASSUME NEW s \in Nat \ {0}, NEW a \in Nat
    PROVE  a = s * (a \div s) + (a % s) /\ a \div s \in Nat
OBVIOUS

LEMMA Multiple ==
    ASSUME NEW s \in Nat \ {0}, NEW q \in Nat
    PROVE  (s * q) % s = 0
OBVIOUS

LEMMA Factor ==
    ASSUME NEW s \in Nat \ {0}, NEW q \in Nat, NEW p \in Nat, s * p <= s * q, s * q < s * p + s
    PROVE  p = q
OBVIOUS

LEMMA Multiples ==
    ASSUME NEW s \in Nat \ {0}, NEW a \in Nat, a % s = 0
    PROVE  \E q \in Nat : a = s * q
<1>. DEFINE q == a \div s
<1>1. a = s * q + (a % s) /\ q \in Nat
  BY Quotient
<1>. HIDE DEF q
<1>2. s * q \in Int
  BY <1>1
<1>3. a = s * q
  BY <1>1, <1>2
<1>. QED
  BY <1>1, <1>3

LEMMA NextMultiple ==
    ASSUME NEW s \in Nat \ {0}, NEW a \in Nat, a % s = 0
    PROVE  (a + s) % s = 0
<1>1. PICK q \in Nat : a = s * q
  BY Multiples
<1>3. a + s = s * (q + 1) /\ q + 1 \in Nat
  BY <1>1
<1>4. (s * (q + 1)) % s = 0
  BY <1>3, Multiple, Zenon
<1>. QED
  BY <1>3, <1>4, Zenon

LEMMA OneMultiple ==
    ASSUME NEW s \in Nat \ {0}, NEW a \in Nat, NEW b \in Nat,
           a % s = 0, b % s = 0, a <= b, b < a + s
    PROVE  a = b
<1>1. PICK p \in Nat : a = s * p
  BY Multiples
<1>2. PICK q \in Nat : b = s * q
  BY Multiples
<1>3. s * p <= s * q /\ s * q < s * p + s
  BY <1>1, <1>2, Zenon
<1>4. p = q
  BY <1>3, Factor, Zenon
<1>. QED
  BY <1>1, <1>2, <1>4, Zenon

PlanType == [to : Nat, isDays : Nat, oosDays : Nat, stepDays : Nat \ {0}]
FoldType == [isFrom : Nat, isTo : Nat, oosFrom : Nat, oosTo : Nat]
ResultType == [auc : 0 .. 100,
               verdict : {"drift", "unstable_aucs", "unvalidated_small_sample", "no_model_auc",
                          "stable", "error"}]

\* The folds so far: every multiple of the step below the anchor, in order.
Tiled ==
    /\ anchor \in Nat /\ anchor % plan.stepDays = 0 /\ folds \in Seq(FoldType)
    /\ \A i \in 1 .. Len(folds) : \E a \in Nat :
          /\ folds[i] = Fold(plan, a) /\ Fits(plan, a)
          /\ a % plan.stepDays = 0 /\ a + plan.stepDays <= anchor
    /\ \A i, j \in 1 .. Len(folds) : i < j => folds[i].isFrom + plan.stepDays <= folds[j].isFrom
    /\ \A a \in Nat : a < anchor /\ a % plan.stepDays = 0 =>
          \E i \in 1 .. Len(folds) : folds[i].isFrom = a
    /\ wfStage # "folds" => ~Fits(plan, anchor)

Earned(s) ==
    s.recommendation = "promote" =>
       /\ wfKind = "ml" /\ s.dominant = "stable" /\ Len(results) >= MinFolds
       /\ 2 * Cardinality({i \in DOMAIN results : results[i].auc >= PromoteAuc})
             >= Cardinality({i \in DOMAIN results : results[i].auc # 0})

Evaluations ==
    /\ results \in Seq(ResultType)
    /\ wfKind # "ml" => \A i \in 1 .. Len(results) : results[i].auc = 0
    /\ wfStage = "evaluate" => folds # << >>
    /\ wfStage \in {"folds", "evaluate"} => summary = NoSummary
    /\ Earned(summary)

\* Past the checks of build_folds the plan is a valid one.
WfRunning == plan \in PlanType /\ Tiled /\ Evaluations
WfInv ==
    IF wfStage \in {"arguments", "raised"}
    THEN /\ plan \in WfPlans /\ anchor = 0 /\ folds = << >> /\ results = << >>
         /\ summary = NoSummary
    ELSE WfRunning

LEMMA FoldFields ==
    ASSUME NEW p \in PlanType, NEW a \in Nat
    PROVE  /\ p.isDays \in Nat /\ p.oosDays \in Nat /\ p.to \in Nat /\ p.stepDays \in Nat \ {0}
           /\ Fold(p, a) \in FoldType /\ Fold(p, a).isFrom = a
           /\ Fold(p, a).oosFrom = a + p.isDays /\ Fold(p, a).oosTo = a + p.isDays + p.oosDays
           /\ Fits(p, a) <=> a + p.isDays + p.oosDays <= p.to
<1>1. p.isDays \in Nat /\ p.oosDays \in Nat /\ p.to \in Nat /\ p.stepDays \in Nat \ {0}
  BY DEF PlanType
<1>. QED
  BY <1>1 DEF Fold, Fits, FoldType

LEMMA WfStart == WfInit => WfInv
BY DEF WfInit, WfInv

LEMMA CheckPlanKeeps ==
    ASSUME WfInv, CheckPlan
    PROVE  WfInv'
<1>1. /\ wfStage = "arguments" /\ plan \in WfPlans /\ anchor = 0 /\ folds = << >>
      /\ results = << >> /\ summary = NoSummary
      /\ UNCHANGED <<plan, wfKind, anchor, folds, results, summary>>
      /\ wfStage' = IF ValidPlan(plan) THEN "folds" ELSE "raised"
  BY DEF CheckPlan, WfInv
<1>2. CASE ~ValidPlan(plan)
  BY <1>1, <1>2 DEF WfInv
<1>3. CASE ValidPlan(plan)
  <2>1. plan \in PlanType /\ plan.stepDays \in Nat \ {0}
    BY <1>1, <1>3, WfAssumption DEF ValidPlan, PlanType
  <2>2. 0 % plan.stepDays = 0
    <3>1. \A s \in Nat \ {0} : 0 % s = 0
      OBVIOUS
    <3>. QED
      BY <2>1, <3>1
  <2>3. << >> \in Seq(FoldType) /\ << >> \in Seq(ResultType) /\ Len(<< >>) = 0
    BY EmptySeq
  <2>4. wfStage' = "folds"
    BY <1>1, <1>3
  <2>5. Tiled'
    BY <1>1, <2>2, <2>3, <2>4 DEF Tiled
  <2>6. Evaluations'
    BY <1>1, <2>3, <2>4 DEF Evaluations, Earned, NoSummary
  <2>. QED
    BY <1>1, <2>1, <2>4, <2>5, <2>6 DEF WfInv, WfRunning
<1>. QED
  BY <1>2, <1>3

LEMMA BuildFoldsKeeps ==
    ASSUME WfRunning, BuildFolds
    PROVE  WfRunning'
<1>1. plan \in PlanType /\ wfStage = "folds" /\ UNCHANGED <<plan, wfKind, results, summary>>
  BY DEF BuildFolds, WfRunning
<1>2. PICK p \in PlanType : p = plan
  BY <1>1
<1>3. PICK a \in Nat : a = anchor
  BY DEF WfRunning, Tiled
<1>4. Evaluations'
  <2>1. Earned(summary)'
    BY <1>1 DEF WfRunning, Evaluations, Earned
  <2>2. results' \in Seq(ResultType) /\ (wfKind' # "ml" => \A i \in 1 .. Len(results') : results'[i].auc = 0)
        /\ summary' = NoSummary
    BY <1>1 DEF WfRunning, Evaluations
  <2>3. wfStage' = "evaluate" => folds' # << >>
    BY <1>1 DEF BuildFolds
  <2>. QED
    BY <2>1, <2>2, <2>3 DEF Evaluations
<1>5. CASE ~Fits(plan, anchor)
  <2>1. UNCHANGED <<folds, anchor>>
    BY <1>5 DEF BuildFolds
  <2>2. Tiled'
    BY <1>1, <1>5, <2>1 DEF WfRunning, Tiled, Fits, Fold
  <2>. QED
    BY <1>1, <1>4, <2>2 DEF WfRunning
<1>6. CASE Fits(plan, anchor)
  <2>1. /\ p.isDays \in Nat /\ p.oosDays \in Nat /\ p.to \in Nat /\ p.stepDays \in Nat \ {0}
        /\ Fold(p, a) \in FoldType /\ Fold(p, a).isFrom = a
    BY FoldFields
  <2>2. PICK f \in FoldType : f = Fold(p, a)
    BY <2>1
  <2>3. PICK s \in Nat \ {0} : s = p.stepDays
    BY <2>1
  <2>4. PICK n \in Nat : n = Len(folds)
    BY DEF WfRunning, Tiled
  <2>5. folds' = Append(folds, f) /\ anchor' = a + s /\ wfStage' = "folds"
    BY <1>1, <1>2, <1>3, <1>6, <2>2, <2>3 DEF BuildFolds
  <2>6. folds \in Seq(FoldType)
    BY DEF WfRunning, Tiled
  <2>7. /\ folds' \in Seq(FoldType) /\ Len(folds') = n + 1 /\ folds'[n + 1] = f
        /\ \A i \in 1 .. n : folds'[i] = folds[i]
    BY <2>4, <2>5, <2>6, AppendProperties
  <2>8. a % s = 0 /\ (a + s) % s = 0
    BY <1>2, <1>3, <2>3, NextMultiple DEF WfRunning, Tiled
  <2>9. \A i \in 1 .. n + 1 : i \in 1 .. n \/ i = n + 1
    OBVIOUS
  <2>10. ASSUME NEW i \in 1 .. n
         PROVE  /\ \E b \in Nat : /\ folds[i] = Fold(p, b) /\ Fits(p, b)
                                  /\ b % s = 0 /\ b + s <= a
                /\ folds[i].isFrom \in Nat /\ folds[i].isFrom + s <= a
    <3>1. PICK b \in Nat : /\ folds[i] = Fold(p, b) /\ Fits(p, b) /\ b % s = 0 /\ b + s <= a
      BY <1>2, <1>3, <2>3, <2>4 DEF WfRunning, Tiled
    <3>2. folds[i].isFrom = b
      BY <3>1, FoldFields
    <3>. QED
      BY <3>1, <3>2
  <2>11. \A i \in 1 .. n + 1 : \E b \in Nat :
            /\ folds'[i] = Fold(p, b) /\ Fits(p, b) /\ b % s = 0 /\ b + s <= a + s
    <3>1. \A b \in Nat : b + s <= a => b + s <= a + s
      OBVIOUS
    <3>2. ASSUME NEW i \in 1 .. n
          PROVE  \E b \in Nat : /\ folds'[i] = Fold(p, b) /\ Fits(p, b) /\ b % s = 0 /\ b + s <= a + s
      BY <2>7, <2>10, <3>1
    <3>3. Fits(p, a) /\ a + s <= a + s
      BY <1>2, <1>3, <1>6
    <3>4. ASSUME NEW i \in 1 .. n + 1, i = n + 1
          PROVE  \E b \in Nat : /\ folds'[i] = Fold(p, b) /\ Fits(p, b) /\ b % s = 0 /\ b + s <= a + s
      BY <2>2, <2>7, <2>8, <3>3, <3>4
    <3>. QED
      BY <2>9, <3>2, <3>4
  <2>12. \A i, j \in 1 .. n + 1 : i < j => folds'[i].isFrom + s <= folds'[j].isFrom
    <3>1. SUFFICES ASSUME NEW i \in 1 .. n + 1, NEW j \in 1 .. n + 1, i < j
                   PROVE  folds'[i].isFrom + s <= folds'[j].isFrom
      OBVIOUS
    <3>2. i \in 1 .. n /\ folds'[i] = folds[i]
      BY <2>7, <3>1
    <3>3. CASE j \in 1 .. n
      BY <1>2, <2>3, <2>4, <2>7, <3>1, <3>2, <3>3 DEF WfRunning, Tiled
    <3>4. CASE j = n + 1
      <4>1. folds'[j].isFrom = a
        BY <2>1, <2>2, <2>7, <3>4
      <4>. QED
        BY <2>10, <3>2, <4>1
    <3>. QED
      BY <2>9, <3>3, <3>4
  <2>13. ASSUME NEW b \in Nat, b < a + s, b % s = 0
         PROVE  \E i \in 1 .. n + 1 : folds'[i].isFrom = b
    <3>1. CASE b < a
      <4>1. PICK i \in 1 .. n : folds[i].isFrom = b
        BY <1>2, <1>3, <2>3, <2>4, <2>13, <3>1 DEF WfRunning, Tiled
      <4>2. i \in 1 .. n + 1 /\ folds'[i].isFrom = b
        BY <2>7, <4>1
      <4>. QED
        BY <4>2
    <3>2. CASE a <= b
      <4>1. a = b
        BY <2>8, <2>13, <3>2, OneMultiple
      <4>2. n + 1 \in 1 .. n + 1 /\ folds'[n + 1].isFrom = b
        BY <2>1, <2>2, <2>7, <4>1
      <4>. QED
        BY <4>2
    <3>. QED
      BY <3>1, <3>2
  <2>14. Tiled'
    <3>1. plan' = p /\ plan'.stepDays = s /\ anchor' = a + s /\ Len(folds') = n + 1
      BY <1>1, <1>2, <2>3, <2>5, <2>7
    <3>2. a + s \in Nat
      OBVIOUS
    <3>3. \A i \in 1 .. Len(folds') : \E b \in Nat :
             /\ folds'[i] = Fold(plan', b) /\ Fits(plan', b)
             /\ b % plan'.stepDays = 0 /\ b + plan'.stepDays <= anchor'
      BY <2>11, <3>1
    <3>4. \A i, j \in 1 .. Len(folds') : i < j => folds'[i].isFrom + plan'.stepDays <= folds'[j].isFrom
      BY <2>12, <3>1
    <3>5. \A b \in Nat : b < anchor' /\ b % plan'.stepDays = 0 =>
             \E i \in 1 .. Len(folds') : folds'[i].isFrom = b
      BY <2>13, <3>1
    <3>6. anchor' \in Nat /\ anchor' % plan'.stepDays = 0 /\ folds' \in Seq(FoldType) /\ wfStage' = "folds"
      BY <2>5, <2>7, <2>8, <3>1, <3>2
    <3>. QED
      BY <3>3, <3>4, <3>5, <3>6, Zenon DEF Tiled
  <2>. QED
    BY <1>1, <1>4, <2>14 DEF WfRunning
<1>. QED
  BY <1>5, <1>6

\* The folds part of what a walk-forward promises.
LEMMA TilesRange ==
    ASSUME WfRunning, wfStage \notin {"arguments", "raised", "folds"}
    PROVE  /\ {folds[i].isFrom : i \in DOMAIN folds} =
                {a \in 0 .. plan.to : a % plan.stepDays = 0 /\ a + plan.isDays + plan.oosDays <= plan.to}
           /\ \A i, j \in DOMAIN folds : i < j /\ plan.stepDays >= plan.oosDays => folds[i].oosTo <= folds[j].oosFrom
           /\ \A i \in DOMAIN folds :
                LET one == [plan EXCEPT !.to = folds[i].oosTo]
                IN  Fits(one, folds[i].isFrom) /\ ~Fits(one, folds[i].isFrom + (IF plan.oosDays > 1 THEN plan.oosDays ELSE 1))
<1>1. plan \in PlanType /\ DOMAIN folds = 1 .. Len(folds) /\ anchor \in Nat
  BY DEF WfRunning, Tiled
<1>2. plan.isDays \in Nat /\ plan.oosDays \in Nat /\ plan.to \in Nat /\ plan.stepDays \in Nat \ {0}
  BY <1>1, FoldFields
<1>3. ASSUME NEW i \in DOMAIN folds
      PROVE  LET a == folds[i].isFrom
             IN  /\ a \in Nat /\ a % plan.stepDays = 0 /\ a + plan.isDays + plan.oosDays <= plan.to
                 /\ folds[i].oosFrom = a + plan.isDays /\ folds[i].oosTo = a + plan.isDays + plan.oosDays
  <2>1. PICK b \in Nat : folds[i] = Fold(plan, b) /\ Fits(plan, b) /\ b % plan.stepDays = 0
    BY <1>1 DEF WfRunning, Tiled
  <2>2. /\ folds[i].isFrom = b /\ folds[i].oosFrom = b + plan.isDays
        /\ folds[i].oosTo = b + plan.isDays + plan.oosDays /\ b + plan.isDays + plan.oosDays <= plan.to
    <3>1. /\ Fold(plan, b).isFrom = b /\ Fold(plan, b).oosFrom = b + plan.isDays
          /\ Fold(plan, b).oosTo = b + plan.isDays + plan.oosDays
          /\ Fits(plan, b) <=> b + plan.isDays + plan.oosDays <= plan.to
      BY <1>1, FoldFields
    <3>. QED
      BY <2>1, <3>1
  <2>. QED
    BY <2>1, <2>2
<1>4. {folds[i].isFrom : i \in DOMAIN folds} =
         {a \in 0 .. plan.to : a % plan.stepDays = 0 /\ a + plan.isDays + plan.oosDays <= plan.to}
  <2>1. ASSUME NEW i \in DOMAIN folds
        PROVE  folds[i].isFrom \in {a \in 0 .. plan.to : a % plan.stepDays = 0 /\ a + plan.isDays + plan.oosDays <= plan.to}
    BY <1>2, <1>3
  <2>2. ASSUME NEW a \in 0 .. plan.to, a % plan.stepDays = 0, a + plan.isDays + plan.oosDays <= plan.to
        PROVE  \E i \in DOMAIN folds : folds[i].isFrom = a
    <3>1. ~(anchor + plan.isDays + plan.oosDays <= plan.to)
      BY <1>1, FoldFields DEF WfRunning, Tiled
    <3>2. a \in Nat /\ a < anchor
      BY <1>1, <1>2, <2>2, <3>1
    <3>. QED
      BY <1>1, <2>2, <3>2 DEF WfRunning, Tiled
  <2>. QED
    BY <2>1, <2>2
<1>5. ASSUME NEW i \in DOMAIN folds, NEW j \in DOMAIN folds, i < j, plan.stepDays >= plan.oosDays
      PROVE  folds[i].oosTo <= folds[j].oosFrom
  <2>1. folds[i].isFrom + plan.stepDays <= folds[j].isFrom
    BY <1>1, <1>5 DEF WfRunning, Tiled
  <2>. QED
    BY <1>2, <1>3, <1>5, <2>1
<1>6. ASSUME NEW i \in DOMAIN folds
      PROVE  LET one == [plan EXCEPT !.to = folds[i].oosTo]
             IN  Fits(one, folds[i].isFrom) /\ ~Fits(one, folds[i].isFrom + (IF plan.oosDays > 1 THEN plan.oosDays ELSE 1))
  <2>. DEFINE one == [plan EXCEPT !.to = folds[i].oosTo]
              a == folds[i].isFrom
              k == IF plan.oosDays > 1 THEN plan.oosDays ELSE 1
  <2>a. a \in Nat /\ folds[i].oosTo = a + plan.isDays + plan.oosDays
    BY <1>3
  <2>b. k \in Nat \ {0}
    BY <1>2
  <2>1. a \in Nat /\ folds[i].oosTo = a + plan.isDays + plan.oosDays /\ k \in Nat \ {0} /\ a + k \in Nat
    <3>. HIDE DEF a, k
    <3>. QED
      BY <2>a, <2>b
  <2>2. one \in PlanType /\ one.to = folds[i].oosTo /\ one.isDays = plan.isDays /\ one.oosDays = plan.oosDays
    <3>1. folds[i].oosTo \in Nat
      BY <1>2, <2>1
    <3>. QED
      BY <1>1, <3>1 DEF PlanType
  <2>. HIDE DEF one, a, k
  <2>3. Fits(one, a) <=> a + one.isDays + one.oosDays <= one.to
    BY <2>1, <2>2, FoldFields
  <2>4. Fits(one, a + k) <=> a + k + one.isDays + one.oosDays <= one.to
    BY <2>1, <2>2, FoldFields
  <2>5. Fits(one, a) /\ ~Fits(one, a + k)
    BY <1>2, <2>1, <2>2, <2>3, <2>4
  <2>. QED
    BY <2>5 DEF one, a, k
<1>. QED
  BY <1>4, <1>5, <1>6

\* Two disjoint sets of positions.
LEMMA DisjointParts ==
    ASSUME NEW n \in Nat, NEW A \in SUBSET (1 .. n), NEW B \in SUBSET (1 .. n), A \cap B = {}
    PROVE  /\ IsFiniteSet(A) /\ Cardinality(A) \in Nat /\ Cardinality(B) \in Nat
           /\ Cardinality(A) + Cardinality(B) <= n
           /\ Cardinality(A \union B) = Cardinality(A) + Cardinality(B)
<1>1. IsFiniteSet(1 .. n) /\ Cardinality(1 .. n) = n
  <2>1. IsFiniteSet(1 .. n)
    BY FS_Interval
  <2>2. Cardinality(1 .. n) = IF 1 > n THEN 0 ELSE n - 1 + 1
    BY FS_Interval
  <2>. QED
    BY <2>1, <2>2
<1>2. IsFiniteSet(A) /\ IsFiniteSet(B)
  BY <1>1, FS_Subset
<1>3. Cardinality(A) \in Nat /\ Cardinality(B) \in Nat /\ Cardinality(A \cap B) = 0
  BY <1>2, FS_CardinalityType, FS_EmptySet
<1>4. Cardinality(A \union B) = Cardinality(A) + Cardinality(B) - Cardinality(A \cap B)
  BY <1>2, FS_Union
<1>5. PICK C \in SUBSET (1 .. n) : C = A \union B
  OBVIOUS
<1>6. Cardinality(C) <= n
  BY <1>1, FS_Subset
<1>. QED
  BY <1>2, <1>3, <1>4, <1>5, <1>6

\* A verdict of three folds in four is the dominant one.
LEMMA StableDominates ==
    ASSUME NEW rs \in Seq(ResultType), rs # << >>, 4 * Verdicts(rs, "stable") >= 3 * Len(rs)
    PROVE  Dominant(rs) = "stable"
<1>1. PICK n \in Nat \ {0} : n = Len(rs) /\ DOMAIN rs = 1 .. n
  <2>1. Len(rs) \in Nat /\ DOMAIN rs = 1 .. Len(rs) /\ Len(rs) # 0
    BY EmptySeq
  <2>. QED
    BY <2>1
<1>2. DOMAIN Worse = 1 .. 6 /\ Worse[5] = "stable" /\ \A j \in 1 .. 6 : j # 5 => Worse[j] # "stable"
  BY DEF Worse
<1>3. ASSUME NEW v, v # "stable"
      PROVE  /\ Verdicts(rs, v) \in Nat /\ Verdicts(rs, "stable") \in Nat
             /\ Verdicts(rs, v) < Verdicts(rs, "stable")
  <2>. DEFINE A == {i \in DOMAIN rs : rs[i].verdict = v}
              B == {i \in DOMAIN rs : rs[i].verdict = "stable"}
  <2>1. A \in SUBSET (1 .. n) /\ B \in SUBSET (1 .. n) /\ A \cap B = {}
    BY <1>1, <1>3
  <2>2. Verdicts(rs, v) = Cardinality(A) /\ Verdicts(rs, "stable") = Cardinality(B)
    BY DEF Verdicts
  <2>. HIDE DEF A, B
  <2>3. Cardinality(A) \in Nat /\ Cardinality(B) \in Nat /\ Cardinality(A) + Cardinality(B) <= n
    BY <2>1, DisjointParts
  <2>4. 4 * Cardinality(B) >= 3 * n
    BY <1>1, <2>2
  <2>. QED
    BY <2>2, <2>3, <2>4
<1>4. Verdicts(rs, "stable") \in Nat
  <2>1. "drift" # "stable"
    OBVIOUS
  <2>. QED
    BY <1>3, <2>1
<1>5. \A i \in DOMAIN Worse : Most(rs, i) <=> i = 5
  <2>1. ASSUME NEW j \in DOMAIN Worse, j # 5
        PROVE  /\ Verdicts(rs, Worse[j]) \in Nat /\ Verdicts(rs, Worse[5]) \in Nat
               /\ Verdicts(rs, Worse[j]) < Verdicts(rs, Worse[5])
    BY <1>2, <1>3, <2>1
  <2>2. Verdicts(rs, Worse[5]) <= Verdicts(rs, Worse[5]) /\ 5 \in DOMAIN Worse
    BY <1>2, <1>4
  <2>3. Most(rs, 5)
    BY <2>1, <2>2 DEF Most
  <2>4. ASSUME NEW i \in DOMAIN Worse, i # 5 PROVE ~Most(rs, i)
    BY <2>1, <2>2, <2>4 DEF Most
  <2>. QED
    BY <2>3, <2>4
<1>6. \A i \in DOMAIN Worse : (Most(rs, i) /\ \A j \in 1 .. i - 1 : ~Most(rs, j)) <=> i = 5
  <2>1. 5 \in DOMAIN Worse /\ \A j \in 1 .. 5 - 1 : j \in DOMAIN Worse /\ j # 5
    BY <1>2
  <2>. QED
    BY <1>5, <2>1
<1>7. (CHOOSE i \in DOMAIN Worse : Most(rs, i) /\ \A j \in 1 .. i - 1 : ~Most(rs, j)) = 5
  <2>1. 5 \in DOMAIN Worse
    BY <1>2
  <2>. QED
    BY <1>6, <2>1
<1>. QED
  BY <1>2, <1>7 DEF Dominant

LEMMA UpToFacts ==
    ASSUME NEW rs \in Seq(ResultType)
    PROVE  /\ Len(rs) \in Nat /\ DOMAIN rs = 1 .. Len(rs)
           /\ \A i \in DOMAIN rs : rs[i].auc \in 0 .. 100
           /\ \A i \in Measured(rs) : rs[i].auc \in 1 .. 100
           /\ Measured(rs) \in SUBSET (1 .. Len(rs)) /\ IsFiniteSet(Measured(rs))
           /\ Cardinality(Measured(rs)) \in Nat
           /\ \A v : UpTo(rs, v) \subseteq Measured(rs)
           /\ \A v : Cardinality(UpTo(rs, v)) \in Nat
<1>1. Len(rs) \in Nat /\ DOMAIN rs = 1 .. Len(rs) /\ \A i \in DOMAIN rs : rs[i] \in ResultType
  OBVIOUS
<1>2. \A i \in DOMAIN rs : rs[i].auc \in 0 .. 100
  BY <1>1 DEF ResultType
<1>3. Measured(rs) \in SUBSET (1 .. Len(rs)) /\ \A v : UpTo(rs, v) \subseteq Measured(rs)
  BY <1>1 DEF Measured, UpTo
<1>4. \A n \in Nat : IsFiniteSet(1 .. n)
  BY FS_Interval
<1>5. IsFiniteSet(Measured(rs))
  BY <1>1, <1>3, <1>4, FS_Subset
<1>6. \A v : IsFiniteSet(UpTo(rs, v))
  BY <1>3, <1>5, FS_Subset
<1>7. \A i \in Measured(rs) : rs[i].auc \in 1 .. 100
  <2>1. \A a \in 0 .. 100 : a # 0 => a \in 1 .. 100
    OBVIOUS
  <2>. QED
    BY <1>2, <2>1 DEF Measured
<1>. QED
  BY <1>1, <1>2, <1>7, <1>3, <1>5, <1>6, FS_CardinalityType

\* Every rank is held by a measured value.
LEMMA RankHeld ==
    ASSUME NEW rs \in Seq(ResultType), NEW k \in 1 .. Cardinality(Measured(rs))
    PROVE  /\ Ranked(rs, k) \in 1 .. 100
           /\ Cardinality(UpTo(rs, Ranked(rs, k) - 1)) < k /\ k <= Cardinality(UpTo(rs, Ranked(rs, k)))
<1>. DEFINE S == {v \in Nat : k <= Cardinality(UpTo(rs, v))}
<1>0. \A i \in Measured(rs) : rs[i].auc \in Nat /\ rs[i].auc <= 100 /\ ~(rs[i].auc <= 0)
  <2>1. \A i \in Measured(rs) : rs[i].auc \in 1 .. 100
    BY UpToFacts
  <2>2. \A a \in 1 .. 100 : a \in Nat /\ a <= 100 /\ ~(a <= 0)
    OBVIOUS
  <2>. QED
    BY <2>1, <2>2, Zenon
<1>1. k \in Nat /\ k >= 1 /\ k <= Cardinality(Measured(rs))
  BY UpToFacts
<1>2. 100 \in S
  <2>1. UpTo(rs, 100) = Measured(rs)
    <3>1. \A i \in Measured(rs) : rs[i].auc <= 100
      BY <1>0, Zenon
    <3>. QED
      BY <3>1 DEF UpTo
  <2>. QED
    BY <1>1, <2>1
<1>3. S \subseteq Nat /\ S # {}
  BY <1>2
<1>4. PICK v \in S : \A w \in S : v <= w
  <2>. HIDE DEF S
  <2>. QED
    BY <1>3, LeastOf
<1>5. v \in Nat /\ k <= Cardinality(UpTo(rs, v))
  OBVIOUS
<1>6. 0 \notin S
  <2>1. UpTo(rs, 0) = {}
    <3>1. \A i \in Measured(rs) : ~(rs[i].auc <= 0)
      BY <1>0, Zenon
    <3>. QED
      BY <3>1 DEF UpTo
  <2>2. Cardinality(UpTo(rs, 0)) = 0
    BY <2>1, FS_EmptySet
  <2>. QED
    BY <1>1, <2>2
<1>7. v >= 1 /\ v - 1 \in Nat /\ v - 1 \notin S
  <2>1. v # 0
    BY <1>6
  <2>2. v >= 1 /\ v - 1 \in Nat /\ ~(v <= v - 1)
    BY <1>5, <2>1
  <2>. QED
    BY <1>4, <2>2
<1>8. Cardinality(UpTo(rs, v - 1)) < k
  <2>1. ~(k <= Cardinality(UpTo(rs, v - 1))) /\ Cardinality(UpTo(rs, v - 1)) \in Nat
    BY <1>7, UpToFacts
  <2>. QED
    BY <1>1, <2>1
<1>9. PICK i \in Measured(rs) : rs[i].auc = v
  <2>1. UpTo(rs, v) # UpTo(rs, v - 1)
    <3>1. Cardinality(UpTo(rs, v)) \in Nat /\ Cardinality(UpTo(rs, v - 1)) \in Nat
      BY UpToFacts
    <3>. QED
      BY <1>1, <1>5, <1>8, <3>1
  <2>2. \A i \in Measured(rs) : rs[i].auc \in Nat
    BY <1>0, Zenon
  <2>3. \A a \in Nat : a <= v - 1 => a <= v
    BY <1>5
  <2>4. \A a \in Nat : a <= v /\ ~(a <= v - 1) => a = v
    BY <1>5
  <2>5. PICK i \in Measured(rs) : rs[i].auc <= v /\ ~(rs[i].auc <= v - 1)
    BY <2>1, <2>2, <2>3 DEF UpTo
  <2>. QED
    BY <2>2, <2>4, <2>5
<1>. DEFINE Values == {rs[x].auc : x \in Measured(rs)}
            Holds(x) == Cardinality(UpTo(rs, x - 1)) < k /\ k <= Cardinality(UpTo(rs, x))
<1>10. v \in Values /\ Holds(v)
  BY <1>5, <1>8, <1>9
<1>11. Ranked(rs, k) = CHOOSE x \in Values : Holds(x)
  BY DEF Ranked
<1>12. Values \subseteq 1 .. 100
  BY UpToFacts
<1>. HIDE DEF Values
<1>13. Ranked(rs, k) \in Values /\ Holds(Ranked(rs, k))
  BY <1>10, <1>11, Zenon
<1>. QED
  BY <1>12, <1>13

\* Half of the measured folds reach an AUC that the median reaches.
LEMMA MedianHalf ==
    ASSUME NEW rs \in Seq(ResultType), Median2(rs) >= 2 * PromoteAuc
    PROVE  /\ Measured(rs) # {}
           /\ 2 * Cardinality({i \in DOMAIN rs : rs[i].auc >= PromoteAuc})
                 >= Cardinality({i \in DOMAIN rs : rs[i].auc # 0})
<1>1. PromoteAuc \in Nat /\ PromoteAuc >= 1
  <2>1. \A a \in 1 .. 100 : a \in Nat /\ a >= 1
    OBVIOUS
  <2>. QED
    BY <2>1, WfAssumption
<1>2. PICK n \in Nat : n = Cardinality(Measured(rs))
  BY UpToFacts
<1>3. n # 0
  <2>1. Median2(rs) # 0
    BY <1>1
  <2>. QED
    BY <1>2, <2>1 DEF Median2
<1>4. PICK lo : lo = Ranked(rs, (n + 1) \div 2)
  OBVIOUS
<1>5. PICK hi : hi = Ranked(rs, n \div 2 + 1)
  OBVIOUS
<1>6. lo + hi >= 2 * PromoteAuc
  BY <1>2, <1>3, <1>4, <1>5 DEF Median2
<1>7. PICK k \in Nat : k = n \div 2 /\ 2 * k <= n
  <2>1. n \div 2 \in Nat /\ 2 * (n \div 2) <= n
    BY <1>2
  <2>. QED
    BY <2>1
<1>8. (n + 1) \div 2 \in 1 .. n /\ k + 1 \in 1 .. n /\ (n + 1) \div 2 <= k + 1
  BY <1>2, <1>3, <1>7
<1>9. \A x \in 1 .. 100 : x \in Nat /\ x >= 1 /\ x - 1 \in Nat
  OBVIOUS
<1>10. /\ lo \in 1 .. 100 /\ hi \in 1 .. 100
       /\ Cardinality(UpTo(rs, lo - 1)) < (n + 1) \div 2
       /\ Cardinality(UpTo(rs, hi - 1)) < k + 1 /\ k + 1 <= Cardinality(UpTo(rs, hi))
  BY <1>2, <1>4, <1>5, <1>7, <1>8, RankHeld
<1>11. lo \in Nat /\ hi \in Nat /\ hi >= 1 /\ lo - 1 \in Nat /\ hi - 1 \in Nat
  BY <1>9, <1>10
<1>12. \A i \in Measured(rs) : rs[i].auc \in Nat
  BY <1>9, UpToFacts, Zenon
<1>13. lo <= hi
  <2>1. SUFFICES ASSUME hi <= lo - 1 PROVE FALSE
    BY <1>11
  <2>2. \A a \in Nat : a <= hi => a <= lo - 1
    BY <1>11, <2>1
  <2>3. UpTo(rs, hi) \subseteq UpTo(rs, lo - 1)
    BY <1>12, <2>2, Zenon DEF UpTo
  <2>4. IsFiniteSet(UpTo(rs, lo - 1))
    BY UpToFacts, FS_Subset
  <2>5. Cardinality(UpTo(rs, hi)) <= Cardinality(UpTo(rs, lo - 1))
    BY <2>3, <2>4, FS_Subset
  <2>6. Cardinality(UpTo(rs, hi)) \in Nat /\ Cardinality(UpTo(rs, lo - 1)) \in Nat
    BY UpToFacts
  <2>7. PICK x \in Nat, y \in Nat : x = Cardinality(UpTo(rs, hi)) /\ y = Cardinality(UpTo(rs, lo - 1))
    BY <2>6
  <2>8. PICK h \in Nat : h = (n + 1) \div 2
    BY <1>8
  <2>9. k + 1 <= x /\ x <= y /\ y < h /\ h <= k + 1
    BY <1>8, <1>10, <2>5, <2>7, <2>8
  <2>. QED
    BY <2>9
<1>14. hi >= PromoteAuc
  BY <1>1, <1>6, <1>11, <1>13
<1>. DEFINE B == UpTo(rs, hi - 1)
            G == {i \in DOMAIN rs : rs[i].auc >= PromoteAuc}
            H == Measured(rs) \ B
<1>15. Cardinality(H) = n - Cardinality(B)
  <2>1. IsFiniteSet(Measured(rs)) /\ B \subseteq Measured(rs)
    BY UpToFacts
  <2>2. Measured(rs) \cap B = B
    BY <2>1
  <2>. QED
    BY <1>2, <2>1, <2>2, FS_Difference
<1>16. H \subseteq G
  <2>1. ASSUME NEW i \in H PROVE i \in DOMAIN rs /\ rs[i].auc >= PromoteAuc
    <3>1. i \in DOMAIN rs /\ i \in Measured(rs) /\ ~(rs[i].auc <= hi - 1)
      BY DEF Measured, UpTo
    <3>2. \A a \in Nat : ~(a <= hi - 1) => a >= PromoteAuc
      BY <1>1, <1>11, <1>14
    <3>. QED
      BY <1>12, <3>1, <3>2, Zenon
  <2>. QED
    BY <2>1
<1>17. IsFiniteSet(G) /\ Cardinality(G) \in Nat
  <2>1. \A x \in Nat : IsFiniteSet(1 .. x)
    BY FS_Interval
  <2>2. IsFiniteSet(DOMAIN rs)
    BY <2>1, UpToFacts
  <2>3. G \subseteq DOMAIN rs
    OBVIOUS
  <2>. HIDE DEF G
  <2>. QED
    BY <2>2, <2>3, FS_Subset, FS_CardinalityType
<1>18. Cardinality(B) \in Nat /\ Cardinality(B) <= k
  <2>1. Cardinality(B) \in Nat /\ Cardinality(B) < k + 1
    BY <1>10, UpToFacts
  <2>. QED
    BY <1>7, <2>1
<1>. HIDE DEF G, H, B
<1>19. Cardinality(H) <= Cardinality(G)
  BY <1>16, <1>17, FS_Subset
<1>20. 2 * Cardinality(G) >= n
  BY <1>2, <1>7, <1>15, <1>17, <1>18, <1>19
<1>21. Measured(rs) # {}
  BY <1>2, <1>3, FS_EmptySet
<1>. QED
  BY <1>2, <1>20, <1>21 DEF G, Measured

LEMMA EvaluateFoldKeeps ==
    ASSUME WfRunning, EvaluateFold
    PROVE  WfRunning'
<1>1. wfStage = "evaluate" /\ UNCHANGED <<plan, wfKind, anchor, folds, wfStage, summary>>
  BY DEF EvaluateFold
<1>2. PICK r \in {FoldError} \union (IF wfKind = "ml" THEN EvalMl
                                     ELSE IF wfKind = "hmm" THEN EvalHmm ELSE EvalRules) :
         results' = Append(results, r)
  BY DEF EvaluateFold
<1>3. \A a, b, enough : ClassifyFold(a, b, enough) \in
         {"drift", "unstable_aucs", "unvalidated_small_sample", "no_model_auc", "stable", "error"}
  BY DEF ClassifyFold
<1>4. r \in ResultType /\ (wfKind # "ml" => r.auc = 0)
  <2>1. AucValues \union {0} \subseteq 0 .. 100
    <3>1. \A a \in 1 .. 100 : a \in 0 .. 100
      OBVIOUS
    <3>. QED
      BY <3>1, WfAssumption
  <2>2. EvalMl \subseteq ResultType
    BY <1>3, <2>1 DEF EvalMl, ResultType
  <2>3. 0 \in 0 .. 100
    OBVIOUS
  <2>4. \A x \in EvalHmm : x \in ResultType /\ x.auc = 0
    BY <1>3, <2>3 DEF EvalHmm, ResultType
  <2>5. \A x \in EvalRules : x \in ResultType /\ x.auc = 0
    <3>1. PICK v : v = ClassifyFold(0, 0, FALSE)
      OBVIOUS
    <3>2. v \in {"drift", "unstable_aucs", "unvalidated_small_sample", "no_model_auc", "stable", "error"}
      BY <1>3, <3>1, Zenon
    <3>3. EvalRules = {[auc |-> 0, verdict |-> v]}
      BY <3>1, Zenon DEF EvalRules
    <3>. QED
      BY <2>3, <3>2, <3>3 DEF ResultType
  <2>6. FoldError \in ResultType /\ FoldError.auc = 0
    BY <2>3 DEF FoldError, ResultType
  <2>. QED
    BY <1>2, <2>2, <2>4, <2>5, <2>6
<1>5. results \in Seq(ResultType) /\ (wfKind # "ml" => \A i \in 1 .. Len(results) : results[i].auc = 0)
  BY DEF WfRunning, Evaluations
<1>6. PICK n \in Nat : n = Len(results)
  BY <1>5
<1>7. /\ results' \in Seq(ResultType) /\ Len(results') = n + 1 /\ results'[n + 1] = r
      /\ \A i \in 1 .. n : results'[i] = results[i]
  BY <1>2, <1>4, <1>5, <1>6, AppendProperties
<1>8. wfKind # "ml" => \A i \in 1 .. n + 1 : results'[i].auc = 0
  <2>1. \A i \in 1 .. n + 1 : i \in 1 .. n \/ i = n + 1
    OBVIOUS
  <2>. QED
    BY <1>4, <1>5, <1>6, <1>7, <2>1
<1>9. folds # << >> /\ summary = NoSummary
  BY <1>1 DEF WfRunning, Evaluations
<1>10. Earned(summary)'
  BY <1>1, <1>9 DEF Earned, NoSummary
<1>11. Evaluations'
  BY <1>1, <1>7, <1>8, <1>9, <1>10 DEF Evaluations
<1>12. Tiled'
  BY <1>1 DEF WfRunning, Tiled, Fits, Fold
<1>. QED
  BY <1>1, <1>11, <1>12 DEF WfRunning

LEMMA SummariseKeeps ==
    ASSUME WfRunning, Summarise
    PROVE  WfRunning'
<1>1. /\ wfStage = "evaluate" /\ Len(results) = Len(folds) /\ wfStage' \in {"stored", "not stored"}
      /\ summary' = [recommendation |-> Recommend(results), dominant |-> Dominant(results)]
      /\ UNCHANGED <<plan, wfKind, anchor, folds, results>>
  BY DEF Summarise
<1>2. /\ results \in Seq(ResultType) /\ folds # << >> /\ folds \in Seq(FoldType)
      /\ wfKind # "ml" => \A i \in 1 .. Len(results) : results[i].auc = 0
  BY <1>1 DEF WfRunning, Evaluations, Tiled
<1>3. results # << >> /\ DOMAIN results = 1 .. Len(results)
  <2>1. Len(folds) # 0
    BY <1>2, EmptySeq
  <2>2. Len(results) # 0
    BY <1>1, <2>1
  <2>3. results # << >>
    BY <2>2, EmptySeq
  <2>4. DOMAIN results = 1 .. Len(results)
    BY <1>2
  <2>. QED
    BY <2>3, <2>4
<1>4. ASSUME Recommend(results) = "promote"
      PROVE  /\ wfKind = "ml" /\ Dominant(results) = "stable" /\ Len(results) >= MinFolds
             /\ 2 * Cardinality({i \in DOMAIN results : results[i].auc >= PromoteAuc})
                   >= Cardinality({i \in DOMAIN results : results[i].auc # 0})
  <2>1. /\ ~(Len(results) < MinFolds) /\ 4 * Verdicts(results, "stable") >= 3 * Len(results)
        /\ Median2(results) >= 2 * PromoteAuc
    BY <1>4 DEF Recommend
  <2>2. Len(results) >= MinFolds
    BY <1>2, <2>1, WfAssumption
  <2>3. Dominant(results) = "stable"
    BY <1>2, <1>3, <2>1, StableDominates
  <2>4. Measured(results) # {}
    BY <1>2, <2>1, MedianHalf
  <2>5. wfKind = "ml"
    BY <1>2, <1>3, <2>4 DEF Measured
  <2>. QED
    BY <1>2, <2>1, <2>2, <2>3, <2>5, MedianHalf
<1>5. Earned(summary)'
  BY <1>1, <1>4 DEF Earned
<1>6. Evaluations'
  BY <1>1, <1>2, <1>5 DEF Evaluations
<1>7. Tiled'
  BY <1>1 DEF WfRunning, Tiled, Fits, Fold
<1>. QED
  BY <1>1, <1>6, <1>7 DEF WfRunning

LEMMA WfStep ==
    ASSUME WfInv, [WfNext]_wfVars
    PROVE  WfInv'
<1>1. CASE wfStage \in {"arguments", "raised"}
  <2>1. CASE UNCHANGED wfVars
    BY <1>1, <2>1 DEF wfVars, WfInv
  <2>2. CASE WfNext
    <3>1. CheckPlan
      BY <1>1, <2>2 DEF WfNext, BuildFolds, EvaluateFold, Summarise
    <3>. QED
      BY <3>1, CheckPlanKeeps
  <2>. QED
    BY <2>1, <2>2
<1>2. CASE wfStage \notin {"arguments", "raised"}
  <2>1. WfRunning
    BY <1>2 DEF WfInv
  <2>2. CASE UNCHANGED wfVars
    <3>1. Tiled'
      BY <2>1, <2>2 DEF wfVars, WfRunning, Tiled, Fits, Fold
    <3>2. Evaluations'
      BY <2>1, <2>2 DEF wfVars, WfRunning, Evaluations, Earned
    <3>. QED
      BY <1>2, <2>1, <2>2, <3>1, <3>2 DEF wfVars, WfInv, WfRunning
  <2>3. CASE WfNext
    <3>1. BuildFolds \/ EvaluateFold \/ Summarise
      BY <1>2, <2>3 DEF WfNext, CheckPlan
    <3>2. wfStage' \notin {"arguments", "raised"}
      BY <3>1, <1>2 DEF BuildFolds, EvaluateFold, Summarise
    <3>3. WfRunning'
      BY <2>1, <3>1, BuildFoldsKeeps, EvaluateFoldKeeps, SummariseKeeps
    <3>. QED
      BY <3>2, <3>3 DEF WfInv
  <2>. QED
    BY <2>2, <2>3
<1>. QED
  BY <1>1, <1>2

LEMMA WfSafe == WfInv => WalkForwardSound
<1>1. SUFFICES ASSUME WfInv PROVE WalkForwardSound
  OBVIOUS
<1>2. CASE wfStage \in {"arguments", "raised"}
  BY <1>1, <1>2 DEF WfInv, WalkForwardSound, NoSummary
<1>3. CASE wfStage \notin {"arguments", "raised"}
  <2>1. WfRunning
    BY <1>1, <1>3 DEF WfInv
  <2>2. summary.recommendation = "promote" =>
            /\ wfKind = "ml" /\ summary.dominant = "stable" /\ Len(results) >= MinFolds
            /\ 2 * Cardinality({i \in DOMAIN results : results[i].auc >= PromoteAuc})
                  >= Cardinality({i \in DOMAIN results : results[i].auc # 0})
    BY <2>1 DEF WfRunning, Evaluations, Earned
  <2>. QED
    BY <1>3, <2>1, <2>2, TilesRange DEF WalkForwardSound
<1>. QED
  BY <1>2, <1>3

\* For every plan and threshold: the folds are exactly the ones that fit, and a
\* strategy is recommended only when the folds earned it.
THEOREM WalkForwardSoundHolds == WfSpec => []WalkForwardSound
BY WfStart, WfStep, WfSafe, PTL DEF WfSpec
==============================================================================
