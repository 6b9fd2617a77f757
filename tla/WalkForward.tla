---------------------------- MODULE WalkForward ----------------------------
(***************************************************************************)
(* trading.cli.walk_forward: tile a range of days with folds, evaluate one *)
(* after the other (an exception makes an "error" fold), summarise, store. *)
(* The AUC of a fold is in hundredths and 0 stands for None.               *)
(*                                                                         *)
(* Definitions named Bug... are faulty variants of the definition below    *)
(* them, kept to show that the properties can fail.                        *)
(***************************************************************************)
EXTENDS Integers, Sequences, FiniteSets

CONSTANTS WfPlans,        \* [to, isDays, oosDays, stepDays]; ranges start at day 0
          AucValues,
          StableWindow, DriftWindow, PromoteAuc,
          MinFolds

ASSUME WfAssumption ==
    /\ {StableWindow, DriftWindow, MinFolds} \subseteq Nat
    /\ PromoteAuc \in 1 .. 100 /\ AucValues \subseteq 1 .. 100
    /\ WfPlans \subseteq [to : Nat, isDays : Nat, oosDays : Nat, stepDays : Nat]

VARIABLES plan, wfKind, \* the arguments; ML, HMM or rules strategy
          anchor,       \* start of the fold that is being built
          folds, results, wfStage, summary

wfVars == <<plan, wfKind, anchor, folds, results, wfStage, summary>>

NoSummary == [recommendation |-> "none", dominant |-> "none"]

WfInit ==
    /\ plan \in WfPlans /\ wfKind \in {"ml", "hmm", "rules"}
    /\ anchor = 0 /\ folds = << >> /\ results = << >> /\ wfStage = "arguments" /\ summary = NoSummary

\* The checks at the top of build_folds: a ValueError that nothing catches.
ValidPlan(p) == 0 \notin {p.isDays, p.oosDays, p.stepDays} /\ p.to > 0
CheckPlan ==
    /\ wfStage = "arguments"
    /\ wfStage' = IF ValidPlan(plan) THEN "folds" ELSE "raised"
    /\ UNCHANGED <<plan, wfKind, anchor, folds, results, summary>>

\* One turn of the loop of build_folds, which run_walk_forward repeats for its
\* splits.
Fold(p, a) == [isFrom |-> a, isTo |-> a + p.isDays, oosFrom |-> a + p.isDays,
               oosTo |-> a + p.isDays + p.oosDays]
Fits(p, a) == Fold(p, a).oosTo <= p.to
BuildFolds ==
    /\ wfStage = "folds"
    /\ IF Fits(plan, anchor)
       THEN /\ folds' = Append(folds, Fold(plan, anchor)) /\ anchor' = anchor + plan.stepDays
            /\ UNCHANGED wfStage
       ELSE /\ wfStage' = IF folds = << >> THEN "no folds" ELSE "evaluate"
            /\ UNCHANGED <<folds, anchor>>
    /\ UNCHANGED <<plan, wfKind, results, summary>>

\* classify_fold
Gap(a, b) == IF a >= b THEN a - b ELSE b - a
ClassifyFold(aucIs, aucOos, enough) ==
    CASE ~enough -> "unvalidated_small_sample"
      [] enough /\ (aucIs = 0 \/ aucOos = 0) -> "no_model_auc"
      [] enough /\ aucIs # 0 /\ aucOos # 0 /\ Gap(aucIs, aucOos) > DriftWindow -> "drift"
      [] enough /\ aucIs # 0 /\ aucOos # 0 /\ Gap(aucIs, aucOos) \in StableWindow + 1 .. DriftWindow -> "unstable_aucs"
      [] OTHER -> "stable"

\* _eval_last_90s_v3_fold: no AUC when the OOS labels are all alike, no pnl.
\* Too small a sample is noticed before the training or after it.
EvalMl == {[auc |-> b, verdict |-> ClassifyFold(a, b, enough)] :
             a \in AucValues, b \in AucValues \union {0}, enough \in BOOLEAN}
\* _eval_hmm_fold: no AUC either way.
EvalHmm == {[auc |-> 0, verdict |-> ClassifyFold(0, 0, enough)] : enough \in BOOLEAN}
\* _replay_rules_fold reads n_trades_oos, which a split does not have: 0 trades.
EvalRules == {[auc |-> 0, verdict |-> ClassifyFold(0, 0, FALSE)]}
FoldError == [auc |-> 0, verdict |-> "error"]

\* One fold in main_async.
EvaluateFold ==
    /\ wfStage = "evaluate" /\ Len(results) < Len(folds)
    /\ \E r \in {FoldError} \union (IF wfKind = "ml" THEN EvalMl
                                    ELSE IF wfKind = "hmm" THEN EvalHmm ELSE EvalRules) :
          results' = Append(results, r)
    /\ UNCHANGED <<plan, wfKind, anchor, folds, wfStage, summary>>

-----------------------------------------------------------------------------
\* aggregate_verdicts
Verdicts(rs, v) == Cardinality({i \in DOMAIN rs : rs[i].verdict = v})
Worse == <<"drift", "unstable_aucs", "unvalidated_small_sample", "no_model_auc", "stable", "error">>
Most(rs, i) == \A j \in DOMAIN Worse : Verdicts(rs, Worse[j]) <= Verdicts(rs, Worse[i])
Dominant(rs) == Worse[CHOOSE i \in DOMAIN Worse : Most(rs, i) /\ \A j \in 1 .. i - 1 : ~Most(rs, j)]

\* Twice statistics.median, 0 for None: the value in the middle of the measured
\* ones, or the two around it, by their rank.
Measured(rs) == {i \in DOMAIN rs : rs[i].auc # 0}
UpTo(rs, v) == {i \in Measured(rs) : rs[i].auc <= v}
Ranked(rs, k) == CHOOSE v \in {rs[i].auc : i \in Measured(rs)} :
                    Cardinality(UpTo(rs, v - 1)) < k /\ k <= Cardinality(UpTo(rs, v))
Median2(rs) ==
    LET n == Cardinality(Measured(rs))
    IN  IF n = 0 THEN 0 ELSE Ranked(rs, (n + 1) \div 2) + Ranked(rs, n \div 2 + 1)

\* Every fold's pnl is 0 or None, so soak_longer, which wants a positive
\* total, is never given.
BugRecommend(rs) ==
    IF Len(rs) < MinFolds THEN "insufficient_folds"
    ELSE IF Median2(rs) >= 2 * PromoteAuc THEN "promote" ELSE "hold"
Recommend(rs) ==
    IF Len(rs) < MinFolds THEN "insufficient_folds"
    ELSE IF 4 * Verdicts(rs, "stable") >= 3 * Len(rs) /\ Median2(rs) >= 2 * PromoteAuc
    THEN "promote" ELSE "hold"

\* The end of main_async with _persist; --promote-winner promotes nothing.
Summarise ==
    /\ wfStage = "evaluate" /\ Len(results) = Len(folds)
    /\ summary' = [recommendation |-> Recommend(results), dominant |-> Dominant(results)]
    /\ wfStage' \in {"stored", "not stored"}
    /\ UNCHANGED <<plan, wfKind, anchor, folds, results>>

WfNext == CheckPlan \/ BuildFolds \/ EvaluateFold \/ Summarise

WfSpec == WfInit /\ [][WfNext]_wfVars

-----------------------------------------------------------------------------
\* The folds are the ones that fit into the range, all of them and in order; a
\* fold replayed as a run of its own has exactly one split; and a strategy is
\* recommended only when most folds, failed ones included, were stable, at
\* least half of the measured ones reached the AUC, and the dominant verdict
\* agrees.  Neither a rules strategy nor the HMM can ever be recommended.
WalkForwardSound ==
    /\ wfStage \notin {"arguments", "raised", "folds"} =>
          /\ {folds[i].isFrom : i \in DOMAIN folds} =
                {a \in 0 .. plan.to : a % plan.stepDays = 0 /\ a + plan.isDays + plan.oosDays <= plan.to}
          /\ \A i, j \in DOMAIN folds : i < j /\ plan.stepDays >= plan.oosDays => folds[i].oosTo <= folds[j].oosFrom
          /\ \A i \in DOMAIN folds :
                LET one == [plan EXCEPT !.to = folds[i].oosTo]
                IN  Fits(one, folds[i].isFrom) /\ ~Fits(one, folds[i].isFrom + (IF plan.oosDays > 1 THEN plan.oosDays ELSE 1))
    /\ summary.recommendation = "promote" =>
          /\ wfKind = "ml" /\ summary.dominant = "stable" /\ Len(results) >= MinFolds
          /\ 2 * Cardinality({i \in DOMAIN results : results[i].auc >= PromoteAuc})
                >= Cardinality({i \in DOMAIN results : results[i].auc # 0})
=============================================================================
