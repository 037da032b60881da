------------------------------ MODULE Training ------------------------------
(***************************************************************************)
(* The trainer of the fusion network, its calibration, and the process     *)
(* that serves both.  Training runs follow one another in one artifact     *)
(* directory, from scratch or resumed from a checkpoint; a run may crash   *)
(* between any two steps, and every file is written in place, so that a    *)
(* crash or a reader may meet a torn one.  The brain loads the best        *)
(* checkpoint and the calibration once and keeps them for its life.        *)
(***************************************************************************)
EXTENDS Integers, Sequences

CONSTANTS
  Epochs,     (* epochs: the number of epochs asked for                      *)
  Patience,   (* early_stopping_patience                                     *)
  Metric,     (* the values of the early-stopping metric, lower is better    *)
  RunLimit,   (* bound: training runs started                                *)
  CrashLimit, (* bound: training runs that crash                             *)
  NaN,        (* a metric that is not a number                               *)
  Infinity,   (* the best metric before there is one                         *)
  None,       (* no file, or no model loaded                                 *)
  Torn,       (* a file that was opened for writing and not finished         *)
  Untrained   (* a network of configuration defaults                         *)

ASSUME TrainingAssumption ==
  /\ Epochs \in Nat \ {0} /\ Patience \in Nat \ {0}
  /\ Metric \subseteq Nat
  /\ NaN \notin Metric /\ Infinity \notin Metric /\ NaN # Infinity
  /\ None # Torn
  /\ {None, Torn} \cap [run : Nat, epoch : Nat, metric : Metric \cup {NaN}] = {}
  /\ RunLimit \in Nat /\ CrashLimit \in Nat

VARIABLES
  pc,               (* where the current run stands; "down" after a crash    *)
  epoch,            (* the epoch of the loop                                 *)
  best_metric_val,  (* the best metric of this run                           *)
  best_epoch,       (* and its epoch, 0 before there is one                  *)
  patience_counter, (* epochs since then                                     *)
  history,          (* the metrics of this run's epochs                      *)
  last_ckpt,        (* last_best_fusion_net.pt                               *)
  best_ckpt,        (* best_fusion_net.pt                                    *)
  tested,           (* the checkpoint behind test_metrics in the summary     *)
  run,              (* runs started                                          *)
  crashes,          (* runs crashed                                          *)
  calibration_json, (* the network that calibration.json was fitted on       *)
  model,            (* _CACHED_MODEL of the brain                            *)
  calibrator        (* _CACHED_CALIBRATOR: the network its values suit       *)

trainerVars == <<pc, epoch, best_metric_val, best_epoch, patience_counter, history,
                 last_ckpt, best_ckpt, tested, run, crashes>>
brainVars == <<model, calibrator>>
trainingVars == <<trainerVars, calibration_json, brainVars>>

Measured == Metric \cup {NaN}
Intact(file) == file \notin {None, Torn}

(* The loop goes on to epoch e, or is over.                                *)
Continue(e) == IF e > Epochs THEN "evaluate" ELSE "epoch"

ImprovesOnTies(metric) ==  (* mutant: an equal metric improves as well            *)
  metric # NaN /\ (best_metric_val # Infinity => metric <= best_metric_val)

(* NaN is never an improvement.                                            *)
Improves(metric) ==
  metric # NaN /\ (best_metric_val # Infinity => metric < best_metric_val)

CurrentMetric == history[Len(history)]
CurrentCheckpoint == [run |-> run, epoch |-> epoch, metric |-> CurrentMetric]

-----------------------------------------------------------------------------

TrainingInit ==
  /\ pc = "down" /\ epoch = 1 /\ best_metric_val = Infinity /\ best_epoch = 0
  /\ patience_counter = 0 /\ history = <<>>
  /\ last_ckpt = None /\ best_ckpt = None /\ tested = None
  /\ run = 0 /\ crashes = 0
  /\ calibration_json = None
  /\ model = None /\ calibrator = None

(* A resumed run takes the epoch of the checkpoint and nothing else of     *)
(* what the trainer keeps: the best metric, the patience and the history   *)
(* start anew.  A path that is no file is ignored; a torn file raises.     *)
Launch(resume_from) ==
  /\ pc \in {"down", "done"}
  /\ run < RunLimit
  /\ run' = run + 1
  /\ best_metric_val' = Infinity /\ best_epoch' = 0
  /\ patience_counter' = 0 /\ history' = <<>> /\ tested' = None
  /\ epoch' = IF Intact(resume_from) THEN resume_from.epoch + 1 ELSE 1
  /\ pc' = IF resume_from = Torn THEN "down" ELSE Continue(epoch')
  /\ UNCHANGED <<last_ckpt, best_ckpt, crashes, calibration_json, brainVars>>

(* train_epoch and validate.  The metric 0 also stands for a validation    *)
(* that could measure nothing: both defaults are 0.0.                      *)
RunEpoch ==
  /\ pc = "epoch"
  /\ \E metric \in Measured : history' = Append(history, metric)
  /\ pc' = "last"
  /\ UNCHANGED <<epoch, best_metric_val, best_epoch, patience_counter,
                 last_ckpt, best_ckpt, tested, run, crashes, calibration_json, brainVars>>

OpenBoth ==  (* mutant: both files are opened before one is written               *)
  /\ pc = "last"
  /\ last_ckpt' = Torn /\ best_ckpt' = Torn
  /\ pc' = "last_open"
  /\ UNCHANGED <<epoch, best_metric_val, best_epoch, patience_counter, history,
                 tested, run, crashes, calibration_json, brainVars>>

OpenLast ==
  /\ pc = "last"
  /\ last_ckpt' = Torn
  /\ pc' = "last_open"
  /\ UNCHANGED <<epoch, best_metric_val, best_epoch, patience_counter, history,
                 best_ckpt, tested, run, crashes, calibration_json, brainVars>>

CloseLastImpatient ==  (* mutant: an improvement does not reset the patience      *)
  /\ pc = "last_open"
  /\ last_ckpt' = CurrentCheckpoint
  /\ \/ /\ Improves(CurrentMetric)
        /\ best_metric_val' = CurrentMetric /\ best_epoch' = epoch
        /\ pc' = "best"
        /\ UNCHANGED <<epoch, patience_counter>>
     \/ /\ ~Improves(CurrentMetric)
        /\ patience_counter' = patience_counter + 1
        /\ IF patience_counter' >= Patience
           THEN pc' = "evaluate" /\ UNCHANGED epoch
           ELSE pc' = Continue(epoch + 1) /\ epoch' = epoch + 1
        /\ UNCHANGED <<best_metric_val, best_epoch>>
  /\ UNCHANGED <<history, best_ckpt, tested, run, crashes, calibration_json, brainVars>>

(* The last checkpoint is saved first; then the epoch is judged.           *)
CloseLast ==
  /\ pc = "last_open"
  /\ last_ckpt' = CurrentCheckpoint
  /\ \/ /\ Improves(CurrentMetric)
        /\ best_metric_val' = CurrentMetric /\ best_epoch' = epoch
        /\ patience_counter' = 0
        /\ pc' = "best"
        /\ UNCHANGED epoch
     \/ /\ ~Improves(CurrentMetric)
        /\ patience_counter' = patience_counter + 1
        /\ IF patience_counter' >= Patience
           THEN pc' = "evaluate" /\ UNCHANGED epoch
           ELSE pc' = Continue(epoch + 1) /\ epoch' = epoch + 1
        /\ UNCHANGED <<best_metric_val, best_epoch>>
  /\ UNCHANGED <<history, best_ckpt, tested, run, crashes, calibration_json, brainVars>>

OpenBest ==
  /\ pc = "best"
  /\ best_ckpt' = Torn
  /\ pc' = "best_open"
  /\ UNCHANGED <<epoch, best_metric_val, best_epoch, patience_counter, history,
                 last_ckpt, tested, run, crashes, calibration_json, brainVars>>

CloseBest ==
  /\ pc = "best_open"
  /\ best_ckpt' = CurrentCheckpoint
  /\ epoch' = epoch + 1
  /\ pc' = Continue(epoch + 1)
  /\ UNCHANGED <<best_metric_val, best_epoch, patience_counter, history,
                 last_ckpt, tested, run, crashes, calibration_json, brainVars>>

EvaluateLast ==  (* mutant: the last checkpoint is tested                         *)
  /\ pc = "evaluate"
  /\ tested' = IF Intact(last_ckpt) THEN last_ckpt ELSE None
  /\ pc' = IF last_ckpt = Torn THEN "down" ELSE "done"
  /\ UNCHANGED <<epoch, best_metric_val, best_epoch, patience_counter, history,
                 last_ckpt, best_ckpt, run, crashes, calibration_json, brainVars>>

(* The test split is evaluated with whatever best file is there, of this   *)
(* run or of an earlier one; a torn one raises and the summary is lost.    *)
Evaluate ==
  /\ pc = "evaluate"
  /\ tested' = IF Intact(best_ckpt) THEN best_ckpt ELSE None
  /\ pc' = IF best_ckpt = Torn THEN "down" ELSE "done"
  /\ UNCHANGED <<epoch, best_metric_val, best_epoch, patience_counter, history,
                 last_ckpt, best_ckpt, run, crashes, calibration_json, brainVars>>

Crash ==
  /\ pc \notin {"down", "done"}
  /\ crashes < CrashLimit
  /\ crashes' = crashes + 1
  /\ pc' = "down"
  /\ UNCHANGED <<epoch, best_metric_val, best_epoch, patience_counter, history,
                 last_ckpt, best_ckpt, tested, run, calibration_json, brainVars>>

(* The calibration is fitted on a network built for the evaluation: one of *)
(* configuration defaults, into which no checkpoint is loaded.             *)
OpenCalibration ==
  /\ calibration_json' = Torn
  /\ UNCHANGED <<trainerVars, brainVars>>

CloseCalibration ==
  /\ calibration_json = Torn
  /\ calibration_json' = Untrained
  /\ UNCHANGED <<trainerVars, brainVars>>

(* The first cycle of a brain process loads the best checkpoint; a missing *)
(* or torn one leaves the defaults, which are cached as well.              *)
get_or_load_model ==
  /\ model' = IF model # None THEN model
              ELSE IF Intact(best_ckpt) THEN best_ckpt ELSE Untrained
  /\ UNCHANGED <<trainerVars, calibration_json, calibrator>>

(* Then the calibration; without one the scalers are the identity, and     *)
(* suit any network.                                                       *)
get_or_load_calibrator ==
  /\ model # None
  /\ calibrator' = IF calibrator # None THEN calibrator
                   ELSE IF Intact(calibration_json) THEN calibration_json ELSE model
  /\ UNCHANGED <<trainerVars, calibration_json, model>>

RestartBrain ==
  /\ model # None
  /\ model' = None /\ calibrator' = None
  /\ UNCHANGED <<trainerVars, calibration_json>>

TrainerStep ==
  RunEpoch \/ OpenLast \/ CloseLast \/ OpenBest \/ CloseBest \/ Evaluate

TrainingNext ==
  \/ Launch(None) \/ Launch(last_ckpt) \/ Launch(best_ckpt)
  \/ TrainerStep
  \/ Crash
  \/ OpenCalibration \/ CloseCalibration
  \/ get_or_load_model \/ get_or_load_calibrator \/ RestartBrain

TrainingSpec == TrainingInit /\ [][TrainingNext]_trainingVars
-----------------------------------------------------------------------------

(* The number of epochs the early stopping has judged.                     *)
JudgedCount == IF pc \in {"last", "last_open"} THEN Len(history) - 1 ELSE Len(history)
Better(i, j) == history[i] # NaN /\ (history[j] = NaN \/ history[i] < history[j])

(* Once an epoch of a run has improved, the best file is that epoch's: the *)
(* first one that no other judged epoch of the run beats, as many epochs   *)
(* ago as the patience has counted.  A file of an earlier run never stands *)
(* in its place.  (trainer.py:276-324)                                     *)
BestFileIsMinimum ==
  best_epoch > 0 /\ pc \notin {"best", "best_open", "down"} =>
    LET best == JudgedCount - patience_counter
    IN /\ best_ckpt = [run |-> run, epoch |-> best_epoch, metric |-> best_metric_val]
       /\ best \in 1 .. JudgedCount /\ history[best] = best_metric_val
       /\ \A j \in 1 .. JudgedCount : ~Better(j, best)
       /\ \A j \in 1 .. best - 1 : Better(best, j)

(* A run that ends before its last epoch has not improved for as many      *)
(* epochs as its patience: the best epoch lies before all of them.         *)
(* (trainer.py:318-324)                                                    *)
StopsOnlyAfterPatience ==
  pc \in {"evaluate", "done"} /\ epoch <= Epochs =>
    LET n == Len(history)
    IN /\ n >= Patience
       /\ \A i \in n - Patience + 1 .. n :
            history[i] = NaN \/ \E j \in 1 .. n - Patience : ~Better(i, j) /\ history[j] # NaN

(* The last file is saved before the best one, so that one crash can tear  *)
(* only one of them: a run can always be resumed from the other.  A second *)
(* crash can tear both.  (trainer.py:300-317, 386)                         *)
OneCrashLeavesACheckpoint ==
  crashes <= 1 /\ best_ckpt # None /\ pc \notin {"last_open", "best_open"}
    => Intact(last_ckpt) \/ Intact(best_ckpt)

(* The test metrics of a summary belong to the epoch the summary names.    *)
(* When no epoch improved the summary names none, and they may belong to   *)
(* an earlier run.  (trainer.py:328-345)                                   *)
TestedIsReported ==
  pc = "done" /\ best_epoch > 0
    => tested = [run |-> run, epoch |-> best_epoch, metric |-> best_metric_val]

=============================================================================
