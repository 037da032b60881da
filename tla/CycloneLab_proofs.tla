--------------------------- MODULE CycloneLab_proofs ---------------------------
(***************************************************************************)
(* What the programs of the laboratory keep, for any number of epochs,     *)
(* runs, service threads, frames, storms and crashes, and any metrics: of  *)
(* the trainer, of the shared report, of the splits, of the samples, of    *)
(* the replay cache and of the SOS classifier's files.                     *)
(***************************************************************************)
EXTENDS CycloneLab, FiniteSetTheorems, WellFoundedInduction, TLAPS

Checkpoint == [run : Nat, epoch : Nat, metric : Measured]

TrainingTypeOK ==
  /\ pc \in {"down", "done", "epoch", "last", "last_open", "best", "best_open", "evaluate"}
  /\ epoch \in Nat /\ best_epoch \in Nat /\ patience_counter \in Nat
  /\ best_metric_val \in Metric \cup {Infinity}
  /\ history \in Seq(Measured)
  /\ last_ckpt \in Checkpoint \cup {None, Torn}
  /\ best_ckpt \in Checkpoint \cup {None, Torn}
  /\ run \in Nat /\ crashes \in Nat

(* The epoch of the loop counts from one, and the epochs that were run are *)
(* on record.                                                              *)
LoopInv ==
  /\ epoch > 0
  /\ pc \in {"last", "last_open", "best", "best_open"} => Len(history) > 0
  /\ best_epoch = 0 <=> best_metric_val = Infinity

(* What the judged epochs say of the best one, in a run that goes on.      *)
NoneImproved ==
  /\ patience_counter = JudgedCount
  /\ \A j \in 1 .. JudgedCount : history[j] = NaN
BestSoFar ==
  LET best == JudgedCount - patience_counter
  IN /\ best \in 1 .. JudgedCount /\ history[best] = best_metric_val
     /\ \A j \in 1 .. JudgedCount : ~Better(j, best)
     /\ \A j \in 1 .. best - 1 : Better(best, j)
Judged ==
  pc # "down" =>
    /\ best_epoch = 0 => NoneImproved
    /\ best_epoch > 0 => BestSoFar
(* The best epoch is in the best file, or about to be written there.       *)
BestKept ==
  /\ pc \in {"best", "best_open"} =>
       patience_counter = 0 /\ best_epoch = epoch /\ best_epoch > 0
  /\ best_epoch > 0 /\ pc \notin {"best", "best_open", "down"} =>
       best_ckpt = [run |-> run, epoch |-> best_epoch, metric |-> best_metric_val]
Stopped == pc \in {"evaluate", "done"} /\ epoch <= Epochs => patience_counter >= Patience

(* Which of the two files may be torn.                                     *)
FilesKept ==
  /\ best_ckpt # None => last_ckpt # None
  /\ pc \in {"last_open", "best", "best_open"} => last_ckpt # None
  /\ pc \in {"best", "best_open"} => last_ckpt # Torn
  /\ crashes = 0 => /\ best_ckpt = Torn => pc = "best_open"
                    /\ last_ckpt = Torn => pc = "last_open"
  /\ crashes <= 1 /\ pc # "last_open" => ~(last_ckpt = Torn /\ best_ckpt = Torn)

TrainingInv ==
  TrainingTypeOK /\ LoopInv /\ Judged /\ BestKept /\ Stopped /\ FilesKept /\ TestedIsReported

-----------------------------------------------------------------------------

LEMMA CheckpointDiffers ==
  ASSUME NEW c \in Checkpoint
  PROVE  c # None /\ c # Torn
BY TrainingAssumption DEF Checkpoint, Measured

(* The checkpoint that is saved after an epoch.                            *)
LEMMA CurrentTyped ==
  ASSUME TrainingTypeOK, Len(history) > 0
  PROVE  /\ CurrentMetric \in Measured
         /\ CurrentCheckpoint \in Checkpoint
<1>1. Len(history) \in 1 .. Len(history)
  BY DEF TrainingTypeOK
<1>2. CurrentMetric \in Measured
  BY <1>1 DEF TrainingTypeOK, CurrentMetric
<1> QED
  BY <1>2 DEF TrainingTypeOK, CurrentCheckpoint, Checkpoint

LEMMA TrainingStarts == TrainingInit => TrainingInv
<1> SUFFICES ASSUME TrainingInit PROVE TrainingInv
  OBVIOUS
<1>1. TrainingTypeOK
  BY DEF TrainingInit, TrainingTypeOK
<1>2. LoopInv /\ Judged /\ BestKept /\ Stopped /\ TestedIsReported
  BY DEF TrainingInit, LoopInv, Judged, BestKept, Stopped, TestedIsReported
<1>3. FilesKept
  BY TrainingAssumption DEF TrainingInit, FilesKept
<1> QED
  BY <1>1, <1>2, <1>3 DEF TrainingInv

(* The brain and the calibration touch nothing of the trainer.             *)
LEMMA TrainerAtRest ==
  ASSUME TrainingInv, UNCHANGED trainerVars
  PROVE  TrainingInv'
BY DEF TrainingInv, TrainingTypeOK, LoopInv, Judged, NoneImproved, BestSoFar, Better,
       JudgedCount, BestKept, Stopped, FilesKept, TestedIsReported, Checkpoint, trainerVars

LEMMA LaunchKeeps ==
  ASSUME TrainingInv, NEW r \in {None, last_ckpt, best_ckpt}, Launch(r)
  PROVE  TrainingInv'
<1> USE DEF TrainingInv
<1>1. r \in Checkpoint \cup {None, Torn}
  BY DEF TrainingTypeOK
<1>2. epoch' \in Nat /\ epoch' > 0
  BY <1>1 DEF Launch, Intact, Checkpoint
<1>3. TrainingTypeOK'
  BY <1>2 DEF TrainingTypeOK, Launch, Continue, Checkpoint
<1>4. pc' \in {"down", "evaluate", "epoch"} /\ (pc' = "evaluate" => epoch' > Epochs)
  BY DEF Launch, Continue
<1>5. LoopInv' /\ Stopped'
  BY <1>2, <1>4, TrainingAssumption DEF LoopInv, Stopped, Launch
<1>6. Judged' /\ BestKept' /\ TestedIsReported'
  BY <1>4 DEF Judged, NoneImproved, JudgedCount, BestKept, TestedIsReported, Launch
<1>7. FilesKept'
  BY <1>4 DEF FilesKept, Launch
<1> QED
  BY <1>3, <1>5, <1>6, <1>7

LEMMA RunEpochKeeps ==
  ASSUME TrainingInv, RunEpoch
  PROVE  TrainingInv'
<1> USE DEF TrainingInv
<1>1. PICK metric \in Measured : history' = Append(history, metric)
  BY DEF RunEpoch
<1>2. /\ Len(history') = Len(history) + 1
      /\ \A j \in 1 .. Len(history) : history'[j] = history[j]
      /\ JudgedCount = Len(history) /\ JudgedCount' = Len(history)
  BY <1>1 DEF TrainingTypeOK, RunEpoch, JudgedCount
<1>3. TrainingTypeOK'
  BY <1>1 DEF TrainingTypeOK, RunEpoch, Checkpoint
<1>4. LoopInv' /\ BestKept' /\ Stopped' /\ FilesKept' /\ TestedIsReported'
  BY <1>2 DEF TrainingTypeOK, LoopInv, BestKept, Stopped, FilesKept, TestedIsReported, RunEpoch
<1>5. Judged'
  <2>1. Len(history) \in Nat
    BY DEF TrainingTypeOK
  <2>2. ASSUME best_epoch = 0 PROVE NoneImproved'
    BY <1>2, <2>2 DEF RunEpoch, Judged, NoneImproved
  <2>3. ASSUME best_epoch > 0 PROVE BestSoFar'
    BY <1>2, <2>1, <2>3 DEF RunEpoch, Judged, BestSoFar, Better, TrainingTypeOK
  <2> QED
    BY <2>2, <2>3 DEF RunEpoch, Judged
<1> QED
  BY <1>3, <1>4, <1>5

LEMMA OpenKeeps ==
  ASSUME TrainingInv, OpenLast \/ OpenBest
  PROVE  TrainingInv'
<1> USE DEF TrainingInv
<1>1. TrainingTypeOK'
  BY DEF TrainingTypeOK, OpenLast, OpenBest, Checkpoint
<1>2. LoopInv' /\ BestKept' /\ Stopped' /\ TestedIsReported'
  BY DEF LoopInv, BestKept, Stopped, TestedIsReported, OpenLast, OpenBest
<1>3. Judged'
  BY DEF Judged, NoneImproved, BestSoFar, Better, JudgedCount, OpenLast, OpenBest
<1>4. FilesKept'
  BY TrainingAssumption DEF FilesKept, OpenLast, OpenBest
<1> QED
  BY <1>1, <1>2, <1>3, <1>4

(* An improvement becomes the best epoch; any other epoch leaves the best  *)
(* where it is, one further back.                                          *)
LEMMA JudgeKeeps ==
  ASSUME TrainingInv, CloseLast
  PROVE  Judged'
<1> USE DEF TrainingInv
<1> DEFINE n == Len(history)
<1>1. /\ n \in Nat /\ n > 0
      /\ JudgedCount = n - 1 /\ JudgedCount' = n
      /\ pc' \in {"best", "evaluate", "epoch"} /\ history' = history
  BY DEF CloseLast, Continue, JudgedCount, TrainingTypeOK, LoopInv
<1>2. /\ CurrentMetric = history[n] /\ CurrentMetric \in Measured
      /\ \A j \in 1 .. n : history[j] \in Measured
  BY <1>1, CurrentTyped DEF CurrentMetric, TrainingTypeOK
<1>3. /\ best_epoch = 0 => NoneImproved
      /\ best_epoch > 0 => BestSoFar
      /\ best_epoch \in Nat /\ patience_counter \in Nat
  BY DEF Judged, CloseLast, TrainingTypeOK
<1>4. best_epoch > 0 => best_metric_val \in Metric
  BY DEF LoopInv, TrainingTypeOK
<1>5. CASE Improves(CurrentMetric)
  <2>1. /\ best_metric_val' = history[n] /\ best_epoch' = epoch /\ patience_counter' = 0
        /\ epoch > 0 /\ history[n] # NaN
    BY <1>2, <1>5 DEF CloseLast, Improves, LoopInv
  <2>2. history[n] \in Metric /\ history[n] \in Nat
    BY <1>2, <2>1, TrainingAssumption DEF Measured
  <2>3. ASSUME NEW j \in 1 .. n - 1 PROVE history[j] = NaN \/ history[n] < history[j]
    <3>1. CASE best_epoch = 0
      BY <1>1, <1>3, <3>1 DEF NoneImproved
    <3>2. CASE best_epoch > 0
      <4>1. best_metric_val \in Metric /\ best_metric_val # Infinity /\ best_metric_val # NaN
        BY <1>4, <3>2, TrainingAssumption
      <4>2. history[n] < best_metric_val
        BY <1>2, <1>5, <4>1 DEF Improves
      <4>3. history[j] = NaN \/ ~(history[j] < best_metric_val)
        BY <1>1, <1>3, <3>2 DEF BestSoFar, Better
      <4>4. history[j] = NaN \/ history[j] \in Nat
        <5>1. j \in 1 .. n
          BY <1>1
        <5>2. history[j] \in Measured
          BY <1>2, <5>1
        <5> QED
          BY <5>2, TrainingAssumption DEF Measured
      <4>5. best_metric_val \in Nat
        BY <4>1, TrainingAssumption
      <4> QED
        BY <2>2, <4>2, <4>3, <4>4, <4>5
    <3> QED
      BY <1>3, <3>1, <3>2
  <2>4. \A j \in 1 .. n : ~Better(j, n)
    <3> SUFFICES ASSUME NEW j \in 1 .. n, Better(j, n) PROVE FALSE
      OBVIOUS
    <3>1. history[j] # NaN /\ history[j] < history[n]
      BY <2>1 DEF Better
    <3>2. history[j] \in Nat
      BY <1>2, <3>1, TrainingAssumption DEF Measured
    <3>3. j \in 1 .. n - 1
      BY <1>1, <2>2, <3>1
    <3> QED
      BY <2>2, <2>3, <3>1, <3>2, <3>3
  <2>5. \A j \in 1 .. n - 1 : Better(n, j)
    BY <2>1, <2>3 DEF Better
  <2>6. JudgedCount' - patience_counter' = n /\ n \in 1 .. n
    BY <1>1, <2>1
  <2>7. BestSoFar'
    BY <1>1, <2>1, <2>4, <2>5, <2>6 DEF BestSoFar, Better
  <2> QED
    BY <2>1, <2>7 DEF Judged, TrainingTypeOK
<1>6. CASE ~Improves(CurrentMetric)
  <2>1. /\ patience_counter' = patience_counter + 1
        /\ best_metric_val' = best_metric_val /\ best_epoch' = best_epoch
    BY <1>6 DEF CloseLast
  <2>2. ASSUME best_epoch = 0 PROVE NoneImproved'
    <3>1. history[n] = NaN
      BY <1>2, <1>6, <2>2 DEF Improves, LoopInv
    <3> QED
      BY <1>1, <1>3, <2>1, <2>2, <3>1 DEF NoneImproved
  <2>3. ASSUME best_epoch > 0 PROVE BestSoFar'
    <3> DEFINE best == JudgedCount - patience_counter
    <3>1. /\ best \in 1 .. n - 1 /\ history[best] = best_metric_val
          /\ \A j \in 1 .. n - 1 : ~Better(j, best)
          /\ \A j \in 1 .. best - 1 : Better(best, j)
      BY <1>1, <1>3, <2>3 DEF BestSoFar
    <3>2. ~Better(n, best)
      BY <1>2, <1>6, <3>1, <1>4, <2>3, TrainingAssumption DEF Better, Improves
    <3>3. \A j \in 1 .. n : ~Better(j, best)
      BY <1>1, <3>1, <3>2
    <3>4. JudgedCount' - patience_counter' = best
      BY <1>1, <1>3, <2>1
    <3>5. best \in 1 .. n
      BY <1>1, <3>1
    <3> HIDE DEF best
    <3> QED
      BY <1>1, <2>1, <3>1, <3>3, <3>4, <3>5 DEF BestSoFar, Better
  <2> QED
    BY <2>1, <2>2, <2>3 DEF Judged
<1> QED
  BY <1>5, <1>6

LEMMA CloseLastKeeps ==
  ASSUME TrainingInv, CloseLast
  PROVE  TrainingInv'
<1> USE DEF TrainingInv
<1>1. CurrentMetric \in Measured /\ CurrentCheckpoint \in Checkpoint
  BY CurrentTyped DEF CloseLast, LoopInv
<1>2. CurrentCheckpoint # None /\ CurrentCheckpoint # Torn
  BY <1>1, CheckpointDiffers
<1>3. Improves(CurrentMetric) => CurrentMetric \in Metric /\ CurrentMetric # Infinity
  BY <1>1, TrainingAssumption DEF Improves, Measured
<1>4. TrainingTypeOK'
  BY <1>1, <1>3 DEF TrainingTypeOK, CloseLast, Continue, Checkpoint
<1>5. LoopInv'
  BY <1>3 DEF LoopInv, TrainingTypeOK, CloseLast, Continue
<1>6. BestKept'
  BY DEF BestKept, LoopInv, TrainingTypeOK, CloseLast, Continue
<1>7. Stopped'
  BY TrainingAssumption DEF Stopped, TrainingTypeOK, CloseLast, Continue
<1>8. FilesKept' /\ TestedIsReported'
  BY <1>2 DEF FilesKept, TestedIsReported, CloseLast, Continue
<1> QED
  BY <1>4, <1>5, <1>6, <1>7, <1>8, JudgeKeeps

LEMMA CloseBestKeeps ==
  ASSUME TrainingInv, CloseBest
  PROVE  TrainingInv'
<1> USE DEF TrainingInv
<1>1. Len(history) > 0 /\ CurrentCheckpoint \in Checkpoint
  BY CurrentTyped DEF CloseBest, LoopInv
<1>2. CurrentCheckpoint # None /\ CurrentCheckpoint # Torn
  BY <1>1, CheckpointDiffers
<1>3. pc' \in {"evaluate", "epoch"} /\ (pc' = "evaluate" => epoch' > Epochs)
  BY DEF CloseBest, Continue
<1>4. TrainingTypeOK'
  BY <1>1, <1>3 DEF TrainingTypeOK, CloseBest, Checkpoint
<1>5. LoopInv' /\ Stopped' /\ FilesKept' /\ TestedIsReported'
  BY <1>2, <1>3, TrainingAssumption
     DEF LoopInv, Stopped, FilesKept, TestedIsReported, TrainingTypeOK, CloseBest
<1>6. Judged'
  BY <1>3 DEF Judged, NoneImproved, BestSoFar, Better, JudgedCount, CloseBest
<1>7. best_metric_val = CurrentMetric
  BY DEF CloseBest, BestKept, Judged, BestSoFar, JudgedCount, CurrentMetric, TrainingTypeOK
<1>8. BestKept'
  BY <1>3, <1>7 DEF BestKept, CloseBest, CurrentCheckpoint
<1> QED
  BY <1>4, <1>5, <1>6, <1>8

LEMMA EvaluateKeeps ==
  ASSUME TrainingInv, Evaluate
  PROVE  TrainingInv'
<1> USE DEF TrainingInv
<1>1. TrainingTypeOK' /\ LoopInv' /\ BestKept' /\ Stopped' /\ FilesKept'
  BY DEF TrainingTypeOK, LoopInv, BestKept, Stopped, FilesKept, Checkpoint, Evaluate
<1>2. Judged'
  BY DEF Judged, NoneImproved, BestSoFar, Better, JudgedCount, Evaluate
<1>3. ASSUME best_epoch > 0 PROVE Intact(best_ckpt)
  <2>1. best_ckpt = [run |-> run, epoch |-> best_epoch, metric |-> best_metric_val]
    BY <1>3 DEF BestKept, Evaluate
  <2>2. best_metric_val \in Measured
    BY <1>3 DEF LoopInv, TrainingTypeOK, Measured
  <2>3. best_ckpt \in Checkpoint
    BY <2>1, <2>2 DEF TrainingTypeOK, Checkpoint
  <2> QED
    BY <2>3, CheckpointDiffers DEF Intact
<1>4. TestedIsReported'
  BY <1>3 DEF TestedIsReported, BestKept, Evaluate
<1> QED
  BY <1>1, <1>2, <1>4

LEMMA CrashKeeps ==
  ASSUME TrainingInv, Crash
  PROVE  TrainingInv'
<1> USE DEF TrainingInv
<1>1. TrainingTypeOK'
  BY DEF TrainingTypeOK, Crash, Checkpoint
<1>2. LoopInv' /\ Judged' /\ BestKept' /\ Stopped' /\ TestedIsReported'
  BY DEF LoopInv, Judged, BestKept, Stopped, TestedIsReported, Crash
<1>3. FilesKept'
  BY DEF FilesKept, TrainingTypeOK, Crash
<1> QED
  BY <1>1, <1>2, <1>3

-----------------------------------------------------------------------------

(* What holds at every point of every training run: the judged epochs fix  *)
(* the best one, the files hold what the loop says, and only a crash tears *)
(* one.                                                                    *)
LEMMA TrainingKeeps == TrainingInv /\ [TrainingNext]_trainingVars => TrainingInv'
<1> SUFFICES ASSUME TrainingInv, [TrainingNext]_trainingVars
             PROVE  TrainingInv'
  OBVIOUS
<1>1. CASE Launch(None) \/ Launch(last_ckpt) \/ Launch(best_ckpt)
  BY <1>1, LaunchKeeps
<1>2. CASE TrainerStep
  BY <1>2, RunEpochKeeps, OpenKeeps, CloseLastKeeps, CloseBestKeeps, EvaluateKeeps
     DEF TrainerStep
<1>3. CASE Crash
  BY <1>3, CrashKeeps
<1>4. CASE OpenCalibration \/ CloseCalibration
  BY <1>4, TrainerAtRest DEF OpenCalibration, CloseCalibration
<1>5. CASE get_or_load_model \/ get_or_load_calibrator \/ RestartBrain
  BY <1>5, TrainerAtRest DEF get_or_load_model, get_or_load_calibrator, RestartBrain
<1>6. CASE UNCHANGED trainingVars
  BY <1>6, TrainerAtRest DEF trainingVars
<1> QED BY <1>1, <1>2, <1>3, <1>4, <1>5, <1>6 DEF TrainingNext

THEOREM TrainingInvariant == TrainingSpec => []TrainingInv
BY TrainingStarts, TrainingKeeps, PTL DEF TrainingSpec

LEMMA StopsFollows == TrainingInv => StopsOnlyAfterPatience
<1> SUFFICES ASSUME TrainingInv, pc \in {"evaluate", "done"}, epoch <= Epochs
             PROVE  /\ Len(history) >= Patience
                    /\ \A i \in Len(history) - Patience + 1 .. Len(history) :
                         \/ history[i] = NaN
                         \/ \E j \in 1 .. Len(history) - Patience :
                              ~Better(i, j) /\ history[j] # NaN
  BY DEF StopsOnlyAfterPatience
<1> USE DEF TrainingInv
<1> DEFINE n == Len(history)
           best == n - patience_counter
<1>1. /\ n \in Nat /\ JudgedCount = n
      /\ patience_counter \in Nat /\ patience_counter >= Patience
      /\ best_epoch \in Nat
  BY DEF TrainingTypeOK, JudgedCount, Stopped
<1>2. CASE best_epoch = 0
  BY <1>1, <1>2, TrainingAssumption DEF Judged, NoneImproved
<1>3. CASE best_epoch > 0
  <2>1. /\ best \in 1 .. n /\ history[best] = best_metric_val
        /\ \A j \in 1 .. n : ~Better(j, best)
    BY <1>1, <1>3 DEF Judged, BestSoFar
  <2>2. history[best] # NaN
    BY <1>3, <2>1, TrainingAssumption DEF LoopInv, TrainingTypeOK
  <2>3. best \in 1 .. n - Patience
    BY <1>1, <2>1, TrainingAssumption
  <2>4. n - Patience + 1 .. n \subseteq 1 .. n
    BY <1>1, <2>1, TrainingAssumption
  <2> HIDE DEF best
  <2> QED
    BY <1>1, <2>1, <2>2, <2>3, <2>4, TrainingAssumption
<1> QED
  BY <1>1, <1>2, <1>3

LEMMA TrainingFollows ==
  TrainingInv => /\ BestFileIsMinimum /\ StopsOnlyAfterPatience
                 /\ OneCrashLeavesACheckpoint /\ TestedIsReported
<1>1. TrainingInv => BestFileIsMinimum
  BY DEF TrainingInv, Judged, BestSoFar, BestKept, BestFileIsMinimum
<1>2. TrainingInv => OneCrashLeavesACheckpoint
  BY DEF TrainingInv, FilesKept, OneCrashLeavesACheckpoint, Intact
<1> QED BY <1>1, <1>2, StopsFollows DEF TrainingInv

(* However the metrics run, the best file of a run that has improved is    *)
(* that of the first epoch no other judged epoch beats.                    *)
THEOREM BestFileCorrect == TrainingSpec => []BestFileIsMinimum
BY TrainingFollows, TrainingInvariant, PTL

(* For any patience, a run that ends early has not improved for as many    *)
(* epochs.                                                                 *)
THEOREM StopsCorrect == TrainingSpec => []StopsOnlyAfterPatience
BY TrainingFollows, TrainingInvariant, PTL

(* Over any number of runs, one crash never tears both checkpoint files.   *)
THEOREM CheckpointCorrect == TrainingSpec => []OneCrashLeavesACheckpoint
BY TrainingFollows, TrainingInvariant, PTL

(* The test metrics of any finished run that improved are of its best      *)
(* epoch.                                                                  *)
THEOREM TestedCorrect == TrainingSpec => []TestedIsReported
BY TrainingFollows, TrainingInvariant, PTL

-----------------------------------------------------------------------------
(* The report of the laboratory.                                           *)

LabSpec == LabInit /\ [][LabNext]_labVars

LabSteps == {"off", "train", "lock", "read", "open", "fill", "mirror"}
Sections == [topic : Topic, run : Nat, of : Int]

LabTypeOK ==
  /\ step \in [Topic -> LabSteps]
  /\ number \in [Topic -> Nat] /\ results \in [Topic -> Nat]
  /\ checkpoint \in [Topic -> Int]
  /\ trials \in Seq(Score)
  /\ locked \in [run : Nat, trial : Nat]
  /\ DOMAIN text = Topic
  /\ spoiled \in BOOLEAN

(* A program has its results on disk before it comes to the report.        *)
ResultsStored ==
  \A t \in Topic : step[t] \notin {"off", "train"} => results[t] = number[t]

AtFill == {t \in Topic : step[t] = "fill"}
AtMirror == {t \in Topic : step[t] = "mirror"}

(* While nothing is spoiled only one program writes, and what another has  *)
(* read is still there when it writes.                                     *)
OneWrites ==
  /\ \A t, u \in AtFill \union AtMirror : t = u
  /\ \A t \in AtFill, u \in Topic : step[u] = "open" => u = "detection"

Unique(doc) == \A i, j \in DOMAIN doc : doc[i].topic = doc[j].topic => i = j
(* A section tells of what is on disk, once its program has ended well; it *)
(* does so already when its program is about to write the mirror.          *)
IsTrue(section) ==
  LET t == section.topic IN
  /\ step[t] \in {"fill", "mirror"} => section = Section(t)
  /\ step[t] = "off" /\ t \notin failed =>
       /\ section.run = results[t]
       /\ section.of = IF t = "sweep" THEN locked.trial ELSE checkpoint[t]
Good(doc) ==
  /\ doc \in Seq(Sections) /\ Unique(doc)
  /\ \A i \in DOMAIN doc : IsTrue(doc[i])

(* Whoever stands in a report in front of a section was written before it. *)
Excused(writers, i) ==
  \E j \in i + 1 .. Len(writers) :
    \/ writers[j] = "detection"
    \/ writers[j] # "intensity" /\ \E k \in 1 .. i - 1 : writers[k] = writers[j]
Stands(writers, doc, i) ==
  \E p \in DOMAIN doc :
    doc[p].topic = writers[i] /\ \A q \in 1 .. p - 1 : \E k \in 1 .. i - 1 : writers[k] = doc[q].topic
Ordered(writers, doc) ==
  /\ \A p \in DOMAIN doc : \E k \in DOMAIN writers : writers[k] = doc[p].topic
  /\ \A i \in DOMAIN writers : Excused(writers, i) \/ Stands(writers, doc, i)

ReportInv ==
  /\ log \in Seq(Topic)
  /\ OneWrites
  /\ AtFill = {} => Good(report) /\ Ordered(log, report)
  /\ \A t \in Topic : step[t] = "open" => text[t] = Document(t)
  /\ \A t \in AtFill : report = <<>> /\ Good(text[t]) /\ Ordered(Append(log, t), text[t])
  /\ \A t \in AtMirror : report = text[t]
  /\ AtFill \union AtMirror = {} => mirror = report
LabInv == LabTypeOK /\ ResultsStored /\ (~spoiled => ReportInv)

-----------------------------------------------------------------------------
(* What a program makes of the report it has read: its section takes a     *)
(* place, what stood before stays where it was, and what is dropped is     *)
(* behind the section's old place, or the detection dropped it.            *)
Replaces(new, old, t, p) ==
  /\ new \in Seq(Sections) /\ p \in DOMAIN new /\ new[p] = Section(t)
  /\ \A q \in DOMAIN new : q # p => q \in DOMAIN old /\ new[q] = old[q] /\ old[q].topic # t
  /\ \A q \in DOMAIN old : \/ t = "detection"
                           \/ q \in DOMAIN new /\ new[q].topic = old[q].topic
                           \/ t # "intensity" /\ p \in DOMAIN old /\ old[p].topic = t /\ p < q

LEMMA SectionTyped ==
  ASSUME LabTypeOK, NEW t \in Topic
  PROVE  Section(t) \in Sections /\ Section(t).topic = t
<1>1. (IF t = "sweep" THEN locked.trial ELSE checkpoint[t]) \in Int
  BY DEF LabTypeOK
<1>2. number[t] \in Nat
  BY DEF LabTypeOK
<1> QED BY <1>1, <1>2 DEF Section, Sections

LEMMA PlaceFound ==
  ASSUME NEW doc \in Seq(Sections), Unique(doc), NEW t, Has(doc, t)
  PROVE  /\ Place(doc, t) \in DOMAIN doc /\ doc[Place(doc, t)].topic = t
         /\ \A q \in DOMAIN doc : doc[q].topic = t => q = Place(doc, t)
<1> DEFINE P(i) == doc[i].topic = t /\ \A j \in 1 .. i - 1 : doc[j].topic # t
<1>1. PICK i \in DOMAIN doc : doc[i].topic = t
  BY DEF Has
<1>2. \A j \in 1 .. i - 1 : j \in DOMAIN doc /\ j # i
  OBVIOUS
<1>3. P(i)
  BY <1>1, <1>2 DEF Unique
<1>4. Place(doc, t) = CHOOSE k \in DOMAIN doc : P(k)
  BY DEF Place
<1> HIDE DEF P
<1>5. Place(doc, t) \in DOMAIN doc /\ P(Place(doc, t))
  BY <1>3, <1>4
<1>6. doc[Place(doc, t)].topic = t
  BY <1>5 DEF P
<1> QED BY <1>5, <1>6 DEF Unique

LEMMA AppendsSection ==
  ASSUME NEW doc \in Seq(Sections), NEW t, Section(t) \in Sections, ~Has(doc, t)
  PROVE  \E p \in Nat : Replaces(Append(doc, Section(t)), doc, t, p)
<1> DEFINE new == Append(doc, Section(t))
           p == Len(doc) + 1
<1>1. /\ new \in Seq(Sections) /\ DOMAIN new = 1 .. p /\ new[p] = Section(t)
      /\ \A q \in DOMAIN doc : new[q] = doc[q]
      /\ DOMAIN doc = 1 .. Len(doc) /\ Len(doc) \in Nat
  OBVIOUS
<1>2. \A q \in DOMAIN doc : doc[q].topic # t
  BY DEF Has
<1> HIDE DEF new
<1>3. \A q \in DOMAIN new : q # p => q \in DOMAIN doc
  BY <1>1
<1>4. p \in Nat /\ p \in DOMAIN new /\ \A q \in DOMAIN doc : q \in DOMAIN new
  BY <1>1
<1>5. Replaces(new, doc, t, p)
  BY <1>1, <1>2, <1>3, <1>4 DEF Replaces
<1> QED BY <1>4, <1>5 DEF new

LEMMA UpdateReplaces ==
  ASSUME NEW doc \in Seq(Sections), Unique(doc), Section("intensity") \in Sections
  PROVE  \E p \in Nat : Replaces(update_models_report(doc), doc, "intensity", p)
<1>1. CASE Has(doc, "intensity")
  <2>1. PICK p \in Nat : p = Place(doc, "intensity")
    BY <1>1, PlaceFound
  <2>2. /\ p \in DOMAIN doc /\ doc[p].topic = "intensity"
        /\ \A q \in DOMAIN doc : doc[q].topic = "intensity" => q = p
    BY <1>1, <2>1, PlaceFound
  <2>3. PICK new : new = [doc EXCEPT ![p] = Section("intensity")]
    OBVIOUS
  <2>4. /\ new \in Seq(Sections) /\ DOMAIN new = DOMAIN doc /\ new[p] = Section("intensity")
        /\ \A q \in DOMAIN doc : q # p => new[q] = doc[q]
    BY <2>2, <2>3
  <2>5. Section("intensity").topic = "intensity"
    BY DEF Section
  <2>6. Replaces(new, doc, "intensity", p)
    BY <2>2, <2>4, <2>5 DEF Replaces
  <2>7. update_models_report(doc) = new
    BY <1>1, <2>1, <2>3 DEF update_models_report
  <2> QED BY <2>6, <2>7
<1>2. CASE ~Has(doc, "intensity")
  BY <1>2, AppendsSection DEF update_models_report
<1> QED BY <1>1, <1>2

LEMMA UpdateOfReplaces ==
  ASSUME NEW doc \in Seq(Sections), Unique(doc), NEW t, Section(t) \in Sections, t # "intensity"
  PROVE  \E p \in Nat : Replaces(update_models_report_of(doc, t), doc, t, p)
<1>1. CASE Has(doc, t)
  <2>1. PICK p \in Nat : p = Place(doc, t)
    BY <1>1, PlaceFound
  <2>2. /\ p \in DOMAIN doc /\ doc[p].topic = t /\ p \in 1 .. Len(doc) /\ Len(doc) \in Nat
        /\ \A q \in DOMAIN doc : doc[q].topic = t => q = p
    BY <1>1, <2>1, PlaceFound
  <2>3. PICK front : front = SubSeq(doc, 1, p - 1)
    OBVIOUS
  <2>4. /\ front \in Seq(Sections) /\ Len(front) = p - 1
        /\ \A q \in 1 .. p - 1 : front[q] = doc[q] /\ q \in DOMAIN doc
    BY <2>2, <2>3
  <2>5. PICK new : new = Append(front, Section(t))
    OBVIOUS
  <2>6. /\ new \in Seq(Sections) /\ DOMAIN new = 1 .. p /\ new[p] = Section(t)
        /\ \A q \in 1 .. p - 1 : new[q] = doc[q] /\ q \in DOMAIN doc
    BY <2>2, <2>4, <2>5
  <2>7. \A q \in DOMAIN new : q # p => q \in 1 .. p - 1
    BY <2>2, <2>6
  <2>8. \A q \in DOMAIN doc : q \in 1 .. p - 1 \/ q = p \/ p < q
    BY <2>2
  <2>9. Section(t).topic = t /\ p \in DOMAIN new /\ \A q \in 1 .. p - 1 : q \in DOMAIN new
    BY <2>2, <2>6 DEF Section
  <2>10. Replaces(new, doc, t, p)
    BY <2>2, <2>6, <2>7, <2>8, <2>9 DEF Replaces
  <2>11. update_models_report_of(doc, t) = new
    BY <1>1, <2>1, <2>3, <2>5 DEF update_models_report_of, Before
  <2> QED BY <2>10, <2>11
<1>2. CASE ~Has(doc, t)
  BY <1>2, AppendsSection DEF update_models_report_of
<1> QED BY <1>1, <1>2

LEMMA DocumentReplaces ==
  ASSUME LabTypeOK, NEW t \in Topic,
         t # "detection" => report \in Seq(Sections) /\ Unique(report)
  PROVE  \E p \in Nat : Replaces(Document(t), IF t = "detection" THEN <<>> ELSE report, t, p)
<1>1. Section(t) \in Sections
  BY SectionTyped
<1>2. CASE t = "detection"
  <2>1. PICK new : new = <<Section(t)>>
    OBVIOUS
  <2>2. new \in Seq(Sections) /\ DOMAIN new = {1} /\ new[1] = Section(t) /\ DOMAIN <<>> = {}
    BY <1>1, <2>1
  <2>3. Replaces(new, <<>>, t, 1)
    BY <2>2 DEF Replaces
  <2>4. Document(t) = new
    BY <1>2, <2>1 DEF Document, append_to_models_report
  <2> QED BY <1>2, <2>3, <2>4
<1>3. CASE t = "intensity"
  <2>1. Document(t) = update_models_report(report)
    BY <1>3 DEF Document
  <2> QED BY <1>1, <1>3, <2>1, UpdateReplaces
<1>4. CASE t \notin {"detection", "intensity"}
  <2>1. Document(t) = update_models_report_of(report, t)
    BY <1>4 DEF Topic, Document, update_models_report_stage, update_models_report_track,
                update_models_report_fusion, update_models_report_sweep,
                update_models_report_calibration
  <2>2. \E p \in Nat : Replaces(Document(t), report, t, p)
    BY <1>1, <1>4, <2>1, UpdateOfReplaces
  <2> QED BY <1>4, <2>2
<1> QED BY <1>2, <1>3, <1>4

LEMMA ReplacedUnique ==
  ASSUME NEW new, NEW old, NEW t, NEW p \in Nat, Replaces(new, old, t, p), Unique(old)
  PROVE  Unique(new)
<1>1. Section(t).topic = t
  BY DEF Section
<1> QED BY <1>1 DEF Replaces, Unique

LEMMA ReplacedOrdered ==
  ASSUME NEW writers \in Seq(Topic), NEW t \in Topic, NEW p \in Nat,
         NEW new, NEW old \in Seq(Sections), Replaces(new, old, t, p),
         IF t = "detection" THEN old = <<>> ELSE Ordered(writers, old)
  PROVE  Ordered(Append(writers, t), new)
<1> DEFINE n == Len(writers)
           w == Append(writers, t)
<1>1. /\ n \in Nat /\ DOMAIN writers = 1 .. n /\ DOMAIN w = 1 .. n + 1 /\ Len(w) = n + 1
      /\ w[n + 1] = t /\ \A k \in 1 .. n : w[k] = writers[k]
  OBVIOUS
<1>2. /\ new[p].topic = t /\ p \in DOMAIN new /\ new \in Seq(Sections)
      /\ DOMAIN new = 1 .. Len(new) /\ Len(new) \in Nat
      /\ DOMAIN old = 1 .. Len(old) /\ Len(old) \in Nat
      /\ \A q \in DOMAIN new : q # p => q \in DOMAIN old /\ new[q] = old[q]
  BY DEF Replaces, Section
<1> HIDE DEF w, n
<1>3. \A q \in DOMAIN new : q # p => \E k \in 1 .. n : w[k] = new[q].topic
  <2>1. CASE t = "detection"
    BY <1>2, <2>1
  <2>2. CASE t # "detection"
    BY <1>1, <1>2, <2>2 DEF Ordered
  <2> QED BY <2>1, <2>2
<1>4. \A q \in DOMAIN new : \E k \in DOMAIN w : w[k] = new[q].topic
  <2>1. n + 1 \in DOMAIN w /\ \A k \in 1 .. n : k \in DOMAIN w
    BY <1>1
  <2> QED BY <1>1, <1>2, <1>3, <2>1
<1>5. ASSUME NEW i \in DOMAIN w
      PROVE  Excused(w, i) \/ Stands(w, new, i)
  <2>1. CASE i = n + 1
    <3>1. w[i] = t /\ 1 .. i - 1 = 1 .. n /\ \A q \in 1 .. p - 1 : q \in DOMAIN new /\ q # p
      BY <1>1, <1>2, <2>1
    <3> QED BY <1>2, <1>3, <3>1 DEF Stands
  <2>2. CASE i \in 1 .. n
    <3>1. /\ n + 1 \in i + 1 .. Len(w) /\ w[i] = writers[i]
          /\ \A k \in 1 .. i - 1 : k \in 1 .. n /\ w[k] = writers[k]
          /\ \A j \in i + 1 .. n : j \in i + 1 .. Len(w) /\ w[j] = writers[j]
      BY <1>1, <2>2
    <3>2. CASE t = "detection"
      BY <1>1, <3>1, <3>2 DEF Excused
    <3>3. CASE t # "detection" /\ Excused(writers, i)
      BY <3>1, <3>3 DEF Excused, n
    <3>4. CASE t # "detection" /\ Stands(writers, old, i)
      <4>1. PICK x \in DOMAIN old :
              /\ old[x].topic = writers[i]
              /\ \A q \in 1 .. x - 1 : \E k \in 1 .. i - 1 : writers[k] = old[q].topic
        BY <3>4 DEF Stands
      <4>2. CASE x \in DOMAIN new /\ new[x].topic = old[x].topic
        <5>1. ASSUME NEW q \in 1 .. x - 1
              PROVE  \E k \in 1 .. i - 1 : w[k] = new[q].topic
          <6>1. q \in DOMAIN old /\ q \in DOMAIN new
            BY <1>2, <4>2
          <6>2. new[q].topic = old[q].topic
            <7>1. CASE q # p
              BY <1>2, <6>1, <7>1
            <7>2. CASE q = p
              BY <1>2, <3>4, <6>1, <7>2 DEF Replaces
            <7> QED BY <7>1, <7>2
          <6> QED BY <3>1, <4>1, <6>2
        <5> QED BY <3>1, <4>1, <4>2, <5>1 DEF Stands
      <4>3. CASE t # "intensity" /\ p \in DOMAIN old /\ old[p].topic = t /\ p < x
        <5>1. p \in 1 .. x - 1
          BY <1>2, <4>3
        <5>2. \E k \in 1 .. i - 1 : w[k] = t
          BY <3>1, <4>1, <4>3, <5>1
        <5> QED BY <1>1, <3>1, <4>3, <5>2 DEF Excused
      <4> QED BY <3>4, <4>2, <4>3 DEF Replaces
    <3> QED BY <1>1, <2>2, <3>2, <3>3, <3>4 DEF Ordered
  <2> QED BY <1>1, <2>1, <2>2
<1>6. Ordered(w, new)
  BY <1>4, <1>5 DEF Ordered
<1> QED BY <1>6 DEF w

-----------------------------------------------------------------------------
(* What leaves a section or a document alone.                              *)
OwnRest(t) ==
  /\ number'[t] = number[t] /\ checkpoint'[t] = checkpoint[t]
  /\ t = "sweep" => locked' = locked

LEMMA SectionRests == ASSUME NEW CONSTANT t, OwnRest(t) PROVE Section(t)' = Section(t)
BY DEF OwnRest, Section

LEMMA DocumentRests ==
  ASSUME NEW CONSTANT t \in Topic, OwnRest(t), t # "detection" => report' = report
  PROVE  Document(t)' = Document(t)
<1>1. CASE t = "detection"
  BY <1>1, SectionRests DEF Document, append_to_models_report
<1>2. CASE t = "intensity"
  <2>1. Section("intensity")' = Section("intensity")
    BY <1>2, SectionRests
  <2> QED BY <1>2, <2>1 DEF Document, update_models_report
<1>3. CASE t \notin {"detection", "intensity"}
  <2>1. Section(t)' = Section(t)
    BY SectionRests
  <2>2. Document(t) = update_models_report_of(report, t)
    BY <1>3 DEF Topic, Document, update_models_report_stage, update_models_report_track,
                update_models_report_fusion, update_models_report_sweep,
                update_models_report_calibration
  <2>3. Document(t)' = update_models_report_of(report, t)'
    BY <1>3 DEF Topic, Document, update_models_report_stage, update_models_report_track,
                update_models_report_fusion, update_models_report_sweep,
                update_models_report_calibration
  <2> QED BY <1>3, <2>1, <2>2, <2>3 DEF update_models_report_of
<1> QED BY <1>1, <1>2, <1>3

LEMMA TrueRests ==
  ASSUME NEW CONSTANT section, OwnRest(section.topic),
         step'[section.topic] = step[section.topic],
         results'[section.topic] = results[section.topic],
         failed \subseteq failed', IsTrue(section)
  PROVE  IsTrue(section)'
<1>1. PICK t : t = section.topic
  OBVIOUS
<1>2. Section(t)' = Section(t)
  BY <1>1, SectionRests
<1> QED BY <1>1, <1>2 DEF IsTrue, OwnRest

LEMMA GoodRests ==
  ASSUME NEW CONSTANT doc, Good(doc), \A i \in DOMAIN doc : IsTrue(doc[i])'
  PROVE  Good(doc)'
BY DEF Good, Unique

LEMMA TopicsOf == ASSUME NEW doc \in Seq(Sections) PROVE \A i \in DOMAIN doc : doc[i].topic \in Topic
<1>1. \A i \in DOMAIN doc : doc[i] \in Sections
  OBVIOUS
<1> QED BY <1>1 DEF Sections

(* What a program does before it comes to the report, or when it raises or *)
(* is killed outside of a write.                                           *)
LEMMA WorkKeeps ==
  ASSUME LabInv, NEW CONSTANT t \in Topic, NEW CONSTANT s \in {"off", "train", "lock", "read"},
         step[t] \notin {"fill", "mirror"}, step' = [step EXCEPT ![t] = s],
         UNCHANGED <<report, mirror, log, spoiled>>, LabTypeOK',
         \A u \in Topic \ {t} : OwnRest(u) /\ results'[u] = results[u] /\ text'[u] = text[u],
         s = "off" => t \in failed', failed \subseteq failed',
         s \in {"lock", "read"} => results'[t] = number'[t]
  PROVE  LabInv'
<1> USE DEF LabInv
<1>1. step'[t] = s /\ \A u \in Topic \ {t} : step'[u] = step[u]
  BY DEF LabTypeOK
<1>2. ResultsStored'
  BY <1>1 DEF ResultsStored, OwnRest
<1>3. AtFill' = AtFill /\ AtMirror' = AtMirror /\ t \notin AtFill /\ t \notin AtMirror
  BY <1>1 DEF AtFill, AtMirror
<1>4. ASSUME NEW CONSTANT section, section.topic \in Topic, IsTrue(section)
      PROVE  IsTrue(section)'
  <2>1. CASE section.topic = t
    BY <1>1, <2>1 DEF IsTrue
  <2>2. CASE section.topic # t
    BY <1>1, <1>4, <2>2, TrueRests
  <2> QED BY <2>1, <2>2
<1>5. ASSUME NEW CONSTANT doc, Good(doc) PROVE Good(doc)'
  <2>1. \A i \in DOMAIN doc : doc[i].topic \in Topic /\ IsTrue(doc[i])
    BY <1>5, TopicsOf DEF Good
  <2>2. \A i \in DOMAIN doc : IsTrue(doc[i])'
    BY <1>4, <2>1
  <2> QED BY <1>5, <2>2, GoodRests
<1>6. ASSUME ~spoiled PROVE ReportInv'
  <2> USE <1>6 DEF ReportInv
  <2>1. OneWrites'
    BY <1>1, <1>3 DEF OneWrites
  <2>2. AtFill = {} => Good(report)' /\ Ordered(log, report)'
    <3>1. PICK doc : doc = report /\ doc = report'
      OBVIOUS
    <3>2. AtFill = {} => Good(doc)'
      BY <1>5, <3>1
    <3> QED BY <3>1, <3>2 DEF Good, Unique, Ordered, Excused, Stands
  <2>3. ASSUME NEW CONSTANT u \in Topic, step'[u] = "open" PROVE text'[u] = Document(u)'
    <3>1. u # t /\ step[u] = "open"
      BY <1>1, <2>3
    <3>2. Document(u)' = Document(u)
      BY <3>1, DocumentRests
    <3> QED BY <3>1, <3>2
  <2>4. ASSUME NEW CONSTANT u \in AtFill
        PROVE  report' = <<>> /\ Good(text[u])' /\ Ordered(Append(log, u), text[u])'
    <3>1. u # t /\ text'[u] = text[u]
      BY <1>3 DEF AtFill
    <3>2. PICK doc : doc = text[u] /\ doc = text'[u]
      BY <3>1
    <3>3. Good(doc)'
      BY <1>5, <3>2
    <3>4. Good(text[u])'
      BY <3>2, <3>3 DEF Good, Unique
    <3>5. Ordered(Append(log, u), text[u])
      OBVIOUS
    <3>6. Ordered(Append(log', u), text'[u])
      BY <3>1, <3>5
    <3> QED BY <3>4, <3>6
  <2>5. \A u \in AtMirror : report' = text'[u]
    BY <1>3 DEF AtMirror
  <2> QED BY <1>3, <2>1, <2>2, <2>3, <2>4, <2>5
<1> QED BY <1>2, <1>6

LEMMA StartRunKeeps == ASSUME LabInv, NEW CONSTANT t \in Topic, StartRun(t) PROVE LabInv'
<1>1. PICK n \in Nat : number' = [number EXCEPT ![t] = n]
  <2>1. PICK n \in 1 .. LabRuns : number' = [number EXCEPT ![t] = n]
    BY DEF StartRun
  <2>2. n \in Nat
    BY LabAssumption
  <2> QED BY <2>1, <2>2
<1>2. /\ step[t] = "off" /\ step' = [step EXCEPT ![t] = "train"]
      /\ UNCHANGED <<trials, checkpoint, results, locked, failed, text, report, mirror, log, spoiled>>
  BY DEF StartRun, Goto, reportVars
<1>3. LabTypeOK'
  BY <1>1, <1>2 DEF LabInv, LabTypeOK, LabSteps
<1>4. \A u \in Topic \ {t} : OwnRest(u)
  BY <1>1, <1>2 DEF LabInv, LabTypeOK, OwnRest
<1> QED BY <1>2, <1>3, <1>4, WorkKeeps

(* A training that stored its results, or raises.                          *)
LEMMA TrainedKeeps ==
  ASSUME LabInv, NEW CONSTANT t \in Topic \ {"sweep"}, NEW CONSTANT saved, saved \in Saved(t),
         NEW CONSTANT stored \in BOOLEAN, saved > 0 => stored, Trained(t, saved, stored)
  PROVE  LabInv'
<1>1. saved \in Int /\ t \in Topic
  BY DEF Saved, LabInv, LabTypeOK
<1>2. /\ step[t] = "train" /\ checkpoint' = [checkpoint EXCEPT ![t] = saved]
      /\ results' = IF stored THEN [results EXCEPT ![t] = number[t]] ELSE results
      /\ IF saved > 0 THEN step' = [step EXCEPT ![t] = "read"] /\ failed' = failed
         ELSE step' = [step EXCEPT ![t] = "off"] /\ failed' = failed \union {t}
      /\ UNCHANGED <<number, trials, locked, text, report, mirror, log, spoiled>>
  BY DEF Trained, Goto, Raise, reportVars
<1>3. PICK s \in {"off", "read"} :
        /\ step' = [step EXCEPT ![t] = s] /\ (s = "read" => stored)
        /\ (s = "off" => t \in failed') /\ failed \subseteq failed'
  BY <1>2
<1>4. LabTypeOK'
  BY <1>1, <1>2, <1>3 DEF LabInv, LabTypeOK, LabSteps
<1>5. \A u \in Topic \ {t} : OwnRest(u) /\ results'[u] = results[u] /\ text'[u] = text[u]
  BY <1>1, <1>2 DEF LabInv, LabTypeOK, OwnRest
<1>6. s = "read" => results'[t] = number'[t]
  BY <1>1, <1>2, <1>3 DEF LabInv, LabTypeOK
<1> QED BY <1>1, <1>2, <1>3, <1>4, <1>5, <1>6, WorkKeeps

LEMMA TrainingsKeep ==
  LabInv /\ (train_detection \/ train_intensity \/ train_stage \/ train_track \/ train_fusion)
    => LabInv'
<1> SUFFICES ASSUME LabInv,
                    train_detection \/ train_intensity \/ train_stage \/ train_track \/ train_fusion
             PROVE  LabInv'
  OBVIOUS
<1>1. PICK t \in Topic \ {"sweep"} :
        \E saved \in Saved(t) : Trained(t, saved, saved >= 0) \/ Trained(t, saved, saved > 0)
  BY DEF Topic, train_detection, train_intensity, train_stage, train_track, train_fusion
<1>2. PICK saved \in Saved(t) : Trained(t, saved, saved >= 0) \/ Trained(t, saved, saved > 0)
  BY <1>1
<1>3. saved \in Int
  BY DEF Saved, LabInv, LabTypeOK
<1>4. CASE Trained(t, saved, saved >= 0)
  <2> DEFINE stored == saved >= 0
  <2>1. stored \in BOOLEAN /\ (saved > 0 => stored) /\ Trained(t, saved, stored)
    BY <1>3, <1>4
  <2> HIDE DEF stored
  <2> QED BY <2>1, TrainedKeeps
<1>5. CASE Trained(t, saved, saved > 0)
  <2> DEFINE stored == saved > 0
  <2>1. stored \in BOOLEAN /\ (saved > 0 => stored) /\ Trained(t, saved, stored)
    BY <1>3, <1>5
  <2> HIDE DEF stored
  <2> QED BY <2>1, TrainedKeeps
<1> QED BY <1>2, <1>4, <1>5

LEMMA SweepKeeps ==
  LabInv /\ (RunTrial \/ run_hyperparameter_sweep \/ lock_in_best_config) => LabInv'
<1> SUFFICES ASSUME LabInv, RunTrial \/ run_hyperparameter_sweep \/ lock_in_best_config
             PROVE  LabInv'
  OBVIOUS
<1>1. PICK t \in Topic : t = "sweep"
  BY DEF Topic
<1>2. CASE RunTrial
  <2>1. /\ step[t] = "train" /\ UNCHANGED <<number, results, locked, text, report, mirror, log, spoiled>>
        /\ \/ step' = step /\ failed' = failed
           \/ step' = [step EXCEPT ![t] = "off"] /\ failed' = failed \union {t}
        /\ checkpoint' = checkpoint \/ checkpoint' = [checkpoint EXCEPT ![t] = 0]
        /\ trials' \in Seq(Score)
    <3>1. (\E score \in Score : trials' = Append(trials, score)) \/ trials' = <<>>
      BY <1>2 DEF RunTrial
    <3>2. trials' \in Seq(Score)
      <4>1. trials \in Seq(Score) /\ <<>> \in Seq(Score)
        BY DEF LabInv, LabTypeOK
      <4>2. \A score \in Score : Append(trials, score) \in Seq(Score)
        BY <4>1
      <4> QED BY <3>1, <4>1, <4>2
    <3>3. checkpoint' = checkpoint \/ checkpoint' = [checkpoint EXCEPT ![t] = 0]
      BY <1>1, <1>2 DEF RunTrial
    <3>4. \/ step' = step /\ failed' = failed
          \/ step' = [step EXCEPT ![t] = "off"] /\ failed' = failed \union {t}
      BY <1>1, <1>2 DEF RunTrial, Raise, Goto
    <3>5. step[t] = "train" /\ UNCHANGED <<number, results, locked, text, report, mirror, log, spoiled>>
      BY <1>1, <1>2 DEF RunTrial, reportVars
    <3> QED BY <3>2, <3>3, <3>4, <3>5
  <2>2. PICK s \in {"off", "train"} :
          step' = [step EXCEPT ![t] = s] /\ (s = "off" => t \in failed') /\ failed \subseteq failed'
    BY <2>1 DEF LabInv, LabTypeOK
  <2>3. LabTypeOK'
    BY <2>1, <2>2 DEF LabInv, LabTypeOK, LabSteps
  <2>4. \A u \in Topic \ {t} : OwnRest(u) /\ results'[u] = results[u] /\ text'[u] = text[u]
    BY <1>1, <2>1 DEF LabInv, LabTypeOK, OwnRest
  <2> QED BY <2>1, <2>2, <2>3, <2>4, WorkKeeps
<1>3. CASE run_hyperparameter_sweep
  <2>1. /\ step[t] = "train" /\ step' = [step EXCEPT ![t] = "lock"]
        /\ results' = [results EXCEPT ![t] = number[t]]
        /\ UNCHANGED <<number, trials, checkpoint, locked, failed, text, report, mirror, log, spoiled>>
    BY <1>1, <1>3 DEF run_hyperparameter_sweep, Goto, reportVars
  <2>2. LabTypeOK'
    BY <2>1 DEF LabInv, LabTypeOK, LabSteps
  <2>3. /\ \A u \in Topic \ {t} : OwnRest(u) /\ results'[u] = results[u] /\ text'[u] = text[u]
        /\ results'[t] = number'[t]
    BY <1>1, <2>1 DEF LabInv, LabTypeOK, OwnRest
  <2> QED BY <2>1, <2>2, <2>3, WorkKeeps
<1>4. CASE lock_in_best_config
  <2>1. /\ step[t] = "lock" /\ step' = [step EXCEPT ![t] = "read"]
        /\ locked' = [run |-> number[t], trial |-> Winner] /\ trials' = <<>>
        /\ UNCHANGED <<number, checkpoint, results, failed, text, report, mirror, log, spoiled>>
    BY <1>1, <1>4 DEF lock_in_best_config, Goto, reportVars
  <2>2. Winner \in Nat
    BY DEF Winner
  <2>3. LabTypeOK'
    BY <2>1, <2>2 DEF LabInv, LabTypeOK, LabSteps
  <2>4. /\ \A u \in Topic \ {t} : OwnRest(u) /\ results'[u] = results[u] /\ text'[u] = text[u]
        /\ results'[t] = number'[t]
    BY <1>1, <2>1 DEF LabInv, LabTypeOK, OwnRest, ResultsStored
  <2> QED BY <2>1, <2>3, <2>4, WorkKeeps
<1> QED BY <1>2, <1>3, <1>4

LEMMA CalibrationKeeps == LabInv /\ run_calibration_pipeline => LabInv'
<1> SUFFICES ASSUME LabInv, run_calibration_pipeline PROVE LabInv'
  OBVIOUS
<1>1. PICK t \in Topic : t = "calibration"
  BY DEF Topic
<1>2. /\ step[t] = "train" /\ step' = [step EXCEPT ![t] = "read"]
      /\ results' = [results EXCEPT ![t] = number[t]]
      /\ UNCHANGED <<number, trials, checkpoint, locked, failed, text, report, mirror, log, spoiled>>
  BY <1>1 DEF run_calibration_pipeline, Goto, reportVars
<1>3. LabTypeOK'
  BY <1>2 DEF LabInv, LabTypeOK, LabSteps
<1>4. /\ \A u \in Topic \ {t} : OwnRest(u) /\ results'[u] = results[u] /\ text'[u] = text[u]
      /\ results'[t] = number'[t]
  BY <1>1, <1>2 DEF LabInv, LabTypeOK, OwnRest
<1> QED BY <1>2, <1>3, <1>4, WorkKeeps

LEMMA KilledKeeps == ASSUME LabInv, NEW CONSTANT t \in Topic, Killed(t) PROVE LabInv'
<1>1. PICK c : /\ checkpoint' = [checkpoint EXCEPT ![t] = c]
               /\ c \in {checkpoint[t]} \union
                          (CASE step[t] # "train" \/ t = "calibration" -> {}
                             [] t = "sweep" -> {-(Len(trials) + 1)}
                             [] OTHER -> {number[t], -1})
  BY DEF Killed
<1>2. c \in Int
  BY <1>1 DEF LabInv, LabTypeOK
<1>3. /\ step' = [step EXCEPT ![t] = "off"] /\ failed' = failed \union {t}
      /\ text' = [text EXCEPT ![t] = <<>>]
      /\ trials' \in {trials, <<>>}
      /\ step[t] # "mirror" => mirror' = mirror
      /\ spoiled' = (spoiled \/ step[t] \in {"fill", "mirror"})
      /\ UNCHANGED <<number, results, locked, report, log>>
  BY DEF Killed, Raise, Goto
<1>4. LabTypeOK'
  <2>1. step' \in [Topic -> LabSteps] /\ checkpoint' \in [Topic -> Int]
    BY <1>1, <1>2, <1>3 DEF LabInv, LabTypeOK, LabSteps
  <2>2. <<>> \in Seq(Score)
    OBVIOUS
  <2>3. trials' \in Seq(Score)
    BY <1>3, <2>2 DEF LabInv, LabTypeOK
  <2>4. DOMAIN text' = Topic
    BY <1>3 DEF LabInv, LabTypeOK
  <2>5. spoiled' \in BOOLEAN
    BY <1>3 DEF LabInv, LabTypeOK
  <2> QED BY <1>3, <2>1, <2>3, <2>4, <2>5 DEF LabInv, LabTypeOK
<1>5. \A u \in Topic \ {t} : OwnRest(u) /\ results'[u] = results[u] /\ text'[u] = text[u]
  BY <1>1, <1>3 DEF LabInv, LabTypeOK, OwnRest
<1>6. CASE step[t] \in {"fill", "mirror"}
  <2>1. ResultsStored'
    BY <1>3 DEF LabInv, LabTypeOK, ResultsStored
  <2> QED BY <1>3, <1>4, <1>6, <2>1 DEF LabInv
<1>7. CASE step[t] \notin {"fill", "mirror"}
  <2>1. spoiled' = spoiled
    BY <1>3, <1>7 DEF LabInv, LabTypeOK
  <2> QED BY <1>3, <1>4, <1>5, <1>7, <2>1, WorkKeeps
<1> QED BY <1>6, <1>7

-----------------------------------------------------------------------------
(* At the report.                                                          *)
LEMMA StoredStays ==
  ASSUME LabInv, NEW CONSTANT t \in Topic, NEW CONSTANT s \in LabSteps,
         step[t] \notin {"off", "train"}, step' = [step EXCEPT ![t] = s],
         UNCHANGED <<number, results>>
  PROVE  ResultsStored'
BY DEF LabInv, LabTypeOK, ResultsStored

LEMMA ReadKeeps == ASSUME LabInv, NEW CONSTANT t \in Topic, Read(t) PROVE LabInv'
<1> USE DEF LabInv
<1>1. /\ step[t] = "read" /\ step' = [step EXCEPT ![t] = "open"]
      /\ text' = [text EXCEPT ![t] = Document(t)]
      /\ spoiled' = (spoiled \/ (t # "detection" /\ Halfway(t)))
      /\ UNCHANGED <<number, trials, checkpoint, results, locked, report, mirror, log, failed>>
  BY DEF Read, Goto
<1>2. LabTypeOK'
  BY <1>1 DEF LabTypeOK, LabSteps
<1>3. ResultsStored'
  BY <1>1, StoredStays DEF LabSteps
<1>4. ASSUME ~spoiled' PROVE ReportInv'
  <2>1. ~spoiled /\ (t = "detection" \/ ~Halfway(t)) /\ ReportInv
    BY <1>1, <1>4 DEF LabTypeOK
  <2> USE DEF ReportInv
  <2>2. /\ step'[t] = "open" /\ text'[t] = Document(t)
        /\ \A u \in Topic \ {t} : step'[u] = step[u] /\ text'[u] = text[u]
    BY <1>1 DEF LabTypeOK
  <2>3. AtFill' = AtFill /\ AtMirror' = AtMirror /\ t \notin AtFill /\ t \notin AtMirror
    BY <1>1, <2>2 DEF AtFill, AtMirror
  <2>4. OneWrites'
    BY <2>1, <2>2, <2>3 DEF OneWrites, Halfway, AtFill
  <2>5. \A u \in Topic : OwnRest(u)
    BY <1>1 DEF OwnRest
  <2>6. ASSUME NEW CONSTANT section, section.topic \in Topic, IsTrue(section)
        PROVE  IsTrue(section)'
    <3>1. CASE section.topic = t
      BY <2>2, <3>1 DEF IsTrue
    <3>2. CASE section.topic # t
      BY <1>1, <2>2, <2>5, <2>6, <3>2, TrueRests
    <3> QED BY <3>1, <3>2
  <2>7. ASSUME NEW CONSTANT doc, Good(doc) PROVE Good(doc)'
    <3>1. \A i \in DOMAIN doc : doc[i].topic \in Topic /\ IsTrue(doc[i])
      BY <2>7, TopicsOf DEF Good
    <3>2. \A i \in DOMAIN doc : IsTrue(doc[i])'
      BY <2>6, <3>1
    <3> QED BY <2>7, <3>2, GoodRests
  <2>8. AtFill = {} => Good(report)' /\ Ordered(log', report')
    <3>1. PICK doc : doc = report /\ doc = report'
      BY <1>1
    <3>2. AtFill = {} => Good(doc)'
      BY <2>1, <2>7, <3>1
    <3> QED BY <1>1, <2>1, <3>1, <3>2 DEF Good, Unique
  <2>9. ASSUME NEW CONSTANT u \in Topic, step'[u] = "open" PROVE text'[u] = Document(u)'
    <3>1. Document(u)' = Document(u)
      BY <1>1, <2>5, DocumentRests
    <3> QED BY <2>1, <2>2, <2>9, <3>1
  <2>10. ASSUME NEW CONSTANT u \in AtFill
         PROVE  report' = <<>> /\ Good(text[u])' /\ Ordered(Append(log', u), text'[u])
    <3>1. u # t /\ text'[u] = text[u]
      BY <2>2, <2>3 DEF AtFill
    <3>2. PICK doc : doc = text[u] /\ doc = text'[u]
      BY <3>1
    <3>3. Good(doc)'
      BY <2>1, <2>7, <3>2
    <3>4. Good(text[u])'
      BY <3>2, <3>3 DEF Good, Unique
    <3>5. Ordered(Append(log', u), text'[u])
      BY <1>1, <2>1, <3>1
    <3> QED BY <1>1, <2>1, <3>4, <3>5
  <2>11. \A u \in AtMirror : report' = text'[u]
    BY <1>1, <2>1, <2>2, <2>3 DEF AtMirror
  <2> QED BY <1>1, <2>1, <2>3, <2>4, <2>8, <2>9, <2>10, <2>11
<1> QED BY <1>2, <1>3, <1>4

LEMMA OpenReportKeeps == ASSUME LabInv, NEW CONSTANT t \in Topic, OpenReport(t) PROVE LabInv'
<1> USE DEF LabInv
<1>1. /\ step[t] = "open" /\ step' = [step EXCEPT ![t] = "fill"] /\ report' = <<>>
      /\ spoiled' = (spoiled \/ Overlaps(t))
      /\ UNCHANGED <<number, trials, text, checkpoint, results, locked, mirror, log, failed>>
  BY DEF OpenReport, Goto
<1>2. LabTypeOK'
  BY <1>1 DEF LabTypeOK, LabSteps
<1>3. ResultsStored'
  BY <1>1, StoredStays DEF LabSteps
<1>4. ASSUME ~spoiled' PROVE ReportInv'
  <2>1. ~spoiled /\ ~Overlaps(t) /\ ReportInv
    BY <1>1, <1>4 DEF LabTypeOK
  <2>2. /\ \A u \in Topic \ {t} : step[u] \notin {"fill", "mirror"}
        /\ \A u \in Topic \ {t} : step[u] = "open" => u = "detection"
    BY <2>1 DEF Overlaps, AtReport
  <2>3. /\ step'[t] = "fill" /\ \A u \in Topic \ {t} : step'[u] = step[u]
        /\ AtFill = {} /\ AtMirror = {} /\ AtFill' = {t} /\ AtMirror' = {}
    BY <1>1, <2>2 DEF LabTypeOK, AtFill, AtMirror
  <2>4. OneWrites'
    BY <2>2, <2>3 DEF OneWrites
  <2>5. \A u \in Topic : OwnRest(u)
    BY <1>1 DEF OwnRest
  <2>6. PICK old, doc : /\ old = IF t = "detection" THEN <<>> ELSE report
                        /\ doc = Document(t)
    OBVIOUS
  <2>7. /\ old \in Seq(Sections) /\ Unique(old) /\ \A i \in DOMAIN old : IsTrue(old[i])
        /\ log \in Seq(Topic)
        /\ IF t = "detection" THEN old = <<>> ELSE Ordered(log, old)
    BY <2>1, <2>3, <2>6 DEF ReportInv, Good, Unique
  <2>8. PICK p \in Nat : Replaces(doc, old, t, p)
    BY <2>6, <2>7, DocumentReplaces
  <2>9. Ordered(Append(log, t), doc)
    BY <2>7, <2>8, ReplacedOrdered
  <2>10. doc = text[t] /\ text' = text
    BY <1>1, <2>1, <2>6 DEF ReportInv
  <2>11. \A i \in DOMAIN doc : IsTrue(doc[i])'
    <3> SUFFICES ASSUME NEW CONSTANT i \in DOMAIN doc PROVE IsTrue(doc[i])'
      OBVIOUS
    <3>1. CASE i = p
      <4>1. doc[i] = Section(t) /\ Section(t).topic = t
        BY <2>8, <3>1 DEF Replaces, Section
      <4>2. Section(t)' = Section(t)
        BY <2>5, SectionRests
      <4> QED BY <2>3, <4>1, <4>2 DEF IsTrue
    <3>2. CASE i # p
      <4>1. doc[i] = old[i] /\ i \in DOMAIN old /\ doc[i].topic # t
        BY <2>8, <3>2 DEF Replaces
      <4>2. IsTrue(doc[i]) /\ doc[i].topic \in Topic
        BY <2>7, <4>1, TopicsOf
      <4> QED BY <1>1, <2>3, <2>5, <4>1, <4>2, TrueRests
    <3> QED BY <3>1, <3>2
  <2>12. Good(doc)'
    <3>1. doc \in Seq(Sections) /\ Unique(doc)
      BY <2>7, <2>8, ReplacedUnique DEF Replaces
    <3> QED BY <2>11, <3>1 DEF Good, Unique
  <2>13. Good(text[t])'
    BY <2>10, <2>12 DEF Good, Unique
  <2>14. Ordered(Append(log', t), text'[t])
    BY <1>1, <2>9, <2>10
  <2>15. ASSUME NEW CONSTANT u \in Topic, step'[u] = "open" PROVE text'[u] = Document(u)'
    <3>1. u = "detection" /\ step[u] = "open" /\ u # t
      BY <2>2, <2>3, <2>15
    <3>2. Document(u)' = Document(u)
      BY <2>5, <3>1, DocumentRests
    <3> QED BY <1>1, <2>1, <3>1, <3>2 DEF ReportInv
  <2> QED BY <1>1, <2>3, <2>4, <2>7, <2>13, <2>14, <2>15 DEF ReportInv
<1> QED BY <1>2, <1>3, <1>4

LEMMA FillReportKeeps == ASSUME LabInv, NEW CONSTANT t \in Topic, FillReport(t) PROVE LabInv'
<1> USE DEF LabInv
<1>1. /\ step[t] = "fill" /\ step' = [step EXCEPT ![t] = "mirror"] /\ log' = Append(log, t)
      /\ report' = text[t] \o SubSeq(report, Len(text[t]) + 1, Len(report))
      /\ UNCHANGED <<number, trials, text, checkpoint, results, locked, mirror, failed, spoiled>>
  BY DEF FillReport, Goto
<1>2. LabTypeOK'
  BY <1>1 DEF LabTypeOK, LabSteps
<1>3. ResultsStored'
  BY <1>1, StoredStays DEF LabSteps
<1>4. ASSUME ~spoiled' PROVE ReportInv'
  <2>1. ~spoiled /\ ReportInv
    BY <1>1, <1>4
  <2>2. /\ AtFill = {t} /\ AtMirror = {}
        /\ \A u \in Topic : step[u] = "open" => u = "detection"
    BY <1>1, <2>1 DEF ReportInv, OneWrites, AtFill, AtMirror
  <2>3. /\ step'[t] = "mirror" /\ \A u \in Topic \ {t} : step'[u] = step[u]
        /\ AtFill' = {} /\ AtMirror' = {t}
    BY <1>1, <2>2 DEF LabTypeOK, AtFill, AtMirror
  <2>4. OneWrites'
    BY <2>3 DEF OneWrites
  <2>5. \A u \in Topic : OwnRest(u)
    BY <1>1 DEF OwnRest
  <2>6. PICK doc : doc = text[t]
    OBVIOUS
  <2>7. /\ Good(doc) /\ doc \in Seq(Sections) /\ Ordered(Append(log, t), doc) /\ report = <<>>
        /\ log \in Seq(Topic)
    BY <2>1, <2>2, <2>6 DEF ReportInv, Good
  <2>8. SubSeq(report, Len(doc) + 1, Len(report)) = <<>>
    <3>1. Len(doc) \in Nat /\ report = <<>>
      BY <2>7
    <3> QED BY <3>1
  <2>9. report' = doc
    <3>1. doc \o <<>> = doc
      BY <2>7
    <3> QED BY <1>1, <2>6, <2>8, <3>1
  <2>10. \A i \in DOMAIN doc : IsTrue(doc[i])'
    <3> SUFFICES ASSUME NEW CONSTANT i \in DOMAIN doc PROVE IsTrue(doc[i])'
      OBVIOUS
    <3>1. IsTrue(doc[i]) /\ doc[i].topic \in Topic
      BY <2>7, TopicsOf DEF Good
    <3>2. CASE doc[i].topic # t
      BY <1>1, <2>3, <2>5, <3>1, <3>2, TrueRests
    <3>3. CASE doc[i].topic = t
      <4>1. doc[i] = Section(t)
        BY <1>1, <3>1, <3>3 DEF IsTrue
      <4>2. Section(t)' = Section(t)
        BY <2>5, SectionRests
      <4> QED BY <2>3, <3>3, <4>1, <4>2 DEF IsTrue
    <3> QED BY <3>2, <3>3
  <2>11. Good(doc)'
    BY <2>7, <2>10, GoodRests
  <2>12. Good(report)' /\ Ordered(log', report')
    BY <1>1, <2>7, <2>9, <2>11 DEF Good, Unique
  <2>13. ASSUME NEW CONSTANT u \in Topic, step'[u] = "open" PROVE text'[u] = Document(u)'
    <3>1. u = "detection" /\ step[u] = "open"
      BY <2>2, <2>3, <2>13
    <3>2. Document(u)' = Document(u)
      BY <2>5, <3>1, DocumentRests
    <3> QED BY <1>1, <2>1, <3>1, <3>2 DEF ReportInv
  <2>14. log' \in Seq(Topic)
    BY <1>1, <2>7
  <2> QED BY <1>1, <2>3, <2>4, <2>6, <2>9, <2>12, <2>13, <2>14 DEF ReportInv
<1> QED BY <1>2, <1>3, <1>4

LEMMA WriteMirrorKeeps == ASSUME LabInv, NEW CONSTANT t \in Topic, WriteMirror(t) PROVE LabInv'
<1> USE DEF LabInv
<1>1. /\ step[t] = "mirror" /\ step' = [step EXCEPT ![t] = "off"] /\ mirror' = text[t]
      /\ text' = [text EXCEPT ![t] = <<>>]
      /\ UNCHANGED <<number, trials, checkpoint, results, locked, report, log, failed, spoiled>>
  BY DEF WriteMirror, Goto
<1>2. LabTypeOK'
  BY <1>1 DEF LabTypeOK, LabSteps
<1>3. ResultsStored'
  BY <1>1, StoredStays DEF LabSteps
<1>4. ASSUME ~spoiled' PROVE ReportInv'
  <2>1. ~spoiled /\ ReportInv
    BY <1>1, <1>4
  <2>2. AtFill = {} /\ AtMirror = {t} /\ report = text[t] /\ results[t] = number[t]
    BY <1>1, <2>1 DEF ReportInv, OneWrites, AtFill, AtMirror, ResultsStored
  <2>3. /\ step'[t] = "off" /\ \A u \in Topic \ {t} : step'[u] = step[u] /\ text'[u] = text[u]
        /\ AtFill' = {} /\ AtMirror' = {}
    BY <1>1, <2>2 DEF LabTypeOK, AtFill, AtMirror
  <2>4. OneWrites'
    BY <2>3 DEF OneWrites
  <2>5. \A u \in Topic : OwnRest(u)
    BY <1>1 DEF OwnRest
  <2>6. PICK doc : doc = report
    OBVIOUS
  <2>7. Good(doc) /\ doc \in Seq(Sections) /\ Ordered(log, doc) /\ log \in Seq(Topic)
    BY <2>1, <2>2, <2>6 DEF ReportInv, Good
  <2>8. \A i \in DOMAIN doc : IsTrue(doc[i])'
    <3> SUFFICES ASSUME NEW CONSTANT i \in DOMAIN doc PROVE IsTrue(doc[i])'
      OBVIOUS
    <3>1. IsTrue(doc[i]) /\ doc[i].topic \in Topic
      BY <2>7, TopicsOf DEF Good
    <3>2. CASE doc[i].topic # t
      BY <1>1, <2>3, <2>5, <3>1, <3>2, TrueRests
    <3>3. CASE doc[i].topic = t
      <4>1. doc[i] = Section(t)
        BY <1>1, <3>1, <3>3 DEF IsTrue
      <4>2. /\ doc[i].run = results'[t]
            /\ doc[i].of = IF t = "sweep" THEN locked'.trial ELSE checkpoint'[t]
        BY <1>1, <2>2, <4>1 DEF Section
      <4> QED BY <2>3, <3>3, <4>2 DEF IsTrue
    <3> QED BY <3>2, <3>3
  <2>9. Good(doc)'
    BY <2>7, <2>8, GoodRests
  <2>10. Good(report)' /\ Ordered(log', report')
    BY <1>1, <2>6, <2>7, <2>9 DEF Good, Unique
  <2>11. ASSUME NEW CONSTANT u \in Topic, step'[u] = "open" PROVE text'[u] = Document(u)'
    <3>1. u # t /\ step[u] = "open" /\ text'[u] = text[u]
      BY <2>3, <2>11
    <3>2. Document(u)' = Document(u)
      BY <1>1, <2>5, DocumentRests
    <3> QED BY <2>1, <3>1, <3>2 DEF ReportInv
  <2> QED BY <1>1, <2>2, <2>3, <2>4, <2>7, <2>10, <2>11 DEF ReportInv
<1> QED BY <1>2, <1>3, <1>4

LEMMA LabStarts == LabInit => LabInv
<1> SUFFICES ASSUME LabInit PROVE LabInv
  OBVIOUS
<1>1. LabTypeOK /\ ResultsStored
  <2>1. trials \in Seq(Score)
    <3>1. <<>> \in Seq(Score)
      OBVIOUS
    <3> QED BY <3>1 DEF LabInit
  <2>2. step \in [Topic -> LabSteps] /\ spoiled \in BOOLEAN /\ DOMAIN text = Topic
    BY DEF LabInit, LabSteps
  <2>3. /\ number \in [Topic -> Nat] /\ results \in [Topic -> Nat]
        /\ checkpoint \in [Topic -> Int] /\ locked \in [run : Nat, trial : Nat]
    BY DEF LabInit
  <2>4. ResultsStored
    BY DEF LabInit, ResultsStored
  <2> QED BY <2>1, <2>2, <2>3, <2>4 DEF LabTypeOK
<1>2. ReportInv
  <2>1. AtFill = {} /\ AtMirror = {} /\ OneWrites /\ \A t \in Topic : step[t] # "open"
    BY DEF LabInit, AtFill, AtMirror, OneWrites
  <2>2. report = <<>> /\ mirror = <<>> /\ log = <<>>
    BY DEF LabInit
  <2>3. <<>> \in Seq(Sections) /\ <<>> \in Seq(Topic) /\ DOMAIN <<>> = {}
    OBVIOUS
  <2>4. Good(report) /\ Ordered(log, report)
    BY <2>2, <2>3 DEF Good, Unique, Ordered
  <2> QED BY <2>1, <2>2, <2>3, <2>4 DEF ReportInv
<1> QED BY <1>1, <1>2 DEF LabInv

LEMMA LabRests == LabInv /\ UNCHANGED labVars => LabInv'
<1> SUFFICES ASSUME LabInv, UNCHANGED labVars PROVE LabInv'
  OBVIOUS
<1> USE DEF LabInv
<1>1. UNCHANGED <<step, number, trials, text, checkpoint, results, locked, report, mirror,
                  log, failed, spoiled>>
  BY DEF labVars
<1>2. LabTypeOK' /\ ResultsStored'
  BY <1>1 DEF LabTypeOK, ResultsStored
<1>3. ASSUME ~spoiled PROVE ReportInv'
  <2> USE <1>3 DEF ReportInv
  <2>1. AtFill' = AtFill /\ AtMirror' = AtMirror /\ OneWrites'
    BY <1>1 DEF AtFill, AtMirror, OneWrites
  <2>2. ASSUME NEW CONSTANT section, IsTrue(section) PROVE IsTrue(section)'
    BY <1>1, <2>2 DEF IsTrue, Section
  <2>3. ASSUME NEW CONSTANT doc, Good(doc) PROVE Good(doc)'
    BY <2>2, <2>3, GoodRests DEF Good
  <2>4. AtFill = {} => Good(report)' /\ Ordered(log', report')
    <3>1. PICK doc : doc = report /\ doc = report'
      BY <1>1
    <3>2. AtFill = {} => Good(doc)'
      BY <2>3, <3>1
    <3> QED BY <1>1, <3>1, <3>2 DEF Good, Unique
  <2>5. ASSUME NEW CONSTANT u \in Topic, step'[u] = "open" PROVE text'[u] = Document(u)'
    <3>1. Document(u)' = Document(u)
      BY <1>1, DocumentRests DEF OwnRest
    <3> QED BY <1>1, <2>5, <3>1
  <2>6. ASSUME NEW CONSTANT u \in AtFill
        PROVE  report' = <<>> /\ Good(text[u])' /\ Ordered(Append(log', u), text'[u])
    <3>1. PICK doc : doc = text[u] /\ doc = text'[u]
      BY <1>1
    <3>2. Good(doc)'
      BY <2>3, <3>1
    <3>3. Good(text[u])'
      BY <3>1, <3>2 DEF Good, Unique
    <3> QED BY <1>1, <3>3
  <2> QED BY <1>1, <2>1, <2>4, <2>5, <2>6
<1> QED BY <1>1, <1>2, <1>3

LEMMA LabKeeps == LabInv /\ [LabNext]_labVars => LabInv'
<1> SUFFICES ASSUME LabInv, [LabNext]_labVars PROVE LabInv'
  OBVIOUS
<1>1. CASE \E t \in Topic : StartRun(t) \/ Read(t) \/ OpenReport(t) \/ FillReport(t)
                              \/ WriteMirror(t) \/ Killed(t)
  BY <1>1, StartRunKeeps, ReadKeeps, OpenReportKeeps, FillReportKeeps, WriteMirrorKeeps, KilledKeeps
<1>2. CASE train_detection \/ train_intensity \/ train_stage \/ train_track \/ train_fusion
  BY <1>2, TrainingsKeep
<1>3. CASE RunTrial \/ run_hyperparameter_sweep \/ lock_in_best_config
  BY <1>3, SweepKeeps
<1>4. CASE run_calibration_pipeline
  BY <1>4, CalibrationKeeps
<1> QED BY <1>1, <1>2, <1>3, <1>4, LabRests DEF LabNext

THEOREM LabInvariant == LabSpec => []LabInv
BY LabStarts, LabKeeps, PTL DEF LabSpec

(* What ReportIsTrue and LostSectionHasACause say follows.                 *)
LEMMA ReportFollows == LabInv => ReportIsTrue
<1> SUFFICES ASSUME LabInv, ~spoiled, \A t \in Topic : step[t] = "off" PROVE
      /\ mirror = report /\ Unique(report)
      /\ \A i \in DOMAIN report :
           report[i].topic \notin failed =>
             /\ report[i].run = results[report[i].topic]
             /\ report[i].of = IF report[i].topic = "sweep" THEN locked.trial
                               ELSE checkpoint[report[i].topic]
  BY DEF ReportIsTrue, Unique
<1>1. AtFill = {} /\ AtMirror = {} /\ ReportInv
  BY DEF AtFill, AtMirror, LabInv
<1>2. Good(report) /\ mirror = report
  BY <1>1 DEF ReportInv
<1>3. \A i \in DOMAIN report : IsTrue(report[i]) /\ step[report[i].topic] = "off"
  BY <1>2, TopicsOf DEF Good
<1> QED BY <1>2, <1>3 DEF Good, IsTrue

LEMMA LostSectionFollows == LabInv => LostSectionHasACause
<1> SUFFICES ASSUME LabInv, ~spoiled, \A t \in Topic : step[t] # "fill", NEW i \in DOMAIN log
             PROVE  Has(report, log[i]) \/ Excused(log, i)
  BY DEF LostSectionHasACause, Excused
<1>1. AtFill = {} /\ ReportInv
  BY DEF AtFill, LabInv
<1>2. Excused(log, i) \/ Stands(log, report, i)
  BY <1>1 DEF ReportInv, Ordered
<1> QED BY <1>2 DEF Stands, Has

(* While no two programs were at the report at once, it tells of what is   *)
(* on disk.                                                                *)
THEOREM ReportTrueCorrect == LabSpec => []ReportIsTrue
BY LabInvariant, ReportFollows, PTL

(* And no section is gone from it but for a program that drops what stands *)
(* behind its own.                                                         *)
THEOREM LostSectionCorrect == LabSpec => []LostSectionHasACause
BY LabInvariant, LostSectionFollows, PTL

-----------------------------------------------------------------------------
(* Counting those before an element of a finite, totally ordered set ranks *)
(* its elements from nought without a gap.                                 *)
LEMMA Ranking ==
  ASSUME NEW S, IsFiniteSet(S), NEW before \in [S -> SUBSET S],
         \A x \in S : x \notin before[x],
         \A x, y \in S : x # y => x \in before[y] \/ y \in before[x],
         \A x, y \in S : x \in before[y] => before[x] \subseteq before[y]
  PROVE  /\ Cardinality(S) \in Nat
         /\ \A x \in S : Cardinality(before[x]) \in 0 .. Cardinality(S) - 1
         /\ \A x, y \in S : x \in before[y] => Cardinality(before[x]) < Cardinality(before[y])
         /\ \A k \in 0 .. Cardinality(S) - 1 : \E x \in S : Cardinality(before[x]) = k
<1> DEFINE n == Cardinality(S)
           rank == [x \in S |-> Cardinality(before[x])]
<1>1. n \in Nat
  BY FS_CardinalityType
<1>2. ASSUME NEW x \in S
      PROVE  IsFiniteSet(before[x]) /\ rank[x] \in 0 .. n - 1
  <2>1. IsFiniteSet(S \ {x}) /\ Cardinality(S \ {x}) = n - 1
    BY FS_RemoveElement
  <2>2. before[x] \in SUBSET (S \ {x})
    OBVIOUS
  <2>3. IsFiniteSet(before[x]) /\ Cardinality(before[x]) <= n - 1
    BY <2>1, <2>2, FS_Subset
  <2>4. Cardinality(before[x]) \in Nat
    BY <2>3, FS_CardinalityType
  <2> QED BY <2>3, <2>4, <1>1
<1>3. ASSUME NEW x \in S, NEW y \in S, x \in before[y]
      PROVE  rank[x] < rank[y]
  <2>1. before[x] \in SUBSET before[y] /\ before[x] # before[y]
    BY <1>3
  <2>2. IsFiniteSet(before[y]) /\ rank[x] \in Nat /\ rank[y] \in Nat
    BY <1>1, <1>2
  <2>3. Cardinality(before[x]) <= Cardinality(before[y])
        /\ Cardinality(before[x]) # Cardinality(before[y])
    BY <2>1, <2>2, FS_Subset
  <2> QED BY <2>2, <2>3
<1>4. ASSUME NEW k \in 0 .. n - 1, \A x \in S : rank[x] # k
      PROVE  FALSE
  <2> DEFINE T == (0 .. n - 1) \ {k}
  <2>1. IsFiniteSet(0 .. n - 1) /\ Cardinality(0 .. n - 1) = n
    BY <1>1, FS_Interval
  <2>2. IsFiniteSet(T) /\ Cardinality(T) = n - 1
    BY <2>1, FS_RemoveElement
  <2>3. rank \in [S -> T]
    BY <1>2, <1>4
  <2>4. Cardinality(T) < Cardinality(S)
    BY <2>2, <1>1
  <2>5. PICK x \in S, y \in S : x # y /\ rank[x] = rank[y]
    <3> HIDE DEF T, rank
    <3> QED BY <2>2, <2>3, <2>4, FS_PigeonHole
  <2>6. rank[x] < rank[y] \/ rank[y] < rank[x]
    BY <2>5, <1>3
  <2>7. rank[x] \in Int /\ rank[y] \in Int
    BY <1>2
  <2> HIDE DEF rank
  <2> QED BY <2>5, <2>6, <2>7
<1> QED BY <1>1, <1>2, <1>3, <1>4

-----------------------------------------------------------------------------
(* The splits.                                                             *)

SplitSpec == SplitInit /\ [][SplitNext]_splitVars

Storm == [start : Int, demo : BOOLEAN]
RegularCount == Cardinality(Regular)
TestEarns == splits.test = {} => RegularCount < 2

(* What make_splits leaves, until the program ends.                        *)
SplitsInOrder ==
  /\ Demo \cap (splits.train \union splits.val \union splits.test) = {}
  /\ splits.train \cap splits.test = {}
  /\ RegularCount > 2 => {} \notin {splits.train, splits.val, splits.test}
  /\ \A i \in splits.train, j \in splits.val \union splits.test :
       storms[i].start <= storms[j].start
  /\ \A i \in splits.val, j \in splits.test : storms[i].start <= storms[j].start
  /\ TestEarns
SplitInv ==
  /\ storms \in Seq(Storm)
  /\ phase \in {"split", "done"} => SplitsInOrder
  /\ HeldOutIsHeldOut

LEMMA ShareTyped ==
  ASSUME NEW n \in Nat, NEW percent \in Nat
  PROVE  Share(n, percent) \in Nat
<1>1. (n * percent) \div 100 \in Nat /\ n * percent \in Nat
  OBVIOUS
<1> QED BY <1>1 DEF Share

(* Of three storms or more each share has one, of two the test has.        *)
LEMMA PartitionLeavesSome ==
  ASSUME NEW n \in Nat
  PROVE  LET part == Partition(n)
         IN /\ part.train \in Nat /\ part.val \in Nat
            /\ n > 2 => part.train > 0 /\ part.val > 0 /\ part.train + part.val < n
            /\ n = 2 => part.train + part.val < n
<1> DEFINE train == AtLeastOne(Share(n, 70))
           val == AtLeastOne(Share(n, 15))
<1>1. train \in Nat \ {0} /\ val \in Nat \ {0}
  <2>1. Share(n, 70) \in Nat
    BY ShareTyped
  <2>2. Share(n, 15) \in Nat
    BY ShareTyped
  <2> QED BY <2>1, <2>2 DEF AtLeastOne
<1>2. Partition(n) = IF n = 0 THEN Counts(0, 0, 0) ELSE IF n = 1 THEN Counts(1, 0, 1)
                     ELSE IF n = 2 THEN Counts(1, 0, 2)
                     ELSE IF train + val >= n THEN Counts(n - 2, 1, n)
                     ELSE Counts(train, val, n)
  BY DEF Partition
<1> HIDE DEF train, val
<1> QED BY <1>1, <1>2 DEF Counts

LEMMA RegularTyped ==
  ASSUME storms \in Seq(Storm)
  PROVE  \A i \in Regular : i \in Int /\ storms[i] \in Storm /\ storms[i].start \in Int
<1>1. \A i \in Regular : i \in 1 .. Len(storms) /\ storms[i] \in Storm
  BY DEF Regular
<1>2. \A s \in Storm : s.start \in Int
  BY DEF Storm
<1> QED BY <1>1, <1>2

LEMMA RegularRanked ==
  ASSUME storms \in Seq(Storm)
  PROVE  /\ RegularCount \in Nat
         /\ \A i \in Regular : Rank(i) \in 0 .. RegularCount - 1
         /\ \A i, j \in Regular : storms[i].start < storms[j].start => Rank(i) < Rank(j)
         /\ \A k \in 0 .. RegularCount - 1 : \E i \in Regular : Rank(i) = k
<1> DEFINE before == [i \in Regular |->
              {j \in Regular : \/ storms[j].start < storms[i].start
                               \/ storms[j].start = storms[i].start /\ j < i}]
<1>1. \A i \in Regular : storms[i].start \in Int /\ i \in Int
  BY RegularTyped
<1>2. IsFiniteSet(Regular)
  <2>1. Regular \in SUBSET (1 .. Len(storms)) /\ Len(storms) \in Nat
    BY DEF Regular
  <2>2. IsFiniteSet(1 .. Len(storms))
    BY <2>1, FS_Interval
  <2> QED BY <2>1, <2>2, FS_Subset
<1>3. before \in [Regular -> SUBSET Regular]
  OBVIOUS
<1>4. \A i \in Regular : i \notin before[i]
  BY <1>1
<1>5. \A i, j \in Regular : i # j => i \in before[j] \/ j \in before[i]
  BY <1>1
<1>6. \A i, j \in Regular : i \in before[j] => before[i] \subseteq before[j]
  BY <1>1
<1>7. \A i, j \in Regular : storms[i].start < storms[j].start => i \in before[j]
  OBVIOUS
<1>8. \A i \in Regular : Rank(i) = Cardinality(before[i])
  BY DEF Rank
<1> HIDE DEF before
<1>9. /\ Cardinality(Regular) \in Nat
      /\ \A i \in Regular : Cardinality(before[i]) \in 0 .. Cardinality(Regular) - 1
      /\ \A i, j \in Regular : i \in before[j] => Cardinality(before[i]) < Cardinality(before[j])
      /\ \A k \in 0 .. Cardinality(Regular) - 1 : \E i \in Regular : Cardinality(before[i]) = k
  BY <1>2, <1>3, <1>4, <1>5, <1>6, Ranking
<1> QED BY <1>7, <1>8, <1>9 DEF RegularCount

LEMMA SplitStarts == SplitInit => SplitInv
BY SplitAssumption DEF SplitInit, SplitInv, HeldOutIsHeldOut, Storm

LEMMA AddBackgroundKeeps == SplitInv /\ AddBackground => SplitInv'
<1> SUFFICES ASSUME SplitInv, AddBackground PROVE SplitInv'
  OBVIOUS
<1>1. generate_negative_samples \in Seq(Storm)
  <2>1. \A i \in 1 .. Background : NewYear + ((i - 1) % 28) \in Int
    BY SplitAssumption
  <2>2. generate_negative_samples \in [1 .. Background -> Storm]
    BY <2>1, SplitAssumption DEF generate_negative_samples, Storm
  <2> QED BY <2>2, SplitAssumption
<1>2. storms' \in Seq(Storm)
  BY <1>1 DEF SplitInv, AddBackground
<1> QED BY <1>2 DEF SplitInv, AddBackground, HeldOutIsHeldOut

LEMMA MakeSplitsKeeps == SplitInv /\ make_splits => SplitInv'
<1> SUFFICES ASSUME SplitInv, make_splits PROVE SplitInv'
  OBVIOUS
<1> DEFINE part == Partition(RegularCount)
<1>1. storms' = storms /\ storms \in Seq(Storm) /\ phase' = "split"
  BY DEF SplitInv, make_splits
<1>2. /\ splits'.train = {i \in Regular : Rank(i) < part.train}
      /\ splits'.val = {i \in Regular : Rank(i) \in part.train .. part.train + part.val - 1}
      /\ splits'.test = {i \in Regular : Rank(i) >= part.train + part.val}
  BY DEF make_splits, RegularCount
<1>3. /\ RegularCount \in Nat
      /\ \A i \in Regular : Rank(i) \in 0 .. RegularCount - 1
      /\ \A i, j \in Regular : storms[i].start < storms[j].start => Rank(i) < Rank(j)
      /\ \A k \in 0 .. RegularCount - 1 : \E i \in Regular : Rank(i) = k
  BY <1>1, RegularRanked
<1>4. /\ part.train \in Nat /\ part.val \in Nat
      /\ RegularCount > 2 =>
           part.train > 0 /\ part.val > 0 /\ part.train + part.val < RegularCount
      /\ RegularCount = 2 => part.train + part.val < RegularCount
  BY <1>3, PartitionLeavesSome
<1>5. Regular' = Regular /\ Demo' = Demo /\ RegularCount' = RegularCount
  BY <1>1 DEF Regular, Demo, RegularCount
<1>6. \A i \in Regular : storms[i].start \in Int
  BY <1>1, RegularTyped
<1> HIDE DEF part
<1>7. Demo \cap (splits'.train \union splits'.val \union splits'.test) = {}
  BY <1>2 DEF Regular
<1>8. splits'.train \cap splits'.test = {}
  BY <1>2, <1>3, <1>4
<1>9. RegularCount > 2 => {} \notin {splits'.train, splits'.val, splits'.test}
  <2> SUFFICES ASSUME RegularCount > 2
               PROVE  splits'.train # {} /\ splits'.val # {} /\ splits'.test # {}
    OBVIOUS
  <2>1. /\ 0 \in 0 .. RegularCount - 1 /\ part.train \in 0 .. RegularCount - 1
        /\ part.train + part.val \in 0 .. RegularCount - 1
    BY <1>3, <1>4
  <2>2. PICK i \in Regular : Rank(i) = 0
    BY <2>1, <1>3
  <2>3. PICK j \in Regular : Rank(j) = part.train
    BY <2>1, <1>3
  <2>4. PICK k \in Regular : Rank(k) = part.train + part.val
    BY <2>1, <1>3
  <2> QED BY <2>2, <2>3, <2>4, <1>2, <1>4
<1>10. \A i \in splits'.train, j \in splits'.val \union splits'.test :
         storms[i].start <= storms[j].start
  <2> SUFFICES ASSUME NEW i \in splits'.train, NEW j \in splits'.val \union splits'.test,
                      storms[j].start < storms[i].start
               PROVE  FALSE
    BY <1>2, <1>6
  <2>1. i \in Regular /\ j \in Regular /\ Rank(i) < part.train /\ Rank(j) >= part.train
    BY <1>2, <1>3, <1>4
  <2> QED BY <2>1, <1>3, <1>4
<1>11. \A i \in splits'.val, j \in splits'.test : storms[i].start <= storms[j].start
  <2> SUFFICES ASSUME NEW i \in splits'.val, NEW j \in splits'.test,
                      storms[j].start < storms[i].start
               PROVE  FALSE
    BY <1>2, <1>6
  <2>1. /\ i \in Regular /\ j \in Regular
        /\ Rank(i) < part.train + part.val /\ Rank(j) >= part.train + part.val
    BY <1>2, <1>3, <1>4
  <2> QED BY <2>1, <1>3, <1>4
<1>12. splits'.test = {} => RegularCount < 2
  <2> SUFFICES ASSUME RegularCount >= 2 PROVE splits'.test # {}
    BY <1>3
  <2>1. part.train + part.val \in 0 .. RegularCount - 1
    BY <1>3, <1>4
  <2>2. PICK k \in Regular : Rank(k) = part.train + part.val
    BY <2>1, <1>3
  <2> QED BY <2>2, <1>2, <1>4
<1> QED BY <1>1, <1>5, <1>7, <1>8, <1>9, <1>10, <1>11, <1>12
        DEF SplitInv, SplitsInOrder, TestEarns, HeldOutIsHeldOut

LEMMA ReportMetricsKeeps == SplitInv /\ ReportMetrics => SplitInv'
<1> SUFFICES ASSUME SplitInv, ReportMetrics PROVE SplitInv'
  OBVIOUS
<1>1. storms' = storms /\ splits' = splits /\ program' = program
  BY DEF ReportMetrics
<1>2. Regular' = Regular /\ Demo' = Demo
  BY <1>1 DEF Regular, Demo
<1>3. SplitsInOrder
  BY DEF SplitInv, ReportMetrics
<1>4. SplitsInOrder'
  BY <1>1, <1>2, <1>3 DEF SplitsInOrder, TestEarns, RegularCount
<1>5. evaluated' \cap splits.train # {} => program = "evaluation" /\ Cardinality(Regular) < 2
  BY <1>3 DEF ReportMetrics, SplitsInOrder, TestEarns, RegularCount
<1>6. HeldOutIsHeldOut'
  BY <1>1, <1>2, <1>3, <1>5 DEF HeldOutIsHeldOut, SplitsInOrder, RegularCount
<1> QED BY <1>1, <1>4, <1>6 DEF SplitInv

LEMMA SplitRests == SplitInv /\ UNCHANGED splitVars => SplitInv'
BY DEF SplitInv, SplitsInOrder, TestEarns, RegularCount, HeldOutIsHeldOut, Regular, Demo, splitVars

LEMMA SplitKeeps == SplitInv /\ [SplitNext]_splitVars => SplitInv'
BY AddBackgroundKeeps, MakeSplitsKeeps, ReportMetricsKeeps, SplitRests DEF SplitNext

(* For any storms, with and without a background.                          *)
THEOREM HeldOutCorrect == SplitSpec => []HeldOutIsHeldOut
<1>1. SplitInv => HeldOutIsHeldOut
  BY DEF SplitInv
<1> QED BY SplitStarts, SplitKeeps, <1>1, PTL DEF SplitSpec

-----------------------------------------------------------------------------
(* The samples.                                                            *)

PrepSpec == PrepInit /\ [][PrepNext]_prepVars

Row == [at : Nat, placed : BOOLEAN, measured : BOOLEAN]
CleanRow == [at : Nat, from : SUBSET Nat, wind : SUBSET Nat]
GridRow == [at : Nat, from : SUBSET Nat, wind : SUBSET Nat, speed : SUBSET Nat]

(* A column of the track rests on the rows S of the file: it has a value   *)
(* at the time of each of them, and draws each value from their bracket.   *)
RestsOn(S, rows, column) ==
  /\ \A k \in DOMAIN rows : column[k] # {} =>
       column[k] = Bracket(S, rows[k].at) /\ Told(S, rows[k].at)
  /\ \A f \in S : \E k \in DOMAIN rows : rows[k].at = file[f].at /\ column[k] # {}

(* What the track is once it is cleaned, and once it is on the grid.       *)
Cleaned(rows) ==
  /\ rows \in Seq(CleanRow)
  /\ \A j, k \in DOMAIN rows : j < k => rows[j].at < rows[k].at
  /\ \A k \in DOMAIN rows : rows[k].from # {}
  /\ RestsOn(Fixes, rows, [k \in DOMAIN rows |-> rows[k].from])
  /\ RestsOn(WithWind, rows, [k \in DOMAIN rows |-> rows[k].wind])

Gridded(rows) ==
  /\ rows \in Seq(GridRow)
  /\ \A j, k \in DOMAIN rows : rows[j].at = rows[k].at - Step * (k - j)
  /\ \A k \in DOMAIN rows :
       /\ rows[k].from = Bracket(Fixes, rows[k].at) /\ Told(Fixes, rows[k].at)
       /\ rows[k].wind = Nearest(WithWind, rows[k].at)
       /\ rows[k].speed \subseteq UNION {Bracket(Fixes, rows[k].at + d) : d \in {-Step, 0, Step}}

PrepInv ==
  /\ file \in Seq(Row)
  /\ stage = "clean" => Cleaned(track)
  /\ stage \in {"grid", "samples"} => Gridded(track)
  /\ stage = "samples" => samples = [i \in DOMAIN track |-> Sample(i)]
  /\ SampleDrawsOnItsBracket

-----------------------------------------------------------------------------
(* Sets of numbers, in order.                                              *)

LEMMA InOrderSorts ==
  ASSUME NEW S, IsFiniteSet(S), NEW at \in [S -> Int],
         \A x, y \in S : x # y => at[x] # at[y]
  PROVE  /\ Cardinality(S) \in Nat
         /\ InOrder(S, at) \in [1 .. Cardinality(S) -> S]
         /\ \A j, k \in 1 .. Cardinality(S) : j < k => at[InOrder(S, at)[j]] < at[InOrder(S, at)[k]]
         /\ \A x \in S : \E k \in 1 .. Cardinality(S) : InOrder(S, at)[k] = x
<1> DEFINE n == Cardinality(S)
           before == [x \in S |-> {y \in S : at[y] < at[x]}]
           rank(x) == Cardinality(before[x])
<1>1. \A x \in S : at[x] \in Int
  OBVIOUS
<1>2. before \in [S -> SUBSET S]
  OBVIOUS
<1>3. \A x \in S : x \notin before[x]
  BY <1>1
<1>4. \A x, y \in S : x # y => x \in before[y] \/ y \in before[x]
  BY <1>1
<1>5. \A x, y \in S : x \in before[y] => before[x] \subseteq before[y]
  BY <1>1
<1>6. \A x, y \in S : x \in before[y] <=> at[x] < at[y]
  OBVIOUS
<1>7. PICK c : c = InOrder(S, at)
  OBVIOUS
<1>8. c = [k \in 1 .. n |-> CHOOSE x \in S : Cardinality({y \in S : at[y] < at[x]}) = k - 1]
  BY <1>7 DEF InOrder
<1>a. \A x \in S : before[x] = {y \in S : at[y] < at[x]}
  OBVIOUS
<1> HIDE DEF before
<1>9. /\ n \in Nat
      /\ \A x \in S : rank(x) \in 0 .. n - 1
      /\ \A x, y \in S : x \in before[y] => rank(x) < rank(y)
      /\ \A k \in 0 .. n - 1 : \E x \in S : rank(x) = k
  BY <1>2, <1>3, <1>4, <1>5, Ranking
<1>10. ASSUME NEW k \in 1 .. n PROVE c[k] \in S /\ rank(c[k]) = k - 1
  <2>1. k - 1 \in 0 .. n - 1
    BY <1>9
  <2>2. \E x \in S : Cardinality({y \in S : at[y] < at[x]}) = k - 1
    BY <1>9, <1>a, <2>1
  <2>3. c[k] = CHOOSE x \in S : Cardinality({y \in S : at[y] < at[x]}) = k - 1
    BY <1>8
  <2>4. c[k] \in S /\ Cardinality({y \in S : at[y] < at[c[k]]}) = k - 1
    BY <2>2, <2>3
  <2> QED BY <1>a, <2>4
<1>11. \A x, y \in S : rank(x) = rank(y) => x = y
  BY <1>4, <1>9
<1>12. c \in [1 .. n -> S]
  BY <1>8, <1>10
<1>13. \A j, k \in 1 .. n : j < k => at[c[j]] < at[c[k]]
  <2> SUFFICES ASSUME NEW j \in 1 .. n, NEW k \in 1 .. n, j < k PROVE at[c[j]] < at[c[k]]
    OBVIOUS
  <2>1. rank(c[j]) = j - 1 /\ rank(c[k]) = k - 1 /\ c[j] \in S /\ c[k] \in S
    BY <1>10
  <2>2. c[k] \notin before[c[j]] /\ c[j] # c[k]
    BY <1>9, <2>1
  <2> QED BY <1>4, <1>6, <2>1, <2>2
<1>14. \A x \in S : \E k \in 1 .. n : c[k] = x
  <2> SUFFICES ASSUME NEW x \in S PROVE \E k \in 1 .. n : c[k] = x
    OBVIOUS
  <2>1. rank(x) \in 0 .. n - 1
    BY <1>9
  <2>2. PICK k \in 1 .. n : k - 1 = rank(x)
    BY <1>9, <2>1
  <2>3. c[k] \in S /\ rank(c[k]) = rank(x)
    BY <1>10, <2>2
  <2> QED BY <1>11, <2>2, <2>3
<1> QED BY <1>7, <1>9, <1>12, <1>13, <1>14

LEMMA Extremes ==
  ASSUME NEW n \in Nat, NEW S \in SUBSET (1 .. n), S # {}
  PROVE  /\ Max(S) \in S /\ \A x \in S : x <= Max(S)
         /\ Min(S) \in S /\ \A x \in S : Min(S) <= x
<1> DEFINE at == [x \in S |-> x]
<1>1. IsFiniteSet(S)
  <2>1. IsFiniteSet(1 .. n)
    BY FS_Interval
  <2> QED BY <2>1, FS_Subset
<1>2. at \in [S -> Int]
  OBVIOUS
<1>3. \A x \in S : at[x] = x
  OBVIOUS
<1> HIDE DEF at
<1>4. \A x, y \in S : x # y => at[x] # at[y]
  BY <1>3
<1>5. PICK c, m : c = InOrder(S, at) /\ m = Cardinality(S)
  OBVIOUS
<1>6. /\ m \in Nat /\ c \in [1 .. m -> S]
      /\ \A j, k \in 1 .. m : j < k => at[c[j]] < at[c[k]]
      /\ \A x \in S : \E k \in 1 .. m : c[k] = x
  <2>1. Cardinality(S) \in Nat /\ InOrder(S, at) \in [1 .. Cardinality(S) -> S]
    BY ONLY <1>1, <1>2, <1>4, InOrderSorts
  <2>2. \A j, k \in 1 .. Cardinality(S) :
           j < k => at[InOrder(S, at)[j]] < at[InOrder(S, at)[k]]
    BY ONLY <1>1, <1>2, <1>4, InOrderSorts
  <2>3. \A x \in S : \E k \in 1 .. Cardinality(S) : InOrder(S, at)[k] = x
    <3> SUFFICES ASSUME NEW x \in S
                 PROVE  ~ \A k \in 1 .. Cardinality(S) : InOrder(S, at)[k] # x
      OBVIOUS
    <3> QED BY ONLY <1>1, <1>2, <1>4, InOrderSorts
  <2>4. m \in Nat /\ c \in [1 .. m -> S]
    BY ONLY <1>5, <2>1
  <2>5. \A j, k \in 1 .. m : j < k => at[c[j]] < at[c[k]]
    BY ONLY <1>5, <2>2
  <2>6. \A x \in S : \E k \in 1 .. m : c[k] = x
    BY ONLY <1>5, <2>3
  <2> QED BY <2>4, <2>5, <2>6
<1>7. \A j, k \in 1 .. m : j < k => c[j] < c[k]
  BY <1>3, <1>6
<1>8. m > 0
  <2>1. PICK x : x \in S
    OBVIOUS
  <2>2. PICK k \in 1 .. m : c[k] = x
    BY <1>6, <2>1
  <2> QED BY <1>6, <2>2
<1>9. 1 \in 1 .. m /\ m \in 1 .. m /\ \A k \in 1 .. m : (k = 1 \/ 1 < k) /\ (k = m \/ k < m)
  BY <1>6, <1>8
<1>10. \A k \in 1 .. m : c[k] \in S /\ c[k] \in Nat
  <2>1. \A k \in 1 .. m : c[k] \in S
    BY <1>6
  <2>2. \A x \in S : x \in Nat
    OBVIOUS
  <2> QED BY <2>1, <2>2
<1>11. \A k \in 1 .. m : c[1] <= c[k] /\ c[k] <= c[m]
  BY <1>7, <1>9, <1>10
<1>12. \E x \in S : \A y \in S : x >= y
  BY <1>6, <1>9, <1>10, <1>11
<1>13. \E x \in S : \A y \in S : x <= y
  BY <1>6, <1>9, <1>10, <1>11
<1>14. Max(S) \in S /\ \A y \in S : Max(S) >= y
  BY <1>12 DEF Max
<1>15. Min(S) \in S /\ \A y \in S : Min(S) <= y
  BY <1>13 DEF Min
<1> QED BY <1>14, <1>15

-----------------------------------------------------------------------------
(* The chronicle: the rows that stay, in the order of their times.         *)

LEMMA FunctionIsList ==
  ASSUME NEW m \in Nat, NEW T, NEW f \in [1 .. m -> T]
  PROVE  f \in Seq(T) /\ DOMAIN f = 1 .. m /\ Len(f) = m
OBVIOUS

LEMMA ChronicleSorted ==
  ASSUME file \in Seq(Row)
  PROVE  /\ Len(Chronicle) \in Nat /\ DOMAIN Chronicle = 1 .. Len(Chronicle)
         /\ \A k \in DOMAIN Chronicle :
              /\ Chronicle[k] \in Kept /\ Chronicle[k] \in DOMAIN file /\ Chronicle[k] \in Nat
              /\ file[Chronicle[k]].at \in Nat
         /\ \A j, k \in DOMAIN Chronicle : j < k => file[Chronicle[j]].at < file[Chronicle[k]].at
         /\ \A i \in Kept : \E k \in DOMAIN Chronicle : Chronicle[k] = i
<1>1. Kept \in SUBSET (1 .. Len(file)) /\ Len(file) \in Nat /\ DOMAIN file = 1 .. Len(file)
  BY DEF Kept, Placed
<1>2. IsFiniteSet(Kept)
  <2>1. IsFiniteSet(1 .. Len(file))
    BY <1>1, FS_Interval
  <2> QED BY <1>1, <2>1, FS_Subset
<1>3. \A i \in DOMAIN file : file[i] \in Row /\ file[i].at \in Nat /\ i \in Nat
  <2>1. \A i \in DOMAIN file : file[i] \in Row /\ i \in Nat
    BY <1>1
  <2> QED BY <2>1 DEF Row
<1>4. PICK at : at = [i \in Kept |-> file[i].at]
  OBVIOUS
<1>5. at \in [Kept -> Int] /\ \A i \in Kept : at[i] = file[i].at
  BY <1>1, <1>3, <1>4
<1>6. \A i, j \in Kept : i # j => at[i] # at[j]
  <2> SUFFICES ASSUME NEW i \in Kept, NEW j \in Kept, i # j PROVE at[i] # at[j]
    OBVIOUS
  <2>1. i < j \/ j < i
    BY <1>1
  <2> QED BY <1>5, <2>1 DEF Kept
<1>7. PICK c, m : c = InOrder(Kept, at) /\ m = Cardinality(Kept)
  OBVIOUS
<1>8. /\ m \in Nat /\ c \in [1 .. m -> Kept]
      /\ \A j, k \in 1 .. m : j < k => at[c[j]] < at[c[k]]
      /\ \A x \in Kept : \E k \in 1 .. m : c[k] = x
  <2>1. Cardinality(Kept) \in Nat /\ InOrder(Kept, at) \in [1 .. Cardinality(Kept) -> Kept]
    BY ONLY <1>2, <1>5, <1>6, InOrderSorts
  <2>2. \A j, k \in 1 .. Cardinality(Kept) :
           j < k => at[InOrder(Kept, at)[j]] < at[InOrder(Kept, at)[k]]
    BY ONLY <1>2, <1>5, <1>6, InOrderSorts
  <2>3. \A x \in Kept : \E k \in 1 .. Cardinality(Kept) : InOrder(Kept, at)[k] = x
    BY ONLY <1>2, <1>5, <1>6, InOrderSorts
  <2>4. m \in Nat /\ c \in [1 .. m -> Kept]
    BY ONLY <1>7, <2>1
  <2>5. \A j, k \in 1 .. m : j < k => at[c[j]] < at[c[k]]
    BY ONLY <1>7, <2>2
  <2>6. \A x \in Kept : \E k \in 1 .. m : c[k] = x
    BY ONLY <1>7, <2>3
  <2> QED BY <2>4, <2>5, <2>6
<1>9. Chronicle = c
  BY <1>4, <1>7 DEF Chronicle
<1>10. c \in Seq(Kept) /\ Len(c) = m /\ DOMAIN c = 1 .. m
  <2>1. m \in Nat /\ c \in [1 .. m -> Kept]
    BY <1>8
  <2>2. c \in Seq(Kept)
    BY ONLY <2>1, FunctionIsList
  <2>3. Len(c) = m /\ DOMAIN c = 1 .. m
    BY ONLY <2>1, FunctionIsList
  <2> QED BY <2>2, <2>3
<1>11. \A k \in 1 .. m : c[k] \in Kept /\ c[k] \in DOMAIN file /\ c[k] \in Nat /\ file[c[k]].at \in Nat
  BY <1>1, <1>3, <1>8
<1>12. \A j, k \in 1 .. m : j < k => file[c[j]].at < file[c[k]].at
  BY <1>5, <1>8
<1> QED BY <1>8, <1>9, <1>10, <1>11, <1>12

(* The bracket of a time by its two sides.                                 *)
Last(S, f, g) == /\ f \in S /\ file[f].at <= g
                 /\ \A j \in S : file[j].at <= g => file[j].at <= file[f].at
First(S, f, g) == /\ f \in S /\ file[f].at >= g
                  /\ \A j \in S : file[j].at >= g => file[j].at >= file[f].at

LEMMA BracketSides ==
  \A S, g : \A f : f \in Bracket(S, g) <=> Last(S, f, g) \/ First(S, f, g)
BY DEF Bracket, Last, First

LEMMA KeptAreFixes == Kept = Fixes
BY DEF Kept, Placed, Fixes

LEMMA FixesTyped ==
  ASSUME file \in Seq(Row)
  PROVE  \A f \in Fixes : /\ f \in Nat /\ f \in DOMAIN file /\ file[f].at \in Nat
                          /\ \A e \in Fixes : e # f => file[e].at # file[f].at
<1>1. \A i \in DOMAIN file : file[i] \in Row /\ file[i].at \in Nat /\ i \in Nat
  <2>1. \A i \in DOMAIN file : file[i] \in Row /\ i \in Nat
    OBVIOUS
  <2> QED BY <2>1 DEF Row
<1>2. \A f \in Fixes : f \in DOMAIN file
  BY DEF Fixes
<1>3. ASSUME NEW e \in Fixes, NEW f \in Fixes, e # f PROVE file[e].at # file[f].at
  <2>1. e < f \/ f < e
    BY <1>1, <1>2, <1>3
  <2> QED BY <2>1 DEF Fixes
<1> QED BY <1>1, <1>2, <1>3

LEMMA AFixAlone ==
  ASSUME file \in Seq(Row), NEW S \in SUBSET Fixes, NEW e \in S
  PROVE  Bracket(S, file[e].at) = {e} /\ Told(S, file[e].at)
<1> PICK g : g = file[e].at
  OBVIOUS
<1>1. \A f \in S : /\ file[f].at \in Nat
                   /\ f # e => file[f].at # g
  BY FixesTyped
<1>2. Last(S, e, g)
  BY <1>1 DEF Last
<1>3. \A f : Last(S, f, g) \/ First(S, f, g) => f = e
  <2> SUFFICES ASSUME NEW f, Last(S, f, g) \/ First(S, f, g) PROVE f = e
    OBVIOUS
  <2>1. f \in S /\ file[f].at \in Nat /\ g \in Nat
    BY <1>1 DEF Last, First
  <2>2. file[f].at = g
    BY <1>1, <2>1 DEF Last, First
  <2> QED BY <1>1, <2>1, <2>2
<1>4. Bracket(S, g) = {e}
  BY <1>2, <1>3, BracketSides
<1>5. Told(S, g)
  BY <1>1 DEF Told
<1> QED BY <1>4, <1>5

(* A wind that was filled in is drawn from the bracket of its time.        *)
LEMMA FilledFromBracket ==
  ASSUME file \in Seq(Row), NEW i \in DOMAIN Chronicle
  PROVE  /\ file[Chronicle[i]].measured => Filled(i) # {}
         /\ Filled(i) # {} => /\ Filled(i) = Bracket(WithWind, file[Chronicle[i]].at)
                              /\ Told(WithWind, file[Chronicle[i]].at)
<1> PICK c, n, g : c = Chronicle /\ n = Len(c) /\ g = file[c[i]].at
  OBVIOUS
<1>1. /\ n \in Nat /\ DOMAIN c = 1 .. n /\ i \in 1 .. n /\ g \in Nat
      /\ \A k \in 1 .. n : c[k] \in Kept /\ file[c[k]].at \in Nat
      /\ \A j, k \in 1 .. n : j < k => file[c[j]].at < file[c[k]].at
      /\ \A x \in Kept : \E k \in 1 .. n : c[k] = x
  BY ChronicleSorted
<1>2. \A k \in 1 .. n : file[c[k]].measured => c[k] \in WithWind
  BY <1>1, KeptAreFixes DEF WithWind
<1>3. \A f \in WithWind : \E k \in 1 .. n : c[k] = f /\ file[c[k]].measured
  BY <1>1, KeptAreFixes DEF WithWind
<1>4. CASE file[c[i]].measured
  <2>1. c[i] \in WithWind /\ Filled(i) = {c[i]} /\ WithWind \in SUBSET Fixes
    BY <1>1, <1>2, <1>4 DEF Filled, WithWind
  <2> QED BY <2>1, AFixAlone
<1>5. CASE ~file[c[i]].measured /\ Filled(i) # {}
  <2>1. PICK p : p = Max(MeasuredBefore(i))
    OBVIOUS
  <2>2. /\ MeasuredBefore(i) # {}
        /\ Filled(i) = {c[p]} \union {c[j] : j \in {k \in MeasuredAfter(i) : k = Min(MeasuredAfter(i))}}
    BY <1>5, <2>1 DEF Filled
  <2>3. /\ MeasuredBefore(i) = {j \in 1 .. i - 1 : file[c[j]].measured}
        /\ MeasuredAfter(i) = {j \in i + 1 .. n : file[c[j]].measured}
    BY DEF MeasuredBefore, MeasuredAfter
  <2>4. MeasuredBefore(i) \in SUBSET (1 .. n) /\ MeasuredAfter(i) \in SUBSET (1 .. n)
    BY <1>1, <2>3
  <2>5. p \in MeasuredBefore(i) /\ \A k \in MeasuredBefore(i) : k <= p
    BY <1>1, <2>1, <2>2, <2>4, Extremes
  <2>6. /\ p \in 1 .. n /\ p < i /\ c[p] \in WithWind /\ file[c[p]].at < g
    <3>1. p \in 1 .. i - 1 /\ file[c[p]].measured
      BY <2>3, <2>5
    <3>2. p \in 1 .. n /\ p < i
      BY <1>1, <3>1
    <3> QED BY <1>1, <1>2, <3>1, <3>2
  <2>7. ASSUME NEW k \in 1 .. n, file[c[k]].measured
        PROVE  /\ k \in MeasuredBefore(i) \/ k \in MeasuredAfter(i)
               /\ k \in MeasuredBefore(i) => file[c[k]].at < g /\ file[c[k]].at <= file[c[p]].at
               /\ k \in MeasuredAfter(i) => file[c[k]].at > g
    <3>1. k # i
      BY <1>5, <2>7
    <3>2. k < i => k \in MeasuredBefore(i)
      BY <1>1, <2>3, <2>7
    <3>3. k > i => k \in MeasuredAfter(i)
      BY <1>1, <2>3, <2>7
    <3>4. k \in MeasuredBefore(i) => file[c[k]].at < g /\ file[c[k]].at <= file[c[p]].at
      <4> SUFFICES ASSUME k \in MeasuredBefore(i)
                   PROVE  file[c[k]].at < g /\ file[c[k]].at <= file[c[p]].at
        OBVIOUS
      <4>1. k < i /\ (k = p \/ k < p)
        BY <1>1, <2>3, <2>5, <2>6
      <4> QED BY <1>1, <2>6, <4>1
    <3>5. k \in MeasuredAfter(i) => file[c[k]].at > g
      BY <1>1, <2>3
    <3> QED BY <1>1, <3>1, <3>2, <3>3, <3>4, <3>5
  <2>8. ASSUME NEW f PROVE Last(WithWind, f, g) <=> f = c[p]
    <3>1. ASSUME Last(WithWind, f, g) PROVE f = c[p]
      <4>0. c[p] \in WithWind /\ file[c[p]].at <= g
        <5>1. file[c[p]].at \in Nat /\ g \in Nat /\ file[c[p]].at < g
          BY <1>1, <2>6
        <5>2. file[c[p]].at <= g
          BY ONLY <5>1
        <5> QED BY <2>6, <5>2
      <4>1. f \in WithWind /\ file[f].at <= g /\ file[c[p]].at <= file[f].at
        BY ONLY <3>1, <4>0 DEF Last
      <4>2. PICK k \in 1 .. n : c[k] = f /\ file[c[k]].measured
        BY <1>3, <4>1
      <4>3. file[f].at <= file[c[p]].at
        BY ONLY <1>1, <2>7, <4>1, <4>2
      <4>4. file[f].at = file[c[p]].at
        <5>1. PICK x, y : x = file[f].at /\ y = file[c[p]].at
          OBVIOUS
        <5>2. x \in Nat /\ y \in Nat /\ x <= y /\ y <= x
          BY <1>1, <2>6, <4>1, <4>2, <4>3, <5>1
        <5>3. x = y
          BY ONLY <5>2
        <5> QED BY <5>1, <5>3
      <4>5. f \in Fixes /\ c[p] \in Fixes
        BY <2>6, <4>1 DEF WithWind
      <4> QED BY <4>4, <4>5, FixesTyped
    <3>2. Last(WithWind, c[p], g)
      <4> SUFFICES ASSUME NEW j \in WithWind, file[j].at <= g PROVE file[j].at <= file[c[p]].at
        BY <1>1, <2>6 DEF Last
      <4>1. PICK k \in 1 .. n : c[k] = j /\ file[c[k]].measured
        BY <1>3
      <4>2. /\ k \in MeasuredBefore(i) \/ k \in MeasuredAfter(i)
            /\ k \in MeasuredBefore(i) => file[c[k]].at <= file[c[p]].at
            /\ k \in MeasuredAfter(i) => file[c[k]].at > g
        BY <2>7, <4>1
      <4>3. file[c[k]].at \in Nat /\ file[c[k]].at <= g /\ g \in Nat
        BY <1>1, <4>1
      <4>4. k \in MeasuredBefore(i)
        BY ONLY <4>2, <4>3
      <4> QED BY ONLY <4>1, <4>2, <4>4
    <3> QED BY <3>1, <3>2
  <2>9. ASSUME NEW f
        PROVE  First(WithWind, f, g) <=> \E k \in MeasuredAfter(i) : k = Min(MeasuredAfter(i)) /\ f = c[k]
    <3>1. ASSUME First(WithWind, f, g)
          PROVE  \E k \in MeasuredAfter(i) : k = Min(MeasuredAfter(i)) /\ f = c[k]
      <4>1. f \in WithWind /\ file[f].at >= g
        BY <3>1 DEF First
      <4>2. PICK k \in 1 .. n : c[k] = f /\ file[c[k]].measured
        BY <1>3, <4>1
      <4>3. k \in MeasuredAfter(i)
        BY <1>1, <2>7, <4>1, <4>2
      <4>4. PICK m : m = Min(MeasuredAfter(i))
        OBVIOUS
      <4>5. m \in MeasuredAfter(i) /\ m \in 1 .. n /\ m <= k /\ file[c[m]].measured
        BY <1>1, <2>3, <2>4, <4>3, <4>4, Extremes
      <4>6. file[c[m]].at >= g /\ c[m] \in WithWind
        BY <1>1, <1>2, <2>7, <4>5
      <4>7. file[c[k]].at <= file[c[m]].at
        BY <3>1, <4>2, <4>6 DEF First
      <4>8. ~(m < k)
        BY <1>1, <4>5, <4>7
      <4> QED BY <4>2, <4>3, <4>4, <4>5, <4>8
    <3>2. ASSUME NEW k \in MeasuredAfter(i), k = Min(MeasuredAfter(i)), f = c[k]
          PROVE  First(WithWind, f, g)
      <4>1. k \in 1 .. n /\ file[c[k]].measured /\ \A j \in MeasuredAfter(i) : k <= j
        BY <1>1, <2>3, <2>4, <3>2, Extremes
      <4>2. c[k] \in WithWind /\ file[c[k]].at >= g
        BY <1>1, <1>2, <2>7, <4>1
      <4>3. ASSUME NEW j \in WithWind, file[j].at >= g PROVE file[j].at >= file[c[k]].at
        <5>1. PICK l \in 1 .. n : c[l] = j /\ file[c[l]].measured
          BY <1>3
        <5>2. l \in MeasuredAfter(i)
          BY <1>1, <2>7, <4>3, <5>1
        <5>3. l = k \/ k < l
          BY <4>1, <5>1, <5>2
        <5> QED BY <1>1, <4>1, <5>1, <5>3
      <4> QED BY <3>2, <4>2, <4>3 DEF First
    <3> QED BY <3>1, <3>2
  <2>10. Filled(i) = Bracket(WithWind, g)
    BY <2>2, <2>8, <2>9, BracketSides
  <2>11. Told(WithWind, g)
    BY <1>1, <2>6 DEF Told
  <2> QED BY <1>5, <2>10, <2>11
<1> QED BY <1>4, <1>5

LEMMA BracketTyped ==
  ASSUME file \in Seq(Row)
  PROVE  \A S \in SUBSET Fixes : \A g : Bracket(S, g) \in SUBSET Nat /\ Nearest(S, g) \in SUBSET Nat
<1>1. \A S \in SUBSET Fixes : \A g : Bracket(S, g) \in SUBSET Nat
  BY FixesTyped DEF Bracket
<1> QED BY <1>1 DEF Nearest

LEMMA WithWindAreFixes == Fixes \in SUBSET Fixes /\ WithWind \in SUBSET Fixes
BY DEF WithWind

LEMMA FileRests ==
  ASSUME file' = file
  PROVE  /\ Fixes' = Fixes /\ WithWind' = WithWind
         /\ \A g : /\ Bracket(Fixes, g)' = Bracket(Fixes, g) /\ Told(Fixes, g)' = Told(Fixes, g)
                   /\ Nearest(WithWind, g)' = Nearest(WithWind, g)
         /\ \A rows : (Cleaned(rows)' <=> Cleaned(rows)) /\ (Gridded(rows)' <=> Gridded(rows))
<1>1. Fixes' = Fixes
  BY DEF Fixes
<1>2. WithWind' = WithWind
  BY <1>1 DEF WithWind
<1>3. ASSUME NEW CONSTANT g
      PROVE  /\ Bracket(Fixes, g)' = Bracket(Fixes, g) /\ Told(Fixes, g)' = Told(Fixes, g)
             /\ Bracket(WithWind, g)' = Bracket(WithWind, g)
             /\ Told(WithWind, g)' = Told(WithWind, g)
  BY <1>1, <1>2 DEF Bracket, Told
<1>4. ASSUME NEW CONSTANT g PROVE Nearest(WithWind, g)' = Nearest(WithWind, g)
  BY <1>3 DEF Nearest
<1>5. ASSUME NEW CONSTANT rows, NEW CONSTANT column
      PROVE  /\ RestsOn(Fixes, rows, column)' <=> RestsOn(Fixes, rows, column)
             /\ RestsOn(WithWind, rows, column)' <=> RestsOn(WithWind, rows, column)
  BY <1>1, <1>2, <1>3 DEF RestsOn
<1>6. ASSUME NEW CONSTANT rows
      PROVE  (Cleaned(rows)' <=> Cleaned(rows)) /\ (Gridded(rows)' <=> Gridded(rows))
  <2>1. PICK froms, winds : /\ froms = [k \in DOMAIN rows |-> rows[k].from]
                            /\ winds = [k \in DOMAIN rows |-> rows[k].wind]
    OBVIOUS
  <2>2. Cleaned(rows)' <=> Cleaned(rows)
    BY <1>5, <2>1 DEF Cleaned
  <2>3. Gridded(rows)' <=> Gridded(rows)
    BY <1>1, <1>2 DEF Gridded, Bracket, Told, Nearest
  <2> QED BY <2>2, <2>3
<1> QED BY <1>1, <1>2, <1>3, <1>4, <1>6

LEMMA ElementOf ==
  ASSUME NEW T, NEW s \in Seq(T)
  PROVE  \A k \in DOMAIN s : s[k] \in T
OBVIOUS

CleanRows ==
  [i \in DOMAIN Chronicle |->
     [at |-> file[Chronicle[i]].at, from |-> {Chronicle[i]}, wind |-> Filled(i)]]

LEMMA CleanTracks ==
  ASSUME file \in Seq(Row)
  PROVE  Cleaned(CleanRows)
<1> PICK c, n, new : c = Chronicle /\ n = Len(c) /\ new = CleanRows
  OBVIOUS
<1>1. /\ n \in Nat /\ DOMAIN c = 1 .. n
      /\ \A k \in 1 .. n : c[k] \in Fixes /\ c[k] \in Nat /\ file[c[k]].at \in Nat
      /\ \A j, k \in 1 .. n : j < k => file[c[j]].at < file[c[k]].at
      /\ \A x \in Fixes : \E k \in 1 .. n : c[k] = x
  BY ChronicleSorted, KeptAreFixes
<1>2. \A k \in 1 .. n :
        /\ file[c[k]].measured => Filled(k) # {}
        /\ Filled(k) # {} => /\ Filled(k) = Bracket(WithWind, file[c[k]].at)
                             /\ Told(WithWind, file[c[k]].at)
  BY <1>1, FilledFromBracket
<1>3. \A k \in 1 .. n : Filled(k) \in SUBSET Nat
  <2>1. \A g : Bracket(WithWind, g) \in SUBSET Nat
    BY BracketTyped, WithWindAreFixes
  <2> QED BY <1>2, <2>1
<1>4. /\ DOMAIN new = 1 .. n /\ new \in Seq(CleanRow)
      /\ \A k \in 1 .. n : /\ new[k].at = file[c[k]].at /\ new[k].from = {c[k]}
                           /\ new[k].wind = Filled(k)
  <2>1. new = [k \in 1 .. n |-> [at |-> file[c[k]].at, from |-> {c[k]}, wind |-> Filled(k)]]
    BY <1>1 DEF CleanRows
  <2>2. new \in [1 .. n -> CleanRow]
    BY <1>1, <1>3, <2>1 DEF CleanRow
  <2>3. new \in Seq(CleanRow) /\ DOMAIN new = 1 .. n
    BY <1>1, <2>2, FunctionIsList
  <2>4. \A k \in 1 .. n : /\ new[k].at = file[c[k]].at /\ new[k].from = {c[k]}
                          /\ new[k].wind = Filled(k)
    BY <2>1
  <2> QED BY <2>3, <2>4
<1>5. \A k \in 1 .. n : {c[k]} = Bracket(Fixes, file[c[k]].at) /\ Told(Fixes, file[c[k]].at)
  BY <1>1, AFixAlone
<1>6. RestsOn(Fixes, new, [k \in DOMAIN new |-> new[k].from])
  <2>1. PICK column : column = [k \in DOMAIN new |-> new[k].from]
    OBVIOUS
  <2>2. \A k \in 1 .. n : column[k] = {c[k]}
    BY <1>4, <2>1
  <2>3. \A k \in 1 .. n : column[k] = Bracket(Fixes, new[k].at) /\ Told(Fixes, new[k].at)
    BY <1>4, <1>5, <2>2
  <2>4. \A f \in Fixes : \E k \in 1 .. n : new[k].at = file[f].at /\ column[k] # {}
    <3> SUFFICES ASSUME NEW f \in Fixes
                 PROVE  \E k \in 1 .. n : new[k].at = file[f].at /\ column[k] # {}
      OBVIOUS
    <3>1. PICK k \in 1 .. n : c[k] = f
      BY <1>1
    <3>2. new[k].at = file[f].at /\ column[k] # {}
      BY <1>4, <2>2, <3>1
    <3> QED BY <3>2
  <2>5. RestsOn(Fixes, new, column)
    BY <1>4, <2>3, <2>4 DEF RestsOn
  <2> QED BY <2>1, <2>5
<1>7. RestsOn(WithWind, new, [k \in DOMAIN new |-> new[k].wind])
  <2>1. PICK column : column = [k \in DOMAIN new |-> new[k].wind]
    OBVIOUS
  <2>2. \A k \in 1 .. n : column[k] = Filled(k)
    BY <1>4, <2>1
  <2>3. \A k \in 1 .. n : column[k] # {} =>
          column[k] = Bracket(WithWind, new[k].at) /\ Told(WithWind, new[k].at)
    BY <1>2, <1>4, <2>2
  <2>4. \A f \in WithWind : \E k \in 1 .. n : c[k] = f /\ file[c[k]].measured
    BY <1>1 DEF WithWind
  <2>5. \A f \in WithWind : \E k \in 1 .. n : new[k].at = file[f].at /\ column[k] # {}
    BY <1>2, <1>4, <2>2, <2>4
  <2>6. RestsOn(WithWind, new, column)
    BY <1>4, <2>3, <2>5 DEF RestsOn
  <2> QED BY <2>1, <2>6
<1>8. \A j, k \in DOMAIN new : j < k => new[j].at < new[k].at
  BY <1>1, <1>4
<1>9. \A k \in DOMAIN new : new[k].from # {}
  BY <1>4
<1>10. Cleaned(new)
  BY <1>4, <1>6, <1>7, <1>8, <1>9 DEF Cleaned
<1> QED BY <1>10

LEMMA CleanKeeps == PrepInv /\ clean_tracks => PrepInv'
<1> SUFFICES ASSUME PrepInv, clean_tracks PROVE PrepInv'
  OBVIOUS
<1>1. PICK new : new = CleanRows
  OBVIOUS
<1>2. track' = new /\ file' = file /\ stage' = "clean" /\ samples' = samples
  BY <1>1 DEF clean_tracks, CleanRows
<1>3. Cleaned(new)
  BY <1>1, CleanTracks DEF PrepInv
<1>4. Cleaned(new)'
  BY <1>2, <1>3, FileRests
<1> QED BY <1>2, <1>4 DEF PrepInv, Cleaned, SampleDrawsOnItsBracket

-----------------------------------------------------------------------------
(* The grid.  Of the brackets of two rows next to each other is made that  *)
(* of any time between, as every row of S is one of the track.             *)
LEMMA BracketsJoin ==
  ASSUME file \in Seq(Row), NEW S \in SUBSET Fixes,
         NEW a \in Nat, NEW b \in Nat, NEW g \in Nat, a <= g, g <= b,
         \A f \in S : file[f].at <= g => file[f].at <= a,
         \A f \in S : file[f].at >= g => file[f].at >= b
  PROVE  Bracket(S, a) \union Bracket(S, b) = Bracket(S, g)
<1>1. \A f \in S : file[f].at \in Nat
  BY FixesTyped
<1>2. \A f : Last(S, f, g) <=> Last(S, f, a)
  BY <1>1 DEF Last
<1>3. \A f : First(S, f, g) <=> First(S, f, b)
  BY <1>1 DEF First
<1>4. \A f : First(S, f, a) => Last(S, f, g) \/ First(S, f, g)
  BY <1>1 DEF Last, First
<1>5. \A f : Last(S, f, b) => Last(S, f, g) \/ First(S, f, g)
  BY <1>1 DEF Last, First
<1>6. ASSUME NEW f PROVE f \in Bracket(S, a) \/ f \in Bracket(S, b) <=> f \in Bracket(S, g)
  BY <1>2, <1>3, <1>4, <1>5, BracketSides
<1> QED BY <1>6

LEMMA BracketExtends ==
  ASSUME file \in Seq(Row), NEW S \in SUBSET Fixes, NEW a \in Nat, NEW g \in Nat, a <= g,
         \A f \in S : file[f].at <= a
  PROVE  Bracket(S, a) = Bracket(S, g)
<1>1. \A f \in S : file[f].at \in Nat
  BY FixesTyped
<1>2. \A f : Last(S, f, g) <=> Last(S, f, a)
  BY <1>1 DEF Last
<1>3. \A f : First(S, f, g) => Last(S, f, a)
  BY <1>1 DEF Last, First
<1>4. \A f : First(S, f, a) => Last(S, f, a)
  BY <1>1 DEF Last, First
<1>5. ASSUME NEW f PROVE f \in Bracket(S, a) <=> f \in Bracket(S, g)
  BY <1>2, <1>3, <1>4, BracketSides
<1> QED BY <1>5

(* A column that rests on some rows draws on the nearest of them.          *)
LEMMA BetweenFromBracket ==
  ASSUME file \in Seq(Row), Cleaned(track), NEW S \in SUBSET Fixes, NEW column,
         RestsOn(S, track, column), NEW g \in Nat
  PROVE  /\ Between(column, g) = Nearest(S, g)
         /\ AtOrBefore(column, g) # {} => Told(S, g)
<1> PICK n, lo, V : /\ n = Len(track) /\ lo = Max(AtOrBefore(column, g))
                    /\ V = {k \in 1 .. n : column[k] # {}}
  OBVIOUS
<1>1. n \in Nat /\ DOMAIN track = 1 .. n
  BY DEF Cleaned
<1>2. \A k \in 1 .. n : track[k].at \in Nat
  <2>1. \A k \in DOMAIN track : track[k] \in CleanRow
    BY ElementOf DEF Cleaned
  <2>2. \A k \in DOMAIN track : track[k].at \in Nat
    BY <2>1 DEF CleanRow
  <2> QED BY <1>1, <2>2
<1>3. \A j, k \in 1 .. n : j < k => track[j].at < track[k].at
  BY <1>1 DEF Cleaned
<1>4. \A k \in V : column[k] = Bracket(S, track[k].at) /\ Told(S, track[k].at) /\ k \in 1 .. n
  BY <1>1 DEF RestsOn
<1>5. \A f \in S : \E k \in V : track[k].at = file[f].at
  BY <1>1 DEF RestsOn
<1>6. /\ AtOrBefore(column, g) = {i \in V : track[i].at <= g}
      /\ AtOrAfter(column, g) = {i \in V : track[i].at >= g}
  BY <1>1 DEF AtOrBefore, AtOrAfter
<1>7. CASE AtOrBefore(column, g) = {}
  <2>1. ~Told(S, g)
    BY <1>5, <1>6, <1>7 DEF Told
  <2> QED BY <1>7, <2>1 DEF Between, Nearest
<1>8. CASE AtOrBefore(column, g) # {}
  <2>1. lo \in AtOrBefore(column, g) /\ \A k \in AtOrBefore(column, g) : k <= lo
    <3>1. AtOrBefore(column, g) \in SUBSET (1 .. n)
      BY <1>4, <1>6
    <3> QED BY <1>1, <1>8, <3>1, Extremes
  <2>2. lo \in V /\ lo \in 1 .. n /\ track[lo].at <= g /\ track[lo].at \in Nat
    BY <1>2, <1>4, <1>6, <2>1
  <2>3. \A k \in V : track[k].at <= g => track[k].at <= track[lo].at
    <3> SUFFICES ASSUME NEW k \in V, track[k].at <= g PROVE track[k].at <= track[lo].at
      OBVIOUS
    <3>1. k \in AtOrBefore(column, g) /\ k \in 1 .. n
      BY <1>4, <1>6
    <3>2. k <= lo
      BY <2>1, <3>1
    <3>3. k = lo \/ k < lo
      BY ONLY <1>1, <2>2, <3>1, <3>2
    <3> QED BY <1>2, <1>3, <2>2, <3>1, <3>3
  <2>4. \A f \in S : file[f].at <= g => file[f].at <= track[lo].at
    BY <1>5, <2>3
  <2>5. Told(S, g)
    <3>1. PICK f \in S : file[f].at <= track[lo].at
      BY <1>4, <2>2 DEF Told
    <3>2. file[f].at \in Nat
      BY FixesTyped
    <3>3. file[f].at <= g
      BY <2>2, <3>1, <3>2
    <3> QED BY <3>3 DEF Told
  <2>6. CASE AtOrAfter(column, g) = {}
    <3>1. Between(column, g) = Bracket(S, track[lo].at)
      BY <1>4, <1>8, <2>2, <2>6 DEF Between
    <3>2. \A f \in S : file[f].at <= track[lo].at
      <4> SUFFICES ASSUME NEW f \in S PROVE file[f].at <= track[lo].at
        OBVIOUS
      <4>1. PICK k \in V : track[k].at = file[f].at
        BY <1>5
      <4>2. k \in 1 .. n /\ track[k].at <= g
        BY <1>2, <1>4, <1>6, <2>6
      <4> QED BY <2>3, <4>1, <4>2
    <3>3. Bracket(S, track[lo].at) = Bracket(S, g)
      BY <2>2, <3>2, BracketExtends
    <3> QED BY <2>5, <3>1, <3>3 DEF Nearest
  <2>7. CASE AtOrAfter(column, g) # {}
    <3>1. PICK hi : hi = Min(AtOrAfter(column, g))
      OBVIOUS
    <3>2. hi \in AtOrAfter(column, g) /\ \A k \in AtOrAfter(column, g) : hi <= k
      <4>1. AtOrAfter(column, g) \in SUBSET (1 .. n)
        BY <1>4, <1>6
      <4> QED BY <1>1, <2>7, <3>1, <4>1, Extremes
    <3>3. hi \in V /\ hi \in 1 .. n /\ track[hi].at >= g /\ track[hi].at \in Nat
      BY <1>2, <1>4, <1>6, <3>2
    <3>4. \A k \in V : track[k].at >= g => track[k].at >= track[hi].at
      <4> SUFFICES ASSUME NEW k \in V, track[k].at >= g PROVE track[k].at >= track[hi].at
        OBVIOUS
      <4>1. k \in 1 .. n /\ (k = hi \/ hi < k)
        BY <1>4, <1>6, <3>2, <3>3
      <4> QED BY <1>2, <1>3, <3>3, <4>1
    <3>5. \A f \in S : file[f].at >= g => file[f].at >= track[hi].at
      BY <1>5, <3>4
    <3>6. Between(column, g) = Bracket(S, track[lo].at) \union Bracket(S, track[hi].at)
      BY <1>4, <1>8, <2>2, <2>7, <3>1, <3>3 DEF Between
    <3>7. Bracket(S, track[lo].at) \union Bracket(S, track[hi].at) = Bracket(S, g)
      BY <2>2, <2>4, <3>3, <3>5, BracketsJoin
    <3> QED BY <2>5, <3>6, <3>7 DEF Nearest
  <2> QED BY <2>5, <2>6, <2>7
<1> QED BY <1>7, <1>8

(* Induction over the natural numbers, for a set of them.                  *)
LEMMA InductionOnNat ==
  ASSUME NEW S, 0 \in S, \A n \in Nat : n \in S => n + 1 \in S
  PROVE  Nat \subseteq S
<1> DEFINE T == Nat \ S
<1> DEFINE R == OpToRel(<, Nat)
<1>1. SUFFICES ASSUME T # {} PROVE FALSE
  OBVIOUS
<1>2. IsWellFoundedOn(R, Nat)
  BY NatLessThanWellFounded
<1>3. PICK x \in T : \A y \in T : <<y, x>> \notin R
  <2> HIDE DEF R
  <2>1. T \subseteq Nat /\ T # {}
    BY <1>1
  <2> HIDE DEF T
  <2> QED
    BY <1>2, <2>1, WFMin
<1>4. x # 0 /\ x \in Nat
  OBVIOUS
<1>5. x - 1 \in T
  OBVIOUS
<1>6. <<x - 1, x>> \in R
  BY <1>4, <1>5 DEF OpToRel
<1> QED
  BY <1>3, <1>5, <1>6

(* The grid points are twelve half hours apart.                            *)
LEMMA GridSpaced ==
  ASSUME file \in Seq(Row), Cleaned(track), Len(track) > 0,
         NEW at \in [GridTimes -> Int], \A g \in GridTimes : at[g] = g,
         NEW grid, grid = InOrder(GridTimes, at)
  PROVE  \E m \in Nat :
           /\ grid \in [1 .. m -> Nat]
           /\ \A k \in 1 .. m : AtOrBefore(Positions, grid[k]) # {}
           /\ \A k \in 1 .. m - 1 : grid[k + 1] = grid[k] + Step
<1> PICK n, last : n = Len(track) /\ last = track[n].at
  OBVIOUS
<1>1. n \in Nat /\ DOMAIN track = 1 .. n /\ n \in 1 .. n
  <2>1. n \in Nat /\ DOMAIN track = 1 .. n
    BY DEF Cleaned
  <2> QED BY <2>1
<1>2. \A k \in 1 .. n : track[k].at \in Nat
  <2>1. \A k \in DOMAIN track : track[k] \in CleanRow
    BY ElementOf DEF Cleaned
  <2>2. \A k \in DOMAIN track : track[k].at \in Nat
    BY <2>1 DEF CleanRow
  <2> QED BY <1>1, <2>2
<1>3. PICK M \in Nat : M = (last + Step - 1) \div Step
  <2>1. last \in Nat
    BY <1>1, <1>2
  <2> QED BY <2>1 DEF Step
<1>4. GridTimes = {g \in {12 * k : k \in 0 .. M} : AtOrBefore(Positions, g) # {}}
  BY <1>3 DEF GridTimes, Step
<1>5. \A g \in GridTimes : /\ g \in Nat /\ g \in 0 .. 12 * M /\ AtOrBefore(Positions, g) # {}
                   /\ \E k \in 0 .. M : g = 12 * k
  BY <1>3, <1>4
<1>6. \A g \in GridTimes : g + 12 <= 12 * M => g + 12 \in GridTimes
  <2> SUFFICES ASSUME NEW g \in GridTimes, g + 12 <= 12 * M PROVE g + 12 \in GridTimes
    OBVIOUS
  <2>1. PICK k \in 0 .. M : g = 12 * k
    BY <1>5
  <2>2. k + 1 \in 0 .. M /\ g + 12 = 12 * (k + 1)
    BY <1>3, <2>1
  <2>3. AtOrBefore(Positions, g) \subseteq AtOrBefore(Positions, g + 12)
    BY <1>1, <1>2, <1>5 DEF AtOrBefore
  <2> QED BY <1>4, <1>5, <2>2, <2>3
<1>7. IsFiniteSet(GridTimes)
  <2>1. 12 * M \in Nat
    BY <1>3
  <2>2. PICK top \in Nat : top = 12 * M
    BY <2>1
  <2>3. IsFiniteSet(0 .. top)
    BY FS_Interval
  <2>4. GridTimes \in SUBSET (0 .. top)
    BY <1>5, <2>2
  <2> QED BY <2>3, <2>4, FS_Subset
<1>8. PICK m : m = Cardinality(GridTimes)
  OBVIOUS
<1>9. /\ m \in Nat /\ grid \in [1 .. m -> GridTimes]
      /\ \A j, k \in 1 .. m : j < k => at[grid[j]] < at[grid[k]]
      /\ \A g \in GridTimes : \E k \in 1 .. m : grid[k] = g
  <2>1. \A x, y \in GridTimes : x # y => at[x] # at[y]
    OBVIOUS
  <2>2. /\ Cardinality(GridTimes) \in Nat
        /\ InOrder(GridTimes, at) \in [1 .. Cardinality(GridTimes) -> GridTimes]
        /\ \A j, k \in 1 .. Cardinality(GridTimes) :
             j < k => at[InOrder(GridTimes, at)[j]] < at[InOrder(GridTimes, at)[k]]
        /\ \A x \in GridTimes : \E k \in 1 .. Cardinality(GridTimes) : InOrder(GridTimes, at)[k] = x
    BY <1>7, <2>1, InOrderSorts
  <2> QED BY <1>8, <2>2
<1>10. \A k \in 1 .. m : grid[k] \in GridTimes /\ grid[k] \in Nat /\ AtOrBefore(Positions, grid[k]) # {}
  BY <1>5, <1>9
<1>11. \A j, k \in 1 .. m : j < k => grid[j] < grid[k]
  BY <1>9, <1>10
<1>12. ASSUME NEW k \in 1 .. m - 1 PROVE grid[k + 1] = grid[k] + 12
  <2>1. k \in 1 .. m /\ k + 1 \in 1 .. m /\ k < k + 1 /\ k \in Nat
    BY <1>9
  <2>2. PICK a, b : a = grid[k] /\ b = grid[k + 1]
    OBVIOUS
  <2>3. a \in GridTimes /\ b \in GridTimes /\ a < b /\ a \in Nat /\ b \in Nat
    BY <1>10, <1>11, <2>1, <2>2
  <2>4. PICK x \in 0 .. M, y \in 0 .. M : a = 12 * x /\ b = 12 * y
    BY <1>5, <2>3
  <2>5. a + 12 <= b /\ a + 12 <= 12 * M
    BY <1>3, <2>3, <2>4
  <2>6. PICK j \in 1 .. m : grid[j] = a + 12
    BY <1>6, <1>9, <2>3, <2>5
  <2>7. k < j
    BY <1>10, <1>11, <2>1, <2>2, <2>3, <2>6
  <2>8. j = k + 1 \/ k + 1 < j
    BY <2>1, <2>7
  <2>9. ~(k + 1 < j)
    BY <1>11, <2>1, <2>2, <2>3, <2>5, <2>6
  <2> QED BY <2>2, <2>6, <2>8, <2>9
<1>13. grid \in [1 .. m -> Nat]
  BY <1>9, <1>10
<1> QED BY <1>9, <1>10, <1>12, <1>13 DEF Step

LEMMA EvenlySpaced ==
  ASSUME NEW m \in Nat, NEW grid \in [1 .. m -> Nat],
         \A k \in 1 .. m - 1 : grid[k + 1] = grid[k] + Step
  PROVE  \A j, k \in 1 .. m : grid[j] = grid[k] - Step * (k - j)
<1> DEFINE S == {d \in Nat : \A j \in 1 .. m : j + d \in 1 .. m => grid[j + d] = grid[j] + 12 * d}
<1>1. 0 \in S
  OBVIOUS
<1>2. ASSUME NEW d \in Nat, d \in S PROVE d + 1 \in S
  <2> SUFFICES ASSUME NEW j \in 1 .. m, j + (d + 1) \in 1 .. m
               PROVE  grid[j + (d + 1)] = grid[j] + 12 * (d + 1)
    OBVIOUS
  <2>1. PICK k : k = j + d
    OBVIOUS
  <2>2. k \in 1 .. m - 1 /\ k \in 1 .. m /\ k + 1 = j + (d + 1)
    BY <2>1
  <2>3. grid[k] = grid[j] + 12 * d
    BY <1>2, <2>1, <2>2
  <2>4. grid[k + 1] = grid[k] + 12 /\ grid[k] \in Nat /\ grid[j] \in Nat
    BY <2>2 DEF Step
  <2>5. PICK a, b, c : a = grid[j] /\ b = grid[k] /\ c = grid[k + 1]
    OBVIOUS
  <2>6. c = a + 12 * (d + 1)
    <3>1. a \in Nat /\ b \in Nat /\ b = a + 12 * d /\ c = b + 12 /\ d \in Nat
      BY <1>2, <2>3, <2>4, <2>5
    <3> QED BY ONLY <3>1
  <2> QED BY ONLY <2>2, <2>5, <2>6
<1>3. Nat \subseteq S
  <2> HIDE DEF S
  <2> QED BY <1>1, <1>2, InductionOnNat
<1>4. \A j, k \in 1 .. m : j <= k => grid[k] = grid[j] + 12 * (k - j)
  <2> SUFFICES ASSUME NEW j \in 1 .. m, NEW k \in 1 .. m, j <= k
               PROVE  grid[k] = grid[j] + 12 * (k - j)
    OBVIOUS
  <2>1. PICK d \in Nat : d = k - j
    OBVIOUS
  <2>2. d \in S
    <3> HIDE DEF S
    <3> QED BY <1>3
  <2>3. j + d = k
    BY <2>1
  <2> QED BY <2>1, <2>2, <2>3
<1>5. \A k \in 1 .. m : grid[k] \in Nat
  OBVIOUS
<1> HIDE DEF S
<1>6. SUFFICES ASSUME NEW j \in 1 .. m, NEW k \in 1 .. m
               PROVE  grid[j] = grid[k] - 12 * (k - j)
  BY DEF Step
<1>7. PICK a, b : a = grid[j] /\ b = grid[k]
  OBVIOUS
<1>8. /\ a \in Nat /\ b \in Nat /\ j \in Nat /\ k \in Nat
      /\ (j <= k => b = a + 12 * (k - j)) /\ (k <= j => a = b + 12 * (j - k))
  BY <1>4, <1>5, <1>7
<1>9. a = b - 12 * (k - j)
  BY ONLY <1>8
<1> QED BY ONLY <1>7, <1>9

LEMMA TrackTyped ==
  ASSUME Cleaned(track)
  PROVE  /\ Len(track) \in Nat /\ DOMAIN track = 1 .. Len(track)
         /\ \A k \in DOMAIN track : /\ track[k].at \in Nat /\ track[k].from \in SUBSET Nat
                                    /\ track[k].wind \in SUBSET Nat
<1>1. \A k \in DOMAIN track : track[k] \in CleanRow
  BY ElementOf DEF Cleaned
<1>2. \A k \in DOMAIN track : /\ track[k].at \in Nat /\ track[k].from \in SUBSET Nat
                              /\ track[k].wind \in SUBSET Nat
  BY <1>1 DEF CleanRow
<1>3. Len(track) \in Nat /\ DOMAIN track = 1 .. Len(track)
  BY DEF Cleaned
<1> QED BY <1>2, <1>3

GridRows(grid) ==
  [i \in DOMAIN grid |->
     [at |-> grid[i], from |-> Between(Positions, grid[i]),
      wind |-> Between(Winds, grid[i]), speed |-> Speed(grid, i)]]
RowRows ==
  [i \in DOMAIN track |-> [at |-> track[i].at, from |-> track[i].from,
                           wind |-> track[i].wind, speed |-> {}]]

LEMMA OneRowGridded ==
  ASSUME file \in Seq(Row), Cleaned(track), Len(track) < 2
  PROVE  Gridded(RowRows)
<1> PICK n, new : n = Len(track) /\ new = RowRows
  OBVIOUS
<1>1. /\ n \in Nat /\ n < 2 /\ DOMAIN track = 1 .. n
      /\ \A k \in 1 .. n : /\ track[k].at \in Nat /\ track[k].from \in SUBSET Nat
                           /\ track[k].wind \in SUBSET Nat
  BY TrackTyped
<1>2. \A k \in 1 .. n : track[k].from = Bracket(Fixes, track[k].at) /\ Told(Fixes, track[k].at)
  <2>1. PICK column : column = [k \in DOMAIN track |-> track[k].from]
    OBVIOUS
  <2>2. RestsOn(Fixes, track, column) /\ \A k \in 1 .. n : column[k] = track[k].from /\ column[k] # {}
    BY <1>1, <2>1 DEF Cleaned
  <2> QED BY <1>1, <2>2 DEF RestsOn
<1>3. \A k \in 1 .. n : track[k].wind = Nearest(WithWind, track[k].at)
  <2> SUFFICES ASSUME NEW k \in 1 .. n PROVE track[k].wind = Nearest(WithWind, track[k].at)
    OBVIOUS
  <2>1. PICK column : column = [i \in DOMAIN track |-> track[i].wind]
    OBVIOUS
  <2>2. RestsOn(WithWind, track, column) /\ column[k] = track[k].wind
    BY <1>1, <2>1 DEF Cleaned
  <2>3. CASE column[k] # {}
    BY <1>1, <2>2, <2>3 DEF RestsOn, Nearest
  <2>4. CASE column[k] = {}
    <3>1. \A i \in DOMAIN track : i = k
      BY <1>1
    <3>2. WithWind = {}
      BY <2>2, <2>4, <3>1 DEF RestsOn
    <3> QED BY <2>2, <2>4, <3>2 DEF Nearest, Told
  <2> QED BY <2>3, <2>4
<1>4. /\ new \in [1 .. n -> GridRow]
      /\ \A k \in 1 .. n : /\ new[k].at = track[k].at /\ new[k].from = track[k].from
                           /\ new[k].wind = track[k].wind /\ new[k].speed = {}
  <2>1. new = [k \in 1 .. n |-> [at |-> track[k].at, from |-> track[k].from,
                                 wind |-> track[k].wind, speed |-> {}]]
    BY <1>1 DEF RowRows
  <2>2. {} \in SUBSET Nat
    OBVIOUS
  <2>3. new \in [1 .. n -> GridRow]
    BY <1>1, <2>1, <2>2 DEF GridRow
  <2> QED BY <2>1, <2>3
<1>5. new \in Seq(GridRow) /\ DOMAIN new = 1 .. n
  BY <1>1, <1>4, FunctionIsList
<1>6. \A j, k \in 1 .. n : j = k /\ k - j = 0
  BY <1>1
<1>7. \A j, k \in 1 .. n : new[j].at = new[k].at - Step * (k - j)
  <2> SUFFICES ASSUME NEW j \in 1 .. n, NEW k \in 1 .. n
               PROVE  new[j].at = new[k].at - Step * (k - j)
    OBVIOUS
  <2>1. j = k /\ k - j = 0 /\ new[k].at \in Nat
    BY <1>1, <1>4, <1>6
  <2> QED BY <2>1 DEF Step
<1>8. \A k \in 1 .. n :
        /\ new[k].from = Bracket(Fixes, new[k].at) /\ Told(Fixes, new[k].at)
        /\ new[k].wind = Nearest(WithWind, new[k].at) /\ new[k].speed = {}
  BY <1>2, <1>3, <1>4
<1>9. Gridded(new)
  BY <1>5, <1>7, <1>8 DEF Gridded
<1> QED BY <1>9

(* The two columns of a clean track.                                       *)
LEMMA ColumnsDraw ==
  ASSUME file \in Seq(Row), Cleaned(track), NEW g \in Nat
  PROVE  /\ AtOrBefore(Positions, g) # {} =>
              Between(Positions, g) = Bracket(Fixes, g) /\ Told(Fixes, g)
         /\ Between(Winds, g) = Nearest(WithWind, g)
         /\ Between(Positions, g) \in SUBSET Nat /\ Between(Winds, g) \in SUBSET Nat
<1>1. RestsOn(Fixes, track, Positions) /\ RestsOn(WithWind, track, Winds)
  BY DEF Cleaned, Positions, Winds
<1>2. Fixes \in SUBSET Fixes /\ WithWind \in SUBSET Fixes
  BY WithWindAreFixes
<1>3. PICK froms, winds : froms = Positions /\ winds = Winds
  OBVIOUS
<1>4. RestsOn(Fixes, track, froms) /\ RestsOn(WithWind, track, winds)
  BY <1>1, <1>3
<1>5. /\ Between(froms, g) = Nearest(Fixes, g)
      /\ AtOrBefore(froms, g) # {} => Told(Fixes, g)
  BY <1>2, <1>4, BetweenFromBracket
<1>6. Between(winds, g) = Nearest(WithWind, g)
  BY <1>2, <1>4, BetweenFromBracket
<1>7. Nearest(Fixes, g) \in SUBSET Nat /\ Nearest(WithWind, g) \in SUBSET Nat
  BY <1>2, BracketTyped
<1>8. AtOrBefore(froms, g) # {} => Between(froms, g) = Bracket(Fixes, g) /\ Told(Fixes, g)
  BY <1>5 DEF Nearest
<1> QED BY <1>3, <1>5, <1>6, <1>7, <1>8

LEMMA GridGridded ==
  ASSUME file \in Seq(Row), Cleaned(track), NEW m \in Nat, NEW grid \in [1 .. m -> Nat],
         \A k \in 1 .. m : AtOrBefore(Positions, grid[k]) # {},
         \A k \in 1 .. m - 1 : grid[k + 1] = grid[k] + Step
  PROVE  Gridded(GridRows(grid))
<1>1. \A k \in 1 .. m :
        /\ Between(Positions, grid[k]) = Bracket(Fixes, grid[k]) /\ Told(Fixes, grid[k])
        /\ Between(Positions, grid[k]) \in SUBSET Nat
        /\ Between(Winds, grid[k]) = Nearest(WithWind, grid[k])
        /\ Between(Winds, grid[k]) \in SUBSET Nat
  <2> SUFFICES ASSUME NEW k \in 1 .. m, NEW g, g = grid[k]
               PROVE  /\ Between(Positions, g) = Bracket(Fixes, g) /\ Told(Fixes, g)
                      /\ Between(Positions, g) \in SUBSET Nat
                      /\ Between(Winds, g) = Nearest(WithWind, g)
                      /\ Between(Winds, g) \in SUBSET Nat
    OBVIOUS
  <2>1. g \in Nat /\ AtOrBefore(Positions, g) # {}
    OBVIOUS
  <2> QED BY <2>1, ColumnsDraw
<1>2. DOMAIN grid = 1 .. m /\ Len(grid) = m
  BY FunctionIsList
<1> DEFINE Near(g) == UNION {Bracket(Fixes, g + d) : d \in {-Step, 0, Step}}
<1>3. ASSUME NEW k \in 1 .. m
      PROVE  Speed(grid, k) \subseteq Near(grid[k]) /\ Speed(grid, k) \in SUBSET Nat
  <2>1. CASE m = 1
    BY <1>2, <2>1 DEF Speed
  <2>2. CASE m # 1 /\ k < m
    <3>1. k + 1 \in 1 .. m /\ k \in 1 .. m - 1 /\ grid[k] \in Nat
      BY <2>2
    <3>2. Speed(grid, k) = Between(Positions, grid[k]) \union Between(Positions, grid[k + 1])
      BY <1>2, <2>2 DEF Speed
    <3>3. Speed(grid, k) = Bracket(Fixes, grid[k] + 0) \union Bracket(Fixes, grid[k] + Step)
      BY <1>1, <3>1, <3>2 DEF Step
    <3> QED BY <1>1, <3>1, <3>2, <3>3
  <2>3. CASE m # 1 /\ k = m
    <3>1. k - 1 \in 1 .. m - 1 /\ k - 1 \in 1 .. m /\ k - 1 + 1 = k
      BY <2>3
    <3>2. Speed(grid, k) = Between(Positions, grid[k - 1]) \union Between(Positions, grid[k])
      BY <1>2, <2>3, <3>1 DEF Speed
    <3>3. grid[k] = grid[k - 1] + Step /\ grid[k] \in Nat /\ grid[k - 1] \in Nat
      BY <3>1
    <3>4. grid[k - 1] = grid[k] + -Step /\ grid[k] = grid[k] + 0
      <4>1. PICK a, b : a = grid[k - 1] /\ b = grid[k]
        OBVIOUS
      <4>2. a \in Nat /\ b \in Nat /\ b = a + 12
        BY <3>3, <4>1 DEF Step
      <4>3. a = b + (-12)
        BY <4>2
      <4> QED BY <4>1, <4>2, <4>3 DEF Step
    <3>5. Speed(grid, k) = Bracket(Fixes, grid[k] + -Step) \union Bracket(Fixes, grid[k] + 0)
      BY <1>1, <3>1, <3>2, <3>4
    <3> QED BY <1>1, <3>1, <3>2, <3>5
  <2> QED BY <2>1, <2>2, <2>3
<1> HIDE DEF Near
<1>4. PICK new : new = GridRows(grid)
  OBVIOUS
<1>5. /\ new \in [1 .. m -> GridRow]
      /\ \A k \in 1 .. m : /\ new[k].at = grid[k] /\ new[k].from = Between(Positions, grid[k])
                           /\ new[k].wind = Between(Winds, grid[k])
                           /\ new[k].speed = Speed(grid, k)
  <2>1. new = [k \in 1 .. m |->
                 [at |-> grid[k], from |-> Between(Positions, grid[k]),
                  wind |-> Between(Winds, grid[k]), speed |-> Speed(grid, k)]]
    BY <1>2, <1>4 DEF GridRows
  <2>2. \A k \in 1 .. m : /\ grid[k] \in Nat /\ Between(Positions, grid[k]) \in SUBSET Nat
                          /\ Between(Winds, grid[k]) \in SUBSET Nat
                          /\ Speed(grid, k) \in SUBSET Nat
    BY <1>1, <1>3
  <2>3. new \in [1 .. m -> GridRow]
    BY <2>1, <2>2 DEF GridRow
  <2> QED BY <2>1, <2>3
<1>6. new \in Seq(GridRow) /\ DOMAIN new = 1 .. m
  BY <1>5, FunctionIsList
<1>7. \A j, k \in 1 .. m : new[j].at = new[k].at - Step * (k - j)
  <2>1. \A j, k \in 1 .. m : grid[j] = grid[k] - Step * (k - j)
    BY EvenlySpaced
  <2> QED BY ONLY <1>5, <2>1
<1>8. \A k \in 1 .. m : /\ new[k].from = Bracket(Fixes, new[k].at) /\ Told(Fixes, new[k].at)
                        /\ new[k].wind = Nearest(WithWind, new[k].at)
                        /\ new[k].speed \subseteq Near(new[k].at)
  BY <1>1, <1>3, <1>5
<1>9. Gridded(new)
  BY <1>6, <1>7, <1>8 DEF Gridded, Near
<1> QED BY <1>4, <1>9

LEMMA ResampleKeeps == PrepInv /\ resample_track => PrepInv'
<1> SUFFICES ASSUME PrepInv, resample_track PROVE PrepInv'
  OBVIOUS
<1>1. file \in Seq(Row) /\ Cleaned(track)
  BY DEF PrepInv, resample_track
<1>2. file' = file /\ stage' = "grid" /\ samples' = samples
  BY DEF resample_track
<1>3. \E new : track' = new /\ Gridded(new)
  <2>1. CASE Len(track) < 2
    <3>1. track' = RowRows
      BY <2>1 DEF resample_track, RowRows
    <3> QED BY <1>1, <2>1, <3>1, OneRowGridded
  <2>2. CASE ~(Len(track) < 2)
    <3>1. PICK at : at = [g \in GridTimes |-> g]
      OBVIOUS
    <3>2. PICK grid : grid = InOrder(GridTimes, at)
      OBVIOUS
    <3>3. track' = GridRows(grid)
      BY <2>2, <3>1, <3>2 DEF resample_track, GridRows
    <3>4. at \in [GridTimes -> Int] /\ \A g \in GridTimes : at[g] = g
      <4>1. \A g \in GridTimes : g \in Int
        BY DEF GridTimes, Step
      <4> QED BY <3>1, <4>1
    <3>5. Len(track) > 0
      BY <1>1, <2>2, TrackTyped
    <3>6. \E m \in Nat :
            /\ grid \in [1 .. m -> Nat]
            /\ \A k \in 1 .. m : AtOrBefore(Positions, grid[k]) # {}
            /\ \A k \in 1 .. m - 1 : grid[k + 1] = grid[k] + Step
      <4> HIDE <3>1
      <4> QED BY <1>1, <3>2, <3>4, <3>5, GridSpaced
    <3> QED BY <1>1, <3>3, <3>6, GridGridded
  <2> QED BY <2>1, <2>2
<1>4. PICK new : track' = new /\ Gridded(new)
  BY <1>3
<1>5. Gridded(new)'
  BY <1>2, <1>4, FileRests
<1> QED BY <1>1, <1>2, <1>4, <1>5 DEF PrepInv, Gridded, SampleDrawsOnItsBracket

-----------------------------------------------------------------------------
(* The samples.                                                            *)
LEMMA TheLarger ==
  ASSUME NEW x \in Int
  PROVE  Max({1, x}) = IF x > 1 THEN x ELSE 1
<1>1. \E a \in {1, x} : \A b \in {1, x} : a >= b
  OBVIOUS
<1>2. Max({1, x}) \in {1, x} /\ \A b \in {1, x} : Max({1, x}) >= b
  BY <1>1 DEF Max
<1> QED BY <1>2

LEMMA ToldNotEmpty ==
  ASSUME file \in Seq(Row), NEW g \in Nat, Told(Fixes, g)
  PROVE  Bracket(Fixes, g) # {}
<1> DEFINE times == {n \in 1 .. g + 1 : \E f \in Fixes : file[f].at + 1 = n}
<1>1. PICK f \in Fixes : file[f].at <= g
  BY DEF Told
<1>2. \A e \in Fixes : file[e].at \in Nat
  BY FixesTyped
<1>3. file[f].at + 1 \in times
  BY <1>1, <1>2
<1>4. PICK m : m = Max(times)
  OBVIOUS
<1>5. m \in times /\ \A n \in times : n <= m
  <2>1. times \in SUBSET (1 .. g + 1) /\ times # {} /\ g + 1 \in Nat
    BY <1>3
  <2> HIDE DEF times
  <2> QED BY <1>4, <2>1, Extremes
<1>6. PICK e \in Fixes : file[e].at + 1 = m
  BY <1>5
<1>7. m \in 1 .. g + 1
  BY <1>5
<1>8. file[e].at <= g
  BY <1>2, <1>6, <1>7
<1>9. ASSUME NEW j \in Fixes, file[j].at <= g PROVE file[j].at <= file[e].at
  <2>1. file[j].at + 1 \in times
    BY <1>2, <1>9
  <2>2. file[j].at + 1 <= m
    <3> HIDE DEF times
    <3> QED BY <1>5, <2>1
  <2>3. PICK x, y : x = file[j].at /\ y = file[e].at
    OBVIOUS
  <2>4. x \in Nat /\ y \in Nat /\ x + 1 <= m /\ y + 1 = m
    BY <1>2, <1>6, <2>2, <2>3
  <2>5. x <= y
    BY ONLY <2>4
  <2> QED BY <2>3, <2>5
<1>10. Last(Fixes, e, g)
  BY <1>8, <1>9 DEF Last
<1> QED BY <1>10, BracketSides

(* What the run checks of a sample.                                        *)
Past(s) == {k \in 1 .. history_steps : s.track_sequence[k] # Zero}
Drawn(s) ==
  /\ history_steps \in Past(s)
  /\ \A k \in Past(s) :
       LET row == s.track_sequence[k]
       IN /\ row.from = Bracket(Fixes, row.at) /\ Told(Fixes, row.at)
          /\ row.wind = Nearest(WithWind, row.at)
          /\ row.at = s.at - Step * (history_steps - k)
          /\ row.speed \subseteq UNION {Bracket(Fixes, row.at + d) : d \in {-Step, 0, Step}}
  /\ s.wind = Nearest(WithWind, s.at)
  /\ \A h \in Horizon : s.horizon_masks[h] => s.future_positions[h] = Bracket(Fixes, s.at + h)

LEMMA GridTyped ==
  ASSUME Gridded(track)
  PROVE  /\ Len(track) \in Nat /\ DOMAIN track = 1 .. Len(track)
         /\ track \in Seq(GridRow)
         /\ \A k \in DOMAIN track : track[k].at \in Nat
<1>1. \A k \in DOMAIN track : track[k] \in GridRow
  BY ElementOf DEF Gridded
<1>2. \A k \in DOMAIN track : track[k].at \in Nat
  BY <1>1 DEF GridRow
<1>3. track \in Seq(GridRow) /\ Len(track) \in Nat /\ DOMAIN track = 1 .. Len(track)
  BY DEF Gridded
<1> QED BY <1>2, <1>3

LEMMA PartOf ==
  ASSUME NEW T, NEW s \in Seq(T), NEW lo \in 1 .. Len(s), NEW hi \in lo .. Len(s)
  PROVE  /\ Len(SubSeq(s, lo, hi)) = hi - lo + 1
         /\ \A k \in 1 .. hi - lo + 1 : SubSeq(s, lo, hi)[k] = s[lo + k - 1]
OBVIOUS

(* The rows of the past are those up to the present, at the end.           *)
LEMMA PastRows ==
  ASSUME Gridded(track), NEW i \in DOMAIN track, NEW s, s = make_fused_sample(Sample(i))
  PROVE  /\ s.track_sequence[history_steps] = track[i]
         /\ \A k \in Past(s) : /\ i - (history_steps - k) \in DOMAIN track
                               /\ s.track_sequence[k] = track[i - (history_steps - k)]
<1> PICK n : n = Len(track)
  OBVIOUS
<1>1. /\ n \in Nat /\ DOMAIN track = 1 .. n /\ i \in 1 .. n
      /\ track \in Seq(GridRow)
  BY GridTyped
<1>2. PICK lo : lo = IF i - 7 > 1 THEN i - 7 ELSE 1
  OBVIOUS
<1>3. lo \in 1 .. n /\ i \in lo .. n /\ i - lo + 1 \in 1 .. 8
  <2>0. n \in Nat
    BY <1>1
  <2>1. i \in Nat /\ 1 <= i /\ i <= n
    BY <1>1
  <2>2. CASE i - 7 > 1
    <3>1. lo = i - 7
      BY <1>2, <2>2
    <3> QED BY ONLY <2>0, <2>1, <2>2, <3>1
  <2>3. CASE ~(i - 7 > 1)
    <3>1. lo = 1
      BY <1>2, <2>3
    <3> QED BY ONLY <2>0, <2>1, <2>3, <3>1
  <2> QED BY <2>2, <2>3
<1>4. PICK h : h = SubSeq(track, lo, i)
  OBVIOUS
<1>5. Len(h) = i - lo + 1 /\ \A k \in 1 .. i - lo + 1 : h[k] = track[lo + k - 1]
  <2>1. lo \in 1 .. Len(track) /\ i \in lo .. Len(track)
    BY <1>3
  <2> QED BY <1>1, <1>4, <2>1, PartOf
<1>6. Sample(i).history = h
  <2>1. i - history_steps + 1 \in Int /\ i - history_steps + 1 = i - 7
    BY <1>1 DEF history_steps
  <2>2. Max({1, i - history_steps + 1}) = lo
    BY <1>2, <2>1, TheLarger
  <2> QED BY <1>4, <2>2 DEF Sample
<1>7. PICK seq : seq = s.track_sequence
  OBVIOUS
<1>8. seq = [k \in 1 .. 8 |-> IF k <= 8 - Len(h) THEN Zero ELSE h[k - (8 - Len(h))]]
  BY <1>6, <1>7 DEF make_fused_sample, _build_track_sequence_tensor, history_steps
<1>9. ASSUME NEW k \in 1 .. 8, k > 8 - Len(h)
      PROVE  i - (8 - k) \in 1 .. n /\ seq[k] = track[i - (8 - k)]
  <2>1. PICK j : j = k - (8 - Len(h))
    OBVIOUS
  <2>2. j \in 1 .. i - lo + 1 /\ lo + j - 1 = i - (8 - k)
    <3>1. j = k - (8 - (i - lo + 1)) /\ k > 8 - (i - lo + 1)
      BY <1>5, <1>9, <2>1
    <3>2. i \in Int /\ lo \in Int /\ k \in 1 .. 8
      BY <1>1, <1>3
    <3> QED BY ONLY <3>1, <3>2
  <2>3. seq[k] = h[j]
    BY <1>3, <1>5, <1>8, <1>9, <2>1
  <2>4. h[j] = track[lo + j - 1]
    BY <1>5, <2>2
  <2>5. i - (8 - k) \in 1 .. n
    BY <1>1, <1>3, <2>2
  <2> QED BY <2>2, <2>3, <2>4, <2>5
<1>10. \A k \in 1 .. 8 : k > 8 - Len(h) \/ seq[k] = Zero
  BY <1>3, <1>5, <1>8
<1>11. 8 \in 1 .. 8 /\ 8 > 8 - Len(h) /\ i - (8 - 8) = i
  BY <1>1, <1>3, <1>5
<1>12. seq[8] = track[i]
  BY <1>9, <1>11
<1>13. ASSUME NEW k \in Past(s)
       PROVE  i - (8 - k) \in DOMAIN track /\ seq[k] = track[i - (8 - k)]
  <2>1. k \in 1 .. 8 /\ seq[k] # Zero
    BY <1>7 DEF Past, history_steps
  <2> QED BY <1>1, <1>9, <1>10, <2>1
<1> QED BY <1>7, <1>12, <1>13 DEF history_steps

LEMMA SamplesDrawn ==
  ASSUME file \in Seq(Row), Gridded(track), NEW i \in DOMAIN track,
         NEW s, s = make_fused_sample(Sample(i))
  PROVE  Drawn(s)
<1>1. s.at = track[i].at /\ s.wind = track[i].wind /\ track[i].at \in Nat
  BY GridTyped DEF make_fused_sample, Sample
<1>2. \A k \in DOMAIN track :
        /\ track[k].at \in Nat
        /\ track[k].from = Bracket(Fixes, track[k].at) /\ Told(Fixes, track[k].at)
        /\ track[k].wind = Nearest(WithWind, track[k].at)
        /\ track[k].speed \subseteq UNION {Bracket(Fixes, track[k].at + d) : d \in {-Step, 0, Step}}
        /\ track[k].at = track[i].at - Step * (i - k)
  BY GridTyped DEF Gridded
<1>3. \A k \in Past(s) : /\ i - (history_steps - k) \in DOMAIN track
                         /\ s.track_sequence[k] = track[i - (history_steps - k)]
  BY PastRows
<1>4. history_steps \in Past(s)
  <2>1. s.track_sequence[history_steps] = track[i]
    BY PastRows
  <2>2. track[i].from # {} /\ Zero.from = {}
    BY <1>2, ToldNotEmpty DEF Zero
  <2> QED BY <2>1, <2>2 DEF Past, history_steps
<1>5. ASSUME NEW k \in Past(s)
      PROVE  LET row == s.track_sequence[k]
             IN /\ row.from = Bracket(Fixes, row.at) /\ Told(Fixes, row.at)
                /\ row.wind = Nearest(WithWind, row.at)
                /\ row.at = s.at - Step * (history_steps - k)
                /\ row.speed \subseteq UNION {Bracket(Fixes, row.at + d) : d \in {-Step, 0, Step}}
  <2>1. PICK r : r = i - (history_steps - k)
    OBVIOUS
  <2>2. r \in DOMAIN track /\ s.track_sequence[k] = track[r]
    BY <1>3, <2>1
  <2>3. i - r = history_steps - k
    <3>1. i \in Int /\ k \in Int
      BY GridTyped DEF Past
    <3> QED BY <2>1, <3>1 DEF history_steps
  <2> QED BY <1>1, <1>2, <2>2, <2>3
<1>6. ASSUME NEW h \in Horizon, s.horizon_masks[h]
      PROVE  s.future_positions[h] = Bracket(Fixes, s.at + h)
  <2>1. PICK f : f = Sample(i).future
    OBVIOUS
  <2>2. f = [x \in {x \in Horizon : \E j \in i + 1 .. Len(track) : track[j].at = track[i].at + x}
               |-> track[CHOOSE j \in DOMAIN track : track[j].at = track[i].at + x].from]
    BY <2>1 DEF Sample
  <2>3. h \in DOMAIN f /\ s.future_positions[h] = f[h]
    BY <1>6, <2>1 DEF make_fused_sample
  <2>4. /\ \E j \in i + 1 .. Len(track) : track[j].at = track[i].at + h
        /\ f[h] = track[CHOOSE j \in DOMAIN track : track[j].at = track[i].at + h].from
    BY <2>2, <2>3
  <2>5. \E j \in DOMAIN track : track[j].at = track[i].at + h
    BY <2>4, GridTyped
  <2>6. PICK j : j = CHOOSE x \in DOMAIN track : track[x].at = track[i].at + h
    OBVIOUS
  <2>7. j \in DOMAIN track /\ track[j].at = track[i].at + h
    BY <2>5, <2>6
  <2>8. f[h] = track[j].from
    BY <2>4, <2>6
  <2> QED BY <1>1, <1>2, <2>3, <2>7, <2>8
<1>7. s.wind = Nearest(WithWind, s.at)
  BY <1>1, <1>2
<1> QED BY <1>4, <1>5, <1>6, <1>7 DEF Drawn

-----------------------------------------------------------------------------
(* What has been made stays, and a storm that is done stays done.          *)
LEMMA SampleRests == track' = track => \A i : Sample(i)' = Sample(i)
<1> SUFFICES ASSUME track' = track PROVE \A i : Sample(i)' = Sample(i)
  OBVIOUS
<1>1. ASSUME NEW CONSTANT i PROVE Sample(i)' = Sample(i)
  BY DEF Sample
<1> QED BY <1>1

LEMMA SamplesKeep == PrepInv /\ build_samples => PrepInv'
<1> SUFFICES ASSUME PrepInv, build_samples PROVE PrepInv'
  OBVIOUS
<1>1. /\ file \in Seq(Row) /\ Gridded(track) /\ file' = file /\ track' = track
      /\ stage' = "samples" /\ samples' = [i \in DOMAIN track |-> Sample(i)]
  BY DEF PrepInv, build_samples
<1>2. PICK rows : rows = track
  OBVIOUS
<1>3. Gridded(rows)'
  BY <1>1, <1>2, FileRests
<1>4. Gridded(track)'
  BY <1>1, <1>2, <1>3 DEF Gridded
<1>5. samples' = [i \in DOMAIN track' |-> Sample(i)']
  BY <1>1, SampleRests
<1>6. SampleDrawsOnItsBracket'
  BY <1>1 DEF SampleDrawsOnItsBracket
<1>7. file' \in Seq(Row) /\ ~(stage' = "clean")
  BY <1>1
<1>8. stage' = "samples" => samples' = [i \in DOMAIN track' |-> Sample(i)']
  BY <1>5
<1> HIDE <1>1
<1> QED BY <1>4, <1>6, <1>7, <1>8 DEF PrepInv

LEMMA DrawnRests ==
  ASSUME file' = file, NEW CONSTANT s, Drawn(s)
  PROVE  Drawn(s)'
<1>1. Past(s)' = Past(s)
  BY DEF Past, Zero
<1>2. Fixes' = Fixes /\ WithWind' = WithWind
  BY FileRests
<1>3. \A g : /\ Bracket(Fixes, g)' = Bracket(Fixes, g) /\ Told(Fixes, g)' = Told(Fixes, g)
             /\ Nearest(WithWind, g)' = Nearest(WithWind, g)
  BY FileRests
<1> QED BY <1>1, <1>2, <1>3 DEF Drawn

LEMMA LoadKeeps == PrepInv /\ LoadDataset => PrepInv'
<1> SUFFICES ASSUME PrepInv, LoadDataset PROVE PrepInv'
  OBVIOUS
<1>1. /\ file \in Seq(Row) /\ Gridded(track) /\ file' = file /\ track' = track
      /\ stage' = "done" /\ samples = [i \in DOMAIN track |-> Sample(i)]
      /\ samples' = [i \in DOMAIN samples |-> make_fused_sample(samples[i])]
  BY DEF PrepInv, LoadDataset
<1>2. ASSUME NEW CONSTANT i, i \in DOMAIN samples', NEW CONSTANT s, s = samples'[i]
      PROVE  Drawn(s)'
  <2>2. i \in DOMAIN track /\ s = make_fused_sample(Sample(i))
    BY <1>1, <1>2
  <2>3. Drawn(s)
    BY <1>1, <2>2, SamplesDrawn
  <2>4. Drawn(s)'
    BY <1>1, <2>3, DrawnRests
  <2> QED BY <2>4
<1>3. SampleDrawsOnItsBracket'
  <2> HIDE <1>1
  <2> QED BY <1>2 DEF SampleDrawsOnItsBracket, Drawn, Past, Told
<1> QED BY <1>1, <1>3 DEF PrepInv

LEMMA PrepStarts == PrepInit => PrepInv
<1> SUFFICES ASSUME PrepInit PROVE PrepInv
  OBVIOUS
<1>1. file \in Seq(Row)
  BY PrepAssumption DEF PrepInit, Row
<1> QED BY <1>1 DEF PrepInit, PrepInv, SampleDrawsOnItsBracket

LEMMA PrepRests == PrepInv /\ UNCHANGED prepVars => PrepInv'
<1> SUFFICES ASSUME PrepInv, UNCHANGED prepVars PROVE PrepInv'
  OBVIOUS
<1>1. file' = file /\ stage' = stage /\ track' = track /\ samples' = samples
  BY DEF prepVars
<1>2. PICK rows, made : rows = track /\ made = samples
  OBVIOUS
<1>3. /\ stage' = "clean" => Cleaned(rows)'
      /\ stage' \in {"grid", "samples"} => Gridded(rows)'
  BY <1>1, <1>2, FileRests DEF PrepInv
<1>4. stage' = "samples" => samples' = [i \in DOMAIN track' |-> Sample(i)']
  BY <1>1, SampleRests DEF PrepInv
<1>5. ASSUME NEW CONSTANT i, stage = "done", i \in DOMAIN made PROVE Drawn(made[i])'
  <2>1. PICK s : s = made[i]
    OBVIOUS
  <2>2. Drawn(s)
    BY <1>2, <1>5, <2>1 DEF PrepInv, SampleDrawsOnItsBracket, Drawn, Past, Told
  <2>3. Drawn(s)'
    BY <1>1, <2>2, DrawnRests
  <2> QED BY <2>1, <2>3
<1>6. SampleDrawsOnItsBracket'
  BY <1>1, <1>2, <1>5 DEF SampleDrawsOnItsBracket, Drawn, Past, Told
<1>7. Cleaned(rows)' /\ rows = track' => Cleaned(track)'
  BY DEF Cleaned
<1>8. Gridded(rows)' /\ rows = track' => Gridded(track)'
  BY DEF Gridded
<1>9. file' \in Seq(Row)
  BY <1>1 DEF PrepInv
<1> QED BY <1>1, <1>2, <1>3, <1>4, <1>6, <1>7, <1>8, <1>9 DEF PrepInv

LEMMA PrepKeeps == PrepInv /\ [PrepNext]_prepVars => PrepInv'
<1> SUFFICES ASSUME PrepInv, [PrepNext]_prepVars PROVE PrepInv'
  OBVIOUS
<1>1. CASE clean_tracks
  BY <1>1, CleanKeeps
<1>2. CASE resample_track
  BY <1>2, ResampleKeeps
<1>3. CASE build_samples
  BY <1>3, SamplesKeep
<1>4. CASE LoadDataset
  BY <1>4, LoadKeeps
<1>5. CASE UNCHANGED prepVars
  BY <1>5, PrepRests
<1> QED BY <1>1, <1>2, <1>3, <1>4, <1>5 DEF PrepNext

(* What a network is given of a storm rests on the fixes nearest to each   *)
(* time, its winds on the nearest that were measured, none before the      *)
(* first: of whatever file, with rows and winds missing, doubled or out of *)
(* order, the storm was read from.                                         *)
THEOREM SamplesCorrect == PrepSpec => []SampleDrawsOnItsBracket
<1>1. PrepInv => SampleDrawsOnItsBracket
  BY DEF PrepInv
<1> QED BY <1>1, PrepStarts, PrepKeeps, PTL DEF PrepSpec

-----------------------------------------------------------------------------
(* The replay: the cache file and its two consumers.                       *)

FeedSpec == FeedInit /\ [][FeedNext]_feedVars

Places == {"idle", "read", "loaded", "compute", "write"}
CacheTypeOK ==
  /\ load \in [Loader -> Places]
  /\ offset \in [Loader -> Nat]
  /\ got \in [Loader -> 0 .. FrameCount]
  /\ disturbed \in BOOLEAN

(* Left alone, the file is not there, or whole, or the writer that opened  *)
(* it last is at work and has all its own half lines in it.                *)
Unfinished(l) == Writing(l) /\ 1 .. offset[l] \subseteq disk
DiskInv ==
  ~disturbed =>
    \/ disk = NoFile /\ \A l \in Loader : ~Writing(l)
    \/ disk = 1 .. 2 * FrameCount
    \/ disk \subseteq 1 .. 2 * FrameCount /\ \E l \in Loader : Unfinished(l)
CacheInv ==
  /\ CacheTypeOK /\ DiskInv
  /\ \A l \in Loader : Writing(l) => offset[l] <= 2 * FrameCount
  /\ ShortReplayHasACause

LEMMA CacheStarts == CacheInit => CacheInv
<1> SUFFICES ASSUME CacheInit PROVE CacheInv
  OBVIOUS
<1>1. CacheTypeOK
  <2>1. 0 \in 0 .. FrameCount
    BY CacheAssumption
  <2> QED BY <2>1 DEF CacheInit, CacheTypeOK, Places
<1>2. \A l \in Loader : load[l] = "idle"
  BY DEF CacheInit
<1>3. disk = NoFile
  BY DEF CacheInit
<1> QED BY <1>1, <1>2, <1>3 DEF CacheInv, DiskInv, Writing, ShortReplayHasACause

LEMMA StartLoadKeeps ==
  ASSUME CacheInv, NEW l \in Loader, StartLoad(l), load[l] = "idle"
  PROVE  CacheInv'
BY DEF CacheInv, CacheTypeOK, DiskInv, Unfinished, Writing, Places, ShortReplayHasACause, StartLoad

(* A reader that no writer disturbs finds all the frames or no file.       *)
LEMMA WholeParses ==
  ASSUME NEW k \in 1 .. FrameCount, 1 .. 2 * k = 1 .. 2 * FrameCount
  PROVE  k = FrameCount
<1>1. 2 * FrameCount \in 1 .. 2 * FrameCount
  BY CacheAssumption
<1> QED BY <1>1, CacheAssumption

LEMMA ReadCacheKeeps ==
  ASSUME CacheInv, NEW l \in Loader, ReadCache(l)
  PROVE  CacheInv'
<1> USE DEF CacheInv
<1>1. CacheTypeOK'
  <2>1. PICK s \in Places : load' = [load EXCEPT ![l] = s]
    BY DEF ReadCache, Places
  <2>2. \A k \in Parsed : k \in 0 .. FrameCount
    BY CacheAssumption DEF Parsed
  <2>3. got' \in [Loader -> 0 .. FrameCount]
    BY <2>2 DEF CacheTypeOK, ReadCache
  <2>4. load' \in [Loader -> Places] /\ offset' \in [Loader -> Nat]
    BY <2>1 DEF CacheTypeOK, ReadCache
  <2>5. disturbed' \in BOOLEAN
    <3>1. PICK met : met = \E m \in Loader : Writing(m)
      OBVIOUS
    <3>2. disturbed' = (disturbed \/ met) /\ met \in BOOLEAN
      BY <3>1 DEF ReadCache
    <3> QED BY <3>2
  <2> QED BY <2>3, <2>4, <2>5 DEF CacheTypeOK
<1>2. \A m \in Loader : Writing(m)' <=> Writing(m)
  BY DEF CacheTypeOK, ReadCache, Writing
<1>3. DiskInv'
  BY <1>2 DEF DiskInv, Unfinished, ReadCache, CacheTypeOK
<1>4. \A m \in Loader : Writing(m)' => offset'[m] <= 2 * FrameCount
  BY <1>2 DEF ReadCache
<1>5. ShortReplayHasACause'
  <2> SUFFICES ASSUME NEW m \in Loader, load'[m] = "loaded", got'[m] < FrameCount, ~disturbed'
               PROVE  FALSE
    BY DEF ShortReplayHasACause
  <2>1. ~disturbed /\ \A n \in Loader : ~Writing(n)
    BY DEF ReadCache, CacheTypeOK
  <2>2. m = l
    BY <2>1 DEF ShortReplayHasACause, ReadCache, CacheTypeOK
  <2>3. PICK k \in Parsed : got' = [got EXCEPT ![l] = k]
    BY <2>2 DEF ReadCache, CacheTypeOK
  <2>4. k \in 1 .. FrameCount /\ disk = 1 .. 2 * k
    BY <2>3 DEF Parsed
  <2>5. 1 \in disk /\ 1 \notin NoFile
    BY <2>4 DEF NoFile
  <2>6. disk = 1 .. 2 * FrameCount
    BY <2>1, <2>5 DEF DiskInv, Unfinished
  <2>7. k = FrameCount
    BY <2>4, <2>6, WholeParses
  <2> QED BY <2>2, <2>3, <2>7, CacheAssumption DEF CacheTypeOK
<1> QED BY <1>1, <1>3, <1>4, <1>5

LEMMA OpenCacheKeeps ==
  ASSUME CacheInv, NEW l \in Loader, OpenCache(l)
  PROVE  CacheInv'
<1> USE DEF CacheInv
<1>1. CacheTypeOK'
  BY CacheAssumption DEF CacheTypeOK, OpenCache, Places
<1>2. Unfinished(l)' /\ disk' = {}
  BY CacheAssumption DEF Unfinished, OpenCache, Writing, CacheTypeOK
<1>3. DiskInv'
  BY <1>2 DEF DiskInv
<1>4. \A m \in Loader : Writing(m)' => offset'[m] <= 2 * FrameCount
  BY CacheAssumption DEF OpenCache, CacheTypeOK, Writing
<1>5. ShortReplayHasACause'
  BY DEF ShortReplayHasACause, OpenCache, CacheTypeOK
<1> QED BY <1>1, <1>3, <1>4, <1>5

LEMMA FlushHalfKeeps ==
  ASSUME CacheInv, NEW l \in Loader, FlushHalf(l)
  PROVE  CacheInv'
<1> USE DEF CacheInv
<1>1. CacheTypeOK'
  BY CacheAssumption DEF CacheTypeOK, FlushHalf, Places
<1>2. /\ \A m \in Loader : Writing(m)' <=> Writing(m)
      /\ disk' = disk \cup {offset[l] + 1} /\ disturbed' = disturbed
      /\ offset[l] \in Nat /\ offset'[l] = offset[l] + 1
      /\ \A m \in Loader \ {l} : offset'[m] = offset[m]
      /\ offset[l] + 1 \in 1 .. 2 * FrameCount
      /\ Writing(l)
  BY CacheAssumption DEF CacheTypeOK, FlushHalf, Writing
<1>3. DiskInv'
  <2> SUFFICES ASSUME ~disturbed PROVE DiskInv'
    BY <1>2 DEF DiskInv
  <2>1. CASE disk = 1 .. 2 * FrameCount
    <3>1. disk' = 1 .. 2 * FrameCount
      BY <2>1, <1>2
    <3> QED BY <3>1 DEF DiskInv
  <2>2. CASE disk \subseteq 1 .. 2 * FrameCount /\ \E m \in Loader : Unfinished(m)
    <3>1. PICK m \in Loader : Unfinished(m)
      BY <2>2
    <3>2. Unfinished(m)'
      BY <3>1, <1>2 DEF Unfinished, CacheTypeOK
    <3>3. disk' \subseteq 1 .. 2 * FrameCount
      BY <2>2, <1>2
    <3> QED BY <3>2, <3>3 DEF DiskInv
  <2> QED BY <2>1, <2>2, <1>2 DEF DiskInv
<1>4. \A m \in Loader : Writing(m)' => offset'[m] <= 2 * FrameCount
  BY <1>2, CacheAssumption
<1>5. ShortReplayHasACause'
  BY DEF ShortReplayHasACause, FlushHalf
<1> QED BY <1>1, <1>3, <1>4, <1>5

LEMMA CloseCacheKeeps ==
  ASSUME CacheInv, NEW l \in Loader, CloseCache(l)
  PROVE  CacheInv'
<1> USE DEF CacheInv
<1>1. CacheTypeOK'
  BY CacheAssumption DEF CacheTypeOK, CloseCache, Places
<1>2. /\ \A m \in Loader : Writing(m)' <=> Writing(m) /\ m # l
      /\ disk' = disk /\ disturbed' = disturbed
      /\ \A m \in Loader \ {l} : offset'[m] = offset[m]
      /\ offset[l] = 2 * FrameCount
      /\ Writing(l)
  BY CacheAssumption DEF CacheTypeOK, CloseCache, Writing
<1>3. DiskInv'
  <2> SUFFICES ASSUME ~disturbed PROVE DiskInv'
    BY <1>2 DEF DiskInv
  <2>1. CASE disk = 1 .. 2 * FrameCount
    BY <2>1, <1>2 DEF DiskInv
  <2>2. CASE disk \subseteq 1 .. 2 * FrameCount /\ \E m \in Loader : Unfinished(m)
    <3>1. PICK m \in Loader : Unfinished(m)
      BY <2>2
    <3>2. CASE m = l
      BY <3>1, <3>2, <2>2, <1>2 DEF DiskInv, Unfinished
    <3>3. CASE m # l
      <4>1. Unfinished(m)'
        BY <3>1, <3>3, <1>2 DEF Unfinished
      <4> QED BY <4>1, <2>2, <1>2 DEF DiskInv
    <3> QED BY <3>2, <3>3
  <2> QED BY <2>1, <2>2, <1>2 DEF DiskInv
<1>4. \A m \in Loader : Writing(m)' => offset'[m] <= 2 * FrameCount
  BY <1>2
<1>5. ShortReplayHasACause'
  BY CacheAssumption DEF ShortReplayHasACause, CloseCache, CacheTypeOK
<1> QED BY <1>1, <1>3, <1>4, <1>5

LEMMA ReturnKeeps ==
  ASSUME CacheInv, NEW l \in Loader, load[l] = "loaded", Return(l)
  PROVE  CacheInv'
BY CacheAssumption
   DEF CacheInv, CacheTypeOK, DiskInv, Unfinished, Writing, Places, ShortReplayHasACause, Return

(* Whoever dies while it writes has disturbed the file.                    *)
LEMMA LoadersDieKeeps ==
  ASSUME CacheInv, NEW dying \in SUBSET Loader, LoadersDie(dying)
  PROVE  CacheInv'
<1> USE DEF CacheInv
<1>1. CacheTypeOK'
  BY CacheAssumption DEF CacheTypeOK, LoadersDie, Places
<1>2. /\ \A m \in Loader : Writing(m)' <=> Writing(m) /\ m \notin dying
      /\ \A m \in Loader \ dying : offset'[m] = offset[m]
      /\ disk' = disk
      /\ ~disturbed' => ~disturbed /\ \A m \in dying : ~Writing(m)
  BY DEF CacheTypeOK, LoadersDie, Writing
<1>3. DiskInv'
  BY <1>2 DEF DiskInv, Unfinished
<1>4. \A m \in Loader : Writing(m)' => offset'[m] <= 2 * FrameCount
  BY <1>2
<1>5. ShortReplayHasACause'
  BY DEF ShortReplayHasACause, LoadersDie, CacheTypeOK
<1> QED BY <1>1, <1>3, <1>4, <1>5

LEMMA CacheRests == ASSUME CacheInv, UNCHANGED cacheVars PROVE CacheInv'
BY DEF cacheVars, CacheInv, CacheTypeOK, DiskInv, Unfinished, Writing, ShortReplayHasACause

-----------------------------------------------------------------------------
(* The service and the producer only start a load that is idle and take    *)
(* the frames of one that is done.                                         *)

RequestShape ==
  [pc : {"idle", "next", "reset", "advance"}, jump : Nat, frames : Nat, cur : Nat,
   overtaken : BOOLEAN]

(* The latest request, as long as it has yet to move the cursor, will move *)
(* it to the frame that is due.                                            *)
ServiceInv ==
  /\ memory \in Nat /\ cursor \in Nat /\ late \in BOOLEAN
  /\ request \in [Worker -> RequestShape]
  /\ \A w \in Worker : request[w].pc = "advance" =>
       /\ request[w].cur < request[w].frames
       /\ ~request[w].overtaken => due = (request[w].cur + 1) % request[w].frames
  /\ \A w \in Worker : request[w].overtaken => request[w].pc = "advance"
  /\ PlaybackInSequence

FeedInv == CacheInv /\ ServiceInv

LEMMA Around ==
  ASSUME NEW n \in Nat, NEW i \in Nat, i < n
  PROVE  (i + 1) % n \in Nat
<1>1. CASE i + 1 = n
  BY <1>1
<1>2. CASE i + 1 < n
  BY <1>2
<1> QED BY <1>1, <1>2

LEMMA LoadersAre == Worker \subseteq Loader /\ Producer \in Loader
BY FeedAssumption

LEMMA ServiceRests ==
  ASSUME ServiceInv, UNCHANGED <<memory, cursor, request, due, late>>
  PROVE  ServiceInv'
BY DEF ServiceInv, PlaybackInSequence

LEMMA IdleShape == Idle \in RequestShape /\ Idle.pc = "idle" /\ ~Idle.overtaken
BY DEF Idle, RequestShape

LEMMA ServiceStarts == FeedInit => ServiceInv
<1> SUFFICES ASSUME FeedInit PROVE ServiceInv
  OBVIOUS
<1>1. memory = 0 /\ cursor = 0 /\ due = 0 /\ late = FALSE /\ request = [w \in Worker |-> Idle]
  BY DEF FeedInit
<1> QED BY <1>1, IdleShape DEF ServiceInv, PlaybackInSequence

(* What a step makes of a request that is not the latest.                  *)
LEMMA Overtaken ==
  ASSUME ServiceInv, NEW w \in Worker, NEW now \in RequestShape
  PROVE  /\ Overtaking(w, now) \in [Worker -> RequestShape]
         /\ Overtaking(w, now)[w] = now
         /\ \A v \in Worker \ {w} :
              /\ Overtaking(w, now)[v].pc = request[v].pc
              /\ Overtaking(w, now)[v].cur = request[v].cur
              /\ Overtaking(w, now)[v].frames = request[v].frames
              /\ Overtaking(w, now)[v].overtaken = (request[v].pc = "advance")
BY DEF ServiceInv, RequestShape, Overtaking

LEMMA RequestKeeps ==
  ASSUME ServiceInv, NEW w \in Worker, Request(w)
  PROVE  ServiceInv'
<1>1. PICK new \in RequestShape : /\ new.pc # "advance" /\ ~new.overtaken
                                  /\ request' = [request EXCEPT ![w] = new]
  <2>1. [Idle EXCEPT !.pc = "next"] \in RequestShape
    BY DEF Idle, RequestShape
  <2>2. \A jump \in 0 .. FrameCount - 1 : [Idle EXCEPT !.pc = "reset", !.jump = jump] \in RequestShape
    <3> SUFFICES ASSUME NEW jump \in 0 .. FrameCount - 1
                 PROVE  [Idle EXCEPT !.pc = "reset", !.jump = jump] \in RequestShape
      OBVIOUS
    <3>1. jump \in Nat
      BY CacheAssumption
    <3> QED BY <3>1 DEF Idle, RequestShape
  <2> QED BY <2>1, <2>2 DEF Request, Idle
<1>2. request[w].pc = "idle" /\ UNCHANGED <<memory, cursor, due, late>>
  BY DEF Request
<1>3. PlaybackInSequence'
  BY <1>1, <1>2 DEF ServiceInv, PlaybackInSequence
<1> QED BY <1>1, <1>2, <1>3 DEF ServiceInv

LEMMA LookupKeeps ==
  ASSUME ServiceInv, NEW w \in Worker, Lookup(w)
  PROVE  ServiceInv'
BY DEF ServiceInv, PlaybackInSequence, RequestShape, Lookup, Waiting, get_cached_frames

LEMMA StoreKeeps ==
  ASSUME CacheInv, ServiceInv, NEW w \in Worker, Store(w)
  PROVE  ServiceInv'
BY LoadersAre, CacheAssumption
   DEF CacheInv, CacheTypeOK, ServiceInv, PlaybackInSequence, Store

LEMMA NextFrameKeeps ==
  ASSUME ServiceInv, NEW w \in Worker, get_next_frame(w)
  PROVE  ServiceInv'
<1>1. CASE cursor < request[w].frames
  <2> DEFINE now == [request[w] EXCEPT !.pc = "advance", !.cur = cursor]
  <2>1. /\ now \in RequestShape /\ now.pc = "advance" /\ now.cur = cursor
        /\ now.frames = request[w].frames /\ now.overtaken = request[w].overtaken
    BY DEF ServiceInv, RequestShape
  <2>2. /\ request' = Overtaking(w, now) /\ UNCHANGED <<memory, cursor>>
        /\ due' = (cursor + 1) % request[w].frames /\ late' = FALSE
    BY <1>1 DEF get_next_frame
  <2> HIDE DEF now
  <2>3. /\ request' \in [Worker -> RequestShape] /\ request'[w] = now
        /\ \A v \in Worker \ {w} :
             /\ request'[v].pc = request[v].pc /\ request'[v].cur = request[v].cur
             /\ request'[v].frames = request[v].frames
             /\ request'[v].overtaken = (request[v].pc = "advance")
    BY <2>1, <2>2, Overtaken
  <2>4. ~request[w].overtaken
    BY DEF ServiceInv, get_next_frame
  <2>5. PlaybackInSequence'
    BY <2>1, <2>3, <2>4 DEF PlaybackInSequence
  <2>6. memory' \in Nat /\ cursor' \in Nat /\ late' \in BOOLEAN
    BY <2>2 DEF ServiceInv
  <2>7. \A v \in Worker :
          request'[v].pc = "advance" =>
            /\ request'[v].cur < request'[v].frames
            /\ ~request'[v].overtaken =>
                 due' = (request'[v].cur + 1) % request'[v].frames
    <3> SUFFICES ASSUME NEW v \in Worker, request'[v].pc = "advance"
                 PROVE  /\ request'[v].cur < request'[v].frames
                        /\ ~request'[v].overtaken =>
                             due' = (request'[v].cur + 1) % request'[v].frames
      OBVIOUS
    <3>1. CASE v = w
      BY <1>1, <2>1, <2>2, <2>3, <3>1
    <3>2. CASE v # w
      <4>1. request[v].pc = "advance" /\ request'[v].overtaken
        BY <2>3, <3>2
      <4>2. request[v].cur < request[v].frames
        BY <4>1 DEF ServiceInv
      <4> QED BY <2>3, <3>2, <4>1, <4>2
    <3> QED BY <3>1, <3>2
  <2>8. \A v \in Worker : request'[v].overtaken => request'[v].pc = "advance"
    BY <2>1, <2>3, <2>4
  <2> QED BY ONLY <2>3, <2>5, <2>6, <2>7, <2>8 DEF ServiceInv
<1>2. CASE ~(cursor < request[w].frames)
  <2>1. request' = [request EXCEPT ![w] = Idle] /\ UNCHANGED <<memory, cursor, due, late>>
    BY <1>2 DEF get_next_frame
  <2>2. request[w].pc # "advance"
    BY DEF get_next_frame
  <2>3. PlaybackInSequence'
    BY <2>1, <2>2 DEF ServiceInv, PlaybackInSequence
  <2> QED BY <2>1, <2>3, IdleShape DEF ServiceInv
<1> QED BY <1>1, <1>2

LEMMA AdvanceKeeps ==
  ASSUME ServiceInv, NEW w \in Worker, Advance(w)
  PROVE  ServiceInv'
<1>1. PICK i \in Nat, n \in Nat : i = request[w].cur /\ n = request[w].frames
  BY DEF ServiceInv, RequestShape
<1>2. /\ i < n /\ cursor' = (i + 1) % n /\ UNCHANGED <<memory, due>>
      /\ late' = request[w].overtaken
      /\ ~request[w].overtaken => due = (i + 1) % n
  BY <1>1 DEF ServiceInv, Advance
<1>3. cursor' \in Nat
  BY <1>2, Around
<1>4. request' \in [Worker -> RequestShape]
  BY DEF ServiceInv, RequestShape, Idle, Advance
<1>5. PlaybackInSequence'
  BY <1>2 DEF PlaybackInSequence
<1>6. late' \in BOOLEAN
  BY <1>2 DEF ServiceInv, RequestShape
<1> QED BY <1>2, <1>3, <1>4, <1>5, <1>6 DEF ServiceInv, Idle, Advance

LEMMA ResetKeeps ==
  ASSUME ServiceInv, NEW w \in Worker, reset_replay(w)
  PROVE  ServiceInv'
<1>1. cursor' \in Nat
  BY DEF ServiceInv, RequestShape, reset_replay, resolve_preset_frame_index
<1>2. PlaybackInSequence'
  BY DEF PlaybackInSequence, reset_replay
<1>4. request' = Overtaking(w, Idle) /\ late' = FALSE /\ memory' = memory
  BY DEF reset_replay
<1>5. /\ request' \in [Worker -> RequestShape] /\ request'[w] = Idle
      /\ \A v \in Worker \ {w} :
           /\ request'[v].pc = request[v].pc /\ request'[v].cur = request[v].cur
           /\ request'[v].frames = request[v].frames
           /\ request'[v].overtaken = (request[v].pc = "advance")
  BY IdleShape, <1>4, Overtaken
<1> QED BY <1>1, <1>2, IdleShape, <1>4, <1>5 DEF ServiceInv

LEMMA ServiceDiesKeeps ==
  ASSUME ServiceInv, ServiceDies
  PROVE  ServiceInv'
BY DEF ServiceInv, PlaybackInSequence, RequestShape, Idle, ServiceDies

(* Every step of either consumer is one of these for the cache.            *)
LEMMA CacheStep ==
  ASSUME CacheInv, FeedNext
  PROVE  CacheInv'
<1>1. ASSUME NEW w \in Worker, Request(w) \/ ServiceStep(w) PROVE CacheInv'
  <2>1. CASE Lookup(w)
    BY <2>1, LoadersAre, StartLoadKeeps, CacheRests DEF Lookup, get_cached_frames
  <2>2. CASE Store(w)
    BY <2>2, LoadersAre, ReturnKeeps DEF Store
  <2>3. CASE Request(w) \/ get_next_frame(w) \/ Advance(w) \/ reset_replay(w)
    BY <2>3, CacheRests DEF Request, get_next_frame, Advance, reset_replay
  <2> QED BY <1>1, <2>1, <2>2, <2>3 DEF ServiceStep
<1>2. ASSUME NEW l \in Loader, Precompute(l) PROVE CacheInv'
  BY <1>2, ReadCacheKeeps, OpenCacheKeeps, FlushHalfKeeps, CloseCacheKeeps
     DEF Precompute, precompute_replay
<1>3. CASE StartProducer
  BY <1>3, LoadersAre, StartLoadKeeps DEF StartProducer
<1>4. CASE StartReplay
  BY <1>4, LoadersAre, ReturnKeeps DEF StartReplay
<1>5. CASE Post \/ post_frame \/ file_drop \/ RenameLatest \/ \E f \in Frame : Arrive(f)
  BY <1>5, CacheRests DEF Post, post_frame, file_drop, RenameLatest, Arrive
<1>6. CASE ServiceDies \/ ProducerDies
  BY <1>6, LoadersAre, LoadersDieKeeps DEF ServiceDies, ProducerDies
<1> QED BY <1>1, <1>2, <1>3, <1>4, <1>5, <1>6 DEF FeedNext, ProducerStep

LEMMA ServiceStepKeeps ==
  ASSUME CacheInv, ServiceInv, FeedNext
  PROVE  ServiceInv'
<1>1. ASSUME NEW w \in Worker, Request(w) \/ ServiceStep(w) PROVE ServiceInv'
  BY <1>1, RequestKeeps, LookupKeeps, StoreKeeps, NextFrameKeeps, AdvanceKeeps, ResetKeeps
     DEF ServiceStep
<1>2. CASE ServiceDies
  BY <1>2, ServiceDiesKeeps
<1>3. CASE UNCHANGED serviceVars
  BY <1>3, ServiceRests DEF serviceVars
<1>4. ASSUME NEW l \in Loader, Precompute(l) PROVE UNCHANGED serviceVars
  BY <1>4 DEF Precompute
<1>5. CASE StartProducer \/ ProducerStep \/ ProducerDies \/ \E f \in Frame : Arrive(f)
  BY <1>5, <1>3 DEF StartProducer, ProducerStep, StartReplay, Post, post_frame, file_drop,
                    RenameLatest, Arrive, ProducerDies
<1> QED BY <1>1, <1>2, <1>3, <1>4, <1>5 DEF FeedNext

LEMMA FeedStarts == FeedInit => FeedInv
BY CacheStarts, ServiceStarts DEF FeedInit, FeedInv

LEMMA FeedKeeps == FeedInv /\ [FeedNext]_feedVars => FeedInv'
BY CacheStep, ServiceStepKeeps, CacheRests, ServiceRests DEF FeedInv, feedVars, serviceVars

(* For any numbers of frames, threads, runs and deaths: what the file and  *)
(* the cursor are at every point.                                          *)
THEOREM FeedInvariant == FeedSpec => []FeedInv
BY FeedStarts, FeedKeeps, PTL DEF FeedSpec

LEMMA FeedFollows == FeedInv => ShortReplayHasACause /\ PlaybackInSequence
BY DEF FeedInv, CacheInv, ServiceInv

(* Threads and processes may load in any number at once: only a reader of  *)
(* an unfinished file, or the death of a writer, makes a replay short.     *)
THEOREM ReplayCorrect == FeedSpec => []ShortReplayHasACause
BY FeedFollows, FeedInvariant, PTL

(* Requests may overlap in any number: the next frame is the one after the *)
(* last, or the target of the last reset, unless the latest request has    *)
(* yet to move the cursor or an overtaken one has moved it since.          *)
THEOREM PlaybackCorrect == FeedSpec => []PlaybackInSequence
BY FeedFollows, FeedInvariant, PTL

-----------------------------------------------------------------------------
(* The programs of the SOS classifier.                                     *)

SosSpec == SosInit /\ [][SosNext]_sosVars

Stages == {"off", "write", "load", "epochs", "copy", "vectors", "card"}

(* What a job has to write at a stage, and what it may have written.       *)
Outputs(j, at) ==
  CASE j = "normalize" -> {"public"}
    [] j = "generate" -> {"synth"}
    [] j = "autolabel" -> {"autolabeled"}
    [] j = "build" -> Split
    [] j = "teacher" -> {"train_soft"}
    [] j = "train" -> IF at = "load" THEN {"train_soft"} ELSE {"student"}
    [] j = "calibrate" -> {"calibration"}
    [] j = "evaluate" -> {"report"}
    [] j = "export" -> {"int8"}
    [] j = "bundle" -> CASE at = "copy" -> {"int8"}
                         [] at = "vectors" -> {"handoff"}
                         [] at = "card" -> {"vectors"}
                         [] OTHER -> {"card"}
Written(j, at) ==
  CASE j = "train" -> IF at = "load" THEN {"train_soft"} ELSE {"train_soft", "student"}
    [] j = "bundle" -> CASE at = "copy" -> {"int8"}
                         [] at = "vectors" -> {"int8", "handoff"}
                         [] at = "card" -> {"int8", "handoff", "vectors"}
                         [] OTHER -> {"int8", "handoff", "vectors", "card"}
    [] OTHER -> Outputs(j, at)

(* A content that is what the program of a file would make of the files as *)
(* they are.  The committed tree holds no exported network, but a copy.    *)
Fits(f, c) ==
  /\ f = "train_soft" => c = SoftLabels(Batches("train"))
  /\ f = "student" => /\ c.fitted = Batches("train_soft")
                      /\ c.weighed = Batches("class_weights")
                      /\ c.chosen = Batches("val")
  /\ f = "calibration" => c = Temperature(tree["student"], Batches("val"))
  /\ f = "report" =>
       c = Report(tree["student"], load_calibration_temperature, Batches("test"))
  /\ f = "int8" => c = TFLite(tree["student"], load_calibration_temperature)
  /\ f = "handoff" => tree["int8"] = Gone \/ c = tree["int8"]
  /\ f = "vectors" => c = Copied(tree["handoff"], "vectors")
  /\ f = "card" => c = Copied(load_calibration_temperature, "card")

IsList(s) == s \in Seq({s[k] : k \in DOMAIN s})

SosTypeOK ==
  /\ started \in Nat
  /\ where \in [Job -> Stages]
  /\ runOf \in [Job -> Nat]
  /\ writer \in [File -> Nat]
  /\ DOMAIN tree = File /\ DOMAIN touched = Job /\ DOMAIN todo = Job
  /\ \A j \in Job : IsList(todo[j])
  /\ DOMAIN fitting = {"fitted", "weighed", "chosen", "epoch"}

(* Runs are numbered, and a file carries the number of a run that began.   *)
Runs ==
  /\ \A j \in Job : where[j] = "off" => todo[j] = <<>>
  /\ \A j \in Job : where[j] # "off" => runOf[j] > 0 /\ runOf[j] <= started
  /\ \A i, j \in Job : where[i] # "off" /\ where[j] # "off" /\ runOf[i] = runOf[j] => i = j
  /\ \A f \in File : writer[f] <= started
WrittenInOrder ==
  \A j \in Job, g \in File :
    where[j] # "off" /\ writer[g] = runOf[j] => g \in Written(j, where[j])
(* What a job has yet to write belongs to its stage; only the dataset is   *)
(* of several files, which are then the same texts.                        *)
Lists ==
  \A j \in Job :
    /\ \A k \in DOMAIN todo[j] : todo[j][k].file \in Outputs(j, where[j])
    /\ Len(todo[j]) > 1 => j = "build"
    /\ j = "build" => \A k, l \in DOMAIN todo[j] : todo[j][k].content = todo[j][l].content

(* What is on disk or in memory fits the files it was made from, unless    *)
(* another run has written one of them.                                    *)
FilesFit == \A f \in File : f \notin stale /\ Readable(f) => Fits(f, tree[f])
ListsFit ==
  \A j \in Job : \A k \in DOMAIN todo[j] :
    MadeFrom[todo[j][k].file] \intersect touched[j] = {} =>
      Fits(todo[j][k].file, todo[j][k].content)
FittingFits ==
  where["train"] = "epochs" /\ MadeFrom["student"] \intersect touched["train"] = {} =>
    /\ fitting.fitted = Batches("train_soft")
    /\ fitting.weighed = Batches("class_weights")
    /\ fitting.chosen = Batches("val")
(* The files of one run of the builder hold the same texts, the coming     *)
(* ones included.                                                          *)
Datasets ==
  /\ \A f, g \in Split : writer[f] = writer[g] /\ Readable(f) /\ Readable(g) => tree[f] = tree[g]
  /\ \A f \in Split : where["build"] # "off" /\ writer[f] = runOf["build"] /\ Readable(f) =>
       \A k \in DOMAIN todo["build"] : todo["build"][k].content = tree[f]

SosInv ==
  /\ SosTypeOK /\ Runs /\ WrittenInOrder /\ Lists
  /\ FilesFit /\ ListsFit /\ FittingFits /\ Datasets

-----------------------------------------------------------------------------
(* Lists.                                                                  *)
LEMMA ListOf == ASSUME NEW S, NEW s \in Seq(S) PROVE IsList(s)
<1>1. s \in [1 .. Len(s) -> {s[k] : k \in DOMAIN s}] /\ Len(s) \in Nat
  OBVIOUS
<1> QED BY <1>1 DEF IsList

LEMMA EmptyList == IsList(<<>>)
BY DEF IsList

LEMMA OneToWrite ==
  ASSUME NEW f, NEW c
  PROVE  /\ IsList(To(f, c)) /\ Len(To(f, c)) = 1 /\ DOMAIN To(f, c) = {1}
         /\ To(f, c)[1].file = f /\ To(f, c)[1].content = c
<1>1. To(f, c) \in Seq({[file |-> f, content |-> c]})
  BY DEF To
<1>2. IsList(To(f, c))
  BY <1>1, ListOf
<1> QED BY <1>2 DEF To

LEMMA HeadAndTail ==
  ASSUME NEW s, IsList(s), s # <<>>
  PROVE  /\ Len(s) \in Nat /\ Len(s) > 0 /\ DOMAIN s = 1 .. Len(s) /\ Head(s) = s[1]
         /\ IsList(Tail(s)) /\ Len(Tail(s)) = Len(s) - 1 /\ DOMAIN Tail(s) = 1 .. Len(s) - 1
         /\ \A k \in DOMAIN Tail(s) : k + 1 \in DOMAIN s /\ Tail(s)[k] = s[k + 1]
<1>1. PICK S : s \in Seq(S)
  BY DEF IsList
<1>2. Tail(s) \in Seq(S)
  BY <1>1
<1>3. IsList(Tail(s))
  BY <1>2, ListOf
<1> QED BY <1>1, <1>2, <1>3

-----------------------------------------------------------------------------
(* Files.                                                                  *)
LEMMA Kinds ==
  /\ Gone # Cut
  /\ \A b : Texts(b) \notin {Gone, Cut} /\ SoftLabels(b) \notin {Gone, Cut}
<1>1. Gone.is = "gone" /\ Cut.is = "cut"
  BY DEF Gone, Cut
<1>2. \A b : Texts(b).is = "texts" /\ SoftLabels(b).is = "soft"
  BY DEF Texts, SoftLabels
<1> QED BY <1>1, <1>2

(* A content fits as long as the files it was made from stay.              *)
LEMMA FitsFrame ==
  ASSUME NEW f \in File, NEW CONSTANT c,
         \A g \in MadeFrom[f] : tree'[g] = tree[g]
  PROVE  Fits(f, c)' <=> Fits(f, c)
<1>1. /\ f = "train_soft" => "train" \in MadeFrom[f]
      /\ f = "student" => {"train_soft", "val", "class_weights"} \subseteq MadeFrom[f]
      /\ f = "calibration" => {"student", "val"} \subseteq MadeFrom[f]
      /\ f = "report" => {"student", "calibration", "test"} \subseteq MadeFrom[f]
      /\ f = "int8" => {"student", "calibration"} \subseteq MadeFrom[f]
      /\ f = "handoff" => "int8" \in MadeFrom[f]
      /\ f = "vectors" => "handoff" \in MadeFrom[f]
      /\ f = "card" => "calibration" \in MadeFrom[f]
  BY DEF MadeFrom, Split
<1>2. /\ tree'["train"] = tree["train"] => Batches("train")' = Batches("train")
      /\ tree'["train_soft"] = tree["train_soft"] => Batches("train_soft")' = Batches("train_soft")
      /\ tree'["class_weights"] = tree["class_weights"] =>
           Batches("class_weights")' = Batches("class_weights")
      /\ tree'["val"] = tree["val"] => Batches("val")' = Batches("val")
      /\ tree'["test"] = tree["test"] => Batches("test")' = Batches("test")
  BY DEF Batches, Readable
<1>3. tree'["calibration"] = tree["calibration"] =>
        load_calibration_temperature' = load_calibration_temperature
  BY DEF load_calibration_temperature, Readable
<1>4. CASE f \in {"train_soft", "student", "calibration"}
  BY <1>1, <1>2, <1>4 DEF Fits
<1>5. CASE f \in {"report", "int8", "card"}
  BY <1>1, <1>2, <1>3, <1>5 DEF Fits
<1>6. CASE f \notin {"train_soft", "student", "calibration", "report", "int8", "card"}
  BY <1>1, <1>6 DEF Fits
<1> QED BY <1>4, <1>5, <1>6

LEMMA NotMadeFromItself == \A f \in File : f \notin MadeFrom[f]
BY DEF File, MadeFrom, Split, Corpora

(* No job writes a file after one that is made from it.                    *)
LEMMA SourcesFirst ==
  \A j \in Job, at \in Stages : \A f \in Outputs(j, at), g \in Written(j, at) :
    f \in File /\ g \in File /\ f \notin MadeFrom[g]
BY DEF Job, Stages, Outputs, Written, MadeFrom, File, Split, Corpora

LEMMA OutputsWritten ==
  \A j \in Job, at \in Stages : Outputs(j, at) \subseteq Written(j, at)
BY DEF Job, Stages, Outputs, Written

LEMMA OnlyTheBuilder ==
  \A j \in Job, at \in Stages : \A f \in Outputs(j, at) : f \in Split <=> j = "build"
BY DEF Job, Stages, Outputs, Split

LEMMA SplitsAlwaysFit == \A f \in Split : \A c : Fits(f, c)
BY DEF Split, Fits

-----------------------------------------------------------------------------
(* The steps.  A job begins or goes on to a stage with a list it has made  *)
(* of the files as they are, or of what it loaded.                         *)
Duly(j, next, list) ==
  /\ IsList(list)
  /\ \A k \in DOMAIN list : /\ list[k].file \in Outputs(j, next)
                            /\ MadeFrom[list[k].file] \intersect touched[j] = {} =>
                                 Fits(list[k].file, list[k].content)
  /\ Len(list) > 1 => j = "build"
  /\ j = "build" => \A k, l \in DOMAIN list : list[k].content = list[l].content

LEMMA DulyNothing == \A j, next : Duly(j, next, <<>>)
<1>1. DOMAIN <<>> = {} /\ Len(<<>>) = 0
  OBVIOUS
<1> QED BY <1>1, EmptyList DEF Duly

LEMMA DulyOne ==
  ASSUME NEW j, NEW next, NEW f \in Outputs(j, next), NEW c,
         MadeFrom[f] \intersect touched[j] = {} => Fits(f, c)
  PROVE  Duly(j, next, To(f, c))
<1> DEFINE list == To(f, c)
<1>1. /\ IsList(list) /\ Len(list) = 1 /\ DOMAIN list = {1}
      /\ list[1].file = f /\ list[1].content = c
  BY OneToWrite
<1> HIDE DEF list
<1>2. Duly(j, next, list)
  BY <1>1 DEF Duly
<1> QED BY <1>2 DEF list

LEMMA FitsRest ==
  ASSUME UNCHANGED tree, NEW CONSTANT f, NEW CONSTANT c
  PROVE  Fits(f, c)' <=> Fits(f, c)
BY DEF Fits, Batches, Readable, load_calibration_temperature

(* Nothing happens to the files.                                           *)
FilesRest == UNCHANGED <<tree, writer, stale, touched>>

LEMMA BeginKeeps ==
  ASSUME SosInv, NEW CONSTANT j \in Job, NEW CONSTANT next \in Stages \ {"off", "epochs"},
         NEW CONSTANT list, Duly(j, next, list),
         where[j] = "off", started' = started + 1, FilesRest, UNCHANGED fitting,
         runOf' = [runOf EXCEPT ![j] = started'],
         todo' = [todo EXCEPT ![j] = list],
         where' = [where EXCEPT ![j] = next]
  PROVE  SosInv'
<1> USE DEF SosInv, FilesRest
<1>1. SosTypeOK'
  BY DEF SosTypeOK, Duly
<1>2. /\ \A i \in Job \ {j} : where'[i] = where[i] /\ todo'[i] = todo[i] /\ runOf'[i] = runOf[i]
      /\ where'[j] = next /\ todo'[j] = list /\ runOf'[j] = started + 1
  BY DEF SosTypeOK
<1>3. started \in Nat /\ \A i \in Job : runOf[i] \in Nat
  BY DEF SosTypeOK
<1>4. \A f \in File : writer[f] \in Nat /\ writer[f] <= started
  BY DEF SosTypeOK, Runs
<1>5. Runs'
  BY <1>2, <1>3, <1>4 DEF Runs
<1>6. WrittenInOrder'
  BY <1>2, <1>3, <1>4 DEF WrittenInOrder
<1>7. Lists'
  <2> SUFFICES ASSUME NEW CONSTANT i \in Job
               PROVE  /\ \A k \in DOMAIN todo'[i] : todo'[i][k].file \in Outputs(i, where'[i])
                      /\ Len(todo'[i]) > 1 => i = "build"
                      /\ i = "build" => \A k, l \in DOMAIN todo'[i] :
                                           todo'[i][k].content = todo'[i][l].content
    BY DEF Lists, Outputs
  <2>1. CASE i = j
    <3>1. todo'[i] = list /\ where'[i] = next
      BY <1>2, <2>1
    <3>2. Duly(i, next, list)
      BY <2>1
    <3> QED BY <3>1, <3>2 DEF Duly
  <2>2. CASE i # j
    BY <1>2, <2>2 DEF Lists
  <2> QED BY <2>1, <2>2
<1>8. FilesFit'
  <2> SUFFICES ASSUME NEW CONSTANT f \in File, f \notin stale, Readable(f)
               PROVE  Fits(f, tree[f])'
    BY DEF FilesFit, Readable
  <2> QED BY DEF FilesFit, Fits, Batches, Readable, load_calibration_temperature
<1>9. ListsFit'
  <2> SUFFICES ASSUME NEW CONSTANT i \in Job, NEW CONSTANT k \in DOMAIN todo'[i],
                      MadeFrom[todo'[i][k].file] \intersect touched[i] = {}
               PROVE  Fits(todo[i][k].file, todo[i][k].content)'
    BY DEF ListsFit
  <2>1. PICK f, c : f = todo'[i][k].file /\ c = todo'[i][k].content
    OBVIOUS
  <2>2. Fits(f, c)
    <3>1. CASE i = j
      <4>1. todo'[i] = list
        BY <1>2, <3>1
      <4>2. Duly(i, next, list)
        BY <3>1
      <4> QED BY <2>1, <4>1, <4>2 DEF Duly
    <3>2. CASE i # j
      BY <1>2, <2>1, <3>2 DEF ListsFit
    <3> QED BY <3>1, <3>2
  <2>3. Fits(f, c)'
    BY <2>2, FitsRest
  <2> QED BY <2>1, <2>3 DEF Fits
<1>10. FittingFits'
  BY <1>2 DEF FittingFits, Batches, Readable, Job
<1>11. Datasets'
  <2>1. "build" \in Job /\ Split \subseteq File
    BY DEF Job, File
  <2>2. CASE j = "build"
    BY <1>2, <1>3, <1>4, <2>1, <2>2 DEF Datasets, Readable
  <2>3. CASE j # "build"
    BY <1>2, <2>1, <2>3 DEF Datasets, Readable
  <2> QED BY <2>2, <2>3
<1> QED BY <1>1, <1>5, <1>6, <1>7, <1>8, <1>9, <1>10, <1>11

LEMMA GoOnKeeps ==
  ASSUME SosInv, NEW CONSTANT j \in Job \ {"build"}, NEW CONSTANT next \in Stages \ {"off"},
         NEW CONSTANT list, Duly(j, next, list),
         where[j] # "off", todo[j] = <<>>, FilesRest, UNCHANGED <<started, runOf>>,
         Written(j, where[j]) \subseteq Written(j, next),
         todo' = [todo EXCEPT ![j] = list],
         where' = [where EXCEPT ![j] = next],
         DOMAIN fitting' = {"fitted", "weighed", "chosen", "epoch"},
         FittingFits'
  PROVE  SosInv'
<1> USE DEF SosInv, FilesRest
<1>1. SosTypeOK'
  BY DEF SosTypeOK, Duly
<1>2. /\ \A i \in Job \ {j} : where'[i] = where[i] /\ todo'[i] = todo[i]
      /\ where'[j] = next /\ todo'[j] = list /\ runOf' = runOf /\ writer' = writer
      /\ started' = started
  BY DEF SosTypeOK
<1>5. Runs'
  BY <1>2 DEF Runs
<1>6. WrittenInOrder'
  BY <1>2 DEF WrittenInOrder
<1>7. Lists'
  <2> SUFFICES ASSUME NEW CONSTANT i \in Job
               PROVE  /\ \A k \in DOMAIN todo'[i] : todo'[i][k].file \in Outputs(i, where'[i])
                      /\ Len(todo'[i]) > 1 => i = "build"
                      /\ i = "build" => \A k, l \in DOMAIN todo'[i] :
                                           todo'[i][k].content = todo'[i][l].content
    BY DEF Lists, Outputs
  <2>1. CASE i = j
    <3>1. todo'[i] = list /\ where'[i] = next
      BY <1>2, <2>1
    <3>2. Duly(i, next, list)
      BY <2>1
    <3> QED BY <3>1, <3>2 DEF Duly
  <2>2. CASE i # j
    BY <1>2, <2>2 DEF Lists
  <2> QED BY <2>1, <2>2
<1>8. FilesFit'
  <2> SUFFICES ASSUME NEW CONSTANT f \in File, f \notin stale, Readable(f)
               PROVE  Fits(f, tree[f])'
    BY DEF FilesFit, Readable
  <2> QED BY DEF FilesFit, Fits, Batches, Readable, load_calibration_temperature
<1>9. ListsFit'
  <2> SUFFICES ASSUME NEW CONSTANT i \in Job, NEW CONSTANT k \in DOMAIN todo'[i],
                      MadeFrom[todo'[i][k].file] \intersect touched[i] = {}
               PROVE  Fits(todo[i][k].file, todo[i][k].content)'
    BY DEF ListsFit
  <2>1. PICK f, c : f = todo'[i][k].file /\ c = todo'[i][k].content
    OBVIOUS
  <2>2. Fits(f, c)
    <3>1. CASE i = j
      <4>1. todo'[i] = list
        BY <1>2, <3>1
      <4>2. Duly(i, next, list)
        BY <3>1
      <4> QED BY <2>1, <4>1, <4>2 DEF Duly
    <3>2. CASE i # j
      BY <1>2, <2>1, <3>2 DEF ListsFit
    <3> QED BY <3>1, <3>2
  <2>3. Fits(f, c)'
    BY <2>2, FitsRest
  <2> QED BY <2>1, <2>3 DEF Fits
<1>11. Datasets'
  BY <1>2 DEF Datasets, Readable, Job
<1> QED BY <1>1, <1>5, <1>6, <1>7, <1>8, <1>9, <1>11

(* A job that ends has nothing to write, and no run of its own.            *)
LEMMA EndKeeps ==
  ASSUME SosInv, NEW CONSTANT j \in Job, Leave(j), UNCHANGED <<started, tree, writer, stale>>,
         touched' = [touched EXCEPT ![j] = {}]
  PROVE  SosInv'
<1> USE DEF SosInv
<1>1. SosTypeOK'
  BY EmptyList DEF SosTypeOK, Leave, Stages, Unfitted, Loaded
<1>2. /\ \A i \in Job \ {j} : /\ where'[i] = where[i] /\ todo'[i] = todo[i]
                              /\ runOf'[i] = runOf[i] /\ touched'[i] = touched[i]
      /\ where'[j] = "off" /\ todo'[j] = <<>> /\ DOMAIN <<>> = {} /\ Len(<<>>) = 0
      /\ j # "train" => fitting' = fitting
  BY DEF SosTypeOK, Leave
<1>5. Runs'
  BY <1>2 DEF Runs
<1>6. WrittenInOrder'
  BY <1>2 DEF WrittenInOrder
<1>7. Lists'
  BY <1>2 DEF Lists
<1>8. FilesFit'
  <2> SUFFICES ASSUME NEW CONSTANT f \in File, f \notin stale, Readable(f)
               PROVE  Fits(f, tree[f])'
    BY DEF FilesFit, Readable
  <2> QED BY DEF FilesFit, Fits, Batches, Readable, load_calibration_temperature
<1>9. ListsFit'
  <2> SUFFICES ASSUME NEW CONSTANT i \in Job, NEW CONSTANT k \in DOMAIN todo'[i],
                      MadeFrom[todo'[i][k].file] \intersect touched'[i] = {}
               PROVE  Fits(todo[i][k].file, todo[i][k].content)'
    BY DEF ListsFit
  <2>1. PICK f, c : f = todo'[i][k].file /\ c = todo'[i][k].content
    OBVIOUS
  <2>2. Fits(f, c)
    BY <1>2, <2>1 DEF ListsFit
  <2>3. Fits(f, c)'
    BY <2>2, FitsRest
  <2> QED BY <2>1, <2>3 DEF Fits
<1>10. FittingFits'
  BY <1>2 DEF FittingFits, Batches, Readable, Job
<1>11. Datasets'
  BY <1>2 DEF Datasets, Readable, Job
<1> QED BY <1>1, <1>5, <1>6, <1>7, <1>8, <1>9, <1>10, <1>11

(* A job writes the first file of its list, or is killed while it does.    *)
LEMMA PutKeeps ==
  ASSUME SosInv, NEW CONSTANT j \in Job, todo[j] # <<>>,
         NEW CONSTANT f, f = Head(todo[j]).file,
         NEW CONSTANT c, NEW CONSTANT over \in BOOLEAN,
         c = Head(todo[j]).content \/ (c = Cut /\ over),
         Put(j, f, c, over), UNCHANGED started,
         over => Leave(j),
         ~over => todo' = [todo EXCEPT ![j] = Tail(@)] /\ UNCHANGED <<where, runOf, fitting>>
  PROVE  SosInv'
<1> USE DEF SosInv
<1>1. where[j] # "off" /\ where[j] \in Stages
  BY DEF Runs, SosTypeOK
<1>2. /\ Len(todo[j]) \in Nat /\ Len(todo[j]) > 0 /\ DOMAIN todo[j] = 1 .. Len(todo[j])
      /\ Head(todo[j]) = todo[j][1] /\ 1 \in DOMAIN todo[j]
      /\ IsList(Tail(todo[j])) /\ Len(Tail(todo[j])) = Len(todo[j]) - 1
      /\ DOMAIN Tail(todo[j]) = 1 .. Len(todo[j]) - 1
      /\ \A k \in DOMAIN Tail(todo[j]) :
           k + 1 \in DOMAIN todo[j] /\ Tail(todo[j])[k] = todo[j][k + 1]
  <2>1. IsList(todo[j])
    BY DEF SosTypeOK
  <2> QED BY <2>1, HeadAndTail
<1>3. f \in Outputs(j, where[j]) /\ f \in Written(j, where[j]) /\ f \in File /\ f \notin MadeFrom[f]
  BY <1>1, <1>2, OutputsWritten, SourcesFirst, NotMadeFromItself DEF Lists
<1>4. /\ \A i \in Job \ {j} : where'[i] = where[i] /\ todo'[i] = todo[i] /\ runOf'[i] = runOf[i]
      /\ over => where'[j] = "off" /\ todo'[j] = <<>>
      /\ ~over => where'[j] = where[j] /\ todo'[j] = Tail(todo[j]) /\ runOf'[j] = runOf[j]
      /\ over /\ j # "train" => fitting' = fitting
      /\ ~over => fitting' = fitting
  BY DEF SosTypeOK, Leave
<1>5. /\ \A g \in File \ {f} : tree'[g] = tree[g] /\ writer'[g] = writer[g]
      /\ tree'[f] = c /\ writer'[f] = runOf[j]
      /\ \A i \in Job \ {j} : where[i] # "off" => touched'[i] = touched[i] \union {f}
      /\ ~over => touched'[j] = touched[j]
  BY <1>3 DEF SosTypeOK, Put
<1>6. /\ \A g \in File : g \notin stale' => g = f \/ g \notin stale
      /\ \A g \in File : g \notin stale' /\ f \in MadeFrom[g] => writer[g] = runOf[j]
      /\ f \notin stale' => MadeFrom[f] \intersect touched[j] = {}
  BY DEF Put
<1>7. DOMAIN <<>> = {} /\ Len(<<>>) = 0
  OBVIOUS
<1>8. SosTypeOK'
  <2>1. \A i \in Job : IsList(todo'[i])
    BY <1>2, <1>4, EmptyList DEF SosTypeOK
  <2>2. where' \in [Job -> Stages] /\ runOf' \in [Job -> Nat] /\ DOMAIN todo' = Job
    <3>1. CASE over
      BY <3>1 DEF SosTypeOK, Leave, Stages
    <3>2. CASE ~over
      BY <3>2 DEF SosTypeOK
    <3> QED BY <3>1, <3>2
  <2>3. writer' \in [File -> Nat] /\ DOMAIN tree' = File /\ DOMAIN touched' = Job
    BY <1>3 DEF SosTypeOK, Put
  <2>4. DOMAIN fitting' = {"fitted", "weighed", "chosen", "epoch"}
    BY DEF SosTypeOK, Leave, Unfitted, Loaded
  <2>5. started' \in Nat
    BY DEF SosTypeOK
  <2>6. (\A i \in Job : IsList(todo[i]))'
    BY <2>1 DEF IsList
  <2> QED BY <2>2, <2>3, <2>4, <2>5, <2>6 DEF SosTypeOK
<1>9. Runs'
  <2>1. \A g \in File : writer'[g] <= started
    BY <1>1, <1>5 DEF Runs
  <2>2. \A i \in Job : where'[i] # "off" => where[i] # "off" /\ runOf'[i] = runOf[i]
    BY <1>1, <1>4
  <2>3. \A i \in Job : where'[i] = "off" => todo'[i] = <<>>
    BY <1>1, <1>4 DEF Runs
  <2> QED BY <2>1, <2>2, <2>3 DEF Runs
<1>10. WrittenInOrder'
  <2> SUFFICES ASSUME NEW CONSTANT i \in Job, NEW CONSTANT g \in File,
                      where'[i] # "off", writer'[g] = runOf'[i]
               PROVE  g \in Written(i, where'[i])
    BY DEF WrittenInOrder, Written, Outputs
  <2>1. where[i] # "off" /\ runOf'[i] = runOf[i] /\ where'[i] = where[i]
    BY <1>1, <1>4
  <2>2. CASE g = f
    <3>1. i = j
      BY <1>1, <1>5, <2>1, <2>2 DEF Runs
    <3> QED BY <1>3, <2>1, <2>2, <3>1
  <2>3. CASE g # f
    BY <1>5, <2>1, <2>3 DEF WrittenInOrder
  <2> QED BY <2>2, <2>3
<1>11. Lists'
  <2> SUFFICES ASSUME NEW CONSTANT i \in Job
               PROVE  /\ \A k \in DOMAIN todo'[i] : todo'[i][k].file \in Outputs(i, where'[i])
                      /\ Len(todo'[i]) > 1 => i = "build"
                      /\ i = "build" => \A k, l \in DOMAIN todo'[i] :
                                           todo'[i][k].content = todo'[i][l].content
    BY DEF Lists, Outputs
  <2>1. CASE i # j
    BY <1>4, <2>1 DEF Lists
  <2>2. CASE i = j /\ over
    BY <1>4, <1>7, <2>2
  <2>3. CASE i = j /\ ~over
    <3>1. where'[i] = where[i] /\ Len(todo'[i]) = Len(todo[i]) - 1
      BY <1>2, <1>4, <2>3
    <3>2. \A k \in DOMAIN todo'[i] : k + 1 \in DOMAIN todo[i] /\ todo'[i][k] = todo[i][k + 1]
      BY <1>2, <1>4, <2>3
    <3>3. Len(todo'[i]) > 1 => Len(todo[i]) > 1
      BY <1>2, <3>1, <2>3
    <3> QED BY <3>1, <3>2, <3>3 DEF Lists
  <2> QED BY <2>1, <2>2, <2>3
<1>12. FilesFit'
  <2> SUFFICES ASSUME NEW CONSTANT g \in File, g \notin stale', Readable(g)'
               PROVE  Fits(g, tree[g])'
    BY DEF FilesFit
  <2>1. PICK d : d = tree'[g]
    OBVIOUS
  <2>2. Fits(g, d) /\ f \notin MadeFrom[g]
    <3>1. CASE g = f
      <4>1. c = Head(todo[j]).content
        BY <1>5, <3>1 DEF Readable
      <4> QED BY <1>2, <1>3, <1>5, <1>6, <2>1, <3>1, <4>1 DEF ListsFit
    <3>2. CASE g # f
      <4>1. Fits(g, tree[g])
        BY <1>5, <1>6, <3>2 DEF FilesFit, Readable
      <4>2. f \notin MadeFrom[g]
        BY <1>1, <1>3, <1>6, SourcesFirst DEF WrittenInOrder
      <4> QED BY <1>5, <2>1, <3>2, <4>1, <4>2
    <3> QED BY <3>1, <3>2
  <2>3. \A h \in MadeFrom[g] : h \in File
    BY DEF MadeFrom, File, Corpora, Split
  <2>4. Fits(g, d)'
    BY <1>5, <2>2, <2>3, FitsFrame
  <2> QED BY <2>1, <2>4 DEF Fits
<1>13. ListsFit'
  <2> SUFFICES ASSUME NEW CONSTANT i \in Job, NEW CONSTANT k \in DOMAIN todo'[i],
                      MadeFrom[todo'[i][k].file] \intersect touched'[i] = {}
               PROVE  Fits(todo[i][k].file, todo[i][k].content)'
    BY DEF ListsFit
  <2>1. PICK g, d : g = todo'[i][k].file /\ d = todo'[i][k].content
    OBVIOUS
  <2>2. CASE i # j
    <3>1. todo'[i] = todo[i] /\ where[i] # "off" /\ where[i] \in Stages
      BY <1>4, <1>7, <2>2 DEF Runs, SosTypeOK
    <3>2. g \in File
      BY <2>1, <3>1, OutputsWritten, SourcesFirst DEF Lists
    <3>3. f \notin MadeFrom[g] /\ Fits(g, d)
      BY <1>5, <2>1, <2>2, <3>1 DEF ListsFit
    <3>4. \A h \in MadeFrom[g] : h \in File
      BY <3>2 DEF MadeFrom, File, Corpora, Split
    <3>5. Fits(g, d)'
      BY <1>5, <3>2, <3>3, <3>4, FitsFrame
    <3> QED BY <2>1, <3>5 DEF Fits
  <2>3. CASE i = j
    <3>0. ~over
      BY <1>4, <1>7, <2>3
    <3>1. k \in 1 .. Len(todo[j]) - 1 /\ k + 1 \in DOMAIN todo[j] /\ todo'[i][k] = todo[j][k + 1]
      BY <1>2, <1>4, <2>3, <3>0
    <3>2. g \in Split
      <4>1. g \in Outputs(j, where[j])
        BY <2>1, <3>1 DEF Lists
      <4>2. j = "build"
        BY <1>2, <3>1 DEF Lists
      <4> QED BY <1>1, <4>1, <4>2, OnlyTheBuilder
    <3>3. Fits(g, d)'
      BY <3>2 DEF Fits, Split
    <3> QED BY <2>1, <3>3 DEF Fits
  <2> QED BY <2>2, <2>3
<1>14. FittingFits'
  <2> SUFFICES ASSUME where'["train"] = "epochs",
                      MadeFrom["student"] \intersect touched'["train"] = {}
               PROVE  /\ fitting'.fitted = Batches("train_soft")'
                      /\ fitting'.weighed = Batches("class_weights")'
                      /\ fitting'.chosen = Batches("val")'
    BY DEF FittingFits
  <2>1. "train" \in Job /\ MadeFrom["student"] = {"train_soft", "val", "class_weights"}
        /\ MadeFrom["student"] \subseteq File
    BY DEF Job, MadeFrom, File, Split, Corpora
  <2>2. where["train"] = "epochs" /\ fitting' = fitting
    BY <1>4, <2>1
  <2>3. f \notin MadeFrom["student"] /\ MadeFrom["student"] \intersect touched["train"] = {}
    <3>1. CASE j = "train"
      <4>1. ~over
        BY <1>4, <3>1
      <4>2. f = "student"
        BY <1>3, <2>2, <3>1 DEF Outputs
      <4> QED BY <1>5, <2>1, <3>1, <4>1, <4>2
    <3>2. CASE j # "train"
      BY <1>5, <2>1, <2>2, <3>2
    <3> QED BY <3>1, <3>2
  <2>4. \A g \in MadeFrom["student"] : tree'[g] = tree[g]
    BY <1>5, <2>1, <2>3
  <2> QED BY <2>1, <2>2, <2>3, <2>4 DEF FittingFits, Batches, Readable
<1>15. Datasets'
  <2>1. "build" \in Job /\ Split \subseteq File
    BY DEF Job, File
  <2>2. CASE j # "build"
    <3>1. f \notin Split
      BY <1>1, <1>3, <2>2, OnlyTheBuilder
    <3>2. \A g \in Split : tree'[g] = tree[g] /\ writer'[g] = writer[g]
      BY <1>5, <2>1, <3>1
    <3> QED BY <1>4, <2>1, <2>2, <3>2 DEF Datasets, Readable
  <2>3. CASE j = "build"
    <3>1. \A k \in DOMAIN todo[j] : todo[j][k].content = Head(todo[j]).content
      BY <1>2, <2>3 DEF Lists
    <3>2. Readable(f)' => \A k \in DOMAIN todo[j] : todo[j][k].content = tree'[f]
      BY <1>5, <3>1 DEF Readable
    <3>3. \A g \in Split \ {f} : writer'[g] = runOf[j] /\ Readable(g)' =>
            \A k \in DOMAIN todo[j] : todo[j][k].content = tree'[g]
      BY <1>1, <1>5, <2>1, <2>3 DEF Datasets, Readable
    <3>4. \A g \in Split : writer'[g] = runOf[j] /\ Readable(g)' =>
            \A k \in DOMAIN todo[j] : todo[j][k].content = tree'[g]
      BY <3>2, <3>3
    <3>5. \A g, h \in Split : writer'[g] = writer'[h] /\ Readable(g)' /\ Readable(h)' =>
            tree'[g] = tree'[h]
      <4> SUFFICES ASSUME NEW CONSTANT g \in Split, NEW CONSTANT h \in Split,
                          writer'[g] = writer'[h], Readable(g)', Readable(h)'
                   PROVE  tree'[g] = tree'[h]
        OBVIOUS
      <4>1. CASE writer'[g] = runOf[j]
        BY <1>2, <3>4, <4>1
      <4>2. CASE writer'[g] # runOf[j]
        BY <1>5, <2>1, <4>2 DEF Datasets, Readable
      <4> QED BY <4>1, <4>2
    <3>6. where'["build"] # "off" => \A k \in DOMAIN todo'["build"] :
            k + 1 \in DOMAIN todo[j] /\ todo'["build"][k] = todo[j][k + 1]
      BY <1>2, <1>4, <2>3
    <3>7. where'["build"] # "off" => runOf'["build"] = runOf[j]
      BY <1>4, <2>3
    <3> QED BY <3>4, <3>5, <3>6, <3>7 DEF Datasets
  <2> QED BY <2>2, <2>3
<1> QED BY <1>8, <1>9, <1>10, <1>11, <1>12, <1>13, <1>14, <1>15

-----------------------------------------------------------------------------
(* The actions.                                                            *)
Begins(j, next, list) ==
  /\ where[j] = "off" /\ started' = started + 1
  /\ runOf' = [runOf EXCEPT ![j] = started']
  /\ todo' = [todo EXCEPT ![j] = list]
  /\ where' = [where EXCEPT ![j] = next]
  /\ FilesRest /\ UNCHANGED fitting

(* One file, made of the files as they are.                                *)
LEMMA BeginsOne ==
  ASSUME SosInv, NEW CONSTANT j \in Job, NEW CONSTANT next \in Stages \ {"off", "epochs"},
         NEW CONSTANT f \in Outputs(j, next), NEW CONSTANT c, Fits(f, c),
         Begins(j, next, To(f, c))
  PROVE  SosInv'
<1>1. PICK list : list = To(f, c)
  OBVIOUS
<1>2. Duly(j, next, list)
  BY <1>1, DulyOne
<1> QED BY <1>1, <1>2, BeginKeeps DEF Begins

LEMMA CorporaKeep ==
  SosInv /\ (normalize_all_datasets \/ generate_full_grid \/ auto_label_corpus) => SosInv'
<1> SUFFICES ASSUME SosInv, normalize_all_datasets \/ generate_full_grid \/ auto_label_corpus
             PROVE  SosInv'
  OBVIOUS
<1>1. CASE normalize_all_datasets
  <2>1. PICK c : Begins("normalize", "write", To("public", c))
    BY <1>1 DEF normalize_all_datasets, Start, Begins, FilesRest
  <2>2. Fits("public", c) /\ "public" \in Outputs("normalize", "write")
    BY DEF Fits, Outputs
  <2> QED BY <2>1, <2>2, BeginsOne DEF Job, Stages
<1>2. CASE generate_full_grid
  <2>1. PICK c : Begins("generate", "write", To("synth", c))
    BY <1>2 DEF generate_full_grid, Start, Begins, FilesRest
  <2>2. Fits("synth", c) /\ "synth" \in Outputs("generate", "write")
    BY DEF Fits, Outputs
  <2> QED BY <2>1, <2>2, BeginsOne DEF Job, Stages
<1>3. CASE auto_label_corpus
  <2>1. PICK c : Begins("autolabel", "write", To("autolabeled", c))
    BY <1>3 DEF auto_label_corpus, Start, Begins, FilesRest
  <2>2. Fits("autolabeled", c) /\ "autolabeled" \in Outputs("autolabel", "write")
    BY DEF Fits, Outputs
  <2> QED BY <2>1, <2>2, BeginsOne DEF Job, Stages
<1> QED BY <1>1, <1>2, <1>3

LEMMA FourToWrite ==
  ASSUME NEW c
  PROVE  LET list == compute_and_save_class_weights(c) \o To("train", Texts(c))
                     \o To("val", Texts(c)) \o To("test", Texts(c))
         IN /\ IsList(list)
            /\ \A k \in DOMAIN list : list[k].file \in Split /\ list[k].content = Texts(c)
<1> DEFINE W == {[file |-> f, content |-> Texts(c)] : f \in Split}
           one(f) == To(f, Texts(c))
<1>1. \A f \in Split : one(f) \in Seq(W)
  BY DEF To
<1>2. \A s, t \in Seq(W) : s \o t \in Seq(W)
  OBVIOUS
<1>3. {"class_weights", "train", "val", "test"} = Split
  BY DEF Split
<1> HIDE DEF one
<1>4. one("class_weights") \o one("train") \in Seq(W)
  BY <1>1, <1>2, <1>3
<1>5. one("class_weights") \o one("train") \o one("val") \in Seq(W)
  BY <1>1, <1>2, <1>3, <1>4
<1>6. PICK list \in Seq(W) :
        list = one("class_weights") \o one("train") \o one("val") \o one("test")
  BY <1>1, <1>2, <1>3, <1>5
<1>7. \A k \in DOMAIN list : list[k] \in W
  BY <1>6
<1>8. \A w \in W : w.file \in Split /\ w.content = Texts(c)
  OBVIOUS
<1>9. IsList(list) /\ \A k \in DOMAIN list : list[k].file \in Split /\ list[k].content = Texts(c)
  BY <1>7, <1>8, ListOf
<1> QED BY <1>6, <1>9 DEF one, compute_and_save_class_weights

LEMMA BuildKeeps == SosInv /\ build_final_dataset => SosInv'
<1> SUFFICES ASSUME SosInv, build_final_dataset PROVE SosInv'
  OBVIOUS
<1>1. PICK c : c = UNION {Batches(f) : f \in Corpora}
  OBVIOUS
<1>2. PICK list : list = compute_and_save_class_weights(c) \o To("train", Texts(c))
                         \o To("val", Texts(c)) \o To("test", Texts(c))
  OBVIOUS
<1>3. Begins("build", "write", list)
  BY <1>1, <1>2 DEF build_final_dataset, Start, Begins, FilesRest
<1>4. IsList(list) /\ \A k \in DOMAIN list : list[k].file \in Split /\ list[k].content = Texts(c)
  BY <1>2, FourToWrite
<1>5. Duly("build", "write", list)
  BY <1>4, SplitsAlwaysFit DEF Duly, Outputs
<1> QED BY <1>3, <1>5, BeginKeeps DEF Begins, Job, Stages

LEMMA ReadersKeep ==
  SosInv /\ (Teach \/ fit_temperature_calibration \/ run_evaluation \/ Export) => SosInv'
<1> SUFFICES ASSUME SosInv, Teach \/ fit_temperature_calibration \/ run_evaluation \/ Export
             PROVE  SosInv'
  OBVIOUS
<1>1. CASE Teach
  <2>1. PICK c : c = SoftLabels(Batches("train")) /\ Begins("teacher", "write", To("train_soft", c))
    BY <1>1 DEF Teach, generate_soft_labels, Start, Begins, FilesRest
  <2>2. Fits("train_soft", c) /\ "train_soft" \in Outputs("teacher", "write")
    BY <2>1 DEF Fits, Outputs
  <2> QED BY <2>1, <2>2, BeginsOne DEF Job, Stages
<1>2. CASE fit_temperature_calibration
  <2>1. PICK c : /\ c = Temperature(tree["student"], Batches("val"))
                 /\ Begins("calibrate", "write", To("calibration", c))
    BY <1>2 DEF fit_temperature_calibration, Start, Begins, FilesRest
  <2>2. Fits("calibration", c) /\ "calibration" \in Outputs("calibrate", "write")
    BY <2>1 DEF Fits, Outputs
  <2> QED BY <2>1, <2>2, BeginsOne DEF Job, Stages
<1>3. CASE run_evaluation
  <2>1. PICK c : /\ c = Report(tree["student"], load_calibration_temperature, Batches("test"))
                 /\ Begins("evaluate", "write", To("report", c))
    BY <1>3 DEF run_evaluation, Start, Begins, FilesRest
  <2>2. Fits("report", c) /\ "report" \in Outputs("evaluate", "write")
    BY <2>1 DEF Fits, Outputs
  <2> QED BY <2>1, <2>2, BeginsOne DEF Job, Stages
<1>4. CASE Export
  <2>1. PICK c : /\ c = TFLite(tree["student"], load_calibration_temperature)
                 /\ Begins("export", "write", To("int8", c))
    BY <1>4 DEF Export, export_calibrated_int8_tflite, Start, Begins, FilesRest
  <2>2. Fits("int8", c) /\ "int8" \in Outputs("export", "write")
    BY <2>1 DEF Fits, Outputs
  <2> QED BY <2>1, <2>2, BeginsOne DEF Job, Stages
<1> QED BY <1>1, <1>2, <1>3, <1>4

(* The training and the bundle make what is missing first.                 *)
LEMMA EnsureKeeps == SosInv /\ (EnsureSoftLabels \/ EnsureExported) => SosInv'
<1> SUFFICES ASSUME SosInv, EnsureSoftLabels \/ EnsureExported PROVE SosInv'
  OBVIOUS
<1>1. CASE EnsureSoftLabels
  <2>1. CASE tree["train_soft"] = Gone
    <3>1. PICK c : c = SoftLabels(Batches("train")) /\ Begins("train", "load", To("train_soft", c))
      BY <1>1, <2>1 DEF EnsureSoftLabels, generate_soft_labels, Start, Begins, FilesRest
    <3>2. Fits("train_soft", c) /\ "train_soft" \in Outputs("train", "load")
      BY <3>1 DEF Fits, Outputs
    <3> QED BY <3>1, <3>2, BeginsOne DEF Job, Stages
  <2>2. CASE tree["train_soft"] # Gone
    <3>1. Begins("train", "load", <<>>)
      BY <1>1, <2>2 DEF EnsureSoftLabels, Start, Begins, FilesRest
    <3> QED BY <3>1, DulyNothing, BeginKeeps DEF Begins, Job, Stages
  <2> QED BY <2>1, <2>2
<1>2. CASE EnsureExported
  <2>1. CASE tree["int8"] = Gone
    <3>1. PICK c : /\ c = TFLite(tree["student"], load_calibration_temperature)
                   /\ Begins("bundle", "copy", To("int8", c))
      BY <1>2, <2>1 DEF EnsureExported, export_calibrated_int8_tflite, Start, Begins, FilesRest
    <3>2. Fits("int8", c) /\ "int8" \in Outputs("bundle", "copy")
      BY <3>1 DEF Fits, Outputs
    <3> QED BY <3>1, <3>2, BeginsOne DEF Job, Stages
  <2>2. CASE tree["int8"] # Gone
    <3>1. Begins("bundle", "copy", <<>>)
      BY <1>2, <2>2 DEF EnsureExported, Start, Begins, FilesRest
    <3> QED BY <3>1, DulyNothing, BeginKeeps DEF Begins, Job, Stages
  <2> QED BY <2>1, <2>2
<1> QED BY <1>1, <1>2

LEMMA StudentsFiles ==
  MadeFrom["student"] = {"train_soft", "val", "class_weights"} /\ "train" \in Job
BY DEF MadeFrom, File, Split, Corpora, Job

LEMMA LoadTrainingDataKeeps == SosInv /\ LoadTrainingData => SosInv'
<1> SUFFICES ASSUME SosInv, LoadTrainingData PROVE SosInv'
  OBVIOUS
<1>1. CASE Raises("train")
  BY <1>1, EndKeeps DEF Raises, Job
<1>2. CASE /\ Plan("train", "epochs", <<>>)
           /\ fitting' = Loaded(Batches("train_soft"), Batches("class_weights"), Batches("val"))
  <2>1. DOMAIN fitting' = {"fitted", "weighed", "chosen", "epoch"}
    BY <1>2 DEF Loaded
  <2>2. FittingFits'
    BY <1>2 DEF FittingFits, Loaded, Plan, Batches, Readable
  <2>3. where["train"] = "load" /\ todo["train"] = <<>>
    BY DEF LoadTrainingData, Ready
  <2>4. Written("train", "load") \subseteq Written("train", "epochs")
    BY DEF Written
  <2> QED BY <1>2, <2>1, <2>2, <2>3, <2>4, DulyNothing, GoOnKeeps
          DEF Plan, FilesRest, Job, Stages
<1> QED BY <1>1, <1>2 DEF LoadTrainingData

LEMMA SaveBestKeeps == SosInv /\ SaveBest => SosInv'
<1> SUFFICES ASSUME SosInv, SaveBest PROVE SosInv'
  OBVIOUS
<1>1. PICK c : /\ c = Student(runOf["train"], fitting.epoch + 1, fitting)
               /\ Plan("train", "epochs", To("student", c))
  BY DEF SaveBest
<1>2. where["train"] = "epochs" /\ todo["train"] = <<>>
  BY DEF SaveBest, Ready
<1>3. c.fitted = fitting.fitted /\ c.weighed = fitting.weighed /\ c.chosen = fitting.chosen
  BY <1>1 DEF Student
<1>4. MadeFrom["student"] \intersect touched["train"] = {} => Fits("student", c)
  BY <1>2, <1>3 DEF SosInv, FittingFits, Fits
<1>5. PICK list : list = To("student", c)
  OBVIOUS
<1>6. Duly("train", "epochs", list)
  <2>1. "student" \in Outputs("train", "epochs")
    BY DEF Outputs
  <2> QED BY <1>4, <1>5, <2>1, DulyOne
<1>7. /\ DOMAIN fitting' = {"fitted", "weighed", "chosen", "epoch"}
      /\ fitting'.fitted = fitting.fitted /\ fitting'.weighed = fitting.weighed
      /\ fitting'.chosen = fitting.chosen
  BY DEF SosInv, SosTypeOK, SaveBest
<1>8. FittingFits'
  BY <1>1, <1>2, <1>7 DEF SosInv, FittingFits, Plan, Batches, Readable
<1> QED BY <1>1, <1>2, <1>5, <1>6, <1>7, <1>8, GoOnKeeps DEF Plan, FilesRest, Job, Stages

LEMMA EndTrainingKeeps == SosInv /\ EndTraining => SosInv'
BY EndKeeps DEF EndTraining, Raises, Job

LEMMA BundleKeeps ==
  SosInv /\ (CopyModel \/ generate_inference_test_vectors \/ emit_model_card) => SosInv'
<1> SUFFICES ASSUME SosInv, CopyModel \/ generate_inference_test_vectors \/ emit_model_card
             PROVE  SosInv'
  OBVIOUS
<1>1. ASSUME NEW CONSTANT next \in Stages \ {"off"}, NEW CONSTANT f \in Outputs("bundle", next),
             NEW CONSTANT c, Fits(f, c), Plan("bundle", next, To(f, c)), UNCHANGED fitting,
             where["bundle"] # "off", todo["bundle"] = <<>>,
             Written("bundle", where["bundle"]) \subseteq Written("bundle", next)
      PROVE  SosInv'
  <2>1. PICK list : list = To(f, c)
    OBVIOUS
  <2>2. Duly("bundle", next, list)
    BY <1>1, <2>1, DulyOne
  <2>3. DOMAIN fitting' = {"fitted", "weighed", "chosen", "epoch"}
    BY <1>1 DEF SosInv, SosTypeOK
  <2>4. where'["train"] = where["train"] /\ UNCHANGED <<tree, touched>>
    BY <1>1 DEF SosInv, SosTypeOK, Plan, Job
  <2>5. FittingFits'
    BY <1>1, <2>4 DEF SosInv, FittingFits, Batches, Readable
  <2>6. "bundle" \in Job \ {"build"}
    BY DEF Job
  <2> QED BY <1>1, <2>1, <2>2, <2>3, <2>5, <2>6, GoOnKeeps DEF Plan, FilesRest
<1>2. CASE CopyModel
  <2>1. PICK c : c = tree["int8"] /\ Plan("bundle", "vectors", To("handoff", c))
    BY <1>2 DEF CopyModel
  <2>2. Fits("handoff", c) /\ "handoff" \in Outputs("bundle", "vectors")
    BY <2>1 DEF Fits, Outputs
  <2>3. where["bundle"] = "copy" /\ todo["bundle"] = <<>> /\ UNCHANGED fitting
    BY <1>2 DEF CopyModel, Ready
  <2> QED BY <1>1, <2>1, <2>2, <2>3 DEF Written, Stages
<1>3. CASE generate_inference_test_vectors
  <2>1. CASE Readable("handoff")
    <3>1. PICK c : c = Copied(tree["handoff"], "vectors") /\ Plan("bundle", "card", To("vectors", c))
      BY <1>3, <2>1 DEF generate_inference_test_vectors
    <3>2. Fits("vectors", c) /\ "vectors" \in Outputs("bundle", "card")
      BY <3>1 DEF Fits, Outputs
    <3>3. where["bundle"] = "vectors" /\ todo["bundle"] = <<>> /\ UNCHANGED fitting
      BY <1>3, <2>1 DEF generate_inference_test_vectors, Ready
    <3> QED BY <1>1, <3>1, <3>2, <3>3 DEF Written, Stages
  <2>2. CASE ~Readable("handoff")
    BY <1>3, <2>2, EndKeeps DEF generate_inference_test_vectors, Raises, Job
  <2> QED BY <2>1, <2>2
<1>4. CASE emit_model_card
  <2>1. PICK c : /\ c = Copied(load_calibration_temperature, "card")
                 /\ Plan("bundle", "write", To("card", c))
    BY <1>4 DEF emit_model_card
  <2>2. Fits("card", c) /\ "card" \in Outputs("bundle", "write")
    BY <2>1 DEF Fits, Outputs
  <2>3. where["bundle"] = "card" /\ todo["bundle"] = <<>> /\ UNCHANGED fitting
    BY <1>4 DEF emit_model_card, Ready
  <2> QED BY <1>1, <2>1, <2>2, <2>3 DEF Written, Stages
<1> QED BY <1>2, <1>3, <1>4

LEMMA WriteKeeps ==
  ASSUME SosInv, NEW CONSTANT j \in Job, Write(j)
  PROVE  SosInv'
<1>1. PICK f, c, over :
        /\ f = Head(todo[j]).file /\ c = Head(todo[j]).content
        /\ over = (where[j] = "write" /\ Len(todo[j]) = 1)
  OBVIOUS
<1>3. over \in BOOLEAN
  BY <1>1
<1>2. /\ todo[j] # <<>> /\ Put(j, f, c, over) /\ UNCHANGED started
      /\ over => Leave(j)
      /\ ~over => todo' = [todo EXCEPT ![j] = Tail(@)] /\ UNCHANGED <<where, runOf, fitting>>
  <2>1. over = (where[j] = "write" /\ Len(todo[j]) = 1)
    BY <1>1
  <2>2. CASE over
    BY <1>1, <2>1, <2>2 DEF Write
  <2>3. CASE ~over
    BY <1>1, <2>1, <2>3 DEF Write
  <2> QED BY <2>2, <2>3
<1> QED BY <1>1, <1>2, <1>3, PutKeeps

LEMMA KillKeeps ==
  ASSUME SosInv, NEW CONSTANT j \in Job, Kill(j)
  PROVE  SosInv'
<1>1. CASE todo[j] # <<>> /\ Put(j, Head(todo[j]).file, Cut, TRUE)
  <2>1. PICK f, c : f = Head(todo[j]).file /\ c = Cut
    OBVIOUS
  <2> QED BY <1>1, <2>1, PutKeeps DEF Kill
<1>2. CASE touched' = [touched EXCEPT ![j] = {}] /\ UNCHANGED <<tree, writer, stale>>
  BY <1>2, EndKeeps DEF Kill
<1> QED BY <1>1, <1>2 DEF Kill

LEMMA SosRests == SosInv /\ UNCHANGED sosVars => SosInv'
<1> SUFFICES ASSUME SosInv, UNCHANGED sosVars PROVE SosInv'
  OBVIOUS
<1> USE DEF SosInv, sosVars
<1>1. SosTypeOK' /\ Runs' /\ WrittenInOrder' /\ Lists'
  BY DEF SosTypeOK, Runs, WrittenInOrder, Lists, IsList
<1>2. FilesFit' /\ ListsFit' /\ FittingFits' /\ Datasets'
  BY DEF FilesFit, ListsFit, FittingFits, Datasets, Fits, Batches, Readable,
         load_calibration_temperature
<1> QED BY <1>1, <1>2

-----------------------------------------------------------------------------
(* The trees a behaviour starts from.                                      *)
LEMMA StartsFrom ==
  ASSUME NEW files, NEW behind, SosStart(files, behind), DOMAIN files = File,
         \A f \in File : f \notin behind /\ Readable(f) => Fits(f, tree[f]),
         \A f, g \in Split : files[f] = files[g]
  PROVE  SosInv
<1>1. DOMAIN <<>> = {} /\ Len(<<>>) = 0
  OBVIOUS
<1>2. \A j \in Job : where[j] = "off" /\ todo[j] = <<>>
  BY DEF SosStart
<1>3. SosTypeOK
  BY EmptyList DEF SosStart, SosTypeOK, Stages, Unfitted, Loaded
<1>4. "build" \in Job /\ "train" \in Job
  BY DEF Job
<1>5. Runs /\ WrittenInOrder /\ Lists
  BY <1>1, <1>2 DEF SosStart, Runs, WrittenInOrder, Lists
<1>6. FilesFit /\ ListsFit /\ FittingFits /\ Datasets
  BY <1>1, <1>2, <1>4 DEF SosStart, FilesFit, ListsFit, FittingFits, Datasets
<1> QED BY <1>3, <1>5, <1>6 DEF SosInv

LEMMA SosStarts == SosInit => SosInv
<1> SUFFICES ASSUME SosInit PROVE SosInv
  OBVIOUS
<1> DEFINE rows == {SeedBatch, CellBatch}
           s == Student(0, 1, Loaded(rows, rows, rows))
           t == Temperature(s, rows)
           network == TFLite(s, t)
<1>1. /\ s.fitted = rows /\ s.weighed = rows /\ s.chosen = rows
      /\ t \notin {Gone, Cut} /\ Texts(rows).batches = rows
  <2>1. t.is = "T" /\ Gone.is = "gone" /\ Cut.is = "cut"
    BY DEF Temperature, Gone, Cut
  <2> QED BY <2>1 DEF Student, Loaded, Texts
<1>2. CASE SosStart(Committed, {})
  <2>1. tree = Committed /\ DOMAIN Committed = File
    BY <1>2 DEF SosStart, Committed
  <2>2. /\ \A f \in Split : tree[f] = Texts(rows)
        /\ tree["train_soft"] = SoftLabels(rows) /\ tree["student"] = s
        /\ tree["calibration"] = t /\ tree["report"] = Report(s, t, rows)
        /\ tree["int8"] = Gone /\ tree["handoff"] = network
        /\ tree["vectors"] = Copied(network, "vectors") /\ tree["card"] = Copied(t, "card")
    BY <2>1 DEF Committed, File, Split, Corpora
  <2> HIDE DEF rows, s, t, network
  <2>3. \A f \in Split : Batches(f) = rows
    BY <1>1, <2>2, Kinds DEF Batches, Readable
  <2>4. load_calibration_temperature = t
    BY <1>1, <2>2 DEF load_calibration_temperature, Readable
  <2>5. \A f \in File : Readable(f) => Fits(f, tree[f])
    <3>1. "train" \in Split /\ "val" \in Split /\ "test" \in Split /\ "class_weights" \in Split
      BY DEF Split
    <3>2. Batches("train_soft") = rows
      <4>1. SoftLabels(rows).batches = rows
        BY DEF SoftLabels
      <4> QED BY <2>2, <4>1, Kinds DEF Batches, Readable
    <3>3. Temperature(s, rows) = t
      BY DEF t
    <3>4. /\ Batches("train") = rows /\ Batches("val") = rows /\ Batches("test") = rows
          /\ Batches("class_weights") = rows
      BY <2>3, <3>1
    <3>5. Fits("train_soft", tree["train_soft"]) /\ Fits("student", tree["student"])
      BY <1>1, <2>2, <3>2, <3>4 DEF Fits
    <3>6. Fits("calibration", tree["calibration"]) /\ Fits("report", tree["report"])
      BY <2>2, <2>4, <3>3, <3>4 DEF Fits
    <3>7. ~Readable("int8") /\ Fits("handoff", tree["handoff"])
      BY <2>2 DEF Fits, Readable
    <3>8. Fits("vectors", tree["vectors"]) /\ Fits("card", tree["card"])
      BY <2>2, <2>4 DEF Fits
    <3>9. \A f \in Split \union Corpora : Fits(f, tree[f])
      BY DEF Fits, Split, Corpora
    <3> QED BY <3>5, <3>6, <3>7, <3>8, <3>9 DEF File
  <2>6. \A f, g \in Split : Committed[f] = Committed[g]
    BY <2>1, <2>2
  <2> QED BY <1>2, <2>1, <2>5, <2>6, StartsFrom
<1>3. CASE SosStart(Rebuilt, {f \in File : MadeFrom[f] \intersect Split # {}})
  <2>1. tree = Rebuilt /\ DOMAIN Rebuilt = File
    BY <1>3 DEF SosStart, Rebuilt
  <2>2. /\ tree["calibration"] = t
        /\ tree["int8"] = Gone /\ tree["handoff"] = network
        /\ tree["vectors"] = Copied(network, "vectors") /\ tree["card"] = Copied(t, "card")
    BY <2>1 DEF Rebuilt, Committed, File, Split, Corpora
  <2>3. \A f \in File : f \notin {g \in File : MadeFrom[g] \intersect Split # {}} =>
          f \notin {"train_soft", "student", "calibration", "report", "int8"}
    BY DEF MadeFrom, File, Split, Corpora
  <2>4. \A f, g \in Split : Rebuilt[f] = Rebuilt[g]
    BY DEF Rebuilt, File, Split, Corpora
  <2> HIDE DEF rows, s, t, network
  <2>5. load_calibration_temperature = t
    BY <1>1, <2>2 DEF load_calibration_temperature, Readable
  <2>6. \A f \in File : f \notin {g \in File : MadeFrom[g] \intersect Split # {}} =>
          Fits(f, tree[f])
    BY <2>2, <2>3, <2>5 DEF Fits
  <2> QED BY <1>3, <2>1, <2>4, <2>6, StartsFrom
<1>4. CASE SosStart([f \in File |-> Gone], {})
  <2>1. tree = [f \in File |-> Gone]
    BY <1>4 DEF SosStart
  <2>2. \A f \in File : ~Readable(f)
    BY <2>1 DEF Readable
  <2>3. Split \subseteq File
    BY DEF File
  <2> QED BY <1>4, <2>2, <2>3, StartsFrom
<1> QED BY <1>2, <1>3, <1>4 DEF SosInit

LEMMA SosKeeps == SosInv /\ [SosNext]_sosVars => SosInv'
BY CorporaKeep, BuildKeeps, ReadersKeep, EnsureKeeps, LoadTrainingDataKeeps, SaveBestKeeps,
   EndTrainingKeeps, BundleKeeps, WriteKeeps, KillKeeps, SosRests DEF SosNext

(* However the programs overlap and whenever one is killed: what no other  *)
(* run has disturbed is what its program makes of the files on disk.       *)
THEOREM SosInvariant == SosSpec => []SosInv
BY SosStarts, SosKeeps, PTL DEF SosSpec

(* So artefacts that make would call up to date belong together.           *)
LEMMA OnePieceFollows == SosInv => UpToDateIsOfOnePiece
<1> SUFFICES ASSUME SosInv PROVE UpToDateIsOfOnePiece
  OBVIOUS
<1>1. \A files \in SUBSET File : UpToDate(files) => \A f \in files : Readable(f) /\ Fits(f, tree[f])
  BY DEF SosInv, FilesFit, UpToDate
<1>2. \A x, y, z : Report(x, y, z).student = x /\ Report(x, y, z).t = y /\ Report(x, y, z).tested = z
  BY DEF Report
<1>3. \A x, y : TFLite(x, y).student = x /\ TFLite(x, y).t = y /\ Temperature(x, y).student = x
  BY DEF TFLite, Temperature
<1>4. ASSUME UpToDate({"report", "student", "train_soft"} \union Split), OneDataset
      PROVE  /\ tree["report"].student = tree["student"]
             /\ \A rows \in {tree["report"].student.fitted, tree["report"].student.weighed,
                             tree["report"].student.chosen} : rows = tree["report"].tested
  <2>1. /\ \A f \in {"report", "student", "train_soft"} : Fits(f, tree[f]) /\ Readable(f)
        /\ \A f \in Split : Readable(f)
    BY <1>1, <1>4 DEF File
  <2>2. \A f, g \in Split : tree[f] = tree[g]
    BY <1>4, <2>1 DEF SosInv, Datasets, OneDataset
  <2>3. /\ Batches("class_weights") = Batches("train") /\ Batches("val") = Batches("train")
        /\ Batches("test") = Batches("train")
    BY <2>2 DEF Batches, Readable, Split
  <2>4. Batches("train_soft") = Batches("train")
    <3>1. tree["train_soft"] = SoftLabels(Batches("train"))
      BY <2>1 DEF Fits
    <3> QED BY <2>1, <3>1 DEF Batches, SoftLabels
  <2>5. /\ tree["student"].fitted = Batches("train_soft")
        /\ tree["student"].weighed = Batches("class_weights")
        /\ tree["student"].chosen = Batches("val")
    BY <2>1 DEF Fits
  <2>6. tree["report"] = Report(tree["student"], load_calibration_temperature, Batches("test"))
    BY <2>1 DEF Fits
  <2> QED BY <1>2, <2>3, <2>4, <2>5, <2>6
<1>5. ASSUME UpToDate({"report", "calibration", "student"})
      PROVE  tree["report"].t.student = tree["report"].student
  <2>1. \A f \in {"report", "calibration"} : Fits(f, tree[f]) /\ Readable(f)
    BY <1>1, <1>5 DEF File
  <2>2. tree["calibration"] = Temperature(tree["student"], Batches("val"))
    BY <2>1 DEF Fits
  <2>3. tree["report"] = Report(tree["student"], tree["calibration"], Batches("test"))
    BY <2>1 DEF Fits, load_calibration_temperature
  <2> QED BY <1>2, <1>3, <2>2, <2>3
<1>6. ASSUME UpToDate({"card", "vectors", "handoff", "int8", "calibration", "student"})
      PROVE  /\ tree["handoff"].student = tree["student"]
             /\ tree["handoff"].t.student = tree["handoff"].student
             /\ tree["card"] = Copied(tree["handoff"].t, "card")
             /\ tree["vectors"] = Copied(tree["handoff"], "vectors")
  <2>1. \A f \in {"card", "vectors", "handoff", "int8", "calibration"} : Fits(f, tree[f]) /\ Readable(f)
    BY <1>1, <1>6 DEF File
  <2>2. tree["calibration"] = Temperature(tree["student"], Batches("val"))
    BY <2>1 DEF Fits
  <2>3. tree["int8"] = TFLite(tree["student"], tree["calibration"])
    BY <2>1 DEF Fits, load_calibration_temperature
  <2>4. tree["handoff"] = tree["int8"]
    BY <2>1 DEF Fits, Readable
  <2>5. tree["card"] = Copied(tree["calibration"], "card")
    BY <2>1 DEF Fits, load_calibration_temperature
  <2>6. tree["vectors"] = Copied(tree["handoff"], "vectors")
    BY <2>1 DEF Fits
  <2> QED BY <1>3, <2>2, <2>3, <2>4, <2>5, <2>6
<1> QED BY <1>4, <1>5, <1>6 DEF UpToDateIsOfOnePiece

THEOREM OnePieceCorrect == SosSpec => []UpToDateIsOfOnePiece
BY OnePieceFollows, SosInvariant, PTL

-----------------------------------------------------------------------------
(* The six groups together: the one that runs keeps its own invariant and  *)
(* touches nothing of the others, of which those with a choice to make at  *)
(* the start stand at a fixed state instead.                               *)
LabsInv ==
  /\ TrainingInv /\ LabInv /\ FeedInv /\ PrepInv
  /\ IF group = "split" THEN SplitInv ELSE FewestSplit
  /\ IF group = "sos" THEN SosInv ELSE FewestSos

LEMMA LabsStart == Init => LabsInv
<1>1. FewestPrep => PrepInv
  BY DEF FewestPrep, PrepInv, SampleDrawsOnItsBracket
<1> QED
  BY <1>1, TrainingStarts, LabStarts, FeedStarts, PrepStarts, SplitStarts, SosStarts
     DEF Init, LabsInv

LEMMA OthersRest ==
  ASSUME LabsInv, UNCHANGED group
  PROVE  /\ UNCHANGED trainingVars => TrainingInv'
         /\ UNCHANGED labVars => LabInv'
         /\ UNCHANGED feedVars => FeedInv'
         /\ UNCHANGED prepVars => PrepInv'
         /\ UNCHANGED splitVars => IF group' = "split" THEN SplitInv' ELSE FewestSplit'
         /\ UNCHANGED sosVars => IF group' = "sos" THEN SosInv' ELSE FewestSos'
<1> USE DEF LabsInv
<1>1. UNCHANGED splitVars => IF group' = "split" THEN SplitInv' ELSE FewestSplit'
  BY SplitRests DEF FewestSplit, splitVars
<1>2. UNCHANGED sosVars => IF group' = "sos" THEN SosInv' ELSE FewestSos'
  BY SosRests DEF FewestSos, sosVars
<1> QED BY <1>1, <1>2, TrainingKeeps, LabKeeps, FeedKeeps, PrepKeeps

LEMMA LabsKeep == LabsInv /\ [Next]_labState => LabsInv'
<1> SUFFICES ASSUME LabsInv, [Next]_labState PROVE LabsInv'
  OBVIOUS
<1> USE OthersRest DEF LabsInv
<1>1. CASE /\ group = "training" /\ TrainingNext
           /\ UNCHANGED <<group, labVars, prepVars, splitVars, feedVars, sosVars>>
  BY <1>1, TrainingKeeps
<1>2. CASE /\ group = "report" /\ LabNext
           /\ UNCHANGED <<group, trainingVars, prepVars, splitVars, feedVars, sosVars>>
  BY <1>2, LabKeeps
<1>3. CASE /\ group = "prep" /\ PrepNext
           /\ UNCHANGED <<group, trainingVars, labVars, splitVars, feedVars, sosVars>>
  BY <1>3, PrepKeeps
<1>4. CASE /\ group = "split" /\ SplitNext
           /\ UNCHANGED <<group, trainingVars, labVars, prepVars, feedVars, sosVars>>
  BY <1>4, SplitKeeps
<1>5. CASE /\ group = "feed" /\ FeedNext
           /\ UNCHANGED <<group, trainingVars, labVars, prepVars, splitVars, sosVars>>
  BY <1>5, FeedKeeps
<1>6. CASE /\ group = "sos" /\ SosNext
           /\ UNCHANGED <<group, trainingVars, labVars, prepVars, splitVars, feedVars>>
  BY <1>6, SosKeeps
<1>7. CASE UNCHANGED labState
  BY <1>7 DEF labState
<1> QED BY <1>1, <1>2, <1>3, <1>4, <1>5, <1>6, <1>7 DEF Next

LEMMA AtRestHold ==
  /\ FewestSplit => HeldOutIsHeldOut
  /\ FewestSos => UpToDateIsOfOnePiece
<1>1. FewestSplit => HeldOutIsHeldOut
  <2> SUFFICES ASSUME FewestSplit PROVE HeldOutIsHeldOut
    OBVIOUS
  <2>1. Regular = {} /\ splits = NoSplit /\ evaluated = {}
    BY DEF FewestSplit, Regular
  <2>2. Cardinality(Regular) = 0
    BY <2>1, FS_EmptySet
  <2> QED BY <2>1, <2>2 DEF HeldOutIsHeldOut, NoSplit
<1>2. FewestSos => UpToDateIsOfOnePiece
  BY DEF FewestSos, UpToDateIsOfOnePiece, UpToDate, File
<1> QED BY <1>1, <1>2

(* Whichever of the groups runs, for any size of its input.                *)
THEOREM LabsCorrect ==
  Spec => [](/\ BestFileIsMinimum /\ StopsOnlyAfterPatience
             /\ OneCrashLeavesACheckpoint /\ TestedIsReported
             /\ ReportIsTrue /\ LostSectionHasACause
             /\ ShortReplayHasACause /\ PlaybackInSequence
             /\ SampleDrawsOnItsBracket
             /\ HeldOutIsHeldOut /\ UpToDateIsOfOnePiece)
<1>1. LabsInv => /\ BestFileIsMinimum /\ StopsOnlyAfterPatience
                 /\ OneCrashLeavesACheckpoint /\ TestedIsReported
                 /\ ReportIsTrue /\ LostSectionHasACause
                 /\ ShortReplayHasACause /\ PlaybackInSequence
                 /\ SampleDrawsOnItsBracket
                 /\ HeldOutIsHeldOut /\ UpToDateIsOfOnePiece
  BY AtRestHold, TrainingFollows, ReportFollows, LostSectionFollows, FeedFollows, OnePieceFollows
     DEF LabsInv, SplitInv, PrepInv
<1> QED BY <1>1, LabsStart, LabsKeep, PTL DEF Spec
==============================================================================
