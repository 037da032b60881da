----------------------------- MODULE LabReport -----------------------------
(***************************************************************************)
(* The seven programs of the cyclone laboratory that write into one        *)
(* report, models_report.md, and its mirror: five trainings, the           *)
(* hyperparameter sweep and the calibration.  Each trains on its own,      *)
(* stores its results, and then reads the whole report, replaces its own   *)
(* section in the text it read and writes the whole back, in place.        *)
(* Nothing keeps two programs apart.  What a training does epoch by epoch  *)
(* is the module Training; here it leaves a best checkpoint, or none.      *)
(***************************************************************************)
EXTENDS Integers, Sequences

CONSTANTS
  LabRuns,  (* bound: program runs                                           *)
  LabDeaths (* bound: programs that are killed                               *)

ASSUME LabAssumption == LabRuns \in Nat /\ LabDeaths \in Nat

Topic == {"detection", "intensity", "stage", "track", "fusion", "sweep", "calibration"}
NoNumber == 9
Score == {0, 1, NoNumber}

VARIABLES
  step,       (* step[t]: where the program of topic t stands                *)
  number,     (* number[t]: its run, counted over all programs               *)
  trials,     (* the composite scores of the trials of the sweep             *)
  text,       (* text[t]: the document it is about to write                  *)
  checkpoint, (* checkpoint[t]: the run that saved its best checkpoint,      *)
              (* 0 none, below 0 torn                                        *)
  results,    (* results[t]: the run in its results file                     *)
  locked,     (* the sweep and the trial in model.best.yaml                  *)
  report,     (* models_report.md: its sections, in their order              *)
  mirror,     (* eval/models_report.md                                       *)
  log,        (* history: the topics in the order they wrote the report      *)
  failed,     (* history: topics of which a run raised or was killed         *)
  killed,     (* programs killed so far                                      *)
  spoiled     (* history: a write was cut off, or two of them overlapped     *)

labVars == <<step, number, trials, text, checkpoint, results, locked, report, mirror,
             log, failed, killed, spoiled>>
reportVars == <<text, report, mirror, log, killed, spoiled>>

LabInit ==
  /\ step = [t \in Topic |-> "off"] /\ number = [t \in Topic |-> 0]
  /\ trials = <<>> /\ text = [t \in Topic |-> <<>>]
  /\ checkpoint = [t \in Topic |-> 0] /\ results = [t \in Topic |-> 0]
  /\ locked = [run |-> 0, trial |-> 0]
  /\ report = <<>> /\ mirror = <<>>
  /\ log = <<>> /\ failed = {} /\ killed = 0 /\ spoiled = FALSE

Started(n) == \E t \in Topic : number[t] >= n
Goto(t, s) == step' = [step EXCEPT ![t] = s]
Raise(t) == Goto(t, "off") /\ failed' = failed \union {t}

StartRun(t) ==
  /\ step[t] = "off"
  /\ \E n \in 1 .. LabRuns : /\ ~Started(n) /\ (n > 1 => Started(n - 1))
                             /\ number' = [number EXCEPT ![t] = n]
  /\ Goto(t, "train")
  /\ UNCHANGED <<trials, checkpoint, results, locked, failed, reportVars>>

-----------------------------------------------------------------------------
(* The programs, up to their results.  A training is tested with whatever  *)
(* best checkpoint is there: its own, an older one when no epoch improved, *)
(* a torn one, which cannot be loaded.  Without one it has no test metrics *)
(* and fails at their first use: some programs before they store their     *)
(* results, some after.                                                    *)

Trained(t, saved, stored) ==
  /\ step[t] = "train"
  /\ checkpoint' = [checkpoint EXCEPT ![t] = saved]
  /\ results' = IF stored THEN [results EXCEPT ![t] = number[t]] ELSE results
  /\ IF saved > 0 THEN Goto(t, "read") /\ UNCHANGED failed ELSE Raise(t)
  /\ UNCHANGED <<number, trials, locked, reportVars>>
Saved(t) == {number[t], checkpoint[t]}

train_detection ==
  \E saved \in Saved("detection") : Trained("detection", saved, saved >= 0)
train_intensity ==
  \E saved \in Saved("intensity") : Trained("intensity", saved, saved >= 0)
train_stage == \E saved \in Saved("stage") : Trained("stage", saved, saved > 0)
train_track == \E saved \in Saved("track") : Trained("track", saved, saved > 0)
train_fusion == \E saved \in Saved("fusion") : Trained("fusion", saved, saved >= 0)

(* One trial of three.  Its metrics are 0 where it has no checkpoint to    *)
(* test; only a torn one of an earlier sweep stops it.                     *)
RunTrial ==
  /\ step["sweep"] = "train" /\ Len(trials) < 3
  /\ LET torn == checkpoint["sweep"] = -(Len(trials) + 1)
     IN \/ /\ \E score \in Score : trials' = Append(trials, score)
           /\ checkpoint' = IF torn THEN [checkpoint EXCEPT !["sweep"] = 0] ELSE checkpoint
           /\ UNCHANGED <<step, failed>>
        \/ torn /\ Raise("sweep") /\ trials' = <<>> /\ UNCHANGED checkpoint
  /\ UNCHANGED <<number, results, locked, reportVars>>

(* Nothing is less than what is not a number, nor is that less.            *)
Less(i, j) == trials[i] # NoNumber /\ trials[j] # NoNumber /\ trials[i] < trials[j]

(* The first of the list as sorted: by insertion behind an initial run.    *)
Winner ==
  IF Less(2, 1) THEN (IF Less(3, 2) THEN 3 ELSE 2)
  ELSE IF Less(3, 2) /\ Less(3, 1) THEN 3 ELSE 1

run_hyperparameter_sweep ==
  /\ step["sweep"] = "train" /\ Len(trials) = 3
  /\ results' = [results EXCEPT !["sweep"] = number["sweep"]]
  /\ Goto("sweep", "lock")
  /\ UNCHANGED <<number, trials, checkpoint, locked, failed, reportVars>>

lock_in_best_config ==
  /\ step["sweep"] = "lock"
  /\ locked' = [run |-> number["sweep"], trial |-> Winner]
  /\ trials' = <<>>
  /\ Goto("sweep", "read")
  /\ UNCHANGED <<number, checkpoint, results, failed, reportVars>>

(* The calibration trains nothing: it fits a fresh network.                *)
run_calibration_pipeline ==
  /\ step["calibration"] = "train"
  /\ results' = [results EXCEPT !["calibration"] = number["calibration"]]
  /\ Goto("calibration", "read")
  /\ UNCHANGED <<number, trials, checkpoint, locked, failed, reportVars>>

-----------------------------------------------------------------------------
(* The report.                                                             *)

Section(t) == [topic |-> t, run |-> number[t],
               of |-> IF t = "sweep" THEN locked.trial ELSE checkpoint[t]]
Has(doc, t) == \E i \in DOMAIN doc : doc[i].topic = t
Place(doc, t) == CHOOSE i \in DOMAIN doc : /\ doc[i].topic = t
                                           /\ \A j \in 1 .. i - 1 : doc[j].topic # t
Before(doc, t) == SubSeq(doc, 1, Place(doc, t) - 1)

append_to_models_report(doc) == <<Section("detection")>>

(* Mutant: what follows the section is dropped, as the others do.          *)
DropsTheRest(doc) ==
  IF Has(doc, "intensity") THEN Append(Before(doc, "intensity"), Section("intensity"))
  ELSE Append(doc, Section("intensity"))

(* Mutant: the section is appended whether there is one or not.            *)
Appends(doc, t) == Append(doc, Section(t))

update_models_report(doc) ==
  IF Has(doc, "intensity") THEN [doc EXCEPT ![Place(doc, "intensity")] = Section("intensity")]
  ELSE Append(doc, Section("intensity"))

(* Of stage, track, fusion, sweep and calibration: the text up to their    *)
(* own section, and that section.                                          *)
update_models_report_of(doc, t) ==
  Append(IF Has(doc, t) THEN Before(doc, t) ELSE doc, Section(t))

update_models_report_stage(doc) == update_models_report_of(doc, "stage")
update_models_report_track(doc) == update_models_report_of(doc, "track")
update_models_report_fusion(doc) == update_models_report_of(doc, "fusion")
update_models_report_sweep(doc) == update_models_report_of(doc, "sweep")
update_models_report_calibration(doc) == update_models_report_of(doc, "calibration")

Document(t) ==
  CASE t = "detection" -> append_to_models_report(report)
    [] t = "intensity" -> update_models_report(report)
    [] t = "stage" -> update_models_report_stage(report)
    [] t = "track" -> update_models_report_track(report)
    [] t = "fusion" -> update_models_report_fusion(report)
    [] t = "sweep" -> update_models_report_sweep(report)
    [] t = "calibration" -> update_models_report_calibration(report)

(* Two programs overlap when one reads or writes between the other's read  *)
(* and its last write; the detection reads nothing.                        *)
AtReport(t) == step[t] \in {"open", "fill", "mirror"} /\ ~(t = "detection" /\ step[t] = "open")
Overlaps(t) == \E other \in Topic \ {t} : AtReport(other)
Halfway(t) == \E other \in Topic \ {t} : step[other] = "fill"

Read(t) ==
  /\ step[t] = "read"
  /\ text' = [text EXCEPT ![t] = Document(t)]
  /\ spoiled' = (spoiled \/ (t # "detection" /\ Halfway(t)))
  /\ Goto(t, "open")
  /\ UNCHANGED <<number, trials, checkpoint, results, locked, report, mirror, log, failed, killed>>

(* open(.., "w") empties the file.                                         *)
OpenReport(t) ==
  /\ step[t] = "open"
  /\ report' = <<>>
  /\ spoiled' = (spoiled \/ Overlaps(t))
  /\ Goto(t, "fill")
  /\ UNCHANGED <<number, trials, text, checkpoint, results, locked, mirror, log, failed, killed>>

(* Written from the start of the file: over whatever another has put there.*)
FillReport(t) ==
  /\ step[t] = "fill"
  /\ report' = text[t] \o SubSeq(report, Len(text[t]) + 1, Len(report))
  /\ log' = Append(log, t)
  /\ Goto(t, "mirror")
  /\ UNCHANGED <<number, trials, text, checkpoint, results, locked, mirror, failed, killed, spoiled>>

(* Nobody reads the mirror: it is opened and filled in one step.           *)
WriteMirror(t) ==
  /\ step[t] = "mirror"
  /\ mirror' = text[t]
  /\ text' = [text EXCEPT ![t] = <<>>]
  /\ Goto(t, "off")
  /\ UNCHANGED <<number, trials, checkpoint, results, locked, report, log, failed, killed, spoiled>>

(* A program is killed: during its training it may have saved a checkpoint *)
(* or torn one, while it stored results it may have stored them, in the    *)
(* midst of a write the file is empty.                                     *)
Killed(t) ==
  /\ step[t] # "off"
  /\ killed < LabDeaths /\ killed' = killed + 1
  /\ checkpoint' \in
       {[checkpoint EXCEPT ![t] = c] :
          c \in {checkpoint[t]} \union
                (CASE step[t] # "train" \/ t = "calibration" -> {}
                   [] t = "sweep" -> {-(Len(trials) + 1)}
                   [] OTHER -> {number[t], -1})}
  /\ mirror' \in IF step[t] = "mirror" THEN {mirror, <<>>, text[t]} ELSE {mirror}
  /\ trials' = IF t = "sweep" THEN <<>> ELSE trials
  /\ text' = [text EXCEPT ![t] = <<>>]
  /\ spoiled' = (spoiled \/ step[t] \in {"fill", "mirror"})
  /\ Raise(t)
  /\ UNCHANGED <<number, results, locked, report, log>>

LabNext ==
  \/ \E t \in Topic : StartRun(t) \/ Read(t) \/ OpenReport(t) \/ FillReport(t)
                        \/ WriteMirror(t) \/ Killed(t)
  \/ train_detection \/ train_intensity \/ train_stage \/ train_track \/ train_fusion
  \/ RunTrial \/ run_hyperparameter_sweep \/ lock_in_best_config
  \/ run_calibration_pipeline

-----------------------------------------------------------------------------
(* A section that was written and is gone, though no two programs were at  *)
(* the report at once and none was killed there, fell to a later program:  *)
(* the detection, which keeps nothing, or one other than the intensity     *)
(* whose own section stood in front of it already and that kept only what  *)
(* is before it.                                                           *)
LostSectionHasACause ==
  ~spoiled /\ (\A t \in Topic : step[t] # "fill") =>
    \A i \in DOMAIN log :
      \/ Has(report, log[i])
      \/ \E j \in i + 1 .. Len(log) :
           \/ log[j] = "detection"
           \/ log[j] # "intensity" /\ \E k \in 1 .. i - 1 : log[k] = log[j]

(* When all programs have ended, and none disturbed another, the report    *)
(* and its mirror are the same, no topic is in it twice, and each section  *)
(* tells of the results, the checkpoint and the configuration on disk,     *)
(* unless a run of its topic raised or was killed after it.                *)
ReportIsTrue ==
  ~spoiled /\ (\A t \in Topic : step[t] = "off") =>
    /\ mirror = report
    /\ \A i, j \in DOMAIN report : report[i].topic = report[j].topic => i = j
    /\ \A i \in DOMAIN report :
         LET section == report[i]
         IN section.topic \notin failed =>
              /\ section.run = results[section.topic]
              /\ section.of = IF section.topic = "sweep" THEN locked.trial
                              ELSE checkpoint[section.topic]
=============================================================================
