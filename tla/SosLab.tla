------------------------------- MODULE SosLab -------------------------------
(***************************************************************************)
(* The programs that make the SOS classifier of the phone: three write     *)
(* corpora, one builds the dataset from them, one asks the teacher for     *)
(* soft labels, one trains the student, one calibrates it, one evaluates   *)
(* it, two export it, and one assembles the bundle handed to the phone.    *)
(* Each is started by hand, reads the files it finds and overwrites its    *)
(* own in place, one after the other; nothing keeps two of them apart and  *)
(* nothing tells a file that is behind the files it was made from.         *)
(*                                                                         *)
(* A corpus is the set of the batches of texts in it.  Every other file is *)
(* the record of what it was made from.  The vocabulary never changes.     *)
(***************************************************************************)
EXTENDS Integers, Sequences

CONSTANTS
  SosRuns,  (* bound: program runs                                           *)
  SosDeaths (* bound: programs that are killed                               *)

ASSUME SosAssumption == SosRuns \in Nat /\ SosDeaths \in Nat

Job == {"normalize", "generate", "autolabel", "build", "teacher", "train",
        "calibrate", "evaluate", "export", "bundle"}
Corpora == {"public", "synth", "autolabeled"}
Split == {"class_weights", "train", "val", "test"}

(* The files.  Left out are those that no program reads: the review queue, *)
(* the list of errors, the manifest; and the second copy of the student,   *)
(* read only when there is no first, which never happens.                  *)
File == Corpora \union Split \union
        {"train_soft", "student", "calibration", "report", "int8", "handoff", "vectors", "card"}

(* What each file is made from.                                            *)
MadeFrom ==
  [f \in File |->
     CASE f \in {"public", "synth"} -> {}
       [] f = "autolabeled" -> {"synth"}
       [] f \in Split -> Corpora
       [] f = "train_soft" -> {"train", "autolabeled"}
       [] f = "student" -> {"train_soft", "val", "class_weights"}
       [] f = "calibration" -> {"student", "val"}
       [] f = "report" -> {"student", "calibration", "test"}
       [] f = "int8" -> {"student", "calibration", "train", "test"}
       [] f = "handoff" -> {"int8"}
       [] f = "vectors" -> {"handoff"}
       [] f = "card" -> {"calibration"}]

Gone == [is |-> "gone"]
Cut == [is |-> "cut"] (* a write was cut off *)
Texts(batches) == [is |-> "texts", batches |-> batches]
SoftLabels(batches) == [is |-> "soft", batches |-> batches]

(* A student and the datasets it was fitted to, with the class weights of  *)
(* one, and on the validation texts of one.                                *)
Loaded(rows, weights, val) ==
  [fitted |-> rows, weighed |-> weights, chosen |-> val, epoch |-> 0]
Student(n, epoch, data) ==
  [is |-> "student", run |-> n, epoch |-> epoch, fitted |-> data.fitted,
   weighed |-> data.weighed, chosen |-> data.chosen]

Temperature(student, fitted) == [is |-> "T", student |-> student, fitted |-> fitted]
DefaultTemperature == [is |-> "T", student |-> Gone, fitted |-> {}]
Report(student, t, batches) ==
  [is |-> "report", student |-> student, t |-> t, tested |-> batches]
TFLite(student, t) == [is |-> "tflite", student |-> student, t |-> t]
Copied(c, as) == [is |-> as, content |-> c]

SeedBatch == 0
CellBatch == 1
SampleBatch == 2
RawBatch == 3
GroqBatch(n) == 4 + n

VARIABLES
  started, (* job runs so far                                                *)
  where,   (* where[j]: the stage of job j                                   *)
  runOf,   (* runOf[j]: its run, counted over all jobs                       *)
  todo,    (* todo[j]: the writes it has computed and not done, in order     *)
  fitting, (* what the training has loaded and the epochs it saved           *)
  tree,    (* tree[f]: what is in file f                                     *)
  writer,  (* history: writer[f] is the run that wrote it                    *)
  stale,   (* history: files made from a file that was written since their   *)
           (* run began                                                      *)
  touched, (* history: touched[j]: files others wrote since j began          *)
  jobDeaths (* jobs killed so far                                            *)

sosVars == <<started, where, runOf, todo, fitting, tree, writer, stale, touched, jobDeaths>>

Unfitted == Loaded({}, {}, {})

(* One pass of everything, without the exported model.                     *)
Committed ==
  LET rows == {SeedBatch, CellBatch}
      student == Student(0, 1, Loaded(rows, rows, rows))
      t == Temperature(student, rows)
      network == TFLite(student, t)
  IN [f \in File |->
        CASE f = "public" -> Texts({SeedBatch})
          [] f \in {"synth", "autolabeled"} -> Texts({CellBatch})
          [] f \in Split -> Texts(rows)
          [] f = "train_soft" -> SoftLabels(rows)
          [] f = "student" -> student
          [] f = "calibration" -> t
          [] f = "report" -> Report(student, t, rows)
          [] f = "int8" -> Gone
          [] f = "handoff" -> network
          [] f = "vectors" -> Copied(network, "vectors")
          [] f = "card" -> Copied(t, "card")]

Rebuilt ==
  [f \in File |->
     CASE f \in {"synth", "autolabeled"} -> Texts({GroqBatch(0)})
       [] f \in Split -> Texts({SeedBatch, GroqBatch(0)})
       [] OTHER -> Committed[f]]

SosStart(files, behind) ==
  /\ started = 0 /\ where = [j \in Job |-> "off"] /\ runOf = [j \in Job |-> 0]
  /\ todo = [j \in Job |-> <<>>] /\ fitting = Unfitted
  /\ tree = files /\ stale = behind
  /\ writer = [f \in File |-> 0] /\ touched = [j \in Job |-> {}]
  /\ jobDeaths = 0

(* The committed tree, that tree after a new corpus and a new dataset, or  *)
(* an empty one.                                                           *)
SosInit ==
  \/ SosStart(Committed, {})
  \/ SosStart(Rebuilt, {f \in File : MadeFrom[f] \intersect Split # {}})
  \/ SosStart([f \in File |-> Gone], {})

Readable(f) == tree[f] \notin {Gone, Cut}
Batches(f) == IF Readable(f) THEN tree[f].batches ELSE {}

-----------------------------------------------------------------------------
(* The start of a job: it reads its inputs, within seconds, and computes   *)
(* what it will write.  A job that cannot read one raises before it has    *)
(* written anything; such a run is left out.  At most two jobs overlap.    *)

Start(j, next, writes(_)) ==
  /\ where[j] = "off" /\ started < SosRuns
  /\ \A i, k \in Job : where[i] # "off" /\ where[k] # "off" => i = k
  /\ started' = started + 1
  /\ runOf' = [runOf EXCEPT ![j] = started']
  /\ todo' = [todo EXCEPT ![j] = writes(started')]
  /\ where' = [where EXCEPT ![j] = next]
  /\ UNCHANGED <<fitting, tree, writer, stale, touched, jobDeaths>>
To(f, c) == <<[file |-> f, content |-> c]>>

(* The built-in seed texts stand in for the raw data sets when none of the *)
(* three is there and can be read.                                         *)
normalize_all_datasets ==
  \E batch \in {SeedBatch, RawBatch} :
    LET writes(n) == To("public", Texts({batch})) IN Start("normalize", "write", writes)

(* A cell of the grid falls back to built-in texts when Groq fails.  The   *)
(* shipped configuration overwrites the corpus of before.                  *)
generate_full_grid ==
  \E groq, cell \in BOOLEAN :
    LET writes(n) == To("synth", Texts((IF groq THEN {GroqBatch(n)} ELSE {})
                                       \union (IF cell THEN {CellBatch} ELSE {})))
    IN (groq \/ cell) /\ Start("generate", "write", writes)

(* Texts on which the teacher and the rules disagree, or of which the      *)
(* teacher is unsure, go to a review queue.                                *)
Agreed(texts) == SUBSET texts
auto_label_corpus ==
  /\ tree["synth"] # Cut
  /\ LET texts == IF tree["synth"] = Gone THEN {SampleBatch} ELSE Batches("synth") IN
       \E agreed \in Agreed(texts) :
         LET writes(n) == To("autolabeled", Texts(agreed))
         IN Start("autolabel", "write", writes)

compute_and_save_class_weights(rows) == To("class_weights", Texts(rows))

(* A corpus that cannot be read is skipped.                                *)
build_final_dataset ==
  LET rows == UNION {Batches(f) : f \in Corpora}
      writes(n) == compute_and_save_class_weights(rows) \o To("train", Texts(rows))
                   \o To("val", Texts(rows)) \o To("test", Texts(rows))
  IN /\ \E f \in Corpora : Readable(f)
     /\ rows # {}
     /\ Start("build", "write", writes)

(* Mutant: rows that have soft labels keep them, and are kept.             *)
IncrementalSoftLabels ==
  To("train_soft", SoftLabels(Batches("train") \union Batches("train_soft")))

generate_soft_labels == To("train_soft", SoftLabels(Batches("train")))
Teach ==
  /\ Readable("train")
  /\ LET writes(n) == generate_soft_labels IN Start("teacher", "write", writes)

-----------------------------------------------------------------------------
(* The student.                                                            *)

(* Soft labels are made when there is no such file, and only then.         *)
EnsureSoftLabels ==
  /\ tree["train_soft"] = Gone => Readable("train")
  /\ LET writes(n) == IF tree["train_soft"] = Gone THEN generate_soft_labels ELSE <<>>
     IN Start("train", "load", writes)

Ready(j, here) == where[j] = here /\ todo[j] = <<>>
Plan(j, next, writes) ==
  /\ where' = [where EXCEPT ![j] = next] /\ todo' = [todo EXCEPT ![j] = writes]
  /\ UNCHANGED <<started, runOf, tree, writer, stale, touched, jobDeaths>>
Leave(j) ==
  /\ where' = [where EXCEPT ![j] = "off"] /\ todo' = [todo EXCEPT ![j] = <<>>]
  /\ runOf' = [runOf EXCEPT ![j] = 0]
  /\ fitting' = IF j = "train" THEN Unfitted ELSE fitting
Raises(j) ==
  /\ Leave(j)
  /\ touched' = [touched EXCEPT ![j] = {}]
  /\ UNCHANGED <<started, tree, writer, stale, jobDeaths>>

(* Class weights that were cut off may parse, as weights of 1.             *)
LoadTrainingData ==
  LET inputs == {"train_soft", "val", "class_weights"} IN
  /\ Ready("train", "load")
  /\ \/ /\ Readable("train_soft") /\ Readable("val") /\ tree["class_weights"] # Gone
        /\ Plan("train", "epochs", <<>>)
        /\ fitting' = Loaded(Batches("train_soft"), Batches("class_weights"), Batches("val"))
     \/ (\E f \in inputs : ~Readable(f)) /\ Raises("train")

(* The first epoch is the best so far; a later one may be.  Epochs that    *)
(* save nothing are left out, and so is what saves more than twice.        *)
SaveBest ==
  LET n == fitting.epoch + 1
      best == Student(runOf["train"], n, fitting)
  IN /\ Ready("train", "epochs") /\ fitting.epoch < 2
     /\ fitting' = [fitting EXCEPT !.epoch = n]
     /\ Plan("train", "epochs", To("student", best))
EndTraining ==
  /\ Ready("train", "epochs") /\ fitting.epoch > 0
  /\ Raises("train")

fit_temperature_calibration ==
  /\ Readable("student") /\ Readable("val")
  /\ LET writes(n) == To("calibration", Temperature(tree["student"], Batches("val")))
     IN Start("calibrate", "write", writes)

(* Without a file that can be read the temperature is 1.                   *)
load_calibration_temperature ==
  IF Readable("calibration") THEN tree["calibration"] ELSE DefaultTemperature

run_evaluation ==
  /\ Readable("student") /\ Readable("test")
  /\ LET writes(n) ==
           To("report", Report(tree["student"], load_calibration_temperature, Batches("test")))
     IN Start("evaluate", "write", writes)

-----------------------------------------------------------------------------
(* The export and the bundle.                                              *)

CanExport == Readable("student") /\ Readable("train") /\ Readable("test")
export_calibrated_int8_tflite ==
  To("int8", TFLite(tree["student"], load_calibration_temperature))
Export ==
  /\ CanExport
  /\ LET writes(n) == export_calibrated_int8_tflite IN Start("export", "write", writes)

(* The bundle exports the network when there is none, and only then.       *)
EnsureExported ==
  /\ tree["int8"] = Gone => CanExport
  /\ LET writes(n) == IF tree["int8"] = Gone THEN export_calibrated_int8_tflite ELSE <<>>
     IN Start("bundle", "copy", writes)
CopyModel ==
  /\ Ready("bundle", "copy")
  /\ Plan("bundle", "vectors", To("handoff", tree["int8"]))
  /\ UNCHANGED fitting

(* The expected outputs are computed with the copy.                        *)
generate_inference_test_vectors ==
  /\ Ready("bundle", "vectors")
  /\ IF Readable("handoff")
       THEN /\ Plan("bundle", "card", To("vectors", Copied(tree["handoff"], "vectors")))
            /\ UNCHANGED fitting
       ELSE Raises("bundle")

(* The card names the temperature of the moment, not that of the network.  *)
emit_model_card ==
  /\ Ready("bundle", "card")
  /\ Plan("bundle", "write", To("card", Copied(load_calibration_temperature, "card")))
  /\ UNCHANGED fitting

-----------------------------------------------------------------------------
(* Files are overwritten in place, and a job may be killed at any moment.  *)

Put(j, f, c, over) ==
  /\ tree' = [tree EXCEPT ![f] = c]
  /\ writer' = [writer EXCEPT ![f] = runOf[j]]
  /\ stale' = (stale \ {f})
              \union {g \in File : f \in MadeFrom[g] /\ writer[g] # runOf[j]}
              \union (IF MadeFrom[f] \intersect touched[j] = {} THEN {} ELSE {f})
  /\ touched' = [i \in Job |-> IF i = j THEN IF over THEN {} ELSE touched[j]
                              ELSE IF where[i] = "off" THEN {}
                              ELSE touched[i] \union {f}]

(* A job ends with the last write of its last stage.                       *)
Write(j) ==
  /\ todo[j] # <<>>
  /\ LET w == Head(todo[j])
         over == where[j] = "write" /\ Len(todo[j]) = 1
     IN /\ Put(j, w.file, w.content, over)
        /\ IF over THEN Leave(j)
           ELSE todo' = [todo EXCEPT ![j] = Tail(@)] /\ UNCHANGED <<where, runOf, fitting>>
  /\ UNCHANGED <<started, jobDeaths>>

Kill(j) ==
  /\ where[j] # "off" /\ jobDeaths < SosDeaths
  /\ jobDeaths' = jobDeaths + 1
  /\ Leave(j)
  /\ UNCHANGED started
  /\ \/ todo[j] # <<>> /\ Put(j, Head(todo[j]).file, Cut, TRUE)
     \/ /\ touched' = [touched EXCEPT ![j] = {}]
        /\ UNCHANGED <<tree, writer, stale>>

SosNext ==
  \/ normalize_all_datasets \/ generate_full_grid \/ auto_label_corpus
  \/ build_final_dataset \/ Teach
  \/ EnsureSoftLabels \/ LoadTrainingData \/ SaveBest \/ EndTraining
  \/ fit_temperature_calibration \/ run_evaluation
  \/ Export
  \/ EnsureExported \/ CopyModel \/ generate_inference_test_vectors \/ emit_model_card
  \/ \E j \in Job : Write(j) \/ Kill(j)

-----------------------------------------------------------------------------
(* Nothing in these programs checks that a file is up to date, and several *)
(* of them reuse one that is not.  But whoever does check it, as make      *)
(* would, gets artefacts that belong together.  When each file of a chain  *)
(* is whole and none of those it was made from was written since its run   *)
(* began, then the report is about the student on disk, on texts of the    *)
(* very dataset that student was fitted, weighed and chosen on; its        *)
(* temperature was fitted to that student; and the bundle ships that       *)
(* student, with the temperature folded in that its card names, and with   *)
(* the outputs of that very network as test vectors.                       *)
UpToDate(files) == files \intersect stale = {} /\ \A f \in files : Readable(f)
OneDataset == \A f, g \in Split : writer[f] = writer[g]

UpToDateIsOfOnePiece ==
  LET r == tree["report"]
      network == tree["handoff"]
      fitted(t, student) == t.student = student
  IN /\ UpToDate({"report", "student", "train_soft"} \union Split) /\ OneDataset =>
          /\ r.student = tree["student"]
          /\ \A rows \in {r.student.fitted, r.student.weighed, r.student.chosen} :
               rows = r.tested
     /\ UpToDate({"report", "calibration", "student"}) => fitted(r.t, r.student)
     /\ UpToDate({"card", "vectors", "handoff", "int8", "calibration", "student"}) =>
          /\ network.student = tree["student"] /\ fitted(network.t, network.student)
          /\ tree["card"] = Copied(network.t, "card")
          /\ tree["vectors"] = Copied(network, "vectors")
=============================================================================
