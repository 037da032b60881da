----------------------------- MODULE CycloneLab -----------------------------
(***************************************************************************)
(* The programs that run by themselves and meet only in files.  Around the *)
(* cyclone brain: the trainer, with the process that serves its network    *)
(* (Training), the programs that share a report (LabReport), the making of *)
(* samples (TrackPrep) and splits (DatasetSplit), and the two consumers of *)
(* the replay cache (ReplayFeed).  Besides it: the programs that make the  *)
(* SOS classifier (SosLab).  None of these six groups touches the files of *)
(* another, so that a behaviour runs one of them.                          *)
(***************************************************************************)
EXTENDS Training, LabReport, TrackPrep, DatasetSplit, ReplayFeed, SosLab

VARIABLE group (* which of the six runs                                      *)

labState == <<group, trainingVars, labVars, prepVars, splitVars, feedVars, sosVars>>

FewestPrep == stage = "done" /\ file = <<>> /\ track = <<>> /\ samples = <<>>
FewestSplit == /\ program = "training" /\ storms = <<>> /\ phase = "done"
               /\ splits = NoSplit /\ evaluated = {}
FewestSos == /\ started = 0 /\ where = <<>> /\ runOf = <<>> /\ todo = <<>>
             /\ fitting = <<>> /\ tree = <<>> /\ writer = <<>> /\ stale = File
             /\ touched = <<>> /\ jobDeaths = 0

Init ==
  /\ group \in {"training", "report", "prep", "split", "feed", "sos"}
  /\ TrainingInit /\ LabInit /\ FeedInit
  /\ IF group = "prep" THEN PrepInit ELSE FewestPrep
  /\ IF group = "split" THEN SplitInit ELSE FewestSplit
  /\ IF group = "sos" THEN SosInit ELSE FewestSos

Next ==
  \/ /\ group = "training" /\ TrainingNext
     /\ UNCHANGED <<group, labVars, prepVars, splitVars, feedVars, sosVars>>
  \/ /\ group = "report" /\ LabNext
     /\ UNCHANGED <<group, trainingVars, prepVars, splitVars, feedVars, sosVars>>
  \/ /\ group = "prep" /\ PrepNext
     /\ UNCHANGED <<group, trainingVars, labVars, splitVars, feedVars, sosVars>>
  \/ /\ group = "split" /\ SplitNext
     /\ UNCHANGED <<group, trainingVars, labVars, prepVars, feedVars, sosVars>>
  \/ /\ group = "feed" /\ FeedNext
     /\ UNCHANGED <<group, trainingVars, labVars, prepVars, splitVars, sosVars>>
  \/ /\ group = "sos" /\ SosNext
     /\ UNCHANGED <<group, trainingVars, labVars, prepVars, splitVars, feedVars>>

Spec == Init /\ [][Next]_labState
=============================================================================
