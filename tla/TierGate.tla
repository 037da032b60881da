------------------------------ MODULE TierGate ------------------------------
(***************************************************************************)
(* The per-field gate of the cyclone brain: each field of a frame comes    *)
(* from the network (Tier-1) when its inputs and confidence allow it, and  *)
(* from the baselines (Tier-0) otherwise; a frame that cannot be assembled *)
(* is replaced by a safety net.  Confidences are hundredths and Nan fails  *)
(* every threshold.                                                        *)
(***************************************************************************)
EXTENDS Baselines

CONSTANT None  (* Python's None *)

(* ConfidenceGatesConfig, as every caller leaves it.                       *)
min_detection_confidence == 50
min_stage_confidence == 60
min_intensity_confidence == 60
min_track_confidence == 50
max_track_variance_ceiling == 5

Tier == {"tier0", "tier1"}
Chosen(accepted) == IF accepted THEN "tier1" ELSE "tier0"

(* Neither an image nor an environment, or a network that gave no output:  *)
(* every field falls back.                                                 *)
Usable(t1, inputs) == (inputs.image \/ inputs.env) /\ t1 # None

TrustedDenial(t1, inputs) ==  (* mutant: the observation overrides nothing        *)
  Chosen(Usable(t1, inputs) /\ t1.confidence >= min_detection_confidence)

ConfidentDenial(t1, inputs) ==  (* mutant: a non-detection needs no confidence      *)
  Chosen(/\ Usable(t1, inputs)
         /\ t1.detected => t1.confidence >= min_detection_confidence
         /\ ~(/\ ~t1.detected
              /\ ~inputs.image
              /\ inputs.wind >= IMD_DEPRESSION_WIND_THRESHOLD_KT))

(* Without an image, an observed depression overrides a non-detection.     *)
IdentificationTier(t1, inputs) ==
  Chosen(/\ Usable(t1, inputs)
         /\ t1.confidence >= min_detection_confidence
         /\ ~(/\ ~t1.detected
              /\ ~inputs.image
              /\ inputs.wind >= IMD_DEPRESSION_WIND_THRESHOLD_KT))

ClassificationTier(t1, inputs) ==
  Chosen(Usable(t1, inputs) /\ t1.stageConfidence >= min_stage_confidence)

AnyWind(t1, inputs) ==  (* mutant: a wind of 0.0 is a wind                        *)
  Chosen(/\ Usable(t1, inputs)
         /\ t1.wind <= 250
         /\ t1.windConfidence >= min_intensity_confidence)

(* A wind of 0.0 is falsy: the lookup goes on to a key that is not there   *)
(* and takes the wind for missing.                                         *)
IntensityTier(t1, inputs) ==
  Chosen(/\ Usable(t1, inputs)
         /\ t1.wind # 0 /\ t1.wind <= 250
         /\ t1.windConfidence >= min_intensity_confidence)

(* A confidence of 0.0 counts as 0.8; a NaN one stays NaN.                 *)
PredictionTier(t1, inputs) ==
  Chosen(/\ Usable(t1, inputs)
         /\ ~(t1.logVariance > max_track_variance_ceiling)
         /\ (IF t1.trackConfidence = 0 THEN 80 ELSE t1.trackConfidence)
              >= min_track_confidence)

(* The label is looked up in its enumeration by str(label): that is the    *)
(* value of a plain string, but Class.MEMBER for a member of a (str, Enum) *)
(* class, which no member has as its value.                                *)
ParseLabel(label, isMember, default) == IF isMember THEN default ELSE label

SafetyNet ==
  [detected |-> TRUE, stage |-> "TROPICAL_DEPRESSION", level |-> Depression, wind |-> 25,
   path |-> "safety_net", saffir |-> None, tier |-> "tier0", rescued |-> TRUE,
   sources |-> [identification |-> "tier0", classification |-> "tier0",
                intensity |-> "tier0", prediction |-> "tier0"]]

(* A forecast point outside the globe fails the schema, inside the try.    *)
gate_and_assemble(t1, t0, inputs) ==
  LET ident    == IdentificationTier(t1, inputs)
      class    == ClassificationTier(t1, inputs)
      intense  == IntensityTier(t1, inputs)
      detected == IF ident = "tier1" THEN t1.detected ELSE t0.detected
      predict  == IF detected THEN PredictionTier(t1, inputs) ELSE "none"
      path     == CASE predict = "tier1" -> t1.path
                    [] predict = "tier0" -> "cliper"
                    [] OTHER -> "none"
      wind     == IF intense = "tier1" THEN t1.wind ELSE t0.wind
      used     == {ident, class, intense, predict} \ {"none"}
  IN IF path = "off_globe"
     THEN SafetyNet
     ELSE [detected |-> detected,
           stage    |-> IF class = "tier1" THEN ParseLabel(t1.stage, FALSE, t1.stage)
                        ELSE ParseLabel(t0.stage, t0.members, "DEVELOPING_DISTURBANCE"),
           level    |-> IF intense = "tier1" THEN ParseLabel(t1.level, FALSE, t1.level)
                        ELSE ParseLabel(t0.level, t0.members, CyclonicStorm),
           wind     |-> wind,
           path     |-> path,
           saffir   |-> wind_kt_to_saffir_simpson(wind),
           tier     |-> IF used = {"tier1"} THEN "tier1"
                        ELSE IF used = {"tier0"} THEN "tier0" ELSE "mixed",
           rescued  |-> FALSE,
           sources  |-> [identification |-> ident, classification |-> class,
                         intensity |-> intense, prediction |-> predict]]
=============================================================================
