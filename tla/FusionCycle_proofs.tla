------------------------- MODULE FusionCycle_proofs -------------------------
(***************************************************************************)
(* The invariants of FusionCycle for every sample, every output of the     *)
(* network and every logistic.  The inductive invariant IInv says how far  *)
(* a call has come and that what it holds was computed from its sample;    *)
(* each property is then a fact about gate_and_assemble alone.             *)
(***************************************************************************)
EXTENDS FusionCycle, FiniteSetTheorems, TLAPS

T0From(s) == {Baseline(s), BaselineDefaults}
T1Set == {NeuralPayload(n) : n \in Network} \cup {None}
Framed(s, x0, x1) == gate_and_assemble(x1, x0, Inputs(s))

IInv ==
  \/ /\ pc = "idle" /\ sample = None /\ t0 = None /\ t1 = None /\ frame = None
  \/ /\ pc = "baselines" /\ sample \in Sample /\ t0 = None /\ t1 = None /\ frame = None
  \/ /\ pc = "network" /\ sample \in Sample /\ t0 \in T0From(sample)
     /\ t1 = None /\ frame = None
  \/ /\ pc = "gate" /\ sample \in Sample /\ t0 \in T0From(sample)
     /\ t1 \in T1Set /\ frame = None
  \/ /\ pc = "idle" /\ sample \in Sample /\ t0 \in T0From(sample)
     /\ t1 \in T1Set /\ frame = Framed(sample, t0, t1)

-----------------------------------------------------------------------------

(* A call goes through its steps in order, and nothing it computed changes *)
(* before the next call.                                                   *)
LEMMA Inductive == Spec => []IInv
<1>1. Init => IInv
  BY DEF Init, IInv
<1>2. IInv /\ [Next]_cycleVars => IInv'
  <2> SUFFICES ASSUME IInv, [Next]_cycleVars PROVE IInv'
    OBVIOUS
  <2>1. CASE Assemble
    BY <2>1 DEF Assemble, IInv
  <2>2. CASE RunBaselines
    BY <2>2 DEF RunBaselines, IInv, T0From
  <2>3. CASE RunNetwork
    BY <2>3 DEF RunNetwork, IInv, T1Set
  <2>4. CASE Gate
    BY <2>4 DEF Gate, IInv, Framed
  <2>5. CASE UNCHANGED cycleVars
    BY <2>5 DEF cycleVars, IInv, Framed
  <2> QED
    BY <2>1, <2>2, <2>3, <2>4, <2>5 DEF Next
<1> QED
  BY <1>1, <1>2, PTL DEF Spec

(* One element more makes a set larger by at most one.                     *)
LEMMA AddedElement ==
  ASSUME NEW S, NEW x, IsFiniteSet(S)
  PROVE  /\ IsFiniteSet({x} \cup S)
         /\ Cardinality(S) \in Nat /\ Cardinality({x} \cup S) \in Nat
         /\ Cardinality({x} \cup S) <= Cardinality(S) + 1
<1>1. {x} \cup S = S \cup {x}
  OBVIOUS
<1>2. IsFiniteSet(S \cup {x})
  BY FS_AddElement
<1>3. Cardinality(S \cup {x}) = IF x \in S THEN Cardinality(S) ELSE Cardinality(S) + 1
  BY FS_AddElement
<1>4. Cardinality(S) \in Nat
  BY FS_CardinalityType
<1> QED
  BY <1>1, <1>2, <1>3, <1>4

(* A set of thresholds that a wind has reached is counted by a natural     *)
(* number, and six thresholds give seven levels.                           *)
LEMMA LevelType ==
  ASSUME NEW w \in Int
  PROVE  wind_kt_to_imd_level(w) \in Level
<1> DEFINE S1 == {120}
           S2 == {90} \cup S1
           S3 == {64} \cup S2
           S4 == {48} \cup S3
           S5 == {34} \cup S4
           S6 == {28} \cup S5
           R  == {t \in {28, 34, 48, 64, 90, 120} : w >= t}
<1>1. IsFiniteSet(S1) /\ Cardinality(S1) \in Nat /\ Cardinality(S1) <= 1
  <2>1. IsFiniteSet(S1) /\ Cardinality(S1) = 1
    BY FS_Singleton
  <2> QED
    BY <2>1
<1>7. R \subseteq S6
  OBVIOUS
<1> HIDE DEF S1
<1>2. IsFiniteSet(S2) /\ Cardinality(S2) \in Nat /\ Cardinality(S2) <= 2
  <2>1. IsFiniteSet(S2) /\ Cardinality(S2) \in Nat /\ Cardinality(S2) <= Cardinality(S1) + 1
    BY <1>1, AddedElement
  <2> QED
    BY <1>1, <2>1
<1> HIDE DEF S2
<1>3. IsFiniteSet(S3) /\ Cardinality(S3) \in Nat /\ Cardinality(S3) <= 3
  <2>1. IsFiniteSet(S3) /\ Cardinality(S3) \in Nat /\ Cardinality(S3) <= Cardinality(S2) + 1
    BY <1>2, AddedElement
  <2> QED
    BY <1>2, <2>1
<1> HIDE DEF S3
<1>4. IsFiniteSet(S4) /\ Cardinality(S4) \in Nat /\ Cardinality(S4) <= 4
  <2>1. IsFiniteSet(S4) /\ Cardinality(S4) \in Nat /\ Cardinality(S4) <= Cardinality(S3) + 1
    BY <1>3, AddedElement
  <2> QED
    BY <1>3, <2>1
<1> HIDE DEF S4
<1>5. IsFiniteSet(S5) /\ Cardinality(S5) \in Nat /\ Cardinality(S5) <= 5
  <2>1. IsFiniteSet(S5) /\ Cardinality(S5) \in Nat /\ Cardinality(S5) <= Cardinality(S4) + 1
    BY <1>4, AddedElement
  <2> QED
    BY <1>4, <2>1
<1> HIDE DEF S5
<1>6. IsFiniteSet(S6) /\ Cardinality(S6) \in Nat /\ Cardinality(S6) <= 6
  <2>1. IsFiniteSet(S6) /\ Cardinality(S6) \in Nat /\ Cardinality(S6) <= Cardinality(S5) + 1
    BY <1>5, AddedElement
  <2> QED
    BY <1>5, <2>1
<1> HIDE DEF S6, R
<1>8. IsFiniteSet(R) /\ Cardinality(R) <= Cardinality(S6)
  BY <1>6, <1>7, FS_Subset
<1>9. Cardinality(R) \in Nat /\ Cardinality(S6) \in Nat
  BY <1>6, <1>8, FS_CardinalityType
<1>10. 1 + Cardinality(R) \in 1 .. 7
  BY <1>6, <1>8, <1>9
<1> QED
  BY <1>10 DEF R, wind_kt_to_imd_level, Reached, Level

(* The defaults' level is that of their wind.                              *)
LEMMA DefaultLevel == wind_kt_to_imd_level(25) = Depression
<1>1. {t \in {28, 34, 48, 64, 90, 120} : 25 >= t} = {}
  OBVIOUS
<1> QED
  BY <1>1, FS_EmptySet DEF wind_kt_to_imd_level, Reached, Depression

(* The outputs of the network have their fields.                           *)
LEMMA Fields ==
  ASSUME NEW n \in Network
  PROVE  /\ n.probability \in Int /\ n.stage \in Stage /\ n.stageConf \in Int
         /\ n.wind \in Int /\ n.windConf \in Int /\ n.logVariance \in Int
         /\ n.path \in {"on_globe", "off_globe"}
<1>1. n \in [probability : 0 .. 1000 \cup {Nan}, stage : Stage, stageConf : 0 .. 100,
             wind : Int, windConf : 0 .. 100, logVariance : Int,
             path : {"on_globe", "off_globe"}]
  BY CycleAssumption
<1> QED
  BY <1>1 DEF Nan

(* What the network hands to the gate has the fields of a payload, and so  *)
(* is not None.                                                            *)
LEMMA PayloadType ==
  ASSUME NEW n \in Network
  PROVE  /\ NeuralPayload(n) # None
         /\ NeuralPayload(n).detected = (n.probability >= 500)
         /\ NeuralPayload(n).confidence = Round2(n.probability)
         /\ NeuralPayload(n).stage \in Stage
         /\ NeuralPayload(n).wind \in Nat
         /\ NeuralPayload(n).level = wind_kt_to_imd_level(NeuralPayload(n).wind)
         /\ NeuralPayload(n).logVariance \in Int
         /\ NeuralPayload(n).trackConfidence \in Int
         /\ NeuralPayload(n).logVariance = Nan => NeuralPayload(n).trackConfidence = Nan
         /\ NeuralPayload(n).trackConfidence # 0
<1>1. /\ n.probability \in Int /\ n.stage \in Stage /\ n.stageConf \in Int /\ n.wind \in Int
      /\ n.windConf \in Int /\ n.logVariance \in Int
      /\ n.path \in {"on_globe", "off_globe"}
  BY Fields
<1> DEFINE w == IF n.wind > 0 THEN n.wind ELSE 0
           c == IF n.logVariance = Nan THEN Nan ELSE Clip(85 - 2 * n.logVariance, 40, 95)
<1>2. w \in Nat
  BY <1>1
<1>3. wind_kt_to_imd_level(w) \in Int
  BY <1>2, LevelType DEF Level
<1>4. c \in Int /\ c # 0 /\ (n.logVariance = Nan => c = Nan)
  BY <1>1 DEF Clip, Nan
<1>5. /\ Round2(n.probability) \in Int /\ Clipped(n.stageConf, 5, 99) \in Int
      /\ Clipped(n.windConf, 5, 99) \in Int
  BY <1>1 DEF Round2, Clipped, Clip, Nan
<1>6. NeuralPayload(n) =
        [detected |-> n.probability >= 500, confidence |-> Round2(n.probability),
         stage |-> n.stage, stageConfidence |-> Clipped(n.stageConf, 5, 99),
         wind |-> w, level |-> wind_kt_to_imd_level(w),
         windConfidence |-> Clipped(n.windConf, 5, 99), path |-> n.path,
         trackConfidence |-> c, logVariance |-> n.logVariance]
  BY DEF NeuralPayload
<1> HIDE DEF w, c
<1>7. (n.probability >= 500) \in BOOLEAN
  BY <1>1
<1>8. NeuralPayload(n) \in
        [detected : BOOLEAN, confidence : Int, stage : Stage, stageConfidence : Int,
         wind : Int, level : Int, windConfidence : Int, path : {"on_globe", "off_globe"},
         trackConfidence : Int, logVariance : Int]
  BY <1>1, <1>2, <1>3, <1>4, <1>5, <1>6, <1>7
<1>9. NeuralPayload(n) # None
  BY <1>8, CycleAssumption
<1> QED
  BY <1>1, <1>2, <1>4, <1>6, <1>9

(* The fields of the baselines, or of the defaults in their place.         *)
LEMMA BaselineType ==
  ASSUME NEW s \in Sample, NEW x0 \in T0From(s)
  PROVE  x0.stage \in Stage /\ x0.level \in Level /\ x0.wind \in Nat
<1>1. s.wind \in Int
  <2>1. s \in [wind : Wind \cup {Nan}, bonus : 0 .. 10, nature : {"TS", "DS", "ET"},
               history : Seq(Nat), flag : {"true", "false", "absent"},
               image : {"none", "named", "read"}, env : BOOLEAN]
    BY CycleAssumption
  <2>2. \A w \in Wind \cup {Nan} : w \in Int
    BY BaselinesAssumption DEF Nan
  <2> QED
    BY <2>1, <2>2
<1> DEFINE wind == Clip(Known(s.wind, 25), 0, 200)
<1>2. wind \in Nat
  BY <1>1 DEF Clip, Known
<1>3. lifecycle_stage(Known(s.wind, 0), s.nature, s.history) \in Stage
  BY DEF lifecycle_stage, Stage
<1>4. wind_kt_to_imd_level(wind) \in Level
  BY <1>2, LevelType
<1> HIDE DEF wind
<1>5. Baseline(s).stage \in Stage /\ Baseline(s).level \in Level /\ Baseline(s).wind \in Nat
  <2>1. intensity(s) = [wind |-> wind, level |-> wind_kt_to_imd_level(wind)]
    BY DEF intensity, wind
  <2> QED
    BY <1>2, <1>3, <1>4, <2>1 DEF Baseline, classify
<1>6. /\ BaselineDefaults.stage \in Stage /\ BaselineDefaults.level \in Level
      /\ BaselineDefaults.wind \in Nat
  BY DEF BaselineDefaults, Stage, Level, Depression
<1> QED
  BY <1>5, <1>6 DEF T0From

(* Every frame is well formed, the safety net's as well.                   *)
LEMMA FrameType ==
  ASSUME NEW s \in Sample, NEW x0 \in T0From(s), NEW x1 \in T1Set
  PROVE  LET f == Framed(s, x0, x1)
         IN /\ f.stage \in Stage /\ f.level \in Level /\ f.wind \in Nat
            /\ f.tier \in {"tier0", "tier1", "mixed"}
<1>1. x0.stage \in Stage /\ x0.level \in Level /\ x0.wind \in Nat
  BY BaselineType
<1>2. x1 # None => x1.stage \in Stage /\ x1.level \in Level /\ x1.wind \in Nat
  BY PayloadType, LevelType DEF T1Set
<1>3. /\ SafetyNet.stage \in Stage /\ SafetyNet.level \in Level /\ SafetyNet.wind \in Nat
      /\ SafetyNet.tier = "tier0"
  BY DEF SafetyNet, Stage, Level, Depression
<1>4. x1 = None => /\ IdentificationTier(x1, Inputs(s)) = "tier0"
                   /\ ClassificationTier(x1, Inputs(s)) = "tier0"
                   /\ IntensityTier(x1, Inputs(s)) = "tier0"
                   /\ PredictionTier(x1, Inputs(s)) = "tier0"
  BY DEF IdentificationTier, ClassificationTier, IntensityTier, PredictionTier, Usable, Chosen
<1>5. "DEVELOPING_DISTURBANCE" \in Stage /\ CyclonicStorm \in Level
  BY DEF Stage, CyclonicStorm, Level
<1> QED
  BY <1>1, <1>2, <1>3, <1>4, <1>5 DEF Framed, gate_and_assemble, ParseLabel

-----------------------------------------------------------------------------

(* The state of a finished call.                                           *)
LEMMA Finished ==
  ASSUME IInv, frame # None
  PROVE  /\ sample \in Sample /\ t0 \in T0From(sample) /\ t1 \in T1Set
         /\ frame = Framed(sample, t0, t1)
  BY DEF IInv

(* Every frame and every intermediate result is well formed.               *)
THEOREM TypeCorrect == Spec => []CycleTypeOK
<1>1. IInv => CycleTypeOK
  <2> SUFFICES ASSUME IInv PROVE CycleTypeOK
    OBVIOUS
  <2>1. pc \in {"idle", "baselines", "network", "gate"} /\ sample \in Sample \cup {None}
    BY DEF IInv
  <2>2. t0 = None \/ (t0.stage \in Stage /\ t0.level \in Level /\ t0.wind \in Nat)
    BY BaselineType DEF IInv
  <2>3. frame = None \/
          (frame.stage \in Stage /\ frame.level \in Level /\ frame.wind \in Nat
           /\ frame.tier \in {"tier0", "tier1", "mixed"})
    BY Finished, FrameType
  <2> QED
    BY <2>1, <2>2, <2>3 DEF CycleTypeOK
<1> QED
  BY <1>1, Inductive, PTL

(* The tiers that a frame names are those its fields came from, unless it  *)
(* is the safety net.                                                      *)
LEMMA IdentificationSource ==
  ASSUME NEW s, NEW x0, NEW x1, NEW f, f = Framed(s, x0, x1), f # SafetyNet
  PROVE  /\ f.sources.identification = IdentificationTier(x1, Inputs(s))
         /\ f.sources.identification = "tier1" => f.detected = x1.detected
BY DEF Framed, gate_and_assemble

LEMMA IntensitySource ==
  ASSUME NEW s, NEW x0, NEW x1, NEW f, f = Framed(s, x0, x1), f # SafetyNet
  PROVE  /\ f.sources.intensity = IntensityTier(x1, Inputs(s))
         /\ f.wind = IF f.sources.intensity = "tier1" THEN x1.wind ELSE x0.wind
         /\ f.level = IF f.sources.intensity = "tier1" THEN x1.level
                      ELSE IF x0.members THEN CyclonicStorm ELSE x0.level
BY DEF Framed, gate_and_assemble, ParseLabel

LEMMA PredictionSource ==
  ASSUME NEW s, NEW x0, NEW x1, NEW f, f = Framed(s, x0, x1), f # SafetyNet
  PROVE  f.sources.prediction \in {PredictionTier(x1, Inputs(s)), "none"}
BY DEF Framed, gate_and_assemble

(* Without an output of the network no field comes from it.                *)
LEMMA Unusable ==
  ASSUME NEW s, NEW x1, ~Usable(x1, Inputs(s))
  PROVE  /\ IdentificationTier(x1, Inputs(s)) = "tier0"
         /\ ClassificationTier(x1, Inputs(s)) = "tier0"
         /\ IntensityTier(x1, Inputs(s)) = "tier0"
         /\ PredictionTier(x1, Inputs(s)) = "tier0"
BY DEF IdentificationTier, ClassificationTier, IntensityTier, PredictionTier, Chosen

(* The network's "no storm" is published only on the rounding edge.        *)
THEOREM NonDetectionOnTheEdge == Spec => []NonDetectionOnlyOnTheEdge
<1>1. IInv => NonDetectionOnlyOnTheEdge
  <2> SUFFICES ASSUME IInv, Neural("identification"), ~frame.detected
               PROVE  t1.confidence = 50
    BY DEF NonDetectionOnlyOnTheEdge, min_detection_confidence
  <2>1. /\ frame # None /\ frame.sources.identification = "tier1"
        /\ sample \in Sample /\ t0 \in T0From(sample) /\ t1 \in T1Set
        /\ frame = Framed(sample, t0, t1)
    BY Finished DEF Neural
  <2>2. frame # SafetyNet
    BY <2>1 DEF SafetyNet
  <2>3. IdentificationTier(t1, Inputs(sample)) = "tier1" /\ frame.detected = t1.detected
    BY <2>1, <2>2, IdentificationSource
  <2>4. t1 # None /\ t1.confidence >= 50
    BY <2>3 DEF IdentificationTier, Usable, Chosen, min_detection_confidence
  <2>5. PICK n \in Network : t1 = NeuralPayload(n)
    BY <2>1, <2>4 DEF T1Set
  <2>6. ~(n.probability >= 500) /\ t1.confidence = Round2(n.probability)
    BY <2>3, <2>5, PayloadType
  <2>7. n.probability \in Int
    BY Fields
  <2> QED
    BY <2>4, <2>6, <2>7 DEF Round2, Nan
<1> QED
  BY <1>1, Inductive, PTL

(* A frame denies an observed storm only for a network on the rounding     *)
(* edge and an image that was read or is claimed to be there.              *)
THEOREM DenialExplained == Spec => []DenialHasACause
<1>1. IInv /\ NonDetectionOnlyOnTheEdge => DenialHasACause
  <2> SUFFICES ASSUME IInv, NonDetectionOnlyOnTheEdge,
                      frame # None, ~frame.detected, sample.wind >= 17
               PROVE  /\ Neural("identification") /\ t1.confidence = min_detection_confidence
                      /\ sample.flag # "false"
                      /\ sample.image = "none" => sample.flag = "true"
    BY DEF DenialHasACause, IMD_DEPRESSION_WIND_THRESHOLD_KT
  <2> DEFINE ident == IdentificationTier(t1, Inputs(sample))
  <2>1. /\ sample \in Sample /\ t0 \in T0From(sample)
        /\ frame = Framed(sample, t0, t1)
    BY Finished
  <2>2. frame # SafetyNet
    BY DEF SafetyNet
  <2>3. t0.detected
    <3>1. Known(sample.wind, 0) >= 17
      BY DEF Known, Nan
    <3>2. identify(sample).detected
      BY <3>1 DEF identify, IMD_DEPRESSION_WIND_THRESHOLD_KT
    <3>3. Baseline(sample).detected
      BY <3>2 DEF Baseline
    <3>4. BaselineDefaults.detected
      BY DEF BaselineDefaults
    <3>5. t0 = Baseline(sample) \/ t0 = BaselineDefaults
      BY <2>1 DEF T0From
    <3> QED
      BY <3>3, <3>4, <3>5
  <2>4. /\ frame.detected = IF ident = "tier1" THEN t1.detected ELSE t0.detected
        /\ frame.sources.identification = ident
    BY <2>1, <2>2 DEF Framed, gate_and_assemble
  <2>5. ident = "tier1" => t1.detected \/ HasImage(sample)
    BY DEF IdentificationTier, Chosen, Inputs, IMD_DEPRESSION_WIND_THRESHOLD_KT
  <2> HIDE DEF ident
  <2>6. ident = "tier1" /\ ~t1.detected
    BY <2>3, <2>4
  <2>7. Neural("identification")
    BY <2>4, <2>6 DEF Neural
  <2>8. t1.confidence = min_detection_confidence
    BY <2>7 DEF NonDetectionOnlyOnTheEdge
  <2>9. HasImage(sample)
    BY <2>5, <2>6
  <2> QED
    BY <2>7, <2>8, <2>9 DEF HasImage
<1> QED
  BY <1>1, Inductive, NonDetectionOnTheEdge, PTL

(* A head that diverged never reaches a frame.                             *)
THEOREM DivergedStopped == Spec => []DivergedHeadStopped
<1>1. IInv => DivergedHeadStopped
  <2> SUFFICES ASSUME IInv, frame # None
               PROVE  /\ frame.sources.prediction = "tier1" =>
                           t1.logVariance # Nan /\ t1.logVariance <= 5
                      /\ frame.sources.intensity = "tier1" => frame.wind > 0
    BY DEF DivergedHeadStopped, Neural, max_track_variance_ceiling
  <2>1. /\ sample \in Sample /\ t0 \in T0From(sample) /\ t1 \in T1Set
        /\ frame = Framed(sample, t0, t1)
    BY Finished
  <2>2. CASE frame = SafetyNet
    BY <2>2 DEF SafetyNet
  <2>3. CASE frame # SafetyNet /\ t1 = None
    <3>1. ~Usable(t1, Inputs(sample))
      BY <2>3 DEF Usable
    <3> QED
      BY <2>1, <2>3, <3>1, IntensitySource, PredictionSource, Unusable
  <2>4. CASE frame # SafetyNet /\ t1 # None
    <3>1. PICK n \in Network : t1 = NeuralPayload(n)
      BY <2>1, <2>4 DEF T1Set
    <3>2. /\ t1.wind \in Nat /\ t1.logVariance \in Int /\ t1.trackConfidence \in Int
          /\ t1.logVariance = Nan => t1.trackConfidence = Nan
          /\ t1.trackConfidence # 0
      BY <3>1, PayloadType
    <3>3. PredictionTier(t1, Inputs(sample)) = "tier1" =>
            ~(t1.logVariance > 5) /\ t1.trackConfidence >= 50
      BY <3>2 DEF PredictionTier, Chosen, min_track_confidence, max_track_variance_ceiling
    <3>4. IntensityTier(t1, Inputs(sample)) = "tier1" => t1.wind # 0
      BY DEF IntensityTier, Chosen
    <3>5. /\ frame.sources.prediction \in {PredictionTier(t1, Inputs(sample)), "none"}
          /\ frame.sources.intensity = IntensityTier(t1, Inputs(sample))
          /\ frame.wind = IF frame.sources.intensity = "tier1" THEN t1.wind ELSE t0.wind
      BY <2>1, <2>4, IntensitySource, PredictionSource
    <3>6. frame.sources.prediction = "tier1" => t1.logVariance # Nan /\ t1.logVariance <= 5
      BY <3>2, <3>3, <3>5 DEF Nan
    <3> QED
      BY <3>2, <3>4, <3>5, <3>6
  <2> QED
    BY <2>2, <2>3, <2>4
<1> QED
  BY <1>1, Inductive, PTL

(* The safety net stands in only for an accepted path off the globe.       *)
THEOREM RescuedForThePath == Spec => []RescuedOnlyForThePath
<1>1. IInv => RescuedOnlyForThePath
  <2> SUFFICES ASSUME IInv, frame # None, frame.rescued
               PROVE  t1 # None /\ t1.path = "off_globe" /\ t1.trackConfidence >= 50
    BY DEF RescuedOnlyForThePath, min_track_confidence
  <2>1. t1 \in T1Set /\ frame = Framed(sample, t0, t1)
    BY Finished
  <2>2. PredictionTier(t1, Inputs(sample)) = "tier1" /\ t1.path = "off_globe"
    BY <2>1 DEF Framed, gate_and_assemble
  <2>3. t1 # None
    BY <2>2 DEF PredictionTier, Usable, Chosen
  <2>4. PICK n \in Network : t1 = NeuralPayload(n)
    BY <2>1, <2>3 DEF T1Set
  <2>5. t1.trackConfidence # 0
    BY <2>4, PayloadType
  <2>6. t1.trackConfidence >= 50
    BY <2>2, <2>5 DEF PredictionTier, Chosen, min_track_confidence
  <2> QED
    BY <2>2, <2>3, <2>6
<1> QED
  BY <1>1, Inductive, PTL

(* A level disagrees with its wind only where the baseline's enumeration   *)
(* member was parsed again.                                                *)
THEOREM LevelWrongFromBaseline == Spec => []LevelWrongOnlyFromBaseline
<1>1. IInv => LevelWrongOnlyFromBaseline
  <2> SUFFICES ASSUME IInv, frame # None, frame.level # wind_kt_to_imd_level(frame.wind)
               PROVE  ~Neural("intensity") /\ ~frame.rescued /\ t0 = Baseline(sample)
    BY DEF LevelWrongOnlyFromBaseline
  <2>1. /\ sample \in Sample /\ t0 \in T0From(sample) /\ t1 \in T1Set
        /\ frame = Framed(sample, t0, t1)
    BY Finished
  <2>2. frame # SafetyNet
    BY DefaultLevel DEF SafetyNet
  <2>3. /\ frame.sources.intensity = IntensityTier(t1, Inputs(sample))
        /\ frame.wind = IF frame.sources.intensity = "tier1" THEN t1.wind ELSE t0.wind
        /\ frame.level = IF frame.sources.intensity = "tier1" THEN t1.level
                         ELSE IF t0.members THEN CyclonicStorm ELSE t0.level
    BY <2>1, <2>2, IntensitySource
  <2>4. frame.sources.intensity # "tier1"
    <3> SUFFICES ASSUME frame.sources.intensity = "tier1" PROVE FALSE
      OBVIOUS
    <3>1. t1 # None
      BY <2>3 DEF IntensityTier, Usable, Chosen
    <3>2. PICK n \in Network : t1 = NeuralPayload(n)
      BY <2>1, <3>1 DEF T1Set
    <3>3. t1.level = wind_kt_to_imd_level(t1.wind)
      BY <3>2, PayloadType
    <3> QED
      BY <2>3, <3>3
  <2>5. t0 # BaselineDefaults
    BY <2>3, <2>4, DefaultLevel DEF BaselineDefaults
  <2>6. ~frame.rescued
    BY <2>1, <2>2 DEF Framed, gate_and_assemble
  <2> QED
    BY <2>1, <2>4, <2>5, <2>6 DEF T0From, Neural
<1> QED
  BY <1>1, Inductive, PTL

(* A frame labelled tier0 holds nothing of the network.                    *)
THEOREM TierZeroPure == Spec => []TierZeroIsPure
<1>1. IInv => TierZeroIsPure
  <2> SUFFICES ASSUME IInv, frame # None
               PROVE  /\ frame.tier = "tier0" =>
                           \A field \in DOMAIN frame.sources : frame.sources[field] # "tier1"
                      /\ ~HasImage(sample) /\ ~sample.env => frame.tier = "tier0"
    BY DEF TierZeroIsPure
  <2> DEFINE ident == IdentificationTier(t1, Inputs(sample))
             class == ClassificationTier(t1, Inputs(sample))
             intense == IntensityTier(t1, Inputs(sample))
             predict == frame.sources.prediction
             used == {ident, class, intense, predict} \ {"none"}
  <2>1. frame = Framed(sample, t0, t1)
    BY Finished
  <2>2. CASE frame = SafetyNet
    <3>1. frame.tier = "tier0" /\ frame.sources = [identification |-> "tier0",
             classification |-> "tier0", intensity |-> "tier0", prediction |-> "tier0"]
      BY <2>2 DEF SafetyNet
    <3> QED
      BY <3>1
  <2>3. CASE frame # SafetyNet
    <3>1. /\ frame.sources = [identification |-> ident, classification |-> class,
                              intensity |-> intense, prediction |-> predict]
          /\ frame.tier = IF used = {"tier1"} THEN "tier1"
                          ELSE IF used = {"tier0"} THEN "tier0" ELSE "mixed"
          /\ predict \in {PredictionTier(t1, Inputs(sample)), "none"}
      BY <2>1, <2>3 DEF Framed, gate_and_assemble
    <3>2. ident \in Tier /\ class \in Tier /\ intense \in Tier
      BY DEF IdentificationTier, ClassificationTier, IntensityTier, Chosen, Tier
    <3>3. frame.tier = "tier0" =>
            ident # "tier1" /\ class # "tier1" /\ intense # "tier1" /\ predict # "tier1"
      <4> SUFFICES ASSUME frame.tier = "tier0" PROVE "tier1" \notin used
        OBVIOUS
      <4>1. used = {"tier0"}
        BY <3>1
      <4> QED
        BY <4>1
    <3>4. frame.tier = "tier0" =>
            \A field \in DOMAIN frame.sources : frame.sources[field] # "tier1"
      BY <3>1, <3>3
    <3>5. ~HasImage(sample) /\ ~sample.env => frame.tier = "tier0"
      <4> SUFFICES ASSUME ~HasImage(sample), ~sample.env PROVE frame.tier = "tier0"
        OBVIOUS
      <4>1. ~Usable(t1, Inputs(sample))
        BY DEF Usable, Inputs
      <4>2. ident = "tier0" /\ class = "tier0" /\ intense = "tier0"
            /\ predict \in {"tier0", "none"}
        BY <3>1, <4>1, Unusable
      <4>3. used = {"tier0"}
        BY <4>2
      <4> QED
        BY <3>1, <4>3
    <3> QED
      BY <3>4, <3>5
  <2> QED
    BY <2>2, <2>3
<1> QED
  BY <1>1, Inductive, PTL
=============================================================================
