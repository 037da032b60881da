----------------------------- MODULE FusionCycle ----------------------------
(***************************************************************************)
(* run_cycle: one frame of cyclone intelligence from one sample.  The      *)
(* sample is assembled, the baselines run, the network runs, the gate      *)
(* assembles the frame.  The baselines and the network each run inside a   *)
(* try of their own, all or nothing.                                       *)
(***************************************************************************)
EXTENDS TierGate

CONSTANTS
  Sample,  (* the samples a cycle may be given                               *)
  Network  (* the raw outputs of the fusion network                          *)

ASSUME CycleAssumption ==
  /\ Sample \subseteq
       [wind : Wind \cup {Nan}, bonus : 0 .. 10, nature : {"TS", "DS", "ET"},
        history : Seq(Nat), flag : {"true", "false", "absent"},
        image : {"none", "named", "read"}, env : BOOLEAN]
  /\ Network \subseteq
       [probability : 0 .. 1000 \cup {Nan}, stage : Stage, stageConf : 0 .. 100,
        wind : Int, windConf : 0 .. 100, logVariance : Int, path : {"on_globe", "off_globe"}]
  /\ None \notin
       [detected : BOOLEAN, confidence : Int, stage : Stage, stageConfidence : Int,
        wind : Int, level : Int, windConfidence : Int, path : {"on_globe", "off_globe"},
        trackConfidence : Int, logVariance : Int]

VARIABLES
  pc,      (* where the call stands                                          *)
  sample,  (* the sample it was given                                        *)
  t0,      (* tier0_payload                                                  *)
  t1,      (* tier1_payload, None after an exception                         *)
  frame    (* the frame of the last call that returned                       *)

cycleVars == <<pc, sample, t0, t1, frame>>

(* An image that was "read" comes from a file; a "named" one is no more    *)
(* than a key of the sample.  It counts as available when the sample says  *)
(* so or, if the sample does not say, when one was read or is named.       *)
HasImage(s) == s.flag = "true" \/ (s.flag = "absent" /\ s.image # "none")
Inputs(s) == [image |-> HasImage(s), env |-> s.env, wind |-> s.wind]

Baseline(s) ==
  [detected |-> identify(s).detected, stage |-> classify(s),
   level |-> intensity(s).level, wind |-> intensity(s).wind, members |-> TRUE]

WrongDefaults ==  (* mutant: a level that is not that of the wind                 *)
  [detected |-> TRUE, stage |-> "TROPICAL_DEPRESSION", level |-> CyclonicStorm,
   wind |-> 25, members |-> FALSE]

BaselineDefaults ==
  [detected |-> TRUE, stage |-> "TROPICAL_DEPRESSION", level |-> Depression,
   wind |-> 25, members |-> FALSE]

Clipped(x, low, high) == IF x = Nan THEN Nan ELSE Clip(x, low, high)
Round2(p) == IF p = Nan THEN Nan ELSE (p + 5) \div 10

(* The detection confidence is the probability that a storm is there, also *)
(* when the decision is that none is.  max(0.0, NaN) is 0.0.               *)
NeuralPayload(n) ==
  LET wind == IF n.wind > 0 THEN n.wind ELSE 0
  IN [detected        |-> n.probability >= 500,
      confidence      |-> Round2(n.probability),
      stage           |-> n.stage,
      stageConfidence |-> Clipped(n.stageConf, 5, 99),
      wind            |-> wind,
      level           |-> wind_kt_to_imd_level(wind),
      windConfidence  |-> Clipped(n.windConf, 5, 99),
      path            |-> n.path,
      trackConfidence |-> IF n.logVariance = Nan THEN Nan
                          ELSE Clip(85 - 2 * n.logVariance, 40, 95),
      logVariance     |-> n.logVariance]

-----------------------------------------------------------------------------

Init ==
  /\ pc = "idle"
  /\ sample = None /\ t0 = None /\ t1 = None /\ frame = None

Assemble ==
  /\ pc = "idle"
  /\ \E s \in Sample : sample' = s
  /\ pc' = "baselines"
  /\ t0' = None /\ t1' = None /\ frame' = None

(* A baseline that raises costs the results of all four.                   *)
RunBaselines ==
  /\ pc = "baselines"
  /\ t0' \in {Baseline(sample), BaselineDefaults}
  /\ pc' = "network"
  /\ UNCHANGED <<sample, t1, frame>>

RunNetwork ==
  /\ pc = "network"
  /\ \/ \E n \in Network : t1' = NeuralPayload(n)
     \/ t1' = None
  /\ pc' = "gate"
  /\ UNCHANGED <<sample, t0, frame>>

Gate ==
  /\ pc = "gate"
  /\ frame' = gate_and_assemble(t1, t0, Inputs(sample))
  /\ pc' = "idle"
  /\ UNCHANGED <<sample, t0, t1>>

Next == Assemble \/ RunBaselines \/ RunNetwork \/ Gate

Spec == Init /\ [][Next]_cycleVars

-----------------------------------------------------------------------------

CycleTypeOK ==
  /\ pc \in {"idle", "baselines", "network", "gate"}
  /\ sample \in Sample \cup {None}
  /\ t0 = None \/ (t0.stage \in Stage /\ t0.level \in Level /\ t0.wind \in Nat)
  /\ frame = None \/
       (frame.stage \in Stage /\ frame.level \in Level /\ frame.wind \in Nat
        /\ frame.tier \in {"tier0", "tier1", "mixed"})

Neural(field) == frame # None /\ frame.sources[field] = "tier1"

(* What it takes for a frame to say "not detected" of a storm observed at  *)
(* 17 kt or more: a network on the rounding edge, and an image that was    *)
(* read, or one that the sample only claims (flagged available, or named   *)
(* and not flagged).  So a storm without any trace of an image is never    *)
(* denied, nor is one whose image is flagged missing; but one with a       *)
(* claimed image that nobody could read may be: the claim alone disarms    *)
(* the observed wind.  (run_cycle.py:438-442, tier_gate.py:109-115)        *)
DenialHasACause ==
  frame # None /\ ~frame.detected /\ sample.wind >= IMD_DEPRESSION_WIND_THRESHOLD_KT =>
    /\ Neural("identification") /\ t1.confidence = min_detection_confidence
    /\ sample.flag # "false"
    /\ sample.image = "none" => sample.flag = "true"

(* The network's "no storm" decides a frame only on the rounding edge, a   *)
(* probability in [0.495, 0.5): a surer one has a lower "confidence" and   *)
(* is overruled by the baseline.  (run_cycle.py:548-549, tier_gate.py:109) *)
NonDetectionOnlyOnTheEdge ==
  Neural("identification") /\ ~frame.detected => t1.confidence = min_detection_confidence

(* A diverged head never publishes: a track of NaN variance passes the     *)
(* ceiling and is stopped by its NaN confidence, and a NaN wind becomes    *)
(* 0 kt and is stopped as missing.  (tier_gate.py:161-189)                 *)
DivergedHeadStopped ==
  /\ Neural("prediction") => t1.logVariance # Nan /\ t1.logVariance <= max_track_variance_ceiling
  /\ Neural("intensity") => frame.wind > 0

(* The safety net replaces a frame for one reason only: an accepted path   *)
(* that leaves the globe.  It then discards good fields with it.           *)
(* (tier_gate.py:342-352, 480-540)                                         *)
RescuedOnlyForThePath ==
  frame # None /\ frame.rescued
    => t1 # None /\ t1.path = "off_globe" /\ t1.trackConfidence >= min_track_confidence

(* The level of a frame disagrees with its wind only where the baseline    *)
(* enumeration was re-parsed; the network's fields, the defaults and the   *)
(* safety net are consistent.  (tier_gate.py:411-427, run_cycle.py:565)    *)
LevelWrongOnlyFromBaseline ==
  frame # None /\ frame.level # wind_kt_to_imd_level(frame.wind)
    => ~Neural("intensity") /\ ~frame.rescued /\ t0 = Baseline(sample)

(* The label "tier0" can be trusted: such a frame holds no output of the   *)
(* network, and without image and environment every frame bears it.        *)
(* (tier_gate.py:87-93, 285-296)                                           *)
TierZeroIsPure ==
  frame # None =>
    /\ frame.tier = "tier0" =>
         \A field \in DOMAIN frame.sources : frame.sources[field] # "tier1"
    /\ ~HasImage(sample) /\ ~sample.env => frame.tier = "tier0"

(* The level of a frame is the IMD level of its wind.                      *)
(* (run_cycle.py:380, PRD.md:254; the code breaks it)                      *)
LevelMatchesWind == frame # None => frame.level = wind_kt_to_imd_level(frame.wind)
=============================================================================
