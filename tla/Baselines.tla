----------------------------- MODULE Baselines ------------------------------
(***************************************************************************)
(* The deterministic Tier-0 engine of the cyclone brain: presence, stage   *)
(* and intensity of a storm from its observed wind, without any network.   *)
(* Winds are whole knots and confidences are hundredths.  NaN is -1: every *)
(* >= and > against a threshold is false of it, as it is of a float NaN.   *)
(***************************************************************************)
EXTENDS Integers, Sequences, FiniteSets

CONSTANTS
  Wind,     (* the observed winds                                            *)
  Logistic  (* Logistic[w]: 1 / (1 + exp(-0.16 (w - 17))) in hundredths      *)

Nan == -1
IMD_DEPRESSION_WIND_THRESHOLD_KT == 17

ASSUME BaselinesAssumption ==
  /\ Wind \subseteq Nat
  /\ 0 \in Wind
  /\ Logistic \in [Wind -> 0 .. 100]

Stage == {"NO_SIGNIFICANT_SYSTEM", "DEVELOPING_DISTURBANCE", "TROPICAL_DEPRESSION",
          "MATURE_TROPICAL_CYCLONE", "WEAKENING_SYSTEM", "POST_TROPICAL_REMNANT"}

(* IMD levels in their order: 1 is DEPRESSION, 3 CYCLONIC_STORM and 7      *)
(* SUPER_CYCLONIC_STORM.                                                   *)
Level == 1 .. 7
Depression == 1
CyclonicStorm == 3

Clip(x, low, high) == IF x < low THEN low ELSE IF x > high THEN high ELSE x
Known(x, default) == IF x = Nan THEN default ELSE x

(* The number of thresholds a wind has reached.                            *)
Reached(w, thresholds) == Cardinality({t \in thresholds : w >= t})

wind_kt_to_imd_level(w) == 1 + Reached(w, {28, 34, 48, 64, 90, 120})

(* Categories in their order: 0 is a tropical depression, 1 a tropical     *)
(* storm, 2 to 6 are the categories 1 to 5.                                *)
wind_kt_to_saffir_simpson(w) == Reached(w, {34, 64, 83, 96, 113, 137})

(* history: the winds of the storm's last points, the current one last.    *)
(* A storm has weakened when some earlier wind was a gale and 15 kt above  *)
(* the current one; the trend is against the last point but one.           *)
lifecycle_stage(w, nature, history) ==
  LET rising   == Len(history) >= 2 /\ w > history[Len(history) - 1]
      weakened == \E i \in DOMAIN history : history[i] >= 34 /\ history[i] - w >= 15
  IN CASE nature = "ET" -> "POST_TROPICAL_REMNANT"
       [] nature # "ET" /\ weakened ->
            IF w < 28 /\ nature = "DS" THEN "POST_TROPICAL_REMNANT" ELSE "WEAKENING_SYSTEM"
       [] nature # "ET" /\ ~weakened /\ w >= 34 -> "MATURE_TROPICAL_CYCLONE"
       [] nature # "ET" /\ ~weakened /\ w \in 17 .. 33 ->
            IF w < 28 /\ rising THEN "DEVELOPING_DISTURBANCE" ELSE "TROPICAL_DEPRESSION"
       [] OTHER ->
            IF rising THEN "DEVELOPING_DISTURBANCE" ELSE "NO_SIGNIFICANT_SYSTEM"

(* s.bonus: what a persistent track and a pressure deficit add.            *)
identify(s) ==
  LET wind       == Known(s.wind, 0)
      confidence == Clip(Logistic[wind] + s.bonus, 5, 98)
      detected   == wind >= IMD_DEPRESSION_WIND_THRESHOLD_KT \/ confidence >= 50
  IN [detected |-> detected,
      confidence |-> IF ~detected /\ confidence > 49 THEN 45 ELSE confidence]

(* The stage and the level of the baselines are members of (str, Enum)     *)
(* classes, not strings; the two confidences depend on the distance of the *)
(* wind to a class boundary and are left out: nothing reads them.          *)
classify(s) == lifecycle_stage(Known(s.wind, 0), s.nature, s.history)

intensity(s) ==
  LET wind == Clip(Known(s.wind, 25), 0, 200)
  IN [wind |-> wind, level |-> wind_kt_to_imd_level(wind)]
=============================================================================
