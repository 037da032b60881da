------------------------- MODULE MCCyclonePipeline --------------------------
(* Instances of CyclonePipeline for TLC.                                   *)
EXTENDS CyclonePipeline, TLC

CONSTANTS c1, c2, c3, z1, z2, fA1, fA2, fA3, fB1, fB2, cycA, cycB

(* Two seeded zones, one on the coast and one inland.  The frames of       *)
(* cyclone A escalate, and weaken until they warn nobody; the first of B   *)
(* warns the coast, the second has no path.                                *)
MCSeedPlace == (z1 :> "coast") @@ (z2 :> "inland")
MCDist == [pq \in Place \X Place |-> IF pq[1] = pq[2] THEN 0 ELSE 50000]
MCCycloneOf == [f \in Frame |-> IF f \in {fB1, fB2} THEN cycB ELSE cycA]
MCTimeOf == [f \in Frame |-> CASE f = fA1 -> 1 [] f = fA2 -> 2 [] f = fA3 -> 3 [] f = fB1 -> 1 [] f = fB2 -> 2]
MCRiskAt ==
  [f \in Frame |-> CASE f = fA1 -> [p \in Place |-> IF p = "coast" THEN HIGH ELSE NORMAL]
                     [] f = fA2 -> [p \in Place |-> IF p = "coast" THEN EXTREME ELSE HIGH]
                     [] f = fA3 -> [p \in Place |-> IF p = "coast" THEN EMERGING ELSE NORMAL]
                     [] f = fB1 -> [p \in Place |-> IF p = "coast" THEN CRITICAL ELSE NORMAL]
                     [] f = fB2 -> [p \in Place |-> NORMAL]]
MCSymmetry == Permutations(CycTask)
=============================================================================
