--------------------------- MODULE MCBackendSystem --------------------------
(* Instances of BackendSystem for TLC.                                     *)
EXTENDS BackendSystem, TLC

CONSTANTS t1, t2, c1, c2, o1, o2, m1, m2, k1, z1, f1, f2, cyc

(* One seeded zone; two packets about the same emergency, the second one   *)
(* graver; two frames of one cyclone.                                      *)
MCSeedPlace == z1 :> "coast"
NoSeed == [z \in {} |-> "coast"]
MCDist == [pq \in Place \X Place |-> 0]
MCKeyOf == [m \in Msg |-> k1]
MCPlaceOf == [m \in Msg |-> "coast"]
MCVerdicts == [m \in Msg |-> {<<"fire", IF m = m1 THEN 40 ELSE 90>>}]
MCCycloneOf == [f \in Frame |-> cyc]
MCTimeOf == [f \in Frame |-> IF f = f1 THEN 1 ELSE 2]
MCRiskAt == [f \in Frame |-> [p \in Place |-> IF f = f1 THEN HIGH ELSE EXTREME]]
=============================================================================
