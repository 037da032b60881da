--------------------------- MODULE MCSosIngestion ---------------------------
(* Instances of SosIngestion for TLC.                                      *)
EXTENDS SosIngestion, TLC

CONSTANTS t1, t2, t3, m1, m2, m3, m4, k1, zone

MCKeyOf == [m \in Msg |-> k1]
MCSymmetry == Permutations(Task)

(* The places are a kilometre apart: too far for one incident, near enough *)
(* for one zone.                                                           *)
MCDist == [pq \in Place \X Place |-> IF pq[1] = pq[2] THEN 0 ELSE 1000]

NoSeed == [z \in {} |-> "square"]

(* A town with a zone of its own: m1, m2 and m3 come from the square, of   *)
(* growing gravity, and m2 may be taken for a flood; m4 comes from the     *)
(* school.                                                                 *)
TownPlaceOf == [m \in Msg |-> IF m = m4 THEN "school" ELSE "square"]
TownVerdicts ==
  [m \in Msg |-> CASE m = m1 -> {<<"fire", 20>>}
                   [] m = m2 -> {<<"fire", 60>>, <<"flood", 90>>}
                   [] m = m3 -> {<<"fire", 90>>}
                   [] m = m4 -> {<<"fire", 40>>}]
TownSeed == zone :> "square"
=============================================================================
