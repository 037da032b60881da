---------------------------- MODULE MCCycloneLab ----------------------------
(* Instances of CycloneLab for TLC.                                        *)
EXTENDS CycloneLab, TLC

CONSTANTS w1, w2, producer
Symmetry == Permutations(Worker)

(* Once it has the frames the producer shares nothing with the service:    *)
(* the two are interleaved only while the producer loads.                  *)
ServiceRestsWhilePosting ==
  runs > 0 /\ sending.pc # "load" =>
    \A w \in Worker : request[w] = Idle /\ load[w] = "idle"

(* Files of up to three rows in any order, doubled, without a position or  *)
(* a wind, on and off the grid; of four, all placed; and of eleven, twenty *)
(* half hours apart, in reverse, the eighth without a position, of which    *)
(* any of the eight at the ends and in the middle may lack their winds.    *)
Rows == [at : {5, 12, 15, 24, 31}, placed : BOOLEAN, measured : BOOLEAN]
Files ==
  UNION {[1 .. n -> Rows] : n \in 1 .. 3}
  \union [1 .. 4 -> {row \in Rows : row.placed}]
  \union {[i \in 1 .. 11 |-> [at |-> 20 * (11 - i), placed |-> i # 8,
                              measured |-> i \notin unknown]] :
            unknown \in SUBSET {1, 2, 3, 5, 6, 7, 10, 11}}

(* Up to four storms, before, during and after the background; five to     *)
(* fifteen, enough for every way the shares are rounded.                   *)
Storms ==
  UNION {[1 .. n -> [start : {1, 2, 40}, demo : BOOLEAN]] : n \in 1 .. 4}
  \union {[i \in 1 .. n |-> [start |-> (7 * i) % 11, demo |-> FALSE]] : n \in 5 .. 15}
=============================================================================
