---------------------------- MODULE DatasetSplit ----------------------------
(***************************************************************************)
(* Which storms a program of the laboratory trains on, validates, tests    *)
(* and evaluates with.  Splits are made of whole storms, in the order of   *)
(* their starts, anew by each program from the samples it has loaded.      *)
(***************************************************************************)
EXTENDS Integers, Sequences, FiniteSets

CONSTANTS
  StormSets,  (* the storms a program may load: sequences of [start, demo]    *)
  Background, (* the storms without a cyclone the detection adds, at least 20 *)
  NewYear     (* the day the first of them starts                             *)

ASSUME SplitAssumption ==
  /\ StormSets \subseteq Seq([start : Int, demo : BOOLEAN])
  /\ Background \in Nat /\ NewYear \in Int

Program == {"detection", "training", "evaluation"}

VARIABLES
  program,  (* which program it is                                           *)
  storms,   (* the storms of its samples, in order of their first sample     *)
  phase,    (* what it has done                                              *)
  splits,   (* the storms of each split                                      *)
  evaluated (* the storms its test metrics come from                         *)

splitVars == <<program, storms, phase, splits, evaluated>>

NoSplit == [train |-> {}, val |-> {}, test |-> {}, demo |-> {}]

SplitInit == /\ program \in Program /\ storms \in StormSets /\ phase = "loaded"
             /\ splits = NoSplit /\ evaluated = {}

(* One sample each, over the days of a January, again after the 28th.      *)
generate_negative_samples ==
  [i \in 1 .. Background |-> [start |-> NewYear + ((i - 1) % 28), demo |-> FALSE]]

AddBackground ==
  /\ phase = "loaded" /\ program = "detection"
  /\ storms' = storms \o generate_negative_samples
  /\ phase' = "ready" /\ UNCHANGED <<program, splits, evaluated>>

(* A percentage of n, rounded, halves to the even number.                  *)
Share(n, percent) ==
  LET whole == (n * percent) \div 100
      rest == (n * percent) % 100
  IN IF rest > 50 \/ (rest = 50 /\ whole % 2 = 1) THEN whole + 1 ELSE whole
AtLeastOne(n) == IF n < 1 THEN 1 ELSE n

Counts(train, val, n) == [train |-> train, val |-> val, n |-> n]

(* Mutant: room is made only when the shares exceed the storms.            *)
TightPartition(n) ==
  CASE n = 0 -> Counts(0, 0, 0)
    [] n = 1 -> Counts(1, 0, 1)
    [] n = 2 -> Counts(1, 0, 2)
    [] OTHER -> LET train == AtLeastOne(Share(n, 70)) val == AtLeastOne(Share(n, 15))
                IN IF train + val > n THEN Counts(n - 2, 1, n) ELSE Counts(train, val, n)

(* How many of n storms are for training and for validation: the rest is   *)
(* for the test, and some is left where there are two or more.             *)
Partition(n) ==
  CASE n = 0 -> Counts(0, 0, 0)
    [] n = 1 -> Counts(1, 0, 1)
    [] n = 2 -> Counts(1, 0, 2)
    [] OTHER -> LET train == AtLeastOne(Share(n, 70)) val == AtLeastOne(Share(n, 15))
                IN IF train + val >= n THEN Counts(n - 2, 1, n) ELSE Counts(train, val, n)

Demo == {i \in DOMAIN storms : storms[i].demo}
Regular == DOMAIN storms \ Demo

(* The place of a storm by its start, the order of the samples within it.  *)
Rank(i) == Cardinality({j \in Regular : \/ storms[j].start < storms[i].start
                                        \/ storms[j].start = storms[i].start /\ j < i})

make_splits ==
  /\ phase = IF program = "detection" THEN "ready" ELSE "loaded"
  /\ LET part == Partition(Cardinality(Regular))
     IN splits' = [train |-> {i \in Regular : Rank(i) < part.train},
                   val |-> {i \in Regular : Rank(i) \in part.train .. part.train + part.val - 1},
                   test |-> {i \in Regular : Rank(i) >= part.train + part.val},
                   demo |-> Demo]
  /\ phase' = "split" /\ UNCHANGED <<program, storms, evaluated>>

(* A training tests on its test split; the evaluation, where that is       *)
(* empty, on everything.                                                   *)
ReportMetrics ==
  /\ phase = "split"
  /\ evaluated' = IF program = "evaluation" /\ splits.test = {} THEN DOMAIN storms
                  ELSE splits.test
  /\ phase' = "done" /\ UNCHANGED <<program, storms, splits>>

SplitNext == AddBackground \/ make_splits \/ ReportMetrics

-----------------------------------------------------------------------------
(* No storm of the demonstration is trained on; with three regular storms  *)
(* or more every split has one, and none starts before one of an earlier   *)
(* split; what is reported of a program rests on a storm it was trained on *)
(* only in the evaluation, and there only with less than two such storms.  *)
HeldOutIsHeldOut ==
  phase = "done" =>
    /\ Demo \cap (splits.train \union splits.val \union splits.test) = {}
    /\ Cardinality(Regular) > 2 => {} \notin {splits.train, splits.val, splits.test}
    /\ \A i \in splits.train, j \in splits.val \union splits.test :
         storms[i].start <= storms[j].start
    /\ \A i \in splits.val, j \in splits.test : storms[i].start <= storms[j].start
    /\ evaluated \cap splits.train # {} =>
         program = "evaluation" /\ Cardinality(Regular) < 2
=============================================================================
