---------------------------- MODULE ZoneSeverity ----------------------------
(***************************************************************************)
(* The severity arithmetic of zones/severity/state.py, without the         *)
(* database: how many unresolved incidents of which priority make which    *)
(* zone status, and how an SOS-driven status and a cyclone risk level are  *)
(* combined.  A status is represented by its rank in the severity_rank     *)
(* dictionary, a priority by its value in prio_map, so that the comparisons*)
(* of the code are comparisons of numbers.                                 *)
(***************************************************************************)
EXTENDS Naturals, FiniteSets

CONSTANTS
  EmergingLimit,  (* 5: from this many incidents on a zone is at least HIGH      *)
  HighLimit,      (* 15: from this many incidents on it is at least CRITICAL     *)
  CriticalLimit   (* 50: from this many incidents on it is EXTREME               *)

ASSUME SeverityAssumption ==
  /\ EmergingLimit \in Nat \ {0}
  /\ HighLimit \in Nat
  /\ CriticalLimit \in Nat
  /\ EmergingLimit <= HighLimit
  /\ HighLimit <= CriticalLimit

(* Ranks of zone statuses and of cyclone risk levels.  The level "LOW" of  *)
(* the risk engine has no rank of its own: severity_rank.get gives it 1.   *)
NORMAL   == 1
EMERGING == 2
HIGH     == 3
CRITICAL == 4
EXTREME  == 5
Status   == NORMAL .. EXTREME

(* Values of the report and incident priorities.                           *)
P_LOW      == 1
P_MEDIUM   == 2
P_HIGH     == 3
P_CRITICAL == 4
Priority   == P_LOW .. P_CRITICAL

Higher(a, b) == IF a >= b THEN a ELSE b

(* The priority level a report of the given score (0..100) stands for.     *)
PriorityLevel(score) ==
  IF score > 80 THEN P_CRITICAL
  ELSE IF score > 50 THEN P_HIGH
  ELSE IF score > 30 THEN P_MEDIUM
  ELSE P_LOW

(* The status that n unresolved incidents with the priorities P justify on *)
(* their own.  The maximum the code takes of the priorities only tells     *)
(* whether a CRITICAL, or at least a HIGH, incident is among them.         *)
SosStatus(n, P) ==
  IF n = 0 THEN NORMAL
  ELSE IF n < EmergingLimit /\ P \cap {P_HIGH, P_CRITICAL} = {} THEN EMERGING
  ELSE IF n < HighLimit /\ P_CRITICAL \notin P THEN HIGH
  ELSE IF n < CriticalLimit THEN CRITICAL
  ELSE EXTREME

(* elevate_zone_for_cyclone only ever raises the status it is given.       *)
ElevatedStatus(status, risk) == Higher(status, risk)
=============================================================================
