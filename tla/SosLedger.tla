------------------------------ MODULE SosLedger ------------------------------
(***************************************************************************)
(* What SOS ingestion promises, without tasks, sessions or zones: a packet *)
(* is stored at most once, counted at most once and in one incident, and   *)
(* linked to the incident that counted it.  For any finite set of packets  *)
(* its tallies are exact and its links lead to the incident that counted.  *)
(***************************************************************************)
EXTENDS Naturals, FiniteSets

CONSTANTS Msg, IncidentId, None

VARIABLES
  stored,   (* the packets that have a report                                    *)
  counted,  (* counted[m]: the incident whose tally includes m                   *)
  linked,   (* linked[m]: the incident the report of m names                     *)
  tally     (* tally[i]: the report_count of incident i                          *)

ledger == <<stored, counted, linked, tally>>

Init ==
  /\ stored = {}
  /\ counted = [m \in Msg |-> None]
  /\ linked = [m \in Msg |-> None]
  /\ tally = [i \in IncidentId |-> 0]

Store(m) ==
  /\ m \notin stored
  /\ stored' = stored \cup {m}
  /\ UNCHANGED <<counted, linked, tally>>

Count(m, i) ==
  /\ m \in stored
  /\ counted[m] = None
  /\ counted' = [counted EXCEPT ![m] = i]
  /\ tally' = [tally EXCEPT ![i] = @ + 1]
  /\ UNCHANGED <<stored, linked>>

Link(m) ==
  /\ counted[m] # None
  /\ linked[m] = None
  /\ linked' = [linked EXCEPT ![m] = counted[m]]
  /\ UNCHANGED <<stored, counted, tally>>

Next == \E m \in Msg : Store(m) \/ Link(m) \/ \E i \in IncidentId : Count(m, i)

Spec == Init /\ [][Next]_ledger

(* The tally of an incident is the number of packets counted in it.        *)
TallyExact == \A i \in IncidentId : tally[i] = Cardinality({m \in Msg : counted[m] = i})

(* A report names no incident but the one that counted it.                 *)
LinkedWhereCounted == \A m \in Msg : linked[m] # None => linked[m] = counted[m]
=============================================================================
