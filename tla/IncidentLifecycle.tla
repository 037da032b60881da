------------------------- MODULE IncidentLifecycle --------------------------
(***************************************************************************)
(* The operators' side of an incident: dispatch_unit_to_incident (the      *)
(* dispatch button) and resolve_incident.  Both select the row FOR UPDATE, *)
(* check its status and commit the new one with the audit record; the row  *)
(* stays locked between the check and the commit.                          *)
(***************************************************************************)
EXTENDS RescueStore

CONSTANT Op  (* calls of the two functions                                 *)

ASSUME LifecycleAssumption == Op \subseteq Session

VARIABLES
  opc,         (* where each call is, or how it was answered                     *)
  target,      (* the incident each call is about                                *)
  dispatches,  (* the table dispatches: the calls that created a row             *)
  audit        (* the table audit_events: <<action, incident, call>>             *)

lifecycleVars == <<opc, target, dispatches, audit>>

OpStep == {"dispatch", "resolve", "dispatching", "resolving", "notify"}
OpAnswer == {"not_found", "conflict", "ok", "aborted"}

LifecycleInit ==
  /\ opc = [o \in Op |-> "idle"]
  /\ target = [o \in Op |-> None]
  /\ dispatches = {}
  /\ audit = {}

Request(o, i) ==
  /\ opc[o] = "idle"
  /\ \E call \in {"dispatch", "resolve"} : opc' = [opc EXCEPT ![o] = call]
  /\ target' = [target EXCEPT ![o] = i]
  /\ UNCHANGED <<storeVars, dispatches, audit>>

Anytime(i) == TRUE  (* mutant: a resolved incident is resolved again           *)

(* The statuses each call accepts: only a NEW incident can be dispatched.  *)
Dispatchable(i) == incidents[i].status = "NEW"
Resolvable(i) == incidents[i].status # "RESOLVED"

Check(o, call, accepts, next) ==
  LET i == target[o] IN
  /\ opc[o] = call
  /\ Free(o, {IncidentRow(i)})
  /\ \/ /\ incidents[i] = None
        /\ opc' = [opc EXCEPT ![o] = "not_found"]
        /\ UNCHANGED locks
     \/ /\ incidents[i] # None /\ ~accepts
        /\ opc' = [opc EXCEPT ![o] = "conflict"]
        /\ UNCHANGED locks
     \/ /\ incidents[i] # None /\ accepts
        /\ opc' = [opc EXCEPT ![o] = next]
        /\ Acquire(o, {IncidentRow(i)})
  /\ UNCHANGED <<incidents, zones, risks, target, dispatches, audit>>

CheckDispatch(o) == Check(o, "dispatch", Dispatchable(target[o]), "dispatching")
CheckResolve(o) == Check(o, "resolve", Resolvable(target[o]), "resolving")

CommitDispatch(o) ==
  /\ opc[o] = "dispatching"
  /\ opc' = [opc EXCEPT ![o] = "notify"]
  /\ incidents' = [incidents EXCEPT ![target[o]].status = "DISPATCHED"]
  /\ dispatches' = dispatches \cup {o}
  /\ audit' = audit \cup {<<"DISPATCH_CREATED", target[o], o>>}
  /\ ReleaseAll(o)
  /\ UNCHANGED <<zones, risks, target>>

(* The zone of the incident is not recalculated.                           *)
CommitResolve(o) ==
  /\ opc[o] = "resolving"
  /\ opc' = [opc EXCEPT ![o] = "notify"]
  /\ incidents' = [incidents EXCEPT ![target[o]].status = "RESOLVED"]
  /\ audit' = audit \cup {<<"INCIDENT_RESOLVED", target[o], o>>}
  /\ ReleaseAll(o)
  /\ UNCHANGED <<zones, risks, target, dispatches>>

(* The broadcast of the change, and the answer.                            *)
Answered(o) ==
  /\ opc[o] = "notify"
  /\ opc' = [opc EXCEPT ![o] = "ok"]
  /\ UNCHANGED <<storeVars, target, dispatches, audit>>

AbortOp(o) ==
  /\ opc[o] \in OpStep
  /\ opc' = [opc EXCEPT ![o] = "aborted"]
  /\ ReleaseAll(o)
  /\ UNCHANGED <<incidents, zones, risks, target, dispatches, audit>>

Serve(o) ==
  CheckDispatch(o) \/ CheckResolve(o) \/ CommitDispatch(o) \/ CommitResolve(o) \/ Answered(o)

LifecycleNext ==
  \E o \in Op : (\E i \in IncidentId : Request(o, i)) \/ Serve(o) \/ AbortOp(o)
-----------------------------------------------------------------------------

(* The status and the audit trail agree, however many operators press the  *)
(* buttons: an incident is past NEW exactly when a committed call says so, *)
(* it is dispatched and resolved at most once, and what is dispatched is   *)
(* on record.                                                              *)
AuditExplainsStatus ==
  \A i \in IncidentId : incidents[i] # None =>
    LET calls(action) == {o \in Op : <<action, i, o>> \in audit} IN
    /\ incidents[i].status = "NEW" <=> calls("DISPATCH_CREATED") \cup calls("INCIDENT_RESOLVED") = {}
    /\ incidents[i].status = "RESOLVED" <=> calls("INCIDENT_RESOLVED") # {}
    /\ \A action \in {"DISPATCH_CREATED", "INCIDENT_RESOLVED"} : Cardinality(calls(action)) <= 1
    /\ calls("DISPATCH_CREATED") = {o \in dispatches : target[o] = i}
=============================================================================
