---------------------------- MODULE BackendSystem ---------------------------
(***************************************************************************)
(* The handlers that share the incident and zone tables, together: SOS     *)
(* deliveries, cyclone frames and the operators' calls, interleaved at     *)
(* every statement and meeting on the rows they lock.                      *)
(***************************************************************************)
EXTENDS SosIngestion, CyclonePipeline, IncidentLifecycle

(* Every call of a handler has a database session of its own.              *)
ASSUME SystemAssumption ==
  Task \cap CycTask = {} /\ Task \cap Op = {} /\ CycTask \cap Op = {}

vars == <<storeVars, ingestVars, cycloneVars, lifecycleVars>>

Init == StoreInit /\ IngestInit /\ CycloneInit /\ LifecycleInit

IngestStep == IngestNext /\ UNCHANGED <<cycloneVars, lifecycleVars>>
CycloneStep == CycloneNext /\ UNCHANGED <<ingestVars, lifecycleVars>>
LifecycleStep == LifecycleNext /\ UNCHANGED <<ingestVars, cycloneVars>>

Next == IngestStep \/ CycloneStep \/ LifecycleStep
Spec == Init /\ [][Next]_vars

Runs(p) == p \in Session /\
  \/ p \in Task /\ Process(p) /\ UNCHANGED <<cycloneVars, lifecycleVars>>
  \/ p \in CycTask /\ Work(p) /\ UNCHANGED <<ingestVars, lifecycleVars>>
  \/ p \in Op /\ Serve(p) /\ UNCHANGED <<ingestVars, cycloneVars>>

(* The event loop runs every ready handler again, score() gives up after   *)
(* twenty seconds, and a statement proceeds when its rows are unlocked.    *)
FairSpec == Spec /\ \A p \in Session : WF_vars(Runs(p))
-----------------------------------------------------------------------------
(* No report is counted in an incident that is already resolved: the row   *)
(* that correlate_incident chose cannot be resolved before it commits.     *)
ReportsJoinOpenIncidents ==
  [][\A i \in IncidentId :
       (incidents[i] # None /\ incidents[i].status = "RESOLVED") =>
         incidents'[i].count = incidents[i].count]_vars

(* No handler waits for ever: the row locks are taken in an order without  *)
(* a cycle, incidents before zones.                                        *)
EverySessionEnds ==
  /\ \A t \in Task : (pc[t] \in Step) ~> (pc[t] \in Answer)
  /\ \A c \in CycTask : (cpc[c] \in CycStep) ~> (cpc[c] \in CycEnd)
  /\ \A o \in Op : (opc[o] \in OpStep) ~> (opc[o] \in OpAnswer)

-----------------------------------------------------------------------------
(* state.py and processor.py: the no-downgrade invariant.  A zone is never *)
(* downgraded by a lower cyclone score; the run refutes it.                *)
NoDowngrade ==
  [][\A z \in ZoneId : (CycloneStep /\ zones[z] # None) => zones'[z].status >= zones[z].status]_vars
=============================================================================
