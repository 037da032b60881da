------------------------ MODULE BackendSystem_proofs -------------------------
(***************************************************************************)
(* Proofs about the handlers of the backend together, for any number of    *)
(* deliveries, cyclone tasks and operators' calls: what each component     *)
(* keeps by itself it keeps beside the others, and the audit trail         *)
(* explains the status of every incident.                                  *)
(***************************************************************************)
EXTENDS BackendSystem, SosIngestion_proofs, CyclonePipeline_proofs, FiniteSetTheorems

Action == {"DISPATCH_CREATED", "INCIDENT_RESOLVED"}

LifecycleTypeOK ==
  /\ opc \in [Op -> {"idle"} \cup OpStep \cup OpAnswer]
  /\ target \in [Op -> IncidentId \cup {None}]
  /\ dispatches \in SUBSET Op
  /\ audit \in SUBSET (Action \X IncidentId \X Op)

(* What a call relies on between its check and its commit.                 *)
CheckHolds(o) == opc[o] \in {"dispatching", "resolving"} =>
  /\ incidents[target[o]] # None
  /\ IncidentRow(target[o]) \in locks[o]
  /\ opc[o] = "dispatching" => incidents[target[o]].status = "NEW"
  /\ opc[o] = "resolving" => incidents[target[o]].status # "RESOLVED"

HasTarget(o) == opc[o] # "idle" => target[o] \in IncidentId

(* Only a call that committed is on record, and about an incident that is. *)
Past(o) == opc[o] \in {"notify", "ok", "aborted"}
OnRecord ==
  /\ \A o \in dispatches : Past(o) /\ <<"DISPATCH_CREATED", target[o], o>> \in audit
  /\ \A a \in Action, i \in IncidentId, o \in Op : <<a, i, o>> \in audit =>
       /\ Past(o) /\ target[o] = i /\ incidents[i] # None
       /\ a = "DISPATCH_CREATED" => o \in dispatches

Recorded(a, i) == \E o \in Op : <<a, i, o>> \in audit

(* The record of one incident.                                             *)
StatusOnRecord(i) == incidents[i] # None =>
  /\ incidents[i].status = "NEW" <=> \A a \in Action : ~Recorded(a, i)
  /\ incidents[i].status = "RESOLVED" <=> Recorded("INCIDENT_RESOLVED", i)
OncePerIncident ==
  \A a \in Action, i \in IncidentId, o, u \in Op : <<a, i, o>> \in audit /\ <<a, i, u>> \in audit => o = u

LifecycleInv ==
  /\ LifecycleTypeOK
  /\ \A o \in Op : CheckHolds(o) /\ HasTarget(o)
  /\ OnRecord
  /\ \A i \in IncidentId : StatusOnRecord(i)
  /\ OncePerIncident

(* The incident a delivery joins stays open until it commits.              *)
JoinsOpen(t) == (pc[t] \in Decided /\ tx[t].joins) => incidents[tx[t].incident].status # "RESOLVED"

(* A zone that a delivery is to create is its own, and not there yet.      *)
ZoneToCreate(t) ==
  /\ pc[t] \in Undecided \cup Decided => zones[t] = None
  /\ (pc[t] \in Decided \ {"zone"} /\ ~tx[t].found) => tx[t].zone = t

SystemInv ==
  /\ IngestInv
  /\ CycloneInv /\ Recency
  /\ LifecycleInv
  /\ \A t \in Task : JoinsOpen(t) /\ ZoneToCreate(t)
-----------------------------------------------------------------------------
LEMMA SystemStarts == Init => SystemInv
<1> SUFFICES ASSUME Init PROVE SystemInv
  OBVIOUS
<1>1. IngestInv /\ CycloneInv /\ Recency
  BY InvInit, CycInvInit, RecencyInit DEF Init
<1>2. LifecycleInv
  BY DEF Init, LifecycleInit, StoreInit, LifecycleInv, LifecycleTypeOK, CheckHolds, HasTarget, OnRecord,
         StatusOnRecord, OncePerIncident, OpStep, OpAnswer
<1>3. ASSUME NEW t \in Task PROVE JoinsOpen(t) /\ ZoneToCreate(t)
  BY IngestionAssumption DEF Init, StoreInit, IngestInit, JoinsOpen, ZoneToCreate, Decided
<1> QED BY <1>1, <1>2, <1>3 DEF SystemInv
-----------------------------------------------------------------------------
(* The operators beside the others.                                        *)

(* Existing incidents keep their status, and new ones are NEW.             *)
StatusKept ==
  \A i \in IncidentId :
    IF incidents[i] = None THEN incidents'[i] = None \/ incidents'[i].status = "NEW"
    ELSE incidents'[i] # None /\ incidents'[i].status = incidents[i].status

LEMMA OperatorsUndisturbed ==
  ASSUME LifecycleInv, StatusKept, UNCHANGED lifecycleVars, \A o \in Op : locks'[o] = locks[o]
  PROVE  LifecycleInv'
<1>1. UNCHANGED <<opc, target, dispatches, audit>>
  BY DEF lifecycleVars
<1>2. LifecycleTypeOK' /\ OncePerIncident'
  BY <1>1 DEF LifecycleInv, LifecycleTypeOK, OncePerIncident
<1>3. ASSUME NEW o \in Op PROVE (CheckHolds(o) /\ HasTarget(o))'
  <2>1. CheckHolds(o) /\ HasTarget(o) /\ opc'[o] = opc[o] /\ target'[o] = target[o]
    BY <1>1 DEF LifecycleInv
  <2> QED BY <2>1 DEF CheckHolds, HasTarget, StatusKept
<1>4. OnRecord'
  BY <1>1 DEF LifecycleInv, OnRecord, Past, StatusKept
<1>5. ASSUME NEW i \in IncidentId PROVE StatusOnRecord(i)'
  <2>1. StatusOnRecord(i)
    BY DEF LifecycleInv
  <2>2. \A a \in Action : Recorded(a, i)' <=> Recorded(a, i)
    BY <1>1 DEF Recorded
  <2>3. CASE incidents[i] # None
    BY <2>1, <2>2, <2>3 DEF StatusKept, StatusOnRecord, Action
  <2>4. CASE incidents[i] = None
    <3>1. \A a \in Action : ~Recorded(a, i)
      BY <2>4 DEF LifecycleInv, OnRecord, Recorded
    <3> QED BY <2>2, <2>4, <3>1 DEF StatusKept, StatusOnRecord, Action
  <2> QED BY <2>3, <2>4
<1> QED BY <1>2, <1>3, <1>4, <1>5 DEF LifecycleInv

(* The rows a delivery or a task locks are its own.                        *)
LEMMA IngestLocks ==
  ASSUME IngestInv, IngestNext, NEW s \in Session \ Task PROVE locks'[s] = locks[s]
<1>1. locks \in [Session -> SUBSET Row]
  BY DEF IngestInv, IngestTypeOK, StoreTypeOK
<1>2. ASSUME NEW t \in Task, Process(t) PROVE locks'[s] = locks[s]
  BY <1>1, <1>2 DEF Process, Deduplicate, Verify, Score, InsertReport, SelectIncidents, Correlate,
       FindZone, FlushZone, CountIncidents, RaiseToRisk, CommitCorrelation, LinkReport, Notify,
       storeVars, Acquire, ReleaseAll
<1>3. ASSUME NEW t \in Task, (\E m \in Msg : Deliver(t, m)) \/ Abort(t) PROVE locks'[s] = locks[s]
  BY <1>1, <1>3 DEF Deliver, Abort, storeVars, ReleaseAll
<1> QED BY <1>2, <1>3 DEF IngestNext, RegisterKey, LeaveWindow, storeVars

LEMMA CycloneLocks ==
  ASSUME CycloneInv, CycloneNext, NEW s \in Session \ CycTask PROVE locks'[s] = locks[s]
<1>1. locks \in [Session -> SUBSET Row]
  BY DEF CycloneInv, CycloneTypeOK, StoreTypeOK
<1>2. ASSUME NEW c \in CycTask, Work(c) PROVE locks'[s] = locks[s]
  <2>1. CASE SaveFrame(c) \/ EvaluateRisk(c) \/ DecideAlert(c)
    BY <1>1, <2>1 DEF SaveFrame, EvaluateRisk, DecideAlert, storeVars, Acquire, ReleaseAll
  <2>2. CASE FlushElevated(c) \/ CommitFrame(c) \/ Broadcast(c)
    BY <1>1, <2>2 DEF FlushElevated, CommitFrame, Broadcast, storeVars, Acquire, ReleaseAll
  <2> QED BY <1>2, <2>1, <2>2 DEF Work
<1>3. ASSUME NEW c \in CycTask, (\E f \in Frame : Post(c, f)) \/ AbortFrame(c)
      PROVE  locks'[s] = locks[s]
  BY <1>1, <1>3 DEF Post, AbortFrame, storeVars, ReleaseAll
<1> QED BY <1>2, <1>3 DEF CycloneNext

LEMMA LifecycleLocks ==
  ASSUME LifecycleNext, locks \in [Session -> SUBSET Row], NEW s \in Session \ Op
  PROVE  locks'[s] = locks[s]
BY DEF LifecycleNext, Request, Serve, CheckDispatch, CheckResolve, Check, CommitDispatch, CommitResolve,
       Answered, AbortOp, storeVars, Acquire, ReleaseAll
-----------------------------------------------------------------------------
(* A step of a delivery.                                                   *)

(* The tables change in three steps only.                                  *)
LEMMA IngestTables ==
  ASSUME IngestNext
  PROVE  \/ UNCHANGED <<incidents, zones>>
         \/ \E i \in IncidentId : LeaveWindow(i)
         \/ \E t \in Task : CommitCorrelation(t)
BY DEF IngestNext, Process, RegisterKey, Deliver, Deduplicate, Verify, Score, InsertReport,
       SelectIncidents, Correlate, FindZone, FlushZone, CountIncidents, RaiseToRisk, LinkReport,
       Notify, Abort, storeVars

(* What the commit of a delivery does to its incident and its zone.        *)
LEMMA CommitTables ==
  ASSUME SystemInv, NEW t \in Task, CommitCorrelation(t)
  PROVE  /\ StatusKept /\ ZonesKept
         /\ \A i \in IncidentId : (incidents[i] # None /\ incidents[i].status = "RESOLVED")
              => incidents'[i] = incidents[i]
         /\ \A z \in ZoneId \ {t} : zones[z] = None => zones'[z] = None
<1> DEFINE i == tx[t].incident
           z == tx[t].zone
<1>1. /\ pc[t] = "commit" /\ TaskInv(t) /\ JoinsOpen(t) /\ ZoneToCreate(t) /\ tx[t] \in Tx
      /\ incidents \in [IncidentId -> Incident \cup {None}] /\ zones \in [ZoneId -> Zone \cup {None}]
      /\ incidents' = [incidents EXCEPT ![i] = IncidentAfter(t)]
      /\ zones' = [zones EXCEPT ![z] = ZoneAfter(t)]
  BY DEF CommitCorrelation, Goto, SystemInv, IngestInv, IngestTypeOK, StoreTypeOK
<1>2. /\ i \in IncidentId /\ z \in ZoneId
      /\ IncidentAfter(t) \in Incident /\ IncidentAfter(t) # None
      /\ ZoneAfter(t) \in Zone /\ ZoneAfter(t) # None
  BY <1>1, CommitCorrelationTypes, StoreAssumption DEF SystemInv, Tx
<1>3. IF incidents[i] = None THEN IncidentAfter(t).status = "NEW"
      ELSE IncidentAfter(t).status = incidents[i].status /\ incidents[i].status # "RESOLVED"
  <2>1. CASE tx[t].joins
    <3>1. incidents[i] # None /\ incidents[i].status # "RESOLVED" /\ incidents[i] \in Incident
      BY <1>1, <1>2, <2>1 DEF TaskInv, JoinsLocked, JoinsOpen, Decided
    <3>2. IncidentAfter(t).status = incidents[i].status
      BY <2>1, <3>1 DEF IncidentAfter, Incident
    <3> QED BY <3>1, <3>2
  <2>2. CASE ~tx[t].joins
    <3>1. incidents[i] = None
      BY <1>1, <2>2 DEF TaskInv, NoIncidentYet, CreatesOwn, Decided
    <3>2. IncidentAfter(t).status = "NEW"
      BY <2>2 DEF IncidentAfter
    <3> QED BY <3>1, <3>2
  <2> QED BY <2>1, <2>2
<1>4. StatusKept
  <2> SUFFICES ASSUME NEW j \in IncidentId
               PROVE  IF incidents[j] = None THEN incidents'[j] = None \/ incidents'[j].status = "NEW"
                      ELSE incidents'[j] # None /\ incidents'[j].status = incidents[j].status
    BY DEF StatusKept
  <2>1. CASE j = i
    <3>1. incidents'[j] = IncidentAfter(t)
      BY <1>1, <1>2, <2>1
    <3> QED BY <1>2, <1>3, <2>1, <3>1
  <2>2. CASE j # i
    <3>1. incidents'[j] = incidents[j]
      BY <1>1, <2>2
    <3> QED BY <3>1
  <2> QED BY <2>1, <2>2
<1>5. \A j \in IncidentId : (incidents[j] # None /\ incidents[j].status = "RESOLVED")
        => incidents'[j] = incidents[j]
  BY <1>1, <1>3
<1>6. IF tx[t].found THEN zones[z] # None /\ ZoneAfter(t).place = zones[z].place
      ELSE z = t /\ zones[z] = None
  <2>1. CASE tx[t].found
    <3>1. zones[z] # None /\ zones[z] \in Zone
      BY <1>1, <1>2, <2>1 DEF TaskInv, ZoneExists, Decided
    <3>2. ZoneAfter(t).place = zones[z].place
      BY <2>1, <3>1 DEF ZoneAfter, Zone
    <3> QED BY <2>1, <3>1, <3>2
  <2>2. CASE ~tx[t].found
    BY <1>1, <2>2 DEF ZoneToCreate, Decided
  <2> QED BY <2>1, <2>2
<1>7. ZonesKept
  <2> SUFFICES ASSUME NEW y \in ZoneId, zones[y] # None
               PROVE  zones'[y] # None /\ zones'[y].place = zones[y].place
    BY DEF ZonesKept
  <2>1. CASE y = z
    <3>1. zones'[y] = ZoneAfter(t)
      BY <1>1, <1>2, <2>1
    <3> QED BY <1>2, <1>6, <2>1, <3>1
  <2>2. CASE y # z
    BY <1>1, <2>2
  <2> QED BY <2>1, <2>2
<1>8. \A y \in ZoneId \ {t} : zones[y] = None => zones'[y] = None
  BY <1>1, <1>6
<1> QED BY <1>4, <1>5, <1>7, <1>8

LEMMA WindowTables ==
  ASSUME SystemInv, NEW i \in IncidentId, LeaveWindow(i)
  PROVE  /\ StatusKept /\ ZonesKept /\ UNCHANGED zones
         /\ \A j \in IncidentId : incidents[j] # None => incidents'[j].count = incidents[j].count
<1>1. /\ incidents \in [IncidentId -> Incident \cup {None}] /\ incidents[i] \in Incident
      /\ incidents' = [incidents EXCEPT ![i].recent = FALSE] /\ UNCHANGED zones
  BY DEF LeaveWindow, SystemInv, IngestInv, IngestTypeOK, StoreTypeOK
<1>2. /\ incidents'[i] \in Incident /\ incidents'[i] # None
      /\ incidents'[i].status = incidents[i].status /\ incidents'[i].count = incidents[i].count
  BY <1>1, StoreAssumption DEF Incident
<1>3. \A j \in IncidentId \ {i} : incidents'[j] = incidents[j]
  BY <1>1
<1>4. StatusKept
  <2> SUFFICES ASSUME NEW j \in IncidentId
               PROVE  IF incidents[j] = None THEN incidents'[j] = None \/ incidents'[j].status = "NEW"
                      ELSE incidents'[j] # None /\ incidents'[j].status = incidents[j].status
    BY DEF StatusKept
  <2>1. CASE j = i
    BY <1>1, <1>2, <2>1, StoreAssumption
  <2>2. CASE j # i
    BY <1>3, <2>2
  <2> QED BY <2>1, <2>2
<1> QED BY <1>1, <1>2, <1>3, <1>4 DEF ZonesKept

(* What a delivery is to rely on survives its own steps ...                *)
LEMMA OwnStep ==
  ASSUME SystemInv, NEW t \in Task, (\E m \in Msg : Deliver(t, m)) \/ Process(t) \/ Abort(t)
  PROVE  (JoinsOpen(t) /\ ZoneToCreate(t))'
<1>1. /\ pc \in [Task -> {"idle"} \cup Step \cup Answer] /\ tx \in [Task -> Tx] /\ tx[t] \in Tx
      /\ TaskInv(t) /\ JoinsOpen(t) /\ ZoneToCreate(t)
  BY DEF SystemInv, IngestInv, IngestTypeOK
<1>2. CASE \/ \E m \in Msg : Deliver(t, m)
           \/ Deduplicate(t) \/ Verify(t) \/ Score(t) \/ InsertReport(t) \/ SelectIncidents(t)
  <2>1. pc[t] \in Undecided /\ pc'[t] \in Undecided \cup Answer /\ UNCHANGED zones
    BY <1>1, <1>2 DEF Deliver, Deduplicate, Verify, Score, InsertReport, SelectIncidents, Goto,
                      storeVars, Undecided, Answer
  <2>2. pc'[t] \notin Decided
    BY <2>1 DEF Undecided, Decided, Answer
  <2> QED BY <1>1, <2>1, <2>2 DEF JoinsOpen, ZoneToCreate
<1>3. CASE Correlate(t)
  <2>1. /\ pc[t] = "lock" /\ pc'[t] = "zone" /\ UNCHANGED <<incidents, zones>>
    BY <1>1, <1>3 DEF Correlate, Goto
  <2>2. tx'[t].joins => incidents[tx'[t].incident].status # "RESOLVED"
    <3>1. CASE \E i \in BestMatches(t) :
                 tx' = [tx EXCEPT ![t].joins = TRUE, ![t].incident = i,
                          ![t].raise = IF tx[t].level > incidents[i].priority THEN tx[t].level ELSE 0]
      <4>1. PICK i \in BestMatches(t) : tx'[t].incident = i
        BY <1>1, <3>1 DEF Tx
      <4> QED BY <4>1 DEF BestMatches, Matches, Locked, Candidate
    <3>2. CASE tx' = [tx EXCEPT ![t].joins = FALSE, ![t].incident = t, ![t].raise = tx[t].level]
      BY <1>1, <3>2 DEF Tx
    <3> QED BY <1>3, <3>1, <3>2 DEF Correlate
  <2>3. ZoneToCreate(t)'
    BY <1>1, <2>1 DEF ZoneToCreate, Undecided, Decided
  <2> QED BY <2>1, <2>2, <2>3 DEF JoinsOpen
<1>4. CASE FindZone(t)
  <2>1. /\ pc[t] = "zone" /\ pc'[t] = "flush" /\ UNCHANGED <<incidents, zones>>
    BY <1>1, <1>4 DEF FindZone, Goto, storeVars
  <2>2. /\ tx'[t].joins = tx[t].joins /\ tx'[t].incident = tx[t].incident
        /\ ~tx'[t].found => tx'[t].zone = t
    <3> DEFINE near == NearestZones(IncidentPlace(t))
    <3>1. CASE \E z \in near :
                 tx' = [tx EXCEPT ![t].found = TRUE, ![t].zone = z,
                          ![t].seenCount = zones[z].count, ![t].seenStatus = zones[z].status]
      <4> HIDE DEF near
      <4>1. PICK z \in near :
                 tx' = [tx EXCEPT ![t].found = TRUE, ![t].zone = z,
                          ![t].seenCount = zones[z].count, ![t].seenStatus = zones[z].status]
        BY <3>1
      <4> QED BY <1>1, <4>1 DEF Tx
    <3>2. CASE tx' = [tx EXCEPT ![t].found = FALSE, ![t].zone = t,
                        ![t].seenCount = 0, ![t].seenStatus = NORMAL]
      BY <1>1, <3>2 DEF Tx
    <3> QED BY <1>4, <3>1, <3>2 DEF FindZone
  <2> QED BY <1>1, <2>1, <2>2 DEF JoinsOpen, ZoneToCreate, Undecided, Decided
<1>5. CASE FlushZone(t) \/ CountIncidents(t) \/ RaiseToRisk(t)
  <2>1. /\ pc[t] \in Decided \ {"zone"} /\ pc'[t] \in Decided \ {"zone"} /\ UNCHANGED <<incidents, zones>>
    BY <1>1, <1>5 DEF FlushZone, CountIncidents, RaiseToRisk, Goto, storeVars, Decided
  <2>2. /\ tx'[t].joins = tx[t].joins /\ tx'[t].incident = tx[t].incident
        /\ tx'[t].found = tx[t].found /\ tx'[t].zone = tx[t].zone
    BY <1>1, <1>5 DEF FlushZone, CountIncidents, RaiseToRisk, Tx
  <2> QED BY <1>1, <2>1, <2>2 DEF JoinsOpen, ZoneToCreate
<1>6. CASE CommitCorrelation(t) \/ LinkReport(t) \/ Notify(t) \/ Abort(t)
  <2>1. pc'[t] \in {"link", "notify", "accepted", "aborted"}
    BY <1>1, <1>6 DEF CommitCorrelation, LinkReport, Notify, Abort, Goto
  <2> QED BY <2>1 DEF JoinsOpen, ZoneToCreate, Undecided, Decided
<1> QED BY <1>2, <1>3, <1>4, <1>5, <1>6 DEF Process

(* ... and those of the others.                                            *)
LEMMA OtherSteps ==
  ASSUME SystemInv, NEW u \in Task, pc'[u] = pc[u], tx'[u] = tx[u], StatusKept,
         zones[u] = None => zones'[u] = None
  PROVE  (JoinsOpen(u) /\ ZoneToCreate(u))'
<1>1. TaskInv(u) /\ JoinsOpen(u) /\ ZoneToCreate(u) /\ tx[u].incident \in IncidentId
  BY DEF SystemInv, IngestInv, IngestTypeOK, Tx
<1>2. JoinsOpen(u)'
  BY <1>1 DEF TaskInv, JoinsLocked, JoinsOpen, StatusKept
<1> QED BY <1>1, <1>2 DEF ZoneToCreate

LEMMA OthersKept ==
  ASSUME IngestInv, NEW t \in Task, (\E m \in Msg : Deliver(t, m)) \/ Process(t) \/ Abort(t),
         NEW u \in Task \ {t}
  PROVE  pc'[u] = pc[u] /\ tx'[u] = tx[u]
<1>1. pc \in [Task -> {"idle"} \cup Step \cup Answer] /\ tx \in [Task -> Tx]
  BY DEF IngestInv, IngestTypeOK
<1> QED BY <1>1 DEF Process, Deliver, Deduplicate, Verify, Score, InsertReport, SelectIncidents, Correlate,
       FindZone, FlushZone, CountIncidents, RaiseToRisk, CommitCorrelation, LinkReport, Notify, Abort, Goto

(* The cyclone tasks beside the others.                                    *)
LEMMA CycloneUndisturbed ==
  ASSUME CycloneInv, Recency, StoreTypeOK', UNCHANGED cycloneVars, ZonesKept
  PROVE  CycloneInv' /\ Recency'
<1>1. UNCHANGED <<frames, latest, alerts, announced, now, cpc, ctx>>
  BY DEF cycloneVars
<1>2. CycloneTypeOK'
  BY <1>1 DEF CycloneInv, CycloneTypeOK
<1>3. ASSUME NEW c \in CycTask PROVE CycTaskInv(c)'
  BY <1>1, CycUndisturbed DEF CycloneInv
<1>4. (Serialised /\ OneActiveAlert /\ AlertsFormAChain /\ FrameProcessedOnce /\ AnnouncedIsCommitted)'
  BY <1>1 DEF CycloneInv, Serialised, OneActiveAlert, AlertsFormAChain, FrameProcessedOnce, Committed,
              AnnouncedIsCommitted
<1>5. Recency'
  <2>1. \A d \in CycTask : ctx'[d].at <= now'
    BY <1>1 DEF Recency
  <2>2. \A k : ActiveAlerts(k)' = ActiveAlerts(k)
    BY <1>1 DEF ActiveAlerts
  <2> QED BY <1>1, <2>1, <2>2, RecencyKept DEF Committed
<1> QED BY <1>2, <1>3, <1>4, <1>5 DEF CycloneInv

LEMMA IngestStepKeeps ==
  ASSUME SystemInv, IngestStep PROVE SystemInv'
<1>1. IngestInv'
  BY InvStep DEF SystemInv, IngestStep
<1>2. StatusKept /\ ZonesKept
  <2>1. CASE UNCHANGED <<incidents, zones>>
    BY <2>1 DEF StatusKept, ZonesKept
  <2> QED BY <2>1, IngestTables, WindowTables, CommitTables DEF IngestStep
<1>3. CycloneInv' /\ Recency'
  BY <1>1, <1>2, CycloneUndisturbed DEF SystemInv, IngestStep, IngestInv, IngestTypeOK
<1>4. LifecycleInv'
  <2>1. \A o \in Op : locks'[o] = locks[o]
    BY IngestLocks, LifecycleAssumption, SystemAssumption DEF SystemInv, IngestStep
  <2> QED BY <1>2, <2>1, OperatorsUndisturbed DEF SystemInv, IngestStep
<1>5. ASSUME NEW u \in Task PROVE (JoinsOpen(u) /\ ZoneToCreate(u))'
  <2>1. CASE \E t \in Task : (\E m \in Msg : Deliver(t, m)) \/ Process(t) \/ Abort(t)
    <3>1. PICK t \in Task : (\E m \in Msg : Deliver(t, m)) \/ Process(t) \/ Abort(t)
      BY <2>1
    <3>2. CASE u = t
      BY <3>1, <3>2, OwnStep
    <3>3. CASE u # t
      <4>1. pc'[u] = pc[u] /\ tx'[u] = tx[u]
        BY <3>1, <3>3, OthersKept DEF SystemInv
      <4>2. zones[u] = None => zones'[u] = None
        <5>1. CASE CommitCorrelation(t)
          BY <3>3, <5>1, CommitTables, TaskIsSession DEF SystemInv, IngestInv
        <5>2. CASE ~CommitCorrelation(t)
          BY <3>1, <5>2 DEF Process, Deliver, Deduplicate, Verify, Score, InsertReport, SelectIncidents,
               Correlate, FindZone, FlushZone, CountIncidents, RaiseToRisk, LinkReport, Notify, Abort,
               storeVars
        <5> QED BY <5>1, <5>2
      <4> QED BY <1>2, <4>1, <4>2, OtherSteps
    <3> QED BY <3>2, <3>3
  <2>2. CASE (\E k \in Key : RegisterKey(k)) \/ (\E i \in IncidentId : LeaveWindow(i))
    <3>1. UNCHANGED <<pc, tx, zones>>
      BY <2>2 DEF RegisterKey, LeaveWindow, storeVars, ingestVars
    <3> QED BY <1>2, <3>1, OtherSteps
  <2> QED BY <2>1, <2>2 DEF IngestStep, IngestNext
<1> QED BY <1>1, <1>3, <1>4, <1>5 DEF SystemInv
-----------------------------------------------------------------------------
(* A step of a cyclone task.                                               *)

(* The deliveries beside the others.                                       *)
LEMMA DeliveriesUndisturbed ==
  ASSUME IngestInv, StoreTypeOK', RowLocksExclusive', UNCHANGED ingestVars,
         \A i \in IncidentId : /\ incidents'[i] # None <=> incidents[i] # None
                               /\ incidents[i] # None => incidents'[i].priority = incidents[i].priority,
         \A z \in ZoneId : zones[z] # None => zones'[z] # None,
         \A t \in Task : locks'[t] = locks[t]
  PROVE  IngestInv'
<1>1. UNCHANGED <<keys, reports, pc, tx, counted>>
  BY DEF ingestVars
<1>2. IngestTypeOK' /\ DistinctPackets'
  BY <1>1 DEF IngestInv, IngestTypeOK, DistinctPackets
<1>3. ASSUME NEW u \in Task PROVE TaskInv(u)'
  <2>1. TaskInv(u) /\ tx[u] \in Tx /\ u \in IncidentId /\ tx[u].incident \in IncidentId /\ tx[u].zone \in ZoneId
    BY TaskIsSession DEF IngestInv, Tx
  <2> QED BY <1>1, <2>1
          DEF TaskInv, HasPacket, HasCategory, ReportPending, NotCounted, CountedHere,
              NoIncidentYet, JoinsLocked, CreatesOwn, ZoneExists
<1>4. CountedCovered'
  BY <1>1 DEF IngestInv, IngestTypeOK, CountedCovered
<1> QED BY <1>2, <1>3, <1>4 DEF IngestInv

(* Zones are rewritten by the commit of a task only, and stay.             *)
LEMMA CycloneZones ==
  ASSUME CycloneInv, CycloneNext
  PROVE  UNCHANGED incidents /\ \A z \in ZoneId : zones[z] = None <=> zones'[z] = None
<1>1. ASSUME NEW c \in CycTask, CommitFrame(c)
      PROVE  \A z \in ZoneId : zones[z] = None <=> zones'[z] = None
  <2>1. /\ zones \in [ZoneId -> Zone \cup {None}] /\ RatedExist(c) /\ ctx[c] \in Ctx
        /\ zones' = [z \in ZoneId |-> IF z \in Elevated(c)
                                      THEN [zones[z] EXCEPT !.status = NewStatus(c, z)] ELSE zones[z]]
        /\ zones' \in [ZoneId -> Zone \cup {None}]
    BY <1>1, CommitFrameStep DEF CommitFrame, CycloneInv, CycTaskInv, CycloneTypeOK, StoreTypeOK
  <2>2. ASSUME NEW z \in ZoneId, z \in Elevated(c) PROVE zones[z] # None /\ zones'[z] # None
    <3>1. zones[z] # None /\ zones[z] \in Zone
      BY <2>1, <2>2 DEF Elevated, RatedExist
    <3>2. zones'[z] = [zones[z] EXCEPT !.status = NewStatus(c, z)]
      BY <2>1, <2>2
    <3>3. ctx[c].seen[z] \in Status /\ Level(c, z) \in Status
      <4>1. ctx[c].frame \in Frame
        BY <1>1 DEF CommitFrame, CycGoto, CycloneInv, CycTaskInv, HasFrame
      <4> QED BY <2>1, <3>1, <4>1, CycloneAssumption DEF Ctx, Level, Zone
    <3>4. NewStatus(c, z) \in Status
      BY <3>3 DEF NewStatus, ElevatedStatus, Higher
    <3>5. zones'[z] \in Zone
      BY <3>1, <3>2, <3>4 DEF Zone
    <3> QED BY <3>1, <3>5, StoreAssumption
  <2>3. ASSUME NEW z \in ZoneId, z \notin Elevated(c) PROVE zones'[z] = zones[z]
    BY <2>1, <2>3
  <2> QED BY <2>2, <2>3
<1> QED BY <1>1 DEF CycloneNext, Work, Post, SaveFrame, EvaluateRisk, DecideAlert, FlushElevated,
       CommitFrame, Broadcast, AbortFrame, storeVars

LEMMA CycloneExclusive ==
  ASSUME CycloneInv, RowLocksExclusive, CycloneNext PROVE RowLocksExclusive'
<1>1. locks \in [Session -> SUBSET Row]
  BY DEF CycloneInv, CycloneTypeOK, StoreTypeOK
<1>2. ASSUME NEW c \in CycTask, FlushElevated(c) PROVE RowLocksExclusive'
  <2> DEFINE rows == {ZoneRow(z) : z \in Elevated(c)}
  <2>1. c \in Session /\ Free(c, rows) /\ Acquire(c, rows)
    BY <1>2, CycloneAssumption DEF FlushElevated
  <2> HIDE DEF rows
  <2> QED BY <1>1, <2>1, AcquireKeepsExclusive
<1>3. ASSUME NEW c \in CycTask, ReleaseAll(c) PROVE RowLocksExclusive'
  BY <1>1, <1>3, CycloneAssumption, ReleaseKeepsExclusive
<1>4. CASE UNCHANGED locks
  BY <1>4 DEF RowLocksExclusive
<1> QED BY <1>2, <1>3, <1>4 DEF CycloneNext, Work, Post, SaveFrame, EvaluateRisk, DecideAlert,
       CommitFrame, Broadcast, AbortFrame, storeVars

LEMMA CycloneStepKeeps ==
  ASSUME SystemInv, CycloneStep PROVE SystemInv'
<1>1. CycloneInv' /\ Recency'
  BY CycInvStep, RecencyStep DEF SystemInv, CycloneStep
<1>2. UNCHANGED incidents /\ \A z \in ZoneId : zones[z] = None <=> zones'[z] = None
  BY CycloneZones DEF SystemInv, CycloneStep
<1>3. StatusKept
  BY <1>2 DEF StatusKept
<1>4. \A s \in Session \ CycTask : locks'[s] = locks[s]
  BY CycloneLocks DEF SystemInv, CycloneStep
<1>5. IngestInv'
  <2>1. StoreTypeOK' /\ RowLocksExclusive'
    BY <1>1, CycloneExclusive DEF SystemInv, CycloneStep, CycloneInv, CycloneTypeOK, IngestInv
  <2>2. \A t \in Task : locks'[t] = locks[t]
    BY <1>4, IngestionAssumption, SystemAssumption
  <2> QED BY <1>2, <2>1, <2>2, DeliveriesUndisturbed DEF SystemInv, CycloneStep
<1>6. LifecycleInv'
  <2>1. \A o \in Op : locks'[o] = locks[o]
    BY <1>4, LifecycleAssumption, SystemAssumption
  <2> QED BY <1>3, <2>1, OperatorsUndisturbed DEF SystemInv, CycloneStep
<1>7. ASSUME NEW u \in Task PROVE (JoinsOpen(u) /\ ZoneToCreate(u))'
  <2>1. pc'[u] = pc[u] /\ tx'[u] = tx[u] /\ u \in ZoneId
    BY IngestionAssumption DEF CycloneStep, ingestVars
  <2> QED BY <1>2, <1>3, <2>1, OtherSteps
<1> QED BY <1>1, <1>5, <1>6, <1>7 DEF SystemInv

(* A step of an operator's call.                                           *)

(* What both commits do: they set the status of one incident, whose row    *)
(* the call holds.                                                         *)
SetsStatus(o, new) ==
  /\ IncidentRow(target[o]) \in locks[o] /\ target[o] \in IncidentId
  /\ incidents[target[o]] # None /\ incidents[target[o]].status # "RESOLVED"
  /\ new \in IncidentStatus \ {"NEW"}
  /\ incidents' = [incidents EXCEPT ![target[o]].status = new]

LEMMA CommitsSet ==
  ASSUME LifecycleInv, NEW o \in Op
  PROVE  /\ CommitDispatch(o) => SetsStatus(o, "DISPATCHED")
         /\ CommitResolve(o) => SetsStatus(o, "RESOLVED")
BY DEF LifecycleInv, CheckHolds, HasTarget, CommitDispatch, CommitResolve, SetsStatus, IncidentStatus

LEMMA StatusSet ==
  ASSUME StoreTypeOK, NEW o \in Op, NEW new, SetsStatus(o, new)
  PROVE  /\ incidents' \in [IncidentId -> Incident \cup {None}]
         /\ incidents'[target[o]].status = new
         /\ \A i \in IncidentId :
              /\ incidents'[i] # None <=> incidents[i] # None
              /\ incidents[i] # None => /\ incidents'[i].priority = incidents[i].priority
                                        /\ incidents'[i].count = incidents[i].count
              /\ i # target[o] => incidents'[i] = incidents[i]
<1> DEFINE j == target[o]
<1>1. /\ incidents \in [IncidentId -> Incident \cup {None}] /\ j \in IncidentId
      /\ incidents[j] \in Incident /\ new \in IncidentStatus
      /\ incidents' = [incidents EXCEPT ![j] = [incidents[j] EXCEPT !.status = new]]
  BY DEF StoreTypeOK, SetsStatus
<1>2. incidents'[j] = [incidents[j] EXCEPT !.status = new]
  BY <1>1
<1>3. /\ incidents'[j] \in Incident /\ incidents'[j].status = new
      /\ incidents'[j].priority = incidents[j].priority /\ incidents'[j].count = incidents[j].count
  BY <1>1, <1>2 DEF Incident
<1>4. incidents'[j] # None /\ incidents[j] # None
  BY <1>1, <1>3, StoreAssumption
<1>5. \A i \in IncidentId \ {j} : incidents'[i] = incidents[i]
  BY <1>1
<1> QED BY <1>1, <1>3, <1>4, <1>5

(* The incidents change in the two commits only.                           *)
LEMMA LifecycleTables ==
  ASSUME LifecycleInv, LifecycleNext
  PROVE  /\ UNCHANGED <<zones, risks>>
         /\ \/ UNCHANGED incidents
            \/ \E o \in Op, new \in IncidentStatus : SetsStatus(o, new)
<1>1. ASSUME NEW o \in Op, CommitDispatch(o) \/ CommitResolve(o)
      PROVE  \E u \in Op, new \in IncidentStatus : SetsStatus(u, new)
  BY <1>1, CommitsSet DEF IncidentStatus
<1> QED BY <1>1 DEF LifecycleNext, Request, Serve, CheckDispatch, CheckResolve, Check, CommitDispatch,
       CommitResolve, Answered, AbortOp, storeVars

LEMMA LifecycleExclusive ==
  ASSUME LifecycleNext, locks \in [Session -> SUBSET Row], RowLocksExclusive,
         target \in [Op -> IncidentId \cup {None}],
         \A o \in Op : HasTarget(o)
  PROVE  RowLocksExclusive' /\ locks' \in [Session -> SUBSET Row]
<1>1. ASSUME NEW o \in Op, CheckDispatch(o) \/ CheckResolve(o)
      PROVE  RowLocksExclusive' /\ locks' \in [Session -> SUBSET Row]
  <2> DEFINE rows == {IncidentRow(target[o])}
  <2>1. o \in Session /\ rows \subseteq Row /\ Free(o, rows) /\ (UNCHANGED locks \/ Acquire(o, rows))
    BY <1>1, LifecycleAssumption DEF CheckDispatch, CheckResolve, Check, HasTarget, IncidentRow, Row
  <2> HIDE DEF rows
  <2>2. CASE UNCHANGED locks
    BY <2>2 DEF RowLocksExclusive
  <2>3. CASE Acquire(o, rows)
    BY <2>1, <2>3, AcquireKeepsExclusive DEF Acquire
  <2> QED BY <2>1, <2>2, <2>3
<1>2. ASSUME NEW o \in Op, ReleaseAll(o)
      PROVE  RowLocksExclusive' /\ locks' \in [Session -> SUBSET Row]
  BY <1>2, LifecycleAssumption, ReleaseKeepsExclusive, ReleaseType
<1>3. CASE UNCHANGED locks
  BY <1>3 DEF RowLocksExclusive
<1> QED BY <1>1, <1>2, <1>3 DEF LifecycleNext, Request, Serve, CommitDispatch, CommitResolve, Answered,
       AbortOp, storeVars

(* A call that has passed its check is not disturbed by another one.       *)
LEMMA OtherCalls ==
  ASSUME SystemInv, NEW u \in Op, opc'[u] = opc[u], target'[u] = target[u], locks'[u] = locks[u],
         \/ UNCHANGED incidents
         \/ \E o \in Op \ {u}, new \in IncidentStatus : SetsStatus(o, new)
  PROVE  (CheckHolds(u) /\ HasTarget(u))'
<1>1. CheckHolds(u) /\ HasTarget(u)
  BY DEF SystemInv, LifecycleInv
<1>2. CASE UNCHANGED incidents
  BY <1>1, <1>2 DEF CheckHolds, HasTarget
<1>3. CASE \E o \in Op \ {u}, new \in IncidentStatus : SetsStatus(o, new)
  <2>1. PICK o \in Op \ {u}, new \in IncidentStatus : SetsStatus(o, new)
    BY <1>3
  <2>2. IncidentRow(target[o]) \notin locks[u]
    BY <2>1, LifecycleAssumption DEF SystemInv, IngestInv, RowLocksExclusive, SetsStatus
  <2>3. \A i \in IncidentId : i # target[o] => incidents'[i] = incidents[i]
    BY <2>1, StatusSet DEF SystemInv, IngestInv, IngestTypeOK
  <2>4. opc[u] \in {"dispatching", "resolving"} => target[u] \in IncidentId /\ target[u] # target[o]
    BY <1>1, <2>2 DEF CheckHolds, HasTarget
  <2> QED BY <1>1, <2>3, <2>4 DEF CheckHolds, HasTarget
<1> QED BY <1>2, <1>3

(* A step that commits nothing.                                            *)
LEMMA NothingRecorded ==
  ASSUME SystemInv, UNCHANGED <<incidents, dispatches, audit>>,
         NEW o \in Op, opc' \in [Op -> {"idle"} \cup OpStep \cup OpAnswer],
         target' \in [Op -> IncidentId \cup {None}],
         (CheckHolds(o) /\ HasTarget(o))', Past(o) => Past(o)' /\ target'[o] = target[o],
         \A u \in Op \ {o} : opc'[u] = opc[u] /\ target'[u] = target[u] /\ locks'[u] = locks[u]
  PROVE  LifecycleInv'
<1>1. LifecycleTypeOK' /\ OncePerIncident'
  BY DEF SystemInv, LifecycleInv, LifecycleTypeOK, OncePerIncident
<1>2. ASSUME NEW u \in Op PROVE (CheckHolds(u) /\ HasTarget(u))'
  BY OtherCalls
<1>3. \A u \in Op : Past(u) => Past(u)' /\ target'[u] = target[u]
  BY DEF Past
<1>4. OnRecord'
  BY <1>3 DEF SystemInv, LifecycleInv, LifecycleTypeOK, OnRecord
<1>5. ASSUME NEW i \in IncidentId PROVE StatusOnRecord(i)'
  BY DEF SystemInv, LifecycleInv, StatusOnRecord, Recorded
<1> QED BY <1>1, <1>2, <1>4, <1>5 DEF LifecycleInv

(* A commit.                                                               *)
LEMMA CommitRecorded ==
  ASSUME SystemInv, NEW o \in Op, CommitDispatch(o) \/ CommitResolve(o) PROVE LifecycleInv'
<1> DEFINE j == target[o]
<1>1. /\ LifecycleInv /\ LifecycleTypeOK /\ StoreTypeOK /\ locks \in [Session -> SUBSET Row] /\ o \in Session
  BY LifecycleAssumption DEF SystemInv, LifecycleInv, IngestInv, IngestTypeOK, StoreTypeOK
<1>2. PICK a \in Action, new \in IncidentStatus :
        /\ opc[o] = (IF a = "DISPATCH_CREATED" THEN "dispatching" ELSE "resolving")
        /\ opc' = [opc EXCEPT ![o] = "notify"] /\ target' = target
        /\ audit' = audit \cup {<<a, j, o>>}
        /\ dispatches' = (IF a = "DISPATCH_CREATED" THEN dispatches \cup {o} ELSE dispatches)
        /\ ReleaseAll(o) /\ SetsStatus(o, new)
        /\ new = (IF a = "DISPATCH_CREATED" THEN "DISPATCHED" ELSE "RESOLVED")
  <2>0. Action = {"DISPATCH_CREATED", "INCIDENT_RESOLVED"} /\ {"DISPATCHED", "RESOLVED"} \subseteq IncidentStatus
    BY DEF Action, IncidentStatus
  <2>1. CASE CommitDispatch(o)
    <3> "DISPATCH_CREATED" \in Action /\ "DISPATCHED" \in IncidentStatus
      BY <2>0
    <3> WITNESS "DISPATCH_CREATED" \in Action, "DISPATCHED" \in IncidentStatus
    <3> QED BY <1>1, <2>1, CommitsSet DEF CommitDispatch
  <2>2. CASE CommitResolve(o)
    <3> "INCIDENT_RESOLVED" \in Action /\ "RESOLVED" \in IncidentStatus
      BY <2>0
    <3> WITNESS "INCIDENT_RESOLVED" \in Action, "RESOLVED" \in IncidentStatus
    <3> QED BY <1>1, <2>2, CommitsSet DEF CommitResolve
  <2> QED BY <2>1, <2>2
<1>3. /\ j \in IncidentId /\ incidents'[j] # None /\ incidents'[j].status = new
      /\ \A i \in IncidentId : /\ incidents'[i] # None <=> incidents[i] # None
                               /\ i # j => incidents'[i] = incidents[i]
  <2>1. j \in IncidentId /\ incidents[j] # None
    BY <1>2 DEF SetsStatus
  <2>2. /\ incidents'[j].status = new
        /\ \A i \in IncidentId : /\ incidents'[i] # None <=> incidents[i] # None
                                 /\ i # j => incidents'[i] = incidents[i]
    BY <1>1, <1>2, StatusSet
  <2> QED BY <2>1, <2>2
<1>4. /\ incidents[j] # None
      /\ a = "DISPATCH_CREATED" => incidents[j].status = "NEW"
      /\ a = "INCIDENT_RESOLVED" => incidents[j].status # "RESOLVED"
  BY <1>1, <1>2 DEF LifecycleInv, CheckHolds, Action
(* No call recorded this of the incident before.                           *)
<1>5. ~Recorded(a, j)
  BY <1>1, <1>2, <1>3, <1>4 DEF LifecycleInv, StatusOnRecord, Action
<1>6. LifecycleTypeOK'
  BY <1>1, <1>2, <1>3 DEF LifecycleTypeOK, OpStep
<1>7. ASSUME NEW u \in Op PROVE (CheckHolds(u) /\ HasTarget(u))'
  <2>1. CASE u = o
    BY <1>1, <1>2, <1>3, <2>1 DEF LifecycleTypeOK, CheckHolds, HasTarget
  <2>2. CASE u # o
    <3>1. opc'[u] = opc[u] /\ target'[u] = target[u] /\ locks'[u] = locks[u]
      BY <1>1, <1>2, <2>2, LifecycleAssumption DEF LifecycleTypeOK, ReleaseAll
    <3> QED BY <1>2, <2>2, <3>1, OtherCalls
  <2> QED BY <2>1, <2>2
<1>8. \A u \in Op : (Past(u) => Past(u)') /\ Past(o)'
  BY <1>1, <1>2 DEF LifecycleTypeOK, Past
<1>9. OnRecord'
  <2>1. ASSUME NEW u \in dispatches' PROVE (Past(u) /\ <<"DISPATCH_CREATED", target[u], u>> \in audit)'
    BY <1>1, <1>2, <1>8, <2>1 DEF LifecycleInv, LifecycleTypeOK, OnRecord
  <2>2. ASSUME NEW b \in Action, NEW i \in IncidentId, NEW u \in Op, <<b, i, u>> \in audit'
        PROVE  /\ Past(u)' /\ target'[u] = i /\ incidents'[i] # None
               /\ b = "DISPATCH_CREATED" => u \in dispatches'
    <3>1. CASE <<b, i, u>> \in audit
      BY <1>1, <1>2, <1>3, <1>8, <3>1 DEF LifecycleInv, OnRecord
    <3>2. CASE <<b, i, u>> = <<a, j, o>>
      BY <1>2, <1>3, <1>8, <3>2
    <3> QED BY <1>2, <2>2, <3>1, <3>2
  <2> QED BY <2>1, <2>2 DEF OnRecord
<1>10. \A b \in Action, i \in IncidentId : Recorded(b, i)' <=> Recorded(b, i) \/ (b = a /\ i = j)
  BY <1>2 DEF Recorded
<1>11. ASSUME NEW i \in IncidentId PROVE StatusOnRecord(i)'
  <2>1. StatusOnRecord(i)
    BY <1>1 DEF LifecycleInv
  <2>2. CASE i # j
    <3>1. incidents'[i] = incidents[i]
      BY <1>3, <2>2
    <3>2. \A b \in Action : Recorded(b, i)' <=> Recorded(b, i)
      BY <1>10, <2>2 DEF Recorded
    <3> QED BY <2>1, <3>1, <3>2 DEF StatusOnRecord, Action
  <2>3. CASE i = j
    <3>0. \A b \in Action : Recorded(b, i)' <=> Recorded(b, i) \/ b = a
      BY <1>10, <2>3 DEF Recorded
    <3>1. new # "NEW" /\ Recorded(a, i)'
      BY <1>2, <3>0
    <3>2. new = "RESOLVED" <=> Recorded("INCIDENT_RESOLVED", i)'
      <4>1. CASE a = "INCIDENT_RESOLVED"
        BY <1>2, <3>1, <4>1
      <4>2. CASE a = "DISPATCH_CREATED"
        BY <1>2, <1>4, <2>1, <2>3, <3>0, <4>2 DEF StatusOnRecord, Action
      <4> QED BY <4>1, <4>2 DEF Action
    <3> QED BY <1>3, <2>3, <3>1, <3>2 DEF StatusOnRecord
  <2> QED BY <2>2, <2>3
<1>12. OncePerIncident'
  <2> SUFFICES ASSUME NEW b \in Action, NEW i \in IncidentId, NEW u \in Op, NEW v \in Op,
                      <<b, i, u>> \in audit', <<b, i, v>> \in audit'
               PROVE  u = v
    BY DEF OncePerIncident
  <2>1. CASE b = a /\ i = j
    BY <1>2, <1>5, <2>1 DEF Recorded
  <2>2. CASE ~(b = a /\ i = j)
    BY <1>1, <1>2, <2>2 DEF LifecycleInv, OncePerIncident
  <2> QED BY <2>1, <2>2
<1> QED BY <1>6, <1>7, <1>9, <1>11, <1>12 DEF LifecycleInv

LEMMA CallKeeps ==
  ASSUME SystemInv, LifecycleNext PROVE LifecycleInv'
<1>1. /\ opc \in [Op -> {"idle"} \cup OpStep \cup OpAnswer] /\ target \in [Op -> IncidentId \cup {None}]
      /\ locks \in [Session -> SUBSET Row]
      /\ \A o \in Op : CheckHolds(o) /\ HasTarget(o) /\ o \in Session
  BY LifecycleAssumption
     DEF SystemInv, LifecycleInv, LifecycleTypeOK, IngestInv, IngestTypeOK, StoreTypeOK
<1>2. ASSUME NEW o \in Op, NEW i \in IncidentId, Request(o, i) PROVE LifecycleInv'
  <2>1. /\ opc[o] = "idle" /\ \A u \in Op \ {o} : opc'[u] = opc[u] /\ target'[u] = target[u]
        /\ opc'[o] \in {"dispatch", "resolve"} /\ target'[o] = i
        /\ opc' \in [Op -> {"idle"} \cup OpStep \cup OpAnswer] /\ target' \in [Op -> IncidentId \cup {None}]
        /\ UNCHANGED <<incidents, dispatches, audit, locks>>
    BY <1>1, <1>2 DEF Request, OpStep, storeVars
  <2> QED BY <2>1, NothingRecorded DEF CheckHolds, HasTarget, Past
<1>3. ASSUME NEW o \in Op, CheckDispatch(o) \/ CheckResolve(o) PROVE LifecycleInv'
  <2>1. /\ opc[o] \in {"dispatch", "resolve"} /\ target' = target
        /\ \A u \in Op \ {o} : opc'[u] = opc[u]
        /\ opc'[o] \in {"not_found", "conflict", "dispatching", "resolving"}
        /\ opc' \in [Op -> {"idle"} \cup OpStep \cup OpAnswer]
        /\ UNCHANGED <<incidents, dispatches, audit>>
    BY <1>1, <1>3 DEF CheckDispatch, CheckResolve, Check, OpStep, OpAnswer
  <2>2. \A u \in Op \ {o} : locks'[u] = locks[u]
    BY <1>1, <1>3 DEF CheckDispatch, CheckResolve, Check, Acquire
  <2>3. CheckHolds(o)'
    BY <1>1, <1>3, <2>1
       DEF CheckDispatch, CheckResolve, Check, Acquire, Dispatchable, Resolvable, CheckHolds, HasTarget
  <2>4. HasTarget(o)' /\ ~Past(o)
    BY <1>1, <2>1 DEF HasTarget, Past
  <2> QED BY <1>1, <2>1, <2>2, <2>3, <2>4, NothingRecorded
<1>4. ASSUME NEW o \in Op, Answered(o) \/ AbortOp(o) PROVE LifecycleInv'
  <2>1. /\ opc[o] # "idle" /\ target' = target /\ \A u \in Op \ {o} : opc'[u] = opc[u]
        /\ opc'[o] \in {"ok", "aborted"}
        /\ opc' \in [Op -> {"idle"} \cup OpStep \cup OpAnswer]
        /\ UNCHANGED <<incidents, dispatches, audit>>
    BY <1>1, <1>4 DEF Answered, AbortOp, OpStep, OpAnswer, storeVars
  <2>2. \A u \in Op \ {o} : locks'[u] = locks[u]
    BY <1>1, <1>4 DEF Answered, AbortOp, ReleaseAll, storeVars
  <2> QED BY <1>1, <2>1, <2>2, NothingRecorded DEF CheckHolds, HasTarget, Past
<1> QED BY <1>2, <1>3, <1>4, CommitRecorded DEF LifecycleNext, Serve

(* What a call does to the incidents.                                      *)
LEMMA CallTables ==
  ASSUME SystemInv, LifecycleNext
  PROVE  /\ incidents' \in [IncidentId -> Incident \cup {None}]
         /\ \A i \in IncidentId :
              /\ incidents'[i] # None <=> incidents[i] # None
              /\ incidents[i] # None => /\ incidents'[i].priority = incidents[i].priority
                                        /\ incidents'[i].count = incidents[i].count
<1>1. StoreTypeOK /\ LifecycleInv /\ incidents \in [IncidentId -> Incident \cup {None}]
  BY DEF SystemInv, IngestInv, IngestTypeOK, StoreTypeOK
<1>2. CASE UNCHANGED incidents
  BY <1>1, <1>2
<1>3. CASE \E o \in Op, new \in IncidentStatus : SetsStatus(o, new)
  BY <1>1, <1>3, StatusSet
<1> QED BY <1>1, <1>2, <1>3, LifecycleTables

LEMMA LifecycleStepKeeps ==
  ASSUME SystemInv, LifecycleStep PROVE SystemInv'
<1>1. /\ LifecycleNext /\ UNCHANGED <<ingestVars, cycloneVars>>
      /\ IngestInv /\ CycloneInv /\ Recency /\ LifecycleInv
      /\ StoreTypeOK /\ locks \in [Session -> SUBSET Row] /\ RowLocksExclusive
  BY DEF SystemInv, LifecycleStep, IngestInv, IngestTypeOK, StoreTypeOK
<1>2. LifecycleInv'
  BY <1>1, CallKeeps
<1>3. UNCHANGED <<zones, risks>> /\ RowLocksExclusive' /\ locks' \in [Session -> SUBSET Row]
  BY <1>1, LifecycleTables, LifecycleExclusive DEF LifecycleInv, LifecycleTypeOK
<1>4. StoreTypeOK' /\ ZonesKept
  BY <1>1, <1>3, CallTables DEF StoreTypeOK, ZonesKept
<1>5. CycloneInv' /\ Recency'
  BY <1>1, <1>4, CycloneUndisturbed
<1>6. \A t \in Task : locks'[t] = locks[t]
  BY <1>1, LifecycleLocks, IngestionAssumption, SystemAssumption
<1>7. IngestInv'
  BY <1>1, <1>3, <1>4, <1>6, CallTables, DeliveriesUndisturbed
<1>8. ASSUME NEW t \in Task PROVE (JoinsOpen(t) /\ ZoneToCreate(t))'
  <2>1. /\ pc'[t] = pc[t] /\ tx'[t] = tx[t] /\ JoinsOpen(t) /\ ZoneToCreate(t) /\ JoinsLocked(t)
        /\ t \in Session /\ tx[t].incident \in IncidentId
    BY <1>1, IngestionAssumption DEF SystemInv, IngestInv, IngestTypeOK, TaskInv, Tx, ingestVars
  <2>2. CASE UNCHANGED incidents
    BY <1>3, <2>1, <2>2 DEF JoinsOpen, ZoneToCreate
  <2>3. CASE \E o \in Op, new \in IncidentStatus : SetsStatus(o, new)
    <3>1. PICK o \in Op, new \in IncidentStatus : SetsStatus(o, new)
      BY <2>3
    <3>2. IncidentRow(target[o]) \notin locks[t]
      BY <1>1, <2>1, <3>1, LifecycleAssumption, SystemAssumption DEF RowLocksExclusive, SetsStatus
    <3>3. (pc[t] \in Decided /\ tx[t].joins) => incidents'[tx[t].incident] = incidents[tx[t].incident]
      BY <1>1, <2>1, <3>1, <3>2, StatusSet DEF JoinsLocked
    <3> QED BY <1>3, <2>1, <3>3 DEF JoinsOpen, ZoneToCreate
  <2> QED BY <1>1, <2>2, <2>3, LifecycleTables
<1> QED BY <1>2, <1>5, <1>7, <1>8 DEF SystemInv
-----------------------------------------------------------------------------
LEMMA SystemStepKeeps == SystemInv /\ [Next]_vars => SystemInv'
<1> SUFFICES ASSUME SystemInv, [Next]_vars PROVE SystemInv'
  OBVIOUS
<1>1. CASE UNCHANGED vars
  <2>1. UNCHANGED <<storeVars, ingestVars, cycloneVars, lifecycleVars>>
    BY <1>1 DEF vars
  <2>2. UNCHANGED <<incidents, zones, risks, locks, pc, tx>>
    BY <2>1 DEF storeVars, ingestVars
  <2>3. IngestInv'
    BY <2>1, InvStep DEF SystemInv, ingestAll
  <2>4. StatusKept /\ ZonesKept
    BY <2>2 DEF StatusKept, ZonesKept
  <2>5. CycloneInv' /\ Recency' /\ LifecycleInv'
    BY <2>1, <2>2, <2>3, <2>4, CycloneUndisturbed, OperatorsUndisturbed
       DEF SystemInv, IngestInv, IngestTypeOK
  <2>6. \A t \in Task : (JoinsOpen(t) /\ ZoneToCreate(t))'
    BY <2>2, <2>4, OtherSteps
  <2> QED BY <2>3, <2>5, <2>6 DEF SystemInv
<1> QED BY <1>1, IngestStepKeeps, CycloneStepKeeps, LifecycleStepKeeps DEF Next

(* Whatever the handlers do at once, each keeps its own invariant and what *)
(* the others rely on.                                                     *)
THEOREM SystemInvariant == Spec => []SystemInv
  BY SystemStarts, SystemStepKeeps, PTL DEF Spec

(* However many operators, deliveries and cyclone tasks overlap, the audit *)
(* trail explains the status of every incident: manager.py and the         *)
(* dispatch route check the status under the row lock.                     *)
THEOREM AuditCorrect == Spec => []AuditExplainsStatus
<1>1. SystemInv => AuditExplainsStatus
  <2> SUFFICES ASSUME SystemInv, NEW i \in IncidentId, incidents[i] # None
               PROVE  LET calls(action) == {o \in Op : <<action, i, o>> \in audit} IN
                      /\ incidents[i].status = "NEW"
                           <=> calls("DISPATCH_CREATED") \cup calls("INCIDENT_RESOLVED") = {}
                      /\ incidents[i].status = "RESOLVED" <=> calls("INCIDENT_RESOLVED") # {}
                      /\ \A action \in Action : Cardinality(calls(action)) <= 1
                      /\ calls("DISPATCH_CREATED") = {o \in dispatches : target[o] = i}
    BY DEF AuditExplainsStatus, Action
  <2> DEFINE calls(action) == {o \in Op : <<action, i, o>> \in audit}
  <2>1. /\ LifecycleTypeOK /\ OnRecord /\ StatusOnRecord(i) /\ OncePerIncident
    BY DEF SystemInv, LifecycleInv
  <2>2. \A action \in Action : Recorded(action, i) <=> calls(action) # {}
    BY DEF Recorded
  <2>3. ASSUME NEW action \in Action PROVE Cardinality(calls(action)) <= 1
    <3>1. PICK S : S = calls(action)
      OBVIOUS
    <3>2. \A o, u \in S : o = u
      BY <2>1, <3>1 DEF OncePerIncident
    <3>3. CASE S = {}
      <4>1. Cardinality({}) = 0
        BY FS_EmptySet
      <4>2. Cardinality(calls(action)) = 0
        BY <3>1, <3>3, <4>1
      <4> QED BY <4>2
    <3>4. CASE S # {}
      <4>0. PICK o : o \in S
        BY <3>4
      <4>1. S = {o}
        BY <3>2, <4>0
      <4>2. Cardinality({o}) = 1
        BY FS_Singleton
      <4>3. Cardinality(calls(action)) = 1
        BY <3>1, <4>1, <4>2
      <4> QED BY <4>3
    <3> QED BY <3>3, <3>4
  <2>4. calls("DISPATCH_CREATED") = {o \in dispatches : target[o] = i}
    BY <2>1 DEF LifecycleTypeOK, OnRecord, Action
  <2>5. /\ incidents[i].status = "NEW"
             <=> calls("DISPATCH_CREATED") \cup calls("INCIDENT_RESOLVED") = {}
        /\ incidents[i].status = "RESOLVED" <=> calls("INCIDENT_RESOLVED") # {}
    BY <2>1, <2>2 DEF StatusOnRecord, Action
  <2> QED BY <2>3, <2>4, <2>5
<1> QED BY <1>1, SystemInvariant, PTL

(* No report is ever counted in an incident that was resolved before the   *)
(* delivery commits, for any number of operators and deliveries.           *)
THEOREM JoinsOpenCorrect == Spec => ReportsJoinOpenIncidents
<1> DEFINE ClosedKept == \A i \in IncidentId :
             (incidents[i] # None /\ incidents[i].status = "RESOLVED")
               => incidents'[i].count = incidents[i].count
<1>1. SystemInv /\ [Next]_vars => [ClosedKept]_vars
  <2> SUFFICES ASSUME SystemInv, Next PROVE ClosedKept
    OBVIOUS
  <2>1. CASE IngestStep
    BY <2>1, IngestTables, WindowTables, CommitTables DEF IngestStep
  <2>2. CASE CycloneStep
    BY <2>2, CycloneZones DEF SystemInv, CycloneStep
  <2>3. CASE LifecycleStep
    BY <2>3, CallTables DEF LifecycleStep
  <2> QED BY <2>1, <2>2, <2>3 DEF Next
<1> QED BY <1>1, SystemInvariant, PTL DEF Spec, ReportsJoinOpenIncidents

(* Beside operators and cyclone tasks, no report is graver than the        *)
(* incident that counts it.                                                *)
THEOREM SystemPriorityCorrect == Spec => []PriorityCoversReports
<1>1. SystemInv => PriorityCoversReports
  BY DEF SystemInv, IngestInv, CountedCovered, PriorityCoversReports
<1> QED BY <1>1, SystemInvariant, PTL

(* Beside deliveries and operators, a cyclone has one active alert, that   *)
(* of the frame rated last, at the end of one chain of versions, and no    *)
(* frame is processed twice.                                               *)
THEOREM SystemAlertsCorrect ==
  Spec => [](OneActiveAlert /\ AlertsFormAChain /\ FrameProcessedOnce /\ ActiveAlertIsCurrent)
<1>1. SystemInv => OneActiveAlert /\ AlertsFormAChain /\ FrameProcessedOnce /\ ActiveAlertIsCurrent
  BY DEF SystemInv, CycloneInv, Recency
<1> QED BY <1>1, SystemInvariant, PTL

(* The whole backend implements the ledger: neither operators nor cyclone  *)
(* tasks change what was stored, counted or linked.                        *)
THEOREM SystemLedgerImplemented == Spec => LedgerSpec
<1>1. Init => Ledger!Init
  BY DEF Init, StoreInit, IngestInit, Ledger!Init
<1>2. SystemInv /\ [Next]_vars => [Ledger!Next]_(Ledger!ledger)
  <2> SUFFICES ASSUME SystemInv, [Next]_vars PROVE [Ledger!Next]_(Ledger!ledger)
    OBVIOUS
  <2>1. CASE IngestStep
    BY <2>1, LedgerStep DEF SystemInv, IngestStep
  <2>2. CASE CycloneStep
    <3>1. UNCHANGED <<incidents, reports, counted>>
      BY <2>2, CycloneZones DEF SystemInv, CycloneStep, ingestVars
    <3> QED BY <3>1 DEF Ledger!ledger
  <2>3. CASE LifecycleStep
    <3>1. /\ UNCHANGED <<reports, counted>>
          /\ \A i \in IncidentId : /\ incidents'[i] # None <=> incidents[i] # None
                                   /\ incidents[i] # None => incidents'[i].count = incidents[i].count
      BY <2>3, CallTables DEF LifecycleStep, ingestVars
    <3> QED BY <3>1 DEF Ledger!ledger
  <2>4. CASE UNCHANGED vars
    <3>1. UNCHANGED <<incidents, reports, counted>>
      BY <2>4 DEF vars, storeVars, ingestVars
    <3> QED BY <3>1 DEF Ledger!ledger
  <2> QED BY <2>1, <2>2, <2>3, <2>4 DEF Next
<1> QED BY <1>1, <1>2, SystemInvariant, PTL DEF Spec, LedgerSpec, Ledger!Spec

=============================================================================
