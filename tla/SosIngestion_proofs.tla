------------------------ MODULE SosIngestion_proofs -------------------------
(***************************************************************************)
(* Proofs about SosIngestion, for any number of deliveries, packets, keys, *)
(* places and zones: the type invariant, the refinement of SosLedger, and  *)
(* the invariants about priorities, unlinked reports and zone statuses.    *)
(***************************************************************************)
EXTENDS SosIngestion, FiniteSetTheorems, TLAPS

(* Before correlate_incident has decided, and after.                       *)
Undecided == {"idle", "dedup", "verify", "score", "insert", "select", "lock"}
Decided == {"zone", "flush", "severity", "raise", "commit"}
Storing == Correlating \cup {"link"}

(* What a delivery relies on at each of its awaits.                        *)
HasPacket(t) == pc[t] # "idle" => tx[t].msg \in Msg

HasCategory(t) == pc[t] \in {"insert"} \cup Storing => tx[t].category \in Category

ReportPending(t) == pc[t] \in Storing =>
  /\ reports[tx[t].msg] # None
  /\ reports[tx[t].msg].incident = None
  /\ reports[tx[t].msg].level = tx[t].level

NotCounted(t) == pc[t] \in Correlating => counted[tx[t].msg] = None

CountedHere(t) == pc[t] = "link" => counted[tx[t].msg] = tx[t].incident

NoIncidentYet(t) ==
  (pc[t] \in Undecided \/ (pc[t] \in Decided /\ ~tx[t].joins)) => incidents[t] = None

(* The incident to join exists, is locked, and will cover the report.      *)
JoinsLocked(t) == (pc[t] \in Decided /\ tx[t].joins) =>
  /\ incidents[tx[t].incident] # None
  /\ IncidentRow(tx[t].incident) \in locks[t]
  /\ IF tx[t].raise = 0 THEN tx[t].level <= incidents[tx[t].incident].priority
     ELSE /\ tx[t].raise = tx[t].level
          /\ tx[t].raise > incidents[tx[t].incident].priority

CreatesOwn(t) == (pc[t] \in Decided /\ ~tx[t].joins) =>
  tx[t].incident = t /\ tx[t].raise = tx[t].level

ZoneExists(t) == (pc[t] \in Decided \ {"zone"} /\ tx[t].found) => zones[tx[t].zone] # None

TaskInv(t) ==
  /\ HasPacket(t)
  /\ HasCategory(t)
  /\ ReportPending(t)
  /\ NotCounted(t)
  /\ CountedHere(t)
  /\ NoIncidentYet(t)
  /\ JoinsLocked(t)
  /\ CreatesOwn(t)
  /\ ZoneExists(t)

(* Two deliveries past the insert have different packets.                  *)
DistinctPackets ==
  \A t, u \in Task : (pc[t] \in Storing /\ pc[u] \in Storing /\ tx[t].msg = tx[u].msg) => t = u

(* A counted packet is stored, and its incident covers it.                 *)
CountedCovered ==
  \A m \in Msg : counted[m] # None =>
    /\ reports[m] # None
    /\ incidents[counted[m]] # None
    /\ incidents[counted[m]].priority >= reports[m].level

IngestInv ==
  /\ IngestTypeOK
  /\ RowLocksExclusive
  /\ \A t \in Task : TaskInv(t)
  /\ DistinctPackets
  /\ CountedCovered
-----------------------------------------------------------------------------
LEMMA PriorityLevelType == \A s \in 0 .. 100 : PriorityLevel(s) \in Priority
  BY DEF PriorityLevel, Priority, P_LOW, P_MEDIUM, P_HIGH, P_CRITICAL

LEMMA SosStatusType == \A n, P : SosStatus(n, P) \in Status
  BY DEF SosStatus, Status, NORMAL, EMERGING, HIGH, CRITICAL, EXTREME

LEMMA TypeInit == StoreInit /\ IngestInit => IngestTypeOK
  BY StoreAssumption, IngestionAssumption, SeverityAssumption
  DEF StoreInit, IngestInit, IngestTypeOK, StoreTypeOK, Zone, Risk, NoRisk, Status, NORMAL, EXTREME,
      Tx, BlankTx, Priority, P_LOW, P_CRITICAL

LEMMA InvInit == StoreInit /\ IngestInit => IngestInv
<1> SUFFICES ASSUME StoreInit, IngestInit PROVE IngestInv
  OBVIOUS
<1>1. IngestTypeOK
  BY TypeInit
<1>2. RowLocksExclusive
  BY DEF StoreInit, RowLocksExclusive
<1>3. ASSUME NEW t \in Task PROVE TaskInv(t)
  BY IngestionAssumption
  DEF StoreInit, IngestInit, TaskInv, HasPacket, HasCategory, ReportPending, NotCounted, CountedHere,
      NoIncidentYet, JoinsLocked, CreatesOwn, ZoneExists, Storing, Correlating, Decided
<1>4. DistinctPackets /\ CountedCovered
  BY DEF IngestInit, DistinctPackets, CountedCovered, Storing, Correlating
<1> QED BY <1>1, <1>2, <1>3, <1>4 DEF IngestInv
-----------------------------------------------------------------------------
(* Rows and locks.                                                         *)
LEMMA AcquireKeepsExclusive ==
  ASSUME locks \in [Session -> SUBSET Row], RowLocksExclusive,
         NEW s \in Session, NEW rows, NEW taken \in SUBSET rows,
         Free(s, rows), Acquire(s, taken)
  PROVE  RowLocksExclusive'
  BY DEF RowLocksExclusive, Free, Acquire

LEMMA ReleaseKeepsExclusive ==
  ASSUME locks \in [Session -> SUBSET Row], RowLocksExclusive,
         NEW s \in Session, ReleaseAll(s)
  PROVE  RowLocksExclusive'
  BY DEF RowLocksExclusive, ReleaseAll

LEMMA ReleaseType ==
  ASSUME locks \in [Session -> SUBSET Row], NEW s \in Session, ReleaseAll(s)
  PROVE  locks' \in [Session -> SUBSET Row]
  BY DEF ReleaseAll

LEMMA TaskIsSession == ASSUME IngestTypeOK, NEW t \in Task
  PROVE t \in Session /\ t \in IncidentId /\ t \in ZoneId /\ tx[t] \in Tx /\ locks \in [Session -> SUBSET Row]
  BY IngestionAssumption DEF IngestTypeOK, StoreTypeOK

(* A delivery is not disturbed by a step that leaves its tables alone.     *)
LEMMA Undisturbed ==
  ASSUME NEW u \in Task, TaskInv(u), pc'[u] = pc[u], tx'[u] = tx[u], locks[u] \subseteq locks'[u],
         UNCHANGED <<incidents, zones, reports, counted>>
  PROVE  TaskInv(u)'
  BY DEF TaskInv, HasPacket, HasCategory, ReportPending, NotCounted, CountedHere, NoIncidentYet,
         JoinsLocked, CreatesOwn, ZoneExists
-----------------------------------------------------------------------------
(* Steps that change nothing but the place and the locals of a delivery.   *)
LEMMA QuietStep ==
  ASSUME IngestInv, NEW t \in Task, NEW from, NEW to \in {"idle"} \cup Step \cup Answer,
         Goto(t, from, to), UNCHANGED <<storeVars, keys, reports, counted>>,
         tx' \in [Task -> Tx], \A u \in Task \ {t} : tx'[u] = tx[u],
         TaskInv(t)', to \in Storing => from \in Storing /\ tx'[t].msg = tx[t].msg
  PROVE  IngestInv'
<1>1. IngestTypeOK'
  BY DEF IngestInv, IngestTypeOK, StoreTypeOK, storeVars, Goto
<1>2. RowLocksExclusive'
  BY DEF IngestInv, RowLocksExclusive, storeVars
<1>3. pc \in [Task -> {"idle"} \cup Step \cup Answer]
  BY DEF IngestInv, IngestTypeOK
<1>4. ASSUME NEW u \in Task PROVE TaskInv(u)'
  <2>1. CASE u = t BY <2>1
  <2>2. CASE u # t
    BY <2>2, <1>3, Undisturbed DEF IngestInv, storeVars, Goto
  <2> QED BY <2>1, <2>2
<1>5. DistinctPackets'
  BY <1>3 DEF IngestInv, DistinctPackets, Goto
<1>6. CountedCovered'
  BY DEF IngestInv, CountedCovered, storeVars
<1> QED BY <1>1, <1>2, <1>4, <1>5, <1>6 DEF IngestInv
LEMMA DeliverStep ==
  ASSUME IngestInv, NEW t \in Task, NEW m \in Msg, Deliver(t, m) PROVE IngestInv'
<1>1. PICK to \in {"dedup", "PACKET_EXPIRED"} : Goto(t, "idle", to)
  BY DEF Deliver
<1>2. tx' \in [Task -> Tx] /\ \A u \in Task \ {t} : tx'[u] = tx[u]
  BY DEF Deliver, IngestInv, IngestTypeOK, Tx
<1>3. TaskInv(t)'
  BY <1>1 DEF Deliver, IngestInv, IngestTypeOK, storeVars, Goto, TaskInv, HasPacket, HasCategory, ReportPending,
              NotCounted, CountedHere, NoIncidentYet, JoinsLocked, CreatesOwn, ZoneExists,
              Storing, Correlating, Undecided, Decided
<1> QED BY <1>1, <1>2, <1>3, QuietStep DEF Deliver, Step, Answer, Storing, Correlating

LEMMA DeduplicateStep ==
  ASSUME IngestInv, NEW t \in Task, Deduplicate(t) PROVE IngestInv'
<1>1. PICK to \in {"duplicate", "verify"} : Goto(t, "dedup", to)
  BY DEF Deduplicate
<1>2. TaskInv(t)'
  BY <1>1 DEF Deduplicate, IngestInv, IngestTypeOK, storeVars, Goto, TaskInv, HasPacket, HasCategory, ReportPending,
              NotCounted, CountedHere, NoIncidentYet, JoinsLocked, CreatesOwn, ZoneExists,
              Storing, Correlating, Undecided, Decided
<1> QED BY <1>1, <1>2, QuietStep
        DEF Deduplicate, IngestInv, IngestTypeOK, Step, Answer, Storing, Correlating

LEMMA VerifyStep ==
  ASSUME IngestInv, NEW t \in Task, Verify(t) PROVE IngestInv'
<1>1. PICK to \in {"UNKNOWN_KEY", "BAD_SIGNATURE", "DECRYPTION_FAILED", "score"} : Goto(t, "verify", to)
  BY DEF Verify
<1>2. TaskInv(t)'
  BY <1>1 DEF Verify, IngestInv, IngestTypeOK, storeVars, Goto, TaskInv, HasPacket, HasCategory, ReportPending,
              NotCounted, CountedHere, NoIncidentYet, JoinsLocked, CreatesOwn, ZoneExists,
              Storing, Correlating, Undecided, Decided
<1> QED BY <1>1, <1>2, QuietStep
        DEF Verify, IngestInv, IngestTypeOK, Step, Answer, Storing, Correlating

LEMMA ScoreStep ==
  ASSUME IngestInv, NEW t \in Task, Score(t) PROVE IngestInv'
<1>1. tx \in [Task -> Tx] /\ tx[t] \in Tx /\ tx[t].msg \in Msg
  BY DEF Score, Goto, IngestInv, IngestTypeOK, TaskInv, HasPacket
<1>2. PICK v \in Verdicts[tx[t].msg] :
        tx' = [tx EXCEPT ![t].category = v[1], ![t].level = PriorityLevel(v[2])]
  BY DEF Score
<1> DEFINE c == v[1]
           l == PriorityLevel(v[2])
<1>3. c \in Category /\ l \in Priority
  BY <1>1, IngestionAssumption, PriorityLevelType
<1>4. tx' = [tx EXCEPT ![t].category = c, ![t].level = l]
  BY <1>2
<1> HIDE DEF c, l
<1>5. tx' \in [Task -> Tx] /\ (\A u \in Task \ {t} : tx'[u] = tx[u])
  BY <1>1, <1>3, <1>4 DEF Tx
<1>6. tx'[t].msg = tx[t].msg /\ tx'[t].category = c
  BY <1>1, <1>4 DEF Tx
<1>7. TaskInv(t)'
  BY <1>1, <1>3, <1>6
     DEF Score, IngestInv, IngestTypeOK, storeVars, Goto, TaskInv, HasPacket, HasCategory, ReportPending,
         NotCounted, CountedHere, NoIncidentYet, JoinsLocked, CreatesOwn, ZoneExists,
         Storing, Correlating, Undecided, Decided
<1> QED BY <1>5, <1>7, QuietStep DEF Score, Step, Answer, Storing, Correlating

LEMMA SelectIncidentsStep ==
  ASSUME IngestInv, NEW t \in Task, SelectIncidents(t) PROVE IngestInv'
<1>1. tx \in [Task -> Tx] /\ tx[t] \in Tx
  BY DEF IngestInv, IngestTypeOK
<1>2. tx' \in [Task -> Tx] /\ (\A u \in Task \ {t} : tx'[u] = tx[u])
  BY <1>1 DEF SelectIncidents, Tx
<1>3. tx'[t].msg = tx[t].msg /\ tx'[t].category = tx[t].category /\ tx'[t].level = tx[t].level
  BY <1>1 DEF SelectIncidents, Tx
<1>4. TaskInv(t)'
  BY <1>3 DEF SelectIncidents, IngestInv, IngestTypeOK, storeVars, Goto, TaskInv, HasPacket, HasCategory, ReportPending,
              NotCounted, CountedHere, NoIncidentYet, JoinsLocked, CreatesOwn, ZoneExists,
              Storing, Correlating, Undecided, Decided
<1> QED BY <1>2, <1>3, <1>4, QuietStep DEF SelectIncidents, Step, Answer, Storing, Correlating

(* A step between two awaits after correlate_incident has decided.         *)
LEMMA DecisionKept ==
  ASSUME IngestInv, NEW t \in Task, NEW from \in Decided, NEW to \in Decided, Goto(t, from, to),
         tx'[t].msg = tx[t].msg, tx'[t].category = tx[t].category, tx'[t].level = tx[t].level,
         tx'[t].joins = tx[t].joins, tx'[t].incident = tx[t].incident, tx'[t].raise = tx[t].raise,
         UNCHANGED <<incidents, reports, counted>>, locks[t] \subseteq locks'[t], ZoneExists(t)'
  PROVE  TaskInv(t)'
<1>1. pc[t] = from /\ pc'[t] = to
  BY DEF IngestInv, IngestTypeOK, Goto
<1>2. TaskInv(t)
  BY DEF IngestInv
<1>3. (HasPacket(t) /\ HasCategory(t) /\ ReportPending(t) /\ NotCounted(t) /\ CountedHere(t))'
  BY <1>1, <1>2 DEF TaskInv, HasPacket, HasCategory, ReportPending, NotCounted, CountedHere,
                    Storing, Correlating, Decided
<1>4. (NoIncidentYet(t) /\ JoinsLocked(t) /\ CreatesOwn(t))'
  BY <1>1, <1>2 DEF TaskInv, NoIncidentYet, JoinsLocked, CreatesOwn, Undecided, Decided
<1> QED BY <1>3, <1>4 DEF TaskInv

LEMMA FindZoneStep ==
  ASSUME IngestInv, NEW t \in Task, FindZone(t) PROVE IngestInv'
<1>1. tx \in [Task -> Tx] /\ tx[t] \in Tx
  BY DEF IngestInv, IngestTypeOK
<1>2. PICK found \in BOOLEAN, z \in ZoneId, n \in Nat, s \in Status :
        /\ tx' = [tx EXCEPT ![t].found = found, ![t].zone = z, ![t].seenCount = n, ![t].seenStatus = s]
        /\ found => zones[z] # None
  <2>1. CASE \E z \in NearestZones(IncidentPlace(t)) :
               tx' = [tx EXCEPT ![t].found = TRUE, ![t].zone = z,
                        ![t].seenCount = zones[z].count, ![t].seenStatus = zones[z].status]
    <3>1. PICK z \in NearestZones(IncidentPlace(t)) :
               tx' = [tx EXCEPT ![t].found = TRUE, ![t].zone = z,
                        ![t].seenCount = zones[z].count, ![t].seenStatus = zones[z].status]
      BY <2>1
    <3>2. z \in ZoneId /\ zones[z] # None
      BY DEF NearestZones, ZonesNear
    <3>3. zones[z].count \in Nat /\ zones[z].status \in Status
      BY <3>2 DEF IngestInv, IngestTypeOK, StoreTypeOK, Zone
    <3> DEFINE n == zones[z].count
               s == zones[z].status
    <3>4. tx' = [tx EXCEPT ![t].found = TRUE, ![t].zone = z, ![t].seenCount = n, ![t].seenStatus = s]
      BY <3>1
    <3> n \in Nat /\ s \in Status /\ z \in ZoneId
      BY <3>2, <3>3
    <3> WITNESS TRUE \in BOOLEAN, z \in ZoneId, n \in Nat, s \in Status
    <3> QED BY <3>2, <3>4
  <2>2. CASE tx' = [tx EXCEPT ![t].found = FALSE, ![t].zone = t,
                      ![t].seenCount = 0, ![t].seenStatus = NORMAL]
    <3> t \in ZoneId /\ NORMAL \in Status
      BY TaskIsSession DEF IngestInv, Status, NORMAL, EXTREME
    <3> WITNESS FALSE \in BOOLEAN, t \in ZoneId, 0 \in Nat, NORMAL \in Status
    <3> QED BY <2>2
  <2> QED BY <2>1, <2>2 DEF FindZone
<1>3. tx' \in [Task -> Tx] /\ (\A u \in Task \ {t} : tx'[u] = tx[u])
  BY <1>1, <1>2 DEF Tx
<1>4. /\ tx'[t].msg = tx[t].msg /\ tx'[t].category = tx[t].category /\ tx'[t].level = tx[t].level
      /\ tx'[t].joins = tx[t].joins /\ tx'[t].incident = tx[t].incident /\ tx'[t].raise = tx[t].raise
      /\ tx'[t].found = found /\ tx'[t].zone = z
  BY <1>1, <1>2 DEF Tx
<1>5. ZoneExists(t)'
  BY <1>2, <1>4 DEF FindZone, ZoneExists, storeVars
<1>6. TaskInv(t)'
  BY <1>4, <1>5, DecisionKept DEF FindZone, storeVars, Decided
<1> QED BY <1>3, <1>4, <1>6, QuietStep DEF FindZone, Step, Answer, Storing, Correlating

LEMMA CountIncidentsStep ==
  ASSUME IngestInv, NEW t \in Task, CountIncidents(t) PROVE IngestInv'
<1>1. tx \in [Task -> Tx] /\ tx[t] \in Tx
  BY DEF IngestInv, IngestTypeOK
<1>2. PICK s \in Status : tx' = [tx EXCEPT ![t].status = s]
  <2> DEFINE others == OpenIn(tx[t].zone) \ {tx[t].incident}
             s == SosStatus(Cardinality(others) + 1,
                            {incidents[i].priority : i \in others} \cup {OwnPriority(t)})
  <2>1. tx' = [tx EXCEPT ![t].status = s]
    BY DEF CountIncidents
  <2>2. s \in Status
    BY SosStatusType
  <2> QED BY <2>1, <2>2
<1>3. tx' \in [Task -> Tx] /\ (\A u \in Task \ {t} : tx'[u] = tx[u])
  BY <1>1, <1>2 DEF Tx
<1>4. /\ tx'[t].msg = tx[t].msg /\ tx'[t].category = tx[t].category /\ tx'[t].level = tx[t].level
      /\ tx'[t].joins = tx[t].joins /\ tx'[t].incident = tx[t].incident /\ tx'[t].raise = tx[t].raise
      /\ tx'[t].found = tx[t].found /\ tx'[t].zone = tx[t].zone
  BY <1>1, <1>2 DEF Tx
<1>5. ZoneExists(t)'
  BY <1>4 DEF CountIncidents, IngestInv, IngestTypeOK, TaskInv, ZoneExists, storeVars, Goto, Decided
<1>6. TaskInv(t)'
  BY <1>4, <1>5, DecisionKept DEF CountIncidents, storeVars, Decided
<1> QED BY <1>3, <1>4, <1>6, QuietStep DEF CountIncidents, Step, Answer, Storing, Correlating

LEMMA RaiseToRiskStep ==
  ASSUME IngestInv, NEW t \in Task, RaiseToRisk(t) PROVE IngestInv'
<1>1. tx \in [Task -> Tx] /\ tx[t] \in Tx
  BY DEF IngestInv, IngestTypeOK
<1>2. PICK s \in Status : tx' = [tx EXCEPT ![t].status = s]
  <2>1. risks[tx[t].zone].level \in Status /\ tx[t].status \in Status
    BY <1>1 DEF IngestInv, IngestTypeOK, StoreTypeOK, Risk, Tx
  <2>2. Higher(tx[t].status, risks[tx[t].zone].level) \in Status
    BY <2>1 DEF Higher
  <2> QED BY <1>1, <2>2 DEF RaiseToRisk
<1>3. tx' \in [Task -> Tx] /\ (\A u \in Task \ {t} : tx'[u] = tx[u])
  BY <1>1, <1>2 DEF Tx
<1>4. /\ tx'[t].msg = tx[t].msg /\ tx'[t].category = tx[t].category /\ tx'[t].level = tx[t].level
      /\ tx'[t].joins = tx[t].joins /\ tx'[t].incident = tx[t].incident /\ tx'[t].raise = tx[t].raise
      /\ tx'[t].found = tx[t].found /\ tx'[t].zone = tx[t].zone
  BY <1>1, <1>2 DEF Tx
<1>5. ZoneExists(t)'
  BY <1>4 DEF RaiseToRisk, IngestInv, IngestTypeOK, TaskInv, ZoneExists, storeVars, Goto, Decided
<1>6. TaskInv(t)'
  BY <1>4, <1>5, DecisionKept DEF RaiseToRisk, storeVars, Decided
<1> QED BY <1>3, <1>4, <1>6, QuietStep DEF RaiseToRisk, Step, Answer, Storing, Correlating

LEMMA NotifyStep ==
  ASSUME IngestInv, NEW t \in Task, Notify(t) PROVE IngestInv'
<1>1. Goto(t, "notify", "accepted") /\ tx' = tx
  BY DEF Notify
<1>2. TaskInv(t)'
  BY <1>1 DEF Notify, IngestInv, IngestTypeOK, storeVars, Goto, TaskInv, HasPacket, HasCategory, ReportPending,
              NotCounted, CountedHere, NoIncidentYet, JoinsLocked, CreatesOwn, ZoneExists,
              Storing, Correlating, Undecided, Decided
<1> QED BY <1>1, <1>2, QuietStep
        DEF Notify, IngestInv, IngestTypeOK, Step, Answer, Storing, Correlating
-----------------------------------------------------------------------------
(* The insert: its packet had no report, hence no other delivery past the  *)
(* insert has it, and it was not counted.                                  *)
LEMMA InsertReportStep ==
  ASSUME IngestInv, NEW t \in Task, InsertReport(t) PROVE IngestInv'
<1> DEFINE m == tx[t].msg
<1>1. /\ pc \in [Task -> {"idle"} \cup Step \cup Answer] /\ reports \in [Msg -> Report \cup {None}]
      /\ tx[t] \in Tx /\ m \in Msg /\ tx[t].category \in Category /\ tx[t].level \in Priority
  BY DEF InsertReport, Goto, IngestInv, IngestTypeOK, TaskInv, HasPacket, HasCategory, Tx
<1>2. CASE ~Unique(m)
  <2>1. Goto(t, "insert", "INTEGRITY_ERROR") /\ UNCHANGED <<storeVars, keys, reports, tx, counted>>
    BY <1>2 DEF InsertReport
  <2>2. TaskInv(t)'
    BY <2>1 DEF IngestInv, IngestTypeOK, storeVars, Goto, TaskInv, HasPacket, HasCategory, ReportPending,
                NotCounted, CountedHere, NoIncidentYet, JoinsLocked, CreatesOwn, ZoneExists,
                Storing, Correlating, Undecided, Decided
  <2> QED BY <2>1, <2>2, QuietStep DEF IngestInv, IngestTypeOK, Step, Answer, Storing, Correlating
<1>3. CASE Unique(m)
  <2> DEFINE r == [level |-> tx[t].level, incident |-> None]
  <2>1. /\ pc[t] = "insert" /\ pc' = [pc EXCEPT ![t] = "select"]
        /\ reports' = [reports EXCEPT ![m] = r]
        /\ reports[m] = None
        /\ UNCHANGED <<storeVars, keys, tx, counted>>
    BY <1>3 DEF InsertReport, Goto, Unique
  <2>2. r \in Report
    BY <1>1 DEF Report
  <2>3. r # None /\ r.incident = None /\ r.level = tx[t].level
    BY <2>2, IngestionAssumption
  <2> HIDE DEF r
  <2>4. IngestTypeOK'
    BY <1>1, <2>1, <2>2 DEF IngestInv, IngestTypeOK, StoreTypeOK, storeVars, Step, Correlating
  <2>5. RowLocksExclusive'
    BY <2>1 DEF IngestInv, RowLocksExclusive, storeVars
  <2>6. counted[m] = None
    BY <1>1, <2>1 DEF IngestInv, CountedCovered
  <2>7. ASSUME NEW u \in Task PROVE TaskInv(u)'
    <3>1. TaskInv(u)
      BY DEF IngestInv
    <3>2. CASE u = t
      BY <3>1, <3>2, <1>1, <2>1, <2>3, <2>6
         DEF storeVars, TaskInv, HasPacket, HasCategory, ReportPending, NotCounted, CountedHere,
             NoIncidentYet, JoinsLocked, CreatesOwn, ZoneExists, Storing, Correlating, Undecided, Decided
    <3>3. CASE u # t
      <4>1. pc'[u] = pc[u]
        BY <3>3, <1>1, <2>1
      <4>2. pc[u] \in Storing => tx[u].msg # m
        BY <3>1, <2>1 DEF TaskInv, ReportPending
      <4>3. ReportPending(u)'
        BY <3>1, <4>1, <4>2, <1>1, <2>1 DEF TaskInv, ReportPending, HasPacket, Storing, Correlating
      <4> QED BY <3>1, <4>1, <4>3, <2>1
              DEF storeVars, TaskInv, HasPacket, HasCategory, NotCounted, CountedHere,
                  NoIncidentYet, JoinsLocked, CreatesOwn, ZoneExists
    <3> QED BY <3>2, <3>3
  <2>8. DistinctPackets'
    <3> SUFFICES ASSUME NEW a \in Task, NEW b \in Task, a # b,
                        pc'[a] \in Storing, pc'[b] \in Storing, tx[a].msg = tx[b].msg PROVE FALSE
      BY <2>1 DEF DistinctPackets
    <3>1. CASE a # t /\ b # t
      BY <3>1, <1>1, <2>1 DEF IngestInv, DistinctPackets
    <3>2. CASE a = t
      BY <3>2, <1>1, <2>1 DEF IngestInv, TaskInv, ReportPending
    <3>3. CASE b = t
      BY <3>3, <1>1, <2>1 DEF IngestInv, TaskInv, ReportPending
    <3> QED BY <3>1, <3>2, <3>3
  <2>9. CountedCovered'
    BY <1>1, <2>1, <2>6 DEF IngestInv, CountedCovered, storeVars
  <2> QED BY <2>4, <2>5, <2>7, <2>8, <2>9 DEF IngestInv
<1> QED BY <1>2, <1>3

LEMMA CorrelateStep ==
  ASSUME IngestInv, NEW t \in Task, Correlate(t) PROVE IngestInv'
<1> DEFINE rows == ForUpdate(tx[t].cand)
           taken == ForUpdate(Locked(t))
<1>1. /\ pc \in [Task -> {"idle"} \cup Step \cup Answer] /\ pc[t] = "lock" /\ pc' = [pc EXCEPT ![t] = "zone"]
      /\ tx \in [Task -> Tx] /\ tx[t] \in Tx /\ t \in Session /\ locks \in [Session -> SUBSET Row]
      /\ UNCHANGED <<incidents, zones, risks, keys, reports, counted>>
  BY TaskIsSession DEF Correlate, Goto, IngestInv, IngestTypeOK
<1>2. Locked(t) \subseteq IncidentId /\ taken \subseteq rows /\ taken \subseteq Row
  BY <1>1 DEF Locked, Tx, IncidentRow, Row, ForUpdate
<1>3. Free(t, rows) /\ Acquire(t, taken)
  BY DEF Correlate
<1>4. RowLocksExclusive'
  <2> HIDE DEF rows, taken
  <2> QED BY <1>1, <1>2, <1>3, AcquireKeepsExclusive DEF IngestInv
<1>5. locks' \in [Session -> SUBSET Row] /\ \A u \in Task : locks[u] \subseteq locks'[u]
  BY <1>1, <1>2, <1>3, IngestionAssumption DEF Acquire
<1>6. TaskInv(t) /\ IngestTypeOK
  BY DEF IngestInv
<1>7. /\ tx' \in [Task -> Tx] /\ \A u \in Task \ {t} : tx'[u] = tx[u]
      /\ tx'[t].msg = tx[t].msg /\ tx'[t].category = tx[t].category /\ tx'[t].level = tx[t].level
      /\ (NoIncidentYet(t) /\ JoinsLocked(t) /\ CreatesOwn(t))'
  <2>1. CASE \E i \in BestMatches(t) :
               tx' = [tx EXCEPT ![t].joins = TRUE, ![t].incident = i,
                        ![t].raise = IF tx[t].level > incidents[i].priority THEN tx[t].level ELSE 0]
    <3>1. PICK i \in BestMatches(t) :
               tx' = [tx EXCEPT ![t].joins = TRUE, ![t].incident = i,
                        ![t].raise = IF tx[t].level > incidents[i].priority THEN tx[t].level ELSE 0]
      BY <2>1
    <3>2. i \in Locked(t) /\ i \in IncidentId /\ incidents[i] # None
      BY <1>2 DEF BestMatches, Matches, Locked, Candidate
    <3>3. IncidentRow(i) \in locks'[t]
      BY <3>2, <1>1, <1>3 DEF Acquire, ForUpdate
    <3>4. tx[t].level \in Priority /\ incidents[i].priority \in Priority
      BY <3>2, <1>1, <1>6 DEF IngestTypeOK, StoreTypeOK, Incident, Tx
    <3> DEFINE r == IF tx[t].level > incidents[i].priority THEN tx[t].level ELSE 0
    <3>5. r \in Priority \cup {0}
      BY <3>4
    <3>6. IF r = 0 THEN tx[t].level <= incidents[i].priority
          ELSE r = tx[t].level /\ r > incidents[i].priority
      BY <3>4 DEF Priority, P_LOW, P_CRITICAL
    <3>7. tx' = [tx EXCEPT ![t].joins = TRUE, ![t].incident = i, ![t].raise = r]
      BY <3>1
    <3> HIDE DEF r
    <3>8. /\ tx' \in [Task -> Tx] /\ \A u \in Task \ {t} : tx'[u] = tx[u]
          /\ tx'[t].msg = tx[t].msg /\ tx'[t].category = tx[t].category /\ tx'[t].level = tx[t].level
          /\ tx'[t].joins = TRUE /\ tx'[t].incident = i /\ tx'[t].raise = r
      BY <3>2, <3>5, <3>7, <1>1 DEF Tx
    <3>9. (NoIncidentYet(t) /\ JoinsLocked(t) /\ CreatesOwn(t))'
      BY <3>2, <3>3, <3>6, <3>8, <1>1 DEF NoIncidentYet, JoinsLocked, CreatesOwn, Undecided, Decided
    <3> QED BY <3>8, <3>9
  <2>2. CASE tx' = [tx EXCEPT ![t].joins = FALSE, ![t].incident = t, ![t].raise = tx[t].level]
    <3>1. t \in IncidentId /\ tx[t].level \in Priority
      BY <1>1, <1>6, TaskIsSession DEF Tx
    <3>2. /\ tx' \in [Task -> Tx] /\ \A u \in Task \ {t} : tx'[u] = tx[u]
          /\ tx'[t].msg = tx[t].msg /\ tx'[t].category = tx[t].category /\ tx'[t].level = tx[t].level
          /\ tx'[t].joins = FALSE /\ tx'[t].incident = t /\ tx'[t].raise = tx[t].level
      BY <2>2, <3>1, <1>1 DEF Tx
    <3>3. incidents[t] = None
      BY <1>1, <1>6 DEF TaskInv, NoIncidentYet, Undecided
    <3>4. (NoIncidentYet(t) /\ JoinsLocked(t) /\ CreatesOwn(t))'
      BY <3>2, <3>3, <1>1 DEF NoIncidentYet, JoinsLocked, CreatesOwn, Undecided, Decided
    <3> QED BY <3>2, <3>4
  <2> QED BY <2>1, <2>2 DEF Correlate
<1>8. IngestTypeOK'
  BY <1>1, <1>5, <1>6, <1>7 DEF IngestTypeOK, StoreTypeOK, Step, Correlating
<1>9. ASSUME NEW u \in Task PROVE TaskInv(u)'
  <2>1. CASE u = t
    <3>1. (HasPacket(t) /\ HasCategory(t) /\ ReportPending(t) /\ NotCounted(t) /\ CountedHere(t) /\ ZoneExists(t))'
      BY <1>1, <1>6, <1>7 DEF TaskInv, HasPacket, HasCategory, ReportPending, NotCounted, CountedHere,
                              ZoneExists, Storing, Correlating, Decided
    <3> QED BY <2>1, <3>1, <1>7 DEF TaskInv
  <2>2. CASE u # t
    BY <2>2, <1>1, <1>5, <1>7, Undisturbed DEF IngestInv
  <2> QED BY <2>1, <2>2
<1>10. DistinctPackets'
  BY <1>1, <1>7 DEF IngestInv, DistinctPackets, Storing, Correlating
<1>11. CountedCovered'
  BY <1>1 DEF IngestInv, CountedCovered
<1> QED BY <1>4, <1>8, <1>9, <1>10, <1>11 DEF IngestInv

LEMMA FlushZoneStep ==
  ASSUME IngestInv, NEW t \in Task, FlushZone(t) PROVE IngestInv'
<1> DEFINE rows == {ZoneRow(tx[t].zone)}
<1>1. /\ pc \in [Task -> {"idle"} \cup Step \cup Answer] /\ pc[t] = "flush" /\ pc' = [pc EXCEPT ![t] = "severity"]
      /\ t \in Session /\ locks \in [Session -> SUBSET Row]
      /\ UNCHANGED <<incidents, zones, risks, keys, reports, tx, counted>>
  BY TaskIsSession DEF FlushZone, Goto, IngestInv, IngestTypeOK
<1>2. Free(t, rows) /\ Acquire(t, rows) /\ rows \subseteq Row
  BY TaskIsSession DEF FlushZone, ZoneRow, Row, IngestInv, Tx
<1>3. RowLocksExclusive'
  <2> HIDE DEF rows
  <2> QED BY <1>1, <1>2, AcquireKeepsExclusive DEF IngestInv
<1>4. locks' \in [Session -> SUBSET Row] /\ \A u \in Task : locks[u] \subseteq locks'[u]
  BY <1>1, <1>2, IngestionAssumption DEF Acquire
<1>5. IngestTypeOK'
  BY <1>1, <1>4 DEF IngestInv, IngestTypeOK, StoreTypeOK, Step, Correlating
<1>6. ASSUME NEW u \in Task PROVE TaskInv(u)'
  <2>1. CASE u = t
    <3>1. ZoneExists(t)'
      BY <1>1 DEF IngestInv, TaskInv, ZoneExists, Decided
    <3> QED BY <2>1, <3>1, <1>1, <1>4, DecisionKept DEF FlushZone, Decided
  <2>2. CASE u # t
    BY <2>2, <1>1, <1>4, Undisturbed DEF IngestInv
  <2> QED BY <2>1, <2>2
<1>7. DistinctPackets'
  BY <1>1 DEF IngestInv, DistinctPackets, Storing, Correlating
<1>8. CountedCovered'
  BY <1>1 DEF IngestInv, CountedCovered
<1> QED BY <1>3, <1>5, <1>6, <1>7, <1>8 DEF IngestInv
-----------------------------------------------------------------------------
(* The commit of correlate_incident.  The incident it writes is its own    *)
(* new one or one it holds the lock of, so that no other delivery has      *)
(* decided to join or to create it.                                        *)
LEMMA CommitCorrelationTypes ==
  ASSUME IngestInv, NEW t \in Task, CommitCorrelation(t)
  PROVE  /\ IncidentAfter(t) \in Incident
         /\ ZoneAfter(t) \in Zone
         /\ IncidentAfter(t).priority >= tx[t].level
         /\ incidents[tx[t].incident] # None =>
              IncidentAfter(t).priority >= incidents[tx[t].incident].priority
<1> DEFINE i == tx[t].incident
           z == tx[t].zone
<1>1. /\ tx[t] \in Tx /\ tx[t].msg \in Msg /\ tx[t].category \in Category /\ pc[t] = "commit" /\ TaskInv(t)
      /\ incidents \in [IncidentId -> Incident \cup {None}] /\ zones \in [ZoneId -> Zone \cup {None}]
  BY DEF CommitCorrelation, Goto, IngestInv, IngestTypeOK, StoreTypeOK, TaskInv, HasPacket, HasCategory,
         Storing, Correlating
<1>2. /\ i \in IncidentId /\ z \in ZoneId /\ tx[t].level \in Priority /\ tx[t].raise \in Priority \cup {0}
      /\ tx[t].seenCount \in Nat /\ tx[t].status \in Status
  BY <1>1 DEF Tx
<1>3. IncidentPlace(t) \in Place => ZoneAfter(t) \in Zone
  <2>1. CASE tx[t].found
    <3> DEFINE old == zones[z]
               n == tx[t].seenCount + 1
               s == IF tx[t].status # tx[t].seenStatus THEN tx[t].status ELSE zones[z].status
    <3>1. old \in Zone
      BY <1>1, <1>2, <2>1 DEF TaskInv, ZoneExists, Decided
    <3>2. n \in Nat /\ s \in Status
      BY <1>2, <3>1 DEF Zone
    <3>3. ZoneAfter(t) = [old EXCEPT !.count = n, !.status = s]
      BY <2>1 DEF ZoneAfter
    <3> HIDE DEF old, n, s
    <3> QED BY <3>1, <3>2, <3>3 DEF Zone
  <2>2. CASE ~tx[t].found
    BY <1>2, <2>2 DEF ZoneAfter, Zone
  <2> QED BY <2>1, <2>2
<1>4. CASE tx[t].joins
  <2>1. incidents[i] \in Incident
    BY <1>1, <1>2, <1>4 DEF TaskInv, JoinsLocked, Decided
  <2>2. /\ incidents[i].count \in Nat /\ incidents[i].priority \in Priority /\ incidents[i].place \in Place
    BY <2>1 DEF Incident
  <2> DEFINE p == IF tx[t].raise # 0 THEN tx[t].raise ELSE incidents[i].priority
  <2>3. p \in Priority
    BY <1>2, <2>2
  <2>4. p >= tx[t].level /\ p >= incidents[i].priority
    BY <1>1, <1>2, <1>4, <2>2 DEF TaskInv, JoinsLocked, Decided, Priority, P_LOW, P_CRITICAL
  <2> DEFINE n == incidents[i].count + 1
             old == incidents[i]
  <2>5. IncidentAfter(t) = [old EXCEPT !.count = n, !.zone = z, !.priority = p]
    BY <1>4 DEF IncidentAfter
  <2>6. old \in Incident /\ n \in Nat
    BY <2>1, <2>2
  <2> HIDE DEF p, n, old
  <2>7. IncidentAfter(t) \in Incident /\ IncidentAfter(t).priority = p
    BY <1>2, <2>3, <2>5, <2>6 DEF Incident
  <2> QED BY <2>2, <2>4, <2>7, <1>4, <1>3 DEF IncidentPlace
<1>5. CASE ~tx[t].joins
  <2>1. i = t /\ tx[t].raise = tx[t].level /\ incidents[i] = None
    BY <1>1, <1>5 DEF TaskInv, CreatesOwn, NoIncidentYet, Decided
  <2>2. PlaceOf[tx[t].msg] \in Place
    BY <1>1, IngestionAssumption
  <2>3. IncidentAfter(t) \in Incident /\ IncidentAfter(t).priority = tx[t].level
    BY <1>1, <1>2, <1>5, <2>1, <2>2 DEF IncidentAfter, Incident, IncidentStatus
  <2> QED BY <1>2, <1>5, <1>3, <2>1, <2>2, <2>3 DEF Priority, P_LOW, P_CRITICAL, IncidentPlace
<1> QED BY <1>4, <1>5

LEMMA CommitCorrelationStep ==
  ASSUME IngestInv, NEW t \in Task, CommitCorrelation(t) PROVE IngestInv'
<1> DEFINE i == tx[t].incident
           m == tx[t].msg
           new == IncidentAfter(t)
           newZone == ZoneAfter(t)
<1>1. /\ pc \in [Task -> {"idle"} \cup Step \cup Answer] /\ pc[t] = "commit" /\ pc' = [pc EXCEPT ![t] = "link"]
      /\ incidents \in [IncidentId -> Incident \cup {None}] /\ incidents' = [incidents EXCEPT ![i] = new]
      /\ zones \in [ZoneId -> Zone \cup {None}] /\ zones' = [zones EXCEPT ![tx[t].zone] = newZone]
      /\ counted \in [Msg -> IncidentId \cup {None}] /\ counted' = [counted EXCEPT ![m] = i]
      /\ ReleaseAll(t) /\ t \in Session /\ locks \in [Session -> SUBSET Row]
      /\ UNCHANGED <<risks, keys, reports, tx>>
  BY TaskIsSession DEF CommitCorrelation, Goto, IngestInv, IngestTypeOK, StoreTypeOK
<1>2. /\ tx[t] \in Tx /\ m \in Msg /\ i \in IncidentId /\ tx[t].zone \in ZoneId /\ tx[t].level \in Priority
      /\ TaskInv(t)
  BY <1>1 DEF IngestInv, IngestTypeOK, TaskInv, HasPacket, Tx
<1>3. /\ new \in Incident /\ newZone \in Zone /\ new # None /\ newZone # None
      /\ new.priority >= tx[t].level
      /\ incidents[i] # None => new.priority >= incidents[i].priority
  BY CommitCorrelationTypes, StoreAssumption
<1> HIDE DEF new, newZone
<1>4. IngestTypeOK'
  <2>1. locks' \in [Session -> SUBSET Row]
    BY <1>1, ReleaseType
  <2> QED BY <2>1, <1>1, <1>2, <1>3 DEF IngestInv, IngestTypeOK, StoreTypeOK, Step
<1>5. RowLocksExclusive'
  BY <1>1, ReleaseKeepsExclusive DEF IngestInv
<1>6. ASSUME NEW u \in Task PROVE TaskInv(u)'
  <2>1. TaskInv(u)
    BY DEF IngestInv
  <2>2. CASE u = t
    BY <2>2, <1>1, <1>2
       DEF TaskInv, HasPacket, HasCategory, ReportPending, NotCounted, CountedHere, NoIncidentYet,
           JoinsLocked, CreatesOwn, ZoneExists, Storing, Correlating, Undecided, Decided
  <2>3. CASE u # t
    <3>1. pc'[u] = pc[u] /\ tx'[u] = tx[u] /\ locks'[u] = locks[u] /\ u \in IncidentId /\ u \in Session /\ tx[u] \in Tx
      BY <2>3, <1>1, TaskIsSession, IngestionAssumption DEF ReleaseAll, IngestInv
    <3>2. pc[u] \in Storing => tx[u].msg # m
      BY <2>3, <1>1 DEF IngestInv, DistinctPackets, Storing, Correlating
    <3>3. (HasPacket(u) /\ HasCategory(u) /\ ReportPending(u) /\ CreatesOwn(u))'
      BY <2>1, <3>1, <1>1 DEF TaskInv, HasPacket, HasCategory, ReportPending, CreatesOwn
    <3>4. (NotCounted(u) /\ CountedHere(u))'
      BY <2>1, <3>1, <3>2, <1>1 DEF TaskInv, HasPacket, NotCounted, CountedHere, Storing, Correlating
    <3>5. incidents[u] = None => u # i
      BY <2>3, <1>1, <1>2 DEF TaskInv, CreatesOwn, JoinsLocked, Decided
    <3>6. NoIncidentYet(u)'
      BY <2>1, <3>1, <3>5, <1>1 DEF TaskInv, NoIncidentYet
    <3>7. (pc[u] \in Decided /\ tx[u].joins) => tx[u].incident # i
      <4> SUFFICES ASSUME pc[u] \in Decided, tx[u].joins, tx[u].incident = i PROVE FALSE
        OBVIOUS
      <4>1. incidents[i] # None /\ IncidentRow(i) \in locks[u]
        BY <2>1 DEF TaskInv, JoinsLocked
      <4>2. tx[t].joins /\ IncidentRow(i) \in locks[t]
        BY <4>1, <1>1, <1>2 DEF TaskInv, NoIncidentYet, JoinsLocked, CreatesOwn, Decided
      <4> QED BY <4>1, <4>2, <2>3, <3>1, <1>1 DEF IngestInv, RowLocksExclusive
    <3>8. JoinsLocked(u)'
      BY <2>1, <3>1, <3>7, <1>1, <1>2 DEF TaskInv, JoinsLocked, Tx
    <3>9. ZoneExists(u)'
      BY <2>1, <3>1, <1>1, <1>3 DEF TaskInv, ZoneExists, Tx
    <3> QED BY <3>3, <3>4, <3>6, <3>8, <3>9 DEF TaskInv
  <2> QED BY <2>2, <2>3
<1>7. DistinctPackets'
  BY <1>1 DEF IngestInv, DistinctPackets, Storing, Correlating
<1>8. CountedCovered'
  <2> SUFFICES ASSUME NEW n \in Msg, counted'[n] # None
               PROVE  /\ reports[n] # None
                      /\ incidents'[counted'[n]] # None
                      /\ incidents'[counted'[n]].priority >= reports[n].level
    BY <1>1 DEF CountedCovered
  <2>1. CASE n = m
    BY <2>1, <1>1, <1>2, <1>3 DEF TaskInv, ReportPending, Storing, Correlating
  <2>2. CASE n # m
    <3>1. /\ counted'[n] = counted[n] /\ counted[n] \in IncidentId /\ reports[n] # None
          /\ incidents[counted[n]] # None /\ incidents[counted[n]].priority >= reports[n].level
      BY <2>2, <1>1 DEF IngestInv, CountedCovered
    <3>2. CASE counted[n] # i
      BY <3>1, <3>2, <1>1
    <3>3. CASE counted[n] = i
      <4>1. /\ new.priority \in Nat /\ incidents[i].priority \in Nat /\ reports[n].level \in Nat
            /\ new.priority >= incidents[i].priority
        BY <3>1, <3>3, <1>1, <1>2, <1>3
           DEF IngestInv, IngestTypeOK, Incident, Report, Priority, P_LOW, P_CRITICAL
      <4> QED BY <3>1, <3>3, <4>1, <1>1, <1>2, <1>3
    <3> QED BY <3>2, <3>3
  <2> QED BY <2>1, <2>2
<1> QED BY <1>4, <1>5, <1>6, <1>7, <1>8 DEF IngestInv

LEMMA LinkReportStep ==
  ASSUME IngestInv, NEW t \in Task, LinkReport(t) PROVE IngestInv'
<1> DEFINE m == tx[t].msg
<1>1. /\ pc \in [Task -> {"idle"} \cup Step \cup Answer] /\ pc[t] = "link" /\ pc' = [pc EXCEPT ![t] = "notify"]
      /\ reports \in [Msg -> Report \cup {None}] /\ m \in Msg /\ tx[t].incident \in IncidentId
      /\ reports' = [reports EXCEPT ![m].incident = tx[t].incident]
      /\ UNCHANGED <<incidents, zones, risks, locks, keys, tx, counted>>
  BY DEF LinkReport, Goto, IngestInv, IngestTypeOK, TaskInv, HasPacket, Tx, storeVars
<1>2. reports[m] \in Report
  BY <1>1 DEF IngestInv, TaskInv, ReportPending, Storing
<1>3. reports'[m] \in Report /\ reports'[m] # None /\ reports'[m].level = reports[m].level
  BY <1>1, <1>2, IngestionAssumption DEF Report
<1>4. IngestTypeOK'
  BY <1>1, <1>2, <1>3 DEF IngestInv, IngestTypeOK, StoreTypeOK, Step
<1>5. RowLocksExclusive'
  BY <1>1 DEF IngestInv, RowLocksExclusive
<1>6. ASSUME NEW u \in Task PROVE TaskInv(u)'
  <2>1. TaskInv(u)
    BY DEF IngestInv
  <2>2. (pc'[u] \in Storing => pc[u] \in Storing /\ tx[u].msg # m) /\ (u # t => pc'[u] = pc[u])
    BY <1>1 DEF IngestInv, DistinctPackets, Storing, Correlating
  <2>3. ReportPending(u)'
    BY <1>1, <2>1, <2>2 DEF TaskInv, ReportPending, HasPacket, Storing, Correlating
  <2>4. (HasPacket(u) /\ HasCategory(u) /\ NotCounted(u) /\ CountedHere(u))'
    BY <1>1, <2>1, <2>2 DEF TaskInv, HasPacket, HasCategory, NotCounted, CountedHere, Storing, Correlating
  <2>5. (NoIncidentYet(u) /\ JoinsLocked(u) /\ CreatesOwn(u) /\ ZoneExists(u))'
    BY <1>1, <2>1, <2>2 DEF TaskInv, NoIncidentYet, JoinsLocked, CreatesOwn, ZoneExists, Undecided, Decided
  <2> QED BY <2>3, <2>4, <2>5 DEF TaskInv
<1>7. DistinctPackets'
  BY <1>1 DEF IngestInv, DistinctPackets, Storing, Correlating
<1>8. CountedCovered'
  BY <1>1, <1>3 DEF IngestInv, CountedCovered
<1> QED BY <1>4, <1>5, <1>6, <1>7, <1>8 DEF IngestInv

LEMMA AbortStep ==
  ASSUME IngestInv, NEW t \in Task, Abort(t) PROVE IngestInv'
<1>1. /\ pc \in [Task -> {"idle"} \cup Step \cup Answer] /\ pc[t] \in Step /\ pc' = [pc EXCEPT ![t] = "aborted"]
      /\ ReleaseAll(t) /\ t \in Session /\ locks \in [Session -> SUBSET Row]
      /\ UNCHANGED <<incidents, zones, risks, keys, reports, tx, counted>>
  BY TaskIsSession DEF Abort, IngestInv, IngestTypeOK
<1>2. IngestTypeOK'
  BY <1>1, ReleaseType DEF IngestInv, IngestTypeOK, StoreTypeOK, Answer
<1>3. RowLocksExclusive'
  BY <1>1, ReleaseKeepsExclusive DEF IngestInv
<1>4. ASSUME NEW u \in Task PROVE TaskInv(u)'
  <2>1. CASE u = t
    BY <2>1, <1>1 DEF IngestInv, TaskInv, HasPacket, HasCategory, ReportPending, NotCounted, CountedHere,
                      NoIncidentYet, JoinsLocked, CreatesOwn, ZoneExists,
                      Step, Storing, Correlating, Undecided, Decided
  <2>2. CASE u # t
    BY <2>2, <1>1, Undisturbed, IngestionAssumption DEF IngestInv, ReleaseAll
  <2> QED BY <2>1, <2>2
<1>5. DistinctPackets'
  BY <1>1 DEF IngestInv, DistinctPackets, Storing, Correlating
<1>6. CountedCovered'
  BY <1>1 DEF IngestInv, CountedCovered
<1> QED BY <1>2, <1>3, <1>4, <1>5, <1>6 DEF IngestInv

LEMMA LeaveWindowStep ==
  ASSUME IngestInv, NEW i \in IncidentId, LeaveWindow(i) PROVE IngestInv'
<1>1. /\ incidents \in [IncidentId -> Incident \cup {None}] /\ incidents[i] \in Incident
      /\ incidents' = [incidents EXCEPT ![i].recent = FALSE]
      /\ UNCHANGED <<zones, risks, locks, keys, reports, pc, tx, counted>>
  BY DEF LeaveWindow, IngestInv, IngestTypeOK, StoreTypeOK, ingestVars
<1>2. incidents'[i] \in Incident /\ incidents'[i] # None /\ incidents'[i].priority = incidents[i].priority
  BY <1>1, StoreAssumption DEF Incident
<1>3. \A j \in IncidentId : /\ incidents'[j] # None <=> incidents[j] # None
                            /\ incidents[j] # None => incidents'[j].priority = incidents[j].priority
  BY <1>1, <1>2, StoreAssumption
<1>4. IngestTypeOK'
  BY <1>1, <1>2 DEF IngestInv, IngestTypeOK, StoreTypeOK
<1>5. ASSUME NEW u \in Task PROVE TaskInv(u)'
  <2>1. TaskInv(u) /\ tx[u] \in Tx /\ u \in IncidentId /\ tx[u].incident \in IncidentId
    BY TaskIsSession DEF IngestInv, Tx
  <2> QED BY <2>1, <1>1, <1>3
          DEF TaskInv, HasPacket, HasCategory, ReportPending, NotCounted, CountedHere,
              NoIncidentYet, JoinsLocked, CreatesOwn, ZoneExists
<1>6. (RowLocksExclusive /\ DistinctPackets)'
  BY <1>1 DEF IngestInv, RowLocksExclusive, DistinctPackets
<1>7. CountedCovered'
  BY <1>1, <1>3 DEF IngestInv, IngestTypeOK, CountedCovered
<1> QED BY <1>4, <1>5, <1>6, <1>7 DEF IngestInv

LEMMA RegisterKeyStep ==
  ASSUME IngestInv, NEW k \in Key, RegisterKey(k) PROVE IngestInv'
<1>1. UNCHANGED <<incidents, zones, risks, locks, reports, pc, tx, counted>>
  BY DEF RegisterKey, storeVars
<1>2. IngestTypeOK'
  BY DEF RegisterKey, IngestInv, IngestTypeOK, StoreTypeOK, storeVars
<1>3. ASSUME NEW u \in Task PROVE TaskInv(u)'
  BY <1>1, Undisturbed DEF IngestInv
<1>4. (RowLocksExclusive /\ DistinctPackets /\ CountedCovered)'
  BY <1>1 DEF IngestInv, RowLocksExclusive, DistinctPackets, CountedCovered
<1> QED BY <1>2, <1>3, <1>4 DEF IngestInv

LEMMA InvStep == IngestInv /\ [IngestNext]_ingestAll => IngestInv'
<1> SUFFICES ASSUME IngestInv, [IngestNext]_ingestAll PROVE IngestInv'
  OBVIOUS
<1>1. CASE UNCHANGED ingestAll
  <2>1. UNCHANGED <<incidents, zones, risks, locks, keys, reports, pc, tx, counted>>
    BY <1>1 DEF ingestAll, storeVars, ingestVars
  <2>2. ASSUME NEW u \in Task PROVE TaskInv(u)'
    BY <2>1, Undisturbed DEF IngestInv
  <2>3. (IngestTypeOK /\ RowLocksExclusive /\ DistinctPackets /\ CountedCovered)'
    BY <2>1 DEF IngestInv, IngestTypeOK, StoreTypeOK, RowLocksExclusive, DistinctPackets, CountedCovered
  <2> QED BY <2>2, <2>3 DEF IngestInv
<1>2. CASE IngestNext
  <2>1. CASE \E k \in Key : RegisterKey(k)
    BY <2>1, RegisterKeyStep
  <2>2. ASSUME NEW t \in Task, (\E m \in Msg : Deliver(t, m)) \/ Process(t) \/ Abort(t) PROVE IngestInv'
    BY <2>2, DeliverStep, DeduplicateStep, VerifyStep, ScoreStep, InsertReportStep, SelectIncidentsStep,
       CorrelateStep, FindZoneStep, FlushZoneStep, CountIncidentsStep, RaiseToRiskStep,
       CommitCorrelationStep, LinkReportStep, NotifyStep, AbortStep DEF Process
  <2>3. CASE \E i \in IncidentId : LeaveWindow(i)
    BY <2>3, LeaveWindowStep
  <2> QED BY <1>2, <2>1, <2>2, <2>3 DEF IngestNext
<1> QED BY <1>1, <1>2

(* The inductive invariant holds in every reachable state.                 *)
THEOREM IngestInvariant == IngestSpec => []IngestInv
  BY InvInit, InvStep, PTL DEF IngestSpec, IngestStart

(* Every variable keeps its type: in particular no zone is counted or      *)
(* rated from a row that does not exist.                                   *)
THEOREM IngestTypeCorrect == IngestSpec => []IngestTypeOK
<1>1. IngestInv => IngestTypeOK
  BY DEF IngestInv
<1> QED BY <1>1, IngestInvariant, PTL

(* However many deliveries raise the priority of one incident at once, no  *)
(* report is graver than the incident that counts it.                      *)
THEOREM PriorityCorrect == IngestSpec => []PriorityCoversReports
<1>1. IngestInv => PriorityCoversReports
  BY DEF IngestInv, CountedCovered, PriorityCoversReports
<1> QED BY <1>1, IngestInvariant, PTL
-----------------------------------------------------------------------------
LEMMA UnlinkedStep ==
  ASSUME IngestInv, UnlinkedOnlyByAbort, [IngestNext]_ingestAll PROVE UnlinkedOnlyByAbort'
<1> DEFINE Lost == Correlating \cup {"link", "aborted"}
<1>1. IngestTypeOK /\ pc \in [Task -> {"idle"} \cup Step \cup Answer] /\ tx \in [Task -> Tx]
  BY DEF IngestInv, IngestTypeOK
<1>2. CASE UNCHANGED <<reports, pc, tx>>
  BY <1>2 DEF UnlinkedOnlyByAbort
<1>3. ASSUME NEW t \in Task, UNCHANGED reports, \A u \in Task \ {t} : pc'[u] = pc[u] /\ tx'[u] = tx[u],
             pc[t] \in Lost => pc'[t] \in Lost /\ tx'[t].msg = tx[t].msg
      PROVE  UnlinkedOnlyByAbort'
  BY <1>3 DEF UnlinkedOnlyByAbort
<1>4. ASSUME NEW t \in Task, NEW m \in Msg, Deliver(t, m) PROVE UnlinkedOnlyByAbort'
  BY <1>1, <1>3, <1>4 DEF Deliver, Goto, Correlating
<1>5. ASSUME NEW t \in Task, Deduplicate(t) \/ Verify(t) \/ Score(t) \/ Notify(t) PROVE UnlinkedOnlyByAbort'
  BY <1>1, <1>3, <1>5 DEF Deduplicate, Verify, Score, Notify, Goto, Correlating
<1>6. ASSUME NEW t \in Task, InsertReport(t) PROVE UnlinkedOnlyByAbort'
  <2>1. pc[t] = "insert" /\ tx' = tx /\ (\A u \in Task \ {t} : pc'[u] = pc[u]) /\ tx[t].msg \in Msg
    BY <1>1, <1>6 DEF InsertReport, Goto, IngestInv, TaskInv, HasPacket
  <2>2. CASE ~Unique(tx[t].msg)
    BY <2>1, <2>2, <1>3, <1>6 DEF InsertReport, Correlating
  <2>3. CASE Unique(tx[t].msg)
    <3>1. pc'[t] = "select" /\ \A n \in Msg : n # tx[t].msg => reports'[n] = reports[n]
      BY <1>1, <1>6, <2>3 DEF InsertReport, Goto, IngestTypeOK
    <3>2. ASSUME NEW n \in Msg, reports'[n] # None, reports'[n].incident = None
          PROVE  \E u \in Task : tx'[u].msg = n /\ pc'[u] \in Lost
      <4>1. CASE n = tx[t].msg
        BY <4>1, <2>1, <3>1 DEF Correlating
      <4>2. CASE n # tx[t].msg
        BY <4>2, <2>1, <3>1, <3>2 DEF UnlinkedOnlyByAbort, Correlating
      <4> QED BY <4>1, <4>2
    <3> QED BY <3>2 DEF UnlinkedOnlyByAbort
  <2> QED BY <2>2, <2>3
<1>7. ASSUME NEW t \in Task, \/ SelectIncidents(t) \/ Correlate(t) \/ FindZone(t) \/ FlushZone(t)
                             \/ CountIncidents(t) \/ RaiseToRisk(t)
      PROVE  UnlinkedOnlyByAbort'
  <2>1. pc[t] \in Correlating /\ pc'[t] \in Correlating /\ (\A u \in Task \ {t} : pc'[u] = pc[u]) /\ UNCHANGED reports
    BY <1>1, <1>7
       DEF SelectIncidents, Correlate, FindZone, FlushZone, CountIncidents, RaiseToRisk, Goto, Correlating
  <2>2. tx'[t].msg = tx[t].msg /\ \A u \in Task \ {t} : tx'[u] = tx[u]
    <3> tx[t] \in Tx
      BY <1>1
    <3>1. CASE SelectIncidents(t)
      BY <1>1, <3>1 DEF SelectIncidents, Tx
    <3>2. CASE Correlate(t)
      <4>1. PICK joins, i, r : tx' = [tx EXCEPT ![t].joins = joins, ![t].incident = i, ![t].raise = r]
        BY <3>2 DEF Correlate
      <4> QED BY <1>1, <4>1 DEF Tx
    <3>3. CASE FindZone(t)
      <4>1. CASE \E z \in NearestZones(IncidentPlace(t)) :
                   tx' = [tx EXCEPT ![t].found = TRUE, ![t].zone = z,
                            ![t].seenCount = zones[z].count, ![t].seenStatus = zones[z].status]
        BY <1>1, <4>1 DEF Tx
      <4>2. CASE tx' = [tx EXCEPT ![t].found = FALSE, ![t].zone = t,
                          ![t].seenCount = 0, ![t].seenStatus = NORMAL]
        BY <1>1, <4>2 DEF Tx
      <4> QED BY <3>3, <4>1, <4>2 DEF FindZone
    <3>4. CASE FlushZone(t)
      BY <1>1, <3>4 DEF FlushZone
    <3>5. CASE CountIncidents(t)
      BY <1>1, <3>5 DEF CountIncidents, Tx
    <3>6. CASE RaiseToRisk(t)
      BY <1>1, <3>6 DEF RaiseToRisk, Tx
    <3> QED BY <1>7, <3>1, <3>2, <3>3, <3>4, <3>5, <3>6
  <2> QED BY <2>1, <2>2, <1>3
<1>9. ASSUME NEW t \in Task, CommitCorrelation(t) \/ Abort(t) PROVE UnlinkedOnlyByAbort'
  BY <1>1, <1>3, <1>9 DEF CommitCorrelation, Abort, Goto, Correlating
<1>10. ASSUME NEW t \in Task, LinkReport(t) PROVE UnlinkedOnlyByAbort'
  <2>1. /\ pc[t] = "link" /\ tx' = tx /\ (\A u \in Task \ {t} : pc'[u] = pc[u])
        /\ reports' = [reports EXCEPT ![tx[t].msg].incident = tx[t].incident]
        /\ reports[tx[t].msg] \in Report /\ tx[t].msg \in Msg /\ tx[t].incident \in IncidentId
        /\ reports \in [Msg -> Report \cup {None}]
    BY <1>1, <1>10 DEF LinkReport, Goto, IngestInv, IngestTypeOK, TaskInv, HasPacket, ReportPending, Storing, Tx
  <2>2. reports'[tx[t].msg].incident # None /\ \A n \in Msg : n # tx[t].msg => reports'[n] = reports[n]
    BY <2>1, StoreAssumption DEF Report
  <2> QED BY <2>1, <2>2 DEF UnlinkedOnlyByAbort
<1>11. ASSUME NEW k \in Key, RegisterKey(k) PROVE UnlinkedOnlyByAbort'
  BY <1>2, <1>11 DEF RegisterKey
<1>12. ASSUME NEW i \in IncidentId, LeaveWindow(i) PROVE UnlinkedOnlyByAbort'
  BY <1>2, <1>12 DEF LeaveWindow, ingestVars
<1> QED BY <1>2, <1>4, <1>5, <1>6, <1>7, <1>9, <1>10, <1>11, <1>12
        DEF IngestNext, Process, ingestAll, ingestVars

(* A report stays without an incident only while the delivery that stored  *)
(* it is at work, or because that delivery was cut off.                    *)
THEOREM UnlinkedCorrect == IngestSpec => []UnlinkedOnlyByAbort
<1>1. StoreInit /\ IngestInit => UnlinkedOnlyByAbort
  BY DEF IngestInit, UnlinkedOnlyByAbort
<1>2. IngestInv /\ UnlinkedOnlyByAbort /\ [IngestNext]_ingestAll => UnlinkedOnlyByAbort'
  BY UnlinkedStep
<1> QED BY <1>1, <1>2, IngestInvariant, PTL DEF IngestSpec, IngestStart
-----------------------------------------------------------------------------
LEMMA LedgerStep ==
  ASSUME IngestInv, [IngestNext]_ingestAll PROVE [Ledger!Next]_(Ledger!ledger)
<1> DEFINE Stored == {m \in Msg : reports[m] # None}
           Linked == [m \in Msg |-> IF reports[m] = None THEN None ELSE reports[m].incident]
           Tally  == [i \in IncidentId |-> IF incidents[i] = None THEN 0 ELSE incidents[i].count]
<1>1. CASE UNCHANGED <<incidents, reports, counted>>
  BY <1>1 DEF Ledger!ledger
<1>2. ASSUME NEW t \in Task, InsertReport(t) PROVE [Ledger!Next]_(Ledger!ledger)
  <2>0. PICK m \in Msg : m = tx[t].msg
    BY <1>2 DEF InsertReport, Goto, IngestInv, TaskInv, HasPacket
  <2> DEFINE r == [level |-> tx[t].level, incident |-> None]
  <2>1. /\ reports \in [Msg -> Report \cup {None}] /\ tx[t].level \in Priority
        /\ UNCHANGED <<incidents, counted>>
    BY <1>2 DEF InsertReport, IngestInv, IngestTypeOK, storeVars, Tx
  <2>2. CASE Unique(m)
    <3>1. reports[m] = None /\ reports' = [reports EXCEPT ![m] = r]
      BY <1>2, <2>0, <2>2 DEF InsertReport, Unique
    <3>2. r # None /\ r.incident = None
      BY <2>1, IngestionAssumption DEF Report
    <3> HIDE DEF r
    <3>3. m \notin Stored /\ Stored' = Stored \cup {m}
      BY <2>1, <3>1, <3>2
    <3>4. Linked' = Linked
      BY <2>1, <3>1, <3>2
    <3>5. Ledger!Store(m)
      BY <2>1, <3>3, <3>4 DEF Ledger!Store
    <3> QED BY <2>1, <3>5 DEF Ledger!Next
  <2>3. CASE ~Unique(m)
    BY <1>1, <1>2, <2>0, <2>1, <2>3 DEF InsertReport
  <2> QED BY <2>2, <2>3
<1>3. ASSUME NEW t \in Task, CommitCorrelation(t) PROVE [Ledger!Next]_(Ledger!ledger)
  <2>0. PICK m \in Msg, i \in IncidentId : m = tx[t].msg /\ i = tx[t].incident
    BY <1>3 DEF CommitCorrelation, Goto, IngestInv, IngestTypeOK, TaskInv, HasPacket, Tx
  <2> DEFINE new == IncidentAfter(t)
  <2>1. /\ reports[m] # None /\ counted[m] = None /\ TaskInv(t)
        /\ pc[t] = "commit" /\ incidents \in [IncidentId -> Incident \cup {None}]
        /\ incidents' = [incidents EXCEPT ![i] = new]
        /\ counted' = [counted EXCEPT ![m] = i] /\ UNCHANGED reports
    BY <1>3, <2>0 DEF CommitCorrelation, Goto, IngestInv, IngestTypeOK, StoreTypeOK, TaskInv,
                      ReportPending, NotCounted, Storing, Correlating
  <2>2. new \in Incident /\ new # None
    BY <1>3, CommitCorrelationTypes, StoreAssumption
  <2>3. new.count = Tally[i] + 1
    <3>1. CASE tx[t].joins
      <4>1. incidents[i] \in Incident
        BY <3>1, <2>0, <2>1 DEF TaskInv, JoinsLocked, Decided
      <4> QED BY <3>1, <4>1, <2>0, <2>1, StoreAssumption DEF IncidentAfter, Incident
    <3>2. CASE ~tx[t].joins
      BY <3>2, <2>0, <2>1 DEF IncidentAfter, TaskInv, NoIncidentYet, CreatesOwn, Decided
    <3> QED BY <3>1, <3>2
  <2> HIDE DEF new
  <2>4. Tally' = [Tally EXCEPT ![i] = @ + 1]
    BY <2>1, <2>2, <2>3
  <2>5. Ledger!Count(m, i)
    BY <2>1, <2>4 DEF Ledger!Count
  <2> QED BY <2>1, <2>5 DEF Ledger!Next
<1>4. ASSUME NEW t \in Task, LinkReport(t) PROVE [Ledger!Next]_(Ledger!ledger)
  <2>0. PICK m \in Msg, i \in IncidentId : m = tx[t].msg /\ i = tx[t].incident
    BY <1>4 DEF LinkReport, Goto, IngestInv, IngestTypeOK, TaskInv, HasPacket, Tx
  <2>1. /\ reports[m] \in Report /\ reports[m] # None
        /\ reports[m].incident = None /\ counted[m] = i /\ reports \in [Msg -> Report \cup {None}]
        /\ reports' = [reports EXCEPT ![m].incident = i] /\ UNCHANGED <<incidents, counted>>
    BY <1>4, <2>0 DEF LinkReport, Goto, IngestInv, IngestTypeOK, TaskInv, ReportPending, CountedHere,
                      Storing, storeVars
  <2>2. reports'[m] \in Report /\ reports'[m] # None /\ reports'[m].incident = i
    BY <2>1, IngestionAssumption DEF Report
  <2>3. Stored' = Stored
    BY <2>1, <2>2
  <2>4. Linked' = [Linked EXCEPT ![m] = counted[m]]
    BY <2>1, <2>2
  <2>5. Ledger!Link(m)
    BY <2>1, <2>3, <2>4, StoreAssumption DEF Ledger!Link
  <2> QED BY <2>1, <2>5 DEF Ledger!Next
<1>5. ASSUME NEW i \in IncidentId, LeaveWindow(i) PROVE [Ledger!Next]_(Ledger!ledger)
  <2>1. /\ incidents \in [IncidentId -> Incident \cup {None}] /\ incidents[i] \in Incident
        /\ incidents' = [incidents EXCEPT ![i].recent = FALSE] /\ UNCHANGED <<reports, counted>>
    BY <1>5 DEF LeaveWindow, ingestVars, IngestInv, IngestTypeOK, StoreTypeOK
  <2>2. incidents'[i] # None /\ incidents[i] # None /\ incidents'[i].count = incidents[i].count
    BY <2>1, StoreAssumption DEF Incident
  <2>3. Tally' = Tally
    BY <2>1, <2>2
  <2> QED BY <2>1, <2>3 DEF Ledger!ledger
<1> QED BY <1>1, <1>2, <1>3, <1>4, <1>5
        DEF IngestNext, Process, ingestAll, ingestVars, storeVars, RegisterKey, Deliver, Deduplicate, Verify,
            Score, SelectIncidents, Correlate, FindZone, FlushZone, CountIncidents, RaiseToRisk, Notify, Abort

(* The tables implement the ledger: each packet is stored, counted and     *)
(* linked at most once, whatever deliveries overlap, repeat or are cut off.*)
THEOREM LedgerImplemented == IngestSpec => LedgerSpec
<1>1. StoreInit /\ IngestInit => Ledger!Init
  BY DEF StoreInit, IngestInit, Ledger!Init
<1>2. IngestInv /\ [IngestNext]_ingestAll => [Ledger!Next]_(Ledger!ledger)
  BY LedgerStep
<1> QED BY <1>1, <1>2, IngestInvariant, PTL DEF IngestSpec, IngestStart, LedgerSpec, Ledger!Spec

(* What the ledger promises holds of the ledger read off the tables.       *)
LedgerInv ==
  /\ Ledger!TallyExact
  /\ Ledger!LinkedWhereCounted
  /\ counted \in [Msg -> IncidentId \cup {None}]

(* The ledger counts with the same Cardinality.                            *)
LEMMA SameCardinality == \A S : Ledger!Cardinality(S) = Cardinality(S)
BY DEF Cardinality, Ledger!Cardinality

LEMMA LedgerInvInit == Ledger!Init => LedgerInv
<1> SUFFICES ASSUME Ledger!Init PROVE LedgerInv
  OBVIOUS
<1> DEFINE Linked == [m \in Msg |-> IF reports[m] = None THEN None ELSE reports[m].incident]
           Tally  == [i \in IncidentId |-> IF incidents[i] = None THEN 0 ELSE incidents[i].count]
<1>1. /\ counted = [m \in Msg |-> None] /\ Linked = [m \in Msg |-> None]
      /\ Tally = [i \in IncidentId |-> 0]
  BY DEF Ledger!Init
<1> HIDE DEF Linked, Tally
<1>2. ASSUME NEW i \in IncidentId PROVE Tally[i] = Cardinality({m \in Msg : counted[m] = i})
  <2>1. {m \in Msg : counted[m] = i} = {}
    BY <1>1, StoreAssumption
  <2> QED BY <1>1, <2>1, FS_EmptySet
<1>3. \A m \in Msg : Linked[m] # None => Linked[m] = counted[m]
  BY <1>1
<1>4. Ledger!TallyExact
  BY <1>2, SameCardinality DEF Ledger!TallyExact, Tally
<1>5. Ledger!LinkedWhereCounted
  BY <1>3 DEF Ledger!LinkedWhereCounted, Linked
<1> QED BY <1>1, <1>4, <1>5 DEF LedgerInv

(* Counting a packet that was not counted adds one element to one set.     *)
LEMMA LedgerInvStep ==
  ASSUME IsFiniteSet(Msg)
  PROVE  LedgerInv /\ [Ledger!Next]_(Ledger!ledger) => LedgerInv'
<1> SUFFICES ASSUME LedgerInv, [Ledger!Next]_(Ledger!ledger) PROVE LedgerInv'
  OBVIOUS
<1> DEFINE Linked == [m \in Msg |-> IF reports[m] = None THEN None ELSE reports[m].incident]
           Tally  == [i \in IncidentId |-> IF incidents[i] = None THEN 0 ELSE incidents[i].count]
           CountedIn(i) == {m \in Msg : counted[m] = i}
<1>1. /\ DOMAIN Linked = Msg /\ DOMAIN Tally = IncidentId
      /\ Linked = [m \in Msg |-> Linked[m]] /\ Tally = [i \in IncidentId |-> Tally[i]]
  OBVIOUS
<1>2. /\ \A i \in IncidentId : Tally[i] = Cardinality(CountedIn(i))
      /\ \A m \in Msg : Linked[m] # None => Linked[m] = counted[m]
      /\ counted \in [Msg -> IncidentId \cup {None}]
  BY SameCardinality DEF LedgerInv, Ledger!TallyExact, Ledger!LinkedWhereCounted
<1>3. \/ UNCHANGED <<counted, Linked, Tally>>
      \/ \E m \in Msg : /\ counted[m] # None /\ Linked' = [Linked EXCEPT ![m] = counted[m]]
                        /\ UNCHANGED <<counted, Tally>>
      \/ \E m \in Msg, i \in IncidentId :
           /\ counted[m] = None /\ counted' = [counted EXCEPT ![m] = i]
           /\ Tally' = [Tally EXCEPT ![i] = @ + 1] /\ UNCHANGED Linked
  <2>1. CASE UNCHANGED Ledger!ledger
    BY <2>1 DEF Ledger!ledger
  <2>2. ASSUME NEW m \in Msg, Ledger!Store(m) PROVE UNCHANGED <<counted, Linked, Tally>>
    BY <2>2 DEF Ledger!Store
  <2>3. ASSUME NEW m \in Msg, Ledger!Link(m)
        PROVE  /\ counted[m] # None /\ Linked' = [Linked EXCEPT ![m] = counted[m]]
               /\ UNCHANGED <<counted, Tally>>
    BY <2>3 DEF Ledger!Link
  <2>4. ASSUME NEW m \in Msg, NEW i \in IncidentId, Ledger!Count(m, i)
        PROVE  /\ counted[m] = None /\ counted' = [counted EXCEPT ![m] = i]
               /\ Tally' = [Tally EXCEPT ![i] = @ + 1] /\ UNCHANGED Linked
    BY <2>4 DEF Ledger!Count
  <2> HIDE DEF Linked, Tally
  <2> QED BY <2>1, <2>2, <2>3, <2>4 DEF Ledger!Next
<1> HIDE DEF Linked, Tally
<1>4. ASSUME NEW m \in Msg, NEW i \in IncidentId, NEW j \in IncidentId,
             counted[m] = None, counted' = [counted EXCEPT ![m] = i],
             Tally' = [Tally EXCEPT ![i] = @ + 1]
      PROVE  Tally'[j] = Cardinality(CountedIn(j))'
  <2> DEFINE before == CountedIn(j)
             after == CountedIn(j)'
  <2>1. IsFiniteSet(before) /\ Tally[j] = Cardinality(before)
    BY <1>2, FS_Subset
  <2>2. CASE j = i
    <3>1. m \notin before /\ after = before \cup {m}
      BY <1>2, <1>4, <2>2, StoreAssumption
    <3>2. Cardinality(after) = Cardinality(before) + 1
      BY <2>1, <3>1, FS_AddElement
    <3> QED BY <1>1, <1>4, <2>1, <2>2, <3>2
  <2>3. CASE j # i
    <3>1. after = before
      BY <1>2, <1>4, <2>3, StoreAssumption
    <3> QED BY <1>1, <1>4, <2>1, <2>3, <3>1
  <2> QED BY <2>2, <2>3
<1>5. /\ \A i \in IncidentId : Tally'[i] = Cardinality(CountedIn(i))'
      /\ \A m \in Msg : Linked'[m] # None => Linked'[m] = counted'[m]
      /\ counted' \in [Msg -> IncidentId \cup {None}]
  <2>1. CASE UNCHANGED <<counted, Linked, Tally>>
    BY <1>2, <2>1
  <2>2. CASE \E m \in Msg : /\ counted[m] # None /\ Linked' = [Linked EXCEPT ![m] = counted[m]]
                            /\ UNCHANGED <<counted, Tally>>
    BY <1>1, <1>2, <2>2
  <2>3. ASSUME NEW m \in Msg, NEW i \in IncidentId,
               counted[m] = None, counted' = [counted EXCEPT ![m] = i],
               Tally' = [Tally EXCEPT ![i] = @ + 1], UNCHANGED Linked
        PROVE  /\ \A k \in IncidentId : Tally'[k] = Cardinality(CountedIn(k))'
               /\ \A k \in Msg : Linked'[k] # None => Linked'[k] = counted'[k]
               /\ counted' \in [Msg -> IncidentId \cup {None}]
    <3>1. \A k \in Msg : Linked'[k] # None => Linked'[k] = counted'[k]
      BY <1>2, <2>3
    <3>2. \A k \in IncidentId : Tally'[k] = Cardinality(CountedIn(k))'
      BY <1>4, <2>3
    <3>3. counted' \in [Msg -> IncidentId \cup {None}]
      BY <1>2, <2>3
    <3> QED BY <3>1, <3>2, <3>3
  <2> QED BY <1>3, <2>1, <2>2, <2>3
<1>6. Ledger!TallyExact'
  BY <1>5, SameCardinality DEF Ledger!TallyExact, Tally
<1>7. Ledger!LinkedWhereCounted'
  BY <1>5 DEF Ledger!LinkedWhereCounted, Linked
<1> QED BY <1>5, <1>6, <1>7 DEF LedgerInv

(* What the ledger promises: a tally counts the packets of its incident    *)
(* and a report names no other incident than the one that counted it.      *)
THEOREM LedgerExact ==
  ASSUME IsFiniteSet(Msg)
  PROVE  LedgerSpec => [](Ledger!TallyExact /\ Ledger!LinkedWhereCounted)
<1>1. LedgerInv => Ledger!TallyExact /\ Ledger!LinkedWhereCounted
  BY DEF LedgerInv
<1> QED BY <1>1, LedgerInvInit, LedgerInvStep, PTL DEF LedgerSpec, Ledger!Spec

(* So the report_count of every incident row is the number of packets      *)
(* counted in it, after any overlapping, repeated or failed deliveries.    *)
THEOREM TalliesCorrect ==
  ASSUME IsFiniteSet(Msg)
  PROVE  IngestSpec => [](Ledger!TallyExact /\ Ledger!LinkedWhereCounted)
BY LedgerExact, LedgerImplemented, PTL
-----------------------------------------------------------------------------
(* The zones.  The zone of a place is the seeded one nearest to it.        *)
Home(p) == CHOOSE z \in ZoneId : IsHome(p, z)

(* No zone is ever created, and no risk arrives.                           *)
SeededOnly ==
  \A z \in ZoneId :
    IF z \in DOMAIN SeedPlace THEN zones[z] # None /\ zones[z].place = SeedPlace[z] ELSE zones[z] = None

NoRiskYet == \A z \in ZoneId : risks[z].level = NORMAL

(* Every incident is open, and in the zone of its place.                   *)
AtHome ==
  \A i \in IncidentId : incidents[i] # None =>
    incidents[i].zone = Home(incidents[i].place) /\ incidents[i].status = "NEW"

FinitelyMany == IsFiniteSet({i \in IncidentId : incidents[i] # None})

(* The status the zone has to have once delivery t commits.                *)
Others(t) == OpenIn(tx[t].zone) \ {tx[t].incident}
Foreseen(t) ==
  SosStatus(Cardinality(Others(t)) + 1, {incidents[i].priority : i \in Others(t)} \cup {OwnPriority(t)})

ZoneChosen(t) == pc[t] \in Decided \ {"zone"} =>
  /\ tx[t].found
  /\ tx[t].zone = Home(IncidentPlace(t))
  /\ tx[t].seenStatus <= zones[tx[t].zone].status

ZoneLocked(t) == pc[t] \in {"severity", "raise", "commit"} => ZoneRow(tx[t].zone) \in locks[t]

StatusForeseen(t) == pc[t] \in {"raise", "commit"} => tx[t].status = Foreseen(t)

ZoneTaskInv(t) == ZoneChosen(t) /\ ZoneLocked(t) /\ StatusForeseen(t)

StatusExact == \A z \in ZoneId : zones[z] # None => zones[z].status = JustifiedStatus(z)

ZoneInv ==
  /\ SeededOnly
  /\ NoRiskYet
  /\ AtHome
  /\ FinitelyMany
  /\ \A t \in Task : ZoneTaskInv(t)
  /\ StatusExact
-----------------------------------------------------------------------------
LEMMA HomeType == ASSUME SeedsCover, NEW p \in Place PROVE Home(p) \in ZoneId /\ IsHome(p, Home(p))
  BY DEF SeedsCover, Home

LEMMA DistType ==
  /\ \A z \in DOMAIN SeedPlace : SeedPlace[z] \in Place
  /\ \A p, q \in Place : Dist[p, q] \in Nat
<1>1. Dist \in [Place \X Place -> Nat] /\ \A z \in DOMAIN SeedPlace : SeedPlace[z] \in Place
  BY StoreAssumption
<1>2. ASSUME NEW p \in Place, NEW q \in Place PROVE Dist[p, q] \in Nat
  BY ONLY <1>1, <1>2
<1> QED BY <1>1, <1>2

LEMMA NearestIsHome ==
  ASSUME SeedsCover, SeededOnly, NEW p \in Place, NEW z \in NearestZones(p)
  PROVE  z = Home(p)
<1>1. Home(p) \in ZoneId /\ IsHome(p, Home(p))
  BY HomeType
<1>2. z \in ZoneId /\ zones[z] # None
  BY DEF NearestZones, ZonesNear
<1>3. z \in DOMAIN SeedPlace /\ zones[z].place = SeedPlace[z]
  BY <1>2 DEF SeededOnly
<1>4. zones[Home(p)] # None /\ zones[Home(p)].place = SeedPlace[Home(p)]
  BY <1>1 DEF SeededOnly, IsHome
<1>5. Home(p) \in ZonesNear(p)
  BY <1>1, <1>4 DEF ZonesNear, IsHome
<1>6. Dist[p, SeedPlace[z]] <= Dist[p, SeedPlace[Home(p)]]
  BY <1>3, <1>4, <1>5 DEF NearestZones
<1>7. Dist[p, SeedPlace[z]] \in Nat /\ Dist[p, SeedPlace[Home(p)]] \in Nat
  <2>1. SeedPlace[z] \in Place /\ SeedPlace[Home(p)] \in Place
    BY <1>1, <1>3, DistType DEF IsHome
  <2> QED BY ONLY <2>1, DistType, p \in Place
<1>8. z # Home(p) => Dist[p, SeedPlace[Home(p)]] < Dist[p, SeedPlace[z]]
  BY <1>1, <1>3 DEF IsHome
<1> DEFINE a == Dist[p, SeedPlace[z]]
           b == Dist[p, SeedPlace[Home(p)]]
<1>9. a <= b /\ a \in Nat /\ b \in Nat /\ (z # Home(p) => b < a)
  BY <1>6, <1>7, <1>8
<1> HIDE DEF a, b
<1> QED BY <1>9

LEMMA HomeIsNearest ==
  ASSUME SeedsCover, SeededOnly, NEW p \in Place
  PROVE  NearestZones(p) # {}
<1>1. Home(p) \in ZoneId /\ IsHome(p, Home(p))
  BY HomeType
<1>2. zones[Home(p)] # None /\ zones[Home(p)].place = SeedPlace[Home(p)]
  BY <1>1 DEF SeededOnly, IsHome
<1>3. Home(p) \in ZonesNear(p)
  BY <1>1, <1>2 DEF ZonesNear, IsHome
<1>4. ASSUME NEW y \in ZonesNear(p) PROVE Dist[p, zones[Home(p)].place] <= Dist[p, zones[y].place]
  <2>1. y \in DOMAIN SeedPlace /\ zones[y].place = SeedPlace[y]
    BY DEF ZonesNear, SeededOnly
  <2>2. Dist[p, SeedPlace[y]] \in Nat /\ Dist[p, SeedPlace[Home(p)]] \in Nat
    <3>1. SeedPlace[y] \in Place /\ SeedPlace[Home(p)] \in Place
      BY <1>1, <2>1, DistType DEF IsHome
    <3> QED BY ONLY <3>1, DistType, p \in Place
  <2> DEFINE a == Dist[p, SeedPlace[Home(p)]]
             b == Dist[p, SeedPlace[y]]
  <2>3. a \in Nat /\ b \in Nat /\ (y # Home(p) => a < b) /\ (y = Home(p) => a = b)
    <3>1. \A x \in DOMAIN SeedPlace \ {Home(p)} : Dist[p, SeedPlace[Home(p)]] < Dist[p, SeedPlace[x]]
      BY <1>1 DEF IsHome
    <3> QED BY <2>1, <2>2, <3>1
  <2>4. a <= b
    <3> HIDE DEF a, b
    <3> QED BY <2>3
  <2> QED BY <1>2, <2>1, <2>4
<1> QED BY <1>3, <1>4 DEF NearestZones

(* More incidents, and graver ones, never justify a lower status.          *)
LEMMA SosStatusMonotone ==
  ASSUME NEW n \in Nat, NEW m \in Nat, n <= m, NEW P \in SUBSET Priority, NEW Q \in SUBSET Priority,
         \A p \in P : \E q \in Q : p <= q
  PROVE  SosStatus(n, P) <= SosStatus(m, Q)
<1> USE DEF Priority, P_LOW, P_HIGH, P_CRITICAL, NORMAL, EMERGING, HIGH, CRITICAL, EXTREME
<1>1. P \cap {P_HIGH, P_CRITICAL} # {} => Q \cap {P_HIGH, P_CRITICAL} # {}
  OBVIOUS
<1>2. P_CRITICAL \in P => P_CRITICAL \in Q
  OBVIOUS
<1> QED BY <1>1, <1>2, SeverityAssumption DEF SosStatus
-----------------------------------------------------------------------------
LEMMA ZoneInvInit == ASSUME SeedsCover PROVE StoreInit /\ IngestInit => ZoneInv
<1> SUFFICES ASSUME StoreInit, IngestInit PROVE ZoneInv
  OBVIOUS
<1>1. SeededOnly
  <2> SUFFICES ASSUME NEW z \in ZoneId, z \in DOMAIN SeedPlace
               PROVE  zones[z] # None /\ zones[z].place = SeedPlace[z]
    BY DEF StoreInit, SeededOnly
  <2>1. zones[z] = [place |-> SeedPlace[z], count |-> 0, status |-> NORMAL]
    BY DEF StoreInit
  <2>2. [place |-> SeedPlace[z], count |-> 0, status |-> NORMAL] \in Zone
    BY StoreAssumption DEF Zone, Status, NORMAL, EXTREME
  <2> QED BY <2>1, <2>2, StoreAssumption
<1>2. NoRiskYet /\ AtHome
  BY DEF StoreInit, NoRiskYet, NoRisk, AtHome
<1>3. FinitelyMany
  <2>1. {i \in IncidentId : incidents[i] # None} = {}
    BY DEF StoreInit
  <2> QED BY <2>1, FS_EmptySet DEF FinitelyMany
<1>4. \A t \in Task : ZoneTaskInv(t)
  BY DEF IngestInit, ZoneTaskInv, ZoneChosen, ZoneLocked, StatusForeseen, Decided
<1>5. StatusExact
  <2> SUFFICES ASSUME NEW z \in ZoneId, zones[z] # None PROVE zones[z].status = JustifiedStatus(z)
    BY DEF StatusExact
  <2>1. OpenIn(z) = {}
    BY DEF StoreInit, OpenIn
  <2>2. JustifiedStatus(z) = NORMAL
    BY <2>1, FS_EmptySet DEF JustifiedStatus, SosStatus
  <2> QED BY <2>2 DEF StoreInit
<1> QED BY <1>1, <1>2, <1>3, <1>4, <1>5 DEF ZoneInv

(* A delivery whose own state, incidents and zones a step leaves alone.    *)
LEMMA ZoneUndisturbed ==
  ASSUME NEW u \in Task, ZoneTaskInv(u), pc'[u] = pc[u], tx'[u] = tx[u], locks[u] \subseteq locks'[u],
         UNCHANGED <<incidents, zones>>
  PROVE  ZoneTaskInv(u)'
  BY DEF ZoneTaskInv, ZoneChosen, ZoneLocked, StatusForeseen, IncidentPlace, Foreseen, Others, OpenIn, OwnPriority

LEMMA ZoneQuietStep ==
  ASSUME ZoneInv, UNCHANGED <<incidents, zones, risks>>, NEW t \in Task,
         \A u \in Task \ {t} : pc'[u] = pc[u] /\ tx'[u] = tx[u] /\ locks[u] \subseteq locks'[u],
         ZoneTaskInv(t)'
  PROVE  ZoneInv'
<1>1. (SeededOnly /\ NoRiskYet /\ AtHome /\ FinitelyMany)'
  BY DEF ZoneInv, SeededOnly, NoRiskYet, AtHome, FinitelyMany
<1>2. ASSUME NEW u \in Task PROVE ZoneTaskInv(u)'
  <2>1. CASE u = t BY <2>1
  <2>2. CASE u # t BY <2>2, ZoneUndisturbed DEF ZoneInv
  <2> QED BY <2>1, <2>2
<1>3. StatusExact'
  BY DEF ZoneInv, StatusExact, JustifiedStatus, OpenIn
<1> QED BY <1>1, <1>2, <1>3 DEF ZoneInv

(* Outside the part of correlate_incident that handles the zone.           *)
LEMMA ZoneIdleStep ==
  ASSUME IngestInv, ZoneInv, NEW t \in Task, NEW from, NEW to, Goto(t, from, to),
         to \notin {"flush", "severity", "raise", "commit"},
         \A u \in Task \ {t} : tx'[u] = tx[u] /\ locks[u] \subseteq locks'[u],
         UNCHANGED <<incidents, zones, risks>>
  PROVE  ZoneInv'
<1>1. pc \in [Task -> {"idle"} \cup Step \cup Answer]
  BY DEF IngestInv, IngestTypeOK
<1>2. ZoneTaskInv(t)'
  BY <1>1 DEF Goto, ZoneTaskInv, ZoneChosen, ZoneLocked, StatusForeseen, Decided
<1>3. \A u \in Task \ {t} : pc'[u] = pc[u]
  BY <1>1 DEF Goto
<1> QED BY <1>2, <1>3, ZoneQuietStep

LEMMA ZoneFindStep ==
  ASSUME SeedsCover, IngestInv, ZoneInv, NEW t \in Task, FindZone(t) PROVE ZoneInv'
<1>1. tx \in [Task -> Tx] /\ tx[t] \in Tx /\ pc \in [Task -> {"idle"} \cup Step \cup Answer]
  BY DEF IngestInv, IngestTypeOK
<1>2. pc[t] = "zone" /\ pc'[t] = "flush" /\ (\A u \in Task \ {t} : pc'[u] = pc[u])
  BY <1>1 DEF FindZone, Goto
<1>3. IncidentPlace(t) \in Place
  <2>1. TaskInv(t)
    BY DEF IngestInv
  <2>2. CASE tx[t].joins
    <3>1. incidents[tx[t].incident] # None /\ tx[t].incident \in IncidentId
      BY <1>1, <1>2, <2>1, <2>2 DEF TaskInv, JoinsLocked, Decided, Tx
    <3>2. incidents[tx[t].incident] \in Incident
      BY <3>1 DEF IngestInv, IngestTypeOK, StoreTypeOK
    <3> QED BY <2>2, <3>2 DEF IncidentPlace, Incident
  <2>3. CASE ~tx[t].joins
    BY <1>2, <2>1, <2>3, IngestionAssumption DEF IncidentPlace, TaskInv, HasPacket
  <2> QED BY <2>2, <2>3
<1>4. PICK z \in NearestZones(IncidentPlace(t)) :
        tx' = [tx EXCEPT ![t].found = TRUE, ![t].zone = z,
                 ![t].seenCount = zones[z].count, ![t].seenStatus = zones[z].status]
  BY <1>3, HomeIsNearest DEF FindZone, ZoneInv
<1>5. z = Home(IncidentPlace(t))
  BY <1>3, NearestIsHome DEF ZoneInv
<1> DEFINE n == zones[z].count
           s == zones[z].status
<1>6. tx' = [tx EXCEPT ![t].found = TRUE, ![t].zone = z, ![t].seenCount = n, ![t].seenStatus = s]
  BY <1>4
<1> HIDE DEF n
<1>7. z \in ZoneId /\ zones[z] # None /\ s \in Status
  BY DEF NearestZones, ZonesNear, IngestInv, IngestTypeOK, StoreTypeOK, Zone
<1>8. /\ tx'[t].found = TRUE /\ tx'[t].zone = z /\ tx'[t].seenStatus = s
      /\ tx'[t].joins = tx[t].joins /\ tx'[t].incident = tx[t].incident /\ tx'[t].msg = tx[t].msg
      /\ \A u \in Task \ {t} : tx'[u] = tx[u]
  <2> HIDE DEF s
  <2> QED BY <1>1, <1>6 DEF Tx
<1>9. UNCHANGED <<incidents, zones, risks, locks>>
  BY DEF FindZone, storeVars
<1>10. IncidentPlace(t)' = IncidentPlace(t)
  BY <1>8, <1>9 DEF IncidentPlace
<1>11. zones'[z] = zones[z] /\ s <= s
  BY <1>7, <1>9 DEF Status, NORMAL, EXTREME
<1>12. ZoneTaskInv(t)'
  BY <1>2, <1>5, <1>8, <1>10, <1>11 DEF ZoneTaskInv, ZoneChosen, ZoneLocked, StatusForeseen
<1> QED BY <1>2, <1>8, <1>9, <1>12, ZoneQuietStep

LEMMA ZoneFlushStep ==
  ASSUME IngestInv, ZoneInv, NEW t \in Task, FlushZone(t) PROVE ZoneInv'
<1>1. pc \in [Task -> {"idle"} \cup Step \cup Answer] /\ t \in Session /\ locks \in [Session -> SUBSET Row]
  BY TaskIsSession DEF IngestInv, IngestTypeOK
<1>2. pc[t] = "flush" /\ pc'[t] = "severity" /\ (\A u \in Task \ {t} : pc'[u] = pc[u])
  BY <1>1 DEF FlushZone, Goto
<1>3. UNCHANGED <<incidents, zones, risks, tx>>
  BY DEF FlushZone
<1>4. /\ ZoneRow(tx[t].zone) \in locks'[t]
      /\ \A u \in Task \ {t} : locks'[u] = locks[u]
  BY <1>1, IngestionAssumption DEF FlushZone, Acquire
<1>5. ZoneTaskInv(t)
  BY DEF ZoneInv
<1>6. ZoneTaskInv(t)'
  BY <1>2, <1>3, <1>4, <1>5
  DEF ZoneTaskInv, ZoneChosen, ZoneLocked, StatusForeseen, IncidentPlace, Decided
<1> QED BY <1>2, <1>3, <1>4, <1>6, ZoneQuietStep

LEMMA ZoneCountStep ==
  ASSUME IngestInv, ZoneInv, NEW t \in Task, CountIncidents(t) PROVE ZoneInv'
<1>1. tx \in [Task -> Tx] /\ tx[t] \in Tx /\ pc \in [Task -> {"idle"} \cup Step \cup Answer]
  BY DEF IngestInv, IngestTypeOK
<1>2. pc[t] = "severity" /\ pc'[t] = "raise" /\ (\A u \in Task \ {t} : pc'[u] = pc[u])
  BY <1>1 DEF CountIncidents, Goto
<1>3. UNCHANGED <<incidents, zones, risks, locks>>
  BY DEF CountIncidents, storeVars
<1> DEFINE s == Foreseen(t)
<1>4. tx' = [tx EXCEPT ![t].status = s]
  BY DEF CountIncidents, Foreseen, Others
<1> HIDE DEF s
<1>5. /\ tx'[t].status = s /\ tx'[t].found = tx[t].found /\ tx'[t].zone = tx[t].zone
      /\ tx'[t].seenStatus = tx[t].seenStatus /\ tx'[t].joins = tx[t].joins
      /\ tx'[t].incident = tx[t].incident /\ tx'[t].msg = tx[t].msg /\ tx'[t].raise = tx[t].raise
      /\ \A u \in Task \ {t} : tx'[u] = tx[u]
  BY <1>1, <1>4 DEF Tx
<1>6. Foreseen(t)' = s /\ IncidentPlace(t)' = IncidentPlace(t)
  BY <1>3, <1>5 DEF s, Foreseen, Others, OpenIn, OwnPriority, IncidentPlace
<1>7. ZoneTaskInv(t)
  BY DEF ZoneInv
<1>8. ZoneTaskInv(t)'
  BY <1>2, <1>3, <1>5, <1>6, <1>7 DEF ZoneTaskInv, ZoneChosen, ZoneLocked, StatusForeseen, Decided
<1> QED BY <1>2, <1>3, <1>5, <1>8, ZoneQuietStep

(* No risk has arrived: there is nothing to raise the status to.           *)
LEMMA ZoneRaiseStep ==
  ASSUME IngestInv, ZoneInv, NEW t \in Task, RaiseToRisk(t) PROVE ZoneInv'
<1>1. tx \in [Task -> Tx] /\ tx[t] \in Tx /\ pc \in [Task -> {"idle"} \cup Step \cup Answer]
  BY DEF IngestInv, IngestTypeOK
<1>2. pc[t] = "raise" /\ pc'[t] = "commit" /\ (\A u \in Task \ {t} : pc'[u] = pc[u])
  BY <1>1 DEF RaiseToRisk, Goto
<1>3. UNCHANGED <<incidents, zones, risks, locks>>
  BY DEF RaiseToRisk, storeVars
<1>4. risks[tx[t].zone].level = NORMAL /\ tx[t].status \in Status
  BY <1>1 DEF ZoneInv, NoRiskYet, Tx
<1>5. Higher(tx[t].status, risks[tx[t].zone].level) = tx[t].status
  BY <1>4 DEF Higher, Status, NORMAL, EXTREME
<1> DEFINE s == tx[t].status
<1>6. tx' = [tx EXCEPT ![t].status = s]
  BY <1>1, <1>5 DEF RaiseToRisk
<1>7. /\ tx'[t].status = tx[t].status /\ tx'[t].found = tx[t].found /\ tx'[t].zone = tx[t].zone
      /\ tx'[t].seenStatus = tx[t].seenStatus /\ tx'[t].joins = tx[t].joins
      /\ tx'[t].incident = tx[t].incident /\ tx'[t].msg = tx[t].msg /\ tx'[t].raise = tx[t].raise
      /\ \A u \in Task \ {t} : tx'[u] = tx[u]
  BY <1>1, <1>6 DEF Tx
<1>8. Foreseen(t)' = Foreseen(t) /\ IncidentPlace(t)' = IncidentPlace(t)
  BY <1>3, <1>7 DEF Foreseen, Others, OpenIn, OwnPriority, IncidentPlace
<1>9. ZoneTaskInv(t)
  BY DEF ZoneInv
<1>10. ZoneTaskInv(t)'
  BY <1>2, <1>3, <1>7, <1>8, <1>9 DEF ZoneTaskInv, ZoneChosen, ZoneLocked, StatusForeseen, Decided
<1> QED BY <1>2, <1>3, <1>7, <1>10, ZoneQuietStep
-----------------------------------------------------------------------------
(* What a commit writes, in terms of what the delivery decided.            *)
LEMMA CommitWrites ==
  ASSUME IngestInv, ZoneInv, NEW t \in Task, pc[t] = "commit"
  PROVE  /\ IncidentAfter(t).place = IncidentPlace(t)
         /\ IncidentAfter(t).zone = tx[t].zone
         /\ IncidentAfter(t).status = "NEW"
         /\ IncidentAfter(t).priority = OwnPriority(t)
         /\ tx[t].zone = Home(IncidentPlace(t))
         /\ incidents[tx[t].incident] # None =>
              /\ incidents[tx[t].incident].place = IncidentPlace(t)
              /\ incidents[tx[t].incident].zone = tx[t].zone
              /\ incidents[tx[t].incident].priority <= OwnPriority(t)
<1> DEFINE i == tx[t].incident
           z == tx[t].zone
<1>1. /\ tx[t] \in Tx /\ i \in IncidentId /\ z \in ZoneId /\ TaskInv(t) /\ ZoneTaskInv(t)
      /\ incidents \in [IncidentId -> Incident \cup {None}]
  BY DEF IngestInv, IngestTypeOK, StoreTypeOK, ZoneInv, Tx
<1>2. z = Home(IncidentPlace(t))
  BY <1>1 DEF ZoneTaskInv, ZoneChosen, Decided
<1>3. CASE tx[t].joins
  <2>1. incidents[i] # None /\ incidents[i] \in Incident
    BY <1>1, <1>3 DEF TaskInv, JoinsLocked, Decided
  <2> DEFINE p == OwnPriority(t)
             n == incidents[i].count + 1
             old == incidents[i]
  <2>2. incidents[i].priority \in Priority /\ tx[t].raise \in Priority \cup {0}
    BY <1>1, <2>1 DEF Incident, Tx
  <2>3. p \in Priority /\ incidents[i].priority <= p
    BY <1>1, <1>3, <2>2 DEF OwnPriority, TaskInv, JoinsLocked, Decided, Priority, P_LOW, P_CRITICAL
  <2>4. IncidentAfter(t) = [old EXCEPT !.count = n, !.zone = z, !.priority = p]
    BY <1>3 DEF IncidentAfter, OwnPriority
  <2>5. old \in Incident /\ old.place = IncidentPlace(t)
    BY <1>3, <2>1 DEF IncidentPlace
  <2>6. old.status = "NEW" /\ old.zone = z
    BY <1>1, <1>2, <2>1, <2>5 DEF ZoneInv, AtHome
  <2>7. /\ IncidentAfter(t).place = old.place /\ IncidentAfter(t).zone = z
        /\ IncidentAfter(t).status = old.status /\ IncidentAfter(t).priority = p
    <3> HIDE DEF p, n, old
    <3> QED BY <2>4, <2>5 DEF Incident
  <2> QED BY <1>2, <2>3, <2>5, <2>6, <2>7
<1>4. CASE ~tx[t].joins
  <2>1. i = t /\ tx[t].raise = tx[t].level /\ incidents[i] = None
    BY <1>1, <1>4 DEF TaskInv, CreatesOwn, NoIncidentYet, Decided
  <2>2. OwnPriority(t) = tx[t].raise
    BY <1>1, <2>1 DEF OwnPriority, Tx, Priority, P_LOW, P_CRITICAL
  <2> QED BY <1>2, <1>4, <2>1, <2>2 DEF IncidentAfter, IncidentPlace
<1> QED BY <1>3, <1>4

(* The commit of t changes the open incidents of its own zone only.        *)
LEMMA CommitOpens ==
  ASSUME IngestInv, ZoneInv, NEW t \in Task, CommitCorrelation(t)
  PROVE  /\ OpenIn(tx[t].zone)' = Others(t) \cup {tx[t].incident}
         /\ \A y \in ZoneId \ {tx[t].zone} : OpenIn(y)' = OpenIn(y) /\ tx[t].incident \notin OpenIn(y)
         /\ \A j \in IncidentId \ {tx[t].incident} : incidents'[j] = incidents[j]
         /\ incidents'[tx[t].incident] = IncidentAfter(t)
         /\ IncidentAfter(t) # None
<1> DEFINE i == tx[t].incident
           z == tx[t].zone
           new == IncidentAfter(t)
<1>1. /\ pc[t] = "commit" /\ tx[t] \in Tx /\ i \in IncidentId /\ z \in ZoneId
      /\ incidents \in [IncidentId -> Incident \cup {None}] /\ incidents' = [incidents EXCEPT ![i] = new]
      /\ tx' = tx
  BY DEF CommitCorrelation, Goto, IngestInv, IngestTypeOK, StoreTypeOK, Tx
<1>2. new # None /\ new.zone = z /\ new.status = "NEW" /\ (incidents[i] # None => incidents[i].zone = z)
  BY <1>1, CommitCorrelationTypes, CommitWrites, StoreAssumption
<1> HIDE DEF new
<1>3. incidents'[i] = new /\ \A j \in IncidentId \ {i} : incidents'[j] = incidents[j]
  BY <1>1
<1>4. OpenIn(z)' = Others(t) \cup {i}
  BY <1>1, <1>2, <1>3 DEF OpenIn, Others
<1>5. \A y \in ZoneId \ {z} : OpenIn(y)' = OpenIn(y) /\ i \notin OpenIn(y)
  BY <1>2, <1>3 DEF OpenIn
<1> QED BY <1>2, <1>3, <1>4, <1>5 DEF new

(* So its zone then has to have the foreseen status, which is not lower    *)
(* than what it had.                                                       *)
LEMMA CommitJustifies ==
  ASSUME IngestInv, ZoneInv, NEW t \in Task, CommitCorrelation(t)
  PROVE  /\ JustifiedStatus(tx[t].zone)' = Foreseen(t)
         /\ JustifiedStatus(tx[t].zone) <= Foreseen(t)
<1> DEFINE i == tx[t].incident
           z == tx[t].zone
           S == Others(t)
           O == OpenIn(z)
           own == OwnPriority(t)
           P == {incidents[j].priority : j \in S}
           n == Cardinality(S)
<1>1. pc[t] = "commit" /\ tx' = tx /\ tx[t] \in Tx /\ i \in IncidentId /\ z \in ZoneId
  BY DEF CommitCorrelation, Goto, IngestInv, IngestTypeOK, Tx
<1>2. O \subseteq {j \in IncidentId : incidents[j] # None} /\ S \subseteq O /\ i \notin S /\ O \subseteq S \cup {i}
  BY DEF OpenIn, Others
<1>3. IsFiniteSet(O) /\ IsFiniteSet(S)
  BY <1>2, FS_Subset DEF ZoneInv, FinitelyMany
<1>4. /\ n \in Nat /\ IsFiniteSet(S \cup {i}) /\ Cardinality(S \cup {i}) = n + 1
      /\ Cardinality(O) \in Nat /\ Cardinality(O) <= n + 1
  <2> HIDE DEF S, O, i
  <2>1. n \in Nat /\ IsFiniteSet(S \cup {i}) /\ Cardinality(S \cup {i}) = n + 1
    BY <1>2, <1>3, FS_CardinalityType, FS_AddElement
  <2>2. Cardinality(O) \in Nat /\ Cardinality(O) <= Cardinality(S \cup {i})
    BY <1>2, <1>3, <2>1, FS_CardinalityType, FS_Subset
  <2> QED BY <2>1, <2>2
<1>5. /\ OpenIn(z)' = S \cup {i}
      /\ incidents'[i].priority = own
      /\ \A j \in S : incidents'[j] = incidents[j]
  BY <1>1, <1>2, CommitOpens, CommitWrites DEF OpenIn, Others
<1>6. {incidents'[j].priority : j \in OpenIn(z)'} = P \cup {own}
  BY <1>5
<1>7. JustifiedStatus(z)' = SosStatus(n + 1, P \cup {own})
  BY <1>1, <1>4, <1>5, <1>6 DEF JustifiedStatus
<1>8. Foreseen(t) = SosStatus(n + 1, P \cup {own})
  BY DEF Foreseen
<1> DEFINE Q == {incidents[j].priority : j \in O}
<1>9. Q \subseteq Priority /\ own \in Priority
  <2>1. \A j \in O : incidents[j] \in Incident
    BY DEF OpenIn, IngestInv, IngestTypeOK, StoreTypeOK
  <2>2. Q \subseteq Priority
    BY <2>1 DEF Incident
  <2>3. IncidentAfter(t) \in Incident /\ own = IncidentAfter(t).priority
    BY <1>1, CommitCorrelationTypes, CommitWrites
  <2>4. own \in Priority
    BY <2>3 DEF Incident
  <2> QED BY <2>2, <2>4
<1>10. P \cup {own} \subseteq Priority
  BY <1>2, <1>9
<1>11. \A p \in Q : \E q \in P \cup {own} : p <= q
  <2> SUFFICES ASSUME NEW j \in O PROVE \E q \in P \cup {own} : incidents[j].priority <= q
    OBVIOUS
  <2>1. CASE j = i
    <3>1. incidents[i] # None
      BY <2>1 DEF OpenIn
    <3>2. incidents[i].priority <= own
      BY <1>1, <3>1, CommitWrites
    <3> QED BY <2>1, <3>2
  <2>2. CASE j \in S
    <3>1. incidents[j].priority \in Priority
      BY <1>9
    <3>2. incidents[j].priority <= incidents[j].priority
      BY <3>1 DEF Priority, P_LOW, P_CRITICAL
    <3> QED BY <2>2, <3>2
  <2> QED BY <1>2, <2>1, <2>2
<1>12. SosStatus(Cardinality(O), Q) <= SosStatus(n + 1, P \cup {own})
  <2> DEFINE PP == P \cup {own}
             c == Cardinality(O)
  <2>1. c \in Nat /\ n + 1 \in Nat /\ c <= n + 1 /\ Q \in SUBSET Priority /\ PP \in SUBSET Priority
        /\ \A p \in Q : \E q \in PP : p <= q
    BY <1>4, <1>9, <1>10, <1>11
  <2> HIDE DEF PP, Q, c, n
  <2>2. SosStatus(c, Q) <= SosStatus(n + 1, PP)
    BY <2>1, SosStatusMonotone
  <2> QED BY <2>2 DEF PP, c
<1> QED BY <1>7, <1>8, <1>12 DEF JustifiedStatus

LEMMA ZoneCommitStep ==
  ASSUME IngestInv, ZoneInv, NEW t \in Task, CommitCorrelation(t) PROVE ZoneInv'
<1> DEFINE i == tx[t].incident
           z == tx[t].zone
           new == IncidentAfter(t)
           newZone == ZoneAfter(t)
<1>1. /\ pc \in [Task -> {"idle"} \cup Step \cup Answer] /\ pc[t] = "commit" /\ pc' = [pc EXCEPT ![t] = "link"]
      /\ zones \in [ZoneId -> Zone \cup {None}] /\ zones' = [zones EXCEPT ![z] = newZone]
      /\ t \in Session /\ locks \in [Session -> SUBSET Row]
      /\ i \in IncidentId /\ z \in ZoneId /\ tx[t] \in Tx
      /\ UNCHANGED <<risks, tx>>
  BY TaskIsSession DEF CommitCorrelation, Goto, IngestInv, IngestTypeOK, StoreTypeOK, Tx
<1>2. ZoneTaskInv(t) /\ TaskInv(t)
  BY DEF ZoneInv, IngestInv
<1>3. /\ tx[t].found /\ ZoneRow(z) \in locks[t] /\ tx[t].status = Foreseen(t)
      /\ tx[t].seenStatus <= zones[z].status /\ z = Home(IncidentPlace(t))
  BY <1>1, <1>2 DEF ZoneTaskInv, ZoneChosen, ZoneLocked, StatusForeseen, Decided
<1>4. zones[z] # None /\ zones[z] \in Zone
  BY <1>1, <1>2, <1>3 DEF TaskInv, ZoneExists, Decided
<1>5. /\ newZone.place = zones[z].place /\ newZone # None
      /\ newZone.status = IF tx[t].status # tx[t].seenStatus THEN tx[t].status ELSE zones[z].status
  <2> DEFINE old == zones[z]
             n == tx[t].seenCount + 1
             s == IF tx[t].status # tx[t].seenStatus THEN tx[t].status ELSE zones[z].status
  <2>1. newZone = [old EXCEPT !.count = n, !.status = s]
    BY <1>3 DEF ZoneAfter
  <2>2. newZone # None
    BY CommitCorrelationTypes, StoreAssumption
  <2>3. newZone.place = old.place /\ newZone.status = s
    <3> HIDE DEF old, n, s, newZone
    <3> QED BY <1>4, <2>1 DEF Zone, old
  <2> QED BY <2>2, <2>3
<1>6. zones[z].status = JustifiedStatus(z) /\ JustifiedStatus(z) <= Foreseen(t) /\ JustifiedStatus(z)' = Foreseen(t)
  BY <1>1, <1>4, CommitJustifies DEF ZoneInv, StatusExact
<1>7. newZone.status = Foreseen(t)
  <2>1. tx[t].status \in Status /\ tx[t].seenStatus \in Status /\ zones[z].status \in Status
    BY <1>1, <1>4 DEF Tx, Zone
  <2>2. zones[z].status <= Foreseen(t)
    BY <1>6
  <2> QED BY <1>3, <1>5, <2>1, <2>2 DEF Status, NORMAL, EXTREME
<1>8. zones[z].status <= newZone.status
  BY <1>6, <1>7
<1> HIDE DEF newZone
<1>9. zones'[z] = newZone /\ \A y \in ZoneId \ {z} : zones'[y] = zones[y]
  BY <1>1
<1>10. /\ \A y \in ZoneId \ {z} : OpenIn(y)' = OpenIn(y) /\ i \notin OpenIn(y)
       /\ \A j \in IncidentId \ {i} : incidents'[j] = incidents[j]
       /\ incidents'[i] = new /\ new # None
  BY CommitOpens
<1>11. /\ new.place = IncidentPlace(t) /\ new.zone = z /\ new.status = "NEW"
       /\ incidents[i] # None => incidents[i].place = new.place /\ incidents[i].zone = z
  BY <1>1, CommitWrites
<1> HIDE DEF new
<1>12. SeededOnly'
  <2>1. z \in DOMAIN SeedPlace /\ zones[z].place = SeedPlace[z]
    BY <1>1, <1>4 DEF ZoneInv, SeededOnly
  <2> QED BY <2>1, <1>5, <1>9 DEF ZoneInv, SeededOnly
<1>13. NoRiskYet'
  BY <1>1 DEF ZoneInv, NoRiskYet
<1>14. AtHome'
  BY <1>3, <1>10, <1>11 DEF ZoneInv, AtHome
<1>15. FinitelyMany'
  <2> DEFINE S == {j \in IncidentId : incidents[j] # None}
             T == {j \in IncidentId : incidents'[j] # None}
  <2>1. T \subseteq S \cup {i}
    BY <1>10
  <2>2. IsFiniteSet(S)
    BY DEF ZoneInv, FinitelyMany
  <2>3. IsFiniteSet(T)
    <3> HIDE DEF S, T, i
    <3>1. IsFiniteSet(S \cup {i})
      BY <2>2, FS_AddElement
    <3> QED BY <2>1, <3>1, FS_Subset
  <2> QED BY <2>3 DEF FinitelyMany
<1>16. StatusExact'
  <2> SUFFICES ASSUME NEW y \in ZoneId, zones'[y] # None PROVE zones'[y].status = JustifiedStatus(y)'
    BY DEF StatusExact
  <2>1. CASE y = z
    <3>1. JustifiedStatus(y)' = JustifiedStatus(z)'
      BY <2>1, <1>1 DEF JustifiedStatus, OpenIn
    <3> QED BY <2>1, <3>1, <1>6, <1>7, <1>9
  <2>2. CASE y # z
    <3>1. OpenIn(y)' = OpenIn(y) /\ i \notin OpenIn(y) /\ zones'[y] = zones[y]
      BY <2>2, <1>9, <1>10
    <3>2. \A j \in OpenIn(y) : incidents'[j] = incidents[j]
      BY <3>1, <1>10 DEF OpenIn
    <3>3. JustifiedStatus(y)' = JustifiedStatus(y)
      BY <3>1, <3>2 DEF JustifiedStatus
    <3> QED BY <3>1, <3>3 DEF ZoneInv, StatusExact
  <2> QED BY <2>1, <2>2
<1>17. ASSUME NEW u \in Task PROVE ZoneTaskInv(u)'
  <2>1. CASE u = t
    BY <2>1, <1>1 DEF ZoneTaskInv, ZoneChosen, ZoneLocked, StatusForeseen, Decided
  <2>2. CASE u # t
    <3>1. pc'[u] = pc[u] /\ tx'[u] = tx[u] /\ locks'[u] = locks[u] /\ u \in Session /\ tx[u] \in Tx
      BY <2>2, <1>1, TaskIsSession, IngestionAssumption DEF CommitCorrelation, ReleaseAll, IngestInv
    <3>2. /\ ZoneTaskInv(u) /\ TaskInv(u) /\ tx[u].incident \in IncidentId /\ tx[u].zone \in ZoneId
      BY <3>1 DEF ZoneInv, IngestInv, Tx
    <3>3. pc[u] \in Decided => IncidentPlace(u)' = IncidentPlace(u)
      BY <3>1, <3>2, <1>10, <1>11 DEF IncidentPlace, TaskInv, JoinsLocked
    <3>4. ZoneChosen(u)'
      <4> SUFFICES ASSUME pc[u] \in Decided \ {"zone"}
                   PROVE  /\ tx[u].found
                          /\ tx[u].zone = Home(IncidentPlace(u)')
                          /\ tx[u].seenStatus <= zones'[tx[u].zone].status
        BY <3>1 DEF ZoneChosen
      <4>1. tx[u].found /\ tx[u].zone = Home(IncidentPlace(u)) /\ tx[u].seenStatus <= zones[tx[u].zone].status
        BY <3>2 DEF ZoneTaskInv, ZoneChosen
      <4>2. tx[u].seenStatus <= zones'[tx[u].zone].status
        <5>1. CASE tx[u].zone = z
          <6>1. tx[u].seenStatus \in Status /\ zones[z].status \in Status /\ newZone.status \in Status
            BY <3>1, <1>4, CommitCorrelationTypes DEF Tx, Zone, newZone
          <6> QED BY <5>1, <6>1, <4>1, <1>8, <1>9 DEF Status, NORMAL, EXTREME
        <5>2. CASE tx[u].zone # z
          BY <5>2, <4>1, <3>2, <1>9
        <5> QED BY <5>1, <5>2
      <4> QED BY <4>1, <4>2, <3>3
    <3>5. ZoneLocked(u)'
      BY <3>1, <3>2 DEF ZoneTaskInv, ZoneLocked
    <3>6. StatusForeseen(u)'
      <4> SUFFICES ASSUME pc[u] \in {"raise", "commit"} PROVE Foreseen(u)' = Foreseen(u)
        BY <3>1, <3>2 DEF ZoneTaskInv, StatusForeseen
      <4>1. ZoneRow(tx[u].zone) \in locks[u]
        BY <3>2 DEF ZoneTaskInv, ZoneLocked
      <4>2. tx[u].zone # z
        BY <4>1, <1>1, <1>3, <2>2, <3>1 DEF IngestInv, RowLocksExclusive
      <4> PICK y \in ZoneId : y = tx[u].zone
        BY <3>2
      <4>3. OpenIn(y)' = OpenIn(y) /\ i \notin OpenIn(y)
        BY <4>2, <1>10
      <4>4. Others(u)' = Others(u) /\ (\A j \in Others(u) : incidents'[j] = incidents[j])
        <5>1. Others(u)' = Others(u)
          BY <4>3, <3>1, <1>1 DEF Others, OpenIn
        <5>2. \A j \in Others(u) : j \in IncidentId \ {i}
          BY <4>3 DEF Others, OpenIn
        <5> QED BY <5>1, <5>2, <1>10
      <4>5. OwnPriority(u)' = OwnPriority(u)
        <5>1. CASE tx[u].raise # 0
          BY <5>1, <3>1 DEF OwnPriority
        <5>2. CASE tx[u].raise = 0
          <6>1. tx[u].joins
            BY <5>2, <3>1, <3>2 DEF TaskInv, CreatesOwn, Decided, Tx, Priority, P_LOW, P_CRITICAL
          <6>2. incidents[tx[u].incident] # None
            BY <6>1, <3>2 DEF TaskInv, JoinsLocked, Decided
          <6>3. tx[u].zone = Home(incidents[tx[u].incident].place)
            BY <6>1, <3>2 DEF ZoneTaskInv, ZoneChosen, IncidentPlace, Decided
          <6>4. incidents[tx[u].incident].zone = tx[u].zone
            BY <6>2, <6>3, <3>2 DEF ZoneInv, AtHome
          <6>5. tx[u].incident # i
            BY <6>2, <6>4, <4>2, <1>11
          <6> QED BY <6>5, <5>2, <3>1, <3>2, <1>10 DEF OwnPriority
        <5> QED BY <5>1, <5>2
      <4>6. {incidents'[j].priority : j \in Others(u)'} = {incidents[j].priority : j \in Others(u)}
        BY <4>4
      <4> QED BY <4>4, <4>5, <4>6 DEF Foreseen
    <3> QED BY <3>4, <3>5, <3>6 DEF ZoneTaskInv
  <2> QED BY <2>1, <2>2
<1> QED BY <1>12, <1>13, <1>14, <1>15, <1>16, <1>17 DEF ZoneInv

LEMMA ZoneLeaveStep ==
  ASSUME IngestInv, ZoneInv, NEW i \in IncidentId, LeaveWindow(i) PROVE ZoneInv'
<1>1. /\ incidents \in [IncidentId -> Incident \cup {None}] /\ incidents[i] \in Incident
      /\ incidents' = [incidents EXCEPT ![i].recent = FALSE]
      /\ UNCHANGED <<zones, risks, locks, pc, tx>>
  BY DEF LeaveWindow, IngestInv, IngestTypeOK, StoreTypeOK, ingestVars
<1>2. /\ incidents'[i] \in Incident /\ incidents'[i] # None
      /\ incidents'[i].priority = incidents[i].priority /\ incidents'[i].place = incidents[i].place
      /\ incidents'[i].zone = incidents[i].zone /\ incidents'[i].status = incidents[i].status
  BY <1>1, StoreAssumption DEF Incident
<1>3. \A j \in IncidentId :
        /\ incidents'[j] # None <=> incidents[j] # None
        /\ incidents[j] # None =>
             /\ incidents'[j].priority = incidents[j].priority /\ incidents'[j].place = incidents[j].place
             /\ incidents'[j].zone = incidents[j].zone /\ incidents'[j].status = incidents[j].status
  BY <1>1, <1>2, StoreAssumption
<1>4. \A y : OpenIn(y)' = OpenIn(y)
  BY <1>3 DEF OpenIn
<1>5. \A S \in SUBSET IncidentId : (\A j \in S : incidents[j] # None) =>
        {incidents'[j].priority : j \in S} = {incidents[j].priority : j \in S}
  BY <1>3
<1>6. (SeededOnly /\ NoRiskYet)'
  BY <1>1 DEF ZoneInv, SeededOnly, NoRiskYet
<1>7. AtHome'
  BY <1>3 DEF ZoneInv, AtHome
<1>8. FinitelyMany'
  <2>1. {j \in IncidentId : incidents'[j] # None} = {j \in IncidentId : incidents[j] # None}
    BY <1>3
  <2> QED BY <2>1 DEF ZoneInv, FinitelyMany
<1>9. StatusExact'
  <2> SUFFICES ASSUME NEW y \in ZoneId PROVE JustifiedStatus(y)' = JustifiedStatus(y)
    BY <1>1 DEF ZoneInv, StatusExact
  <2>1. {incidents'[j].priority : j \in OpenIn(y)} = {incidents[j].priority : j \in OpenIn(y)}
    BY <1>3 DEF OpenIn
  <2> QED BY <1>4, <2>1 DEF JustifiedStatus
<1>10. ASSUME NEW u \in Task PROVE ZoneTaskInv(u)'
  <2>1. ZoneTaskInv(u) /\ TaskInv(u) /\ tx[u] \in Tx /\ tx[u].incident \in IncidentId
    BY TaskIsSession DEF ZoneInv, IngestInv, Tx
  <2>2. pc[u] \in Decided => IncidentPlace(u)' = IncidentPlace(u) /\ OwnPriority(u)' = OwnPriority(u)
    <3> SUFFICES ASSUME pc[u] \in Decided
                 PROVE  IncidentPlace(u)' = IncidentPlace(u) /\ OwnPriority(u)' = OwnPriority(u)
      OBVIOUS
    <3>1. CASE tx[u].joins
      <4>1. incidents[tx[u].incident] # None
        BY <2>1, <3>1 DEF TaskInv, JoinsLocked
      <4> QED BY <4>1, <2>1, <1>1, <1>3 DEF IncidentPlace, OwnPriority
    <3>2. CASE ~tx[u].joins
      <4>1. tx[u].raise # 0
        BY <2>1, <3>2 DEF TaskInv, CreatesOwn, Tx, Priority, P_LOW, P_CRITICAL
      <4> QED BY <4>1, <3>2, <1>1 DEF IncidentPlace, OwnPriority
    <3> QED BY <3>1, <3>2
  <2>3. Others(u)' = Others(u)
    BY <1>1, <1>4 DEF Others
  <2>4. {incidents'[j].priority : j \in Others(u)} = {incidents[j].priority : j \in Others(u)}
    BY <1>3 DEF Others, OpenIn
  <2>5. pc[u] \in Decided => Foreseen(u)' = Foreseen(u)
    BY <2>2, <2>3, <2>4 DEF Foreseen
  <2> QED BY <1>1, <2>1, <2>2, <2>5 DEF ZoneTaskInv, ZoneChosen, ZoneLocked, StatusForeseen, Decided
<1> QED BY <1>6, <1>7, <1>8, <1>9, <1>10 DEF ZoneInv
-----------------------------------------------------------------------------
LEMMA ZoneInvStep ==
  ASSUME SeedsCover PROVE IngestInv /\ ZoneInv /\ [IngestNext]_ingestAll => ZoneInv'
<1> SUFFICES ASSUME IngestInv, ZoneInv, [IngestNext]_ingestAll PROVE ZoneInv'
  OBVIOUS
<1>1. pc \in [Task -> {"idle"} \cup Step \cup Answer] /\ tx \in [Task -> Tx] /\ locks \in [Session -> SUBSET Row]
  BY DEF IngestInv, IngestTypeOK, StoreTypeOK
<1>2. CASE UNCHANGED ingestAll \/ \E k \in Key : RegisterKey(k)
  <2>1. UNCHANGED <<incidents, zones, risks, locks, pc, tx>>
    BY <1>2 DEF ingestAll, storeVars, ingestVars, RegisterKey
  <2>2. \A u \in Task : ZoneTaskInv(u)'
    BY <2>1, ZoneUndisturbed DEF ZoneInv
  <2>3. (SeededOnly /\ NoRiskYet /\ AtHome /\ FinitelyMany /\ StatusExact)'
    BY <2>1 DEF ZoneInv, SeededOnly, NoRiskYet, AtHome, FinitelyMany, StatusExact, JustifiedStatus, OpenIn
  <2> QED BY <2>2, <2>3 DEF ZoneInv
<1>3. ASSUME NEW t \in Task, (\E m \in Msg : Deliver(t, m)) \/ Process(t) \/ Abort(t) PROVE ZoneInv'
  <2>1. CASE \E m \in Msg : Deliver(t, m)
    <3>1. PICK m \in Msg : Deliver(t, m)
      BY <2>1
    <3>2. PICK to \in {"dedup", "PACKET_EXPIRED"} : Goto(t, "idle", to)
      BY <3>1 DEF Deliver
    <3> QED BY <1>1, <3>1, <3>2, ZoneIdleStep DEF Deliver, storeVars
  <2>2. CASE Deduplicate(t)
    <3>1. PICK to \in {"duplicate", "verify"} : Goto(t, "dedup", to)
      BY <2>2 DEF Deduplicate
    <3> QED BY <2>2, <3>1, ZoneIdleStep DEF Deduplicate, storeVars
  <2>3. CASE Verify(t)
    <3>1. PICK to \in {"UNKNOWN_KEY", "BAD_SIGNATURE", "DECRYPTION_FAILED", "score"} : Goto(t, "verify", to)
      BY <2>3 DEF Verify
    <3> QED BY <2>3, <3>1, ZoneIdleStep DEF Verify, storeVars
  <2>4. CASE Score(t)
    BY <1>1, <2>4, ZoneIdleStep DEF Score, storeVars
  <2>5. CASE InsertReport(t)
    <3>1. PICK to \in {"select", "INTEGRITY_ERROR"} : Goto(t, "insert", to)
      BY <2>5 DEF InsertReport
    <3> QED BY <2>5, <3>1, ZoneIdleStep DEF InsertReport, storeVars
  <2>6. CASE SelectIncidents(t)
    BY <1>1, <2>6, ZoneIdleStep DEF SelectIncidents, storeVars
  <2>7. CASE Correlate(t)
    <3>1. \A u \in Task \ {t} : tx'[u] = tx[u] /\ locks[u] \subseteq locks'[u]
      BY <1>1, <2>7, IngestionAssumption DEF Correlate, Acquire
    <3> QED BY <2>7, <3>1, ZoneIdleStep DEF Correlate
  <2>8. CASE LinkReport(t)
    BY <2>8, ZoneIdleStep DEF LinkReport, storeVars
  <2>9. CASE Notify(t)
    BY <2>9, ZoneIdleStep DEF Notify, storeVars
  <2>10. CASE Abort(t)
    <3>1. \A u \in Task \ {t} : tx'[u] = tx[u] /\ locks'[u] = locks[u]
      BY <1>1, <2>10, IngestionAssumption DEF Abort, ReleaseAll
    <3>2. Goto(t, pc[t], "aborted")
      BY <2>10 DEF Abort, Goto
    <3> QED BY <2>10, <3>1, <3>2, ZoneIdleStep DEF Abort
  <2> QED BY <1>3, <2>1, <2>2, <2>3, <2>4, <2>5, <2>6, <2>7, <2>8, <2>9, <2>10,
             ZoneFindStep, ZoneFlushStep, ZoneCountStep, ZoneRaiseStep, ZoneCommitStep DEF Process
<1>4. CASE \E i \in IncidentId : LeaveWindow(i)
  BY <1>4, ZoneLeaveStep
<1> QED BY <1>2, <1>3, <1>4 DEF IngestNext

(* Where every place lies nearest to exactly one of the seeded zones and   *)
(* within its reach, the status of every zone is, after every commit of    *)
(* correlate_incident, the one its open incidents justify: no interleaving *)
(* of deliveries loses an incident from the count.                         *)
THEOREM ZoneStatusExact == ASSUME SeedsCover PROVE IngestSpec => [](ZoneInv /\ StatusExact)
<1>1. IngestStart => ZoneInv
  BY ZoneInvInit DEF IngestStart
<1>2. IngestInv /\ ZoneInv /\ [IngestNext]_ingestAll => ZoneInv'
  BY ZoneInvStep
<1>3. ZoneInv => StatusExact
  BY DEF ZoneInv
<1> QED BY <1>1, <1>2, <1>3, IngestInvariant, PTL DEF IngestSpec

(* So no zone has a lower status than its open incidents justify.          *)
THEOREM ZoneStatusCorrect == IngestSpec => []ZoneStatusJustified
<1>1. CASE ~SeedsCover
  <2>1. ZoneStatusJustified
    BY <1>1 DEF ZoneStatusJustified
  <2> QED BY <2>1, PTL
<1>2. CASE SeedsCover
  <2>1. IngestInv /\ StatusExact => ZoneStatusJustified
    <3> SUFFICES ASSUME IngestInv, StatusExact, NEW z \in ZoneId, zones[z] # None
                 PROVE  zones[z].status >= JustifiedStatus(z)
      BY DEF ZoneStatusJustified
    <3>1. zones[z].status \in Status
      BY DEF IngestInv, IngestTypeOK, StoreTypeOK, Zone
    <3>2. zones[z].status = JustifiedStatus(z)
      BY DEF StatusExact
    <3> QED BY <3>1, <3>2 DEF Status, NORMAL, EXTREME
  <2>2. IngestSpec => [](ZoneInv /\ StatusExact)
    BY <1>2, ZoneStatusExact
  <2> QED BY <2>1, <2>2, IngestInvariant, PTL
<1> QED BY <1>1, <1>2
=============================================================================
