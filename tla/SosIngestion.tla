---------------------------- MODULE SosIngestion ----------------------------
(***************************************************************************)
(* POST /sos/ingest: process_sos_ingestion, with correlate_incident,       *)
(* assign_incident_to_zone and recalculate_zone_severity, which it calls.  *)
(* Every action is the code between two awaits that reach the database, so *)
(* that any number of deliveries, of the same packet or of different ones, *)
(* interleave where the event loop can switch between them.  A transaction *)
(* keeps its uncommitted writes in tx and publishes them when it commits.  *)
(***************************************************************************)
EXTENDS RescueStore

CONSTANTS
  Task,          (* deliveries: one call of the ingest endpoint each             *)
  Msg,           (* msg_ids                                                      *)
  Key,           (* origin_key_ids                                               *)
  KeyOf,         (* KeyOf[m]: the key that packet m names                        *)
  PlaceOf,       (* PlaceOf[m]: the coordinates of packet m                      *)
  Authentic,     (* the packets whose signature verifies under their key         *)
  Decryptable,   (* the packets whose payload opens                              *)
  Verdicts       (* Verdicts[m]: the <<category, score>> pairs score() may return*)

Report == [level: Priority, incident: IncidentId \cup {None}]

(* An incident and a zone are named by the delivery that creates them.     *)
ASSUME IngestionAssumption ==
  /\ Task \subseteq Session
  /\ Task \subseteq IncidentId
  /\ Task \subseteq ZoneId \ DOMAIN SeedPlace
  /\ KeyOf \in [Msg -> Key]
  /\ PlaceOf \in [Msg -> Place]
  /\ Verdicts \in [Msg -> SUBSET (Category \X (0 .. 100))]
  /\ None \notin Msg \cup Category \cup Report

VARIABLES
  keys,      (* the registered device keys                                       *)
  reports,   (* the table sos_reports                                            *)
  pc,        (* where each delivery is, or how it was answered                   *)
  tx,        (* the locals and uncommitted writes of each delivery               *)
  counted    (* history: the incident whose report_count includes a packet       *)

ingestVars == <<keys, reports, pc, tx, counted>>
ingestAll == <<storeVars, ingestVars>>

Answer == {"PACKET_EXPIRED", "duplicate", "UNKNOWN_KEY", "BAD_SIGNATURE",
           "DECRYPTION_FAILED", "INTEGRITY_ERROR", "accepted", "aborted"}
Correlating == {"select", "lock", "zone", "flush", "severity", "raise", "commit"}
Step == {"dedup", "verify", "score", "insert", "link", "notify"} \cup Correlating

(* cand: the rows the SELECT ... FOR UPDATE found;                         *)
(* raise: the priority_level to write, or 0; joins: the incident exists;   *)
(* found: the zone exists; seen: the row of that zone as it was read.      *)
Tx == [msg: Msg \cup {None}, category: Category \cup {None}, level: Priority,
       cand: SUBSET IncidentId, joins: BOOLEAN, incident: IncidentId, raise: Priority \cup {0},
       found: BOOLEAN, zone: ZoneId, seenCount: Nat, seenStatus: Status, status: Status]

BlankTx(t) ==
  [msg |-> None, category |-> None, level |-> P_LOW, cand |-> {}, joins |-> FALSE,
   incident |-> t, raise |-> 0, found |-> FALSE, zone |-> t, seenCount |-> 0, seenStatus |-> NORMAL,
   status |-> NORMAL]

IngestTypeOK ==
  /\ StoreTypeOK
  /\ keys \in SUBSET Key
  /\ reports \in [Msg -> Report \cup {None}]
  /\ pc \in [Task -> {"idle"} \cup Step \cup Answer]
  /\ tx \in [Task -> Tx]
  /\ counted \in [Msg -> IncidentId \cup {None}]

IngestInit ==
  /\ keys = {}
  /\ reports = [m \in Msg |-> None]
  /\ pc = [t \in Task |-> "idle"]
  /\ tx = [t \in Task |-> BlankTx(t)]
  /\ counted = [m \in Msg |-> None]

Goto(t, from, to) == pc[t] = from /\ pc' = [pc EXCEPT ![t] = to]
-----------------------------------------------------------------------------
(* register_device_keys; a second registration of the key is refused.      *)
RegisterKey(k) ==
  /\ k \notin keys
  /\ keys' = keys \cup {k}
  /\ UNCHANGED <<storeVars, reports, pc, tx, counted>>

(* A gateway delivers m, and the freshness window is checked.  The same    *)
(* packet may be delivered any number of times and by several gateways.    *)
Deliver(t, m) ==
  /\ \E outcome \in {"dedup", "PACKET_EXPIRED"} : Goto(t, "idle", outcome)
  /\ tx' = [tx EXCEPT ![t].msg = m]
  /\ UNCHANGED <<storeVars, keys, reports, counted>>

Deduplicate(t) ==
  /\ Goto(t, "dedup", IF reports[tx[t].msg] # None THEN "duplicate" ELSE "verify")
  /\ UNCHANGED <<storeVars, keys, reports, tx, counted>>

(* Key lookup, signature and decryption.                                   *)
Verify(t) ==
  LET m == tx[t].msg IN
  /\ Goto(t, "verify", IF KeyOf[m] \notin keys    THEN "UNKNOWN_KEY"
                       ELSE IF m \notin Authentic   THEN "BAD_SIGNATURE"
                       ELSE IF m \notin Decryptable THEN "DECRYPTION_FAILED"
                       ELSE "score")
  /\ UNCHANGED <<storeVars, keys, reports, tx, counted>>

(* score() answers with any of the verdicts the model and its fallbacks    *)
(* have for the packet: two deliveries of it may be scored differently.    *)
Score(t) ==
  /\ Goto(t, "score", "insert")
  /\ \E v \in Verdicts[tx[t].msg] :
       tx' = [tx EXCEPT ![t].category = v[1], ![t].level = PriorityLevel(v[2])]
  /\ UNCHANGED <<storeVars, keys, reports, counted>>

(* Insert and commit.  msg_id is unique: the second of two deliveries that *)
(* both passed the dedup check fails here.                                 *)
NotConstrained(m) == TRUE  (* mutant: no unique constraint on msg_id          *)
Unique(m) == reports[m] = None

InsertReport(t) ==
  LET m == tx[t].msg IN
  /\ Goto(t, "insert", IF Unique(m) THEN "select" ELSE "INTEGRITY_ERROR")
  /\ reports' = IF Unique(m)
                THEN [reports EXCEPT ![m] = [level |-> tx[t].level, incident |-> None]]
                ELSE reports
  /\ UNCHANGED <<storeVars, keys, tx, counted>>
-----------------------------------------------------------------------------
(* Open, recent, and near packet m.                                        *)
Candidate(m, i) ==
  /\ incidents[i] # None
  /\ incidents[i].status # "RESOLVED"
  /\ incidents[i].recent
  /\ Within(PlaceOf[m], incidents[i].place, IncidentRadius)

(* SELECT ... FOR UPDATE finds its rows among what is committed when it    *)
(* starts: an incident committed while it waits is not seen.               *)
SelectIncidents(t) ==
  /\ Goto(t, "select", "lock")
  /\ tx' = [tx EXCEPT ![t].cand = {i \in IncidentId : Candidate(tx[t].msg, i)}]
  /\ UNCHANGED <<storeVars, keys, reports, counted>>

(* It waits for each of them, and keeps those that still qualify.          *)
Locked(t) == {i \in tx[t].cand : Candidate(tx[t].msg, i)}

(* Of these, the nearest of the report's category.                         *)
Matches(t) == {i \in Locked(t) : incidents[i].category = tx[t].category}
BestMatches(t) ==
  LET d(i) == Dist[PlaceOf[tx[t].msg], incidents[i].place] IN
  {i \in Matches(t) : \A j \in Matches(t) : d(i) <= d(j)}

NoForUpdate(found) == {}  (* mutant: the select does not lock its rows          *)
ForUpdate(found) == {IncidentRow(i) : i \in found}

(* Join an incident, or decide to create one.                              *)
Correlate(t) ==
  /\ Goto(t, "lock", "zone")
  /\ Free(t, ForUpdate(tx[t].cand))
  /\ Acquire(t, ForUpdate(Locked(t)))
  /\ \/ \E i \in BestMatches(t) :
          tx' = [tx EXCEPT ![t].joins = TRUE, ![t].incident = i,
                   ![t].raise = IF tx[t].level > incidents[i].priority THEN tx[t].level ELSE 0]
     \/ /\ Matches(t) = {}
        /\ tx' = [tx EXCEPT ![t].joins = FALSE, ![t].incident = t, ![t].raise = tx[t].level]
  /\ UNCHANGED <<incidents, zones, risks, keys, reports, counted>>

(* The zone is looked up from the incident's coordinates, and read without *)
(* a lock.                                                                 *)
IncidentPlace(t) == IF tx[t].joins THEN incidents[tx[t].incident].place ELSE PlaceOf[tx[t].msg]

FindZone(t) ==
  LET near == NearestZones(IncidentPlace(t)) IN
  /\ Goto(t, "zone", "flush")
  /\ \/ \E z \in near :
          tx' = [tx EXCEPT ![t].found = TRUE, ![t].zone = z,
                   ![t].seenCount = zones[z].count, ![t].seenStatus = zones[z].status]
     \/ /\ near = {}
        /\ tx' = [tx EXCEPT ![t].found = FALSE, ![t].zone = t,
                    ![t].seenCount = 0, ![t].seenStatus = NORMAL]
  /\ UNCHANGED <<storeVars, keys, reports, counted>>

(* Mutant: the severity is recalculated before the flush.                  *)
SkipFlush(t) == Goto(t, "flush", "severity") /\ UNCHANGED <<storeVars, keys, reports, tx, counted>>

(* db.flush() sends the changed report_count of the zone: the UPDATE waits *)
(* for the row and keeps it locked.                                        *)
FlushZone(t) ==
  /\ Goto(t, "flush", "severity")
  /\ Free(t, {ZoneRow(tx[t].zone)})
  /\ Acquire(t, {ZoneRow(tx[t].zone)})
  /\ UNCHANGED <<incidents, zones, risks, keys, reports, tx, counted>>

(* recalculate_zone_severity: first the incidents of the zone, those that  *)
(* are committed and the transaction's own one ...                         *)
OwnPriority(t) ==
  IF tx[t].raise # 0 THEN tx[t].raise ELSE incidents[tx[t].incident].priority

CountIncidents(t) ==
  LET others == OpenIn(tx[t].zone) \ {tx[t].incident} IN
  /\ Goto(t, "severity", "raise")
  /\ tx' = [tx EXCEPT ![t].status =
              SosStatus(Cardinality(others) + 1,
                        {incidents[i].priority : i \in others} \cup {OwnPriority(t)})]
  /\ UNCHANGED <<storeVars, keys, reports, counted>>

(* ... then the latest risk.  A change is broadcast before the commit.     *)
RaiseToRisk(t) ==
  /\ Goto(t, "raise", "commit")
  /\ tx' = [tx EXCEPT ![t].status = Higher(@, risks[tx[t].zone].level)]
  /\ UNCHANGED <<storeVars, keys, reports, counted>>

(* The one commit of correlate_incident.  Only changed columns are sent:   *)
(* report_count = report_count + 1 is computed by the database, the zone's *)
(* count and status were computed from the row that was read.              *)
IncidentRewritten(t) ==  (* mutant: the whole row is written, status included   *)
  [recent |-> TRUE, place |-> IncidentPlace(t), category |-> tx[t].category,
   priority |-> OwnPriority(t), zone |-> tx[t].zone, status |-> "NEW",
   count |-> IF tx[t].joins THEN incidents[tx[t].incident].count + 1 ELSE 1]

IncidentAfter(t) ==
  LET i == tx[t].incident IN
  IF tx[t].joins
  THEN [incidents[i] EXCEPT !.count = @ + 1, !.zone = tx[t].zone,
          !.priority = IF tx[t].raise # 0 THEN tx[t].raise ELSE @]
  ELSE [recent |-> TRUE, place |-> PlaceOf[tx[t].msg], category |-> tx[t].category,
        priority |-> tx[t].raise, count |-> 1, zone |-> tx[t].zone, status |-> "NEW"]

ZoneAfter(t) ==
  LET z == tx[t].zone IN
  IF tx[t].found
  THEN [zones[z] EXCEPT !.count = tx[t].seenCount + 1,
          !.status = IF tx[t].status # tx[t].seenStatus THEN tx[t].status ELSE @]
  ELSE [place |-> IncidentPlace(t), count |-> 1, status |-> tx[t].status]

CommitCorrelation(t) ==
  /\ Goto(t, "commit", "link")
  /\ incidents' = [incidents EXCEPT ![tx[t].incident] = IncidentAfter(t)]
  /\ zones' = [zones EXCEPT ![tx[t].zone] = ZoneAfter(t)]
  /\ counted' = [counted EXCEPT ![tx[t].msg] = tx[t].incident]
  /\ ReleaseAll(t)
  /\ UNCHANGED <<risks, keys, reports, tx>>

(* Back in the pipeline: the report gets its incident in a commit of its   *)
(* own, and the answer follows the NEW_SOS broadcast.                      *)
LinkReport(t) ==
  /\ Goto(t, "link", "notify")
  /\ reports' = [reports EXCEPT ![tx[t].msg].incident = tx[t].incident]
  /\ UNCHANGED <<storeVars, keys, tx, counted>>

Notify(t) ==
  /\ Goto(t, "notify", "accepted")
  /\ UNCHANGED <<storeVars, keys, reports, tx, counted>>

AbortUnrolled(t) ==  (* mutant: no rollback ends the transaction               *)
  /\ pc[t] \in Step
  /\ pc' = [pc EXCEPT ![t] = "aborted"]
  /\ UNCHANGED <<storeVars, keys, reports, tx, counted>>

(* An exception, a lost connection or the end of the process: the open     *)
(* transaction is rolled back.  A crash of the process is this action for  *)
(* every delivery in progress.                                             *)
Abort(t) ==
  /\ pc[t] \in Step
  /\ pc' = [pc EXCEPT ![t] = "aborted"]
  /\ ReleaseAll(t)
  /\ UNCHANGED <<incidents, zones, risks, keys, reports, tx, counted>>

(* Two hours pass: an incident no longer attracts reports.                 *)
LeaveWindow(i) ==
  /\ incidents[i] # None
  /\ incidents[i].recent
  /\ incidents' = [incidents EXCEPT ![i].recent = FALSE]
  /\ UNCHANGED <<zones, risks, locks, ingestVars>>
-----------------------------------------------------------------------------
Process(t) ==
  \/ Deduplicate(t) \/ Verify(t) \/ Score(t) \/ InsertReport(t)
  \/ SelectIncidents(t) \/ Correlate(t) \/ FindZone(t) \/ FlushZone(t)
  \/ CountIncidents(t) \/ RaiseToRisk(t) \/ CommitCorrelation(t)
  \/ LinkReport(t) \/ Notify(t)

IngestNext ==
  \/ \E k \in Key : RegisterKey(k)
  \/ \E t \in Task : (\E m \in Msg : Deliver(t, m)) \/ Process(t) \/ Abort(t)
  \/ \E i \in IncidentId : LeaveWindow(i)

IngestStart == StoreInit /\ IngestInit
IngestSpec == IngestStart /\ [][IngestNext]_ingestAll
-----------------------------------------------------------------------------
(* A delivery that reached the database is counted, at most once, in the   *)
(* incident its report is finally linked to, and the report_count of every *)
(* incident is the number of reports counted in it: see SosLedger.  The    *)
(* refinement mapping reads the ledger off the tables.                     *)
Ledger == INSTANCE SosLedger WITH
  stored <- {m \in Msg : reports[m] # None},
  linked <- [m \in Msg |-> IF reports[m] = None THEN None ELSE reports[m].incident],
  tally  <- [i \in IncidentId |-> IF incidents[i] = None THEN 0 ELSE incidents[i].count]

LedgerSpec == Ledger!Spec

(* No report is graver than the incident it was counted in: a raise of the *)
(* priority by one delivery is not overwritten by another one that read    *)
(* the incident earlier (the FOR UPDATE lock in correlate_incident).       *)
PriorityCoversReports ==
  \A m \in Msg : counted[m] # None /\ reports[m] # None =>
    incidents[counted[m]].priority >= reports[m].level

(* Where every place has one nearest seeded zone, and in reach, the status *)
(* of a zone is at least what its open incidents justify: of two deliveries*)
(* into a zone, the second counts what the first committed (the flush      *)
(* before recalculate_zone_severity locks the zone).                       *)
IsHome(p, z) ==
  /\ z \in DOMAIN SeedPlace
  /\ Within(p, SeedPlace[z], ZoneRadius)
  /\ \A y \in DOMAIN SeedPlace \ {z} : Dist[p, SeedPlace[z]] < Dist[p, SeedPlace[y]]

SeedsCover == \A p \in Place : \E z \in ZoneId : IsHome(p, z)

ZoneStatusJustified ==
  SeedsCover => \A z \in ZoneId : zones[z] # None => zones[z].status >= JustifiedStatus(z)

(* A stored report without an incident has the delivery that stored it     *)
(* still at work, or lost it half way: nothing else leaves it unlinked.    *)
UnlinkedOnlyByAbort ==
  \A m \in Msg : (reports[m] # None /\ reports[m].incident = None) =>
    \E t \in Task : tx[t].msg = m /\ pc[t] \in Correlating \cup {"link", "aborted"}
=============================================================================
