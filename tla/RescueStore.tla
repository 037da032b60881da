---------------------------- MODULE RescueStore -----------------------------
(***************************************************************************)
(* The tables that several handlers of the backend read and write: the     *)
(* incidents, the zones and, per zone, the latest cyclone risk.  The       *)
(* handlers run interleaved at every await of one asyncio event loop, each *)
(* in a database session of its own.  The database is PostgreSQL at READ   *)
(* COMMITTED: a statement sees what is committed when it starts and what   *)
(* its own transaction wrote, a written or FOR UPDATE-selected row stays   *)
(* locked to the end of the transaction, and a statement that needs a      *)
(* locked row waits.                                                       *)
(***************************************************************************)
EXTENDS ZoneSeverity

CONSTANTS
  Session,         (* database sessions, one for each call of a handler          *)
  IncidentId,      (* identities of incident rows                                *)
  ZoneId,          (* identities of zone rows                                    *)
  Place,           (* coordinates                                                *)
  Category,        (* emergency categories                                       *)
  Dist,            (* Dist[p, q]: metres between two coordinates                 *)
  IncidentRadius,  (* 500: a report joins an incident at most this far away      *)
  ZoneRadius,      (* 2000: an incident joins a zone at most this far away       *)
  SeedPlace,       (* SeedPlace[z]: where the zones set up by the seed lie       *)
  None             (* the SQL NULL                                               *)

VARIABLES
  incidents,  (* the table incidents                                             *)
  zones,      (* the table zones                                                 *)
  risks,      (* for each zone the cyclone_zone_risk row of greatest computed_at *)
  locks       (* the rows each session has locked                                *)

storeVars == <<incidents, zones, risks, locks>>

IncidentStatus == {"NEW", "DISPATCHED", "RESOLVED"}

(* recent: created less than two hours ago.                                *)
Incident == [recent: BOOLEAN, place: Place, category: Category, priority: Priority,
             count: Nat, zone: ZoneId, status: IncidentStatus]

Zone == [place: Place, count: Nat, status: Status]

(* at: the order of computed_at, 0 when the zone has no risk row.          *)
Risk == [level: Status, at: Nat]
NoRisk == [level |-> NORMAL, at |-> 0]

ASSUME StoreAssumption ==
  /\ Dist \in [Place \X Place -> Nat]
  /\ IncidentRadius \in Nat
  /\ ZoneRadius \in Nat
  /\ DOMAIN SeedPlace \subseteq ZoneId
  /\ \A z \in DOMAIN SeedPlace : SeedPlace[z] \in Place
  /\ None \notin IncidentId \cup ZoneId \cup Incident \cup Zone

IncidentRow(i) == <<"incident", i>>
ZoneRow(z) == <<"zone", z>>
Row == ({"incident"} \X IncidentId) \cup ({"zone"} \X ZoneId)

StoreTypeOK ==
  /\ incidents \in [IncidentId -> Incident \cup {None}]
  /\ zones \in [ZoneId -> Zone \cup {None}]
  /\ risks \in [ZoneId -> Risk]
  /\ locks \in [Session -> SUBSET Row]

(* The seed creates its zones with status NORMAL and no reports.           *)
StoreInit ==
  /\ incidents = [i \in IncidentId |-> None]
  /\ zones = [z \in ZoneId |->
               IF z \in DOMAIN SeedPlace
               THEN [place |-> SeedPlace[z], count |-> 0, status |-> NORMAL]
               ELSE None]
  /\ risks = [z \in ZoneId |-> NoRisk]
  /\ locks = [s \in Session |-> {}]

(* Session s need not wait for any of these rows.                          *)
Free(s, rows) == \A o \in Session \ {s} : locks[o] \cap rows = {}
Acquire(s, rows) == locks' = [locks EXCEPT ![s] = @ \cup rows]
ReleaseAll(s) == locks' = [locks EXCEPT ![s] = {}]

(* A row lock has one holder.                                              *)
RowLocksExclusive ==
  \A s, o \in Session : s # o => locks[s] \cap locks[o] = {}

Within(p, q, radius) == Dist[p, q] <= radius

(* The existing zones near a place, and the nearest of them; two at the    *)
(* same distance are returned in an order the query does not fix.          *)
ZonesNear(p) == {z \in ZoneId : zones[z] # None /\ Within(p, zones[z].place, ZoneRadius)}
NearestZones(p) ==
  {z \in ZonesNear(p) : \A y \in ZonesNear(p) : Dist[p, zones[z].place] <= Dist[p, zones[y].place]}

(* The open incidents of a zone.                                           *)
OpenIn(z) ==
  {i \in IncidentId : /\ incidents[i] # None
                      /\ incidents[i].zone = z
                      /\ incidents[i].status # "RESOLVED"}

(* What the open incidents of z justify, as committed.                     *)
JustifiedStatus(z) ==
  SosStatus(Cardinality(OpenIn(z)), {incidents[i].priority : i \in OpenIn(z)})
=============================================================================
