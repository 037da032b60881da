--------------------------- MODULE CyclonePipeline --------------------------
(***************************************************************************)
(* process_cyclone_intelligence: one background task for every frame the   *)
(* ML producer or the replay posts.  A task records the frame, rates the   *)
(* zones, elevates them, versions the cyclone's alert, commits all of it   *)
(* at once and only then broadcasts (the outbox).  Its transaction starts  *)
(* with an upsert of the cyclone's row in cyclone_latest, which stays      *)
(* locked to the commit.                                                   *)
(***************************************************************************)
EXTENDS RescueStore

CONSTANTS
  CycTask,    (* background tasks                                                *)
  Frame,      (* (cyclone_id, timestamp) pairs                                   *)
  Cyclone,    (* cyclone_ids                                                     *)
  CycloneOf,  (* CycloneOf[f]: the cyclone of frame f                            *)
  TimeOf,     (* TimeOf[f]: its timestamp                                        *)
  HasPath,    (* the frames with a predicted path                                *)
  RiskAt      (* RiskAt[f][p]: the risk level that evaluate_risk gives place p   *)

AlertLevel == HIGH .. EXTREME
Alert == [cyclone: Cyclone, priority: AlertLevel, status: {"ACTIVE", "SUPERSEDED"},
          version: Nat \ {0}, supersedes: CycTask \cup {None}]

ASSUME CycloneAssumption ==
  /\ CycTask \subseteq Session
  /\ CycloneOf \in [Frame -> Cyclone]
  /\ TimeOf \in [Frame -> Nat]
  /\ HasPath \subseteq Frame
  /\ RiskAt \in [Frame -> [Place -> Status]]
  /\ None \notin Frame \cup CycTask \cup Alert

VARIABLES
  frames,     (* the table cyclone_intelligence                                  *)
  latest,     (* the table cyclone_latest: the frame it shows for each cyclone   *)
  alerts,     (* the table alerts; a row is named by the task that issued it     *)
  announced,  (* the alerts that were broadcast                                  *)
  now,        (* the order of the computed_at stamps taken so far                *)
  cpc,        (* where each task is, or how it ended                             *)
  ctx         (* the locals and uncommitted writes of each task                  *)

cycloneVars == <<frames, latest, alerts, announced, now, cpc, ctx>>
cycloneAll == <<storeVars, cycloneVars>>

CycStep == {"save", "rate", "alert", "flush", "commit", "broadcast"}
CycEnd == {"ignored", "done", "failed", "unannounced"}

(* seen: the status of each zone as evaluate_risk read it, NORMAL for the  *)
(* zones it did not read; rated: the zones it read; issue: the task issues *)
(* an alert; replaces: the alert to supersede.                             *)
Ctx == [frame: Frame \cup {None}, rated: SUBSET ZoneId, seen: [ZoneId -> Status],
        at: Nat, issue: BOOLEAN, replaces: CycTask \cup {None}]

CycloneTypeOK ==
  /\ StoreTypeOK
  /\ frames \in SUBSET Frame
  /\ latest \in [Cyclone -> Frame \cup {None}]
  /\ alerts \in [CycTask -> Alert \cup {None}]
  /\ announced \in SUBSET CycTask
  /\ now \in Nat
  /\ cpc \in [CycTask -> {"idle"} \cup CycStep \cup CycEnd]
  /\ ctx \in [CycTask -> Ctx]

CycloneInit ==
  /\ frames = {}
  /\ latest = [k \in Cyclone |-> None]
  /\ alerts = [c \in CycTask |-> None]
  /\ announced = {}
  /\ now = 0
  /\ cpc = [c \in CycTask |-> "idle"]
  /\ ctx = [c \in CycTask |-> [frame |-> None, rated |-> {}, seen |-> [z \in ZoneId |-> NORMAL],
                               at |-> 0, issue |-> FALSE, replaces |-> None]]

CycGoto(c, from, to) == cpc[c] = from /\ cpc' = [cpc EXCEPT ![c] = to]
-----------------------------------------------------------------------------
(* POST /cyclone/intelligence answers 202 and leaves the frame to a task.  *)
Post(c, f) ==
  /\ CycGoto(c, "idle", "save")
  /\ ctx' = [ctx EXCEPT ![c].frame = f]
  /\ UNCHANGED <<storeVars, frames, latest, alerts, announced, now>>

(* Mutant: the row is not locked.                                          *)
RowUnlocked(c) == TRUE

(* The task holds the cyclone_latest row of cyclone k.                     *)
Holds(c, k) == cpc[c] \in {"rate", "alert", "flush", "commit"} /\ CycloneOf[ctx[c].frame] = k
RowFree(c) == \A o \in CycTask \ {c} : ~Holds(o, CycloneOf[ctx[c].frame])

(* save_intelligence_frame.  INSERT ... ON CONFLICT DO NOTHING finds the   *)
(* frame, or inserts it; against an uncommitted insert of the same frame   *)
(* it waits, and the upsert waits for any other frame of the cyclone.      *)
SaveFrame(c) ==
  /\ CycGoto(c, "save", IF ctx[c].frame \in frames THEN "ignored" ELSE "rate")
  /\ ctx[c].frame \in frames \/ RowFree(c)
  /\ UNCHANGED <<storeVars, frames, latest, alerts, announced, now, ctx>>

Level(c, z) == RiskAt[ctx[c].frame][zones[z].place]

(* evaluate_risk reads every zone, without a lock.  Without a predicted    *)
(* path there are no risks, and nothing left but the commit.               *)
EvaluateRisk(c) ==
  /\ \/ /\ ctx[c].frame \in HasPath
        /\ CycGoto(c, "rate", "alert")
        /\ now' = now + 1
        /\ ctx' = [ctx EXCEPT ![c].rated = {z \in ZoneId : zones[z] # None},
                     ![c].seen = [z \in ZoneId |-> IF zones[z] = None THEN NORMAL ELSE zones[z].status],
                     ![c].at = now + 1]
     \/ /\ ctx[c].frame \notin HasPath
        /\ CycGoto(c, "rate", "commit")
        /\ UNCHANGED <<now, ctx>>
  /\ UNCHANGED <<storeVars, frames, latest, alerts, announced>>

(* elevate_zone_for_cyclone on the zones as they were read.                *)
NewStatus(c, z) == ElevatedStatus(ctx[c].seen[z], Level(c, z))
Elevated(c) == {z \in ctx[c].rated : NewStatus(c, z) # ctx[c].seen[z]}

AlertLevels(c) == {Level(c, z) : z \in ctx[c].rated} \cap AlertLevel
Highest(c) == CHOOSE l \in AlertLevels(c) : \A k \in AlertLevels(c) : k <= l

ActiveAlerts(k) == {a \in CycTask : alerts[a] # None /\ alerts[a].cyclone = k /\ alerts[a].status = "ACTIVE"}

(* generate_alerts: the same priority again issues nothing, another one    *)
(* supersedes the active alert.                                            *)
NotEscalated(c, a) == alerts[a].priority >= Highest(c)  (* mutant: only escalation counts *)
Repeats(c, a) == alerts[a].priority = Highest(c)

DecideAlert(c) ==
  LET active == ActiveAlerts(CycloneOf[ctx[c].frame]) IN
  /\ CycGoto(c, "alert", "flush")
  /\ \/ /\ AlertLevels(c) = {}
        /\ UNCHANGED ctx
     \/ /\ AlertLevels(c) # {}
        /\ \/ /\ active = {}
              /\ ctx' = [ctx EXCEPT ![c].issue = TRUE]
           \/ \E a \in active :
                ctx' = IF Repeats(c, a) THEN ctx
                       ELSE [ctx EXCEPT ![c].issue = TRUE, ![c].replaces = a]
  /\ UNCHANGED <<storeVars, frames, latest, alerts, announced, now>>

(* The flush of the elevated zones, on the alert's flush or on the commit: *)
(* the UPDATEs wait for the rows.                                          *)
FlushElevated(c) ==
  LET rows == {ZoneRow(z) : z \in Elevated(c)} IN
  /\ CycGoto(c, "flush", "commit")
  /\ Free(c, rows)
  /\ Acquire(c, rows)
  /\ UNCHANGED <<incidents, zones, risks, frames, latest, alerts, announced, now, ctx>>

Unversioned(c) ==  (* mutant: a new version does not name the old one           *)
  [cyclone |-> CycloneOf[ctx[c].frame], priority |-> Highest(c), status |-> "ACTIVE",
   version |-> IF ctx[c].replaces = None THEN 1 ELSE alerts[ctx[c].replaces].version + 1,
   supersedes |-> None]

NewAlert(c) ==
  LET old == ctx[c].replaces IN
  [cyclone |-> CycloneOf[ctx[c].frame], priority |-> Highest(c), status |-> "ACTIVE",
   version |-> IF old = None THEN 1 ELSE alerts[old].version + 1,
   supersedes |-> old]

(* A risk row becomes the latest of its zone by its computed_at.           *)
LatestRisk(c, z) ==
  IF z \in ctx[c].rated /\ ctx[c].at > risks[z].at
  THEN [level |-> Level(c, z), at |-> ctx[c].at] ELSE risks[z]

CommitFrame(c) ==
  /\ CycGoto(c, "commit", "broadcast")
  /\ frames' = frames \cup {ctx[c].frame}
  /\ latest' = [latest EXCEPT ![CycloneOf[ctx[c].frame]] = ctx[c].frame]
  /\ zones' = [z \in ZoneId |-> IF z \in Elevated(c) THEN [zones[z] EXCEPT !.status = NewStatus(c, z)]
                                                     ELSE zones[z]]
  /\ risks' = [z \in ZoneId |-> LatestRisk(c, z)]
  /\ alerts' = [a \in CycTask |->
                 IF a = c /\ ctx[c].issue THEN NewAlert(c)
                 ELSE IF ctx[c].issue /\ a = ctx[c].replaces THEN [alerts[a] EXCEPT !.status = "SUPERSEDED"]
                 ELSE alerts[a]]
  /\ ReleaseAll(c)
  /\ UNCHANGED <<incidents, announced, now, ctx>>

(* The outbox is emptied after the commit.                                 *)
Broadcast(c) ==
  /\ CycGoto(c, "broadcast", "done")
  /\ announced' = IF ctx[c].issue THEN announced \cup {c} ELSE announced
  /\ UNCHANGED <<storeVars, frames, latest, alerts, now, ctx>>

(* An exception rolls the transaction back; after the commit it, or a      *)
(* crash, only loses the events.                                           *)
AbortFrame(c) ==
  /\ cpc[c] \in CycStep
  /\ cpc' = [cpc EXCEPT ![c] = IF @ = "broadcast" THEN "unannounced" ELSE "failed"]
  /\ ReleaseAll(c)
  /\ UNCHANGED <<incidents, zones, risks, frames, latest, alerts, announced, now, ctx>>
-----------------------------------------------------------------------------
Work(c) ==
  \/ SaveFrame(c) \/ EvaluateRisk(c) \/ DecideAlert(c) \/ FlushElevated(c)
  \/ CommitFrame(c) \/ Broadcast(c)

CycloneNext ==
  \E c \in CycTask : (\E f \in Frame : Post(c, f)) \/ Work(c) \/ AbortFrame(c)

CycloneStart == StoreInit /\ CycloneInit
CycloneSpec == CycloneStart /\ [][CycloneNext]_cycloneAll
-----------------------------------------------------------------------------
(* However the tasks of one cyclone overlap, it has at most one ACTIVE     *)
(* alert: the cyclone_latest row serialises them.                          *)
OneActiveAlert ==
  \A a, b \in CycTask :
    (alerts[a] # None /\ alerts[b] # None /\ alerts[a].cyclone = alerts[b].cyclone
       /\ alerts[a].status = "ACTIVE" /\ alerts[b].status = "ACTIVE") => a = b

(* Versions form a chain: a later version names the alert it replaced,     *)
(* which has the version before, is SUPERSEDED and has no other successor. *)
AlertsFormAChain ==
  \A a \in CycTask : alerts[a] # None =>
    LET old == alerts[a].supersedes IN
    IF old = None THEN alerts[a].version = 1
    ELSE /\ alerts[old] # None
         /\ alerts[old].cyclone = alerts[a].cyclone
         /\ alerts[old].status = "SUPERSEDED"
         /\ alerts[old].version + 1 = alerts[a].version
         /\ \A b \in CycTask : (alerts[b] # None /\ alerts[b].supersedes = old) => b = a

Committed(c) == cpc[c] \in {"broadcast", "done", "unannounced"}

(* The same frame, posted or replayed twice, is processed once.            *)
FrameProcessedOnce ==
  \A c, d \in CycTask : (Committed(c) /\ Committed(d) /\ ctx[c].frame = ctx[d].frame) => c = d

(* The active alert of a cyclone has the priority of the frame that was    *)
(* rated last among those with a zone to warn.                             *)
ActiveAlertIsCurrent ==
  \A c \in CycTask :
    (/\ Committed(c) /\ AlertLevels(c) # {}
     /\ \A d \in CycTask :
          (Committed(d) /\ AlertLevels(d) # {} /\ CycloneOf[ctx[d].frame] = CycloneOf[ctx[c].frame])
             => ctx[d].at <= ctx[c].at)
    => \E a \in ActiveAlerts(CycloneOf[ctx[c].frame]) : alerts[a].priority = Highest(c)

(* Nothing is announced that a rollback could still take back.             *)
AnnouncedIsCommitted == \A a \in announced : alerts[a] # None
=============================================================================
