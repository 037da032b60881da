---------------------- MODULE CyclonePipeline_proofs ----------------------
(***************************************************************************)
(* Proofs about CyclonePipeline, for any number of tasks, frames, cyclones *)
(* and zones: the tasks of one cyclone are serialised by its row, which is *)
(* what its alerts rely on.                                                *)
(***************************************************************************)
EXTENDS CyclonePipeline, TLAPS

Holding == {"rate", "alert", "flush", "commit"}
Ended == {"broadcast", "done", "unannounced"}

HasFrame(c) == cpc[c] # "idle" => ctx[c].frame \in Frame

(* A frame is recorded by the commit of the task that processes it.        *)
FrameRecorded(c) ==
  /\ cpc[c] \in Holding => ctx[c].frame \notin frames
  /\ cpc[c] \in Ended => ctx[c].frame \in frames

(* Nothing is decided before the alerts are read, nor issued before the    *)
(* commit.                                                                 *)
CycUndecided(c) ==
  /\ cpc[c] \in {"idle", "save", "rate"} => ctx[c].rated = {}
  /\ cpc[c] \in {"idle", "save", "rate", "alert"} => ~ctx[c].issue /\ ctx[c].replaces = None

IssuedAtCommit(c) == alerts[c] # None <=> cpc[c] \in Ended /\ ctx[c].issue

(* The zones a task rated exist.                                           *)
RatedExist(c) == \A z \in ctx[c].rated : zones[z] # None

(* What a task read of the alerts stays true to its commit.                *)
DecisionHolds(c) == cpc[c] \in {"flush", "commit"} =>
  LET active == ActiveAlerts(CycloneOf[ctx[c].frame]) IN
  /\ ctx[c].issue => AlertLevels(c) # {}
  /\ ctx[c].replaces # None => ctx[c].issue
  /\ (ctx[c].issue /\ ctx[c].replaces = None) => active = {}
  /\ (ctx[c].issue /\ ctx[c].replaces # None) => active = {ctx[c].replaces}
  /\ (~ctx[c].issue /\ AlertLevels(c) # {}) => \E a \in active : alerts[a].priority = Highest(c)

CycTaskInv(c) ==
  /\ HasFrame(c)
  /\ FrameRecorded(c)
  /\ CycUndecided(c)
  /\ IssuedAtCommit(c)
  /\ RatedExist(c)
  /\ DecisionHolds(c)

(* The tasks that hold a cyclone_latest row hold different ones.           *)
Serialised ==
  \A c, d \in CycTask :
    (/\ cpc[c] \in Holding /\ cpc[d] \in Holding
     /\ CycloneOf[ctx[c].frame] = CycloneOf[ctx[d].frame]) => c = d

CycloneInv ==
  /\ CycloneTypeOK
  /\ \A c \in CycTask : CycTaskInv(c)
  /\ Serialised
  /\ OneActiveAlert
  /\ AlertsFormAChain
  /\ FrameProcessedOnce
  /\ AnnouncedIsCommitted
-----------------------------------------------------------------------------
LEMMA CycTypeInit == StoreInit /\ CycloneInit => CycloneTypeOK
  BY StoreAssumption
  DEF StoreInit, CycloneInit, CycloneTypeOK, StoreTypeOK, Zone, Risk, NoRisk, Status, NORMAL, EXTREME, Ctx

LEMMA CycInvInit == StoreInit /\ CycloneInit => CycloneInv
<1> SUFFICES ASSUME StoreInit, CycloneInit PROVE CycloneInv
  OBVIOUS
<1>1. ASSUME NEW c \in CycTask PROVE CycTaskInv(c)
  BY DEF CycloneInit, CycTaskInv, HasFrame, FrameRecorded, CycUndecided, IssuedAtCommit, RatedExist, DecisionHolds,
         Holding, Ended
<1>2. Serialised /\ OneActiveAlert /\ AlertsFormAChain /\ FrameProcessedOnce /\ AnnouncedIsCommitted
  BY DEF CycloneInit, Serialised, OneActiveAlert, AlertsFormAChain, FrameProcessedOnce, Committed,
         AnnouncedIsCommitted, Holding
<1> QED BY <1>1, <1>2, CycTypeInit DEF CycloneInv

(* The graver of finitely many levels exists.                              *)
LEMMA HighestLevel ==
  ASSUME NEW c \in CycTask, AlertLevels(c) # {} PROVE Highest(c) \in AlertLevels(c) /\ Highest(c) \in AlertLevel
<1>1. \E l \in AlertLevels(c) : \A k \in AlertLevels(c) : k <= l
  <2>1. AlertLevels(c) \subseteq {HIGH, CRITICAL, EXTREME}
    BY DEF AlertLevels, AlertLevel, HIGH, CRITICAL, EXTREME
  <2> HIDE DEF AlertLevels
  <2>2. CASE EXTREME \in AlertLevels(c)
    BY <2>1, <2>2 DEF HIGH, CRITICAL, EXTREME
  <2>3. CASE EXTREME \notin AlertLevels(c) /\ CRITICAL \in AlertLevels(c)
    BY <2>1, <2>3 DEF HIGH, CRITICAL, EXTREME
  <2>4. CASE EXTREME \notin AlertLevels(c) /\ CRITICAL \notin AlertLevels(c)
    BY <2>1, <2>4 DEF HIGH, CRITICAL, EXTREME
  <2> QED BY <2>2, <2>3, <2>4
<1>2. Highest(c) \in AlertLevels(c)
  BY <1>1 DEF Highest
<1> QED BY <1>2 DEF AlertLevels

(* Zones are neither removed nor moved: what a task saw keeps its meaning. *)
ZonesKept ==
  \A z \in ZoneId : zones[z] # None => zones'[z] # None /\ zones'[z].place = zones[z].place

LEMMA ViewKept ==
  ASSUME NEW c \in CycTask, ctx[c].rated \subseteq ZoneId, RatedExist(c), ZonesKept,
         ctx'[c].frame = ctx[c].frame, ctx'[c].rated = ctx[c].rated
  PROVE  AlertLevels(c)' = AlertLevels(c) /\ Highest(c)' = Highest(c) /\ RatedExist(c)'
<1>1. \A z \in ctx[c].rated : Level(c, z)' = Level(c, z)
  BY DEF Level, RatedExist, ZonesKept
<1>2. AlertLevels(c)' = AlertLevels(c)
  BY <1>1 DEF AlertLevels
<1> QED BY <1>2 DEF Highest, RatedExist, ZonesKept

(* A task is not disturbed by a step that leaves its tables alone.         *)
LEMMA CycUndisturbed ==
  ASSUME CycloneTypeOK, NEW c \in CycTask, CycTaskInv(c), cpc'[c] = cpc[c], ctx'[c] = ctx[c],
         UNCHANGED <<frames, alerts>>, ZonesKept
  PROVE  CycTaskInv(c)'
<1>1. ctx[c].rated \subseteq ZoneId
  BY DEF CycloneTypeOK, Ctx
<1>2. AlertLevels(c)' = AlertLevels(c) /\ Highest(c)' = Highest(c) /\ RatedExist(c)'
  BY <1>1, ViewKept DEF CycTaskInv
<1>3. DecisionHolds(c)'
  BY <1>2 DEF CycTaskInv, DecisionHolds, ActiveAlerts
<1> QED BY <1>2, <1>3 DEF CycTaskInv, HasFrame, FrameRecorded, CycUndecided, IssuedAtCommit

(* Steps that write nothing but the place and the locals of a task.        *)
LEMMA CycQuietStep ==
  ASSUME CycloneInv, NEW c \in CycTask, NEW to \in {"idle"} \cup CycStep \cup CycEnd,
         cpc' = [cpc EXCEPT ![c] = to], UNCHANGED <<incidents, zones, risks, frames, latest, alerts>>,
         announced' \in SUBSET CycTask, \A a \in announced' : alerts[a] # None,
         locks' \in [Session -> SUBSET Row], now' \in Nat,
         ctx' \in [CycTask -> Ctx], \A d \in CycTask \ {c} : ctx'[d] = ctx[d],
         CycTaskInv(c)', to \in Holding => ctx'[c].frame = ctx[c].frame,
         to \in Holding => cpc[c] \in Holding \/ RowFree(c),
         to \in Ended => cpc[c] \in Ended /\ ctx'[c] = ctx[c]
  PROVE  CycloneInv'
<1>1. CycloneTypeOK'
  BY DEF CycloneInv, CycloneTypeOK, StoreTypeOK
<1>2. cpc \in [CycTask -> {"idle"} \cup CycStep \cup CycEnd]
  BY DEF CycloneInv, CycloneTypeOK
<1>3. ASSUME NEW d \in CycTask PROVE CycTaskInv(d)'
  <2>1. CASE d # c
    <3>1. ZonesKept
      BY DEF ZonesKept
    <3> QED BY <2>1, <3>1, <1>2, CycUndisturbed DEF CycloneInv
  <2> QED BY <2>1
<1>4. Serialised'
  BY <1>2 DEF CycloneInv, Serialised, RowFree, Holds, Holding
<1>5. FrameProcessedOnce'
  BY <1>2 DEF CycloneInv, FrameProcessedOnce, Committed, Ended
<1>6. (OneActiveAlert /\ AlertsFormAChain /\ AnnouncedIsCommitted)'
  BY DEF CycloneInv, OneActiveAlert, AlertsFormAChain, AnnouncedIsCommitted
<1> QED BY <1>1, <1>3, <1>4, <1>5, <1>6 DEF CycloneInv
-----------------------------------------------------------------------------
LEMMA PostStep ==
  ASSUME CycloneInv, NEW c \in CycTask, NEW f \in Frame, Post(c, f) PROVE CycloneInv'
<1>1. /\ cpc[c] = "idle" /\ cpc' = [cpc EXCEPT ![c] = "save"] /\ ctx \in [CycTask -> Ctx]
      /\ cpc \in [CycTask -> {"idle"} \cup CycStep \cup CycEnd]
      /\ ctx' = [ctx EXCEPT ![c].frame = f]
      /\ UNCHANGED <<incidents, zones, risks, locks, frames, latest, alerts, announced, now>>
  BY DEF Post, CycGoto, storeVars, CycloneInv, CycloneTypeOK
<1>2. /\ ctx' \in [CycTask -> Ctx] /\ \A d \in CycTask \ {c} : ctx'[d] = ctx[d]
      /\ ctx'[c].frame = f /\ ctx'[c].issue = ctx[c].issue /\ ctx'[c].replaces = ctx[c].replaces
      /\ ctx'[c].rated = ctx[c].rated
  BY <1>1 DEF Ctx
<1>3. CycTaskInv(c)'
  BY <1>1, <1>2 DEF CycloneInv, CycTaskInv, HasFrame, FrameRecorded, CycUndecided, IssuedAtCommit, RatedExist,
                    DecisionHolds, Holding, Ended
<1>4. now \in Nat /\ locks \in [Session -> SUBSET Row]
  BY DEF CycloneInv, CycloneTypeOK, StoreTypeOK
<1> QED BY <1>1, <1>2, <1>3, <1>4, CycQuietStep
      DEF CycStep, Holding, Ended, CycloneInv, CycloneTypeOK, AnnouncedIsCommitted

LEMMA SaveFrameStep ==
  ASSUME CycloneInv, NEW c \in CycTask, SaveFrame(c) PROVE CycloneInv'
<1>1. PICK to \in {"ignored", "rate"} :
        /\ cpc[c] = "save" /\ cpc' = [cpc EXCEPT ![c] = to]
        /\ to = "rate" => ctx[c].frame \notin frames /\ RowFree(c)
        /\ UNCHANGED <<incidents, zones, risks, locks, frames, latest, alerts, announced, now, ctx>>
  BY DEF SaveFrame, CycGoto, storeVars
<1>2. /\ now \in Nat /\ locks \in [Session -> SUBSET Row] /\ ctx \in [CycTask -> Ctx]
      /\ cpc \in [CycTask -> {"idle"} \cup CycStep \cup CycEnd]
  BY DEF CycloneInv, CycloneTypeOK, StoreTypeOK
<1>3. CycTaskInv(c)'
  BY <1>1, <1>2 DEF CycloneInv, CycTaskInv, HasFrame, FrameRecorded, CycUndecided, IssuedAtCommit, RatedExist,
                    DecisionHolds, Holding, Ended
<1> QED BY <1>1, <1>2, <1>3, CycQuietStep
      DEF CycStep, CycEnd, Holding, Ended, CycloneInv, CycloneTypeOK, AnnouncedIsCommitted

LEMMA EvaluateRiskStep ==
  ASSUME CycloneInv, NEW c \in CycTask, EvaluateRisk(c) PROVE CycloneInv'
<1>1. /\ cpc[c] = "rate" /\ ctx \in [CycTask -> Ctx] /\ now \in Nat /\ locks \in [Session -> SUBSET Row]
      /\ cpc \in [CycTask -> {"idle"} \cup CycStep \cup CycEnd] /\ zones \in [ZoneId -> Zone \cup {None}]
      /\ UNCHANGED <<incidents, zones, risks, locks, frames, latest, alerts, announced>>
  BY DEF EvaluateRisk, CycGoto, storeVars, CycloneInv, CycloneTypeOK, StoreTypeOK
<1>2. CASE /\ cpc' = [cpc EXCEPT ![c] = "alert"] /\ now' = now + 1
           /\ ctx' = [ctx EXCEPT ![c].rated = {z \in ZoneId : zones[z] # None},
                     ![c].seen = [z \in ZoneId |-> IF zones[z] = None THEN NORMAL ELSE zones[z].status],
                     ![c].at = now + 1]
  <2>1. PICK seen \in [ZoneId -> Status], rated \in SUBSET ZoneId :
          /\ ctx' = [ctx EXCEPT ![c].rated = rated, ![c].seen = seen, ![c].at = now + 1]
          /\ rated = {z \in ZoneId : zones[z] # None}
    <3>1. [z \in ZoneId |-> IF zones[z] = None THEN NORMAL ELSE zones[z].status] \in [ZoneId -> Status]
      BY <1>1 DEF Zone, Status, NORMAL, EXTREME
    <3> QED BY <1>2, <3>1
  <2>2. /\ ctx' \in [CycTask -> Ctx] /\ \A d \in CycTask \ {c} : ctx'[d] = ctx[d]
        /\ ctx'[c].frame = ctx[c].frame /\ ctx'[c].issue = ctx[c].issue /\ ctx'[c].replaces = ctx[c].replaces
        /\ ctx'[c].rated = {z \in ZoneId : zones[z] # None}
    <3>1. ctx[c] \in Ctx /\ now + 1 \in Nat
      BY <1>1
    <3>2. ctx'[c] = [ctx[c] EXCEPT !.rated = rated, !.seen = seen, !.at = now + 1]
      BY <1>1, <2>1
    <3>3. /\ ctx'[c].frame = ctx[c].frame /\ ctx'[c].issue = ctx[c].issue /\ ctx'[c].replaces = ctx[c].replaces
          /\ ctx'[c].rated = rated /\ ctx'[c] \in Ctx
      BY <3>1, <3>2 DEF Ctx
    <3>4. \A d \in CycTask \ {c} : ctx'[d] = ctx[d]
      BY <1>1, <2>1
    <3>5. ctx' \in [CycTask -> Ctx]
      BY <1>1, <2>1, <3>3, <3>4
    <3> QED BY <2>1, <3>3, <3>4, <3>5
  <2>3. cpc'[c] = "alert" /\ cpc' = [cpc EXCEPT ![c] = "alert"] /\ now' \in Nat
    <3>1. cpc' = [cpc EXCEPT ![c] = "alert"] /\ now' = now + 1
      BY <1>2
    <3> QED BY <1>1, <3>1
  <2>4. HasFrame(c)' /\ FrameRecorded(c)' /\ CycUndecided(c)' /\ IssuedAtCommit(c)'
    BY <1>1, <2>2, <2>3 DEF CycloneInv, CycTaskInv, HasFrame, FrameRecorded, CycUndecided, IssuedAtCommit, Holding, Ended
  <2>5. RatedExist(c)' /\ DecisionHolds(c)'
    BY <1>1, <2>2, <2>3 DEF RatedExist, DecisionHolds
  <2> QED BY <1>1, <2>2, <2>3, <2>4, <2>5, CycQuietStep
        DEF CycStep, Holding, Ended, CycloneInv, CycloneTypeOK, AnnouncedIsCommitted, CycTaskInv
<1>3. CASE cpc' = [cpc EXCEPT ![c] = "commit"] /\ UNCHANGED <<now, ctx>>
  <2>1. ctx[c].rated = {} /\ ~ctx[c].issue /\ ctx[c].replaces = None
    BY <1>1 DEF CycloneInv, CycTaskInv, CycUndecided
  <2>2. AlertLevels(c)' = {}
    BY <1>3, <2>1 DEF AlertLevels
  <2>3. CycTaskInv(c)'
    BY <1>1, <1>3, <2>1, <2>2 DEF CycloneInv, CycTaskInv, HasFrame, FrameRecorded, CycUndecided, IssuedAtCommit,
                                  RatedExist, DecisionHolds, Holding, Ended
  <2> QED BY <1>1, <1>3, <2>3, CycQuietStep
        DEF CycStep, Holding, Ended, CycloneInv, CycloneTypeOK, AnnouncedIsCommitted
<1> QED BY <1>2, <1>3 DEF EvaluateRisk, CycGoto

LEMMA DecideAlertStep ==
  ASSUME CycloneInv, NEW c \in CycTask, DecideAlert(c) PROVE CycloneInv'
<1> DEFINE active == ActiveAlerts(CycloneOf[ctx[c].frame])
<1>1. /\ cpc[c] = "alert" /\ cpc' = [cpc EXCEPT ![c] = "flush"] /\ ctx \in [CycTask -> Ctx] /\ now \in Nat
      /\ locks \in [Session -> SUBSET Row] /\ cpc \in [CycTask -> {"idle"} \cup CycStep \cup CycEnd]
      /\ UNCHANGED <<incidents, zones, risks, locks, frames, latest, alerts, announced, now>>
  BY DEF DecideAlert, CycGoto, storeVars, CycloneInv, CycloneTypeOK, StoreTypeOK
<1>2. ~ctx[c].issue /\ ctx[c].replaces = None
  BY <1>1 DEF CycloneInv, CycTaskInv, CycUndecided
<1>3. /\ ctx' \in [CycTask -> Ctx] /\ \A d \in CycTask \ {c} : ctx'[d] = ctx[d]
      /\ ctx'[c].frame = ctx[c].frame /\ ctx'[c].rated = ctx[c].rated
      /\ \/ AlertLevels(c) = {} /\ ctx'[c] = ctx[c]
         \/ AlertLevels(c) # {} /\ active = {} /\ ctx'[c].issue /\ ctx'[c].replaces = None
         \/ /\ AlertLevels(c) # {}
            /\ \E a \in active :
                 \/ Repeats(c, a) /\ ctx'[c] = ctx[c]
                 \/ ctx'[c].issue /\ ctx'[c].replaces = a
  <2>1. active \subseteq CycTask
    BY DEF ActiveAlerts
  <2>2. CASE AlertLevels(c) = {} /\ UNCHANGED ctx
    BY <1>1, <2>2
  <2>3. CASE AlertLevels(c) # {} /\ active = {} /\ ctx' = [ctx EXCEPT ![c].issue = TRUE]
    <3>1. ctx' \in [CycTask -> Ctx] /\ \A d \in CycTask \ {c} : ctx'[d] = ctx[d]
      BY <1>1, <2>3 DEF Ctx
    <3>2. ctx'[c].frame = ctx[c].frame /\ ctx'[c].rated = ctx[c].rated
      BY <1>1, <2>3 DEF Ctx
    <3>3. ctx'[c].issue /\ ctx'[c].replaces = None
      BY <1>1, <1>2, <2>3 DEF Ctx
    <3> QED BY <2>3, <3>1, <3>2, <3>3
  <2>4. CASE AlertLevels(c) # {} /\ \E a \in active : Repeats(c, a) /\ ctx' = ctx
    BY <1>1, <2>4
  <2>5. CASE AlertLevels(c) # {} /\ \E a \in active : ctx' = [ctx EXCEPT ![c].issue = TRUE, ![c].replaces = a]
    <3>1. PICK a \in active : ctx' = [ctx EXCEPT ![c].issue = TRUE, ![c].replaces = a]
      BY <2>5
    <3>2. a \in CycTask
      BY <2>1
    <3>3. /\ ctx' \in [CycTask -> Ctx] /\ \A d \in CycTask \ {c} : ctx'[d] = ctx[d]
          /\ ctx'[c].frame = ctx[c].frame /\ ctx'[c].rated = ctx[c].rated
          /\ ctx'[c].issue /\ ctx'[c].replaces = a
      BY <1>1, <3>1, <3>2 DEF Ctx
    <3> QED BY <2>5, <3>3
  <2> QED BY <2>2, <2>3, <2>4, <2>5 DEF DecideAlert
<1>4. AlertLevels(c)' = AlertLevels(c) /\ Highest(c)' = Highest(c) /\ RatedExist(c)'
  <2>1. ctx[c].rated \subseteq ZoneId /\ ZonesKept
    BY <1>1 DEF Ctx, ZonesKept
  <2> QED BY <1>3, <2>1, ViewKept DEF CycloneInv, CycTaskInv
<1>5. ActiveAlerts(CycloneOf[ctx[c].frame])' = active
  BY <1>1, <1>3 DEF ActiveAlerts
<1>6. DecisionHolds(c)'
  <2> HIDE DEF active
  <2>1. active \subseteq CycTask /\ None \notin CycTask
    BY CycloneAssumption DEF ActiveAlerts, active
  <2>2. \A a, b \in active : a = b
    BY DEF CycloneInv, OneActiveAlert, ActiveAlerts, active
  <2> QED BY <1>1, <1>2, <1>3, <1>4, <1>5, <2>1, <2>2 DEF DecisionHolds, Repeats
<1>7. CycTaskInv(c)'
  BY <1>1, <1>2, <1>3, <1>4, <1>6 DEF CycloneInv, CycTaskInv, HasFrame, FrameRecorded, CycUndecided, IssuedAtCommit,
                                      Holding, Ended
<1> QED BY <1>1, <1>3, <1>7, CycQuietStep DEF CycStep, Holding, Ended, CycloneInv, CycloneTypeOK, AnnouncedIsCommitted

LEMMA FlushElevatedStep ==
  ASSUME CycloneInv, NEW c \in CycTask, FlushElevated(c) PROVE CycloneInv'
<1>1. /\ cpc[c] = "flush" /\ cpc' = [cpc EXCEPT ![c] = "commit"] /\ ctx \in [CycTask -> Ctx] /\ now \in Nat
      /\ cpc \in [CycTask -> {"idle"} \cup CycStep \cup CycEnd]
      /\ UNCHANGED <<incidents, zones, risks, frames, latest, alerts, announced, now, ctx>>
  BY DEF FlushElevated, CycGoto, CycloneInv, CycloneTypeOK
<1>2. locks' \in [Session -> SUBSET Row]
  <2>1. PICK rows \in SUBSET Row : locks' = [locks EXCEPT ![c] = @ \cup rows]
    <3>1. {ZoneRow(z) : z \in Elevated(c)} \subseteq Row
      BY <1>1 DEF Elevated, Ctx, ZoneRow, Row
    <3> QED BY <3>1 DEF FlushElevated, Acquire
  <2>2. locks \in [Session -> SUBSET Row]
    BY DEF CycloneInv, CycloneTypeOK, StoreTypeOK
  <2> QED BY <2>1, <2>2
<1>3. AlertLevels(c)' = AlertLevels(c) /\ Highest(c)' = Highest(c)
  <2>1. ctx[c].rated \subseteq ZoneId /\ ZonesKept
    BY <1>1 DEF Ctx, ZonesKept
  <2> QED BY <1>1, <2>1, ViewKept DEF CycloneInv, CycTaskInv
<1>4. CycTaskInv(c)'
  BY <1>1, <1>3 DEF CycloneInv, CycTaskInv, HasFrame, FrameRecorded, CycUndecided, IssuedAtCommit, RatedExist,
                    DecisionHolds, ActiveAlerts, Holding, Ended
<1> QED BY <1>1, <1>2, <1>4, CycQuietStep
      DEF CycStep, Holding, Ended, CycloneInv, CycloneTypeOK, AnnouncedIsCommitted

LEMMA BroadcastStep ==
  ASSUME CycloneInv, NEW c \in CycTask, Broadcast(c) PROVE CycloneInv'
<1>1. /\ cpc[c] = "broadcast" /\ cpc' = [cpc EXCEPT ![c] = "done"] /\ ctx \in [CycTask -> Ctx] /\ now \in Nat
      /\ cpc \in [CycTask -> {"idle"} \cup CycStep \cup CycEnd] /\ locks \in [Session -> SUBSET Row]
      /\ announced' = IF ctx[c].issue THEN announced \cup {c} ELSE announced
      /\ UNCHANGED <<incidents, zones, risks, locks, frames, latest, alerts, now, ctx>>
  BY DEF Broadcast, CycGoto, storeVars, CycloneInv, CycloneTypeOK, StoreTypeOK
<1>2. ctx[c].issue => alerts[c] # None
  BY <1>1 DEF CycloneInv, CycTaskInv, IssuedAtCommit, Ended
<1>3. announced' \in SUBSET CycTask /\ \A a \in announced' : alerts[a] # None
  BY <1>1, <1>2 DEF CycloneInv, CycloneTypeOK, AnnouncedIsCommitted
<1>4. CycTaskInv(c)'
  BY <1>1 DEF CycloneInv, CycTaskInv, HasFrame, FrameRecorded, CycUndecided, IssuedAtCommit, RatedExist,
              DecisionHolds, Holding, Ended
<1> QED BY <1>1, <1>3, <1>4, CycQuietStep DEF CycEnd, Holding, Ended

LEMMA AbortFrameStep ==
  ASSUME CycloneInv, NEW c \in CycTask, AbortFrame(c) PROVE CycloneInv'
<1>1. PICK to \in {"failed", "unannounced"} :
        /\ cpc[c] \in CycStep /\ cpc' = [cpc EXCEPT ![c] = to]
        /\ to = "unannounced" <=> cpc[c] = "broadcast"
        /\ locks' = [locks EXCEPT ![c] = {}]
        /\ UNCHANGED <<incidents, zones, risks, frames, latest, alerts, announced, now, ctx>>
  BY DEF AbortFrame, ReleaseAll
<1>2. /\ now \in Nat /\ locks' \in [Session -> SUBSET Row] /\ ctx \in [CycTask -> Ctx]
      /\ cpc \in [CycTask -> {"idle"} \cup CycStep \cup CycEnd]
  BY <1>1 DEF CycloneInv, CycloneTypeOK, StoreTypeOK
<1>3. CycTaskInv(c)'
  BY <1>1, <1>2 DEF CycloneInv, CycTaskInv, HasFrame, FrameRecorded, CycUndecided, IssuedAtCommit, RatedExist,
                    DecisionHolds, Holding, Ended, CycStep
<1> QED BY <1>1, <1>2, <1>3, CycQuietStep
      DEF CycStep, CycEnd, Holding, Ended, CycloneInv, CycloneTypeOK, AnnouncedIsCommitted

LEMMA CommitFrameStep ==
  ASSUME CycloneInv, NEW c \in CycTask, CommitFrame(c) PROVE CycloneInv'
<1> DEFINE active == ActiveAlerts(CycloneOf[ctx[c].frame])
<1>1. /\ cpc[c] = "commit" /\ cpc' = [cpc EXCEPT ![c] = "broadcast"] /\ ctx \in [CycTask -> Ctx]
      /\ cpc \in [CycTask -> {"idle"} \cup CycStep \cup CycEnd] /\ zones \in [ZoneId -> Zone \cup {None}]
      /\ alerts \in [CycTask -> Alert \cup {None}] /\ announced \in SUBSET CycTask
      /\ frames' = frames \cup {ctx[c].frame} /\ UNCHANGED <<incidents, announced, now, ctx>>
      /\ CycTaskInv(c)
  BY DEF CommitFrame, CycGoto, CycloneInv, CycloneTypeOK, StoreTypeOK
<1>2. ctx[c].frame \in Frame /\ ctx[c].frame \notin frames /\ alerts[c] = None /\ ctx[c].rated \subseteq ZoneId
  BY <1>1 DEF CycTaskInv, HasFrame, FrameRecorded, IssuedAtCommit, Holding, Ended, Ctx
<1>3. \A z \in ctx[c].rated : zones[z] \in Zone /\ Level(c, z) \in Status /\ NewStatus(c, z) \in Status
  <2> SUFFICES ASSUME NEW z \in ctx[c].rated
               PROVE  zones[z] \in Zone /\ Level(c, z) \in Status /\ NewStatus(c, z) \in Status
    OBVIOUS
  <2>1. zones[z] \in Zone
    BY <1>1, <1>2 DEF CycTaskInv, RatedExist
  <2>2. Level(c, z) \in Status
    BY <1>2, <2>1, CycloneAssumption DEF Level, Zone
  <2>3. ctx[c].seen[z] \in Status
    BY <1>1, <1>2 DEF Ctx
  <2> QED BY <2>1, <2>2, <2>3 DEF NewStatus, ElevatedStatus, Higher
<1>4. zones' \in [ZoneId -> Zone \cup {None}] /\ ZonesKept
  <2>1. \A z \in Elevated(c) : /\ [zones[z] EXCEPT !.status = NewStatus(c, z)] \in Zone
                               /\ [zones[z] EXCEPT !.status = NewStatus(c, z)].place = zones[z].place
    BY <1>3 DEF Elevated, Zone
  <2>2. zones' = [z \in ZoneId |-> IF z \in Elevated(c) THEN [zones[z] EXCEPT !.status = NewStatus(c, z)]
                                                        ELSE zones[z]]
    BY DEF CommitFrame
  <2>3. None \notin Zone
    BY StoreAssumption
  <2> QED BY <1>1, <2>1, <2>2, <2>3 DEF ZonesKept
<1>5. risks' \in [ZoneId -> Risk]
  <2>1. ctx[c].at \in Nat /\ risks \in [ZoneId -> Risk]
    BY <1>1 DEF Ctx, CycloneInv, CycloneTypeOK, StoreTypeOK
  <2>2. \A z \in ZoneId : LatestRisk(c, z) \in Risk
    BY <1>3, <2>1 DEF LatestRisk, Risk
  <2> QED BY <2>2 DEF CommitFrame
<1>6. frames' \in SUBSET Frame /\ latest' \in [Cyclone -> Frame \cup {None}]
  BY <1>1, <1>2 DEF CommitFrame, CycloneInv, CycloneTypeOK
<1>7. locks' \in [Session -> SUBSET Row] /\ incidents' \in [IncidentId -> Incident \cup {None}] /\ now' \in Nat
  BY <1>1 DEF CommitFrame, ReleaseAll, CycloneInv, CycloneTypeOK, StoreTypeOK
(* What the task decided on the alerts.                                    *)
<1>8. /\ ctx[c].replaces \in CycTask \cup {None} /\ None \notin CycTask
      /\ ctx[c].issue \in BOOLEAN
      /\ ctx[c].replaces # None => ctx[c].issue /\ active = {ctx[c].replaces}
      /\ ctx[c].issue => /\ Highest(c) \in AlertLevel
                         /\ ctx[c].replaces = None => active = {}
  <2>1. ctx[c].issue => AlertLevels(c) # {}
    BY <1>1 DEF CycTaskInv, DecisionHolds
  <2>2. ctx[c].issue => Highest(c) \in AlertLevel
    BY <2>1, HighestLevel
  <2>3. None \notin CycTask
    BY CycloneAssumption
  <2>4. ctx[c].replaces \in CycTask \cup {None} /\ ctx[c].issue \in BOOLEAN
    BY <1>1 DEF Ctx
  <2> QED BY <1>1, <2>2, <2>3, <2>4 DEF CycTaskInv, DecisionHolds
<1>9. PICK old \in CycTask \cup {None} : old = ctx[c].replaces
  BY <1>8
<1>10. PICK k \in Cyclone : k = CycloneOf[ctx[c].frame]
  BY <1>2, CycloneAssumption
<1>11. old # None =>
         /\ old \in CycTask /\ old # c /\ alerts[old] \in Alert /\ alerts[old].cyclone = k
         /\ alerts[old].status = "ACTIVE" /\ ctx[c].issue
  BY <1>1, <1>2, <1>8, <1>9, <1>10 DEF ActiveAlerts
<1>12. alerts' = [a \in CycTask |->
                   IF a = c /\ ctx[c].issue THEN NewAlert(c)
                   ELSE IF ctx[c].issue /\ a = old THEN [alerts[a] EXCEPT !.status = "SUPERSEDED"]
                   ELSE alerts[a]]
  BY <1>9 DEF CommitFrame
<1>13. ctx[c].issue =>
         /\ alerts'[c] \in Alert /\ alerts'[c].cyclone = k /\ alerts'[c].supersedes = old
         /\ old = None => alerts'[c].version = 1
         /\ old # None => alerts'[c].version = alerts[old].version + 1
  <2> SUFFICES ASSUME ctx[c].issue
               PROVE  /\ NewAlert(c) \in Alert /\ NewAlert(c).cyclone = k /\ NewAlert(c).supersedes = old
                      /\ old = None => NewAlert(c).version = 1
                      /\ old # None => NewAlert(c).version = alerts[old].version + 1
    BY <1>12
  <2>1. PICK v \in Nat \ {0} : v = IF old = None THEN 1 ELSE alerts[old].version + 1
    BY <1>11 DEF Alert
  <2>2. NewAlert(c) = [cyclone |-> k, priority |-> Highest(c), status |-> "ACTIVE", version |-> v,
                       supersedes |-> old]
    BY <1>9, <1>10, <2>1 DEF NewAlert
  <2> QED BY <1>8, <2>1, <2>2 DEF Alert
<1>14. old # None =>
         /\ alerts'[old] \in Alert /\ alerts'[old].status = "SUPERSEDED"
         /\ alerts'[old].cyclone = k /\ alerts'[old].version = alerts[old].version
         /\ alerts'[old].supersedes = alerts[old].supersedes
  BY <1>11, <1>12 DEF Alert
<1>15. \A a \in CycTask : a # c /\ a # old => alerts'[a] = alerts[a]
  BY <1>12
<1>16. ~ctx[c].issue => alerts'[c] = None
  BY <1>2, <1>12, <1>11
<1>17. alerts' \in [CycTask -> Alert \cup {None}]
  <2>1. \A a \in CycTask : alerts'[a] \in Alert \cup {None}
    BY <1>1, <1>8, <1>13, <1>14, <1>15, <1>16
  <2>2. alerts' = [a \in CycTask |-> alerts'[a]]
    BY <1>12
  <2> HIDE DEF active
  <2> QED BY <2>1, <2>2
<1>18. CycloneTypeOK'
  BY <1>1, <1>4, <1>5, <1>6, <1>7, <1>17 DEF CycloneTypeOK, StoreTypeOK, CycStep
<1>19. None \notin Alert
  BY CycloneAssumption
<1>20. \A a \in CycTask : a # c => (alerts'[a] = None <=> alerts[a] = None)
  BY <1>8, <1>11, <1>14, <1>15, <1>19
(* The other tasks.                                                        *)
<1>21. ASSUME NEW d \in CycTask, d # c PROVE CycTaskInv(d)'
  <2>1. CycTaskInv(d) /\ cpc'[d] = cpc[d] /\ ctx'[d] = ctx[d] /\ ctx[d].rated \subseteq ZoneId
    BY <1>1, <1>21 DEF CycloneInv, Ctx
  <2>2. AlertLevels(d)' = AlertLevels(d) /\ Highest(d)' = Highest(d) /\ RatedExist(d)'
    BY <1>4, <2>1, ViewKept DEF CycTaskInv
  <2>3. cpc[d] \in Holding => CycloneOf[ctx[d].frame] # k /\ ctx[d].frame # ctx[c].frame
    BY <1>1, <1>10, <1>21 DEF CycloneInv, Serialised, Holding
  <2>4. DecisionHolds(d)'
    <3> SUFFICES ASSUME cpc[d] \in {"flush", "commit"} PROVE DecisionHolds(d)'
      BY <2>1 DEF DecisionHolds
    <3>1. PICK l : l = CycloneOf[ctx[d].frame] /\ l # k
      BY <2>3 DEF Holding
    <3>2. ActiveAlerts(l)' = ActiveAlerts(l) /\ \A a \in ActiveAlerts(l) : alerts'[a] = alerts[a]
      <4>1. \A a \in CycTask : (alerts[a] # None /\ alerts[a].cyclone = l) => alerts'[a] = alerts[a]
        BY <1>2, <1>8, <1>11, <1>15, <3>1
      <4>2. \A a \in CycTask : (alerts'[a] # None /\ alerts'[a].cyclone = l) => alerts'[a] = alerts[a]
        BY <1>13, <1>14, <1>15, <1>16, <1>8, <3>1
      <4> QED BY <4>1, <4>2 DEF ActiveAlerts
    <3> QED BY <2>1, <2>2, <3>1, <3>2 DEF CycTaskInv, DecisionHolds
  <2>5. FrameRecorded(d)'
    BY <1>1, <2>1, <2>3 DEF CycTaskInv, FrameRecorded
  <2>6. HasFrame(d)' /\ CycUndecided(d)' /\ IssuedAtCommit(d)'
    BY <1>20, <1>21, <2>1 DEF CycTaskInv, HasFrame, CycUndecided, IssuedAtCommit
  <2> QED BY <2>2, <2>4, <2>5, <2>6 DEF CycTaskInv
<1>22. CycTaskInv(c)'
  <2>1. cpc'[c] = "broadcast" /\ ctx'[c] = ctx[c] /\ RatedExist(c)'
    BY <1>1, <1>2, <1>4, ViewKept DEF CycTaskInv
  <2>2. alerts'[c] # None <=> ctx[c].issue
    BY <1>13, <1>16, <1>19
  <2> QED BY <1>1, <1>2, <2>1, <2>2 DEF CycTaskInv, HasFrame, FrameRecorded, CycUndecided, IssuedAtCommit,
                                        DecisionHolds, Holding, Ended
<1>23. Serialised'
  BY <1>1 DEF CycloneInv, Serialised, Holding
<1>24. OneActiveAlert'
  <2> SUFFICES ASSUME NEW a \in CycTask, NEW b \in CycTask, a # b, alerts'[a] # None, alerts'[b] # None,
                      alerts'[a].cyclone = alerts'[b].cyclone,
                      alerts'[a].status = "ACTIVE", alerts'[b].status = "ACTIVE"
               PROVE  FALSE
    BY DEF OneActiveAlert
  <2>1. a # old /\ b # old
    BY <1>8, <1>14
  <2>2. CASE a # c /\ b # c
    BY <1>15, <2>1, <2>2 DEF CycloneInv, OneActiveAlert
  <2>3. ASSUME NEW e \in CycTask, e # c, e # old, alerts'[e] # None, alerts'[e].status = "ACTIVE",
               alerts'[e].cyclone = k, alerts'[c] # None
        PROVE  FALSE
    <3>1. e \in active /\ ctx[c].issue
      BY <1>10, <1>15, <1>16, <2>3 DEF ActiveAlerts
    <3> QED BY <1>8, <1>9, <2>3, <3>1
  <2>4. alerts'[c] # None => alerts'[c].cyclone = k
    BY <1>8, <1>13, <1>16
  <2> QED BY <2>1, <2>2, <2>3, <2>4
<1>25. AlertsFormAChain'
  <2> SUFFICES ASSUME NEW a \in CycTask, alerts'[a] # None, NEW o, o = alerts'[a].supersedes
               PROVE  IF o = None THEN alerts'[a].version = 1
                      ELSE /\ alerts'[o] # None /\ alerts'[o].cyclone = alerts'[a].cyclone
                           /\ alerts'[o].status = "SUPERSEDED" /\ alerts'[o].version + 1 = alerts'[a].version
                           /\ \A b \in CycTask : (alerts'[b] # None /\ alerts'[b].supersedes = o) => b = a
    BY DEF AlertsFormAChain
  <2>1. ASSUME NEW b \in CycTask, b # c, alerts'[b] # None
        PROVE  /\ alerts[b] # None /\ alerts'[b].supersedes = alerts[b].supersedes
               /\ alerts'[b].version = alerts[b].version /\ alerts'[b].cyclone = alerts[b].cyclone
               /\ alerts[b].status = "SUPERSEDED" => alerts'[b].status = "SUPERSEDED"
    BY <1>8, <1>11, <1>14, <1>15, <1>20, <2>1
  <2>2. ASSUME NEW b \in CycTask, b # c, alerts'[b] # None, old # None PROVE alerts'[b].supersedes # old
    <3>1. alerts[b] # None /\ alerts'[b].supersedes = alerts[b].supersedes
      BY <2>1, <2>2
    <3>2. alerts[old].status # "SUPERSEDED"
      BY <1>11, <2>2
    <3> QED BY <2>2, <3>1, <3>2 DEF CycloneInv, AlertsFormAChain
  <2>3. CASE a = c
    <3>1. ctx[c].issue /\ o = old
      BY <1>8, <1>13, <1>16, <2>3
    <3>2. CASE old = None
      BY <1>13, <2>3, <3>1, <3>2
    <3>3. CASE old # None
      BY <1>11, <1>13, <1>14, <1>19, <2>2, <2>3, <3>1, <3>3
    <3> QED BY <3>2, <3>3
  <2>4. CASE a # c
    <3>1. /\ alerts[a] # None /\ o = alerts[a].supersedes
          /\ alerts'[a].version = alerts[a].version /\ alerts'[a].cyclone = alerts[a].cyclone
      BY <2>1, <2>4
    <3>2. CASE o = None
      BY <3>1, <3>2 DEF CycloneInv, AlertsFormAChain
    <3>3. CASE o # None
      <4>1. /\ alerts[o] # None /\ alerts[o].cyclone = alerts[a].cyclone
            /\ alerts[o].status = "SUPERSEDED" /\ alerts[o].version + 1 = alerts[a].version
            /\ \A b \in CycTask : (alerts[b] # None /\ alerts[b].supersedes = o) => b = a
        BY <3>1, <3>3 DEF CycloneInv, AlertsFormAChain
      <4>2. o \in CycTask /\ o # c
        BY <1>1, <1>2, <3>1, <3>3, <4>1 DEF Alert
      <4>3. /\ alerts'[o] # None /\ alerts'[o].cyclone = alerts'[a].cyclone
            /\ alerts'[o].status = "SUPERSEDED" /\ alerts'[o].version + 1 = alerts'[a].version
        BY <1>20, <2>1, <3>1, <4>1, <4>2
      <4>4. ASSUME NEW b \in CycTask, alerts'[b] # None, alerts'[b].supersedes = o PROVE b = a
        <5>1. b # c
          <6> SUFFICES ASSUME b = c PROVE FALSE
            OBVIOUS
          <6>1. o = old
            BY <1>8, <1>13, <1>16, <4>4
          <6> QED BY <1>11, <3>3, <4>1, <6>1
        <5> QED BY <2>1, <4>1, <4>4, <5>1
      <4> QED BY <3>3, <4>3, <4>4
    <3> QED BY <3>2, <3>3
  <2> QED BY <2>3, <2>4
<1>26. FrameProcessedOnce'
  <2>1. \A d \in CycTask : Committed(d) => ctx[d].frame # ctx[c].frame
    BY <1>2 DEF CycloneInv, CycTaskInv, FrameRecorded, Committed, Ended
  <2> QED BY <1>1, <2>1 DEF CycloneInv, FrameProcessedOnce, Committed
<1>27. AnnouncedIsCommitted'
  <2>1. \A a \in announced : alerts[a] # None /\ a # c
    BY <1>2 DEF CycloneInv, AnnouncedIsCommitted
  <2> QED BY <1>1, <1>20, <2>1 DEF AnnouncedIsCommitted
<1> QED BY <1>18, <1>21, <1>22, <1>23, <1>24, <1>25, <1>26, <1>27 DEF CycloneInv
-----------------------------------------------------------------------------
LEMMA CycInvStep == CycloneInv /\ [CycloneNext]_cycloneAll => CycloneInv'
<1> SUFFICES ASSUME CycloneInv, [CycloneNext]_cycloneAll PROVE CycloneInv'
  OBVIOUS
<1>1. ASSUME NEW c \in CycTask, NEW f \in Frame, Post(c, f) PROVE CycloneInv'
  BY <1>1, PostStep
<1>2. ASSUME NEW c \in CycTask, Work(c) PROVE CycloneInv'
  BY <1>2, SaveFrameStep, EvaluateRiskStep, DecideAlertStep, FlushElevatedStep, CommitFrameStep, BroadcastStep
  DEF Work
<1>3. ASSUME NEW c \in CycTask, AbortFrame(c) PROVE CycloneInv'
  BY <1>3, AbortFrameStep
<1>4. CASE UNCHANGED cycloneAll
  <2>1. UNCHANGED <<incidents, zones, risks, locks, frames, latest, alerts, announced, now, cpc, ctx>>
    BY <1>4 DEF cycloneAll, storeVars, cycloneVars
  <2>2. \A c \in CycTask : CycTaskInv(c)'
    <3> SUFFICES ASSUME NEW c \in CycTask PROVE CycTaskInv(c)'
      OBVIOUS
    <3>1. cpc'[c] = cpc[c] /\ ctx'[c] = ctx[c] /\ UNCHANGED <<frames, alerts>> /\ ZonesKept
      BY <2>1 DEF ZonesKept
    <3> QED BY <3>1, CycUndisturbed DEF CycloneInv
  <2>3. (CycloneTypeOK /\ Serialised /\ OneActiveAlert /\ AlertsFormAChain /\ FrameProcessedOnce
           /\ AnnouncedIsCommitted)'
    BY <2>1 DEF CycloneInv, CycloneTypeOK, StoreTypeOK, Serialised, OneActiveAlert, AlertsFormAChain,
                FrameProcessedOnce, Committed, AnnouncedIsCommitted
  <2> QED BY <2>2, <2>3 DEF CycloneInv
<1> QED BY <1>1, <1>2, <1>3, <1>4 DEF CycloneNext

(* The active alert is that of the task rated last.  While a task holds    *)
(* the row of its cyclone no other commits for it, so those that committed *)
(* were rated before.                                                      *)
Recency ==
  /\ \A d \in CycTask : ctx[d].at <= now
  /\ \A c, d \in CycTask :
       (/\ cpc[c] \in {"alert", "flush", "commit"} /\ AlertLevels(c) # {} /\ Committed(d)
        /\ CycloneOf[ctx[d].frame] = CycloneOf[ctx[c].frame]) => ctx[d].at < ctx[c].at
  /\ ActiveAlertIsCurrent

LEMMA RecencyInit == CycloneInit => Recency
  BY DEF CycloneInit, Recency, ActiveAlertIsCurrent, Committed

(* Steps that commit nothing and leave the alerts in force.                *)
LEMMA RecencyKept ==
  ASSUME CycloneInv, Recency, ZonesKept,
         \A d \in CycTask : ctx'[d].at <= now',
         \A d \in CycTask : (Committed(d)' <=> Committed(d)) /\ (Committed(d) => ctx'[d] = ctx[d]),
         \A c \in CycTask : cpc'[c] \in {"alert", "flush", "commit"} =>
           \/ AlertLevels(c)' = {}
           \/ ctx'[c].frame = ctx[c].frame /\ \A d \in CycTask \ {c} : ctx[d].at < ctx'[c].at
           \/ /\ cpc[c] \in {"alert", "flush", "commit"} /\ ctx'[c].at = ctx[c].at
              /\ ctx'[c].frame = ctx[c].frame /\ ctx'[c].rated = ctx[c].rated,
         \A k : ActiveAlerts(k)' = ActiveAlerts(k),
         \A a \in CycTask : alerts'[a].priority = alerts[a].priority
  PROVE  Recency'
<1>1. ASSUME NEW d \in CycTask, ctx'[d].frame = ctx[d].frame, ctx'[d].rated = ctx[d].rated
      PROVE  AlertLevels(d)' = AlertLevels(d) /\ Highest(d)' = Highest(d)
  <2>1. ctx[d].rated \subseteq ZoneId /\ RatedExist(d)
    BY DEF CycloneInv, CycloneTypeOK, Ctx, CycTaskInv
  <2> QED BY <1>1, <2>1, ViewKept
<1>2. \A d \in CycTask : Committed(d) => AlertLevels(d)' = AlertLevels(d) /\ Highest(d)' = Highest(d)
  BY <1>1
<1>3. ASSUME NEW c \in CycTask, NEW d \in CycTask, cpc'[c] \in {"alert", "flush", "commit"}, AlertLevels(c)' # {},
             Committed(d)', CycloneOf[ctx'[d].frame] = CycloneOf[ctx'[c].frame]
      PROVE  ctx'[d].at < ctx'[c].at
  <2>1. Committed(d) /\ ctx'[d] = ctx[d] /\ d # c
    BY <1>3 DEF Committed
  <2>2. CASE \A e \in CycTask \ {c} : ctx[e].at < ctx'[c].at
    BY <2>1, <2>2
  <2>3. CASE /\ cpc[c] \in {"alert", "flush", "commit"} /\ ctx'[c].at = ctx[c].at
             /\ ctx'[c].frame = ctx[c].frame /\ ctx'[c].rated = ctx[c].rated
    BY <1>1, <1>3, <2>1, <2>3 DEF Recency
  <2> QED BY <1>3, <2>2, <2>3
<1>4. ActiveAlertIsCurrent'
  <2> SUFFICES ASSUME NEW c \in CycTask, Committed(c)', AlertLevels(c)' # {},
                      \A d \in CycTask :
                        (/\ Committed(d)' /\ AlertLevels(d)' # {}
                         /\ CycloneOf[ctx'[d].frame] = CycloneOf[ctx'[c].frame]) => ctx'[d].at <= ctx'[c].at
               PROVE  \E a \in CycTask :
                        /\ alerts'[a] # None /\ alerts'[a].cyclone = CycloneOf[ctx'[c].frame]
                        /\ alerts'[a].status = "ACTIVE" /\ alerts'[a].priority = Highest(c)'
    BY DEF ActiveAlertIsCurrent, ActiveAlerts
  <2>1. Committed(c) /\ AlertLevels(c) # {} /\ Highest(c)' = Highest(c) /\ ctx'[c] = ctx[c]
    BY <1>2
  <2>2. \A d \in CycTask :
          (/\ Committed(d) /\ AlertLevels(d) # {}
           /\ CycloneOf[ctx[d].frame] = CycloneOf[ctx[c].frame]) => ctx[d].at <= ctx[c].at
    BY <1>2, <2>1
  <2>3. PICK a \in ActiveAlerts(CycloneOf[ctx[c].frame]) : alerts[a].priority = Highest(c)
    BY <2>1, <2>2 DEF Recency, ActiveAlertIsCurrent
  <2>4. PICK k : k = CycloneOf[ctx[c].frame]
    OBVIOUS
  <2>5. a \in ActiveAlerts(k)' /\ alerts'[a].priority = Highest(c)'
    BY <2>1, <2>3, <2>4 DEF ActiveAlerts
  <2> QED BY <2>1, <2>4, <2>5 DEF ActiveAlerts
<1> QED BY <1>3, <1>4 DEF Recency

LEMMA RecencyCommit ==
  ASSUME CycloneInv, CycloneInv', Recency, NEW c \in CycTask, CommitFrame(c) PROVE Recency'
<1>1. /\ cpc[c] = "commit" /\ cpc' = [cpc EXCEPT ![c] = "broadcast"] /\ UNCHANGED <<now, ctx>>
      /\ cpc \in [CycTask -> {"idle"} \cup CycStep \cup CycEnd] /\ CycTaskInv(c) /\ ctx \in [CycTask -> Ctx]
  BY DEF CommitFrame, CycGoto, CycloneInv, CycloneTypeOK
<1>2. ZonesKept
  <2>1. zones' = [z \in ZoneId |-> IF z \in Elevated(c) THEN [zones[z] EXCEPT !.status = NewStatus(c, z)]
                                                        ELSE zones[z]]
    BY DEF CommitFrame
  <2>2. zones \in [ZoneId -> Zone \cup {None}] /\ zones' \in [ZoneId -> Zone \cup {None}] /\ None \notin Zone
    BY StoreAssumption DEF CycloneInv, CycloneTypeOK, StoreTypeOK
  <2>3. \A z \in Elevated(c) : zones[z] \in Zone
    BY <1>1, <2>2 DEF Elevated, CycTaskInv, RatedExist, Ctx
  <2>4. \A z \in Elevated(c) : [zones[z] EXCEPT !.status = NewStatus(c, z)].place = zones[z].place
    BY <2>3 DEF Zone
  <2>5. \A z \in Elevated(c) \cap ZoneId : zones'[z] # None
    <3> SUFFICES ASSUME NEW z \in Elevated(c) \cap ZoneId PROVE zones'[z] # None
      OBVIOUS
    <3>1. NewStatus(c, z) \in Status
      <4>1. z \in ctx[c].rated /\ ctx[c].seen[z] \in Status /\ zones[z].place \in Place
        BY <1>1, <2>3 DEF Elevated, Ctx, Zone
      <4>2. ctx[c].frame \in Frame
        BY <1>1 DEF CycTaskInv, HasFrame
      <4>3. Level(c, z) \in Status
        BY <4>1, <4>2, CycloneAssumption DEF Level
      <4> QED BY <4>1, <4>3 DEF NewStatus, ElevatedStatus, Higher
    <3>2. [zones[z] EXCEPT !.status = NewStatus(c, z)] \in Zone
      BY <2>3, <3>1 DEF Zone
    <3> QED BY <2>1, <2>2, <3>2
  <2> QED BY <2>1, <2>4, <2>5 DEF ZonesKept
<1>3. \A d \in CycTask : AlertLevels(d)' = AlertLevels(d) /\ Highest(d)' = Highest(d)
  <2> SUFFICES ASSUME NEW d \in CycTask PROVE AlertLevels(d)' = AlertLevels(d) /\ Highest(d)' = Highest(d)
    OBVIOUS
  <2>1. ctx[d].rated \subseteq ZoneId /\ RatedExist(d) /\ ctx'[d] = ctx[d]
    BY <1>1 DEF CycloneInv, Ctx, CycTaskInv
  <2> QED BY <1>2, <2>1, ViewKept
<1>4. ASSUME NEW b \in CycTask, NEW d \in CycTask, cpc'[b] \in {"alert", "flush", "commit"}, AlertLevels(b)' # {},
             Committed(d)', CycloneOf[ctx'[d].frame] = CycloneOf[ctx'[b].frame]
      PROVE  ctx'[d].at < ctx'[b].at
  <2>1. b # c /\ cpc[b] = cpc'[b] /\ ctx' = ctx /\ AlertLevels(b) # {}
    BY <1>1, <1>3, <1>4
  <2>2. d # c
    BY <1>1, <1>4, <2>1 DEF CycloneInv, Serialised, Holding
  <2>3. Committed(d)
    BY <1>1, <1>4, <2>2 DEF Committed
  <2> QED BY <1>4, <2>1, <2>3 DEF Recency
<1>5. PICK k : k = CycloneOf[ctx[c].frame]
  OBVIOUS
(* The alert in force for the cyclone after the commit.                    *)
<1>6. AlertLevels(c) # {} =>
        \E a \in CycTask : /\ alerts'[a] # None /\ alerts'[a].cyclone = k
                           /\ alerts'[a].status = "ACTIVE" /\ alerts'[a].priority = Highest(c)
  <2> SUFFICES ASSUME AlertLevels(c) # {}
               PROVE \E a \in CycTask : /\ alerts'[a] # None /\ alerts'[a].cyclone = k
                                        /\ alerts'[a].status = "ACTIVE" /\ alerts'[a].priority = Highest(c)
    OBVIOUS
  <2>1. alerts' = [a \in CycTask |->
                    IF a = c /\ ctx[c].issue THEN NewAlert(c)
                    ELSE IF ctx[c].issue /\ a = ctx[c].replaces THEN [alerts[a] EXCEPT !.status = "SUPERSEDED"]
                    ELSE alerts[a]]
    BY DEF CommitFrame
  <2>2. CASE ctx[c].issue
    <3>1. alerts'[c] = NewAlert(c)
      BY <2>1, <2>2
    <3>2. alerts'[c].cyclone = k /\ alerts'[c].status = "ACTIVE" /\ alerts'[c].priority = Highest(c)
      BY <1>5, <3>1 DEF NewAlert
    <3>3. alerts'[c] # None
      BY <1>1, <2>2 DEF CycloneInv, CycTaskInv, IssuedAtCommit, Ended
    <3> QED BY <3>2, <3>3
  <2>3. CASE ~ctx[c].issue
    <3>1. alerts' = alerts
      BY <2>1, <2>3 DEF CycloneInv, CycloneTypeOK
    <3>2. \E a \in ActiveAlerts(k) : alerts[a].priority = Highest(c)
      BY <1>1, <1>5, <2>3 DEF CycTaskInv, DecisionHolds
    <3> QED BY <3>1, <3>2 DEF ActiveAlerts
  <2> QED BY <2>2, <2>3
<1>7. ASSUME AlertLevels(c) = {}
      PROVE  alerts' = alerts
  <2>1. ~ctx[c].issue
    BY <1>1, <1>7 DEF CycTaskInv, DecisionHolds
  <2> QED BY <2>1 DEF CommitFrame, CycloneInv, CycloneTypeOK
(* The alerts of the other cyclones.                                       *)
<1>8. ASSUME NEW a \in CycTask, alerts[a] # None, alerts[a].cyclone # k PROVE alerts'[a] = alerts[a]
  <2>1. a # c
    BY <1>1, <1>8 DEF CycTaskInv, IssuedAtCommit, Ended
  <2>2. ctx[c].issue => a # ctx[c].replaces
    <3>1. None \notin CycTask
      BY CycloneAssumption
    <3> QED BY <1>1, <1>5, <1>8, <3>1 DEF CycTaskInv, DecisionHolds, ActiveAlerts
  <2> QED BY <2>1, <2>2 DEF CommitFrame
<1>9. ActiveAlertIsCurrent'
  <2> SUFFICES ASSUME NEW b \in CycTask, Committed(b)', AlertLevels(b)' # {},
                      \A d \in CycTask :
                        (/\ Committed(d)' /\ AlertLevels(d)' # {}
                         /\ CycloneOf[ctx'[d].frame] = CycloneOf[ctx'[b].frame]) => ctx'[d].at <= ctx'[b].at
               PROVE  \E a \in CycTask :
                        /\ alerts'[a] # None /\ alerts'[a].cyclone = CycloneOf[ctx'[b].frame]
                        /\ alerts'[a].status = "ACTIVE" /\ alerts'[a].priority = Highest(b)'
    BY DEF ActiveAlertIsCurrent, ActiveAlerts
  <2>1. ctx' = ctx /\ Highest(b)' = Highest(b) /\ AlertLevels(b) # {}
    BY <1>1, <1>3
  <2>2. CASE b = c
    BY <1>5, <1>6, <2>1, <2>2
  <2>3. CASE b # c
    <3>1. Committed(b) /\ \A d \in CycTask : Committed(d) => Committed(d)'
      BY <1>1, <2>3 DEF Committed
    <3>2. Committed(c)'
      BY <1>1 DEF Committed
    <3>3. \A d \in CycTask :
            (/\ Committed(d) /\ AlertLevels(d) # {}
             /\ CycloneOf[ctx[d].frame] = CycloneOf[ctx[b].frame]) => ctx[d].at <= ctx[b].at
      BY <1>3, <2>1, <3>1
    <3>4. PICK l : l = CycloneOf[ctx[b].frame]
      OBVIOUS
    <3>5. PICK a \in CycTask : /\ alerts[a] # None /\ alerts[a].cyclone = l
                               /\ alerts[a].status = "ACTIVE" /\ alerts[a].priority = Highest(b)
      BY <2>1, <3>1, <3>3, <3>4 DEF Recency, ActiveAlertIsCurrent, ActiveAlerts
    <3>6. alerts'[a] = alerts[a]
      <4>1. CASE l # k
        BY <1>8, <3>5, <4>1
      <4>2. CASE AlertLevels(c) = {}
        BY <1>7, <4>2
      <4>3. CASE l = k /\ AlertLevels(c) # {}
        <5>1. ctx[b].at < ctx[c].at
          BY <1>1, <1>5, <3>1, <3>4, <4>3 DEF Recency
        <5>2. ctx[c].at <= ctx[b].at
          BY <1>3, <1>5, <2>1, <3>2, <3>4, <4>3
        <5>3. ctx[b].at \in Nat /\ ctx[c].at \in Nat
          BY <1>1 DEF Ctx
        <5> QED BY <5>1, <5>2, <5>3
      <4> QED BY <4>1, <4>2, <4>3
    <3> QED BY <2>1, <3>4, <3>5, <3>6
  <2> QED BY <2>2, <2>3
<1> QED BY <1>1, <1>4, <1>9 DEF Recency

LEMMA RecencyStep ==
  ASSUME CycloneInv, CycloneInv', Recency, [CycloneNext]_cycloneAll PROVE Recency'
<1>1. /\ ctx \in [CycTask -> Ctx] /\ cpc \in [CycTask -> {"idle"} \cup CycStep \cup CycEnd] /\ now \in Nat
      /\ alerts \in [CycTask -> Alert \cup {None}] /\ \A d \in CycTask : ctx[d].at \in Nat /\ ctx[d].at <= now
  BY DEF CycloneInv, CycloneTypeOK, Recency, Ctx
<1>2. ASSUME NEW c \in CycTask, NEW from \in {"idle"} \cup CycStep, cpc[c] = from,
             NEW to \in {"save", "rate", "ignored", "flush", "commit", "done", "failed", "unannounced"},
             cpc' = [cpc EXCEPT ![c] = to], UNCHANGED <<zones, alerts, now>>,
             from = "broadcast" <=> to \in {"done", "unannounced"},
             to \in {"flush", "commit"} => from \in {"alert", "flush"} \/ AlertLevels(c)' = {},
             \A d \in CycTask \ {c} : ctx'[d] = ctx[d],
             ctx'[c].at = ctx[c].at /\ ctx'[c].rated = ctx[c].rated,
             from # "idle" => ctx'[c].frame = ctx[c].frame, from = "broadcast" => ctx'[c] = ctx[c]
      PROVE  Recency'
  <2>1. ZonesKept
    BY <1>2 DEF ZonesKept
  <2>2. \A d \in CycTask : ctx'[d].at <= now'
    BY <1>1, <1>2
  <2>3. \A d \in CycTask : (Committed(d)' <=> Committed(d)) /\ (Committed(d) => ctx'[d] = ctx[d])
    BY <1>1, <1>2 DEF Committed, CycStep
  <2>4. \A d \in CycTask : cpc'[d] \in {"alert", "flush", "commit"} =>
           \/ AlertLevels(d)' = {}
           \/ /\ cpc[d] \in {"alert", "flush", "commit"} /\ ctx'[d].at = ctx[d].at
              /\ ctx'[d].frame = ctx[d].frame /\ ctx'[d].rated = ctx[d].rated
    BY <1>1, <1>2
  <2>5. (\A k : ActiveAlerts(k)' = ActiveAlerts(k)) /\ \A a \in CycTask : alerts'[a].priority = alerts[a].priority
    BY <1>2 DEF ActiveAlerts
  <2> QED BY <2>1, <2>2, <2>3, <2>4, <2>5, RecencyKept
<1>3. ASSUME NEW c \in CycTask, NEW f \in Frame, Post(c, f) PROVE Recency'
  <2>1. /\ cpc[c] = "idle" /\ cpc' = [cpc EXCEPT ![c] = "save"] /\ ctx' = [ctx EXCEPT ![c].frame = f]
        /\ UNCHANGED <<zones, alerts, now>>
    BY <1>3 DEF Post, CycGoto, storeVars
  <2>2. /\ \A d \in CycTask \ {c} : ctx'[d] = ctx[d]
        /\ ctx'[c].at = ctx[c].at /\ ctx'[c].rated = ctx[c].rated
    BY <1>1, <2>1 DEF Ctx
  <2> QED BY <1>2, <2>1, <2>2
<1>4. ASSUME NEW c \in CycTask, SaveFrame(c) PROVE Recency'
  <2>1. PICK to \in {"ignored", "rate"} :
          cpc[c] = "save" /\ cpc' = [cpc EXCEPT ![c] = to] /\ UNCHANGED <<zones, alerts, now, ctx>>
    BY <1>4 DEF SaveFrame, CycGoto, storeVars
  <2> QED BY <1>2, <2>1 DEF CycStep
<1>5. ASSUME NEW c \in CycTask, EvaluateRisk(c) PROVE Recency'
  <2>1. cpc[c] = "rate" /\ UNCHANGED <<zones, alerts>>
    BY <1>5 DEF EvaluateRisk, CycGoto, storeVars
  <2>2. CASE cpc' = [cpc EXCEPT ![c] = "commit"] /\ UNCHANGED <<now, ctx>>
    <3>1. ctx[c].rated = {}
      BY <2>1 DEF CycloneInv, CycTaskInv, CycUndecided
    <3>2. AlertLevels(c)' = {}
      BY <2>2, <3>1 DEF AlertLevels
    <3> QED BY <1>2, <2>1, <2>2, <3>2 DEF CycStep
  <2>3. CASE /\ cpc' = [cpc EXCEPT ![c] = "alert"] /\ now' = now + 1
             /\ ctx' = [ctx EXCEPT ![c].rated = {z \in ZoneId : zones[z] # None},
                      ![c].seen = [z \in ZoneId |-> IF zones[z] = None THEN NORMAL ELSE zones[z].status],
                      ![c].at = now + 1]
    <3>1. PICK rated, seen : ctx' = [ctx EXCEPT ![c].rated = rated, ![c].seen = seen, ![c].at = now + 1]
      BY <2>3
    <3>2. ctx'[c] = [ctx[c] EXCEPT !.rated = rated, !.seen = seen, !.at = now + 1]
      BY <1>1, <3>1
    <3>3. ctx'[c].frame = ctx[c].frame /\ ctx'[c].at = now + 1
      BY <1>1, <3>2 DEF Ctx
    <3>4. \A d \in CycTask \ {c} : ctx'[d] = ctx[d]
      BY <1>1, <3>1
    <3>5. cpc' = [cpc EXCEPT ![c] = "alert"] /\ now' = now + 1
      BY <2>3
    <3>6. ZonesKept
      BY <2>1 DEF ZonesKept
    <3>7. \A d \in CycTask : ctx'[d].at <= now'
      BY <1>1, <3>3, <3>4, <3>5
    <3>8. \A d \in CycTask : (Committed(d)' <=> Committed(d)) /\ (Committed(d) => ctx'[d] = ctx[d])
      BY <1>1, <2>1, <3>4, <3>5 DEF Committed
    <3>9. \A d \in CycTask : cpc'[d] \in {"alert", "flush", "commit"} =>
             \/ ctx'[d].frame = ctx[d].frame /\ \A e \in CycTask \ {d} : ctx[e].at < ctx'[d].at
             \/ /\ cpc[d] \in {"alert", "flush", "commit"} /\ ctx'[d].at = ctx[d].at
                /\ ctx'[d].frame = ctx[d].frame /\ ctx'[d].rated = ctx[d].rated
      BY <1>1, <3>3, <3>4, <3>5
    <3>10. (\A k : ActiveAlerts(k)' = ActiveAlerts(k)) /\ \A a \in CycTask : alerts'[a].priority = alerts[a].priority
      BY <2>1 DEF ActiveAlerts
    <3> QED BY <3>6, <3>7, <3>8, <3>9, <3>10, RecencyKept
  <2> QED BY <1>5, <2>2, <2>3 DEF EvaluateRisk, CycGoto
<1>6. ASSUME NEW c \in CycTask, DecideAlert(c) PROVE Recency'
  <2>1. cpc[c] = "alert" /\ cpc' = [cpc EXCEPT ![c] = "flush"] /\ UNCHANGED <<zones, alerts, now>>
    BY <1>6 DEF DecideAlert, CycGoto, storeVars
  <2>2. /\ \A d \in CycTask \ {c} : ctx'[d] = ctx[d]
        /\ ctx'[c].at = ctx[c].at /\ ctx'[c].rated = ctx[c].rated /\ ctx'[c].frame = ctx[c].frame
    <3>1. \/ UNCHANGED ctx
          \/ ctx' = [ctx EXCEPT ![c].issue = TRUE]
          \/ \E a : ctx' = [ctx EXCEPT ![c].issue = TRUE, ![c].replaces = a]
      BY <1>6 DEF DecideAlert
    <3>2. CASE UNCHANGED ctx
      BY <3>2
    <3>3. CASE ctx' = [ctx EXCEPT ![c].issue = TRUE]
      BY <1>1, <3>3 DEF Ctx
    <3>4. ASSUME NEW a, ctx' = [ctx EXCEPT ![c].issue = TRUE, ![c].replaces = a]
          PROVE  /\ \A d \in CycTask \ {c} : ctx'[d] = ctx[d]
                 /\ ctx'[c].at = ctx[c].at /\ ctx'[c].rated = ctx[c].rated /\ ctx'[c].frame = ctx[c].frame
      BY <1>1, <3>4 DEF Ctx
    <3> QED BY <3>1, <3>2, <3>3, <3>4
  <2> QED BY <1>2, <2>1, <2>2 DEF CycStep
<1>7. ASSUME NEW c \in CycTask, FlushElevated(c) PROVE Recency'
  <2>1. /\ cpc[c] = "flush" /\ cpc' = [cpc EXCEPT ![c] = "commit"] /\ UNCHANGED <<zones, alerts, now, ctx>>
    BY <1>7 DEF FlushElevated, CycGoto
  <2> QED BY <1>2, <2>1 DEF CycStep
<1>8. ASSUME NEW c \in CycTask, Broadcast(c) PROVE Recency'
  <2>1. /\ cpc[c] = "broadcast" /\ cpc' = [cpc EXCEPT ![c] = "done"] /\ UNCHANGED <<zones, alerts, now, ctx>>
    BY <1>8 DEF Broadcast, CycGoto, storeVars
  <2> QED BY <1>2, <2>1 DEF CycStep
<1>9. ASSUME NEW c \in CycTask, AbortFrame(c) PROVE Recency'
  <2>1. PICK to \in {"failed", "unannounced"} :
          /\ cpc[c] \in CycStep /\ cpc' = [cpc EXCEPT ![c] = to] /\ (to = "unannounced" <=> cpc[c] = "broadcast")
          /\ UNCHANGED <<zones, alerts, now, ctx>>
    BY <1>9 DEF AbortFrame
  <2> QED BY <1>2, <2>1 DEF CycStep
<1>10. CASE UNCHANGED cycloneAll
  <2>1. UNCHANGED <<zones, alerts, now, cpc, ctx>>
    BY <1>10 DEF cycloneAll, storeVars, cycloneVars
  <2>2. /\ ZonesKept /\ (\A k : ActiveAlerts(k)' = ActiveAlerts(k)) /\ (\A d \in CycTask : ctx'[d].at <= now')
        /\ \A d \in CycTask : Committed(d)' <=> Committed(d)
    BY <1>1, <2>1 DEF ZonesKept, ActiveAlerts, Committed
  <2> QED BY <2>1, <2>2, RecencyKept
<1> QED BY <1>3, <1>4, <1>5, <1>6, <1>7, <1>8, <1>9, <1>10, RecencyCommit DEF CycloneNext, Work

(* The inductive invariant holds in every reachable state.                 *)
THEOREM CycloneInvariant == CycloneSpec => []CycloneInv
  BY CycInvInit, CycInvStep, PTL DEF CycloneSpec, CycloneStart

(* Every table and every task keeps its type, whatever the frames warn of. *)
THEOREM CycloneTypeCorrect == CycloneSpec => []CycloneTypeOK
<1>1. CycloneInv => CycloneTypeOK
  BY DEF CycloneInv
<1> QED BY <1>1, CycloneInvariant, PTL

(* A cyclone never has two ACTIVE alerts, however many tasks overlap:      *)
(* generate_alerts runs while its transaction holds the cyclone_latest row.*)
THEOREM OneActiveAlertCorrect == CycloneSpec => []OneActiveAlert
<1>1. CycloneInv => OneActiveAlert
  BY DEF CycloneInv
<1> QED BY <1>1, CycloneInvariant, PTL

(* The versions of a cyclone's alerts form one chain of superseded alerts. *)
THEOREM ChainCorrect == CycloneSpec => []AlertsFormAChain
<1>1. CycloneInv => AlertsFormAChain
  BY DEF CycloneInv
<1> QED BY <1>1, CycloneInvariant, PTL

(* Two tasks never commit the same frame.                                  *)
THEOREM FrameOnceCorrect == CycloneSpec => []FrameProcessedOnce
<1>1. CycloneInv => FrameProcessedOnce
  BY DEF CycloneInv
<1> QED BY <1>1, CycloneInvariant, PTL

(* Only committed alerts are broadcast.                                    *)
THEOREM OutboxCorrect == CycloneSpec => []AnnouncedIsCommitted
<1>1. CycloneInv => AnnouncedIsCommitted
  BY DEF CycloneInv
<1> QED BY <1>1, CycloneInvariant, PTL

(* The ACTIVE alert of a cyclone has the priority of the frame rated last, *)
(* although it was decided on reads long before the commit.                *)
THEOREM ActiveAlertCorrect == CycloneSpec => []ActiveAlertIsCurrent
<1>1. StoreInit /\ CycloneInit => CycloneInv /\ Recency
  BY CycInvInit, RecencyInit
<1>2. CycloneInv /\ Recency /\ [CycloneNext]_cycloneAll => (CycloneInv /\ Recency)'
  BY CycInvStep, RecencyStep
<1>3. CycloneInv /\ Recency => ActiveAlertIsCurrent
  BY DEF Recency
<1> QED BY <1>1, <1>2, <1>3, PTL DEF CycloneSpec, CycloneStart
=============================================================================
