----------------------------- MODULE Phone_proofs -----------------------------
(* What the runs of MCPhone check on two messages and two restarts, proved  *)
(* of every set of messages, capacity of the buffers and number of deaths.  *)
EXTENDS Phone, TLAPS

WorkingOn(s) == packet # NoPacket /\ packet.msgId = s

Steps == {"find", "mark", "judge", "insert", "notify", "relay"}

(* Buffers hold packets, and a step of process() is about a packet.         *)
MeshTypeInv ==
  /\ flow \in [Transport -> Seq(Packet)] /\ channel \in Seq(Packet)
  /\ step \in Steps /\ packet \in Packet \cup {NoPacket}
  /\ step # "find" => packet # NoPacket
  /\ step \in {"insert", "notify"} => packet.msgId \in Sos
  /\ seen \subseteq MsgId /\ relaying \subseteq Sos
  /\ incoming \in [Sos -> {"absent", "PENDING", "RELAYED", "RELAY_FAILED"}]
  /\ notified \in [Sos -> Nat]

(* A message passes FindSeen once: from judge on its id is in the table.    *)
PassedOnce ==
  step \in {"judge", "insert", "notify", "relay"} => packet.msgId \in seen

(* What was notified was seen before and is not on its way to be again.     *)
NotifiedIsBehind ==
  \A s \in Sos :
    notified[s] > 0 =>
      s \in seen /\ ~(WorkingOn(s) /\ step \in {"mark", "judge", "insert", "notify"})

(* The row is in the table before the alarm and before a manual relay.      *)
RowFirst ==
  /\ step = "notify" => incoming[packet.msgId] # "absent"
  /\ \A s \in relaying : incoming[s] # "absent"

MeshInv ==
  /\ MeshTypeInv
  /\ PassedOnce
  /\ NotifiedIsBehind
  /\ RowFirst
  /\ AlarmedOnce
  /\ MissingSosHasACause

-----------------------------------------------------------------------------

LEMMA MeshInitInv == Init => MeshInv
<1> SUFFICES ASSUME Init PROVE MeshInv
  OBVIOUS
<1> USE DEF Init, MeshInit
<1>1. MeshTypeInv
  BY DEF MeshTypeInv, Empty, Steps
<1>2. PassedOnce /\ NotifiedIsBehind /\ RowFirst
  BY DEF PassedOnce, NotifiedIsBehind, RowFirst
<1>3. AlarmedOnce /\ MissingSosHasACause
  BY DEF AlarmedOnce, MissingSosHasACause
<1>4. QED
  BY <1>1, <1>2, <1>3 DEF MeshInv

(* Only the buffers of packets, the radios and the clock move.              *)
LEMMA MeshFrame ==
  ASSUME MeshInv, UNCHANGED <<packet, step, seen, incoming, notified>>,
         relaying' \subseteq relaying,
         dropped \subseteq dropped', interrupted \subseteq interrupted',
         flow' \in [Transport -> Seq(Packet)], channel' \in Seq(Packet)
  PROVE  MeshInv'
<1> USE DEF MeshInv
<1>1. MeshTypeInv'
  BY DEF MeshTypeInv
<1>2. PassedOnce' /\ NotifiedIsBehind' /\ RowFirst'
  BY DEF PassedOnce, NotifiedIsBehind, RowFirst, WorkingOn
<1>3. AlarmedOnce' /\ MissingSosHasACause'
  BY DEF AlarmedOnce, MissingSosHasACause
<1>4. QED
  BY <1>1, <1>2, <1>3

(* The collector dies, a write under way may be in the tables or not.       *)
LEMMA MeshServiceEnds ==
  ASSUME MeshInv, ServiceEnds, UNCHANGED tableVars \/ WriteUnderWay,
         relaying' \subseteq relaying, UNCHANGED <<notified, dropped>>
  PROVE  MeshInv'
<1> USE DEF MeshInv, ServiceEnds, tableVars, WriteUnderWay
<1>1. MeshTypeInv'
  <2>1. flow' \in [Transport -> Seq(Packet)] /\ channel' \in Seq(Packet)
    BY DEF Empty
  <2>2. step = "mark" => packet.msgId \in MsgId
    BY DEF MeshTypeInv, Packet
  <2>3. seen' \subseteq MsgId
    BY <2>2 DEF MeshTypeInv
  <2>4. incoming' \in [Sos -> {"absent", "PENDING", "RELAYED", "RELAY_FAILED"}]
    BY DEF MeshTypeInv
  <2>5. QED
    BY <2>1, <2>3, <2>4 DEF MeshTypeInv, Steps
<1>2. \A s \in Sos : incoming[s] # "absent" => incoming'[s] # "absent"
  BY DEF MeshTypeInv
<1>3. seen \subseteq seen' /\ seen' \subseteq seen \cup interrupted'
  OBVIOUS
<1>4. PassedOnce' /\ NotifiedIsBehind' /\ RowFirst'
  BY <1>2, <1>3 DEF PassedOnce, NotifiedIsBehind, RowFirst, MeshTypeInv
<1>5. AlarmedOnce'
  BY <1>2 DEF AlarmedOnce
<1>6. MissingSosHasACause'
  BY <1>2, <1>3 DEF MissingSosHasACause
<1>7. QED
  BY <1>1, <1>4, <1>5, <1>6

LEMMA MeshStepInv ==
  ASSUME MeshInv, MeshStep
  PROVE  MeshInv'
<1> USE DEF MeshInv, tableVars, historyVars, serviceVars, ServiceRest
<1>1. CASE startMeshListeners \/ onAttached \/ Subscribe
  BY <1>1, MeshFrame DEF startMeshListeners, onAttached, Subscribe, MeshTypeInv
<1>2. CASE onDestroy
  BY <1>2, MeshServiceEnds DEF onDestroy
<1>3. ASSUME NEW t \in Transport, NEW p \in Packet, emitPacket(t, p)
      PROVE  MeshInv'
  <2>1. flow[t] \in Seq(Packet)
    BY DEF MeshTypeInv
  <2>2. Append(flow[t], p) \in Seq(Packet)
    BY <2>1
  <2>3. Len(flow[t]) >= FlowCapacity => flow[t] # <<>>
    BY <2>1, MeshAssumption DEF MeshAssumption
  <2>4. flow[t] # <<>> => Append(Tail(flow[t]), p) \in Seq(Packet)
    BY <2>1
  <2>5. flow' \in [Transport -> Seq(Packet)]
    BY <1>3, <2>1, <2>2, <2>3, <2>4, MeshAssumption DEF emitPacket, MeshTypeInv, MeshAssumption
  <2>6. QED
    BY <1>3, <2>5, MeshFrame DEF emitPacket, MeshTypeInv
<1>4. ASSUME NEW t \in Transport, Forward(t)
      PROVE  MeshInv'
  <2>1. flow[t] \in Seq(Packet) /\ flow[t] # <<>>
    BY <1>4 DEF MeshTypeInv, Forward
  <2>2. Head(flow[t]) \in Packet /\ Tail(flow[t]) \in Seq(Packet)
    BY <2>1
  <2>3. flow' \in [Transport -> Seq(Packet)] /\ channel' \in Seq(Packet)
    BY <1>4, <2>2 DEF Forward, MeshTypeInv
  <2>4. QED
    BY <1>4, <2>3, MeshFrame DEF Forward
<1>5. CASE Collect
  <2>1. channel \in Seq(Packet) /\ channel # <<>>
    BY <1>5 DEF MeshTypeInv, Collect
  <2>2. packet' \in Packet /\ channel' \in Seq(Packet) /\ step = "find" /\ step' = "find"
    BY <1>5, <2>1 DEF Collect, MeshTypeInv
  <2>3. MeshTypeInv'
    BY <1>5, <2>2 DEF Collect, MeshTypeInv
  <2>4. PassedOnce' /\ NotifiedIsBehind' /\ RowFirst'
    BY <1>5, <2>2 DEF Collect, PassedOnce, NotifiedIsBehind, RowFirst
  <2>5. AlarmedOnce' /\ MissingSosHasACause'
    BY <1>5, <2>2 DEF Collect, AlarmedOnce, MissingSosHasACause
  <2>6. QED
    BY <2>3, <2>4, <2>5
<1>6. CASE FindSeen
  <2> USE <1>6 DEF FindSeen, At, GoTo, Done
  <2>1. packet \in Packet /\ packet.msgId \in MsgId
    BY DEF MeshTypeInv, Packet
  <2>2. MeshTypeInv'
    BY <2>1 DEF MeshTypeInv, Steps, MsgId
  <2>3. PassedOnce' /\ NotifiedIsBehind' /\ RowFirst'
    BY <2>1, <2>2 DEF PassedOnce, NotifiedIsBehind, RowFirst, WorkingOn, MeshTypeInv, AlarmedOnce
  <2>4. AlarmedOnce'
    BY <2>1 DEF AlarmedOnce, NotifiedIsBehind, RowFirst, WorkingOn, MeshTypeInv
  <2>5. MissingSosHasACause'
    BY <2>1 DEF MissingSosHasACause, MeshTypeInv
  <2>6. QED
    BY <2>2, <2>3, <2>4, <2>5
<1>7. CASE MarkSeen
  <2> USE <1>7 DEF MarkSeen, At, GoTo, Done
  <2>1. packet \in Packet /\ packet.msgId \in MsgId
    BY DEF MeshTypeInv, Packet
  <2>2. MeshTypeInv'
    BY <2>1 DEF MeshTypeInv, Steps, MsgId
  <2>3. PassedOnce' /\ NotifiedIsBehind' /\ RowFirst'
    BY <2>1, <2>2 DEF PassedOnce, NotifiedIsBehind, RowFirst, WorkingOn, MeshTypeInv, AlarmedOnce
  <2>4. AlarmedOnce'
    BY <2>1 DEF AlarmedOnce, NotifiedIsBehind, RowFirst, WorkingOn, MeshTypeInv
  <2>5. MissingSosHasACause'
    BY <2>1 DEF MissingSosHasACause, MeshTypeInv
  <2>6. QED
    BY <2>2, <2>3, <2>4, <2>5
<1>8. CASE Judge
  <2> USE <1>8 DEF Judge, At, GoTo, Done
  <2>1. packet \in Packet /\ packet.msgId \in MsgId
    BY DEF MeshTypeInv, Packet
  <2>2. MeshTypeInv'
    BY <2>1 DEF MeshTypeInv, Steps, MsgId
  <2>3. PassedOnce' /\ NotifiedIsBehind' /\ RowFirst'
    BY <2>1, <2>2 DEF PassedOnce, NotifiedIsBehind, RowFirst, WorkingOn, MeshTypeInv, AlarmedOnce
  <2>4. AlarmedOnce'
    BY <2>1 DEF AlarmedOnce, NotifiedIsBehind, RowFirst, WorkingOn, MeshTypeInv
  <2>5. MissingSosHasACause'
    BY <2>1 DEF MissingSosHasACause, MeshTypeInv
  <2>6. QED
    BY <2>2, <2>3, <2>4, <2>5
<1>9. CASE InsertIncoming
  <2> USE <1>9 DEF InsertIncoming, At, GoTo, Done
  <2>1. packet \in Packet /\ packet.msgId \in MsgId
    BY DEF MeshTypeInv, Packet
  <2>2. MeshTypeInv'
    BY <2>1 DEF MeshTypeInv, Steps, MsgId
  <2>3. PassedOnce' /\ NotifiedIsBehind' /\ RowFirst'
    BY <2>1, <2>2 DEF PassedOnce, NotifiedIsBehind, RowFirst, WorkingOn, MeshTypeInv, AlarmedOnce
  <2>4. AlarmedOnce'
    BY <2>1 DEF AlarmedOnce, NotifiedIsBehind, RowFirst, WorkingOn, MeshTypeInv
  <2>5. MissingSosHasACause'
    BY <2>1 DEF MissingSosHasACause, MeshTypeInv
  <2>6. QED
    BY <2>2, <2>3, <2>4, <2>5
<1>10. CASE postSosNotification
  <2> USE <1>10 DEF postSosNotification, At, GoTo, Done
  <2>1. packet \in Packet /\ packet.msgId \in MsgId
    BY DEF MeshTypeInv, Packet
  <2>2. MeshTypeInv'
    BY <2>1 DEF MeshTypeInv, Steps, MsgId
  <2>3. PassedOnce' /\ NotifiedIsBehind' /\ RowFirst'
    BY <2>1, <2>2 DEF PassedOnce, NotifiedIsBehind, RowFirst, WorkingOn, MeshTypeInv, AlarmedOnce
  <2>4. AlarmedOnce'
    BY <2>1 DEF AlarmedOnce, NotifiedIsBehind, RowFirst, WorkingOn, MeshTypeInv
  <2>5. MissingSosHasACause'
    BY <2>1 DEF MissingSosHasACause, MeshTypeInv
  <2>6. QED
    BY <2>2, <2>3, <2>4, <2>5
<1>11. CASE Relay
  <2> USE <1>11 DEF Relay, At, GoTo, Done
  <2>1. packet \in Packet /\ packet.msgId \in MsgId
    BY DEF MeshTypeInv, Packet
  <2>2. MeshTypeInv'
    BY <2>1 DEF MeshTypeInv, Steps, MsgId
  <2>3. PassedOnce' /\ NotifiedIsBehind' /\ RowFirst'
    BY <2>1, <2>2 DEF PassedOnce, NotifiedIsBehind, RowFirst, WorkingOn, MeshTypeInv, AlarmedOnce
  <2>4. AlarmedOnce'
    BY <2>1 DEF AlarmedOnce, NotifiedIsBehind, RowFirst, WorkingOn, MeshTypeInv
  <2>5. MissingSosHasACause'
    BY <2>1 DEF MissingSosHasACause, MeshTypeInv
  <2>6. QED
    BY <2>2, <2>3, <2>4, <2>5
<1>12. ASSUME NEW m \in MsgId, MessageAges(m)
      PROVE  MeshInv'
  BY <1>12, MeshFrame DEF MessageAges, MeshTypeInv
<1>13. ASSUME NEW s \in Sos, relayManually(s)
      PROVE  MeshInv'
  <2> USE <1>13 DEF relayManually
  <2>1. MeshTypeInv' /\ PassedOnce' /\ NotifiedIsBehind' /\ RowFirst'
    BY DEF MeshTypeInv, PassedOnce, NotifiedIsBehind, RowFirst, WorkingOn
  <2>2. AlarmedOnce' /\ MissingSosHasACause'
    BY DEF AlarmedOnce, MissingSosHasACause
  <2>3. QED
    BY <2>1, <2>2
<1>14. ASSUME NEW s \in Sos, updateRelayStatus(s)
      PROVE  MeshInv'
  <2> USE <1>14 DEF updateRelayStatus
  <2>1. \A r \in Sos : incoming'[r] # "absent" <=> incoming[r] # "absent"
    BY DEF MeshTypeInv, RowFirst
  <2>2. MeshTypeInv'
    BY DEF MeshTypeInv
  <2>3. PassedOnce' /\ NotifiedIsBehind' /\ RowFirst'
    BY <2>1 DEF PassedOnce, NotifiedIsBehind, RowFirst, WorkingOn, MeshTypeInv
  <2>4. AlarmedOnce' /\ MissingSosHasACause'
    BY <2>1 DEF AlarmedOnce, MissingSosHasACause
  <2>5. QED
    BY <2>2, <2>3, <2>4
<1>15. QED
  BY <1>1, <1>2, <1>3, <1>4, <1>5, <1>6, <1>7, <1>8, <1>9, <1>10, <1>11, <1>12, <1>13, <1>14
     DEF MeshStep, CollectorStep, process

-----------------------------------------------------------------------------

LEMMA SendStepInv ==
  ASSUME OnlyMeshOverstates, SendStep
  PROVE  OnlyMeshOverstates'
<1> USE DEF OnlyMeshOverstates, Show
<1>1. CASE sendSos
  BY <1>1 DEF sendSos
<1>2. CASE SendProgress
  BY <1>2 DEF SendProgress, Signed, RequestSent, InternetResult, MeshResult
<1>3. ASSUME NEW s \in 1 .. SendLimit, RequestArrives(s)
      PROVE  OnlyMeshOverstates'
  BY <1>3 DEF RequestArrives
<1>4. QED
  BY <1>1, <1>2, <1>3 DEF SendStep

PhoneInv == MeshInv /\ OnlyMeshOverstates

LEMMA PhoneStepInv == PhoneInv /\ [Next]_phoneVars => PhoneInv'
<1> SUFFICES ASSUME PhoneInv, [Next]_phoneVars PROVE PhoneInv'
  OBVIOUS
<1> USE DEF PhoneInv
<1>1. ASSUME UNCHANGED meshVars PROVE MeshInv'
  BY <1>1, MeshFrame DEF meshVars, serviceVars, tableVars, historyVars, MeshInv, MeshTypeInv
<1>2. ASSUME UNCHANGED sendVars PROVE OnlyMeshOverstates'
  BY <1>2 DEF sendVars, OnlyMeshOverstates
<1>3. ASSUME onCleared PROVE OnlyMeshOverstates'
  BY <1>3 DEF onCleared, Show, OnlyMeshOverstates
<1>4. CASE MeshStep /\ UNCHANGED <<sendVars, crashes>>
  BY <1>2, <1>4, MeshStepInv
<1>5. CASE SendStep /\ UNCHANGED <<meshVars, crashes>>
  BY <1>1, <1>5, SendStepInv
<1>6. CASE LeaveScreen
  BY <1>1, <1>3, <1>6 DEF LeaveScreen
<1>7. CASE ProcessDies
  <2>1. relaying' \subseteq relaying
    BY <1>7 DEF ProcessDies, MeshDies
  <2>2. MeshInv'
    BY <1>7, <2>1, MeshServiceEnds DEF ProcessDies, MeshDies
  <2>3. QED
    BY <1>3, <1>7, <2>2 DEF ProcessDies
<1>8. CASE UNCHANGED phoneVars
  BY <1>1, <1>2, <1>8 DEF phoneVars
<1>9. QED
  BY <1>4, <1>5, <1>6, <1>7, <1>8 DEF Next

LEMMA PhoneInitInv == Init => PhoneInv
<1>1. Init => OnlyMeshOverstates
  BY DEF Init, SendInit, OnlyMeshOverstates
<1>2. QED
  BY <1>1, MeshInitInv DEF PhoneInv

(* The phone keeps its inductive invariant in every behaviour: copies over  *)
(* both transports, services that end and processes that are killed.        *)
THEOREM PhoneInvariant == Spec => []PhoneInv
BY PhoneInitInv, PhoneStepInv, PTL DEF Spec

(* One SOS sounds the alarm at most once and the inbox shows it, however    *)
(* many messages there are.  (MeshPacketProcessor.kt:56-62, 112-113)        *)
THEOREM AlarmCorrect == Spec => []AlarmedOnce
<1>1. PhoneInv => AlarmedOnce
  BY DEF PhoneInv, MeshInv
<1>2. QED
  BY <1>1, PhoneInvariant, PTL

(* No seen SOS misses from the inbox without one of the three causes.       *)
(* (MeshPacketProcessor.kt:57-75)                                           *)
THEOREM InboxCorrect == Spec => []MissingSosHasACause
<1>1. PhoneInv => MissingSosHasACause
  BY DEF PhoneInv, MeshInv
<1>2. QED
  BY <1>1, PhoneInvariant, PTL

(* Only the mesh stub makes the screen say more than happened, whatever the *)
(* number of messages sent.  (SosSendViewModel.kt:112-148)                  *)
THEOREM SendScreenCorrect == Spec => []OnlyMeshOverstates
<1>1. PhoneInv => OnlyMeshOverstates
  BY DEF PhoneInv
<1>2. QED
  BY <1>1, PhoneInvariant, PTL
=============================================================================
