------------------------------ MODULE MeshInbox ------------------------------
(***************************************************************************)
(* The receiving side of a phone: MeshReceiverService with its Bluetooth   *)
(* and Wi-Fi Aware receivers, MeshPacketProcessor, and the inbox screen.   *)
(* One collector coroutine processes packets one after another; every call *)
(* of a DAO suspends it.  The seen-packet and incoming-SOS tables survive  *)
(* the process, everything else dies with it.                              *)
(***************************************************************************)
EXTENDS Integers, Sequences, MeshRelay

CONSTANTS
  Sos,              (* messages of type SOS                                  *)
  Notice,           (* messages of other types                               *)
  NoPacket,         (* the collector waits                                   *)
  FlowCapacity,     (* extraBufferCapacity of a receiver's flow              *)
  ChannelCapacity,  (* the buffer of merge()                                 *)
  ReceiveLimit      (* bound: packets received                               *)

ASSUME MeshAssumption ==
  /\ Sos \cap Notice = {}
  /\ FlowCapacity \in Nat \ {0} /\ ChannelCapacity \in Nat \ {0}
  /\ ReceiveLimit \in Nat

VARIABLES
  up,           (* the service runs                                          *)
  subscribed,   (* its collector has subscribed to the flows                 *)
  attaching,    (* a Wi-Fi Aware attach is under way                         *)
  listening,    (* transports that deliver packets                           *)
  flow,         (* flow[t]: buffer of incomingPackets                        *)
  channel,      (* packets on their way from the flows to the collector      *)
  packet,       (* the packet that process() works on                        *)
  step,         (* and what it does next                                     *)
  seen,         (* table seen_packets                                        *)
  incoming,     (* table incoming_sos: the relay status of each SOS          *)
  relaying,     (* SOS that relayManually is about                           *)
  old,          (* messages created more than five minutes ago               *)
  notified,     (* history: notifications posted for each SOS                *)
  dropped,      (* history: messages a copy of which was too old or used up  *)
  interrupted,  (* history: messages whose processing was cut off            *)
  receives      (* packets received                                          *)

serviceVars == <<up, subscribed, attaching, listening, flow, channel, packet, step>>
tableVars == <<seen, incoming>>
historyVars == <<notified, dropped, interrupted>>
meshVars == <<serviceVars, tableVars, relaying, old, historyVars, receives>>

Transport == {"BLUETOOTH", "WIFI_AWARE"}
MsgId == Sos \cup Notice
Packet == [msgId : MsgId, ttl : {0, 1}]
Empty == [t \in Transport |-> <<>>]

MeshInit ==
  /\ up = FALSE /\ subscribed = FALSE /\ attaching = FALSE /\ listening = {}
  /\ flow = Empty /\ channel = <<>> /\ packet = NoPacket /\ step = "find"
  /\ seen = {} /\ incoming = [s \in Sos |-> "absent"]
  /\ relaying = {} /\ old = {}
  /\ notified = [s \in Sos |-> 0] /\ dropped = {} /\ interrupted = {}
  /\ receives = 0

-----------------------------------------------------------------------------
(* The service.                                                            *)

(* The collector is launched, not awaited; the receivers start right after *)
(* it, each only if its radio is on and permitted, and are not tried again.*)
startMeshListeners ==
  /\ ~up
  /\ up' = TRUE
  /\ listening' \in {{}, {"BLUETOOTH"}}
  /\ attaching' \in BOOLEAN
  /\ UNCHANGED <<subscribed, flow, channel, packet, step, tableVars, relaying, old,
                 historyVars, receives>>

onAttached ==
  /\ attaching
  /\ attaching' = FALSE
  /\ listening' = listening \cup {"WIFI_AWARE"}
  /\ UNCHANGED <<up, subscribed, flow, channel, packet, step, tableVars, relaying, old,
                 historyVars, receives>>

Subscribe ==
  /\ up /\ ~subscribed
  /\ subscribed' = TRUE
  /\ UNCHANGED <<up, attaching, listening, flow, channel, packet, step, tableVars, relaying,
                 old, historyVars, receives>>

(* What the collector held or was sent is gone.                            *)
ServiceEnds ==
  /\ up' = FALSE /\ subscribed' = FALSE /\ attaching' = FALSE /\ listening' = {}
  /\ flow' = Empty /\ channel' = <<>> /\ packet' = NoPacket /\ step' = "find"
  /\ interrupted' = IF step \in {"mark", "judge", "insert"}
                    THEN interrupted \cup {packet.msgId} ELSE interrupted

(* A cancelled call of a DAO may still have written.                       *)
WriteUnderWay ==
  /\ seen' = IF step = "mark" THEN seen \cup {packet.msgId} ELSE seen
  /\ incoming' = IF step = "insert" THEN [incoming EXCEPT ![packet.msgId] = "PENDING"]
                 ELSE incoming

onDestroy ==
  /\ up
  /\ ServiceEnds
  /\ UNCHANGED tableVars \/ WriteUnderWay
  /\ UNCHANGED <<relaying, old, notified, dropped, receives>>

(* The process is killed; the inbox screen goes with it.                   *)
MeshDies ==
  /\ ServiceEnds
  /\ relaying' = {}
  /\ UNCHANGED <<tableVars, old, notified, dropped, receives>>

-----------------------------------------------------------------------------
(* From the radio to the collector.                                        *)

(* A flow without a subscriber keeps nothing; a full one drops its oldest. *)
emitPacket(t, p) ==
  /\ t \in listening
  /\ receives < ReceiveLimit
  /\ receives' = receives + 1
  /\ flow' = IF ~subscribed THEN flow
             ELSE [flow EXCEPT ![t] = IF Len(@) < FlowCapacity THEN Append(@, p)
                                      ELSE Append(Tail(@), p)]
  /\ UNCHANGED <<up, subscribed, attaching, listening, channel, packet, step, tableVars,
                 relaying, old, historyVars>>

Forward(t) ==
  /\ flow[t] # <<>> /\ Len(channel) < ChannelCapacity
  /\ channel' = Append(channel, Head(flow[t]))
  /\ flow' = [flow EXCEPT ![t] = Tail(@)]
  /\ UNCHANGED <<up, subscribed, attaching, listening, packet, step, tableVars, relaying,
                 old, historyVars, receives>>

Collect ==
  /\ packet = NoPacket /\ channel # <<>>
  /\ packet' = Head(channel) /\ channel' = Tail(channel)
  /\ step' = "find"
  /\ UNCHANGED <<up, subscribed, attaching, listening, flow, tableVars, relaying, old,
                 historyVars, receives>>

MessageAges(m) ==
  /\ m \notin old
  /\ old' = old \cup {m}
  /\ UNCHANGED <<serviceVars, tableVars, relaying, historyVars, receives>>

-----------------------------------------------------------------------------
(* process().                                                              *)

At(s) == packet # NoPacket /\ step = s
GoTo(s) == step' = s /\ UNCHANGED packet
Done == step' = "find" /\ packet' = NoPacket
ServiceRest == <<up, subscribed, attaching, listening, flow, channel>>

FindNothing ==  (* mutant: duplicates are not looked for                          *)
  /\ At("find")
  /\ GoTo("mark")
  /\ UNCHANGED <<ServiceRest, tableVars, relaying, old, historyVars, receives>>

FindSeen ==
  /\ At("find")
  /\ IF packet.msgId \in seen THEN Done ELSE GoTo("mark")
  /\ UNCHANGED <<ServiceRest, tableVars, relaying, old, historyVars, receives>>

MarkSeen ==
  /\ At("mark")
  /\ seen' = seen \cup {packet.msgId}
  /\ GoTo("judge")
  /\ UNCHANGED <<ServiceRest, incoming, relaying, old, historyVars, receives>>

JudgeSignature ==  (* mutant: an SOS without a valid signature is only relayed    *)
  /\ At("judge")
  /\ IF packet.msgId \in old \/ packet.ttl = 0
     THEN Done /\ dropped' = dropped \cup {packet.msgId}
     ELSE /\ \E next \in {"insert", "relay"} : GoTo(next)
          /\ UNCHANGED dropped
  /\ UNCHANGED <<ServiceRest, tableVars, relaying, old, notified, interrupted, receives>>

(* Age, then TTL.  The signature is only recorded.                         *)
Judge ==
  /\ At("judge")
  /\ IF packet.msgId \in old \/ packet.ttl = 0
     THEN Done /\ dropped' = dropped \cup {packet.msgId}
     ELSE /\ GoTo(IF packet.msgId \in Sos THEN "insert" ELSE "relay")
          /\ UNCHANGED dropped
  /\ UNCHANGED <<ServiceRest, tableVars, relaying, old, notified, interrupted, receives>>

InsertIncoming ==
  /\ At("insert")
  /\ incoming' = [incoming EXCEPT ![packet.msgId] = "PENDING"]
  /\ GoTo("notify")
  /\ UNCHANGED <<ServiceRest, seen, relaying, old, historyVars, receives>>

postSosNotification ==
  /\ At("notify")
  /\ notified' = [notified EXCEPT ![packet.msgId] = @ + 1]
  /\ GoTo("relay")
  /\ UNCHANGED <<ServiceRest, tableVars, relaying, old, dropped, interrupted, receives>>

(* MeshRepositoryImpl.relayPacket sends nothing and answers success.       *)
Relay ==
  /\ At("relay")
  /\ Done
  /\ UNCHANGED <<ServiceRest, tableVars, relaying, old, historyVars, receives>>

process ==
  FindSeen \/ MarkSeen \/ Judge \/ InsertIncoming \/ postSosNotification \/ Relay

(* The inbox screen: relayManually, then the update of the status.         *)
relayManually(s) ==
  /\ incoming[s] # "absent"
  /\ relaying' = relaying \cup {s}
  /\ UNCHANGED <<serviceVars, tableVars, old, historyVars, receives>>

updateRelayStatus(s) ==
  /\ s \in relaying
  /\ relaying' = relaying \ {s}
  /\ incoming' = [incoming EXCEPT ![s] = IF relayPacket.success THEN "RELAYED"
                                         ELSE "RELAY_FAILED"]
  /\ UNCHANGED <<serviceVars, seen, old, historyVars, receives>>

-----------------------------------------------------------------------------

CollectorStep == Subscribe \/ (\E t \in Transport : Forward(t)) \/ Collect \/ process

MeshStep ==
  \/ startMeshListeners \/ onAttached \/ onDestroy
  \/ \E t \in Transport, p \in Packet : emitPacket(t, p)
  \/ CollectorStep
  \/ \E m \in MsgId : MessageAges(m)
  \/ \E s \in Sos : relayManually(s) \/ updateRelayStatus(s)

(* However many copies arrive, over both transports and across restarts,   *)
(* one SOS sounds the alarm at most once, and the inbox the alarm opens    *)
(* shows it.  (MeshPacketProcessor.kt:56-62, 112-113)                      *)
AlarmedOnce ==
  \A s \in Sos : notified[s] <= 1 /\ (notified[s] = 1 => incoming[s] # "absent")

(* A seen SOS misses from the inbox only if a copy of it was too old or    *)
(* had no hops left, or if its processing was cut off.  It then misses for *)
(* good: every later copy is a duplicate.  (MeshPacketProcessor.kt:57-75)  *)
MissingSosHasACause ==
  \A s \in seen \cap Sos :
    \/ incoming[s] # "absent"
    \/ s \in dropped \cup interrupted
    \/ packet # NoPacket /\ packet.msgId = s /\ step \in {"judge", "insert"}
=============================================================================
