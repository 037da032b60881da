\* One SOS and one notice, buffers of one packet, two copies, one crash.
CONSTANTS
  NoPacket = NoPacket  NoPath = NoPath
  Sos = {s1}
  Notice = {n1}
  FlowCapacity = 1
  ChannelCapacity = 1
  ReceiveLimit = 3
  SendLimit = 1
  CrashLimit = 1
SPECIFICATION Spec
INVARIANTS AlarmedOnce MissingSosHasACause OnlyMeshOverstates
CHECK_DEADLOCK FALSE
