\* Two dashboards and two overlapping broadcasts, under fairness; two gateways or
\* addresses; two scorings, with a window of as many traces.
CONSTANTS
  Nobody = Nobody
  d1 = d1  d2 = d2  b1 = b1  b2 = b2  k1 = k1  k2 = k2  r1 = r1  r2 = r2
  gateways = gateways  addresses = addresses
  Client = {d1, d2}
  Cast = {b1, b2}
  Table = {gateways, addresses}
  Requester = {k1, k2}
  MaxRequests <- Requests
  Window <- Windows
  MaxKeys <- Keys
  PruneInterval = 3
  ClockLimit = 7
  Scored = {r1, r2}
  Duration = {100, 9000}
  WindowSize = 2
  CallLimit = 1
  ResetLimit = 1
SPECIFICATION Spec
INVARIANTS QuietBroadcastReachesAll SummaryNeverUndercounts HealthAddsUp
PROPERTIES EveryBroadcastEnds LimitsAreExact
CHECK_DEADLOCK FALSE
