\* Two deliveries and two operators on one incident, in a place without a zone.
CONSTANTS
  None = None
  t1 = t1  t2 = t2  c1 = c1  c2 = c2  o1 = o1  o2 = o2
  m1 = m1  m2 = m2  k1 = k1  z1 = z1  f1 = f1  f2 = f2  cyc = cyc
  Task = {t1, t2}
  CycTask = {}
  Op = {o1, o2}
  Session = {t1, t2, o1, o2}
  IncidentId = {t1, t2}
  ZoneId = {t1, t2}
  Msg = {m1, m2}
  Frame = {}
  Cyclone = {cyc}
  HasPath = {}
  Key = {k1}
  Place = {"coast"}
  Category = {"fire"}
  Authentic = {m1, m2}
  Decryptable = {m1, m2}
  SeedPlace <- NoSeed
  Dist <- MCDist
  KeyOf <- MCKeyOf
  PlaceOf <- MCPlaceOf
  Verdicts <- MCVerdicts
  CycloneOf <- MCCycloneOf
  TimeOf <- MCTimeOf
  RiskAt <- MCRiskAt
  IncidentRadius = 500
  ZoneRadius = 2000
  EmergingLimit = 2
  HighLimit = 3
  CriticalLimit = 4
SPECIFICATION Spec
INVARIANT AuditExplainsStatus
PROPERTIES ReportsJoinOpenIncidents
CHECK_DEADLOCK FALSE
