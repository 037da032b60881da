\* One grave SOS and one frame that rates its zone HIGH.
CONSTANTS
  None = None
  t1 = t1  t2 = t2  c1 = c1  c2 = c2  o1 = o1  o2 = o2
  m1 = m1  m2 = m2  k1 = k1  z1 = z1  f1 = f1  f2 = f2  cyc = cyc
  Task = {t1}
  CycTask = {c1}
  Op = {}
  Session = {t1, c1}
  IncidentId = {t1}
  ZoneId = {t1, z1}
  Msg = {m2}
  Frame = {f1}
  Cyclone = {cyc}
  HasPath = {f1}
  Key = {k1}
  Place = {"coast"}
  Category = {"fire"}
  Authentic = {m2}
  Decryptable = {m2}
  SeedPlace <- MCSeedPlace
  Dist <- MCDist
  KeyOf <- MCKeyOf
  PlaceOf <- MCPlaceOf
  Verdicts <- MCVerdicts
  CycloneOf <- MCCycloneOf
  TimeOf <- MCTimeOf
  RiskAt <- MCRiskAt
  IncidentRadius = 500
  ZoneRadius = 2000
  EmergingLimit = 2
  HighLimit = 3
  CriticalLimit = 4
SPECIFICATION Spec
PROPERTY NoDowngrade
CHECK_DEADLOCK FALSE
