\* Two deliveries of one packet, a frame and an operator that meet on the
\* incident and zone rows, under fairness.
CONSTANTS
  None = None
  t1 = t1  t2 = t2  c1 = c1  c2 = c2  o1 = o1  o2 = o2
  m1 = m1  m2 = m2  k1 = k1  z1 = z1  f1 = f1  f2 = f2  cyc = cyc
  Task = {t1, t2}
  CycTask = {c1}
  Op = {o1}
  Session = {t1, t2, c1, o1}
  IncidentId = {t1, t2}
  ZoneId = {t1, t2, z1}
  Msg = {m1}
  Frame = {f1}
  Cyclone = {cyc}
  HasPath = {f1}
  Key = {k1}
  Place = {"coast"}
  Category = {"fire"}
  Authentic = {m1}
  Decryptable = {m1}
  SeedPlace <- MCSeedPlace
  Dist <- MCDist
  KeyOf <- MCKeyOf
  PlaceOf <- MCPlaceOf
  Verdicts <- MCVerdicts
  CycloneOf <- MCCycloneOf
  TimeOf <- MCTimeOf
  RiskAt <- MCRiskAt
  IncidentRadius = 500
  ZoneRadius = 2000
  EmergingLimit = 2
  HighLimit = 3
  CriticalLimit = 4
SPECIFICATION FairSpec
PROPERTY EverySessionEnds
CHECK_DEADLOCK FALSE
