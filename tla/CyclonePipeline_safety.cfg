\* Three tasks over three frames of cyclone A and two of cyclone B.
CONSTANTS
  None = None
  c1 = c1  c2 = c2  c3 = c3
  z1 = z1  z2 = z2
  fA1 = fA1  fA2 = fA2  fA3 = fA3  fB1 = fB1  fB2 = fB2
  cycA = cycA  cycB = cycB
  CycTask = {c1, c2, c3}
  Session = {c1, c2, c3}
  IncidentId = {}
  ZoneId = {z1, z2}
  Frame = {fA1, fA2, fA3, fB1, fB2}
  Cyclone = {cycA, cycB}
  HasPath = {fA1, fA2, fA3, fB1}
  Place = {"coast", "inland"}
  Category = {}
  SeedPlace <- MCSeedPlace
  Dist <- MCDist
  CycloneOf <- MCCycloneOf
  TimeOf <- MCTimeOf
  RiskAt <- MCRiskAt
  IncidentRadius = 500
  ZoneRadius = 2000
  EmergingLimit = 2
  HighLimit = 3
  CriticalLimit = 4
SPECIFICATION CycloneSpec
SYMMETRY MCSymmetry
INVARIANTS OneActiveAlert AlertsFormAChain FrameProcessedOnce ActiveAlertIsCurrent
CHECK_DEADLOCK FALSE
