\* Three deliveries into one seeded zone that covers two places.
CONSTANTS
  None = None
  t1 = t1  t2 = t2  t3 = t3
  m1 = m1  m2 = m2  m3 = m3  m4 = m4  k1 = k1  zone = zone
  Task = {t1, t2, t3}
  Session = {t1, t2, t3}
  IncidentId = {t1, t2, t3}
  ZoneId = {t1, t2, t3, zone}
  Msg = {m1, m2, m3, m4}
  Key = {k1}
  Place = {"square", "school"}
  Category = {"fire", "flood"}
  Authentic = {m1, m2, m3, m4}
  Decryptable = {m1, m2, m3, m4}
  KeyOf <- MCKeyOf
  PlaceOf <- TownPlaceOf
  Dist <- MCDist
  Verdicts <- TownVerdicts
  SeedPlace <- TownSeed
  IncidentRadius = 500
  ZoneRadius = 2000
  EmergingLimit = 2
  HighLimit = 3
  CriticalLimit = 4
SPECIFICATION IngestSpec
SYMMETRY MCSymmetry
INVARIANTS PriorityCoversReports ZoneStatusJustified
PROPERTY LedgerSpec
CHECK_DEADLOCK FALSE
