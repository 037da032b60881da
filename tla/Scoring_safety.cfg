\* Two reports, of one text or of two, with a cache of two entries.
CONSTANTS
  None = None
  Report = {r1, r2}
  Text = {flood, fire}
  MaxEntries = 2
  MaxRetries = 1
  SampleCount = 3
SPECIFICATION ScoringFairSpec
INVARIANTS FallbackNotShared StoredOnEvidence
PROPERTY EveryReportScored
CHECK_DEADLOCK FALSE
