SPECIFICATION Spec
CONSTANTS
  Nobody = Nobody
  Reports <- MCReports
INVARIANTS DistressIsHeard GraverNeverLowers RulesFindingsSurvive ReportsOnlyEscalate
CHECK_DEADLOCK FALSE
