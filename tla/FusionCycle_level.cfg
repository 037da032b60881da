\* Six storms with and without image and environment, and every combination
\* of confident, doubtful and diverged heads.
CONSTANTS
  None = None
  Wind <- Winds
  Logistic <- LogisticOf
  Sample <- Samples
  Network <- Outputs
SPECIFICATION Spec
INVARIANTS LevelMatchesWind
