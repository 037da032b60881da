\* Six storms with an image read, claimed or missing, with and without
\* environment, and every combination of confident, doubtful and diverged heads.
CONSTANTS
  None = None
  Wind <- Winds
  Logistic <- LogisticOf
  Sample <- Samples
  Network <- Outputs
SPECIFICATION Spec
INVARIANTS DenialHasACause NonDetectionOnlyOnTheEdge DivergedHeadStopped LevelWrongOnlyFromBaseline
