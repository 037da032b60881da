\* Two training runs of three epochs; three runs of the reporting programs, one
\* killed; two service threads and a producer with a storm of three frames; three
\* runs of the programs of the SOS classifier, one killed.
CONSTANTS
  NaN = NaN  Infinity = Infinity  None = None  Torn = Torn  Untrained = Untrained
  Epochs = 3
  Patience = 2
  Metric = {0, 1, 2}
  RunLimit = 2
  CrashLimit = 2
  LabRuns = 3
  LabDeaths = 1
  StormFiles <- Files
  StormSets <- Storms
  Background = 20
  NewYear = 30
  w1 = w1  w2 = w2  producer = producer
  Worker = {w1, w2}
  Producer = producer
  Loader = {w1, w2, producer}
  FrameCount = 3
  MaxRetries = 2
  ProducerRuns = 1
  DeathLimit = 1
  SosRuns = 3
  SosDeaths = 1
SPECIFICATION Spec
SYMMETRY Symmetry
CONSTRAINT ServiceRestsWhilePosting
INVARIANTS BestFileIsMinimum StopsOnlyAfterPatience OneCrashLeavesACheckpoint TestedIsReported ShortReplayHasACause PlaybackInSequence LostSectionHasACause ReportIsTrue SampleDrawsOnItsBracket HeldOutIsHeldOut UpToDateIsOfOnePiece
CHECK_DEADLOCK FALSE
