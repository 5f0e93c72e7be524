CONSTANTS
  DryRun = 2
  NumRequests = 4
  ForkCanFail = TRUE
  ExptLen = 2
  NanosPerSecond = 3
  MaxDelay = 2
SPECIFICATION Spec
INVARIANTS
  TypeOK
  ExecutedOnce
  SamplesTile
PROPERTIES
  RefinesBoundedLauncher
  ExperimentEnds
