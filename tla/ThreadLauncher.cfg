CONSTANTS
  MaxOutstanding = 2
  DryRun = 3
  NumRequests = 6
  CreateCanFail = TRUE
SPECIFICATION Spec
INVARIANTS
  TypeOK
  SlotAccounting
  ThreadsBound
  ListOwnership
  NoUseAfterFree
  DryRunDrained
  NoLostWakeup
PROPERTIES
  ExperimentEnds
  RefinesBoundedLauncher
