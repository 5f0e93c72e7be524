CONSTANTS
  MaxOutstanding = 3
  DryRun = 2
  NumRequests = 3
  CreateCanFail = TRUE
SPECIFICATION Spec
PROPERTY WaitOutstandingEnds
