CONSTANTS
  MaxOutstanding = 2
  DryRun = 3
  NumRequests = 4
  CreateCanFail = FALSE
SPECIFICATION Spec
INVARIANT DocumentedBound
