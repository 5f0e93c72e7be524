CONSTANTS
  Records <- MCRecords
  NumRequests = 3
  TxnSize = 2
  Draws <- MCDraws
  updates_ <- MCupdates
  Random <- MCRandom
  Modulus = 8
  MaxRunning = 3
SPECIFICATION Spec
INVARIANTS
  TypeOK
  SwitchAfterDrain
  OnlyUpdatesLost
  VerdictSound
PROPERTY TestEnds
