CONSTANTS
  Txns <- MCTxns
  Keys <- MCKeys
  Values = {0, 1, 2, 3}
  Program <- MCProgram
  InitialStore <- MCInitialStore
SPECIFICATION Spec
CHECK_DEADLOCK FALSE
INVARIANTS
  TypeOK
  ServedInOrder
PROPERTIES
  EveryRequestAnswered
  RefinesSerialDatabase
