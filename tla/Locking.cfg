CONSTANTS
  Txns <- MCTxns
  Keys <- MCKeys
  Values = {0, 1, 2, 3}
  Programs <- MCPrograms
  InitialStore <- MCInitialStore
  Workers = {w1, w2}
  Linked = {"A", "B"}
SPECIFICATION Spec
INVARIANTS
  TypeOK
  ConflictsExcluded
  LocksHeldWhileActive
  WaitsForOlder
  ConflictOrder
  InOnePlace
PROPERTIES
  EveryRequestAnswered
  RefinesSerialDatabase
