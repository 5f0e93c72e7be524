CONSTANTS
  Txns <- MCTxns
  Keys <- MCKeys
  Values = {0, 1, 2, 3}
  Programs <- MCSkewOnly
  InitialStore <- MCInitialStore
  Workers = {w1, w2}
  Linked = {"shipped"}
SPECIFICATION Spec
INVARIANTS
  InOnePlace
PROPERTIES
  EveryRequestAnswered
