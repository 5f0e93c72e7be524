CONSTANTS
  Txns = {t1, t2}
  Workers = {w1, w2}
  StoppedInit = {FALSE, TRUE}
  CollectAll = TRUE
  CreateCanFail = FALSE
SPECIFICATION Spec
PROPERTIES
  EveryRequestAnswered
