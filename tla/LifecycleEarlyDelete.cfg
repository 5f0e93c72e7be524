CONSTANTS
  Txns = {t1, t2}
  Workers = {w1, w2}
  StoppedInit = {FALSE}
  CollectAll = FALSE
  CreateCanFail = FALSE
SPECIFICATION Spec
INVARIANTS
  NoUseAfterDestroy
