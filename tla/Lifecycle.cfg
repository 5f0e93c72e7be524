CONSTANTS
  Txns = {t1, t2}
  Workers = {w1, w2}
  StoppedInit = {FALSE}
  CollectAll = TRUE
  CreateCanFail = TRUE
SPECIFICATION Spec
INVARIANTS
  TypeOK
  NoUseAfterDestroy
PROPERTIES
  DeleteReturns
  AnsweredOnceStarted
