CONSTANTS
  Tasks = {k1, k2, k3}
  Workers = {w1, w2}
  CreateCanFail = TRUE
SPECIFICATION Spec
INVARIANTS
  TypeOK
  OnePlace
PROPERTY RefinesTaskPool
