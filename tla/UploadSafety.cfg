SPECIFICATION Spec
CONSTANTS
  Sessions = {s1, s2}
  Requests = {r1, r2}
  Workers = {w1}
  NoSession = NoSession
  BatchSize = 2
  MaxPuts = 1
  MaxCompletes = 2
SYMMETRY Symmetry
CHECK_DEADLOCK FALSE
INVARIANTS
  OnTimeFileIsStored
  MultipartFileIsStored
PROPERTIES
  ImplementsLedger
