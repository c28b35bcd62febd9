SPECIFICATION Spec
CONSTANTS
  Sessions = {s1}
  Requests = {r1, r2}
  Workers = {w1, w2}
  NoSession = NoSession
  BatchSize = 1
  MaxPuts = 2
  MaxCompletes = 3
CHECK_DEADLOCK FALSE
INVARIANT EveryFileIsStored
