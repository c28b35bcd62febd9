SPECIFICATION FairSpec
CONSTANTS
  Sessions = {s1}
  Requests = {r1}
  Workers = {w1, w2}
  NoSession = NoSession
  BatchSize = 1
  MaxPuts = 1
  MaxCompletes = 2
CHECK_DEADLOCK FALSE
PROPERTIES
  SessionsReclaimed
  SettlesEveryUpload
