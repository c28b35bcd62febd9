SPECIFICATION FairSpec
CONSTANTS
  Folders = {d0, d1}
  Root = d0
  Items = {x1}
  Mutations = {m1, m2}
  Lists = {l1}
  None = None
CHECK_DEADLOCK FALSE
INVARIANTS
  TypeOK
  CacheIsRight
  ScreenIsRight
PROPERTY CacheGetsRight
