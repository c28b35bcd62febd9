SPECIFICATION MCSpec
CONSTANTS
  Folders = {d1, d2, d3}
  Files = {x1, x2}
  Root = Root
  Calls = {c1, c2}
  Idle = Idle
  Third = d3
  MaxDepth = 1
SYMMETRY Symmetry
INVARIANTS
  TypeOK
  RowHasObject
  NoCycle
  LiveFoldersVisible
PROPERTIES
  OnlyTrashedFoldersGo
  CreatedWithinDepth
