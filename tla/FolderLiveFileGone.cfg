SPECIFICATION Spec
CONSTANTS
  Folders = {d1}
  Files = {x1}
  Root = Root
  Calls = {c1}
  Idle = Idle
  Third = d1
  MaxDepth = 2
SYMMETRY Symmetry
PROPERTIES
  OnlyTrashedFilesGo
