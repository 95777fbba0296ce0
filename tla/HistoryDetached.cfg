SPECIFICATION Spec
CONSTANTS
  Sessions = {i1, i2}
  Serial = {i2}
  Resumed = {i2}
  Runs = {r1}
  Jobs = {j1}
  Stages = {}
  Settings = {}
  Waits = {w1, w2}
  Moves = {}
  Names = {Main}
  None = None
  i1 = i1
  i2 = i2
  r1 = r1
  j1 = j1
  w1 = w1
  w2 = w2
  Main = Main
SYMMETRY Symmetry
INVARIANTS
  TypeOK
  OneOutcome
PROPERTIES
  ImplementsTree
  SelectionDescends
CHECK_DEADLOCK FALSE
