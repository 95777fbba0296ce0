SPECIFICATION Spec
CONSTANTS
  Sessions = {i1}
  Serial = {}
  Resumed = {}
  Runs = {r1}
  Jobs = {}
  Stages = {s1}
  Settings = {c1}
  Waits = {}
  Moves = {m1}
  Names = {Main, dev}
  None = None
  i1 = i1
  r1 = r1
  s1 = s1
  c1 = c1
  m1 = m1
  Main = Main
  dev = dev
SYMMETRY Symmetry
INVARIANTS
  PositionIsEntry
  PathKeepsWork
PROPERTIES
  LateResultsStay
CHECK_DEADLOCK FALSE
