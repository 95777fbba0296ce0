SPECIFICATION Spec
CONSTANTS
  Sessions = {i1}
  Serial = {i1}
  Resumed = {}
  Runs = {r1}
  Jobs = {}
  Stages = {}
  Settings = {c1}
  Waits = {}
  Moves = {m1, m2}
  Names = {Main, dev}
  None = None
  i1 = i1
  r1 = r1
  c1 = c1
  m1 = m1
  m2 = m2
  Main = Main
  dev = dev
PROPERTIES
  RollbackGoesBackOne
CHECK_DEADLOCK FALSE
