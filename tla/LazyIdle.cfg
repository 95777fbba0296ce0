SPECIFICATION Spec
CONSTANTS
  Commands = {c1}
  Inspections = {}
  Snapshots = {}
  Closes = {}
  Aborts = {}
  Rollbacks = {}
  Main = Main
  NoOne = NoOne
  StagedAtRoot = FALSE
  CustomPolicy = FALSE
  Racing = 1
  c1 = c1
INVARIANTS
  IdleVmIsTimed
