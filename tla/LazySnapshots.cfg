SPECIFICATION Spec
CONSTANTS
  Commands = {c1, c2}
  Inspections = {}
  Snapshots = {s1}
  Closes = {}
  Aborts = {}
  Rollbacks = {r1}
  Main = Main
  NoOne = NoOne
  StagedAtRoot = FALSE
  CustomPolicy = FALSE
  Racing = 4
  c1 = c1
  c2 = c2
  s1 = s1
  r1 = r1
SYMMETRY Symmetry
INVARIANTS
  TypeOK
  NoTornSnapshot
  SnapshotCovers
  SnapshotIsTip
PROPERTIES
  ImplementsSharedFilesystem
