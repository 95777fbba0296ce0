SPECIFICATION FairSpec
CONSTANTS
  Commands = {c1}
  Inspections = {i1}
  Snapshots = {s1}
  Closes = {k1}
  Aborts = {}
  Rollbacks = {}
  Main = Main
  NoOne = NoOne
  StagedAtRoot = TRUE
  CustomPolicy = TRUE
  Racing = 2
  c1 = c1
  i1 = i1
  s1 = s1
  k1 = k1
PROPERTIES
  CallsReturn
