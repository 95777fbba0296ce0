SPECIFICATION Spec
CONSTANTS
  Commands = {c1}
  Inspections = {i1}
  Snapshots = {}
  Closes = {k1}
  Aborts = {a1}
  Rollbacks = {}
  Main = Main
  NoOne = NoOne
  StagedAtRoot = FALSE
  CustomPolicy = FALSE
  Racing = 4
  c1 = c1
  i1 = i1
  k1 = k1
  a1 = a1
INVARIANTS
  OneVm
  CloseSaves
  AbortFreesVm
  QuiescentSave
  ActivityBalance
  IInv
PROPERTIES
  EndedForGood
