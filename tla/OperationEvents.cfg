SPECIFICATION Spec
CONSTANTS
  Procs = {p1, p2}
  Talkers = {p1}
  Waits = {w1}
  Follows = {f1}
  Shutdowns = {s1}
  Pipes = {Main, p1}
  Main = Main
  NoOne = NoOne
  Chunks = 1
  Lag = 0
  Racing = 2
  p1 = p1
  p2 = p2
  w1 = w1
  f1 = f1
  s1 = s1
INVARIANTS
  TypeOK
  ResultIsWhole
  StdinAccounted
  EndReachesHandles
PROPERTIES
  ImplementsEventLogs
