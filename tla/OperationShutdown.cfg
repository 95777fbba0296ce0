SPECIFICATION Spec
CONSTANTS
  Procs = {}
  Talkers = {}
  Waits = {}
  Follows = {}
  Shutdowns = {s1}
  Pipes = {}
  Main = Main
  NoOne = NoOne
  Chunks = 0
  Lag = 1
  Racing = 1
  s1 = s1
INVARIANTS
  ShutdownStops
