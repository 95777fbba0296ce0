SPECIFICATION Spec
CONSTANTS
  IdleSeconds = 1
  Seconds = {1, 2}
  Limit = 2
  Cycles = 2
  Activities = 2
  Horizon = 3
INVARIANTS
  TypeOK
  IdleIsTimed
  FirstDecisionWins
PROPERTIES
  IdleAsksWhenIdle
  LifetimeIsOver
  DeadlineArrives
