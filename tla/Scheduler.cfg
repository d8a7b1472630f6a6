CONSTANTS
  Task = {init, a, b, c}
  NoTask = none
  InitTask = init
  W = 5
  Micro = 2
  Freq = 3
  MaxTicks = 6
  Durations = {0, 1, 2}

SPECIFICATION FairSpec

INVARIANTS
  OnePlace

PROPERTIES
  ZombiesStayDead
  NeverEarly
  NoneOverdue
  SleepersRun
