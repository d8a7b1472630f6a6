CONSTANTS
  Task = {root, a, b, c}
  Root = root
  NoTask = none
  InitCounts <- Counts
  MaxCount = 2

SPECIFICATION FairSpec

\* Every thread may be waiting in down().
CHECK_DEADLOCK FALSE

INVARIANTS
  WaitersBlocked
  CountIsWaiters

PROPERTIES
  RefinesAbstract
  WaitersServed
