CONSTANTS
  Task = {root, a, b}
  Root = root
  NoTask = none

SPECIFICATION CondFairSpec

\* Every thread may be waiting, for the mutex or for a signal.
CHECK_DEADLOCK FALSE

INVARIANTS
  BlockedOnce
  NoLostWakeup

PROPERTIES
  RefinesAbstract
  WaitReturnsLocked
  FreeMutexTaken
  WaitersWoken
  SignalReachesAll
