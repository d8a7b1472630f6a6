SPECIFICATION Spec
CONSTANTS
  PAGE_LEVEL = 3
  PTE_COUNT = 4
  Frames <- MCFrames
  Sections <- MCSections
  KSTACK = 2
  KGUARD = 1
  MaxOthers = 2
  FirstId = 0
  MaxId = 3

\* The kernel may have stopped at an unwrap.
CHECK_DEADLOCK FALSE

INVARIANTS
  Partition
  DropNeverFails
  StacksMapped
  StackPanics
