SPECIFICATION Spec
CONSTANTS
  PAGE_LEVEL = 3
  PTE_COUNT = 3
  Frames <- MCFrames
  Procs = {init, p1}
  InitProc = init
  Tids = {0, 1}
  Programs <- MCPrograms
  STACK = 2
  GUARD = 1
CHECK_DEADLOCK FALSE
INVARIANTS FramesPartitioned TranslatesAreas MappersCount RangesMatchAreas
PROPERTY SpacePanics
