CONSTANTS
  Thread = {root, a, b}
  Root = root
  Order <- AllOrder
  Masks <- SegvMask
  Actions = {"SEGV"}
  None = none

SPECIFICATION FairSpec

\* The process ends.
CHECK_DEADLOCK FALSE

PROPERTIES
  LostByNesting
  ReturnsClean
  BadSignalDecided
