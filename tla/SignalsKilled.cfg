CONSTANTS
  Thread = {root}
  Root = root
  Order <- AllOrder
  Masks <- NoMasks
  Actions = {"SEGV"}
  None = none

SPECIFICATION FairSpec

\* The process ends.
CHECK_DEADLOCK FALSE

PROPERTY
  KilledExits
