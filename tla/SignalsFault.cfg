CONSTANTS
  Thread = {root, a, b}
  Root = root
  Order <- FaultOrder
  Masks <- NoMasks
  Actions = {}
  None = none

SPECIFICATION Spec

\* The process ends.
CHECK_DEADLOCK FALSE

INVARIANT
  KernelContinues
