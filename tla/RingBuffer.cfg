CONSTANTS
  Byte = {x, y, z}
  Capacity = 5
  NoByte = none

SPECIFICATION Spec

INVARIANT
  StatusMatchesPositions

PROPERTY
  RefinesFifo
