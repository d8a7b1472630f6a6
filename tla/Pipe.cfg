CONSTANTS
  Readers = {r1, r2}
  Writers = {w1, w2}
  Capacity = 3
  Sizes = {4}
  MayDie = {w2}

SPECIFICATION FairSpec

\* Every descriptor may be closed.
CHECK_DEADLOCK FALSE

PROPERTIES
  ShortReadIsEnd
  ShortWriteIsUnread
  LastWriterReturns
  ReadersReturn
