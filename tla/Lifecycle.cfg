CONSTANTS
  Pid = {init, p, q}
  InitPid = init
  Tcb = {t1, t2, t3, t4}
  None = none
  MaxTid = 2
  Codes = {c1}
  Calls = {"sleep", "sync", "read", "init exits"}

SPECIFICATION StdinSpec
SYMMETRY Symmetry

\* Every task may be blocked, or the kernel may have stopped at an assertion.
CHECK_DEADLOCK FALSE

INVARIANTS
  FamilyTree
  RootKeepsProcess
  CodeToRead
  PanicsExplained
  StdinServed

PROPERTY
  CodesKept
