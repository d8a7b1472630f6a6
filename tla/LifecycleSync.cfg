CONSTANTS
  Pid = {init, p}
  InitPid = init
  Tcb = {t1, t2, t3}
  None = none
  MaxTid = 2
  Codes = {c1}
  Calls = {"sync"}

SPECIFICATION StdinSpec
SYMMETRY Symmetry

\* Every task may be blocked, or the kernel may have stopped at an assertion.
CHECK_DEADLOCK FALSE

INVARIANT
  AssertionsHold
