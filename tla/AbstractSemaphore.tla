------------------------- MODULE AbstractSemaphore -------------------------
(***************************************************************************)
(* What the kernel's semaphores promise a process: a down() returns only   *)
(* against a permit, and each up() or initial permit pays for one down().  *)
(***************************************************************************)
EXTENDS Naturals

CONSTANT InitPermits   \* what a semaphore may start with

VARIABLE permits   \* initial permits and ups not yet used by a down()

AbsInit == permits \in InitPermits

Up == permits' = permits + 1

DownReturns == permits > 0 /\ permits' = permits - 1

AbsSpec == AbsInit /\ [][Up \/ DownReturns]_permits

=============================================================================
