--------------------------- MODULE AbstractMutex ---------------------------
(***************************************************************************)
(* What the kernel's mutexes promise a process: at any time at most one    *)
(* task is between a lock() that returned Ok and its unlock().             *)
(***************************************************************************)
CONSTANT Task

VARIABLE holders

AbsInit == holders = {}

(* lock() returns Ok to t. *)
Acquire(t) == holders = {} /\ holders' = {t}

(* t unlocks, or ends while it holds the mutex. *)
Release(t) == holders = {t} /\ holders' = {}

AbsNext == \E t \in Task : Acquire(t) \/ Release(t)

AbsSpec == AbsInit /\ [][AbsNext]_holders

=============================================================================
