---------------------------- MODULE MCSemaphore ----------------------------
(***************************************************************************)
(* Semaphore for TLC: one created with a permit, one that owes two.        *)
(***************************************************************************)
EXTENDS Semaphore

Counts == {1, -2}

=============================================================================
