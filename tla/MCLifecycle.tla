---------------------------- MODULE MCLifecycle ----------------------------
(* Lifecycle and Stdin for TLC: the control blocks are interchangeable, and *)
(* so are the processes other than the initial one.                        *)
EXTENDS Stdin, TLC

Symmetry == Permutations(Tcb) \cup Permutations(Pid \ {InitPid})

=============================================================================
