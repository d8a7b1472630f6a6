------------------------------- MODULE Stdin -------------------------------
(***************************************************************************)
(* Standard input (fs/stdio.rs) among processes that end at any moment:    *)
(* Lifecycle, with what its readers read told apart. read() keeps the lock *)
(* of the console while the task is suspended for the next byte; a task    *)
(* that finds it taken is suspended too and tries again. The bytes are     *)
(* left out, and so is Stdout, which never suspends with its lock.         *)
(***************************************************************************)
EXTENDS Lifecycle

VARIABLES
  lock,      \* the task with the guard of Stdin's inner, or None
  console    \* the tasks inside Stdin::read; the others in inRead read pipes

stdinVars == <<lock, console>>

StdinInit == Init /\ lock = None /\ console = {}

(* try_lock fails, or it succeeds and the console has no byte: suspended,  *)
(* in the second case with the guard.                                      *)
StdinSuspend ==
  /\ current \in inRead => current \in console
  /\ ReadSuspend
  /\ lock' = IF lock = None THEN current ELSE lock
  /\ console' = console \cup {current}

(* The last byte, a NULL, or an error of the buffers, each of which drops  *)
(* the guard: the task has had it before or takes it in this step.         *)
StdinReturn ==
  /\ current \in console
  /\ lock \in {None, current}
  /\ ReadReturn
  /\ lock' = None
  /\ console' = console \ {current}

(* Pipe::read of a pipe with nothing in it. *)
PipeRead ==
  /\ current \notin console
  /\ ReadSuspend \/ ReadReturn
  /\ UNCHANGED stdinVars

StdinNext ==
  \/ StdinSuspend \/ StdinReturn \/ PipeRead
  \/ OtherStep /\ UNCHANGED stdinVars

StdinSpec == StdinInit /\ [][StdinNext]_<<vars, stdinVars>>

-----------------------------------------------------------------------------

(* The console is never locked for good: the task that has the guard is    *)
(* still inside read(), and it is ready or running, so that it goes on     *)
(* when there is a byte. A reader that was ended while it is suspended     *)
(* would leave the guard on its kernel stack for ever; what prevents this  *)
(* is the assertion on reference counts in mark_zombie (model.rs:1341),    *)
(* which stops the kernel first.                                           *)
StdinServed ==
  lock # None => lock \in console \cap inRead /\ status[lock] \in {"Ready", "Running"}

=============================================================================
