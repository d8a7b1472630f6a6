------------------------------ MODULE Signals ------------------------------
(***************************************************************************)
(* Signals of one process (task/signal.rs, handle_all_signals and          *)
(* signal_return in task/model.rs, handle_current_task_signals in          *)
(* task/process.rs, syscall/signal.rs, and the end of trap_handler).       *)
(*                                                                         *)
(* The process has a root task and other threads. They share one signal    *)
(* control block, and a handler always runs in the root task's trap        *)
(* context, whichever thread's trap delivers the signal. A trap is one     *)
(* step from user mode to the next user mode, suspension or exit: the      *)
(* kernel is not preempted. At most one thread is in user mode.            *)
(***************************************************************************)
EXTENDS Naturals, Sequences, SequencesExt

CONSTANTS
  Thread, Root,
  Order,     \* Signal::iter(), in its order
  Masks,     \* masks the program uses
  Actions,   \* signals the program registers a handler for
  None

Signal == Range(Order)

ASSUME SignalsAssumption ==
  /\ Root \in Thread
  /\ None \notin Signal
  /\ Masks \subseteq SUBSET Signal
  /\ Actions \subseteq Signal

VARIABLES
  scb,       \* the SignalControlBlock; trap_ctx_backup is its backup
  ctx,       \* the root task's trap context: what runs, and the register a0
  at,        \* where each thread is
  code,      \* the exit code of each thread: the signal s for -s, or "other"
  kernel

vars == <<scb, ctx, at, code, kernel>>

(* A trap context: pc is "main" or the signal whose handler runs; a0 is a   *)
(* result of a system call, an argument of one, or a signal.               *)
Context == [pc : Signal \cup {"main"}, a0 : Signal \cup {"arg", "ret"}]

Init ==
  /\ scb = [handling |-> None, setted |-> {}, masked |-> {}, backup |-> None,
            killed |-> FALSE, frozen |-> FALSE,
            actions |-> [s \in Signal |-> [handler |-> "null", mask |-> {}]]]
  /\ ctx = [pc |-> "main", a0 |-> "ret"]
  /\ at = [t \in Thread |-> IF t = Root THEN "fresh" ELSE "none"]
  /\ code = [t \in Thread |-> None]
  /\ kernel = "running"

-----------------------------------------------------------------------------
(* The control block. *)

(* Variant: the mask of the handler that runs is not looked at. *)
PendingUnmasked(b) == b.setted \ b.masked

(* is_pending_signal *)
Pending(b) ==
  {s \in b.setted \ b.masked :
     b.handling # None => s \notin b.actions[b.handling].mask}

Special == {"STOP", "CONT", "KILL", "DEF"}

(* get_bad_signal: the first of these that is set. *)
BadOrder == <<"INT", "ILL", "ABRT", "FPE", "SEGV">>

Bad == Range(BadOrder)

(* Variant: the last test of get_bad_signal is missing. *)
BadSignalFirstFour(b) ==
  IF b.setted \cap {"INT", "ILL", "ABRT", "FPE"} = {} THEN None
  ELSE CHOOSE s \in b.setted \cap {"INT", "ILL", "ABRT", "FPE"} : TRUE

BadSignal(b) ==
  IF b.setted \cap Bad = {} THEN None
  ELSE BadOrder[CHOOSE i \in DOMAIN BadOrder :
                  /\ BadOrder[i] \in b.setted
                  /\ \A j \in 1 .. (i - 1) : BadOrder[j] \notin b.setted]

Rank(s) == CHOOSE i \in DOMAIN Order : Order[i] = s

(* The signal handle_all_signals delivers to a handler: the first pending  *)
(* one that has a handler, and the pending ones it goes through before.    *)
Handled(b) == {s \in Pending(b) \ Special : b.actions[s].handler # "null"}

FirstHandled(b) ==
  IF Handled(b) = {} THEN None
  ELSE CHOOSE s \in Handled(b) : \A r \in Handled(b) : Rank(s) <= Rank(r)

Passed(b) ==
  {s \in Pending(b) : FirstHandled(b) # None => Rank(s) < Rank(FirstHandled(b))}

(* freeze, cont and kill for the pending signals passed, in their order:   *)
(* of STOP and CONT together the later decides. KILL stays set.            *)
Defaults(b) ==
  LET stop == "STOP" \in Passed(b)
      cont == "CONT" \in Passed(b)
  IN  [b EXCEPT !.setted = @ \ (Passed(b) \cap {"STOP", "CONT"}),
                !.killed = @ \/ Passed(b) \cap {"KILL", "DEF"} # {},
                !.frozen = CASE stop /\ cont -> Rank("CONT") < Rank("STOP")
                             [] stop -> TRUE
                             [] cont -> FALSE
                             [] OTHER -> @]

(* handle_all_signals: the new control block and root trap context. *)
HandleAll(b, c) ==
  LET d == Defaults(b)
      s == FirstHandled(b)
  IN  IF s = None THEN [scb |-> d, ctx |-> c]
      ELSE [scb |-> [d EXCEPT !.setted = @ \ {s}, !.handling = s, !.backup = c],
            ctx |-> [pc |-> s, a0 |-> s]]

(* rollback: the handled signal is removed even if it was set again. *)
Rollback(b) ==
  IF b.handling = None \/ b.backup = None
  THEN [b EXCEPT !.handling = None, !.backup = None]
  ELSE [b EXCEPT !.handling = None, !.backup = None, !.setted = @ \ {b.handling}]

-----------------------------------------------------------------------------
(* The end of a trap. *)

(* exit_current_and_run_other_task: the root task takes the process along. *)
Leave(t, places, c) ==
  LET ends == {u \in Thread : u = t \/ (t = Root /\ places[u] \notin {"none", "gone"})}
  IN  /\ at' = [u \in Thread |-> IF u \in ends THEN "gone" ELSE places[u]]
      /\ code' = [u \in Thread |-> IF u \in ends THEN c ELSE code[u]]

(* Variant: a bad signal keeps the task in the loop. *)
EndTrapWaits(t, b, c, places) ==
  LET h == HandleAll(b, c)
  IN  /\ scb' = h.scb
      /\ ctx' = h.ctx
      /\ at' = [places EXCEPT ![t] = IF h.scb.frozen \/ BadSignal(h.scb) # None
                                    THEN "trap" ELSE "user"]
      /\ UNCHANGED <<code, kernel>>

(* handle_current_task_signals and what trap_handler does with its answer. *)
(* A frozen thread is suspended inside the loop and comes back to it.      *)
EndTrap(t, b, c, places) ==
  LET h == HandleAll(b, c)
  IN  /\ scb' = h.scb
      /\ ctx' = h.ctx
      /\ IF h.scb.frozen /\ ~h.scb.killed
         THEN at' = [places EXCEPT ![t] = "trap"] /\ code' = code
         ELSE IF BadSignal(h.scb) # None THEN Leave(t, places, BadSignal(h.scb))
         ELSE at' = [places EXCEPT ![t] = "user"] /\ code' = code
      /\ kernel' = kernel

(* A system call of t is done: its result goes to a0 of t's context. *)
Result(t, c) == IF t = Root THEN [c EXCEPT !.a0 = "ret"] ELSE c

InUser(t) == kernel = "running" /\ at[t] = "user"

CpuFree == kernel = "running" /\ \A t \in Thread : at[t] # "user"

(* The thread's first switch goes to trap_return: no signal is looked at.  *)
Start(t) ==
  /\ CpuFree
  /\ at[t] = "fresh"
  /\ at' = [at EXCEPT ![t] = "user"]
  /\ UNCHANGED <<scb, ctx, code, kernel>>

(* The timer interrupt suspends the thread inside its trap. *)
Timer(t) ==
  /\ InUser(t)
  /\ at' = [at EXCEPT ![t] = "trap"]
  /\ UNCHANGED <<scb, ctx, code, kernel>>

Resume(t) ==
  /\ CpuFree
  /\ at[t] = "trap"
  /\ EndTrap(t, scb, ctx, at)

(* A system call that suspends or blocks inside: sleep, read, yield, lock. *)
CallSuspends(t) ==
  /\ InUser(t)
  /\ at' = [at EXCEPT ![t] = "syscall"]
  /\ ctx' = IF t = Root THEN [ctx EXCEPT !.a0 = "arg"] ELSE ctx
  /\ UNCHANGED <<scb, code, kernel>>

CallReturns(t) ==
  /\ CpuFree
  /\ at[t] = "syscall"
  /\ EndTrap(t, scb, Result(t, ctx), at)

-----------------------------------------------------------------------------
(* The system calls about signals, and the faults that raise one. *)

(* sys_kill of the own process; setting a signal twice only returns -1.    *)
Kill(t, s) ==
  /\ InUser(t)
  /\ EndTrap(t, [scb EXCEPT !.setted = @ \cup {s}], Result(t, ctx), at)

(* A memory fault or an illegal instruction; try_kill's error is unwrapped. *)
Fault(t, s) ==
  /\ InUser(t)
  /\ s \in {"SEGV", "ILL"}
  /\ IF s \in scb.setted
     THEN kernel' = "panicked" /\ UNCHANGED <<scb, ctx, at, code>>
     ELSE EndTrap(t, [scb EXCEPT !.setted = @ \cup {s}], ctx, at)

(* sys_sig_action; KILL and STOP are refused. *)
SigAction(t, s, handler, mask) ==
  /\ InUser(t)
  /\ EndTrap(t, IF s \in {"KILL", "STOP"} THEN scb
                ELSE [scb EXCEPT !.actions[s] = [handler |-> handler, mask |-> mask]],
             Result(t, ctx), at)

SigProcMask(t, mask) ==
  /\ InUser(t)
  /\ EndTrap(t, [scb EXCEPT !.masked = mask], Result(t, ctx), at)

(* sys_sig_return: the backup goes to the root task, and its a0 is the      *)
(* result of the call.                                                     *)
SigReturn(t) ==
  /\ InUser(t)
  /\ EndTrap(t, Rollback(scb),
             IF scb.handling = None \/ scb.backup = None THEN Result(t, ctx) ELSE scb.backup,
             at)

(* sys_thread_create by the root task; a kill of another process and every *)
(* other failing call ends the thread.                                     *)
ThreadCreate(t) ==
  /\ InUser(Root)
  /\ at[t] = "none"
  /\ EndTrap(Root, scb, Result(Root, ctx), [at EXCEPT ![t] = "fresh"])

Exit(t) ==
  /\ InUser(t)
  /\ Leave(t, at, "other")
  /\ UNCHANGED <<scb, ctx, kernel>>

Next ==
  \E t \in Thread :
    \/ Start(t) \/ Timer(t) \/ Resume(t) \/ CallSuspends(t) \/ CallReturns(t)
    \/ SigReturn(t) \/ ThreadCreate(t) \/ Exit(t)
    \/ \E mask \in Masks : SigProcMask(t, mask)
    \/ \E s \in Signal : Kill(t, s) \/ Fault(t, s)
    \/ \E s \in Actions, handler \in {"null", "set"}, mask \in Masks :
         SigAction(t, s, handler, mask)

Spec == Init /\ [][Next]_vars

(* The timer interrupts user code, and the ready queue is a queue: every   *)
(* thread that waits for the processor gets it again and again. The system *)
(* calls that suspend here are those that end.                             *)
Fairness ==
  \A t \in Thread : /\ WF_vars(Timer(t))
                    /\ SF_vars(Start(t) \/ Resume(t) \/ CallReturns(t))

FairSpec == Spec /\ Fairness

-----------------------------------------------------------------------------

(* Type invariant. *)
TypeOK ==
  /\ scb \in [handling : Signal \cup {None}, setted : SUBSET Signal, masked : SUBSET Signal,
              backup : Context \cup {None}, killed : BOOLEAN, frozen : BOOLEAN,
              actions : [Signal -> [handler : {"null", "set"}, mask : SUBSET Signal]]]
  /\ ctx \in Context
  /\ at \in [Thread -> {"none", "fresh", "user", "trap", "syscall", "gone"}]
  /\ code \in [Thread -> Signal \cup {"other", None}]
  /\ kernel \in {"running", "panicked"}

(* The context that the first handler interrupted: it is the root task's,  *)
(* or the one that sig_return will bring back.                             *)
MainKept(b, c) == c.pc = "main" \/ (b.backup # None /\ b.backup.pc = "main")

(* There is one trap_ctx_backup for the whole process, and any thread's    *)
(* trap may deliver a signal or call sig_return. The interrupted program   *)
(* is lost for good in one way only: a second signal is delivered while a  *)
(* handler runs whose action does not mask it, and backup overwrites what  *)
(* it saved before. A program all of whose handlers mask every handled     *)
(* signal never loses it.                                                  *)
LostByNesting ==
  [][MainKept(scb, ctx) /\ ~MainKept(scb', ctx')
       => /\ scb.handling # None
          /\ scb'.handling \notin scb'.actions[scb.handling].mask]_vars

(* A bad signal is decided: it is given to a handler, or the root task     *)
(* ends, also if another thread met the signal and exited alone. It stays  *)
(* undecided only in a frozen process, or when a second fault with the     *)
(* same signal comes before the root task runs, which panics the kernel    *)
(* (handler_riscv.rs:160, and KernelContinues below).                      *)
BadSignalDecided ==
  \A s \in Signal \cap Bad :
    (s \in scb.setted) ~> \/ s \notin scb.setted \/ at[Root] = "gone"
                          \/ scb.frozen \/ kernel = "panicked"

(* The end of every trap, suspended on the way or not, takes a thread back *)
(* to user mode only when no bad signal is set and the process is not      *)
(* frozen, or killed at the same time: handle_current_task_signals looks   *)
(* again after each suspension. A fresh thread is not covered: its first   *)
(* switch goes to trap_return and it enters user mode whatever is set,     *)
(* also in a frozen process.                                               *)
ReturnsClean ==
  [][\A t \in Thread :
       kernel' = "running" /\ at'[t] = "user" /\ at[t] # "fresh"
         => /\ scb'.setted \cap Bad = {}
            /\ scb'.frozen => scb'.killed]_vars

-----------------------------------------------------------------------------
(* What comments of the code say and the model refutes (see the README).   *)

(* "If killed is true, the current task will be exit in the after". *)
KilledExits == scb.killed ~> (at[Root] = "gone")

(* "The mask of the signals which should not be active": a thread does not *)
(* end because of a signal that is masked.                                 *)
MaskedInactive ==
  [][\A t \in Thread :
       code'[t] # code[t] /\ code'[t] \in Bad => code'[t] \notin scb'.masked]_vars

(* "If frozen is true, the current task will stop running until receive    *)
(* CONT signal": no thread of a frozen process is in user mode.            *)
FrozenStops == scb.frozen /\ ~scb.killed => \A t \in Thread : at[t] # "user"

(* "The backup value of normal trap context saved when handing signal". *)
NormalSaved == scb.backup # None => scb.backup.pc = "main"

(* sig_return gives the interrupted program its own a0 back, so that it    *)
(* resumes normal execution: what it sees there is the result of its call. *)
ResumesNormally ==
  at[Root] = "user" /\ ctx.pc = "main" => ctx.a0 = "ret"

(* An exception in the application is the application's: the kernel        *)
(* "will kill the application and continue".                               *)
KernelContinues == kernel = "running"

=============================================================================
