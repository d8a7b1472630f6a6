----------------------------- MODULE Processor -----------------------------
(***************************************************************************)
(* The processor and the ready queue as the threads of one process see     *)
(* them: task/process.rs, the ready half of task/scheduler.rs, and the     *)
(* system calls that create, end and reap a thread.                        *)
(*                                                                         *)
(* There is one hart and the kernel is never preempted: a trap taken in    *)
(* supervisor mode panics.  So a task changes hands only where the kernel  *)
(* calls switch_from, and everything between two switches is one step.     *)
(* pc says where a task goes on when it is scheduled again: "user", or a   *)
(* place inside the system call that gave the processor away.              *)
(*                                                                         *)
(* Tasks of other processes share the queue but touch none of this state,  *)
(* so they are left out; the root task is assumed not to exit here,        *)
(* because its exit ends the process and every object modelled above it.   *)
(***************************************************************************)
EXTENDS Naturals, Sequences

CONSTANTS
  Task,      \* task control blocks of the process, each used once
  Root,      \* the task with tid 0
  NoTask     \* None

ASSUME TaskAssumption == Root \in Task /\ NoTask \notin Task

VARIABLES
  current,   \* PROCESSOR.current
  ready,     \* TASK_SCHEDULER.ready
  status,    \* TaskStatus; "Unborn" before it exists, "Dropped" once freed
  pc         \* where the task goes on

procVars == <<current, ready, status, pc>>

ProcInit ==
  /\ current = NoTask
  /\ ready = <<Root>>
  /\ status = [t \in Task |-> IF t = Root THEN "Ready" ELSE "Unborn"]
  /\ pc = [t \in Task |-> "user"]

-----------------------------------------------------------------------------
(* Helpers of the handlers. *)

InSeq(t, seq) == \E i \in DOMAIN seq : seq[i] = t

(* Task t runs user code and may trap. *)
InUser(t) == current = t /\ t # NoTask /\ pc[t] = "user"

(* Weak::upgrade. *)
Upgrade(w) == IF w # NoTask /\ status[w] # "Dropped" THEN w ELSE NoTask

(* mark_suspended and put_read_task of a task that may be None. *)
Enqueue(w) == IF w = NoTask THEN ready ELSE Append(ready, w)

MarkReady(w) == IF w = NoTask THEN status ELSE [status EXCEPT ![w] = "Ready"]

(* while let Some(w) = queue.pop_front() { if let Some(t) = w.upgrade() .. *)
(* .. break }: the first living waiter, and what the loop leaves behind.   *)
LiveAt(queue) == {i \in DOMAIN queue : Upgrade(queue[i]) # NoTask}

FirstLive(queue) == CHOOSE i \in LiveAt(queue) : \A j \in LiveAt(queue) : i <= j

PopLive(queue) ==
  IF LiveAt(queue) = {} THEN NoTask ELSE queue[FirstLive(queue)]

RestLive(queue) ==
  IF LiveAt(queue) = {} THEN <<>>
  ELSE SubSeq(queue, FirstLive(queue) + 1, Len(queue))

(* suspend_current_and_run_other_task, to go on at where. *)
SuspendAt(t, where) ==
  /\ current' = NoTask
  /\ ready' = Append(ready, t)
  /\ status' = [status EXCEPT ![t] = "Ready"]
  /\ pc' = [pc EXCEPT ![t] = where]

(* The calling code wakes w (or None) and then calls                       *)
(* block_current_and_run_other_task, to go on at where.                    *)
WakeAndBlockAt(t, w, where) ==
  /\ current' = NoTask
  /\ ready' = Enqueue(w)
  /\ status' = [MarkReady(w) EXCEPT ![t] = "Blocked"]
  /\ pc' = [pc EXCEPT ![t] = where]

(* exit_current_and_run_other_task of a task that is not the root.         *)
ExitOf(t) ==
  /\ t # Root
  /\ current' = NoTask
  /\ status' = [status EXCEPT ![t] = "Zombie"]
  /\ pc' = [pc EXCEPT ![t] = "user"]
  /\ UNCHANGED ready

(* The system call wakes w (or None) and returns to the user.              *)
WakeAndReturn(t, w) ==
  /\ ready' = Enqueue(w)
  /\ status' = MarkReady(w)
  /\ pc' = [pc EXCEPT ![t] = "user"]
  /\ UNCHANGED current

-----------------------------------------------------------------------------
(* Steps that touch only the processor. *)

(* One turn of the loop of schedule(): zombies in the queue are skipped.   *)
Schedule ==
  /\ current = NoTask
  /\ ready # <<>>
  /\ ready' = Tail(ready)
  /\ IF status[Head(ready)] = "Zombie"
       THEN UNCHANGED <<current, status>>
       ELSE /\ current' = Head(ready)
            /\ status' = [status EXCEPT ![Head(ready)] = "Running"]
  /\ UNCHANGED pc

(* A timer interrupt in user mode, or sys_yield. *)
Preempt(t) == InUser(t) /\ SuspendAt(t, "user")

(* sys_thread_create; a task that is not the root gets                     *)
(* Err(ForkWithNoRootTask), and every Err of a system call exits the task. *)
ThreadCreate(t, new) ==
  /\ InUser(t)
  /\ status[new] = "Unborn"
  /\ IF t = Root THEN /\ ready' = Append(ready, new)
                      /\ status' = [status EXCEPT ![new] = "Ready"]
                      /\ UNCHANGED <<current, pc>>
                 ELSE ExitOf(t)

(* The last strong reference to a zombie task goes: sys_wait_tid removes   *)
(* it from the tasks of the process, or sys_thread_create gets its         *)
(* recycled tid and inserts the new task over it.                          *)
Reap(t, dead) ==
  /\ InUser(t)
  /\ status[dead] = "Zombie"
  /\ status' = [status EXCEPT ![dead] = "Dropped"]
  /\ UNCHANGED <<current, ready, pc>>

-----------------------------------------------------------------------------

ProcTypeOK(places) ==
  /\ current \in Task \cup {NoTask}
  /\ ready \in Seq(Task)
  /\ status \in [Task -> {"Unborn", "Ready", "Running", "Blocked", "Zombie", "Dropped"}]
  /\ pc \in [Task -> places]

NoRepeats(seq) == \A i, j \in DOMAIN seq : seq[i] = seq[j] => i = j

(* The ready queue and the processor hold each task where its status says, *)
(* and never twice: a task is Running iff it is current, Ready iff it is   *)
(* queued, and no wake-up queues a task that is already queued.  The       *)
(* asserts on Arc::strong_count in the trap handler and in exit count on   *)
(* exactly this.                                                           *)
Placement ==
  /\ NoRepeats(ready)
  /\ \A t \in Task : (status[t] = "Running") <=> (current = t)
  /\ \A t \in Task : (status[t] = "Ready") <=> InSeq(t, ready)

=============================================================================
