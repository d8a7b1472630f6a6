----------------------------- MODULE Lifecycle -----------------------------
(***************************************************************************)
(* Processes and threads from birth to the wait that frees them            *)
(* (task/model.rs, syscall/process.rs, syscall/task.rs): fork, thread      *)
(* creation, exit of a thread, exit of a root task, which ends the process *)
(* and every process below it, waiting for either, and the reference       *)
(* counts the kernel asserts on the way.                                   *)
(*                                                                         *)
(* The ready queue is a set here: its order decides nothing about this     *)
(* state (Scheduler models the order).                                     *)
(***************************************************************************)
EXTENDS Naturals, FiniteSets

CONSTANTS
  Pid,          \* process ids, each naming a control block while in use
  InitPid,      \* the initial process
  Tcb,          \* task control blocks
  None,
  MaxTid,       \* MAX_TID_COUNT
  Codes,        \* exit codes the programs use
  Calls         \* what the programs do: see LifecycleAssumption

ASSUME LifecycleAssumption ==
  /\ IsFiniteSet(Pid) /\ InitPid \in Pid
  /\ None \notin Pid \cup Tcb \cup Codes \cup {"-1"}
  /\ MaxTid \in Nat \ {0}
  /\ Calls \subseteq {"sleep", "sync", "read", "init exits"}

VARIABLES
  pstate,    \* [Pid -> "free" | "live" | "zombie"]
  parent,    \* the Weak to the parent process
  children,  \* childrens
  pcode,     \* exit_code of the process
  tasks,     \* [Pid -> [tid -> task]]: the tasks of each process
  status,    \* TaskStatus of each control block
  tcode,     \* exit_code of each task
  current,
  ready,     \* tasks in the ready queue
  asleep,    \* tasks in the timer heap
  inRead,    \* ready tasks suspended inside sys_read, which keeps its own Arc
  failed,    \* the current system call has returned Err: the trap handler ends its task
  kernel     \* "running", or the assertion that failed

vars == <<pstate, parent, children, pcode, tasks, status, tcode, current,
          ready, asleep, inRead, failed, kernel>>

Tid == 0 .. (MaxTid - 1)
RootTid == 0
ErrCode == "-1"

Init ==
  \E root \in Tcb :
    /\ pstate = [p \in Pid |-> IF p = InitPid THEN "live" ELSE "free"]
    /\ parent = [p \in Pid |-> None]
    /\ children = [p \in Pid |-> {}]
    /\ pcode = [p \in Pid |-> None]
    /\ tasks = [p \in Pid |-> [i \in Tid |-> IF p = InitPid /\ i = RootTid THEN root ELSE None]]
    /\ status = [t \in Tcb |-> IF t = root THEN "Ready" ELSE "Zombie"]
    /\ tcode = [t \in Tcb |-> None]
    /\ current = None
    /\ ready = {root}
    /\ asleep = {} /\ inRead = {}
    /\ failed = "no"
    /\ kernel = "running"

-----------------------------------------------------------------------------

One(cond) == IF cond THEN 1 ELSE 0

(* Arc::strong_count of a task, without the locals of the running handler. *)
Strong(t) ==
  Cardinality({x \in Pid \X Tid : tasks[x[1]][x[2]] = t})
  + One(current = t) + One(t \in ready) + One(t \in asleep) + One(t \in inRead)

TasksOf(p) == {tasks[p][i] : i \in Tid} \ {None}

ProcessOf(t) == CHOOSE p \in Pid : t \in TasksOf(p)

(* is_zombie of a process: it has no task that is not a zombie. *)
IsZombie(p) == \A t \in TasksOf(p) : status[t] = "Zombie"

IsRoot(t) == tasks[ProcessOf(t)][RootTid] = t

(* tids whose IdTracker is alive: a zombie has dropped its own. *)
UsedTids(p) == {i \in Tid : tasks[p][i] # None /\ status[tasks[p][i]] # "Zombie"}

(* The allocator hands out the smallest id nobody owns. *)
NewTid(p) == CHOOSE i \in Tid \ UsedTids(p) : \A j \in Tid \ UsedTids(p) : i <= j

(* A process and everything below it, the least set with p that has the    *)
(* children of its members: mark_zombie calls itself for each child.       *)
Below(p) ==
  {q \in Pid : \A S \in SUBSET Pid :
                 (p \in S /\ \A r \in S : children[r] \subseteq S) => q \in S}

(* A task runs user code and may trap. *)
InUser == kernel = "running" /\ current # None /\ current \notin inRead /\ failed = "no"

-----------------------------------------------------------------------------
(* The end of tasks and processes. *)

(* Variant: the exit code is not stored. *)
ThreadEndNoCode(t, code) ==
  /\ status' = [status EXCEPT ![t] = "Zombie"]
  /\ failed' = "no"
  /\ current' = None
  /\ UNCHANGED <<pstate, parent, children, pcode, tasks, tcode, ready, asleep, inRead, kernel>>

(* exit_current_and_run_other_task for a task that is not the root: only   *)
(* its user resource goes, the control block waits for wait_tid.           *)
ThreadEnd(t, code) ==
  /\ status' = [status EXCEPT ![t] = "Zombie"]
  /\ tcode' = [tcode EXCEPT ![t] = code]
  /\ failed' = "no"
  /\ current' = None
  /\ asleep' = asleep \ {t}
  /\ UNCHANGED <<pstate, parent, children, pcode, tasks, ready, inRead, kernel>>

(* The tasks mark_zombie ends, and its assertion that each of them is held *)
(* by the map, by mark_zombie's own list and by exactly one queue.         *)
Ended(procs) == {t \in UNION {TasksOf(p) : p \in procs} : status[t] # "Zombie"}

(* Variant: without the assertion. *)
CountsTrusted(procs) == TRUE

CountsAsserted(procs) == \A t \in Ended(procs) : Strong(t) + 1 = 3

Panic(reason) ==
  /\ kernel' = reason
  /\ UNCHANGED <<pstate, parent, children, pcode, tasks, status, tcode, current,
                 ready, asleep, inRead, failed>>

(* Variant: the children are not given to the initial process. *)
MarkZombieOrphans(p, procs, code) ==
  /\ status' = [t \in Tcb |-> IF t \in Ended(procs) THEN "Zombie" ELSE status[t]]
  /\ tcode' = [t \in Tcb |-> IF t \in Ended(procs) THEN code ELSE tcode[t]]
  /\ tasks' = [q \in Pid |-> IF q \in procs THEN [i \in Tid |-> None] ELSE tasks[q]]
  /\ pcode' = [q \in Pid |-> IF q \in procs THEN code ELSE pcode[q]]
  /\ pstate' = [q \in Pid |-> IF q \in procs THEN "zombie" ELSE pstate[q]]
  /\ children' = [q \in Pid |-> IF q \in procs THEN {} ELSE children[q]]
  /\ failed' = "no"
  /\ current' = None
  /\ UNCHANGED <<parent, ready, asleep, inRead, kernel>>

(* mark_zombie of p, whose root task exits, and of procs \ {p} below it.   *)
(* Children that are zombies already are marked again.                     *)
MarkZombie(p, procs, code) ==
  /\ status' = [t \in Tcb |-> IF t \in Ended(procs) THEN "Zombie" ELSE status[t]]
  /\ tcode' = [t \in Tcb |-> IF t \in Ended(procs) THEN code ELSE tcode[t]]
  /\ tasks' = [q \in Pid |-> IF q \in procs THEN [i \in Tid |-> None] ELSE tasks[q]]
  /\ pcode' = [q \in Pid |-> IF q \in procs THEN code ELSE pcode[q]]
  /\ pstate' = [q \in Pid |-> IF q \in procs THEN "zombie" ELSE pstate[q]]
  /\ parent' = [q \in Pid |-> IF q \in procs \ {p} THEN InitPid ELSE parent[q]]
  /\ children' = [q \in Pid |-> CASE q \in procs -> {}
                                  [] q = InitPid /\ q \notin procs -> children[q] \cup (procs \ {p})
                                  [] OTHER -> children[q]]
  /\ failed' = "no"
  /\ current' = None
  /\ asleep' = asleep \ {current}
  /\ UNCHANGED <<ready, inRead, kernel>>

ProcessEnd(p, procs, code) ==
  /\ p = InitPid => "init exits" \in Calls
  /\ IF ~CountsAsserted(procs) THEN Panic("strong count in mark_zombie")
     ELSE IF p = InitPid /\ procs # {p} THEN Panic("double borrow of INIT_PROC")
     ELSE MarkZombie(p, procs, code)

(* Variant: the root task exits like any other. *)
ExitAsThread(code) == ThreadEnd(current, code)

(* sys_exit, a bad signal, or an error of a system call: those that leave   *)
(* nothing behind end the task with ErrCode here. The timer of the task is *)
(* removed, and then nobody but the map and the processor may hold it.     *)
ExitWith(code) ==
  IF Strong(current) - One(current \in asleep) # 2 THEN Panic("strong count in exit")
  ELSE IF IsRoot(current) THEN ProcessEnd(ProcessOf(current), Below(ProcessOf(current)), code)
  ELSE ThreadEnd(current, code)

Exit(code) == InUser /\ ExitWith(code)

-----------------------------------------------------------------------------
(* The beginning of tasks and processes. *)

(* sys_fork: a task that is not the root gets Err(ForkWithNoRootTask). *)
Fork(q, new) ==
  /\ InUser
  /\ pstate[q] = "free"
  /\ Strong(new) = 0
  /\ IF ~IsRoot(current) THEN ExitWith(ErrCode)
     ELSE /\ pstate' = [pstate EXCEPT ![q] = "live"]
          /\ parent' = [parent EXCEPT ![q] = ProcessOf(current)]
          /\ children' = [children EXCEPT ![ProcessOf(current)] = @ \cup {q}]
          /\ pcode' = [pcode EXCEPT ![q] = None]
          /\ tasks' = [tasks EXCEPT ![q][RootTid] = new]
          /\ status' = [status EXCEPT ![new] = "Ready"]
          /\ tcode' = [tcode EXCEPT ![new] = None]
          /\ ready' = ready \cup {new}
          /\ UNCHANGED <<current, asleep, inRead, failed, kernel>>

(* fork_process fails after process.fork() has put the child into          *)
(* childrens: the child has no task, and the error ends its parent.        *)
ForkFails(q) ==
  /\ InUser
  /\ pstate[q] = "free"
  /\ IsRoot(current)
  /\ ProcessEnd(ProcessOf(current), Below(ProcessOf(current)) \cup {q}, ErrCode)

(* sys_thread_create: the new task is inserted under its tid, over the     *)
(* zombie that had the tid before if nobody has waited for it.             *)
ThreadCreate(new) ==
  /\ InUser
  /\ Strong(new) = 0
  /\ LET p == ProcessOf(current)
     IN  IF ~IsRoot(current) \/ UsedTids(p) = Tid THEN ExitWith(ErrCode)
         ELSE /\ tasks' = [tasks EXCEPT ![p][NewTid(p)] = new]
              /\ status' = [status EXCEPT ![new] = "Ready"]
              /\ tcode' = [tcode EXCEPT ![new] = None]
              /\ ready' = ready \cup {new}
              /\ UNCHANGED <<pstate, parent, children, pcode, current, asleep, inRead, failed, kernel>>

-----------------------------------------------------------------------------
(* Waiting. *)

(* The pointer for the exit code is translated after the zombie has been   *)
(* taken out: when that fails the system call does, and the code is lost.  *)
Answer(ok) == failed' = IF ok THEN "no" ELSE "yes"

(* Variant: wait_pid looks for a zombie in the whole system. *)
WaitPidAny(q, ok) ==
  /\ InUser
  /\ \E p \in Pid : /\ q \in children[p]
                    /\ IsZombie(q)
                    /\ children' = [children EXCEPT ![p] = @ \ {q}]
  /\ pstate' = [pstate EXCEPT ![q] = "free"]
  /\ parent' = [parent EXCEPT ![q] = None]
  /\ pcode' = [pcode EXCEPT ![q] = None]
  /\ Answer(ok)
  /\ UNCHANGED <<tasks, status, tcode, current, ready, asleep, inRead, kernel>>

(* sys_wait_pid finds a zombie child: its control block is dropped. The    *)
(* count it asserts, of the child, is one: only a task inside sys_read has *)
(* another Arc of its process, and such a process does not end.            *)
WaitPid(q, ok) ==
  /\ InUser
  /\ q \in children[ProcessOf(current)]
  /\ IsZombie(q)
  /\ children' = [children EXCEPT ![ProcessOf(current)] = @ \ {q}]
  /\ pstate' = [pstate EXCEPT ![q] = "free"]
  /\ parent' = [parent EXCEPT ![q] = None]
  /\ pcode' = [pcode EXCEPT ![q] = None]
  /\ Answer(ok)
  /\ UNCHANGED <<tasks, status, tcode, current, ready, asleep, inRead, kernel>>

(* sys_wait_tid finds a zombie thread, and asserts that nobody else holds  *)
(* it.                                                                     *)
WaitTid(i, ok) ==
  /\ InUser
  /\ LET p == ProcessOf(current)
         t == tasks[p][i]
     IN  /\ t # None
         /\ status[t] = "Zombie"
         /\ IF Strong(t) # 1 THEN Panic("strong count in wait_tid")
            ELSE /\ tasks' = [tasks EXCEPT ![p][i] = None]
                 /\ Answer(ok)
                 /\ UNCHANGED <<pstate, parent, children, pcode, status, tcode,
                                current, ready, asleep, inRead, kernel>>

(* The trap handler ends the task whose system call has failed. *)
ExitFailed ==
  /\ kernel = "running" /\ failed = "yes"
  /\ ExitWith(ErrCode)

-----------------------------------------------------------------------------
(* Where a task may be when its process ends. *)

procVars == <<pstate, parent, children, pcode, tasks, tcode, failed, kernel>>

Schedule ==
  /\ kernel = "running"
  /\ current = None
  /\ \E t \in ready :
       /\ ready' = ready \ {t}
       /\ IF status[t] = "Zombie" THEN UNCHANGED <<current, status>>
          ELSE current' = t /\ status' = [status EXCEPT ![t] = "Running"]
  /\ UNCHANGED <<asleep, inRead>>
  /\ UNCHANGED procVars

(* The time slice ends, or the task yields. *)
Suspend ==
  /\ InUser
  /\ ready' = ready \cup {current}
  /\ status' = [status EXCEPT ![current] = "Ready"]
  /\ current' = None
  /\ UNCHANGED <<asleep, inRead>>
  /\ UNCHANGED procVars

(* sys_read of an empty pipe or console suspends with its own Arc of the   *)
(* task, again and again until there is something to read.                 *)
ReadSuspend ==
  /\ "read" \in Calls
  /\ kernel = "running" /\ current # None /\ failed = "no"
  /\ ready' = ready \cup {current}
  /\ inRead' = inRead \cup {current}
  /\ status' = [status EXCEPT ![current] = "Ready"]
  /\ current' = None
  /\ UNCHANGED asleep
  /\ UNCHANGED procVars

ReadReturn ==
  /\ kernel = "running" /\ current \in inRead
  /\ inRead' = inRead \ {current}
  /\ UNCHANGED <<status, current, ready, asleep>>
  /\ UNCHANGED procVars

(* sys_sleep moves the task into the heap. *)
Sleep ==
  /\ "sleep" \in Calls
  /\ InUser
  /\ asleep' = asleep \cup {current}
  /\ status' = [status EXCEPT ![current] = "Blocked"]
  /\ current' = None
  /\ UNCHANGED <<ready, inRead>>
  /\ UNCHANGED procVars

(* Variant: peek() instead of pop(). *)
TimerExpiresKept(t) ==
  /\ kernel = "running"
  /\ t \in asleep
  /\ status[t] = "Blocked"
  /\ ready' = ready \cup {t}
  /\ status' = [status EXCEPT ![t] = "Ready"]
  /\ UNCHANGED <<current, asleep, inRead>>
  /\ UNCHANGED procVars

(* check_timers, in schedule or in the timer interrupt of the current task, *)
(* wakes a sleeper or drops a zombie.                                      *)
TimerExpires(t) ==
  /\ kernel = "running" /\ (current = None \/ InUser)
  /\ t \in asleep
  /\ asleep' = asleep \ {t}
  /\ IF status[t] = "Zombie" THEN UNCHANGED <<ready, status>>
     ELSE ready' = ready \cup {t} /\ status' = [status EXCEPT ![t] = "Ready"]
  /\ UNCHANGED <<current, inRead>>
  /\ UNCHANGED procVars

(* The task blocks on a mutex, semaphore or condition variable, which keep *)
(* only a Weak: nothing but the map holds the task.                        *)
SyncBlock ==
  /\ "sync" \in Calls
  /\ InUser
  /\ status' = [status EXCEPT ![current] = "Blocked"]
  /\ current' = None
  /\ UNCHANGED <<ready, asleep, inRead>>
  /\ UNCHANGED procVars

(* Another thread of the process wakes it. *)
SyncWake(t) ==
  /\ InUser
  /\ t \in TasksOf(ProcessOf(current)) \ asleep
  /\ status[t] = "Blocked"
  /\ ready' = ready \cup {t}
  /\ status' = [status EXCEPT ![t] = "Ready"]
  /\ UNCHANGED <<current, asleep, inRead>>
  /\ UNCHANGED procVars

OtherStep ==
  \/ \E code \in Codes \cup {ErrCode} : Exit(code)
  \/ \E q \in Pid : ForkFails(q) \/ \E new \in Tcb : Fork(q, new)
  \/ \E new \in Tcb : ThreadCreate(new)
  \/ \E ok \in BOOLEAN : (\E q \in Pid : WaitPid(q, ok)) \/ (\E i \in Tid : WaitTid(i, ok))
  \/ ExitFailed
  \/ Schedule \/ Suspend \/ Sleep \/ SyncBlock
  \/ \E t \in Tcb : TimerExpires(t) \/ SyncWake(t)

Next == OtherStep \/ ReadSuspend \/ ReadReturn

Spec == Init /\ [][Next]_vars

-----------------------------------------------------------------------------

(* Type invariant. *)
TypeOK ==
  /\ pstate \in [Pid -> {"free", "live", "zombie"}]
  /\ parent \in [Pid -> Pid \cup {None}]
  /\ children \in [Pid -> SUBSET Pid]
  /\ pcode \in [Pid -> Codes \cup {ErrCode, None}]
  /\ tasks \in [Pid -> [Tid -> Tcb \cup {None}]]
  /\ status \in [Tcb -> {"Ready", "Running", "Blocked", "Zombie"}]
  /\ tcode \in [Tcb -> Codes \cup {ErrCode, None}]
  /\ current \in Tcb \cup {None}
  /\ ready \subseteq Tcb /\ asleep \subseteq Tcb /\ inRead \subseteq Tcb
  /\ failed \in {"no", "yes"}

(* Every process that is not the initial one has exactly one parent that   *)
(* lists it, and that parent is alive: whatever order processes fork and   *)
(* exit in, no process becomes one that nobody can wait for, and a zombie  *)
(* has no children left.                                                   *)
FamilyTree ==
  \A p \in Pid \ {InitPid} :
    IF pstate[p] = "free" THEN \A q \in Pid : p \notin children[q]
    ELSE /\ \A q \in Pid : (p \in children[q]) <=> (parent[p] = q)
         /\ parent[p] \in Pid
         /\ pstate[parent[p]] = "live"
         /\ pstate[p] = "zombie" => children[p] = {} /\ TasksOf(p) = {}

(* A zombie process has an exit code for wait_pid to read, and a zombie    *)
(* thread has one for wait_tid: neither unwrap in them fails.              *)
CodeToRead ==
  /\ \A p \in Pid : pstate[p] # "free" /\ IsZombie(p) => pcode[p] # None
  /\ \A p \in Pid : \A t \in TasksOf(p) : status[t] = "Zombie" => tcode[t] # None

(* is_zombie looks at the tasks, the exit path at the root task only: the  *)
(* two agree. A process whose root task has not exited is never taken for  *)
(* a zombie by wait_pid, whatever its threads do, and one whose root task  *)
(* has exited always is.                                                   *)
RootKeepsProcess ==
  \A p \in Pid \ {q \in Pid : pstate[q] = "free"} :
    /\ IsZombie(p) <=> pstate[p] = "zombie"
    /\ pstate[p] = "live" => /\ tasks[p][RootTid] # None
                             /\ status[tasks[p][RootTid]] # "Zombie"

(* The reference counts the kernel asserts in mark_zombie (model.rs:1341), *)
(* in wait_tid (model.rs:459) and in exit (process.rs:145), and the borrow *)
(* of INIT_PROC, never fail.                                               *)
AssertionsHold == kernel = "running"

(* They fail only in two situations: mark_zombie meets a task that no      *)
(* queue holds, because it is blocked on a mutex, semaphore or condition   *)
(* variable, or that holds an Arc of itself inside sys_read; and the root  *)
(* task of INIT_PROC exits while the process has children.  Everywhere     *)
(* else, with threads running, queued, asleep or unreaped, they hold.      *)
PanicsExplained ==
  \/ kernel = "running"
  \/ /\ kernel = "strong count in mark_zombie"
     /\ \E t \in Ended(Below(ProcessOf(current))) :
          t \in inRead \/ (status[t] = "Blocked" /\ t \notin asleep)
  \/ /\ kernel = "double borrow of INIT_PROC"
     /\ ProcessOf(current) = InitPid

(* The code of a zombie process stays as it is until its parent waits for  *)
(* it, or until its parent ends, whose code then replaces it               *)
(* (model.rs:1344).                                                        *)
ProcessCodeKept(p) ==
  pstate[p] = "zombie" =>
    \/ pstate'[p] = "zombie" /\ pcode'[p] = pcode[p]
    \/ pstate'[parent[p]] = "zombie"
    \/ current \in TasksOf(parent[p]) /\ pstate'[p] = "free"

(* The code of a zombie thread stays until a thread of its process waits   *)
(* for it, until the root task creates a thread that gets its tid          *)
(* (model.rs:1247), or until its process ends.                             *)
ThreadCodeKept(p, i) ==
  tasks[p][i] # None /\ status[tasks[p][i]] = "Zombie" =>
    \/ /\ tasks'[p][i] = tasks[p][i]
       /\ status'[tasks[p][i]] = "Zombie" /\ tcode'[tasks[p][i]] = tcode[tasks[p][i]]
    \/ pstate'[p] = "zombie"
    \/ current \in TasksOf(p) /\ tasks'[p][i] = None
    \/ current = tasks[p][RootTid] /\ status'[tasks'[p][i]] = "Ready"

(* No other step of any process, in any order, loses or changes an exit    *)
(* code that somebody may still wait for.                                  *)
CodesKept ==
  [][\A p \in Pid : ProcessCodeKept(p) /\ \A i \in Tid : ThreadCodeKept(p, i)]_vars

=============================================================================
