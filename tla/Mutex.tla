------------------------------- MODULE Mutex -------------------------------
(***************************************************************************)
(* sync/mutex.rs: a mutex, used by the threads of one process through      *)
(* sys_lock_mutex and sys_unlock_mutex.  sys_create_mutex makes it a       *)
(* blocking or a spinning one; the spinning one has neither next nor       *)
(* waiting, which stay empty.                                              *)
(***************************************************************************)
EXTENDS Processor

VARIABLES
  kind,      \* the type behind dyn Mutex
  locked,    \* the task that holds the mutex, a Weak
  next,      \* the waiter woken by the last unlock, a Weak
  waiting,   \* blocked tasks, Weaks
  holders    \* tasks between a lock() that returned Ok and their unlock()

mutexVars == <<kind, locked, next, waiting, holders>>

vars == <<current, ready, status, pc, kind, locked, next, waiting, holders>>

MutexInit ==
  /\ kind \in {"blocking", "spin"}
  /\ locked = NoTask
  /\ next = NoTask
  /\ waiting = <<>>
  /\ holders = {}

(* Task t may run one turn of the loop of lock(): it makes the system call,*)
(* or it goes on after the switch inside it.                               *)
AtLock(t) == current = t /\ t # NoTask /\ pc[t] \in {"user", "lock"}

(* Variant: lock() does not look who holds the mutex. *)
LockSteal(t) ==
  /\ AtLock(t)
  /\ next' = NoTask
  /\ locked' = t
  /\ holders' = holders \cup {t}
  /\ pc' = [pc EXCEPT ![t] = "user"]
  /\ UNCHANGED <<current, ready, status, kind, waiting>>

(* Variant: lock() does not clear next. *)
LockKeepsNext(t) ==
  /\ AtLock(t)
  /\ Upgrade(locked) = NoTask
  /\ locked' = t
  /\ holders' = holders \cup {t}
  /\ pc' = [pc EXCEPT ![t] = "user"]
  /\ UNCHANGED <<current, ready, status, kind, next, waiting>>

(* locked is empty, or the task it names is gone: take the mutex. *)
LockTake(t) ==
  /\ AtLock(t)
  /\ Upgrade(locked) = NoTask
  /\ next' = NoTask
  /\ locked' = t
  /\ holders' = holders \cup {t}
  /\ pc' = [pc EXCEPT ![t] = "user"]
  /\ UNCHANGED <<current, ready, status, kind, waiting>>

(* Another task holds it: a spinning mutex yields and tries again. *)
LockSpin(t) ==
  /\ AtLock(t)
  /\ kind = "spin"
  /\ Upgrade(locked) \notin {NoTask, t}
  /\ SuspendAt(t, "lock")
  /\ UNCHANGED mutexVars

(* A blocking one yields if this task was chosen as next, else it waits.   *)
LockWait(t) ==
  /\ AtLock(t)
  /\ kind = "blocking"
  /\ Upgrade(locked) \notin {NoTask, t}
  /\ IF Upgrade(next) = t
       THEN /\ SuspendAt(t, "lock")
            /\ UNCHANGED waiting
       ELSE /\ waiting' = Append(waiting, t)
            /\ WakeAndBlockAt(t, NoTask, "lock")
  /\ UNCHANGED <<kind, locked, next, holders>>

(* Err(DoubleLockMutex): the task exits holding the mutex. *)
LockTwice(t) ==
  /\ AtLock(t)
  /\ Upgrade(locked) = t
  /\ ExitOf(t)
  /\ holders' = holders \ {t}
  /\ UNCHANGED <<kind, locked, next, waiting>>

(* unlock(): wake one waiter unless one is already on its way. *)
Woken == IF Upgrade(next) = NoTask THEN PopLive(waiting) ELSE NoTask

(* Variant: unlock() does not remember whom it woke. *)
UnlockForgetsNext(t) ==
  /\ Upgrade(locked) \in {NoTask, t}
  /\ waiting' = IF Upgrade(next) = NoTask THEN RestLive(waiting) ELSE waiting
  /\ locked' = NoTask
  /\ holders' = holders \ {t}
  /\ UNCHANGED <<kind, next>>

UnlockMutex(t) ==
  /\ Upgrade(locked) \in {NoTask, t}
  /\ next' = IF Woken = NoTask THEN next ELSE Woken
  /\ waiting' = IF Upgrade(next) = NoTask THEN RestLive(waiting) ELSE waiting
  /\ locked' = NoTask
  /\ holders' = holders \ {t}
  /\ UNCHANGED kind

Unlock(t) ==
  /\ InUser(t)
  /\ UnlockMutex(t)
  /\ WakeAndReturn(t, Woken)

(* Err(DoubleUnlockMutex): somebody else holds it; the caller exits. *)
UnlockForeign(t) ==
  /\ InUser(t)
  /\ Upgrade(locked) \notin {NoTask, t}
  /\ ExitOf(t)
  /\ UNCHANGED mutexVars

(* sys_exit, or an error of another system call. *)
Exit(t) ==
  /\ InUser(t)
  /\ ExitOf(t)
  /\ holders' = holders \ {t}
  /\ UNCHANGED <<kind, locked, next, waiting>>

ProcStep(t) ==
  /\ \/ Preempt(t)
     \/ \E other \in Task : ThreadCreate(t, other) \/ Reap(t, other)
  /\ UNCHANGED <<kind, locked, next, waiting>>
  /\ holders' = {h \in holders : status'[h] # "Zombie"}

MutexStep(t) ==
  \/ LockTake(t) \/ LockSpin(t) \/ LockWait(t) \/ LockTwice(t)
  \/ Unlock(t) \/ UnlockForeign(t) \/ Exit(t)

ScheduleStep == Schedule /\ UNCHANGED mutexVars

Init == ProcInit /\ MutexInit

Next == ScheduleStep \/ \E t \in Task : MutexStep(t) \/ ProcStep(t)

Spec == Init /\ [][Next]_vars

-----------------------------------------------------------------------------

(* Type invariant. *)
TypeOK ==
  /\ ProcTypeOK({"user", "lock"})
  /\ kind \in {"blocking", "spin"}
  /\ locked \in Task \cup {NoTask}
  /\ next \in Task \cup {NoTask}
  /\ waiting \in Seq(Task)
  /\ holders \subseteq Task

(* A task that was told it has the mutex is the one the mutex names, so no *)
(* two tasks are inside at once, whatever mix of double locks, foreign     *)
(* unlocks, exits of the holder and reaped holders the process makes.      *)
HolderOwns == \A t \in holders : locked = t

(* The queue of the mutex holds exactly the tasks blocked in lock(), each  *)
(* once: a waiter is never dropped from it, never queued twice, and never  *)
(* woken while it stays queued.                                            *)
WaitersBlocked ==
  /\ NoRepeats(waiting)
  /\ \A t \in Task : (status[t] = "Blocked") <=> InSeq(t, waiting)

(* No lost wake-up: when nobody holds the mutex and tasks still wait for   *)
(* it, unlock() has made one of them runnable and next names it; that task *)
(* is still inside lock() and will try again.                              *)
NoLostWakeup ==
  (locked = NoTask /\ waiting # <<>>) =>
    /\ next # NoTask
    /\ status[next] \in {"Ready", "Running"}
    /\ pc[next] = "lock"

(* While a waiter is on its way the mutex is free.  This is why the branch *)
(* of lock() that yields to the task it is itself (mutex.rs:100-111) is    *)
(* never taken: lock() clears next in the step that sets locked.           *)
NextMeansFree == next # NoTask => locked = NoTask

(* Both mutexes implement the abstract one. *)
Abstract == INSTANCE AbstractMutex

RefinesAbstract == Abstract!AbsSpec

=============================================================================
