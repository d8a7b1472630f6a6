---------------------------- MODULE MutexProofs ----------------------------
(***************************************************************************)
(* Both mutexes keep their holder alone, lose no wake-up, and implement    *)
(* AbstractMutex, for every set of threads.                                *)
(*                                                                         *)
(* Then the same with a condition variable: each blocked task stands in    *)
(* one of the two queues, and wait() returns with the mutex.  The steps of *)
(* the mutex are those of the first part, with the tasks queued for a      *)
(* signal as the ones that are blocked elsewhere.                          *)
(***************************************************************************)
EXTENDS Condvar, ProcessorProofs

Places == {"user", "lock"}

(* A holder is alive and the mutex names it.  HolderOwns alone is not      *)
(* inductive: a holder that could be Dropped would let lock() succeed.     *)
HoldersAlive ==
  \A t \in holders : locked = t /\ status[t] \in {"Ready", "Running"}

(* The woken waiter is on its way through lock() and the mutex is free.    *)
NextInLock ==
  next # NoTask =>
    /\ locked = NoTask
    /\ status[next] \in {"Ready", "Running"}
    /\ pc[next] = "lock"

(* The queue of the mutex holds exactly the blocked tasks, each once, but  *)
(* for others, which are blocked elsewhere: nobody as long as mutexes are  *)
(* the only objects of the process, the waiters of a condition variable    *)
(* when it has one.                                                        *)
QueueBut(others) ==
  /\ NoRepeats(waiting)
  /\ \A t \in Task : (status[t] = "Blocked") <=> (InSeq(t, waiting) \/ t \in others)
  /\ \A t \in others : ~InSeq(t, waiting)

(* A blocked task goes on inside lock(). *)
BlockedInLock == \A t \in Task : status[t] = "Blocked" => pc[t] = "lock"

MInv(others) ==
  /\ TypeOK
  /\ Placement
  /\ QueueBut(others)
  /\ HoldersAlive
  /\ NextInLock
  /\ NoLostWakeup
  /\ BlockedInLock

(* MInv speaks of the processor through ProcInv. *)
LEMMA MInvProc ==
  ASSUME NEW others, MInv(others)
  PROVE  ProcInv(Places)
BY DEF MInv, TypeOK, Places, ProcInv

(* A mutex whose holder is alive is refused to everybody else. *)
LEMMA HolderSeen ==
  ASSUME NEW others, MInv(others), NEW h \in holders
  PROVE  Upgrade(locked) = h /\ h \in Task /\ h # NoTask
BY TaskAssumption DEF MInv, HoldersAlive, Upgrade, TypeOK

(* What unlock() takes from the queue: nobody if a waiter is already on    *)
(* its way or nobody waits, else the first waiter, which is blocked.       *)
LEMMA WokenWaiter ==
  ASSUME NEW others, MInv(others)
  PROVE  /\ next # NoTask => Woken = NoTask /\ Upgrade(next) # NoTask
         /\ next = NoTask /\ waiting = <<>> => Woken = NoTask /\ RestLive(waiting) = <<>>
         /\ next = NoTask /\ waiting # <<>> =>
              /\ Woken = Head(waiting)
              /\ RestLive(waiting) = Tail(waiting)
              /\ Woken \in Task
              /\ status[Woken] = "Blocked"
         /\ next = NoTask => Upgrade(next) = NoTask
         /\ Wakeable(Woken)
<1>1. /\ waiting \in Seq(Task)
      /\ \A t \in Task : InSeq(t, waiting) => status[t] # "Dropped"
  BY DEF MInv, TypeOK, QueueBut
<1>2. next # NoTask => Woken = NoTask /\ Upgrade(next) # NoTask
  BY TaskAssumption DEF MInv, NextInLock, TypeOK, Upgrade, Woken
<1>3. next = NoTask => Upgrade(next) = NoTask
  BY DEF Upgrade
<1>4. next = NoTask => Woken = PopLive(waiting)
  BY <1>3 DEF Woken
<1>5. /\ waiting = <<>> => PopLive(waiting) = NoTask /\ RestLive(waiting) = <<>>
      /\ waiting # <<>> => PopLive(waiting) = Head(waiting) /\ RestLive(waiting) = Tail(waiting)
  BY <1>1, PopLiveQueue
<1>6. waiting # <<>> => Head(waiting) \in Task /\ InSeq(Head(waiting), waiting)
  BY <1>1, TailQueue
<1>7. waiting # <<>> => Head(waiting) \in Task /\ status[Head(waiting)] = "Blocked"
  BY <1>6 DEF MInv, QueueBut
<1> QED
  BY <1>2, <1>3, <1>4, <1>5, <1>7 DEF Wakeable

-----------------------------------------------------------------------------
(* One lemma per step of the mutex. *)

(* lock() that takes the mutex. *)
LEMMA TakeStep ==
  ASSUME NEW others, MInv(others), NEW t \in Task, LockTake(t)
  PROVE  MInv(others)' /\ holders = {} /\ holders' = {t}
<1>1. holders = {}
  BY HolderSeen DEF LockTake
<1>2. status[t] = "Running" /\ t # NoTask
  BY DEF LockTake, AtLock, MInv, Placement
<1>3. TypeOK'
  BY DEF MInv, TypeOK, ProcTypeOK, LockTake
<1>4. Placement' /\ QueueBut(others)'
  BY DEF MInv, Placement, QueueBut, LockTake
<1>5. HoldersAlive' /\ NextInLock' /\ NoLostWakeup'
  BY <1>1, <1>2 DEF LockTake, HoldersAlive, NextInLock, NoLostWakeup
<1>6. BlockedInLock'
  BY <1>2 DEF MInv, BlockedInLock, TypeOK, ProcTypeOK, LockTake
<1> QED
  BY <1>1, <1>3, <1>4, <1>5, <1>6 DEF MInv, LockTake

(* lock() that waits: never through the branch for the chosen waiter.      *)
LEMMA WaitStep ==
  ASSUME NEW others, MInv(others), NEW t \in Task, LockWait(t)
  PROVE  MInv(others)' /\ holders' = holders
<1>1. locked # NoTask /\ next = NoTask /\ current = t /\ status[t] = "Running"
  BY DEF LockWait, AtLock, Upgrade, MInv, NextInLock, Placement
<1>2. Upgrade(next) # t
  BY <1>1, TaskAssumption DEF Upgrade
<1>3. /\ waiting' = Append(waiting, t)
      /\ WakeAndBlockAt(t, NoTask, "lock")
      /\ UNCHANGED <<kind, locked, next, holders>>
  BY <1>2 DEF LockWait
<1>4. /\ ProcInv(Places)'
      /\ \A x \in Task : status'[x] = IF x = t THEN "Blocked" ELSE status[x]
  <2>1. Wakeable(NoTask) /\ "lock" \in Places
    BY DEF Wakeable, Places
  <2>2. /\ ProcInv(Places)'
        /\ \A x \in Task : status'[x] = IF x = t THEN "Blocked" ELSE
                                        IF x = NoTask THEN "Ready" ELSE status[x]
    BY <1>1, <1>3, <2>1, MInvProc, BlockPlacement
  <2> QED
    BY <2>2, TaskAssumption
<1>5. waiting \in Seq(Task) /\ ~InSeq(t, waiting) /\ NoRepeats(waiting)
  BY <1>1 DEF MInv, TypeOK, QueueBut
<1>6. /\ waiting' \in Seq(Task)
      /\ NoRepeats(waiting')
      /\ \A x : InSeq(x, waiting') <=> (InSeq(x, waiting) \/ x = t)
  BY <1>3, <1>5, AppendQueue
<1>7. TypeOK' /\ Placement'
  BY <1>3, <1>4, <1>6 DEF MInv, TypeOK, ProcInv, Places
<1>8. QueueBut(others)'
  BY <1>1, <1>4, <1>6 DEF MInv, QueueBut
<1>9. t \notin holders
  BY HolderSeen DEF LockWait
<1>10. HoldersAlive'
  BY <1>3, <1>4, <1>9 DEF MInv, HoldersAlive, TypeOK
<1>11. NextInLock' /\ NoLostWakeup'
  BY <1>1, <1>3 DEF NextInLock, NoLostWakeup
<1>12. BlockedInLock'
  BY <1>3, <1>4 DEF MInv, BlockedInLock, WakeAndBlockAt, TypeOK, ProcTypeOK
<1> QED
  BY <1>3, <1>7, <1>8, <1>10, <1>11, <1>12 DEF MInv

(* lock() that spins: the task is not the holder, and nobody is next.      *)
LEMMA SpinStep ==
  ASSUME NEW others, MInv(others), NEW t \in Task, LockSpin(t)
  PROVE  MInv(others)' /\ holders' = holders
<1>1. /\ locked # NoTask /\ next = NoTask /\ current = t /\ status[t] = "Running"
      /\ SuspendAt(t, "lock") /\ "lock" \in Places
      /\ UNCHANGED <<kind, locked, next, waiting, holders>>
  BY DEF LockSpin, AtLock, Upgrade, MInv, NextInLock, Placement, Places, mutexVars
<1>2. ProcInv(Places)'
  BY <1>1, MInvProc, SuspendPlacement
<1>3. \A x \in Task : status'[x] = IF x = t THEN "Ready" ELSE status[x]
  BY <1>1 DEF MInv, TypeOK, ProcTypeOK, SuspendAt
<1>4. TypeOK' /\ Placement' /\ QueueBut(others)'
  BY <1>1, <1>2, <1>3 DEF MInv, TypeOK, ProcInv, Places, QueueBut
<1>5. HoldersAlive' /\ NextInLock' /\ NoLostWakeup'
  BY <1>1, <1>3 DEF MInv, HoldersAlive, NextInLock, NoLostWakeup, TypeOK
<1>6. BlockedInLock'
  BY <1>1, <1>3 DEF MInv, BlockedInLock, SuspendAt, TypeOK, ProcTypeOK
<1> QED
  BY <1>1, <1>4, <1>5, <1>6 DEF MInv

(* A thread exits, from user code or with an error of lock() or unlock():  *)
(* it leaves holders, and it is not the waiter on its way.                 *)
LEMMA ExitStep ==
  ASSUME NEW others, MInv(others), NEW t \in Task, current = t, ExitOf(t), t # next,
         UNCHANGED <<kind, locked, next, waiting>>, holders' = holders \ {t}
  PROVE  MInv(others)'
<1>1. ProcInv(Places)'
  BY MInvProc, ExitPlacement DEF Places
<1>2. \A x \in Task : status'[x] = IF x = t THEN "Zombie" ELSE status[x]
  BY DEF MInv, TypeOK, ProcTypeOK, ExitOf
<1>3. status[t] = "Running" /\ pc' = [pc EXCEPT ![t] = "user"]
  BY DEF MInv, Placement, ExitOf
<1>4. TypeOK' /\ Placement'
  BY <1>1 DEF MInv, TypeOK, ProcInv, Places
<1>5. QueueBut(others)'
  BY <1>2, <1>3 DEF MInv, QueueBut
<1>6. HoldersAlive'
  BY <1>2 DEF MInv, HoldersAlive, TypeOK
<1>7. NextInLock' /\ NoLostWakeup'
  BY <1>2, <1>3 DEF MInv, NextInLock, NoLostWakeup, TypeOK, ProcTypeOK
<1>8. BlockedInLock'
  BY <1>2, <1>3 DEF MInv, BlockedInLock, TypeOK, ProcTypeOK
<1> QED
  BY <1>4, <1>5, <1>6, <1>7, <1>8 DEF MInv

(* unlock() by the holder, or of a mutex nobody alive holds. *)
LEMMA UnlockStep ==
  ASSUME NEW others, MInv(others), NEW t \in Task, Unlock(t)
  PROVE  MInv(others)' /\ holders' = {} /\ holders \subseteq {t}
<1>1. current = t /\ pc[t] = "user" /\ status[t] = "Running" /\ t # NoTask
  BY DEF Unlock, InUser, MInv, Placement
<1>2. holders \subseteq {t} /\ holders' = {}
  BY HolderSeen DEF Unlock, UnlockMutex
<1> DEFINE w == Woken
<1>3. /\ ProcInv(Places)'
      /\ \A x \in Task : status'[x] = IF x = w THEN "Ready" ELSE status[x]
  <2>1. Wakeable(w) /\ WakeAndReturn(t, w) /\ "user" \in Places
    BY WokenWaiter DEF Unlock, Places
  <2> HIDE DEF w
  <2> QED
    BY <1>1, <2>1, MInvProc, ReturnPlacement
<1>4. locked' = NoTask /\ pc' = [pc EXCEPT ![t] = "user"] /\ kind' = kind
  BY DEF Unlock, UnlockMutex, WakeAndReturn
<1>5. HoldersAlive'
  BY <1>2 DEF HoldersAlive
<1>6. CASE next # NoTask
  <2>1. w = NoTask /\ next' = next /\ waiting' = waiting
    BY <1>6, WokenWaiter DEF Unlock, UnlockMutex
  <2>2. \A x \in Task : status'[x] = status[x]
    BY <1>3, <2>1, TaskAssumption
  <2>3. next \in Task /\ next # t /\ pc[next] = "lock" /\ status[next] \in {"Ready", "Running"}
    BY <1>1, <1>6 DEF MInv, NextInLock, TypeOK
  <2>4. TypeOK' /\ Placement' /\ QueueBut(others)'
    BY <1>2, <1>3, <1>4, <2>1, <2>2 DEF MInv, TypeOK, ProcInv, Places, QueueBut
  <2>5. NextInLock' /\ NoLostWakeup'
    BY <1>4, <1>6, <2>1, <2>2, <2>3 DEF MInv, NextInLock, NoLostWakeup, TypeOK, ProcTypeOK
  <2>6. BlockedInLock'
    BY <1>1, <1>4, <2>2 DEF MInv, BlockedInLock, TypeOK, ProcTypeOK
  <2> QED
    BY <1>2, <1>5, <2>4, <2>5, <2>6 DEF MInv
<1>7. CASE next = NoTask /\ waiting = <<>>
  <2>1. w = NoTask /\ next' = NoTask /\ waiting' = <<>>
    BY <1>7, WokenWaiter DEF Unlock, UnlockMutex
  <2>2. \A x \in Task : status'[x] = status[x]
    BY <1>3, <2>1, TaskAssumption
  <2>3. TypeOK' /\ Placement' /\ QueueBut(others)'
    BY <1>2, <1>3, <1>4, <1>7, <2>1, <2>2 DEF MInv, TypeOK, ProcInv, Places, QueueBut
  <2>4. NextInLock' /\ NoLostWakeup'
    BY <2>1 DEF NextInLock, NoLostWakeup
  <2>5. BlockedInLock'
    BY <1>1, <1>4, <2>2 DEF MInv, BlockedInLock, TypeOK, ProcTypeOK
  <2> QED
    BY <1>2, <1>5, <2>3, <2>4, <2>5 DEF MInv
<1>8. CASE next = NoTask /\ waiting # <<>>
  <2>1. /\ w = Head(waiting) /\ w \in Task /\ status[w] = "Blocked"
        /\ next' = w /\ waiting' = Tail(waiting)
    BY <1>8, WokenWaiter, TaskAssumption DEF Unlock, UnlockMutex
  <2> HIDE DEF w
  <2>2. /\ waiting' \in Seq(Task)
        /\ NoRepeats(waiting')
        /\ \A x : InSeq(x, waiting') <=> (InSeq(x, waiting) /\ x # w)
    BY <1>8, <2>1, TailQueue DEF MInv, TypeOK, QueueBut
  <2>3. w # t /\ pc[w] = "lock"
    BY <1>1, <2>1 DEF MInv, BlockedInLock
  <2>4. TypeOK' /\ Placement'
    BY <1>2, <1>3, <1>4, <2>1, <2>2 DEF MInv, TypeOK, ProcInv, Places
  <2>5. QueueBut(others)'
    <3>1. InSeq(w, waiting)
      BY <1>8, <2>1, TailQueue DEF MInv, TypeOK
    <3> QED
      BY <1>3, <2>2, <3>1 DEF MInv, QueueBut
  <2>6. NextInLock' /\ NoLostWakeup'
    BY <1>3, <1>4, <2>1, <2>3, TaskAssumption DEF MInv, NextInLock, NoLostWakeup, TypeOK, ProcTypeOK
  <2>7. BlockedInLock'
    BY <1>1, <1>3, <1>4 DEF MInv, BlockedInLock, TypeOK, ProcTypeOK
  <2> QED
    BY <1>2, <1>5, <2>4, <2>5, <2>6, <2>7 DEF MInv
<1> QED
  BY <1>2, <1>6, <1>7, <1>8

(* The other steps: the scheduler, a time slice that ends, a new thread, a *)
(* reaped zombie.  None touches the mutex.                                 *)
LEMMA OtherSteps ==
  ASSUME NEW others, MInv(others), ScheduleStep \/ \E t \in Task : ProcStep(t)
  PROVE  MInv(others)' /\ (holders' = holders \/ (holders' = {} /\ \E t \in Task : holders = {t}))
<1>1. CASE ScheduleStep
  <2>1. /\ ProcInv(Places)'
        /\ current' \in Task
        /\ status[current'] = "Ready"
        /\ status' = [status EXCEPT ![current'] = "Running"]
    BY <1>1, MInvProc, SchedulePlacement DEF ScheduleStep
  <2>2. \A x \in Task : status'[x] = IF x = current' THEN "Running" ELSE status[x]
    BY <2>1 DEF MInv, TypeOK, ProcTypeOK
  <2>3. UNCHANGED <<pc, kind, locked, next, waiting, holders>>
    BY <1>1 DEF ScheduleStep, Schedule, mutexVars
  <2>4. TypeOK' /\ Placement' /\ QueueBut(others)'
    BY <2>1, <2>2, <2>3 DEF MInv, TypeOK, ProcInv, Places, QueueBut
  <2>5. HoldersAlive' /\ NextInLock' /\ NoLostWakeup' /\ BlockedInLock'
    BY <2>1, <2>2, <2>3 DEF MInv, HoldersAlive, NextInLock, NoLostWakeup, BlockedInLock, TypeOK
  <2> QED
    BY <2>3, <2>4, <2>5 DEF MInv
<1>2. ASSUME NEW t \in Task, Preempt(t),
             UNCHANGED <<kind, locked, next, waiting>>, holders' = {h \in holders : status'[h] # "Zombie"}
      PROVE  MInv(others)' /\ holders' = holders
  <2>1. current = t /\ SuspendAt(t, "user") /\ "user" \in Places /\ status[t] = "Running"
    BY <1>2 DEF Preempt, InUser, Places, MInv, Placement
  <2>2. ProcInv(Places)'
    BY <2>1, MInvProc, SuspendPlacement
  <2>3. \A x \in Task : status'[x] = IF x = t THEN "Ready" ELSE status[x]
    BY <2>1 DEF MInv, TypeOK, ProcTypeOK, SuspendAt
  <2>4. holders' = holders
    BY <1>2, <2>3 DEF MInv, HoldersAlive, TypeOK
  <2>5. pc' = pc
    BY <1>2 DEF Preempt, InUser, SuspendAt, MInv, TypeOK, ProcTypeOK
  <2>6. TypeOK' /\ Placement' /\ QueueBut(others)'
    BY <1>2, <2>1, <2>2, <2>3, <2>4 DEF MInv, TypeOK, ProcInv, Places, QueueBut
  <2>7. HoldersAlive' /\ NextInLock' /\ NoLostWakeup' /\ BlockedInLock'
    BY <1>2, <2>1, <2>3, <2>4, <2>5 DEF MInv, HoldersAlive, NextInLock, NoLostWakeup, BlockedInLock, TypeOK
  <2> QED
    BY <2>4, <2>6, <2>7 DEF MInv
<1>3. ASSUME NEW t \in Task, NEW new \in Task, ThreadCreate(t, new), t = Root,
             UNCHANGED <<kind, locked, next, waiting>>, holders' = {h \in holders : status'[h] # "Zombie"}
      PROVE  MInv(others)' /\ holders' = holders
  <2>1. ProcInv(Places)'
    BY <1>3, MInvProc, CreatePlacement DEF Places
  <2>2. status[new] = "Unborn" /\ UNCHANGED pc /\ status' = [status EXCEPT ![new] = "Ready"]
    BY <1>3 DEF ThreadCreate
  <2>3. \A x \in Task : status'[x] = IF x = new THEN "Ready" ELSE status[x]
    BY <2>2 DEF MInv, TypeOK, ProcTypeOK
  <2>4. holders' = holders
    BY <1>3, <2>3 DEF MInv, HoldersAlive, TypeOK
  <2>5. TypeOK' /\ Placement' /\ QueueBut(others)'
    BY <1>3, <2>1, <2>2, <2>3, <2>4 DEF MInv, TypeOK, ProcInv, Places, QueueBut
  <2>6. HoldersAlive' /\ NextInLock' /\ NoLostWakeup' /\ BlockedInLock'
    BY <1>3, <2>2, <2>3, <2>4 DEF MInv, HoldersAlive, NextInLock, NoLostWakeup, BlockedInLock, TypeOK
  <2> QED
    BY <2>4, <2>5, <2>6 DEF MInv
<1>4. ASSUME NEW t \in Task, NEW new \in Task, ThreadCreate(t, new), t # Root,
             UNCHANGED <<kind, locked, next, waiting>>, holders' = {h \in holders : status'[h] # "Zombie"}
      PROVE  MInv(others)' /\ (holders' = holders \/ (holders' = {} /\ holders = {t}))
  <2>1. current = t /\ pc[t] = "user" /\ ExitOf(t)
    BY <1>4 DEF ThreadCreate, InUser
  <2>2. t # next
    BY <2>1, TaskAssumption DEF MInv, NextInLock
  <2>3. \A x \in Task : status'[x] = IF x = t THEN "Zombie" ELSE status[x]
    BY <2>1 DEF MInv, TypeOK, ProcTypeOK, ExitOf
  <2>4. holders' = holders \ {t}
    BY <1>4, <2>3 DEF MInv, HoldersAlive, TypeOK
  <2>5. \A h \in holders : h = locked
    BY DEF MInv, HoldersAlive
  <2> QED
    BY <1>4, <2>1, <2>2, <2>4, <2>5, ExitStep
<1>5. ASSUME NEW t \in Task, NEW dead \in Task, Reap(t, dead),
             UNCHANGED <<kind, locked, next, waiting>>, holders' = {h \in holders : status'[h] # "Zombie"}
      PROVE  MInv(others)' /\ holders' = holders
  <2>1. ProcInv(Places)'
    BY <1>5, MInvProc, ReapPlacement
  <2>2. status[dead] = "Zombie" /\ UNCHANGED pc
    BY <1>5 DEF Reap
  <2>3. \A x \in Task : status'[x] = IF x = dead THEN "Dropped" ELSE status[x]
    BY <1>5 DEF MInv, TypeOK, ProcTypeOK, Reap
  <2>4. holders' = holders
    BY <1>5, <2>2, <2>3 DEF MInv, HoldersAlive, TypeOK
  <2>5. TypeOK' /\ Placement' /\ QueueBut(others)'
    BY <1>5, <2>1, <2>2, <2>3, <2>4 DEF MInv, TypeOK, ProcInv, Places, QueueBut
  <2>6. HoldersAlive' /\ NextInLock' /\ NoLostWakeup' /\ BlockedInLock'
    BY <1>5, <2>2, <2>3, <2>4 DEF MInv, HoldersAlive, NextInLock, NoLostWakeup, BlockedInLock, TypeOK
  <2> QED
    BY <2>4, <2>5, <2>6 DEF MInv
<1> QED
  BY <1>1, <1>2, <1>3, <1>4, <1>5 DEF ProcStep

(* A step of the mutex keeps the invariant and is a step of AbstractMutex. *)
LEMMA MutexStepRefines ==
  ASSUME NEW others, MInv(others), [Next]_vars
  PROVE  MInv(others)' /\ [Abstract!AbsNext]_holders
<1> USE DEF Abstract!AbsNext, Abstract!Acquire, Abstract!Release
<1>1. ASSUME NEW t \in Task, LockTake(t) PROVE MInv(others)' /\ [Abstract!AbsNext]_holders
  BY <1>1, TakeStep
<1>2. ASSUME NEW t \in Task, LockSpin(t) \/ LockWait(t)
      PROVE  MInv(others)' /\ [Abstract!AbsNext]_holders
  BY <1>2, SpinStep, WaitStep
<1>3. ASSUME NEW t \in Task, LockTwice(t) \/ Exit(t) \/ UnlockForeign(t)
      PROVE  MInv(others)' /\ [Abstract!AbsNext]_holders
  <2>1. current = t /\ ExitOf(t) /\ UNCHANGED <<kind, locked, next, waiting>>
    BY <1>3 DEF LockTwice, Exit, UnlockForeign, AtLock, InUser, mutexVars
  <2>2. t # next
    BY <1>3, TaskAssumption DEF LockTwice, Exit, UnlockForeign, InUser, Upgrade, MInv, NextInLock
  <2>3. holders' = holders \ {t}
    BY <1>3, HolderSeen DEF LockTwice, Exit, UnlockForeign, mutexVars
  <2>4. \A h \in holders : h = locked
    BY DEF MInv, HoldersAlive
  <2>5. MInv(others)'
    BY <2>1, <2>2, <2>3, ExitStep
  <2> QED
    BY <2>3, <2>4, <2>5
<1>4. ASSUME NEW t \in Task, Unlock(t) PROVE MInv(others)' /\ [Abstract!AbsNext]_holders
  <2>1. holders = {} \/ holders = {t}
    BY <1>4, UnlockStep
  <2> QED
    BY <1>4, <2>1, UnlockStep
<1>5. CASE ScheduleStep \/ \E t \in Task : ProcStep(t)
  BY <1>5, OtherSteps
<1>6. CASE UNCHANGED vars
  <2>1. MInv(others)'
    BY <1>6 DEF vars, MInv, TypeOK, ProcTypeOK, Placement, NoRepeats, InSeq, QueueBut,
                HoldersAlive, NextInLock, NoLostWakeup, BlockedInLock
  <2> QED
    BY <1>6, <2>1 DEF vars
<1> QED
  BY <1>1, <1>2, <1>3, <1>4, <1>5, <1>6 DEF Next, MutexStep

(* The invariant holds at the start. *)
LEMMA MutexInitial == Init => MInv({}) /\ Abstract!AbsInit
<1> SUFFICES ASSUME Init PROVE MInv({}) /\ Abstract!AbsInit
  OBVIOUS
<1>1. ProcInv(Places)
  BY InitPlacement DEF Init, Places
<1>2. /\ kind \in {"blocking", "spin"}
      /\ locked = NoTask /\ next = NoTask /\ waiting = <<>> /\ holders = {}
  BY DEF Init, MutexInit
<1>3. \A t \in Task : status[t] \in {"Ready", "Unborn"}
  BY DEF Init, ProcInit
<1>4. TypeOK /\ Placement
  BY <1>1, <1>2 DEF TypeOK, ProcInv, Places
<1>5. QueueBut({})
  BY <1>2, <1>3 DEF QueueBut, NoRepeats, InSeq
<1>6. HoldersAlive /\ NextInLock /\ NoLostWakeup /\ BlockedInLock
  BY <1>2, <1>3 DEF HoldersAlive, NextInLock, NoLostWakeup, BlockedInLock
<1> QED
  BY <1>2, <1>4, <1>5, <1>6 DEF MInv, Abstract!AbsInit

(* For every set of threads: the mutex names its only holder, its queue    *)
(* and the ready queue agree with the status of the tasks, a free mutex    *)
(* with waiters has one of them on its way, and the yield in lock()        *)
(* (mutex.rs:100-111) is unreachable.                                      *)
THEOREM MutexSafety ==
  Spec => [](TypeOK /\ Placement /\ HolderOwns /\ WaitersBlocked /\ NoLostWakeup /\ NextMeansFree)
<1>1. MInv({}) => TypeOK /\ Placement /\ HolderOwns /\ WaitersBlocked /\ NoLostWakeup /\ NextMeansFree
  BY DEF MInv, QueueBut, WaitersBlocked, HoldersAlive, HolderOwns, NextInLock, NextMeansFree
<1>2. MInv({}) /\ [Next]_vars => MInv({})'
  BY MutexStepRefines
<1> QED
  BY <1>1, <1>2, MutexInitial, PTL DEF Spec

(* Both mutexes implement AbstractMutex: at most one task is ever          *)
(* between a lock() that returned Ok and its unlock() or its end.          *)
THEOREM MutexRefinement == Spec => RefinesAbstract
<1>1. MInv({}) /\ [Next]_vars => MInv({})' /\ [Abstract!AbsNext]_holders
  BY MutexStepRefines
<1> QED
  BY <1>1, MutexInitial, PTL DEF Spec, RefinesAbstract, Abstract!AbsSpec

-----------------------------------------------------------------------------
(* With a condition variable. *)

Queued == {t \in Task : InSeq(t, cond)}

(* A task inside lock() is not the one the mutex names, so the error       *)
(* DoubleLockMutex never ends a task that comes back from wait().          *)
LockingIsNotHolding == \A t \in Task : pc[t] = "lock" => locked # t

CInv ==
  /\ MInv(Queued)
  /\ cond \in Seq(Task)
  /\ NoRepeats(cond)
  /\ inWait \subseteq {t \in Task : pc[t] = "lock"}
  /\ LockingIsNotHolding

(* What stands in two queues one after the other. *)
LEMMA ConcatQueue ==
  ASSUME NEW S, NEW p \in Seq(S), NEW q \in Seq(S)
  PROVE  /\ \A x : InSeq(x, p \o q) <=> (InSeq(x, p) \/ InSeq(x, q))
         /\ NoRepeats(p) /\ NoRepeats(q) /\ (\A x \in S : ~(InSeq(x, p) /\ InSeq(x, q)))
              => NoRepeats(p \o q)
<1>1. /\ Len(p) \in Nat /\ Len(q) \in Nat
      /\ DOMAIN p = 1 .. Len(p) /\ DOMAIN q = 1 .. Len(q)
      /\ DOMAIN (p \o q) = 1 .. (Len(p) + Len(q))
      /\ \A i \in 1 .. Len(p) : (p \o q)[i] = p[i]
      /\ \A i \in Len(p) + 1 .. Len(p) + Len(q) : (p \o q)[i] = q[i - Len(p)]
  OBVIOUS
<1>2. ASSUME NEW x, InSeq(x, p \o q) PROVE InSeq(x, p) \/ InSeq(x, q)
  <2>1. PICK i \in 1 .. Len(p) + Len(q) : (p \o q)[i] = x
    BY <1>1, <1>2 DEF InSeq
  <2>2. CASE i <= Len(p)
    BY <1>1, <2>1, <2>2 DEF InSeq
  <2>3. CASE ~(i <= Len(p))
    <3>1. i - Len(p) \in 1 .. Len(q) /\ q[i - Len(p)] = x
      BY <1>1, <2>1, <2>3
    <3> QED
      BY <1>1, <3>1 DEF InSeq
  <2> QED
    BY <2>2, <2>3
<1>3. ASSUME NEW x, InSeq(x, p) PROVE InSeq(x, p \o q)
  <2>1. PICK i \in 1 .. Len(p) : p[i] = x
    BY <1>1, <1>3 DEF InSeq
  <2>2. i \in 1 .. Len(p) + Len(q) /\ (p \o q)[i] = x
    BY <1>1, <2>1
  <2> QED
    BY <1>1, <2>2 DEF InSeq
<1>4. ASSUME NEW x, InSeq(x, q) PROVE InSeq(x, p \o q)
  <2>1. PICK i \in 1 .. Len(q) : q[i] = x
    BY <1>1, <1>4 DEF InSeq
  <2>2. i + Len(p) \in Len(p) + 1 .. Len(p) + Len(q) /\ (i + Len(p)) - Len(p) = i
    BY <1>1, <2>1
  <2>3. i + Len(p) \in 1 .. Len(p) + Len(q) /\ (p \o q)[i + Len(p)] = x
    BY <1>1, <2>1, <2>2
  <2> QED
    BY <1>1, <2>3 DEF InSeq
<1>5. ASSUME NoRepeats(p), NoRepeats(q), \A x \in S : ~(InSeq(x, p) /\ InSeq(x, q))
      PROVE  NoRepeats(p \o q)
  <2>1. SUFFICES ASSUME NEW i \in 1 .. Len(p) + Len(q), NEW j \in 1 .. Len(p) + Len(q),
                        (p \o q)[i] = (p \o q)[j]
                 PROVE  i = j
    BY <1>1 DEF NoRepeats
  <2>2. ASSUME NEW k \in 1 .. Len(p), NEW l \in Len(p) + 1 .. Len(p) + Len(q)
        PROVE  (p \o q)[k] # (p \o q)[l]
    <3>1. l - Len(p) \in 1 .. Len(q) /\ (p \o q)[k] = p[k] /\ (p \o q)[l] = q[l - Len(p)]
      BY <1>1
    <3>2. p[k] \in S
      OBVIOUS
    <3>3. InSeq(p[k], p)
      BY <1>1 DEF InSeq
    <3>4. InSeq(q[l - Len(p)], q)
      BY <1>1, <3>1 DEF InSeq
    <3> QED
      BY <1>5, <3>1, <3>2, <3>3, <3>4
  <2>3. CASE i <= Len(p) /\ j <= Len(p)
    BY <1>1, <1>5, <2>1, <2>3 DEF NoRepeats
  <2>4. CASE ~(i <= Len(p)) /\ ~(j <= Len(p))
    <3>1. /\ i - Len(p) \in 1 .. Len(q) /\ j - Len(p) \in 1 .. Len(q)
          /\ q[i - Len(p)] = q[j - Len(p)]
      BY <1>1, <2>1, <2>4
    <3>2. i - Len(p) = j - Len(p)
      BY <1>1, <1>5, <3>1 DEF NoRepeats
    <3> QED
      BY <1>1, <3>2
  <2>5. CASE i <= Len(p) /\ ~(j <= Len(p))
    BY <1>1, <2>1, <2>2, <2>5
  <2>6. CASE ~(i <= Len(p)) /\ j <= Len(p)
    BY <1>1, <2>1, <2>2, <2>6
  <2> QED
    BY <2>3, <2>4, <2>5, <2>6
<1> QED
  BY <1>2, <1>3, <1>4, <1>5

(* The two queues hold the blocked tasks. *)
LEMMA QueuesHoldBlocked == CInv => BlockedOnce
<1> SUFFICES ASSUME CInv PROVE BlockedOnce
  OBVIOUS
<1>1. /\ waiting \in Seq(Task) /\ cond \in Seq(Task) /\ NoRepeats(waiting) /\ NoRepeats(cond)
      /\ \A t \in Task : (status[t] = "Blocked") <=> (InSeq(t, waiting) \/ InSeq(t, cond))
      /\ \A t \in Task : ~(InSeq(t, waiting) /\ InSeq(t, cond))
  BY DEF CInv, MInv, TypeOK, QueueBut, Queued
<1> QED
  BY <1>1, ConcatQueue DEF BlockedOnce

-----------------------------------------------------------------------------

(* A step of the mutex takes a task out of lock() only with the mutex.     *)
LEMMA LockReturns ==
  ASSUME CInv, Next
  PROVE  /\ LockingIsNotHolding'
         /\ pc' \in [Task -> Places]
         /\ \A t \in Task : pc[t] = "lock" /\ pc'[t] # "lock" => t \in holders' /\ locked' = t
<1>0. /\ pc \in [Task -> Places]
      /\ "user" \in Places /\ "lock" \in Places
      /\ \A t \in Task : pc[t] = "lock" => locked # t
      /\ NoTask \notin Task
  BY TaskAssumption DEF CInv, MInv, TypeOK, ProcTypeOK, Places, LockingIsNotHolding
<1>1. CASE ScheduleStep
  BY <1>0, <1>1 DEF ScheduleStep, Schedule, mutexVars, LockingIsNotHolding
<1>2. ASSUME NEW t \in Task, ProcStep(t)
      PROVE  /\ LockingIsNotHolding'
             /\ pc' \in [Task -> Places]
             /\ \A x \in Task : pc[x] = "lock" /\ pc'[x] # "lock" => x \in holders' /\ locked' = x
  <2>1. pc' = pc /\ locked' = locked
    BY <1>0, <1>2 DEF ProcStep, Preempt, InUser, SuspendAt, ThreadCreate, ExitOf, Reap
  <2> QED
    BY <1>0, <2>1 DEF LockingIsNotHolding
<1>3. ASSUME NEW t \in Task, LockTake(t)
      PROVE  /\ LockingIsNotHolding'
             /\ pc' \in [Task -> Places]
             /\ \A x \in Task : pc[x] = "lock" /\ pc'[x] # "lock" => x \in holders' /\ locked' = x
  BY <1>0, <1>3 DEF LockTake, LockingIsNotHolding
<1>4. ASSUME NEW t \in Task, LockSpin(t) \/ LockWait(t)
      PROVE  /\ LockingIsNotHolding'
             /\ pc' \in [Task -> Places]
             /\ \A x \in Task : pc[x] = "lock" /\ pc'[x] # "lock" => x \in holders' /\ locked' = x
  <2>1. /\ pc' = [pc EXCEPT ![t] = "lock"] /\ locked' = locked
        /\ current = t /\ status[t] = "Running" /\ Upgrade(locked) # t
    BY <1>4 DEF LockSpin, LockWait, AtLock, SuspendAt, WakeAndBlockAt, mutexVars, CInv, MInv, Placement
  <2>2. locked # t
    BY <1>0, <2>1 DEF Upgrade
  <2> QED
    BY <1>0, <2>1, <2>2 DEF LockingIsNotHolding
<1>5. ASSUME NEW t \in Task, LockTwice(t) \/ Unlock(t) \/ UnlockForeign(t) \/ Exit(t)
      PROVE  /\ LockingIsNotHolding'
             /\ pc' \in [Task -> Places]
             /\ \A x \in Task : pc[x] = "lock" /\ pc'[x] # "lock" => x \in holders' /\ locked' = x
  <2>1. pc[t] = "user"
    BY <1>0, <1>5 DEF LockTwice, AtLock, Upgrade, Unlock, UnlockForeign, Exit, InUser
  <2>2. pc' = pc /\ (locked' = locked \/ locked' = NoTask)
    BY <1>0, <1>5, <2>1
    DEF LockTwice, Unlock, UnlockMutex, WakeAndReturn, UnlockForeign, Exit, ExitOf, mutexVars
  <2> QED
    BY <1>0, <2>2 DEF LockingIsNotHolding
<1> QED
  BY <1>1, <1>2, <1>3, <1>4, <1>5 DEF Next, MutexStep

(* A step of the mutex or of the processor. *)
LEMMA MutexInside ==
  ASSUME CInv, OtherStep
  PROVE  /\ CInv'
         /\ [Abstract!AbsNext]_holders
         /\ \A t \in inWait : t \notin inWait' => t \in holders' /\ locked' = t
<1>1. Next /\ cond' = cond /\ inWait' = {t \in inWait : pc'[t] # "user"}
  BY DEF OtherStep
<1>2. PICK S : S = Queued
  OBVIOUS
<1>3. MInv(S)
  BY <1>2 DEF CInv, MInv, QueueBut
<1>4. MInv(S)' /\ [Abstract!AbsNext]_holders
  BY <1>1, <1>3, MutexStepRefines
<1>5. Queued' = S
  BY <1>1, <1>2 DEF Queued, InSeq
<1>6. MInv(Queued)'
  BY <1>4, <1>5 DEF MInv, QueueBut
<1>7. /\ LockingIsNotHolding'
      /\ pc' \in [Task -> Places]
      /\ \A t \in Task : pc[t] = "lock" /\ pc'[t] # "lock" => t \in holders' /\ locked' = t
  BY <1>1, LockReturns
<1>8. inWait' \subseteq {t \in Task : pc'[t] = "lock"}
  BY <1>1, <1>7 DEF CInv, Places
<1>9. \A t \in inWait : t \notin inWait' => t \in holders' /\ locked' = t
  BY <1>1, <1>7 DEF CInv
<1> QED
  BY <1>1, <1>4, <1>6, <1>7, <1>8, <1>9 DEF CInv, NoRepeats

(* signal(): the first task of the queue leaves it and becomes ready. *)
LEMMA SignalStep ==
  ASSUME CInv, NEW t \in Task, Signal(t)
  PROVE  CInv' /\ UNCHANGED <<holders, inWait>>
<1>1. /\ current = t /\ status[t] = "Running" /\ pc[t] = "user"
      /\ cond' = RestLive(cond) /\ WakeAndReturn(t, PopLive(cond))
      /\ UNCHANGED <<kind, locked, next, waiting, holders, inWait>>
  BY DEF Signal, InUser, CInv, MInv, Placement
<1>2. /\ cond \in Seq(Task) /\ NoRepeats(cond)
      /\ \A x \in Task : InSeq(x, cond) => status[x] = "Blocked"
  BY DEF CInv, MInv, QueueBut, Queued
<1>3. /\ cond = <<>> => PopLive(cond) = NoTask /\ RestLive(cond) = <<>>
      /\ cond # <<>> => PopLive(cond) = Head(cond) /\ RestLive(cond) = Tail(cond)
  BY <1>2, PopLiveQueue
<1>4. cond # <<>> => Head(cond) \in Task /\ InSeq(Head(cond), cond)
  BY <1>2, TailQueue
<1> DEFINE w == PopLive(cond)
<1>5. /\ cond' \in Seq(Task) /\ NoRepeats(cond')
      /\ \A x \in Task : InSeq(x, cond') <=> (InSeq(x, cond) /\ x # w)
      /\ Wakeable(w)
      /\ w \in Task => InSeq(w, cond)
  <2>1. CASE cond = <<>>
    BY <1>1, <1>2, <1>3, <2>1, TaskAssumption DEF Wakeable, InSeq
  <2>2. CASE cond # <<>>
    <3>1. /\ Tail(cond) \in Seq(Task) /\ NoRepeats(Tail(cond))
          /\ \A x : InSeq(x, Tail(cond)) <=> (InSeq(x, cond) /\ x # Head(cond))
      BY <1>2, <2>2, TailQueue
    <3> QED
      BY <1>1, <1>2, <1>3, <1>4, <2>2, <3>1 DEF Wakeable
  <2> QED
    BY <2>1, <2>2
<1>6. WakeAndReturn(t, w) /\ "user" \in Places
  BY <1>1 DEF Places
<1> HIDE DEF w
<1>7. /\ ProcInv(Places)'
      /\ \A x \in Task : status'[x] = IF x = w THEN "Ready" ELSE status[x]
  BY <1>1, <1>5, <1>6, MInvProc, ReturnPlacement DEF CInv
<1>8. pc' = pc
  BY <1>1, <1>6 DEF WakeAndReturn, CInv, MInv, TypeOK, ProcTypeOK
<1>9. w \in Task => status[w] = "Blocked"
  BY <1>2, <1>5
<1>10. TypeOK' /\ Placement'
  BY <1>1, <1>7 DEF CInv, MInv, TypeOK, ProcInv, Places
<1>11. QueueBut(Queued)'
  <2>1. ASSUME NEW x \in Task
        PROVE  /\ (status'[x] = "Blocked") <=> (InSeq(x, waiting') \/ x \in Queued')
               /\ x \in Queued' => ~InSeq(x, waiting')
    BY <1>1, <1>5, <1>7 DEF CInv, MInv, QueueBut, Queued
  <2>2. NoRepeats(waiting') /\ Queued' \subseteq Task
    BY <1>1 DEF CInv, MInv, QueueBut, Queued
  <2> QED
    BY <2>1, <2>2 DEF QueueBut
<1>12. HoldersAlive' /\ NextInLock' /\ NoLostWakeup'
  BY <1>1, <1>7, <1>8, <1>9 DEF CInv, MInv, HoldersAlive, NextInLock, NoLostWakeup, TypeOK
<1>13. BlockedInLock'
  BY <1>7, <1>8 DEF CInv, MInv, BlockedInLock
<1>14. MInv(Queued)'
  BY <1>10, <1>11, <1>12, <1>13 DEF MInv
<1> QED
  BY <1>1, <1>5, <1>8, <1>14 DEF CInv, LockingIsNotHolding

(* wait(): the mutex is given up, its next holder woken, and the task      *)
(* queued and blocked, all before another task runs.                       *)
LEMMA WaitCondStep ==
  ASSUME CInv, NEW t \in Task, Wait(t)
  PROVE  CInv' /\ holders' = {} /\ holders \subseteq {t} /\ inWait \subseteq inWait'
<1>1. /\ current = t /\ status[t] = "Running" /\ pc[t] = "user"
      /\ UnlockMutex(t) /\ cond' = Append(cond, t) /\ inWait' = inWait \cup {t}
      /\ WakeAndBlockAt(t, Woken, "lock") /\ "lock" \in Places
  BY DEF Wait, InUser, CInv, MInv, Placement, Places
<1>2. PICK S : S = Queued
  OBVIOUS
<1>3. MInv(S)
  BY <1>2 DEF CInv, MInv, QueueBut
<1>4. holders \subseteq {t} /\ holders' = {}
  BY <1>1, <1>3, HolderSeen DEF UnlockMutex
<1> DEFINE w == Woken
<1>5. Wakeable(w) /\ WakeAndBlockAt(t, w, "lock")
  BY <1>1, <1>3, WokenWaiter
<1>6. /\ next # NoTask => w = NoTask /\ next' = next /\ waiting' = waiting
      /\ next = NoTask /\ waiting = <<>> => w = NoTask /\ next' = NoTask /\ waiting' = <<>>
      /\ next = NoTask /\ waiting # <<>> =>
           /\ w = Head(waiting) /\ w \in Task /\ status[w] = "Blocked"
           /\ next' = w /\ waiting' = Tail(waiting)
      /\ locked' = NoTask /\ kind' = kind
  BY <1>1, <1>3, WokenWaiter, TaskAssumption DEF UnlockMutex
<1> HIDE DEF w
<1>7. /\ ProcInv(Places)'
      /\ \A x \in Task : status'[x] = IF x = t THEN "Blocked" ELSE
                                      IF x = w THEN "Ready" ELSE status[x]
  BY <1>1, <1>3, <1>5, MInvProc, BlockPlacement
<1>8. pc' = [pc EXCEPT ![t] = "lock"] /\ pc \in [Task -> Places]
  BY <1>3, <1>5 DEF WakeAndBlockAt, MInv, TypeOK, ProcTypeOK, Places
<1>9. /\ cond \in Seq(Task) /\ waiting \in Seq(Task) /\ NoRepeats(cond) /\ NoRepeats(waiting)
      /\ \A x \in Task : (status[x] = "Blocked") <=> (InSeq(x, waiting) \/ InSeq(x, cond))
      /\ \A x \in Task : ~(InSeq(x, waiting) /\ InSeq(x, cond))
  BY DEF CInv, MInv, TypeOK, QueueBut, Queued
<1>10. /\ cond' \in Seq(Task) /\ NoRepeats(cond')
       /\ \A x : InSeq(x, cond') <=> (InSeq(x, cond) \/ x = t)
  BY <1>1, <1>9, AppendQueue
<1>11. /\ waiting' \in Seq(Task) /\ NoRepeats(waiting')
       /\ \A x \in Task : InSeq(x, waiting') <=> (InSeq(x, waiting) /\ x # w)
       /\ w \in Task => InSeq(w, waiting)
  <2>1. CASE next # NoTask \/ waiting = <<>>
    BY <1>6, <1>9, <2>1, TaskAssumption
  <2>2. CASE next = NoTask /\ waiting # <<>>
    <3>1. /\ Tail(waiting) \in Seq(Task) /\ NoRepeats(Tail(waiting))
          /\ \A x : InSeq(x, Tail(waiting)) <=> (InSeq(x, waiting) /\ x # Head(waiting))
          /\ InSeq(Head(waiting), waiting)
      BY <1>9, <2>2, TailQueue
    <3> QED
      BY <1>6, <2>2, <3>1
  <2> QED
    BY <2>1, <2>2
<1>12. next' \in Task \cup {NoTask}
  BY <1>3, <1>6 DEF MInv, TypeOK
<1>13. TypeOK' /\ Placement'
  BY <1>4, <1>6, <1>7, <1>11, <1>12 DEF TypeOK, ProcInv, Places, CInv, MInv
<1>14. QueueBut(Queued)'
  <2>1. ASSUME NEW x \in Task
        PROVE  /\ (status'[x] = "Blocked") <=> (InSeq(x, waiting') \/ InSeq(x, cond'))
               /\ ~(InSeq(x, waiting') /\ InSeq(x, cond'))
    BY <1>1, <1>7, <1>9, <1>10, <1>11
  <2> QED
    BY <1>11, <2>1 DEF QueueBut, Queued
<1>15. HoldersAlive'
  BY <1>4 DEF HoldersAlive
<1>16. NextInLock' /\ (waiting' # <<>> => next' # NoTask)
  <2>1. CASE next # NoTask
    <3>1. next \in Task /\ next # t /\ pc[next] = "lock" /\ status[next] \in {"Ready", "Running"}
      BY <1>1, <1>3, <2>1 DEF MInv, NextInLock, TypeOK
    <3>2. w # next
      BY <1>6, <2>1
    <3> QED
      BY <1>6, <1>7, <1>8, <2>1, <3>1, <3>2 DEF NextInLock
  <2>2. CASE next = NoTask /\ waiting = <<>>
    BY <1>6, <2>2 DEF NextInLock
  <2>3. CASE next = NoTask /\ waiting # <<>>
    <3>1. w # t /\ pc[w] = "lock" /\ w # NoTask
      BY <1>1, <1>3, <1>6, <2>3, TaskAssumption DEF MInv, BlockedInLock
    <3> QED
      BY <1>6, <1>7, <1>8, <2>3, <3>1 DEF NextInLock
  <2> QED
    BY <2>1, <2>2, <2>3
<1>17. NoLostWakeup'
  BY <1>16 DEF NoLostWakeup, NextInLock
<1>18. BlockedInLock'
  BY <1>3, <1>7, <1>8 DEF MInv, BlockedInLock
<1>19. MInv(Queued)'
  BY <1>13, <1>14, <1>15, <1>16, <1>17, <1>18 DEF MInv
<1>20. LockingIsNotHolding' /\ inWait' \subseteq {x \in Task : pc'[x] = "lock"}
  BY <1>1, <1>6, <1>8, TaskAssumption DEF CInv, LockingIsNotHolding
<1> QED
  BY <1>1, <1>4, <1>10, <1>19, <1>20 DEF CInv

-----------------------------------------------------------------------------

(* One step of the composition. *)
LEMMA CondStep ==
  ASSUME CInv, [CondNext]_condVars
  PROVE  /\ CInv'
         /\ [Abstract!AbsNext]_holders
         /\ [\A t \in inWait : t \notin inWait' => t \in holders' /\ locked' = t]_condVars
<1>1. CASE OtherStep
  BY <1>1, MutexInside
<1>2. ASSUME NEW t \in Task, Wait(t)
      PROVE  CInv' /\ [Abstract!AbsNext]_holders /\ inWait \subseteq inWait'
  <2>1. CInv' /\ holders' = {} /\ (holders = {} \/ holders = {t}) /\ inWait \subseteq inWait'
    BY <1>2, WaitCondStep
  <2> QED
    BY <2>1 DEF Abstract!AbsNext, Abstract!Release
<1>3. ASSUME NEW t \in Task, Signal(t)
      PROVE  CInv' /\ [Abstract!AbsNext]_holders /\ inWait \subseteq inWait'
  BY <1>3, SignalStep
<1>4. CASE UNCHANGED condVars
  <2>1. UNCHANGED vars /\ UNCHANGED <<cond, inWait>>
    BY <1>4 DEF condVars, vars
  <2>2. PICK S : S = Queued
    OBVIOUS
  <2>3. MInv(S)
    BY <2>2 DEF CInv, MInv, QueueBut
  <2>4. MInv(S)' /\ Queued' = S
    BY <2>1, <2>2, <2>3, MutexStepRefines DEF Queued, InSeq
  <2>5. MInv(Queued)'
    BY <2>4 DEF MInv, QueueBut
  <2> QED
    BY <1>4, <2>1, <2>5 DEF CInv, LockingIsNotHolding, NoRepeats, vars
<1> QED
  BY <1>1, <1>2, <1>3, <1>4 DEF CondNext

(* At the start nobody waits. *)
LEMMA CondInitial == CondInit => CInv /\ Abstract!AbsInit
<1> SUFFICES ASSUME CondInit PROVE CInv /\ Abstract!AbsInit
  OBVIOUS
<1>1. Init /\ cond = <<>> /\ inWait = {}
  BY DEF CondInit
<1>2. MInv({}) /\ Abstract!AbsInit
  BY <1>1, MutexInitial
<1>3. Queued = {}
  BY <1>1 DEF Queued, InSeq
<1>4. MInv(Queued)
  BY <1>2, <1>3 DEF MInv, QueueBut
<1>5. LockingIsNotHolding
  BY <1>1 DEF Init, ProcInit, LockingIsNotHolding
<1> QED
  BY <1>1, <1>2, <1>4, <1>5 DEF CInv, NoRepeats

(* For every set of threads that lock, unlock, wait and signal: the        *)
(* processor holds each task where its status says, each blocked task      *)
(* stands in exactly one of the two queues, and a free mutex with waiters  *)
(* has one of them on its way.                                             *)
THEOREM CondvarSafety ==
  CondSpec => [](CondTypeOK /\ Placement /\ BlockedOnce /\ NoLostWakeup)
<1>1. CInv => CondTypeOK /\ Placement /\ BlockedOnce /\ NoLostWakeup
  BY QueuesHoldBlocked DEF CInv, MInv, CondTypeOK
<1>2. CInv /\ [CondNext]_condVars => CInv'
  BY CondStep
<1> QED
  BY <1>1, <1>2, CondInitial, PTL DEF CondSpec

(* wait() returns only to a task that holds the mutex. *)
THEOREM CondvarReturns == CondSpec => WaitReturnsLocked
<1>1. CInv /\ [CondNext]_condVars =>
        /\ CInv'
        /\ [\A t \in inWait : t \notin inWait' => t \in holders' /\ locked' = t]_condVars
  BY CondStep
<1> QED
  BY <1>1, CondInitial, PTL DEF CondSpec, WaitReturnsLocked

(* Giving the mutex up inside wait() keeps it an AbstractMutex. *)
THEOREM CondvarRefinement == CondSpec => RefinesAbstract
<1>1. CInv /\ [CondNext]_condVars => CInv' /\ [Abstract!AbsNext]_holders
  BY CondStep
<1> QED
  BY <1>1, CondInitial, PTL DEF CondSpec, RefinesAbstract, Abstract!AbsSpec

=============================================================================
