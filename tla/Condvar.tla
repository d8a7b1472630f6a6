------------------------------ MODULE Condvar ------------------------------
(***************************************************************************)
(* sync/condvar.rs: a condition variable used with a mutex.  With a        *)
(* blocking one a task may block in either of two queues and moves from    *)
(* one to the other.                                                       *)
(***************************************************************************)
EXTENDS Mutex

VARIABLES
  cond,      \* CondvarBlockingInner.waiting, Weaks
  inWait     \* tasks inside wait()

condVars == <<current, ready, status, pc, kind, locked, next, waiting, holders, cond, inWait>>

(* Variant: wait() does not lock the mutex again. *)
WaitNoRelock(t) ==
  /\ InUser(t)
  /\ UnlockMutex(t)
  /\ cond' = Append(cond, t)
  /\ inWait' = inWait \cup {t}
  /\ WakeAndBlockAt(t, Woken, "user")

(* wait(): unlock, queue up, block; then go on in mutex.lock().  When      *)
(* somebody else holds the mutex, unlock() fails before anything is queued *)
(* and the caller exits: that is UnlockForeign.                            *)
Wait(t) ==
  /\ InUser(t)
  /\ UnlockMutex(t)
  /\ cond' = Append(cond, t)
  /\ inWait' = inWait \cup {t}
  /\ WakeAndBlockAt(t, Woken, "lock")

(* Variant: front() instead of pop_front(). *)
SignalPeeks(t) ==
  /\ InUser(t)
  /\ WakeAndReturn(t, PopLive(cond))
  /\ UNCHANGED <<kind, locked, next, waiting, holders, cond, inWait>>

(* signal(): wake the first waiter that is alive. *)
Signal(t) ==
  /\ InUser(t)
  /\ cond' = RestLive(cond)
  /\ WakeAndReturn(t, PopLive(cond))
  /\ UNCHANGED <<kind, locked, next, waiting, holders, inWait>>

(* Any step of the mutex or the processor.  A task leaves wait() when the  *)
(* lock() at its end returns.                                              *)
OtherStep ==
  /\ Next
  /\ inWait' = {t \in inWait : pc'[t] # "user"}
  /\ UNCHANGED cond

CondInit == Init /\ cond = <<>> /\ inWait = {}

CondNext == OtherStep \/ \E t \in Task : Wait(t) \/ Signal(t)

CondSpec == CondInit /\ [][CondNext]_condVars

-----------------------------------------------------------------------------

(* Type invariant of the composition. *)
CondTypeOK == TypeOK /\ cond \in Seq(Task) /\ inWait \subseteq Task

(* Every blocked task stands in exactly one of the two queues, once: no    *)
(* task sleeps where neither unlock() nor signal() would find it, and none *)
(* can be woken twice.                                                     *)
BlockedOnce ==
  /\ NoRepeats(waiting \o cond)
  /\ \A t \in Task : (status[t] = "Blocked") <=> InSeq(t, waiting \o cond)

(* wait() returns only with the mutex held, however many tasks were        *)
(* signalled together and whoever took the mutex in between.               *)
WaitReturnsLocked ==
  [][\A t \in inWait : t \notin inWait' => t \in holders' /\ locked' = t]_condVars

-----------------------------------------------------------------------------
(* Liveness.  The kernel never stops inside a handler, the timer interrupt *)
(* ends every time slice, and the queue is first in first out, so the      *)
(* kernel steps are weakly fair.  SF on Unlock says that the program leaves*)
(* its critical sections, SF on Signal that the program that keeps running *)
(* keeps signalling: each time it runs it may be interrupted first.        *)
CondFairness ==
  /\ WF_condVars(OtherStep /\ ScheduleStep)
  /\ \A t \in Task :
       /\ WF_condVars(OtherStep /\ pc[t] = "lock" /\ (LockTake(t) \/ LockSpin(t) \/ LockWait(t)))
       /\ WF_condVars(OtherStep /\ Preempt(t) /\ UNCHANGED mutexVars)
       /\ SF_condVars(OtherStep /\ t \in holders /\ Unlock(t))
  /\ SF_condVars(\E t \in Task : Signal(t))

CondFairSpec == CondSpec /\ CondFairness

(* A free mutex that is wanted is taken again: when tasks wait for it      *)
(* unlock() has woken one, and a task that spins for it does not miss it,  *)
(* also when its holder was reaped, whether or not a running thread comes  *)
(* first.                                                                  *)
Wanted ==
  \/ locked = NoTask /\ waiting # <<>>
  \/ \E t \in Task : pc[t] = "lock" /\ status[t] # "Blocked"

FreeMutexTaken == (Upgrade(locked) = NoTask /\ Wanted) ~> (Upgrade(locked) # NoTask)

(* No waiter is passed over for ever, whoever barges in between the unlock *)
(* that wakes a task and the turn in which that task tries again: each     *)
(* task in the queue of the mutex is woken in the end.  The one thing that *)
(* leaves it there is a holder that has exited without unlocking: it keeps *)
(* the mutex until it is reaped, and reaping it wakes nobody.              *)
HolderGone == locked # NoTask /\ status[locked] \in {"Zombie", "Dropped"}

WaitersWoken ==
  \A t \in Task : InSeq(t, waiting) ~> (~InSeq(t, waiting) \/ HolderGone)

(* Every task in wait() is signalled as long as some thread keeps running  *)
(* code that signals: the queue is first in, first out.                    *)
SignalReachesAll ==
  []<>(\E t \in Task : InUser(t)) =>
    \A t \in Task : InSeq(t, cond) ~> ~InSeq(t, cond)

=============================================================================
