----------------------------- MODULE Semaphore -----------------------------
(***************************************************************************)
(* sync/semaphore.rs: a semaphore, used by the threads of one process      *)
(* through sys_up_semaphore and sys_down_semaphore.  sys_create_semaphore  *)
(* makes it a blocking or a spinning one; the spinning one has no waiting, *)
(* which stays empty.                                                      *)
(*                                                                         *)
(* sys_create_semaphore takes any isize.  One that starts below zero owes  *)
(* permits: it has fewer waiters than its count says.                      *)
(***************************************************************************)
EXTENDS Processor, Integers, FiniteSets

CONSTANTS
  InitCounts,  \* counts a process gives to sys_create_semaphore
  MaxCount     \* bound of the model: no up() beyond this count

ASSUME CountAssumption == InitCounts \subseteq Int /\ MaxCount \in Nat

ASSUME FiniteTasks == IsFiniteSet(Task)

VARIABLES
  kind,      \* the type behind dyn Semaphore
  start,     \* the count the semaphore was created with
  count,     \* permits left, or minus the waiters and the permits owed
  waiting    \* blocked tasks, Weaks

semVars == <<kind, start, count, waiting>>

vars == <<current, ready, status, pc, kind, start, count, waiting>>

SemInit ==
  /\ kind \in {"blocking", "spin"}
  /\ start \in InitCounts
  /\ count = start
  /\ waiting = <<>>

(* Task t looks at count: it makes the system call, or it goes on after    *)
(* the switch in the loop of the spinning semaphore.                       *)
AtDown(t) ==
  /\ current = t
  /\ t # NoTask
  /\ pc[t] = "user" \/ (kind = "spin" /\ pc[t] = "down")

(* down() with a permit left. *)
DownTake(t) ==
  /\ AtDown(t)
  /\ count > 0
  /\ count' = count - 1
  /\ pc' = [pc EXCEPT ![t] = "user"]
  /\ UNCHANGED <<current, ready, status, kind, start, waiting>>

(* down() without one: a spinning semaphore yields and tries again. *)
DownSpin(t) ==
  /\ AtDown(t)
  /\ kind = "spin"
  /\ count <= 0
  /\ SuspendAt(t, "down")
  /\ UNCHANGED semVars

(* A blocking one counts the task as a waiter. *)
DownWait(t) ==
  /\ AtDown(t)
  /\ kind = "blocking"
  /\ count - 1 < 0
  /\ count' = count - 1
  /\ waiting' = Append(waiting, t)
  /\ WakeAndBlockAt(t, NoTask, "down")
  /\ UNCHANGED <<kind, start>>

(* Once woken, the task returns from down() without looking at count.      *)
DownReturn(t) ==
  /\ current = t
  /\ t # NoTask
  /\ kind = "blocking"
  /\ pc[t] = "down"
  /\ pc' = [pc EXCEPT ![t] = "user"]
  /\ UNCHANGED <<current, ready, status, kind, start, count, waiting>>

Woken == IF count + 1 <= 0 THEN PopLive(waiting) ELSE NoTask

(* Variant: front() instead of pop_front(). *)
UpPeeks(t) ==
  /\ InUser(t)
  /\ count < MaxCount
  /\ count' = count + 1
  /\ WakeAndReturn(t, Woken)
  /\ UNCHANGED <<kind, start, waiting>>

(* Variant: the last waiter is not woken. *)
UpLate(t) ==
  /\ InUser(t)
  /\ count < MaxCount
  /\ count' = count + 1
  /\ waiting' = IF count + 1 < 0 THEN RestLive(waiting) ELSE waiting
  /\ WakeAndReturn(t, IF count + 1 < 0 THEN PopLive(waiting) ELSE NoTask)
  /\ UNCHANGED <<kind, start>>

(* Variant: count is raised before and after the test. *)
UpTwice(t) ==
  /\ InUser(t)
  /\ count < MaxCount
  /\ count' = count + 2
  /\ waiting' = IF count + 1 <= 0 THEN RestLive(waiting) ELSE waiting
  /\ WakeAndReturn(t, Woken)
  /\ UNCHANGED <<kind, start>>

Up(t) ==
  /\ InUser(t)
  /\ count < MaxCount
  /\ count' = count + 1
  /\ waiting' = IF count + 1 <= 0 THEN RestLive(waiting) ELSE waiting
  /\ WakeAndReturn(t, Woken)
  /\ UNCHANGED <<kind, start>>

ProcStep(t) ==
  /\ \/ Preempt(t)
     \/ InUser(t) /\ ExitOf(t)
     \/ \E other \in Task : ThreadCreate(t, other) \/ Reap(t, other)
  /\ UNCHANGED semVars

ScheduleStep == Schedule /\ UNCHANGED semVars

Init == ProcInit /\ SemInit

Next ==
  \/ ScheduleStep
  \/ \E t \in Task :
       DownTake(t) \/ DownSpin(t) \/ DownWait(t) \/ DownReturn(t) \/ Up(t) \/ ProcStep(t)

Spec == Init /\ [][Next]_vars

-----------------------------------------------------------------------------

(* Type invariant. *)
TypeOK ==
  /\ ProcTypeOK({"user", "down"})
  /\ kind \in {"blocking", "spin"}
  /\ start \in InitCounts
  /\ count \in Int
  /\ waiting \in Seq(Task)

(* The queue holds exactly the tasks blocked in down(), each once.         *)
WaitersBlocked ==
  /\ NoRepeats(waiting)
  /\ \A t \in Task : (status[t] = "Blocked") <=> InSeq(t, waiting)

(* A negative count is the number of waiters and of permits still owed     *)
(* since the creation, and nobody waits while a permit is left: up() wakes *)
(* a task exactly when one is waiting.  Waiters never add to what is owed, *)
(* so a semaphore created with a count >= 0 counts its waiters exactly.  A *)
(* spinning semaphore only goes below zero by being created there.         *)
Positive(n) == IF n > 0 THEN n ELSE 0

CountIsWaiters ==
  /\ Len(waiting) <= Positive(-count)
  /\ Positive(-count) - Len(waiting) <= Positive(-start)
  /\ kind = "spin" => count >= 0 \/ count >= start

(* Tasks up() has given a permit to and that have not returned yet.        *)
Granted == {t \in Task : kind = "blocking" /\ pc[t] = "down" /\ status[t] # "Blocked"}

Abstract == INSTANCE AbstractSemaphore
  WITH InitPermits <- {Positive(n) : n \in InitCounts},
       permits <- Positive(count) + Cardinality(Granted)

(* Every down() that returns uses one permit, none made up or used twice,  *)
(* whatever the order of ups, downs and switches: down() does not recheck  *)
(* count after it blocked, so a second grant would go unnoticed.           *)
RefinesAbstract == Abstract!AbsSpec

(* Kernel steps are weakly fair, time slices end; SF on Up: the program    *)
(* that keeps running keeps calling up().                                  *)
Fairness ==
  /\ WF_vars(ScheduleStep)
  /\ \A t \in Task :
       /\ WF_vars(pc[t] = "down" /\ (DownTake(t) \/ DownSpin(t) \/ DownReturn(t)))
       /\ WF_vars(Preempt(t) /\ UNCHANGED semVars)
  /\ SF_vars(\E t \in Task : Up(t))

FairSpec == Spec /\ Fairness

(* As long as some thread keeps running user code that calls up(), every   *)
(* task blocked in down() is woken and returns, later downs not overtaking *)
(* it.  A task that spins has no place in a queue: it returns unless the   *)
(* permits run out again and again.                                        *)
WaitersServed ==
  []<>(\E t \in Task : InUser(t)) =>
    \A t \in Task : (pc[t] = "down") ~> (pc[t] = "user" \/ (kind = "spin" /\ count <= 0))

=============================================================================
