-------------------------- MODULE SemaphoreProofs --------------------------
(***************************************************************************)
(* Both semaphores keep their queue and their count in step, and implement *)
(* AbstractSemaphore, for every set of threads and every initial count,    *)
(* negative ones included.                                                 *)
(***************************************************************************)
EXTENDS Semaphore, ProcessorProofs, FiniteSetTheorems

Places == {"user", "down"}

(* A blocked task goes on inside down() of a blocking semaphore. *)
BlockedInDown ==
  \A t \in Task : status[t] = "Blocked" => pc[t] = "down" /\ kind = "blocking"

SInv ==
  /\ TypeOK
  /\ Placement
  /\ WaitersBlocked
  /\ CountIsWaiters
  /\ BlockedInDown

(* SInv speaks of the processor through ProcInv. *)
LEMMA SInvProc == SInv => ProcInv(Places)
BY DEF SInv, TypeOK, Places, ProcInv

(* What up() takes from the queue: the first waiter, which is blocked, and *)
(* nobody exactly when nobody waits.                                       *)
LEMMA WokenWaiter ==
  ASSUME SInv
  PROVE  /\ waiting = <<>> => Woken = NoTask /\ RestLive(waiting) = <<>>
         /\ waiting # <<>> =>
              /\ count + 1 <= 0
              /\ Woken = Head(waiting)
              /\ RestLive(waiting) = Tail(waiting)
              /\ Woken \in Task
              /\ status[Woken] = "Blocked"
         /\ Wakeable(Woken)
<1>1. /\ waiting \in Seq(Task)
      /\ \A t \in Task : InSeq(t, waiting) => status[t] # "Dropped"
  BY DEF SInv, TypeOK, WaitersBlocked
<1>2. /\ waiting = <<>> => PopLive(waiting) = NoTask /\ RestLive(waiting) = <<>>
      /\ waiting # <<>> => PopLive(waiting) = Head(waiting) /\ RestLive(waiting) = Tail(waiting)
  BY <1>1, PopLiveQueue
<1>3. waiting # <<>> => count + 1 <= 0
  <2>1. SUFFICES ASSUME waiting # <<>> PROVE count + 1 <= 0
    OBVIOUS
  <2>2. Len(waiting) \in Nat /\ Len(waiting) # 0
    BY <1>1, <2>1
  <2> QED
    BY <2>2 DEF SInv, TypeOK, CountIsWaiters, Positive
<1>4. waiting # <<>> => Head(waiting) \in Task /\ InSeq(Head(waiting), waiting)
  BY <1>1, TailQueue
<1>5. waiting # <<>> => Head(waiting) \in Task /\ status[Head(waiting)] = "Blocked"
  BY <1>4 DEF SInv, WaitersBlocked
<1> QED
  BY <1>2, <1>3, <1>5 DEF Wakeable, Woken

-----------------------------------------------------------------------------
(* One lemma per step: the invariant is kept, and what happens to the      *)
(* permits that are left and to the tasks that were given one.             *)

(* down() that finds a permit. *)
LEMMA TakeStep ==
  ASSUME SInv, NEW t \in Task, DownTake(t)
  PROVE  SInv' /\ Granted' = Granted /\ count > 0 /\ count' = count - 1
<1>1. /\ current = t /\ status[t] = "Running" /\ count > 0 /\ count' = count - 1
      /\ pc' = [pc EXCEPT ![t] = "user"]
      /\ UNCHANGED <<current, ready, status, kind, start, waiting>>
      /\ pc[t] = "user" \/ kind = "spin"
  BY DEF DownTake, AtDown, SInv, Placement
<1>2. TypeOK' /\ Placement' /\ WaitersBlocked'
  BY <1>1 DEF SInv, TypeOK, ProcTypeOK, Placement, WaitersBlocked
<1>3. CountIsWaiters'
  BY <1>1 DEF SInv, TypeOK, CountIsWaiters, Positive
<1>4. BlockedInDown'
  BY <1>1 DEF SInv, BlockedInDown, TypeOK, ProcTypeOK
<1>5. Granted' = Granted
  BY <1>1 DEF Granted, SInv, TypeOK, ProcTypeOK
<1> QED
  BY <1>1, <1>2, <1>3, <1>4, <1>5 DEF SInv

(* down() of a spinning semaphore that finds none. *)
LEMMA SpinStep ==
  ASSUME SInv, NEW t \in Task, DownSpin(t)
  PROVE  SInv' /\ Granted' = Granted /\ count' = count
<1>1. /\ current = t /\ status[t] = "Running" /\ kind = "spin"
      /\ SuspendAt(t, "down") /\ "down" \in Places
      /\ UNCHANGED <<kind, start, count, waiting>>
  BY DEF DownSpin, AtDown, SInv, Placement, Places, semVars
<1>2. ProcInv(Places)'
  BY <1>1, SInvProc, SuspendPlacement
<1>3. \A x \in Task : status'[x] = IF x = t THEN "Ready" ELSE status[x]
  BY <1>1 DEF SInv, TypeOK, ProcTypeOK, SuspendAt
<1>4. TypeOK' /\ Placement' /\ WaitersBlocked'
  BY <1>1, <1>2, <1>3 DEF SInv, TypeOK, ProcInv, Places, WaitersBlocked
<1>5. CountIsWaiters' /\ BlockedInDown'
  BY <1>1, <1>3 DEF SInv, CountIsWaiters, BlockedInDown, Positive
<1>6. Granted' = Granted
  BY <1>1 DEF Granted
<1> QED
  BY <1>1, <1>4, <1>5, <1>6 DEF SInv

(* down() of a blocking semaphore that finds none. *)
LEMMA WaitStep ==
  ASSUME SInv, NEW t \in Task, DownWait(t)
  PROVE  SInv' /\ Granted' = Granted /\ count <= 0 /\ count' = count - 1
<1>1. /\ current = t /\ status[t] = "Running" /\ kind = "blocking" /\ pc[t] = "user"
      /\ count <= 0 /\ count' = count - 1 /\ waiting' = Append(waiting, t)
      /\ WakeAndBlockAt(t, NoTask, "down")
      /\ UNCHANGED <<kind, start>>
  BY DEF DownWait, AtDown, SInv, Placement, TypeOK
<1>2. /\ ProcInv(Places)'
      /\ \A x \in Task : status'[x] = IF x = t THEN "Blocked" ELSE status[x]
  <2>1. Wakeable(NoTask) /\ "down" \in Places
    BY DEF Wakeable, Places
  <2>2. /\ ProcInv(Places)'
        /\ \A x \in Task : status'[x] = IF x = t THEN "Blocked" ELSE
                                        IF x = NoTask THEN "Ready" ELSE status[x]
    BY <1>1, <2>1, SInvProc, BlockPlacement
  <2> QED
    BY <2>2, TaskAssumption
<1>3. waiting \in Seq(Task) /\ ~InSeq(t, waiting) /\ NoRepeats(waiting)
  BY <1>1 DEF SInv, TypeOK, WaitersBlocked
<1>4. /\ waiting' \in Seq(Task)
      /\ NoRepeats(waiting')
      /\ \A x : InSeq(x, waiting') <=> (InSeq(x, waiting) \/ x = t)
  BY <1>1, <1>3, AppendQueue
<1>5. TypeOK' /\ Placement' /\ WaitersBlocked'
  BY <1>1, <1>2, <1>4 DEF SInv, TypeOK, ProcInv, Places, WaitersBlocked
<1>6. CountIsWaiters'
  <2>1. Len(waiting') = Len(waiting) + 1 /\ Len(waiting) \in Nat
    BY <1>1, <1>3
  <2> QED
    BY <1>1, <2>1, CountAssumption DEF SInv, TypeOK, CountIsWaiters, Positive
<1>7. pc' = [pc EXCEPT ![t] = "down"]
  BY <1>1 DEF WakeAndBlockAt
<1>8. BlockedInDown'
  BY <1>1, <1>2, <1>7 DEF SInv, BlockedInDown, TypeOK, ProcTypeOK
<1>9. Granted' = Granted
  BY <1>1, <1>2, <1>7 DEF Granted, SInv, TypeOK, ProcTypeOK
<1> QED
  BY <1>1, <1>5, <1>6, <1>8, <1>9 DEF SInv

(* down() that returns after it was blocked: it uses what it was given. *)
LEMMA ReturnStep ==
  ASSUME SInv, NEW t \in Task, DownReturn(t)
  PROVE  SInv' /\ t \in Granted /\ Granted' = Granted \ {t} /\ count' = count
<1>1. /\ current = t /\ status[t] = "Running" /\ kind = "blocking" /\ pc[t] = "down"
      /\ pc' = [pc EXCEPT ![t] = "user"]
      /\ UNCHANGED <<current, ready, status, kind, start, count, waiting>>
  BY DEF DownReturn, SInv, Placement
<1>2. TypeOK' /\ Placement' /\ WaitersBlocked'
  BY <1>1 DEF SInv, TypeOK, ProcTypeOK, Placement, WaitersBlocked
<1>3. CountIsWaiters' /\ BlockedInDown'
  BY <1>1 DEF SInv, CountIsWaiters, BlockedInDown, TypeOK, ProcTypeOK, Positive
<1>4. t \in Granted /\ Granted' = Granted \ {t}
  BY <1>1 DEF Granted, SInv, TypeOK, ProcTypeOK
<1> QED
  BY <1>1, <1>2, <1>3, <1>4 DEF SInv

(* up(): with a waiter the permit goes to it, else to the count. *)
LEMMA UpStep ==
  ASSUME SInv, NEW t \in Task, Up(t)
  PROVE  /\ SInv'
         /\ count' = count + 1
         /\ \/ Granted' = Granted
            \/ count' <= 0 /\ \E w \in Task \ Granted : Granted' = Granted \cup {w}
<1>1. /\ current = t /\ status[t] = "Running" /\ pc[t] = "user" /\ count' = count + 1
      /\ waiting' = IF count + 1 <= 0 THEN RestLive(waiting) ELSE waiting
      /\ WakeAndReturn(t, Woken)
      /\ UNCHANGED <<kind, start>>
  BY DEF Up, InUser, SInv, Placement
<1> DEFINE w == Woken
<1>2. /\ ProcInv(Places)'
      /\ \A x \in Task : status'[x] = IF x = w THEN "Ready" ELSE status[x]
  <2>1. Wakeable(w) /\ WakeAndReturn(t, w) /\ "user" \in Places
    BY <1>1, WokenWaiter DEF Places
  <2> HIDE DEF w
  <2> QED
    BY <1>1, <2>1, SInvProc, ReturnPlacement
<1>3. pc' = pc
  BY <1>1 DEF WakeAndReturn, SInv, TypeOK, ProcTypeOK
<1>4. CASE waiting = <<>>
  <2>1. w = NoTask /\ waiting' = waiting /\ waiting' = <<>>
    BY <1>1, <1>4, WokenWaiter
  <2> HIDE DEF w
  <2>2. \A x \in Task : status'[x] = status[x]
    BY <1>2, <2>1, TaskAssumption
  <2>3. TypeOK' /\ Placement' /\ WaitersBlocked'
    <3>1. waiting \in Seq(Task) /\ count' \in Int /\ UNCHANGED <<kind, start>>
      BY <1>1 DEF SInv, TypeOK
    <3> QED
      BY <1>2, <2>1, <2>2, <3>1 DEF SInv, TypeOK, ProcInv, Places, WaitersBlocked
  <2>4. CountIsWaiters'
    <3>1. Len(waiting) = 0 /\ Len(waiting') = 0 /\ count' = count + 1
      BY <1>1, <1>4, <2>1
    <3>2. count \in Int /\ start \in Int /\ UNCHANGED <<kind, start>>
      BY <1>1, CountAssumption DEF SInv, TypeOK
    <3> QED
      BY <3>1, <3>2 DEF SInv, CountIsWaiters, Positive
  <2>5. BlockedInDown' /\ Granted' = Granted
    BY <1>1, <1>3, <2>2 DEF SInv, BlockedInDown, Granted
  <2> QED
    BY <1>1, <2>3, <2>4, <2>5 DEF SInv
<1>5. CASE waiting # <<>>
  <2>1. /\ count + 1 <= 0 /\ w = Head(waiting) /\ w \in Task /\ status[w] = "Blocked"
        /\ waiting' = Tail(waiting)
    BY <1>1, <1>5, WokenWaiter
  <2> HIDE DEF w
  <2>2. /\ waiting' \in Seq(Task)
        /\ Len(waiting') = Len(waiting) - 1
        /\ NoRepeats(waiting')
        /\ \A x : InSeq(x, waiting') <=> (InSeq(x, waiting) /\ x # w)
    BY <1>5, <2>1, TailQueue DEF SInv, TypeOK, WaitersBlocked
  <2>3. TypeOK' /\ Placement'
    BY <1>1, <1>2, <2>2 DEF SInv, TypeOK, ProcInv, Places
  <2>4. WaitersBlocked'
    BY <1>2, <2>2 DEF SInv, WaitersBlocked
  <2>5. CountIsWaiters'
    BY <1>1, <2>1, <2>2, CountAssumption DEF SInv, TypeOK, CountIsWaiters, Positive
  <2>6. BlockedInDown'
    BY <1>1, <1>2, <1>3 DEF SInv, BlockedInDown
  <2>7. w \notin Granted /\ Granted' = Granted \cup {w}
    BY <1>1, <1>2, <1>3, <2>1 DEF Granted, SInv, BlockedInDown
  <2> QED
    BY <1>1, <2>1, <2>3, <2>4, <2>5, <2>6, <2>7 DEF SInv
<1> QED
  BY <1>4, <1>5

(* The steps that do not touch the semaphore, and that neither block a     *)
(* task nor wake one.                                                      *)
LEMMA QuietStep ==
  ASSUME SInv, ProcInv(Places)', UNCHANGED semVars,
         \A x \in Task : (status'[x] = "Blocked") <=> (status[x] = "Blocked"),
         \A x \in Task : (pc'[x] = "down") <=> (pc[x] = "down")
  PROVE  SInv' /\ Granted' = Granted /\ count' = count
<1>1. UNCHANGED <<kind, start, count, waiting>>
  BY DEF semVars
<1>2. TypeOK' /\ Placement' /\ WaitersBlocked'
  BY <1>1 DEF SInv, TypeOK, ProcInv, Places, WaitersBlocked
<1>3. CountIsWaiters' /\ BlockedInDown'
  BY <1>1 DEF SInv, CountIsWaiters, BlockedInDown, Positive
<1>4. Granted' = Granted
  BY <1>1 DEF Granted
<1> QED
  BY <1>1, <1>2, <1>3, <1>4 DEF SInv

(* The scheduler, the end of a time slice, a thread's exit or creation,    *)
(* and the reaping of a zombie are such steps.                             *)
LEMMA OtherSteps ==
  ASSUME SInv, ScheduleStep \/ \E t \in Task : ProcStep(t)
  PROVE  SInv' /\ Granted' = Granted /\ count' = count
<1>0. /\ status \in [Task -> {"Unborn", "Ready", "Running", "Blocked", "Zombie", "Dropped"}]
      /\ pc \in [Task -> Places]
      /\ "user" \in Places
  BY DEF SInv, TypeOK, ProcTypeOK, Places
<1>1. CASE ScheduleStep
  <2>1. /\ ProcInv(Places)'
        /\ current' \in Task
        /\ status[current'] = "Ready"
        /\ status' = [status EXCEPT ![current'] = "Running"]
    BY <1>1, SInvProc, SchedulePlacement DEF ScheduleStep
  <2>2. UNCHANGED pc /\ UNCHANGED semVars
    BY <1>1 DEF ScheduleStep, Schedule
  <2> QED
    BY <1>0, <2>1, <2>2, QuietStep
<1>2. ASSUME NEW t \in Task, Preempt(t), UNCHANGED semVars
      PROVE  SInv' /\ Granted' = Granted /\ count' = count
  <2>1. current = t /\ SuspendAt(t, "user") /\ status[t] = "Running" /\ pc[t] = "user"
    BY <1>2 DEF Preempt, InUser, SInv, Placement
  <2>2. ProcInv(Places)'
    BY <1>0, <2>1, SInvProc, SuspendPlacement
  <2>3. /\ \A x \in Task : (status'[x] = "Blocked") <=> (status[x] = "Blocked")
        /\ \A x \in Task : (pc'[x] = "down") <=> (pc[x] = "down")
    BY <1>0, <2>1 DEF SuspendAt
  <2> QED
    BY <1>2, <2>2, <2>3, QuietStep
<1>3. ASSUME NEW t \in Task, InUser(t), ExitOf(t), UNCHANGED semVars
      PROVE  SInv' /\ Granted' = Granted /\ count' = count
  <2>1. current = t /\ status[t] = "Running" /\ pc[t] = "user"
    BY <1>3 DEF InUser, SInv, Placement
  <2>2. ProcInv(Places)'
    BY <1>0, <1>3, <2>1, SInvProc, ExitPlacement
  <2>3. /\ \A x \in Task : (status'[x] = "Blocked") <=> (status[x] = "Blocked")
        /\ \A x \in Task : (pc'[x] = "down") <=> (pc[x] = "down")
    BY <1>0, <1>3, <2>1 DEF ExitOf
  <2> QED
    BY <1>3, <2>2, <2>3, QuietStep
<1>4. ASSUME NEW t \in Task, NEW new \in Task, ThreadCreate(t, new), UNCHANGED semVars
      PROVE  SInv' /\ Granted' = Granted /\ count' = count
  <2>1. CASE t = Root
    <3>1. ProcInv(Places)'
      BY <1>0, <1>4, SInvProc, CreatePlacement
    <3>2. status[new] = "Unborn" /\ UNCHANGED pc /\ status' = [status EXCEPT ![new] = "Ready"]
      BY <1>4, <2>1 DEF ThreadCreate
    <3> QED
      BY <1>0, <1>4, <3>1, <3>2, QuietStep
  <2>2. CASE t # Root
    BY <1>3, <1>4, <2>2 DEF ThreadCreate
  <2> QED
    BY <2>1, <2>2
<1>5. ASSUME NEW t \in Task, NEW dead \in Task, Reap(t, dead), UNCHANGED semVars
      PROVE  SInv' /\ Granted' = Granted /\ count' = count
  <2>1. ProcInv(Places)'
    BY <1>5, SInvProc, ReapPlacement
  <2>2. /\ status[dead] = "Zombie" /\ UNCHANGED pc
        /\ status' = [status EXCEPT ![dead] = "Dropped"]
    BY <1>5 DEF Reap
  <2> QED
    BY <1>0, <1>5, <2>1, <2>2, QuietStep
<1> QED
  BY <1>1, <1>2, <1>3, <1>4, <1>5 DEF ProcStep

-----------------------------------------------------------------------------

Permits == Positive(count) + Cardinality(Granted)

(* There are finitely many grants. *)
LEMMA GrantedFinite == IsFiniteSet(Granted) /\ Cardinality(Granted) \in Nat
<1>1. Granted \in SUBSET Task
  BY DEF Granted
<1>2. IsFiniteSet(Granted)
  BY <1>1, FiniteTasks, FS_Subset
<1> QED
  BY <1>2, FS_CardinalityType

(* Every step keeps the invariant and is a step of AbstractSemaphore: the  *)
(* permits grow by an up(), unless it pays what the semaphore owes, and    *)
(* shrink by a down() that returns.                                        *)
LEMMA StepRefines ==
  ASSUME SInv, [Next]_vars
  PROVE  SInv' /\ [Abstract!Up \/ Abstract!DownReturns]_Permits
<1> USE DEF Abstract!Up, Abstract!DownReturns, Permits
<1>0. count \in Int /\ Cardinality(Granted) \in Nat /\ IsFiniteSet(Granted)
  BY GrantedFinite DEF SInv, TypeOK
<1>1. ASSUME NEW t \in Task, DownTake(t)
      PROVE  SInv' /\ [Abstract!Up \/ Abstract!DownReturns]_Permits
  BY <1>0, <1>1, TakeStep DEF Positive
<1>2. ASSUME NEW t \in Task, DownSpin(t) \/ DownWait(t)
      PROVE  SInv' /\ [Abstract!Up \/ Abstract!DownReturns]_Permits
  BY <1>0, <1>2, SpinStep, WaitStep DEF Positive
<1>3. ASSUME NEW t \in Task, DownReturn(t)
      PROVE  SInv' /\ [Abstract!Up \/ Abstract!DownReturns]_Permits
  <2>1. t \in Granted /\ Granted' = Granted \ {t} /\ count' = count /\ SInv'
    BY <1>3, ReturnStep
  <2>2. Cardinality(Granted') = Cardinality(Granted) - 1 /\ Cardinality(Granted) # 0
    BY <1>0, <2>1, FS_RemoveElement, FS_EmptySet
  <2> QED
    BY <1>0, <2>1, <2>2 DEF Positive
<1>4. ASSUME NEW t \in Task, Up(t)
      PROVE  SInv' /\ [Abstract!Up \/ Abstract!DownReturns]_Permits
  <2>1. CASE Granted' = Granted
    BY <1>0, <1>4, <2>1, UpStep DEF Positive
  <2>2. CASE count' <= 0 /\ \E w \in Task \ Granted : Granted' = Granted \cup {w}
    <3>1. PICK w \in Task \ Granted : Granted' = Granted \cup {w}
      BY <2>2
    <3>2. Cardinality(Granted') = Cardinality(Granted) + 1
      BY <1>0, <3>1, FS_AddElement
    <3>3. SInv' /\ count' = count + 1
      BY <1>4, UpStep
    <3> QED
      BY <1>0, <2>2, <3>2, <3>3 DEF Positive
  <2> QED
    BY <1>4, <2>1, <2>2, UpStep
<1>5. CASE ScheduleStep \/ \E t \in Task : ProcStep(t)
  BY <1>0, <1>5, OtherSteps DEF Positive
<1>6. CASE UNCHANGED vars
  <2>1. SInv'
    BY <1>6 DEF vars, SInv, TypeOK, ProcTypeOK, Placement, NoRepeats, InSeq, WaitersBlocked,
                CountIsWaiters, Positive, BlockedInDown
  <2>2. UNCHANGED Permits
    BY <1>6 DEF vars, Granted, Positive
  <2> QED
    BY <2>1, <2>2
<1> QED
  BY <1>1, <1>2, <1>3, <1>4, <1>5, <1>6 DEF Next

(* The invariant holds of a semaphore just created, with its permits. *)
LEMMA SemaphoreInitial == Init => SInv /\ Abstract!AbsInit
<1> SUFFICES ASSUME Init PROVE SInv /\ Abstract!AbsInit
  OBVIOUS
<1>1. ProcInv(Places)
  BY InitPlacement DEF Init, Places
<1>2. /\ kind \in {"blocking", "spin"} /\ start \in InitCounts /\ start \in Int
      /\ count = start /\ waiting = <<>>
  BY CountAssumption DEF Init, SemInit
<1>3. \A t \in Task : status[t] \in {"Ready", "Unborn"} /\ pc[t] = "user"
  BY DEF Init, ProcInit
<1>4. TypeOK /\ Placement
  BY <1>1, <1>2 DEF TypeOK, ProcInv, Places
<1>5. WaitersBlocked /\ BlockedInDown
  BY <1>2, <1>3 DEF WaitersBlocked, NoRepeats, InSeq, BlockedInDown
<1>6. CountIsWaiters
  BY <1>2 DEF CountIsWaiters, Positive
<1>7. Granted = {}
  BY <1>3 DEF Granted
<1>8. Positive(count) + Cardinality(Granted) = Positive(start)
  BY <1>2, <1>7, FS_EmptySet DEF Positive
<1> QED
  BY <1>2, <1>4, <1>5, <1>6, <1>8 DEF SInv, Abstract!AbsInit

(* For every set of threads and every initial count: the queue of the      *)
(* semaphore and the ready queue agree with the status of the tasks, and a *)
(* negative count with the waiters and what the semaphore owes.            *)
THEOREM SemaphoreSafety ==
  Spec => [](TypeOK /\ Placement /\ WaitersBlocked /\ CountIsWaiters)
<1>1. SInv => TypeOK /\ Placement /\ WaitersBlocked /\ CountIsWaiters
  BY DEF SInv
<1>2. SInv /\ [Next]_vars => SInv'
  BY StepRefines
<1> QED
  BY <1>1, <1>2, SemaphoreInitial, PTL DEF Spec

(* Both semaphores implement AbstractSemaphore: no down() returns without  *)
(* a permit of its own, although it does not look at count once woken.     *)
THEOREM SemaphoreRefinement == Spec => RefinesAbstract
<1>1. SInv /\ [Next]_vars => SInv' /\ [Abstract!Up \/ Abstract!DownReturns]_Permits
  BY StepRefines
<1> QED
  BY <1>1, SemaphoreInitial, PTL DEF Spec, RefinesAbstract, Abstract!AbsSpec, Permits

=============================================================================
