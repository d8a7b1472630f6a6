-------------------------- MODULE ProcessorProofs --------------------------
(***************************************************************************)
(* Facts about queues of tasks, and what each way of giving the processor  *)
(* away does to Placement.  The proofs about the mutexes and semaphores    *)
(* cite them.                                                              *)
(***************************************************************************)
EXTENDS Processor, TLAPS

(* push_back adds one task at the end of a queue. *)
LEMMA AppendQueue ==
  ASSUME NEW S, NEW q \in Seq(S), NEW t \in S
  PROVE  /\ Append(q, t) \in Seq(S)
         /\ \A x : InSeq(x, Append(q, t)) <=> (InSeq(x, q) \/ x = t)
         /\ NoRepeats(q) /\ ~InSeq(t, q) => NoRepeats(Append(q, t))
<1>1. /\ Append(q, t) \in Seq(S)
      /\ Len(Append(q, t)) = Len(q) + 1
      /\ \A i \in 1 .. Len(q) : Append(q, t)[i] = q[i]
      /\ Append(q, t)[Len(q) + 1] = t
  OBVIOUS
<1>2. ASSUME NEW x PROVE InSeq(x, Append(q, t)) <=> (InSeq(x, q) \/ x = t)
  BY <1>1 DEF InSeq
<1>3. ASSUME NoRepeats(q), ~InSeq(t, q) PROVE NoRepeats(Append(q, t))
  BY <1>1, <1>3 DEF NoRepeats, InSeq
<1> QED
  BY <1>1, <1>2, <1>3

(* pop_front removes the first task of a queue. *)
LEMMA TailQueue ==
  ASSUME NEW S, NEW q \in Seq(S), q # <<>>
  PROVE  /\ Head(q) \in S
         /\ InSeq(Head(q), q)
         /\ Tail(q) \in Seq(S)
         /\ Len(Tail(q)) = Len(q) - 1
         /\ NoRepeats(q) =>
              /\ NoRepeats(Tail(q))
              /\ \A x : InSeq(x, Tail(q)) <=> (InSeq(x, q) /\ x # Head(q))
<1>1. /\ Tail(q) \in Seq(S)
      /\ Len(q) \in Nat \ {0}
      /\ Len(Tail(q)) = Len(q) - 1
      /\ \A i \in 1 .. Len(q) - 1 : Tail(q)[i] = q[i + 1]
      /\ Head(q) = q[1]
      /\ Head(q) \in S
  OBVIOUS
<1>2. InSeq(Head(q), q)
  BY <1>1 DEF InSeq
<1>3. ASSUME NoRepeats(q)
      PROVE  /\ NoRepeats(Tail(q))
             /\ \A x : InSeq(x, Tail(q)) <=> (InSeq(x, q) /\ x # Head(q))
  <2>1. NoRepeats(Tail(q))
    BY <1>1, <1>3 DEF NoRepeats
  <2>2. ASSUME NEW x, InSeq(x, Tail(q)) PROVE InSeq(x, q) /\ x # Head(q)
    BY <1>1, <1>3, <2>2 DEF NoRepeats, InSeq
  <2>3. ASSUME NEW x, InSeq(x, q), x # Head(q) PROVE InSeq(x, Tail(q))
    <3>1. PICK i \in 1 .. Len(q) : q[i] = x
      BY <2>3 DEF InSeq
    <3>2. i - 1 \in 1 .. Len(q) - 1 /\ Tail(q)[i - 1] = x
      BY <1>1, <2>3, <3>1
    <3> QED
      BY <1>1, <3>2 DEF InSeq
  <2> QED
    BY <2>1, <2>2, <2>3
<1> QED
  BY <1>1, <1>2, <1>3

(* When every task of a queue is alive, the loop that pops dead waiters    *)
(* takes the first one and leaves the rest.                                *)
LEMMA PopLiveQueue ==
  ASSUME NEW q \in Seq(Task),
         \A t \in Task : InSeq(t, q) => status[t] # "Dropped"
  PROVE  /\ q = <<>> => PopLive(q) = NoTask /\ RestLive(q) = <<>>
         /\ q # <<>> => PopLive(q) = Head(q) /\ RestLive(q) = Tail(q)
<1>1. LiveAt(q) = DOMAIN q
  <2>1. ASSUME NEW i \in DOMAIN q PROVE Upgrade(q[i]) # NoTask
    BY TaskAssumption DEF InSeq, Upgrade
  <2> QED
    BY <2>1 DEF LiveAt
<1>2. CASE q = <<>>
  BY <1>1, <1>2 DEF PopLive, RestLive
<1>3. CASE q # <<>>
  <2>0. DOMAIN q = 1 .. Len(q) /\ Len(q) \in Nat /\ 1 \in DOMAIN q
    <3>1. DOMAIN q = 1 .. Len(q) /\ Len(q) \in Nat
      OBVIOUS
    <3>2. Len(q) # 0
      BY <1>3
    <3> QED
      BY <3>1, <3>2
  <2>1. FirstLive(q) = 1
    BY <1>1, <2>0 DEF FirstLive
  <2>2. LiveAt(q) # {}
    BY <1>1, <2>0
  <2>3. SubSeq(q, 2, Len(q)) = Tail(q)
    BY <1>3
  <2> QED
    BY <1>3, <2>1, <2>2, <2>3 DEF PopLive, RestLive
<1> QED
  BY <1>2, <1>3

-----------------------------------------------------------------------------
(* What each way of switching does to the placement of tasks. *)

ProcInv(places) == ProcTypeOK(places) /\ Placement

(* A task that may be None is woken: it must be blocked, so that it is not *)
(* queued already.                                                         *)
Wakeable(w) == w = NoTask \/ (w \in Task /\ status[w] = "Blocked")

(* Waking puts a blocked task, and nothing else, at the end of the queue.  *)
LEMMA WakeQueue ==
  ASSUME NEW places, ProcInv(places), NEW w, Wakeable(w)
  PROVE  /\ Enqueue(w) \in Seq(Task)
         /\ NoRepeats(Enqueue(w))
         /\ MarkReady(w) \in [Task -> {"Unborn", "Ready", "Running", "Blocked", "Zombie", "Dropped"}]
         /\ \A t \in Task : MarkReady(w)[t] = IF t = w THEN "Ready" ELSE status[t]
         /\ \A t \in Task : InSeq(t, Enqueue(w)) <=> (status[t] = "Ready" \/ t = w)
<1>1. CASE w = NoTask
  BY <1>1, TaskAssumption DEF ProcInv, ProcTypeOK, Placement, Enqueue, MarkReady
<1>2. CASE w # NoTask
  <2>1. w \in Task /\ ~InSeq(w, ready)
    BY <1>2 DEF Wakeable, ProcInv, Placement
  <2>2. /\ Enqueue(w) = Append(ready, w)
        /\ MarkReady(w) = [status EXCEPT ![w] = "Ready"]
    BY <1>2 DEF Enqueue, MarkReady
  <2>3. ready \in Seq(Task) /\ NoRepeats(ready)
    BY DEF ProcInv, ProcTypeOK, Placement
  <2>4. /\ Append(ready, w) \in Seq(Task)
        /\ \A x : InSeq(x, Append(ready, w)) <=> (InSeq(x, ready) \/ x = w)
        /\ NoRepeats(Append(ready, w))
    BY <2>1, <2>3, AppendQueue
  <2>5. \A t \in Task : InSeq(t, Enqueue(w)) <=> (status[t] = "Ready" \/ t = w)
    BY <2>2, <2>4 DEF ProcInv, Placement
  <2> QED
    BY <2>1, <2>2, <2>4, <2>5 DEF ProcInv, ProcTypeOK
<1> QED
  BY <1>1, <1>2

(* suspend_current_and_run_other_task keeps Placement. *)
LEMMA SuspendPlacement ==
  ASSUME NEW places, ProcInv(places), NEW t \in Task, current = t,
         NEW where \in places, SuspendAt(t, where)
  PROVE  ProcInv(places)'
<1>1. ~InSeq(t, ready) /\ ready \in Seq(Task) /\ NoRepeats(ready)
  BY DEF ProcInv, ProcTypeOK, Placement
<1>2. /\ ready' \in Seq(Task)
      /\ \A x : InSeq(x, ready') <=> (InSeq(x, ready) \/ x = t)
      /\ NoRepeats(ready')
  BY <1>1, AppendQueue DEF SuspendAt
<1>3. ProcTypeOK(places)'
  BY <1>2 DEF ProcInv, ProcTypeOK, SuspendAt
<1>4. \A x \in Task : status'[x] = IF x = t THEN "Ready" ELSE status[x]
  BY DEF ProcInv, ProcTypeOK, SuspendAt
<1>5. Placement'
  <2>1. ASSUME NEW x \in Task PROVE (status'[x] = "Running") <=> (current' = x)
    BY <1>4, TaskAssumption DEF ProcInv, Placement, SuspendAt
  <2>2. ASSUME NEW x \in Task PROVE (status'[x] = "Ready") <=> InSeq(x, ready')
    BY <1>2, <1>4 DEF ProcInv, Placement
  <2> QED
    BY <1>2, <2>1, <2>2 DEF Placement
<1> QED
  BY <1>3, <1>5 DEF ProcInv

(* Waking a task and then blocking keeps Placement. *)
LEMMA BlockPlacement ==
  ASSUME NEW places, ProcInv(places), NEW t \in Task, current = t,
         NEW w, Wakeable(w), NEW where \in places, WakeAndBlockAt(t, w, where)
  PROVE  /\ ProcInv(places)'
         /\ \A x \in Task : status'[x] = IF x = t THEN "Blocked" ELSE
                                         IF x = w THEN "Ready" ELSE status[x]
<1>1. w # t
  BY TaskAssumption DEF Wakeable, ProcInv, Placement
<1>2. \A x \in Task : status'[x] = IF x = t THEN "Blocked" ELSE
                                   IF x = w THEN "Ready" ELSE status[x]
  BY WakeQueue DEF WakeAndBlockAt
<1>3. ProcTypeOK(places)'
  BY WakeQueue DEF ProcInv, ProcTypeOK, WakeAndBlockAt
<1>4. ASSUME NEW x \in Task PROVE (status'[x] = "Running") <=> (current' = x)
  BY <1>2, TaskAssumption DEF ProcInv, Placement, WakeAndBlockAt
<1>5. ASSUME NEW x \in Task PROVE (status'[x] = "Ready") <=> InSeq(x, ready')
  <2>1. InSeq(x, ready') <=> (status[x] = "Ready" \/ x = w)
    BY WakeQueue DEF WakeAndBlockAt
  <2>2. status[t] = "Running"
    BY DEF ProcInv, Placement
  <2> QED
    BY <1>1, <1>2, <2>1, <2>2
<1>6. NoRepeats(ready')
  BY WakeQueue DEF WakeAndBlockAt
<1> QED
  BY <1>2, <1>3, <1>4, <1>5, <1>6 DEF ProcInv, Placement

(* Waking a task and returning to the user keeps Placement. *)
LEMMA ReturnPlacement ==
  ASSUME NEW places, ProcInv(places), NEW t \in Task, current = t, "user" \in places,
         NEW w, Wakeable(w), WakeAndReturn(t, w)
  PROVE  /\ ProcInv(places)'
         /\ \A x \in Task : status'[x] = IF x = w THEN "Ready" ELSE status[x]
<1>1. \A x \in Task : status'[x] = IF x = w THEN "Ready" ELSE status[x]
  BY WakeQueue DEF WakeAndReturn
<1>2. ProcTypeOK(places)'
  BY WakeQueue DEF ProcInv, ProcTypeOK, WakeAndReturn
<1>3. ASSUME NEW x \in Task PROVE (status'[x] = "Running") <=> (current' = x)
  BY <1>1, TaskAssumption DEF ProcInv, Placement, WakeAndReturn, Wakeable
<1>4. ASSUME NEW x \in Task PROVE (status'[x] = "Ready") <=> InSeq(x, ready')
  BY <1>1, WakeQueue DEF WakeAndReturn
<1>5. NoRepeats(ready')
  BY WakeQueue DEF WakeAndReturn
<1> QED
  BY <1>1, <1>2, <1>3, <1>4, <1>5 DEF ProcInv, Placement

(* A thread's exit keeps Placement. *)
LEMMA ExitPlacement ==
  ASSUME NEW places, ProcInv(places), NEW t \in Task, current = t, "user" \in places,
         ExitOf(t)
  PROVE  ProcInv(places)'
<1>1. ProcTypeOK(places)'
  BY DEF ProcInv, ProcTypeOK, ExitOf
<1>2. \A x \in Task : status'[x] = IF x = t THEN "Zombie" ELSE status[x]
  BY DEF ProcInv, ProcTypeOK, ExitOf
<1>3. Placement'
  BY <1>2, TaskAssumption DEF ProcInv, Placement, ExitOf
<1> QED
  BY <1>1, <1>3 DEF ProcInv

(* schedule() keeps Placement, and never meets a zombie in the queue.      *)
LEMMA SchedulePlacement ==
  ASSUME NEW places, ProcInv(places), Schedule
  PROVE  /\ ProcInv(places)'
         /\ current' \in Task
         /\ status[current'] = "Ready"
         /\ status' = [status EXCEPT ![current'] = "Running"]
<1> DEFINE h == Head(ready)
<1>1. /\ h \in Task
      /\ InSeq(h, ready)
      /\ Tail(ready) \in Seq(Task)
      /\ NoRepeats(Tail(ready))
      /\ \A x : InSeq(x, Tail(ready)) <=> (InSeq(x, ready) /\ x # h)
  BY TailQueue DEF ProcInv, ProcTypeOK, Placement, Schedule
<1> HIDE DEF h
<1>2. status[h] = "Ready"
  BY <1>1 DEF ProcInv, Placement
<1>3. current' = h /\ status' = [status EXCEPT ![h] = "Running"] /\ ready' = Tail(ready)
  BY <1>2 DEF Schedule, h
<1>4. ProcTypeOK(places)'
  BY <1>1, <1>3 DEF ProcInv, ProcTypeOK, Schedule
<1>5. \A x \in Task : status'[x] = IF x = h THEN "Running" ELSE status[x]
  BY <1>1, <1>3 DEF ProcInv, ProcTypeOK
<1>6. current = NoTask
  BY DEF Schedule
<1>7. ASSUME NEW x \in Task PROVE (status'[x] = "Running") <=> (current' = x)
  BY <1>3, <1>5, <1>6, TaskAssumption DEF ProcInv, Placement
<1>8. ASSUME NEW x \in Task PROVE (status'[x] = "Ready") <=> InSeq(x, ready')
  BY <1>1, <1>3, <1>5 DEF ProcInv, Placement
<1> QED
  BY <1>1, <1>2, <1>3, <1>4, <1>7, <1>8 DEF ProcInv, Placement

(* sys_thread_create keeps Placement. *)
LEMMA CreatePlacement ==
  ASSUME NEW places, ProcInv(places), "user" \in places,
         NEW t \in Task, NEW new \in Task, ThreadCreate(t, new)
  PROVE  ProcInv(places)'
<1>1. CASE t = Root
  <2>1. /\ ready' = Append(ready, new)
        /\ status' = [status EXCEPT ![new] = "Ready"]
        /\ current' = current /\ pc' = pc /\ status[new] = "Unborn"
    BY <1>1 DEF ThreadCreate
  <2>2. ~InSeq(new, ready) /\ ready \in Seq(Task) /\ NoRepeats(ready)
    BY <2>1 DEF ProcInv, ProcTypeOK, Placement
  <2>3. /\ ready' \in Seq(Task)
        /\ \A x : InSeq(x, ready') <=> (InSeq(x, ready) \/ x = new)
        /\ NoRepeats(ready')
    BY <2>1, <2>2, AppendQueue
  <2>4. \A x \in Task : status'[x] = IF x = new THEN "Ready" ELSE status[x]
    BY <2>1 DEF ProcInv, ProcTypeOK
  <2>5. ASSUME NEW x \in Task PROVE (status'[x] = "Running") <=> (current' = x)
    BY <2>1, <2>4 DEF ProcInv, Placement
  <2>6. ASSUME NEW x \in Task PROVE (status'[x] = "Ready") <=> InSeq(x, ready')
    BY <2>3, <2>4 DEF ProcInv, Placement
  <2>7. ProcTypeOK(places)'
    BY <2>1, <2>3 DEF ProcInv, ProcTypeOK
  <2> QED
    BY <2>3, <2>5, <2>6, <2>7 DEF ProcInv, Placement
<1>2. CASE t # Root
  BY <1>2, ExitPlacement DEF ThreadCreate, InUser
<1> QED
  BY <1>1, <1>2

(* Freeing a zombie keeps Placement. *)
LEMMA ReapPlacement ==
  ASSUME NEW places, ProcInv(places), NEW t \in Task, NEW dead \in Task, Reap(t, dead)
  PROVE  ProcInv(places)'
<1>1. ProcTypeOK(places)'
  BY DEF ProcInv, ProcTypeOK, Reap
<1>2. \A x \in Task : status'[x] = IF x = dead THEN "Dropped" ELSE status[x]
  BY DEF ProcInv, ProcTypeOK, Reap
<1>3. Placement'
  BY <1>2 DEF ProcInv, Placement, Reap
<1> QED
  BY <1>1, <1>3 DEF ProcInv

(* The first task is put into the queue at boot. *)
LEMMA InitPlacement ==
  ASSUME NEW places, "user" \in places, ProcInit
  PROVE  ProcInv(places)
<1>1. ProcTypeOK(places)
  BY TaskAssumption DEF ProcInit, ProcTypeOK
<1>2. Placement
  BY TaskAssumption DEF ProcInit, Placement, NoRepeats, InSeq
<1> QED
  BY <1>1, <1>2 DEF ProcInv

=============================================================================
