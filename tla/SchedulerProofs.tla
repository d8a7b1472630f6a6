-------------------------- MODULE SchedulerProofs --------------------------
(***************************************************************************)
(* For any finite set of tasks, any clock and any durations: every living  *)
(* task has one owner, and a task that has ended stays dead. The lemmas    *)
(* follow a task through the ready queue and the heap, one per thing the   *)
(* scheduler does to them.                                                 *)
(***************************************************************************)
EXTENDS Scheduler, FiniteSetTheorems, TLAPS

InQueue(t, q) == \E i \in 1..Len(q) : q[i] = t

InHeap(t, tm) == \E e \in tm : e.task = t

(* The inductive invariant, of a current task, a queue, the status of the  *)
(* tasks and a heap. It also says where a zombie may be: once in the queue *)
(* or once in the heap, where it is never woken from.                      *)
Placed(cur, q, st, tm) ==
  /\ cur \in Task \cup {NoTask}
  /\ q \in Seq(Task)
  /\ st \in [Task -> {"Ready", "Running", "Blocked", "Zombie"}]
  /\ IsFiniteSet(tm) /\ \A e \in tm : e.task \in Task
  /\ \A i, j \in 1..Len(q) : q[i] = q[j] => i = j
  /\ \A e, f \in tm : e.task = f.task => e = f
  /\ \A t \in Task :
       /\ st[t] = "Running" <=> cur = t
       /\ st[t] = "Ready" => InQueue(t, q)
       /\ st[t] = "Blocked" => InHeap(t, tm)
       /\ InQueue(t, q) => st[t] \in {"Ready", "Zombie"} /\ ~InHeap(t, tm)
       /\ InHeap(t, tm) => st[t] \in {"Blocked", "Zombie"}

Alive == {e \in Popped : status[e.task] # "Zombie"}

(* An order lists the living tasks check_timers pops, each once. *)
LEMMA OrdersList ==
  ASSUME IsFiniteSet(timers), NEW order \in Orders
  PROVE  /\ order \in [1..Cardinality(Alive) -> Alive]
         /\ Cardinality(Alive) \in Nat
         /\ \A e \in Alive : \E i \in 1..Cardinality(Alive) : order[i] = e
         /\ \A i, j \in 1..Cardinality(Alive) : order[i] = order[j] => i = j
<1>1. IsFiniteSet(Alive) /\ Cardinality(Alive) \in Nat
  <2>1. Alive \in SUBSET timers
    BY DEF Alive, Popped
  <2> QED
    BY <2>1, FS_Subset, FS_CardinalityType
<1>2. order \in [1..Cardinality(Alive) -> Alive] /\ WokenBy(order)
  BY DEF Orders, Alive
<1>3. \A e \in Alive : \E i \in 1..Cardinality(Alive) : order[i] = e
  BY <1>2 DEF WokenBy, Alive
<1>4. order \in Surjection(1..Cardinality(Alive), Alive)
  BY <1>2, <1>3 DEF Surjection
<1>5. IsFiniteSet(1..Cardinality(Alive)) /\ Cardinality(1..Cardinality(Alive)) = Cardinality(Alive)
  BY <1>1, FS_Interval
<1>6. order \in Injection(1..Cardinality(Alive), Alive)
  BY <1>4, <1>5, FS_SurjSameCardinalityImpliesInj
<1> QED
  BY <1>1, <1>2, <1>3, <1>6 DEF Injection, IsInjective

(* Two queues end to end. *)
LEMMA QueueJoin ==
  ASSUME NEW q \in Seq(Task), NEW r \in Seq(Task)
  PROVE  Len(q) \in Nat /\ q \o r \in Seq(Task) /\ Len(q \o r) = Len(q) + Len(r)
OBVIOUS

(* check_timers moves the tasks of popped entries to the end of the queue. *)
LEMMA CheckTimers ==
  ASSUME Placed(current, ready, status, timers), NEW order \in Orders
  PROVE  /\ Placed(current, ready \o Tasks(order), Woken(order), timers \ Popped)
         /\ \A t \in Task : Woken(order)[t] = "Zombie" <=> status[t] = "Zombie"
<1> DEFINE n == Cardinality(Alive)
           q == ready \o Tasks(order)
           st == Woken(order)
           tm == timers \ Popped
<1>1. IsFiniteSet(timers) /\ ready \in Seq(Task) /\ status \in [Task -> {"Ready", "Running", "Blocked", "Zombie"}]
  BY DEF Placed
<1>2. /\ order \in [1..n -> Alive] /\ n \in Nat
      /\ \A e \in Alive : \E i \in 1..n : order[i] = e
      /\ \A i, j \in 1..n : order[i] = order[j] => i = j
  BY <1>1, OrdersList
<1>3. Alive \subseteq timers /\ \A e \in Alive : e.task \in Task /\ status[e.task] = "Blocked"
  BY DEF Alive, Popped, Placed, InHeap
<1>4. Tasks(order) \in Seq(Task) /\ Len(Tasks(order)) = n /\ \A i \in 1..n : Tasks(order)[i] = order[i].task
  <2>1. Tasks(order) = [i \in 1..n |-> order[i].task]
    BY <1>2 DEF Tasks
  <2>2. \A i \in 1..n : order[i].task \in Task
    BY <1>2, <1>3
  <2> HIDE DEF n
  <2> QED
    BY <2>1, <2>2, <1>2
<1>5. /\ q \in Seq(Task) /\ Len(q) = Len(ready) + n /\ Len(ready) \in Nat
      /\ \A i \in 1..Len(ready) : q[i] = ready[i]
      /\ \A i \in 1..n : q[Len(ready) + i] = order[i].task
  <2>1. PICK r : r = Tasks(order)
    OBVIOUS
  <2>2. q = ready \o r /\ r \in Seq(Task) /\ Len(r) = n /\ \A i \in 1..n : r[i] = order[i].task
    BY <1>4, <2>1
  <2> HIDE DEF n, q
  <2>3. Len(ready) \in Nat /\ q \in Seq(Task) /\ Len(q) = Len(ready) + n
    BY <1>1, <2>2, QueueJoin
  <2>4. \A i \in 1..Len(ready) : q[i] = ready[i]
    BY <1>1, <1>2, <2>2
  <2>5. \A i \in 1..n : q[Len(ready) + i] = r[i]
    BY <1>1, <1>2, <2>2
  <2> QED
    BY <2>2, <2>3, <2>4, <2>5
<1> HIDE DEF n
<1>6. \A t \in Task : InQueue(t, q) <=> InQueue(t, ready) \/ InHeap(t, Alive)
  <2> TAKE t \in Task
  <2>1. ASSUME InQueue(t, ready) PROVE InQueue(t, q)
    BY <1>2, <1>5, <2>1 DEF InQueue
  <2>2. ASSUME InHeap(t, Alive) PROVE InQueue(t, q)
    <3>1. PICK i \in 1..n : order[i].task = t
      BY <1>2, <2>2 DEF InHeap
    <3>2. Len(ready) + i \in 1..Len(q)
      BY <1>2, <1>5
    <3> QED
      BY <1>5, <3>1, <3>2 DEF InQueue
  <2>3. ASSUME InQueue(t, q), ~InQueue(t, ready) PROVE InHeap(t, Alive)
    <3>1. PICK k \in 1..Len(q) : q[k] = t
      BY <2>3 DEF InQueue
    <3>2. k \notin 1..Len(ready)
      BY <1>5, <2>3, <3>1 DEF InQueue
    <3>3. PICK i \in 1..n : k = Len(ready) + i
      <4>1. k - Len(ready) \in 1..n /\ k = Len(ready) + (k - Len(ready))
        BY <1>2, <1>5, <3>1, <3>2
      <4> QED
        BY <4>1
    <3>4. order[i] \in Alive /\ order[i].task = t
      BY <1>2, <1>5, <3>1, <3>3
    <3> QED
      BY <3>4 DEF InHeap
  <2> QED
    BY <2>1, <2>2, <2>3
<1>7. \A t \in Task : st[t] = IF InHeap(t, Alive) THEN "Ready" ELSE status[t]
  <2>1. DOMAIN order = 1..n
    BY <1>2
  <2>2. \A t \in Task : InHeap(t, Alive) <=> \E i \in DOMAIN order : order[i].task = t
    BY <1>2, <2>1 DEF InHeap
  <2> QED
    BY <2>2 DEF Woken
<1>8. st \in [Task -> {"Ready", "Running", "Blocked", "Zombie"}]
  BY <1>1 DEF Woken
<1>9. \A t \in Task : InHeap(t, Alive) => status[t] = "Blocked"
  BY <1>3 DEF InHeap
<1>10. \A t \in Task : st[t] = "Zombie" <=> status[t] = "Zombie"
  BY <1>7, <1>9
<1>11. \A i, j \in 1..Len(q) : q[i] = q[j] => i = j
  <2> SUFFICES ASSUME NEW i \in 1..Len(q), NEW j \in 1..Len(q), q[i] = q[j], i <= j
               PROVE  i = j
    BY <1>5
  <2>1. CASE j \in 1..Len(ready)
    <3>1. i \in 1..Len(ready)
      BY <1>5, <2>1
    <3>2. ready[i] = ready[j]
      BY <1>5, <2>1, <3>1
    <3> QED
      BY <2>1, <3>1, <3>2 DEF Placed
  <2>2. CASE j \notin 1..Len(ready)
    <3>1. PICK b \in 1..n : j = Len(ready) + b
      <4>1. j - Len(ready) \in 1..n /\ j = Len(ready) + (j - Len(ready))
        BY <1>2, <1>5, <2>2
      <4> QED
        BY <4>1
    <3>2. q[j] = order[b].task /\ order[b] \in Alive
      BY <1>2, <1>5, <3>1
    <3>3. CASE i \in 1..Len(ready)
      <4>1. InQueue(ready[i], ready) /\ ready[i] \in Task
        BY <1>1, <3>3 DEF InQueue
      <4>2. ready[i] = order[b].task
        BY <1>5, <3>2, <3>3
      <4>3. InHeap(ready[i], timers)
        BY <4>2, <3>2, <1>3 DEF InHeap
      <4> QED
        BY <4>1, <4>3 DEF Placed
    <3>4. CASE i \notin 1..Len(ready)
      <4>1. PICK a \in 1..n : i = Len(ready) + a
        <5>1. i - Len(ready) \in 1..n /\ i = Len(ready) + (i - Len(ready))
          BY <1>2, <1>5, <3>4
        <5> QED
          BY <5>1
      <4>2. q[i] = order[a].task /\ order[a] \in Alive
        BY <1>2, <1>5, <4>1
      <4>3. order[a] = order[b]
        BY <3>2, <4>2, <1>3 DEF Placed
      <4> QED
        BY <1>2, <3>1, <4>1, <4>3
    <3> QED
      BY <3>3, <3>4
  <2> QED
    BY <2>1, <2>2
<1>12. \A t \in Task : InHeap(t, tm) => InHeap(t, timers) /\ ~InHeap(t, Alive)
  BY DEF InHeap, Alive, Popped, Placed
<1>13. \A t \in Task : InHeap(t, timers) /\ ~InHeap(t, Alive) /\ status[t] # "Zombie" => InHeap(t, tm)
  BY DEF InHeap, Alive, Popped
<1>14. \A t \in Task : InHeap(t, Alive) => InHeap(t, timers)
  BY <1>3 DEF InHeap
<1>15. IsFiniteSet(tm) /\ (\A e \in tm : e.task \in Task) /\ (\A e, f \in tm : e.task = f.task => e = f)
  BY FS_Difference DEF Placed
<1> HIDE DEF q, st, tm
<1>16. \A t \in Task :
         /\ st[t] = "Running" <=> current = t
         /\ st[t] = "Ready" => InQueue(t, q)
         /\ st[t] = "Blocked" => InHeap(t, tm)
         /\ InQueue(t, q) => st[t] \in {"Ready", "Zombie"} /\ ~InHeap(t, tm)
         /\ InHeap(t, tm) => st[t] \in {"Blocked", "Zombie"}
  <2> TAKE t \in Task
  <2>1. /\ status[t] = "Running" <=> current = t
        /\ status[t] = "Ready" => InQueue(t, ready)
        /\ status[t] = "Blocked" => InHeap(t, timers)
        /\ InQueue(t, ready) => status[t] \in {"Ready", "Zombie"} /\ ~InHeap(t, timers)
        /\ InHeap(t, timers) => status[t] \in {"Blocked", "Zombie"}
    BY DEF Placed
  <2> QED
    BY <2>1, <1>6, <1>7, <1>9, <1>12, <1>13, <1>14
<1>17. Placed(current, q, st, tm)
  BY <1>5, <1>8, <1>11, <1>15, <1>16 DEF Placed
<1> QED
  BY <1>10, <1>17 DEF q, st, tm

(* The current task goes to the end of the queue. *)
LEMMA Requeue ==
  ASSUME NEW cur, NEW q, NEW st, NEW tm, Placed(cur, q, st, tm), cur # NoTask
  PROVE  Placed(NoTask, Append(q, cur), [st EXCEPT ![cur] = "Ready"], tm)
<1> DEFINE p == Append(q, cur)
           ss == [st EXCEPT ![cur] = "Ready"]
<1>1. cur \in Task /\ q \in Seq(Task) /\ st[cur] = "Running"
      /\ st \in [Task -> {"Ready", "Running", "Blocked", "Zombie"}]
  BY DEF Placed
<1>2. /\ p \in Seq(Task) /\ Len(q) \in Nat /\ Len(p) = Len(q) + 1
      /\ p[Len(q) + 1] = cur /\ \A i \in 1..Len(q) : p[i] = q[i]
  BY <1>1
<1>3. ~InQueue(cur, q) /\ ~InHeap(cur, tm)
  BY <1>1 DEF Placed
<1>4. ss \in [Task -> {"Ready", "Running", "Blocked", "Zombie"}]
      /\ \A t \in Task : ss[t] = IF t = cur THEN "Ready" ELSE st[t]
  BY <1>1
<1> HIDE DEF p, ss
<1>5. \A t : InQueue(t, p) <=> InQueue(t, q) \/ t = cur
  BY <1>2 DEF InQueue
<1>6. \A i, j \in 1..Len(p) : p[i] = p[j] => i = j
  <2>1. \A i \in 1..Len(q) : p[i] # cur
    BY <1>2, <1>3 DEF InQueue
  <2>2. \A i, j \in 1..Len(q) : p[i] = p[j] => i = j
    BY <1>2 DEF Placed
  <2> QED
    BY <1>2, <2>1, <2>2
<1>7. ASSUME NEW t \in Task
      PROVE  /\ ss[t] = "Running" <=> NoTask = t
             /\ ss[t] = "Ready" => InQueue(t, p)
             /\ ss[t] = "Blocked" => InHeap(t, tm)
             /\ InQueue(t, p) => ss[t] \in {"Ready", "Zombie"} /\ ~InHeap(t, tm)
             /\ InHeap(t, tm) => ss[t] \in {"Blocked", "Zombie"}
  <2>1. /\ st[t] = "Running" <=> cur = t
        /\ st[t] = "Ready" => InQueue(t, q)
        /\ st[t] = "Blocked" => InHeap(t, tm)
        /\ InQueue(t, q) => st[t] \in {"Ready", "Zombie"} /\ ~InHeap(t, tm)
        /\ InHeap(t, tm) => st[t] \in {"Blocked", "Zombie"}
    BY DEF Placed
  <2> QED
    BY <2>1, <1>3, <1>4, <1>5, SchedulerAssumption
<1>8. IsFiniteSet(tm) /\ (\A e \in tm : e.task \in Task) /\ (\A e, f \in tm : e.task = f.task => e = f)
  BY DEF Placed
<1>9. Placed(NoTask, p, ss, tm)
  BY <1>2, <1>4, <1>6, <1>7, <1>8 DEF Placed
<1> QED
  BY <1>9 DEF p, ss

(* schedule() takes the head of the queue: it runs, unless it is a zombie. *)
LEMMA RunHead ==
  ASSUME NEW q, NEW st, NEW tm, Placed(NoTask, q, st, tm), q # <<>>
  PROVE  /\ Head(q) \in Task
         /\ st[Head(q)] = "Zombie" => Placed(NoTask, Tail(q), st, tm)
         /\ st[Head(q)] # "Zombie" =>
              Placed(Head(q), Tail(q), [st EXCEPT ![Head(q)] = "Running"], tm)
<1> DEFINE h == Head(q)
           p == Tail(q)
           ss == [st EXCEPT ![h] = "Running"]
<1>1. q \in Seq(Task) /\ st \in [Task -> {"Ready", "Running", "Blocked", "Zombie"}]
  BY DEF Placed
<1>2. Len(q) \in Nat /\ Len(q) >= 1 /\ h = q[1] /\ 1 \in 1..Len(q)
  BY <1>1
<1>3. /\ h \in Task /\ p \in Seq(Task) /\ Len(p) = Len(q) - 1
      /\ \A i \in 1..Len(p) : p[i] = q[i + 1]
  BY <1>1, <1>2
<1>4. ss \in [Task -> {"Ready", "Running", "Blocked", "Zombie"}]
      /\ \A t \in Task : ss[t] = IF t = h THEN "Running" ELSE st[t]
  BY <1>1, <1>3
<1> HIDE DEF h, p, ss
<1>5. \A i, j \in 1..Len(q) : q[i] = q[j] => i = j
  BY DEF Placed
<1>6. \A t : InQueue(t, p) <=> InQueue(t, q) /\ t # h
  <2> TAKE t
  <2>1. ASSUME InQueue(t, p) PROVE InQueue(t, q) /\ t # h
    <3>1. PICK i \in 1..Len(p) : p[i] = t
      BY <2>1 DEF InQueue
    <3>2. i + 1 \in 1..Len(q) /\ q[i + 1] = t /\ i + 1 # 1
      BY <1>2, <1>3, <3>1
    <3>3. t # h
      BY <1>2, <1>5, <3>2
    <3> QED
      BY <3>2, <3>3 DEF InQueue
  <2>2. ASSUME InQueue(t, q), t # h PROVE InQueue(t, p)
    <3>1. PICK k \in 1..Len(q) : q[k] = t
      BY <2>2 DEF InQueue
    <3>2. k # 1
      BY <1>2, <2>2, <3>1
    <3>3. k - 1 \in 1..Len(p) /\ p[k - 1] = q[k]
      BY <1>2, <1>3, <3>1, <3>2
    <3> QED
      BY <3>1, <3>3 DEF InQueue
  <2> QED
    BY <2>1, <2>2
<1>7. \A i, j \in 1..Len(p) : p[i] = p[j] => i = j
  <2> SUFFICES ASSUME NEW i \in 1..Len(p), NEW j \in 1..Len(p), p[i] = p[j] PROVE i = j
    OBVIOUS
  <2>1. i + 1 \in 1..Len(q) /\ j + 1 \in 1..Len(q) /\ q[i + 1] = q[j + 1]
    BY <1>2, <1>3
  <2>2. i + 1 = j + 1
    BY <1>5, <2>1
  <2> QED
    BY <2>2
<1>8. IsFiniteSet(tm) /\ (\A e \in tm : e.task \in Task) /\ (\A e, f \in tm : e.task = f.task => e = f)
  BY DEF Placed
<1>9. InQueue(h, q)
  BY <1>2 DEF InQueue
<1>10. \A t \in Task :
         /\ st[t] = "Running" <=> NoTask = t
         /\ st[t] = "Ready" => InQueue(t, q)
         /\ st[t] = "Blocked" => InHeap(t, tm)
         /\ InQueue(t, q) => st[t] \in {"Ready", "Zombie"} /\ ~InHeap(t, tm)
         /\ InHeap(t, tm) => st[t] \in {"Blocked", "Zombie"}
  BY DEF Placed
<1>11. ASSUME st[h] = "Zombie" PROVE Placed(NoTask, p, st, tm)
  <2>1. \A t \in Task :
         /\ st[t] = "Running" <=> NoTask = t
         /\ st[t] = "Ready" => InQueue(t, p)
         /\ st[t] = "Blocked" => InHeap(t, tm)
         /\ InQueue(t, p) => st[t] \in {"Ready", "Zombie"} /\ ~InHeap(t, tm)
         /\ InHeap(t, tm) => st[t] \in {"Blocked", "Zombie"}
    BY <1>6, <1>10, <1>11
  <2> QED
    BY <1>1, <1>3, <1>7, <1>8, <2>1 DEF Placed
<1>12. ASSUME st[h] # "Zombie" PROVE Placed(h, p, ss, tm)
  <2>1. \A t \in Task :
         /\ ss[t] = "Running" <=> h = t
         /\ ss[t] = "Ready" => InQueue(t, p)
         /\ ss[t] = "Blocked" => InHeap(t, tm)
         /\ InQueue(t, p) => ss[t] \in {"Ready", "Zombie"} /\ ~InHeap(t, tm)
         /\ InHeap(t, tm) => ss[t] \in {"Blocked", "Zombie"}
    BY <1>3, <1>4, <1>6, <1>9, <1>10, <1>12, SchedulerAssumption
  <2> QED
    BY <1>3, <1>4, <1>7, <1>8, <2>1 DEF Placed
<1> QED
  BY <1>3, <1>11, <1>12 DEF h, p, ss

(* sys_sleep puts the current task into the heap. *)
LEMMA FallAsleep ==
  ASSUME NEW e, e.task = current, current # NoTask,
         Placed(current, ready, status, timers)
  PROVE  Placed(NoTask, ready, [status EXCEPT ![current] = "Blocked"], timers \cup {e})
<1> DEFINE ss == [status EXCEPT ![current] = "Blocked"]
           tm == timers \cup {e}
<1>1. /\ current \in Task /\ ~InQueue(current, ready) /\ ~InHeap(current, timers)
      /\ status \in [Task -> {"Ready", "Running", "Blocked", "Zombie"}]
  BY DEF Placed
<1>2. ss \in [Task -> {"Ready", "Running", "Blocked", "Zombie"}]
      /\ \A t \in Task : ss[t] = IF t = current THEN "Blocked" ELSE status[t]
  BY <1>1
<1>3. \A t : InHeap(t, tm) <=> InHeap(t, timers) \/ t = current
  BY DEF InHeap
<1>4. IsFiniteSet(tm) /\ \A f \in tm : f.task \in Task
  BY <1>1, FS_AddElement DEF Placed
<1>5. \A f, g \in tm : f.task = g.task => f = g
  BY <1>1 DEF Placed, InHeap
<1> HIDE DEF ss, tm
<1>6. \A t \in Task :
         /\ ss[t] = "Running" <=> NoTask = t
         /\ ss[t] = "Ready" => InQueue(t, ready)
         /\ ss[t] = "Blocked" => InHeap(t, tm)
         /\ InQueue(t, ready) => ss[t] \in {"Ready", "Zombie"} /\ ~InHeap(t, tm)
         /\ InHeap(t, tm) => ss[t] \in {"Blocked", "Zombie"}
  BY <1>1, <1>2, <1>3, SchedulerAssumption DEF Placed
<1>7. Placed(NoTask, ready, ss, tm)
  BY <1>2, <1>4, <1>5, <1>6 DEF Placed
<1> QED
  BY <1>7 DEF ss, tm

(* A task exits, and any others with it; only its own entry leaves the     *)
(* heap.                                                                   *)
LEMMA TasksEnd ==
  ASSUME NEW victims, current # NoTask, Placed(current, ready, status, timers)
  PROVE  Placed(NoTask, ready,
                [t \in Task |-> IF t \in victims \cup {current} THEN "Zombie" ELSE status[t]],
                {e \in timers : e.task # current})
<1> DEFINE ss == [t \in Task |-> IF t \in victims \cup {current} THEN "Zombie" ELSE status[t]]
           tm == {e \in timers : e.task # current}
<1>1. /\ current \in Task /\ ~InQueue(current, ready) /\ ~InHeap(current, timers)
      /\ status \in [Task -> {"Ready", "Running", "Blocked", "Zombie"}]
  BY DEF Placed
<1>2. ss \in [Task -> {"Ready", "Running", "Blocked", "Zombie"}]
      /\ \A t \in Task : ss[t] = "Zombie" \/ (t # current /\ ss[t] = status[t])
  BY <1>1
<1>3. \A t : InHeap(t, tm) <=> InHeap(t, timers)
  BY <1>1 DEF InHeap
<1>4. tm \in SUBSET timers
  OBVIOUS
<1>5. IsFiniteSet(tm) /\ (\A e \in tm : e.task \in Task) /\ (\A e, f \in tm : e.task = f.task => e = f)
  BY <1>4, FS_Subset DEF Placed
<1> HIDE DEF ss, tm
<1>6. \A t \in Task :
         /\ ss[t] = "Running" <=> NoTask = t
         /\ ss[t] = "Ready" => InQueue(t, ready)
         /\ ss[t] = "Blocked" => InHeap(t, tm)
         /\ InQueue(t, ready) => ss[t] \in {"Ready", "Zombie"} /\ ~InHeap(t, tm)
         /\ InHeap(t, tm) => ss[t] \in {"Blocked", "Zombie"}
  BY <1>1, <1>2, <1>3, SchedulerAssumption DEF Placed
<1>7. Placed(NoTask, ready, ss, tm)
  BY <1>2, <1>5, <1>6 DEF Placed
<1> QED
  BY <1>7 DEF ss, tm

-----------------------------------------------------------------------------

(* The invariant of the state, also once the kernel has panicked. *)
PInv == Placed(current, ready, status, timers)

(* Every task starts in the ready queue, once. *)
LEMMA PlacedInit ==
  ASSUME Init
  PROVE  PInv
<1> DEFINE n == Cardinality(Task)
<1>1. n \in Nat /\ IsFiniteSet(Task)
  BY SchedulerAssumption, FS_CardinalityType
<1>2. ready \in [1..n -> Task] /\ \A t \in Task : \E i \in 1..n : ready[i] = t
  BY DEF Init
<1>3. ready \in Surjection(1..n, Task)
  BY <1>2 DEF Surjection
<1>4. IsFiniteSet(1..n) /\ Cardinality(1..n) = n
  BY <1>1, FS_Interval
<1>5. ready \in Injection(1..n, Task)
  BY <1>1, <1>3, <1>4, FS_SurjSameCardinalityImpliesInj
<1>6. \A i, j \in 1..n : ready[i] = ready[j] => i = j
  BY <1>2, <1>5 DEF Injection, IsInjective
<1> HIDE DEF n
<1>7. ready \in Seq(Task) /\ Len(ready) = n
  BY <1>1, <1>2
<1>8. status = [t \in Task |-> "Ready"] /\ timers = {} /\ current = NoTask
  BY DEF Init
<1>9. \A t \in Task : InQueue(t, ready) /\ ~InHeap(t, timers)
  BY <1>2, <1>7, <1>8 DEF InQueue, InHeap
<1> QED
  BY <1>6, <1>7, <1>8, <1>9, FS_EmptySet, SchedulerAssumption DEF PInv, Placed

(* What one step keeps: the invariant, and every zombie a zombie. *)
LEMMA PlacedNext ==
  ASSUME PInv, [Next]_vars
  PROVE  PInv' /\ \A t \in Task : status[t] = "Zombie" => status'[t] = "Zombie"
<1> DEFINE Dead == \A t \in Task : status[t] = "Zombie" => status'[t] = "Zombie"
<1> USE DEF PInv
<1>0. /\ status \in [Task -> {"Ready", "Running", "Blocked", "Zombie"}]
      /\ current # NoTask => current \in Task /\ status[current] = "Running"
  BY DEF Placed
<1>1. CASE Tick
  BY <1>1 DEF Tick, Placed
<1>2. CASE Schedule
  <2>1. PICK order \in Orders :
          LET queue == ready \o Tasks(order)
          IN  IF queue = <<>>
                THEN /\ kernel' = "panicked"
                     /\ status' = Woken(order)
                     /\ UNCHANGED <<current, ready>>
                ELSE /\ ready' = Tail(queue)
                     /\ IF status[Head(queue)] = "Zombie"
                          THEN status' = Woken(order) /\ UNCHANGED current
                          ELSE /\ status' = [Woken(order) EXCEPT ![Head(queue)] = "Running"]
                               /\ current' = Head(queue)
                     /\ UNCHANGED kernel
    BY <1>2 DEF Schedule
  <2> DEFINE queue == ready \o Tasks(order)
             st == Woken(order)
             tm == timers \ Popped
  <2>2. current = NoTask /\ timers' = tm
    BY <1>2 DEF Schedule
  <2>3. /\ Placed(NoTask, queue, st, tm)
        /\ \A t \in Task : st[t] = "Zombie" <=> status[t] = "Zombie"
    BY <2>2, CheckTimers
  <2>4. CASE queue = <<>>
    <3>1. ready = <<>>
      <4>1. Tasks(order) \in Seq(Task)
        <5>1. IsFiniteSet(timers) /\ Alive \subseteq timers /\ \A e \in timers : e.task \in Task
          BY DEF Placed, Alive, Popped
        <5>2. order \in [1..Cardinality(Alive) -> Alive] /\ Cardinality(Alive) \in Nat
          BY <5>1, OrdersList
        <5>3. Tasks(order) = [i \in 1..Cardinality(Alive) |-> order[i].task]
          BY <5>2 DEF Tasks
        <5>4. \A i \in 1..Cardinality(Alive) : order[i].task \in Task
          BY <5>1, <5>2
        <5> QED
          BY <5>2, <5>3, <5>4
      <4>2. ready \in Seq(Task)
        BY DEF Placed
      <4>3. Len(ready) + Len(Tasks(order)) = 0
        BY <2>4, <4>1, <4>2, QueueJoin
      <4> QED
        BY <4>1, <4>2, <4>3
    <3>2. current' = NoTask /\ ready' = queue /\ status' = st
      BY <2>1, <2>2, <2>4, <3>1
    <3>3. PInv'
      BY <2>2, <2>3, <3>2
    <3> QED
      BY <2>3, <3>2, <3>3
  <2>5. CASE queue # <<>>
    <3>1. /\ Head(queue) \in Task
          /\ st[Head(queue)] = "Zombie" => Placed(NoTask, Tail(queue), st, tm)
          /\ st[Head(queue)] # "Zombie" =>
               Placed(Head(queue), Tail(queue), [st EXCEPT ![Head(queue)] = "Running"], tm)
      <4> HIDE DEF queue, st, tm
      <4> QED
        BY <2>3, <2>5, RunHead
    <3>2. st[Head(queue)] = "Zombie" <=> status[Head(queue)] = "Zombie"
      BY <2>3, <3>1
    <3>3. CASE status[Head(queue)] = "Zombie"
      <4>1. ready' = Tail(queue) /\ status' = st /\ current' = NoTask
        BY <2>1, <2>2, <2>5, <3>3
      <4>2. PInv'
        BY <2>2, <3>1, <3>2, <3>3, <4>1
      <4> QED
        BY <2>3, <4>1, <4>2
    <3>4. CASE status[Head(queue)] # "Zombie"
      <4>1. /\ ready' = Tail(queue) /\ current' = Head(queue)
            /\ status' = [st EXCEPT ![Head(queue)] = "Running"]
        BY <2>1, <2>2, <2>5, <3>4
      <4>2. PInv'
        BY <2>2, <3>1, <3>2, <3>4, <4>1
      <4>3. \A t \in Task : t # Head(queue) => status'[t] = st[t]
        <5> st \in [Task -> {"Ready", "Running", "Blocked", "Zombie"}]
          BY <2>3 DEF Placed
        <5> HIDE DEF st, queue
        <5> QED
          BY <4>1
      <4> QED
        BY <2>3, <3>4, <4>2, <4>3
    <3> QED
      BY <3>3, <3>4
  <2> QED
    BY <2>4, <2>5
<1>3. CASE TimerInterrupt
  <2>1. PICK order \in Orders :
          /\ ready' = Append(ready \o Tasks(order), current)
          /\ status' = [Woken(order) EXCEPT ![current] = "Ready"]
    BY <1>3 DEF TimerInterrupt
  <2>2. /\ Placed(current, ready \o Tasks(order), Woken(order), timers \ Popped)
        /\ \A t \in Task : Woken(order)[t] = "Zombie" <=> status[t] = "Zombie"
    BY CheckTimers
  <2>3. current # NoTask /\ current' = NoTask /\ timers' = timers \ Popped
    BY <1>3 DEF TimerInterrupt
  <2>4. PInv'
    BY <2>1, <2>2, <2>3, Requeue
  <2>5. Dead
    <3>1. Woken(order) \in [Task -> {"Ready", "Running", "Blocked", "Zombie"}]
      BY <2>2 DEF Placed
    <3> QED
      BY <1>0, <2>1, <2>2, <2>3, <3>1
  <2> QED
    BY <2>4, <2>5
<1>4. CASE Yield
  <2>1. /\ current # NoTask /\ current' = NoTask /\ timers' = timers
        /\ ready' = Append(ready, current) /\ status' = [status EXCEPT ![current] = "Ready"]
    BY <1>4 DEF Yield
  <2>2. PInv'
    BY <2>1, Requeue
  <2> QED
    BY <1>0, <2>1, <2>2
<1>5. ASSUME NEW us \in Durations, Sleep(us) PROVE PInv' /\ Dead
  <2> DEFINE e == [expire |-> (get_timer_us + us) % 2^W, task |-> current, wake |-> Uptime + us]
  <2>1. /\ current # NoTask /\ current' = NoTask /\ ready' = ready
        /\ timers' = timers \cup {e} /\ status' = [status EXCEPT ![current] = "Blocked"]
    BY <1>5 DEF Sleep
  <2>2. e.task = current
    OBVIOUS
  <2> HIDE DEF e
  <2>3. PInv'
    BY <2>1, <2>2, FallAsleep
  <2> QED
    BY <1>0, <2>1, <2>3
<1>6. ASSUME NEW victims \in SUBSET (Task \ {InitTask}), Exit(victims) PROVE PInv' /\ Dead
  <2>1. /\ current # NoTask /\ current' = NoTask /\ ready' = ready
        /\ timers' = {e \in timers : e.task # current}
        /\ status' = [t \in Task |-> IF t \in victims \cup {current} THEN "Zombie" ELSE status[t]]
    BY <1>6 DEF Exit
  <2>2. PInv'
    BY <2>1, TasksEnd
  <2>3. Dead
    BY <2>1
  <2> QED
    BY <2>2, <2>3
<1>7. CASE UNCHANGED vars
  BY <1>7 DEF vars, Placed
<1> QED
  BY <1>1, <1>2, <1>3, <1>4, <1>5, <1>6, <1>7 DEF Next

(* The owner of a living task is the one its status names, once. *)
LEMMA PlacedOwner ==
  ASSUME PInv
  PROVE  OnePlace
<1> SUFFICES ASSUME NEW t \in Task
             PROVE  /\ status[t] = "Running" => Places(t) = [running |-> 1, queued |-> 0, asleep |-> 0]
                    /\ status[t] = "Ready"   => Places(t) = [running |-> 0, queued |-> 1, asleep |-> 0]
                    /\ status[t] = "Blocked" => Places(t) = [running |-> 0, queued |-> 0, asleep |-> 1]
  BY DEF OnePlace
<1> DEFINE inQueue == {i \in DOMAIN ready : ready[i] = t}
           inHeap == {e \in timers : e.task = t}
<1>1. Places(t) = [running |-> IF current = t THEN 1 ELSE 0,
                   queued |-> Cardinality(inQueue), asleep |-> Cardinality(inHeap)]
  BY DEF Places
<1>2. DOMAIN ready = 1..Len(ready)
  BY DEF PInv, Placed
<1>3. InQueue(t, ready) => Cardinality(inQueue) = 1
  <2> SUFFICES ASSUME InQueue(t, ready) PROVE Cardinality(inQueue) = 1
    OBVIOUS
  <2>1. PICK i \in 1..Len(ready) : ready[i] = t
    BY DEF InQueue
  <2>2. inQueue = {i}
    BY <1>2, <2>1 DEF PInv, Placed
  <2> QED
    BY <2>2, FS_Singleton
<1>4. ~InQueue(t, ready) => Cardinality(inQueue) = 0
  <2> SUFFICES ASSUME ~InQueue(t, ready) PROVE Cardinality(inQueue) = 0
    OBVIOUS
  <2>1. inQueue = {}
    BY <1>2 DEF InQueue
  <2> QED
    BY <2>1, FS_EmptySet
<1>5. InHeap(t, timers) => Cardinality(inHeap) = 1
  <2> SUFFICES ASSUME InHeap(t, timers) PROVE Cardinality(inHeap) = 1
    OBVIOUS
  <2>1. PICK e \in timers : e.task = t
    BY DEF InHeap
  <2>2. inHeap = {e}
    BY <2>1 DEF PInv, Placed
  <2> QED
    BY <2>2, FS_Singleton
<1>6. ~InHeap(t, timers) => Cardinality(inHeap) = 0
  <2> SUFFICES ASSUME ~InHeap(t, timers) PROVE Cardinality(inHeap) = 0
    OBVIOUS
  <2>1. inHeap = {}
    BY DEF InHeap
  <2> QED
    BY <2>1, FS_EmptySet
<1>7. /\ status[t] = "Running" <=> current = t
      /\ status[t] = "Ready" => InQueue(t, ready)
      /\ status[t] = "Blocked" => InHeap(t, timers)
      /\ InQueue(t, ready) => status[t] \in {"Ready", "Zombie"} /\ ~InHeap(t, timers)
      /\ InHeap(t, timers) => status[t] \in {"Blocked", "Zombie"}
  BY DEF PInv, Placed
<1> HIDE DEF inQueue, inHeap
<1> QED
  BY <1>1, <1>3, <1>4, <1>5, <1>6, <1>7

(* Whatever the clock, the durations and the order in which timers run     *)
(* out, every living task has one owner among the processor, the queue and *)
(* the heap: what the asserts on Arc::strong_count rest on.                *)
THEOREM SchedulerOwnership == Spec => []OnePlace
<1>1. Init => PInv
  BY PlacedInit
<1>2. PInv /\ [Next]_vars => PInv'
  BY PlacedNext
<1>3. PInv => OnePlace
  BY PlacedOwner
<1> QED
  BY <1>1, <1>2, <1>3, PTL DEF Spec

(* schedule() and check_timers never bring back a task that has ended,     *)
(* although exit leaves zombies in the queue and in the heap.              *)
THEOREM SchedulerZombies == Spec => ZombiesStayDead
<1>1. Init => PInv
  BY PlacedInit
<1>2. PInv /\ [Next]_vars => PInv'
  BY PlacedNext
<1>3. PInv /\ [Next]_vars =>
        [\A t \in Task : status[t] = "Zombie" => status'[t] = "Zombie"]_vars
  BY PlacedNext
<1> QED
  BY <1>1, <1>2, <1>3, PTL DEF Spec, ZombiesStayDead

=============================================================================
