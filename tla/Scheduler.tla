----------------------------- MODULE Scheduler -----------------------------
(***************************************************************************)
(* The task scheduler of the whole system: the ready queue, the heap of    *)
(* sleeping tasks and the clock they are compared with (task/scheduler.rs, *)
(* task/process.rs, lang/timer.rs).                                        *)
(*                                                                         *)
(* usize has W bits and the kernel is built without overflow checks, so    *)
(* sums and products wrap.                                                 *)
(***************************************************************************)
EXTENDS Integers, Sequences, FiniteSets

CONSTANTS
  Task, NoTask,
  InitTask,     \* the root task of the initial process: it polls for ever
  W,            \* width of usize
  Micro, Freq,  \* MICRO_PER_SEC and BOARD_CLOCK_FREQ
  MaxTicks,     \* bound of the model: the clock stops here
  Durations     \* the arguments of sys_sleep in the model

ASSUME SchedulerAssumption ==
  /\ IsFiniteSet(Task) /\ InitTask \in Task /\ NoTask \notin Task
  /\ W \in Nat \ {0} /\ Micro \in Nat \ {0} /\ Freq \in Nat \ {0}
  /\ MaxTicks \in Nat /\ Durations \subseteq 0 .. (2^W - 1)

VARIABLES
  ticks,     \* the time register
  current, ready, status,
  timers,    \* the heap: expire_us and task; wake is the uptime it stands for
  kernel     \* "panicked" once schedule() found nothing to run

vars == <<ticks, current, ready, status, timers, kernel>>

Init ==
  /\ ticks = 0
  /\ current = NoTask
  /\ ready \in {q \in [1 .. Cardinality(Task) -> Task] :
                  \A t \in Task : \E i \in DOMAIN q : q[i] = t}
  /\ status = [t \in Task |-> "Ready"]
  /\ timers = {}
  /\ kernel = "running"

-----------------------------------------------------------------------------

(* Microseconds since reset, and what get_timer_us computes for them. *)
Uptime == (ticks * Micro) \div Freq

get_timer_us == ((ticks * Micro) % 2^W) \div Freq

(* -(expire_us as isize), by which the max-heap orders its entries. *)
Signed(u) == IF u % 2^W < 2^(W - 1) THEN u % 2^W ELSE (u % 2^W) - 2^W

(* Variant: the heap is ordered by the latest time. *)
KeyNotNegated(entry) == Signed(entry.expire)

Key(entry) == Signed(-Signed(entry.expire))

(* Variant: off by one in the comparison with the clock. *)
PoppableEarly(entry) == status[entry.task] = "Zombie" \/ entry.expire <= get_timer_us + 1

(* What check_timers does with the top of the heap. *)
Poppable(entry) == status[entry.task] = "Zombie" \/ entry.expire <= get_timer_us

(* The loop ends at the first entry it may not pop. A zombie with the same  *)
(* time as that entry counts as below it: the heap may also have it above, *)
(* which drops it one turn earlier and wakes nobody.                       *)
Popped == {e \in timers : \A other \in timers : Key(other) >= Key(e) => Poppable(other)}

(* The order in which popped tasks enter the ready queue: that of the      *)
(* heap, which leaves entries with the same time in any order.             *)
WokenBy(order) ==
  LET alive == {e \in Popped : status[e.task] # "Zombie"}
  IN  /\ \A e \in alive : \E i \in DOMAIN order : order[i] = e
      /\ \A i, j \in DOMAIN order : i < j => Key(order[i]) >= Key(order[j])

(* Variant: check_timers wakes zombies too. *)
OrdersOfAll ==
  {order \in [1 .. Cardinality(Popped) -> Popped] :
     \A e \in Popped : \E i \in DOMAIN order : order[i] = e}

Orders ==
  LET alive == {e \in Popped : status[e.task] # "Zombie"}
  IN  {order \in [1 .. Cardinality(alive) -> alive] : WokenBy(order)}

Tasks(order) == [i \in DOMAIN order |-> order[i].task]

Woken(order) ==
  [t \in Task |-> IF \E i \in DOMAIN order : order[i].task = t THEN "Ready" ELSE status[t]]

-----------------------------------------------------------------------------

(* Time passes. *)
Tick ==
  /\ kernel = "running"
  /\ ticks < MaxTicks
  /\ ticks' = ticks + 1
  /\ UNCHANGED <<current, ready, status, timers, kernel>>

(* One turn of the loop of schedule(): check the timers, pop a task, skip  *)
(* it if it is a zombie, panic if there is none.                           *)
Schedule ==
  /\ kernel = "running"
  /\ current = NoTask
  /\ timers' = timers \ Popped
  /\ \E order \in Orders :
       LET queue == ready \o Tasks(order)
       IN  IF queue = <<>>
             THEN /\ kernel' = "panicked"
                  /\ status' = Woken(order)
                  /\ UNCHANGED <<current, ready>>
             ELSE /\ ready' = Tail(queue)
                  /\ IF status[Head(queue)] = "Zombie"
                       THEN status' = Woken(order) /\ UNCHANGED current
                       ELSE /\ status' = [Woken(order) EXCEPT ![Head(queue)] = "Running"]
                            /\ current' = Head(queue)
                  /\ UNCHANGED kernel
  /\ UNCHANGED ticks

(* Variant: push_front instead of push_back. *)
TimerInterruptFront ==
  /\ current # NoTask
  /\ timers' = timers \ Popped
  /\ \E order \in Orders :
       /\ ready' = <<current>> \o ready \o Tasks(order)
       /\ status' = [Woken(order) EXCEPT ![current] = "Ready"]
  /\ current' = NoTask
  /\ UNCHANGED <<ticks, kernel>>

(* The timer interrupt: check_timers, then suspend the current task. *)
TimerInterrupt ==
  /\ current # NoTask
  /\ timers' = timers \ Popped
  /\ \E order \in Orders :
       /\ ready' = Append(ready \o Tasks(order), current)
       /\ status' = [Woken(order) EXCEPT ![current] = "Ready"]
  /\ current' = NoTask
  /\ UNCHANGED <<ticks, kernel>>

(* sys_yield, and every suspension inside the kernel. *)
Yield ==
  /\ current # NoTask
  /\ ready' = Append(ready, current)
  /\ status' = [status EXCEPT ![current] = "Ready"]
  /\ current' = NoTask
  /\ UNCHANGED <<ticks, timers, kernel>>

(* Variant: mark_blocked is missing. *)
SleepStillRunning(us) ==
  /\ current \notin {NoTask, InitTask}
  /\ (Uptime + us) * Freq <= MaxTicks * Micro
  /\ timers' = timers \cup {[expire |-> (get_timer_us + us) % 2^W,
                             task |-> current,
                             wake |-> Uptime + us]}
  /\ current' = NoTask
  /\ UNCHANGED <<ticks, ready, status, kernel>>

(* sys_sleep.  The initial process does not sleep.  The bound keeps every  *)
(* wake-up inside the modelled time.                                       *)
Sleep(us) ==
  /\ current \notin {NoTask, InitTask}
  /\ (Uptime + us) * Freq <= MaxTicks * Micro
  /\ timers' = timers \cup {[expire |-> (get_timer_us + us) % 2^W,
                             task |-> current,
                             wake |-> Uptime + us]}
  /\ status' = [status EXCEPT ![current] = "Blocked"]
  /\ current' = NoTask
  /\ UNCHANGED <<ticks, ready, kernel>>

(* The current task exits; if it is a root task the others in victims end  *)
(* with it, wherever they are.  Only the timer of the current task is      *)
(* removed: the zombies stay in the heap and in the ready queue.           *)
Exit(victims) ==
  /\ current \notin {NoTask, InitTask}
  /\ timers' = {e \in timers : e.task # current}
  /\ status' = [t \in Task |-> IF t \in victims \cup {current} THEN "Zombie" ELSE status[t]]
  /\ current' = NoTask
  /\ UNCHANGED <<ticks, ready, kernel>>

Next ==
  \/ Tick \/ Schedule \/ TimerInterrupt \/ Yield
  \/ \E us \in Durations : Sleep(us)
  \/ \E victims \in SUBSET (Task \ {InitTask}) : Exit(victims)

Spec == Init /\ [][Next]_vars

-----------------------------------------------------------------------------

(* Type invariant. *)
TypeOK ==
  /\ ticks \in 0 .. MaxTicks
  /\ current \in Task \cup {NoTask}
  /\ ready \in Seq(Task)
  /\ status \in [Task -> {"Ready", "Running", "Blocked", "Zombie"}]
  /\ timers \subseteq [expire : 0 .. (2^W - 1), task : Task, wake : Nat]
  /\ kernel \in {"running", "panicked"}

(* Every living task has exactly one owner among the processor, the ready  *)
(* queue and the heap, once, and the one its status names.  The asserts on *)
(* Arc::strong_count in the trap handler (== 3), in exit (== 2) and in     *)
(* mark_zombie (== 3) rest on it.                                          *)
Places(t) ==
  [running |-> IF current = t THEN 1 ELSE 0,
   queued |-> Cardinality({i \in DOMAIN ready : ready[i] = t}),
   asleep |-> Cardinality({e \in timers : e.task = t})]

OnePlace ==
  \A t \in Task :
    /\ status[t] = "Running" => Places(t) = [running |-> 1, queued |-> 0, asleep |-> 0]
    /\ status[t] = "Ready"   => Places(t) = [running |-> 0, queued |-> 1, asleep |-> 0]
    /\ status[t] = "Blocked" => Places(t) = [running |-> 0, queued |-> 0, asleep |-> 1]

(* A task that has ended never becomes ready or running again, although a  *)
(* process that exits leaves its tasks in the ready queue and in the heap. *)
ZombiesStayDead ==
  [][\A t \in Task : status[t] = "Zombie" => status'[t] = "Zombie"]_vars

(* A task does not leave the heap before the time it asked for. *)
NeverEarly ==
  [][\A e \in timers :
       (e \notin timers' /\ status[e.task] # "Zombie") => e.wake <= Uptime]_vars

(* The heap gives up every timer that has run out, each time it is looked  *)
(* at: when a task is picked no living task is left asleep past its time.  *)
NoneOverdue ==
  [][(current = NoTask /\ current' # NoTask) =>
       \A e \in timers' : status[e.task] = "Zombie" \/ e.wake > Uptime]_vars

(* get_timer_us is the time since reset in microseconds.  The model        *)
(* refutes it once the product wraps (see the README).                     *)
ClockIsUptime == get_timer_us = Uptime

(* Time advances, the kernel goes on, and the timer interrupt ends every   *)
(* time slice.                                                             *)
FairSpec ==
  /\ Spec
  /\ WF_vars(Tick) /\ WF_vars(Schedule) /\ WF_vars(TimerInterrupt)

(* Every sleeping task that is not killed runs again. *)
SleepersRun ==
  \A t \in Task : (status[t] = "Blocked") ~> (status[t] \in {"Running", "Zombie"})

=============================================================================
