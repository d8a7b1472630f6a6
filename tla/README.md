# frontier_kernel in TLA+

A verification development for frontier_kernel, a teaching kernel for RISC-V
(Sv39) written in Rust. Paths such as `task/model.rs` are relative to the
kernel's `src/` directory. `PROJECT.json` maps every definition to the lines it
models.

## 1. The system

The kernel runs on one processor and is not preempted: a trap in supervisor mode
panics (`trap/handler_riscv.rs:46-51`). User code is interrupted by the timer.
So the code between two context switches is atomic, and **every such segment is
one action**. What interleaves is the segments: a task may be switched away at
the end of a time slice, in a blocking call, or at each suspension inside a
longer call (`read`, `write`, a frozen process). The kernel is built in release
mode, so arithmetic wraps. A system call that returns `Err` ends the calling
task with code -1 (`handler_riscv.rs:134-149`). `Arc` reference counts are
asserted in several places, and a failed assertion or `unwrap` stops the kernel.

| Component | State | Operations | What is hard |
|---|---|---|---|
| id and frame allocators (`task/allocator.rs`, `memory/allocator.rs`, `memory/frame.rs`) | next number, returned numbers, owners | alloc, drop of a tracker | any order of drops; the last number; the unwrap in Drop |
| processor (`task/process.rs`) | current task, ready queue, status | schedule, suspend, block, exit | a task in two places, or in none |
| scheduler (`task/scheduler.rs`, `lang/timer.rs`) | timer heap, clock | sleep, check timers, exit | order of the heap, wrapping, zombies in queues |
| mutex, semaphore, condvar (`sync/`) | owner, count, queues of Weak | lock, unlock, up, down, wait, signal | wake-ups, barging, dead owners |
| processes and threads (`task/model.rs`) | tree, tasks, exit codes, reference counts | fork, thread create, exit, two waits | ending a tree of processes in any state; a wait that fails half-way |
| signals (`task/signal.rs`, `task/model.rs`) | control block, trap context | kill, action, mask, return, delivery | handlers of one thread delivered by another's trap |
| pipe, ring buffer, standard input (`fs/pipe.rs`, `lang/buffer.rs`, `fs/stdio.rs`) | bytes, references of the ends, the console's lock | read, write, close | the end of the stream and locks across suspensions |
| memory (`memory/`) | page ranges, page tables, areas, frames | load, fork, exec, thread stacks, kernel stacks, exit | counts and unwraps in Drop, running out of frames |
| id tables, inode, block driver, boot, SBI, heap | | | not modelled, see section 7 |

Processes and threads use everything else: exit takes tasks out of the
scheduler while synchronisation objects, pipes and kernel stacks may still refer
to them, and gives back ids, areas and frames. Signals are checked at the end of
each trap and may suspend or end the task there.

## 2. The modules

| Module | Models | Correspondence |
|---|---|---|
| `IdAllocator` | both allocators | `current_id`, `recycled` as in the code; `trackers` counts the live trackers of each number; `AllocRecycled`, `AllocFresh`, `AllocExhausted` are the three ways through `alloc`, `DropTracker` is `Drop` with its unwrap |
| `Processor` | `PROCESSOR` and the ready queue | `current`, `ready`, `status`, and `pc`, the place in the kernel where a task goes on; extended by the three modules below |
| `Mutex` | both mutexes | `locked`, `next`, `waiting` as in the code; a Weak is a task, and `Upgrade` gives `NoTask` for a dropped one; `holders` is a history variable: tasks whose `lock` returned Ok |
| `Condvar` | condition variable composed with `Mutex` | `cond` is its queue; `wait` uses the whole of `unlock` and then goes on in `lock` |
| `Semaphore` | both semaphores | `count` and `waiting` as in the code; `start` is the count it was created with, which may be negative |
| `AbstractMutex`, `AbstractSemaphore`, `BoundedFifo` | what callers may rely on | at most one holder; permits; a bounded queue |
| `Scheduler` | timers, clock, whole-system queue | the heap is a set with the order of `partial_cmp`; `wake` is a history field: the uptime the caller meant |
| `Lifecycle` | processes and threads | strong counts are computed from who holds a task: the map, a queue, the processor, a kernel stack; `failed` says that the current call has returned `Err` and the trap handler is about to end its task |
| `Stdin` | the console's lock, composed with `Lifecycle` | `lock` is the task with the guard, `console` the tasks inside `Stdin::read`; every other step is a step of `Lifecycle` |
| `Signals` | signals of one process | the control block as a record; `ctx` is the root task's trap context |
| `RingBuffer` | `RingBuffer` | `head` is the write position, `tail` the read position, as the functions use them (the comments on the fields disagree, section 6), `status` as in the code |
| `Pipe` | both ends of a pipe | `held` are the references upgraded on kernel stacks; bytes are counted, `RingBuffer` covers their order |
| `PageRange` | linked list of page ranges | a sequence of nodes; pure operators |
| `PageTable` | Sv39 tables with counted mappers | operators over a record: mappers, entries, trackers, free frames, error |
| `Area` | areas of a space | operators on top of the two modules above: reserve a range and map it, drop, pop |
| `Space` | user spaces of several processes | one action per call of `task/model.rs` that changes a space |
| `KernelStacks` | the kernel space and the kernel stacks, composed with `IdAllocator` | `NewStack` and `DropStack` are `KernelStack::new` and its Drop; user spaces only take and return frames |
| `MC...` | model values, definitions and symmetry for TLC | |
| `...Proofs`, `LifecycleEnds` | theorems | section 5 |

Each module keeps, next to a definition, the variants ("Variant: ...") that the
mutation checks put in its place.

## 3. What the runs check

| Run | Bounds | Properties |
|---|---|---|
| `kernel_stacks` | 3 stacks of 2 pages with a guard page, 64 pages, 20 frames, 2 of them for user spaces | every id is owned once or free; no drop of a tracker fails; exactly the stacks of owned ids are mapped, to frames nobody else has; panics only after frames ran out |
| `mutex_condvar` | 3 threads | each blocked task in one queue, once; no lost wake-up; refinement of `AbstractMutex`; `wait` returns with the mutex; a wanted free mutex is taken; every waiter of the mutex is woken unless the holder is gone; every waiter is signalled |
| `semaphore` | 4 threads, created with 1 or with -2, counts to 2 | queue = blocked tasks; negative count = waiters and permits still owed; refinement of `AbstractSemaphore`; waiters are served |
| `scheduler` | 4 tasks, 5-bit words, 6 ticks, sleeps of 0 to 2 | one owner per living task; zombies stay dead; nobody wakes early, nobody is overdue; sleepers run |
| `lifecycle` | 3 pids, 4 tasks, 2 threads each | family tree; zombie test agrees with the exit path; exit codes present; assertions fail only where explained; exit codes are lost or changed only where explained; the console's lock is with a task that will run |
| `signals` | 3 threads, 5 signals, a handler and a mask for SEGV | the interrupted program is lost only by a nested delivery that the handler's mask allows; no trap ends in user mode with a bad signal set or frozen (a fresh thread's first switch is no trap, and is not covered); bad signals are decided unless the process is frozen or a second fault stops the kernel |
| `ring_buffer` | 5 bytes capacity, 3 byte values | status agrees with positions; refinement of `BoundedFifo` |
| `pipe` | 2 readers, 2 writers, capacity 3, calls of 4 bytes, one writer may die | short reads and writes mean what they should; readers return once no write end is left (a dead writer's call is one), and so does the last writer |
| `space` | 2 processes, 2 threads, 20 frames, 3 levels of 3 entries | frames partitioned; pages translate exactly to their areas' frames; mapper counts; page ranges match areas; panics only after frames ran out, or for a thread or program without room for its stack |
| `lifecycle_sync`, `signals_killed`, `signals_fault` | small | statements of the code that it does not keep, section 6 |

Why the bounds are enough to be interesting: three threads give a holder, a
woken waiter and a barging thread; four tasks in the scheduler give timers that
expire together with a zombie between them; a call of 4 bytes on a capacity of 3
has to be suspended in the middle; five slots wrap the ring in every position;
20 frames are enough for both processes and too few for all they may ask, so
that both the complete and the failing paths of every allocation occur, and the
same holds of the kernel stacks; the programs of `space` are one with room for
both threads, one whose second stack meets a segment of its own, two without
room for the first stack, and two that do not load; three threads in `signals`
are the root and two that fault one after the other; three processes give a zombie grandchild whose
parent ends, and four tasks give two readers of the console beside a task whose
exit would end one of them; a semaphore that owes two sees `up` on an empty
queue.

Type invariants are stated in the modules and left out of the configurations;
those of `IdAllocator`, `Mutex`, `Condvar` (`CondTypeOK`), `Semaphore`,
`RingBuffer` and `Lifecycle` are proved, and so is `Placement` of `Processor`:
every ready task is in the ready queue once, and no other task is.

Named bounds: `MaxCount` (no `up` beyond it), `MaxTicks` (the clock stops),
`Durations`, `Codes`, `Sizes`, `Capacity`, `Frames`, `MaxOthers` (frames of user
spaces in `kernel_stacks`). The clock bound also keeps
`scheduler` below the wrap of the clock, and the durations in the lower half of
the word (section 6).

Deadlock is checked except where the system may stop: all threads may wait on
each other (`mutex_condvar`, `semaphore`, `lifecycle`), a process ends
(`signals`), all descriptors are closed (`pipe`), or the kernel has panicked
(`lifecycle`, `space`, `kernel_stacks`).

## 4. Fairness

Weak fairness of kernel steps: the kernel is not preempted and its loops end.
Weak fairness of the timer interrupt: `set_next_trigger` arms the timer at each
interrupt (`handler_riscv.rs:180`), so a time slice ends. The ready queue is
first in, first out, and is modelled as a queue wherever liveness depends on it;
in `Signals`, which has no queue, strong fairness of the switch to a thread
(`Start`, `Resume` or `CallReturns`) stands for it. Assumptions on programs, not on the kernel, are
strong fairness of `Unlock` by a holder, of `Signal` and of `Up`: a program that
keeps running leaves its critical sections and keeps signalling. In `Pipe` only
the tasks inside a call are fair: no program has to close anything. A spinning
semaphore gives no guarantee while permits run out again and again, and
`WaitersServed` says so.

## 5. What is proved

All theorems hold for every value of the constants that satisfies the named
assumptions of the module, and are checked by TLAPS.

* **`IdPartition`, `IdExhaustion`** (`IdAllocatorProofs`), for every range of
  ids. `TypeOK /\ Partition /\ DropNeverFails` is inductive: a tracker exists
  only for a number below `current_id` that is not in `recycled`, which is the
  condition under which `dealloc` succeeds.
* **`MutexSafety`, `MutexRefinement`** (`MutexProofs`, with lemmas on the queue
  in `ProcessorProofs`), for every set of threads and both kinds of mutex. The
  inductive invariant `MInv` adds three facts to the safety properties.
  `HoldersAlive`: a holder is ready or running, so that its Weak in `locked` can
  be upgraded; without it a second `lock` could succeed. `NextInLock`: the woken
  waiter is inside `lock` and the mutex is free. `BlockedInLock`: a blocked task
  goes on in `lock`. `NextMeansFree` shows that the branch `mutex.rs:100-111` is
  never taken. `MInv(others)` leaves out the tasks that are blocked elsewhere.
* **`CondvarSafety`, `CondvarReturns`, `CondvarRefinement`** (`MutexProofs`),
  for every set of threads. `CInv` is `MInv` for the tasks that wait for a
  signal, with two facts more: a task inside `wait` goes on in `lock`, and no
  task inside `lock` is the one the mutex names, so that the error of a double
  lock never ends a task that comes back from `wait`.
* **`SemaphoreSafety`, `SemaphoreRefinement`** (`SemaphoreProofs`), for every
  finite set of threads and every set of initial counts, negative ones included.
  The refinement counts as permits those that are left and those given to tasks
  that have been woken and have not returned yet; it needs the set of threads
  to be finite for that sum.
* **`RingBufferSafety`, `RingBufferRefinement`** (`RingBufferProofs`), for every
  capacity and set of bytes. The invariant relates the write position to the
  read position and the length; the refinement mapping reads the content from
  the buffer, and the proof shows that a write appends to it and a read removes
  its head.
* **`SchedulerOwnership`, `SchedulerZombies`** (`SchedulerProofs`), for every
  finite set of tasks, word size, clock and set of durations. `Placed` is
  inductive because it also says where zombies may be: once in the ready queue
  or once in the heap, never in both, so that neither `check_timers` nor
  `schedule` can put one back. Nothing in it depends on the order of the heap.
* **`LifecycleFamily`, `LifecycleZombies`, `LifecycleAsserts`, `LifecycleCodes`**
  (`LifecycleProofs`, with the invariant and the end of processes in
  `LifecycleEnds`), for every finite set of processes, any control blocks and any
  number of threads. `LInv` has two halves. `Tasked`: each control block is
  in one slot of one process, the status of a living task names the one queue
  that has it, a thread that ended alone is in no queue, and a live process has
  a root task that has not ended. `Family`: children and parent are inverse, and
  every process in use is below the initial one. The last is what makes the end
  of a process work: without it there could be a cycle, and a process would be
  handed to an initial process that is itself being ended. Reference counts are
  sums over these places, so the assertions follow from `Tasked`. `Below` is the
  least set with a process that is closed under children.
* **`StdinLifecycle`, `StdinLock`** (`LifecycleProofs`): the composition with
  standard input implements `Lifecycle`, and the console's lock is with a task
  that will run again. The invariant adds that a task inside `sys_read` is ready
  or running: its strong count is one more than `mark_zombie` asserts, so a
  process with such a task cannot end while the kernel goes on.

Assumptions on the constants are the named ones of the modules: the finiteness
of `Task` and `Pid`, the special values outside the sets they are special to,
word sizes and bounds that are natural numbers.

Model-checked only: all liveness properties (fairness is outside the prover's
reach); `NeverEarly` and `NoneOverdue` of `Scheduler`, which depend on wrapping
arithmetic with exponents; `ReturnsClean` and `LostByNesting` of `Signals`;
`ShortReadIsEnd` and `ShortWriteIsUnread` of `Pipe`; and the properties of
`Space` with `StacksMapped` and `StackPanics` of `KernelStacks`, whose operators
fold over sequences of pages, so that a proof about them would be an induction
over data. `IdPartition` is about the allocator alone (`IdSpec`); that it also
holds when the ids are those of kernel stacks is what `kernel_stacks` checks.

## 6. Where the code and its statements disagree

With a run that shows it:

* `lifecycle_sync`: the assertion at `task/model.rs:1341` fails when a process
  ends while one of its threads is blocked on a mutex, semaphore or condition
  variable. `PanicsExplained` of the run `lifecycle` shows that the only other
  causes are a task suspended inside `sys_read` and the exit of the initial
  process while it has children.
* `signals_killed`: "If killed is true, the current task will be exit in the
  after" (`task/signal.rs:25`); a killed process goes on.
* `signals_fault`: "handler will kill the application and continue"
  (`trap/handler_riscv.rs:93`); two threads that fault one after the other panic
  the kernel.

Exceptions that a checked property has to name:

* `Lifecycle!CodesKept`, against the comments "keep task exit code, cause other
  task in the same process may wait for it" (`task/model.rs:205`) and "Store the
  exit code which define when task exiting" (`:582`): the tid of a thread that
  exits is free at once, and a new thread replaces the zombie and its code
  (`:1247`); an exiting parent overwrites the code of a child that is already a
  zombie (`:1344`); a wait whose pointer cannot be translated loses the code
  (`:1121`).
* `Condvar!WaitersWoken`: a holder that exits without unlocking keeps the mutex
  until it is reaped, and reaping it wakes nobody.
* `Signals!LostByNesting`, against "The backup value of normal trap context"
  (`task/signal.rs:23`): a second signal that the running handler does not mask
  overwrites the only backup. After the inner `sig_return` the root task is in
  the outer handler with nothing to return to.
* `Signals!ReturnsClean`, against "the current task will stop running until
  receive CONT signal" (`task/signal.rs:28`): the first switch of a thread goes
  to `trap_return` and looks at no signal, so that a fresh thread enters user
  mode in a frozen process, or with a bad signal set. `Signals!FrozenStops` is
  the statement without the exception; TLC refutes it.
* `Signals!BadSignalDecided`: with the panic of `signals_fault` the bad signal is
  never decided.
* `Space!SpacePanics`, against the errors that `TaskUserResource::new` and `exec`
  list (`task/model.rs:85-93`, `:363-376`): without room for a stack or a trap
  context both end in a panic although there are frames. For `exec` it takes a
  program whose last header is not its highest, or ends close to the top:
  `max_end_va` is the end of the last one (`memory/space.rs:930`). The other
  panics of `Space` follow a failed frame allocation: when frames run out in the
  middle of an area its Drop panics (`memory/area.rs:385-389`), where
  `:124-132` lists the error FrameExhausted.
* `Semaphore!CountIsWaiters`: a semaphore created with a negative count first
  pays what it owes.

Statements kept in the modules, which TLC refutes when they are added to a
configuration:

* `Signals!MaskedInactive` (`task/signal.rs:19`): a masked bad signal ends the
  task. `Signals!NormalSaved` (`:23`): a nested handler saves the context of the
  outer one. `Signals!ResumesNormally` (`task/model.rs:675-679`): another
  thread's `sig_return` leaves the root task with a wrong `a0`.
* `Scheduler!ClockIsUptime` (`lang/timer.rs:20-22`): with more ticks the product
  wraps. `Scheduler!NoneOverdue` with durations whose expiry is in the upper
  half of the word: such a timer is the head of the heap and hides the others.
* `Pipe!WritersReturn` (`fs/pipe.rs:24-26`): two writers suspended on a full
  pipe keep the buffer alive for each other after the last reader has gone.
* `Pipe!ReadersOutliveWriters` (`fs/pipe.rs:68`, "the pipe is closed and cannot
  write anymore byte into it"): a process that ends inside `write` leaves its
  reference to the write end on a kernel stack that is never unwound, and the
  readers stay in `read` for ever. `ReadersReturn` counts that reference as an
  open end.

Comments that the models translate differently, because the code does:

* `lang/buffer.rs:139-145` calls `head` the position "that have not yet been
  read" and `tail` the one "that have not yet been written"; `write_byte` stores
  at `head` and `read_byte` takes from `tail`. `StatusMatchesPositions` states
  the relation for the code's use.
* "If this address is 0, it means that it does not need to be saved"
  (`syscall/process.rs:134`, `syscall/task.rs:69`): `wait_pid` and `wait_tid`
  translate address 0 like any other (`task/model.rs:1121`, `:460`). When page 0
  is not mapped the wait fails after the zombie is gone, which is the wait with
  an invalid pointer in `Lifecycle`; when it is, the code is written there.

## 7. Not modelled

* The descriptor table and the tables of mutexes, semaphores and condition
  variables hand out the first empty index. No system call number leads to the
  `sys_release_...` functions (`syscall/mod.rs`), so that no object can go while
  tasks wait in it; descriptors are closed, which `Pipe` models by what it does
  to the ends.
* The file system and the virtio queue are crates outside the repository, and
  decide what `fs/inode.rs` and `drivers/blocks/virtio_blk.rs` do. `dma_dealloc`
  is for a device that is dropped, and the only one is a static that never is.
* The start lock in `main.rs`: which harts enter `main` is decided by the
  firmware and the assembly. All the rest of the kernel is written for one hart.
* Context switch and trampoline are assembly. The TLB is not modelled: an exiting
  root task unmaps the kernel stack it runs on before it switches away
  (`task/process.rs:148`), and whether that faults depends on the TLB.
* Flags of page-table entries, address packing, the contents of pages and the
  bytes of the console: no property depends on them. User buffers are translated
  before a call suspends; a translation that fails is an error of the call.
* Console output, logger, panic handler, error texts, heap, MMIO table and bitmap
  have no behaviour that the modelled parts depend on.

## 8. Plan

Done: the allocators, processor, synchronisation, scheduler, life cycle, standard
input, signals, pipe, user and kernel memory, with proofs for everything but
signals, pipes and memory. What could follow:

1. proofs for `Pipe` (`ShortReadIsEnd`) and for `Signals` (`LostByNesting`);
2. descriptor tables shared by fork and duplicated by `dup`, composed with
   `Pipe`, in place of one descriptor per task;
3. a composition of `Lifecycle` with `Scheduler`, in place of the set that
   stands for the ready queue;
4. the start lock of the harts, once the kernel is meant to run on several.
