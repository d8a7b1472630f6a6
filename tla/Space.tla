-------------------------------- MODULE Space --------------------------------
(***************************************************************************)
(* The address spaces of the processes (memory/space.rs, memory/area.rs)   *)
(* over the page tables and one frame allocator, and what processes do     *)
(* with them (task/model.rs): load a program, copy a space, give a thread  *)
(* its user stack and trap context and take them back, end and be reaped.  *)
(* Which process may do what when is Lifecycle's business; here a process  *)
(* only has to exist, so every order of the calls is covered.              *)
(*                                                                         *)
(* A handler is one step, whose calls thread a machine (Area). Addresses   *)
(* are in pages, and what the pages contain is left out.                   *)
(***************************************************************************)
EXTENDS Area

CONSTANTS
  Procs,                 \* process slots
  InitProc,              \* the one that exists from the start
  Tids,                  \* thread ids, ROOT_TID = 0 among them
  Programs,              \* each the sequence of its load segments, in any order
  STACK, GUARD           \* pages of a user stack and of the gap below it

ASSUME SpaceAssumption ==
  /\ InitProc \in Procs
  /\ 0 \in Tids /\ Tids \subseteq Nat
  /\ STACK \in Nat \ {0} /\ GUARD \in Nat \ {0}

VARIABLES
  space,      \* each process's space, NoSpace before and after
  free,       \* frames the allocator can give
  exhausted,  \* whether it ever failed to
  kernel      \* "running" or "panicked"

vars == <<space, free, exhausted, kernel>>

ROOT_TID == 0

(* Processes that have a space: a table has a root. *)
Alive == {p \in Procs : space[p].root # None}

get_user_task_stack_vpn_range(base, tid) ==
  LET start == base + (tid + 1) * GUARD + tid * STACK IN <<start, start + STACK>>

get_task_trap_ctx_vpn_range(tid) == <<TRAMPOLINE_VPN - 1 - tid, TRAMPOLINE_VPN - tid>>

(* ------------------------------------------------------------ spaces *)

(* A machine for a space to be made. *)
Bare == Blank(free, exhausted)

(* new_bare, the areas in order, the trampoline. Both ways to make a space *)
(* end so; on an error the caller drops what is there (DropSpace).         *)
BuildSpace(m, areas) ==
  map_trampoline(FoldLeft(NewArea, NewTable(m), areas))

recycle_data_pages(m) == [FoldLeft(DropArea, m, InOrder(m.areas)) EXCEPT !.areas = {}]

(* A dropped space: its areas one by one, then the table with what is left *)
(* in it. Before new_bare succeeds there is nothing to drop.               *)
DropSpace(m) ==
  LET Table(empty) == IF empty.err = "ok" THEN Fail(DropTable(empty), m.err) ELSE empty
  IN IF m.err = "panic" THEN m ELSE Table(recycle_data_pages([m EXCEPT !.err = "ok"]))

new_user_from_elf(m, segments) ==
  [BuildSpace(m, segments) EXCEPT !.base = Last(segments)[2]]

(* All areas of another space but the stacks and trap contexts of its      *)
(* threads. What from_another copies into the pages is left out.           *)
new_user_from_another(m, another) ==
  LET excluded == {get_user_task_stack_vpn_range(another.base, t) : t \in another.tids}
                    \cup {get_task_trap_ctx_vpn_range(t) : t \in another.tids}
  IN [BuildSpace(m, InOrder(another.areas \ excluded)) EXCEPT !.base = another.base]

(* ------------------------------------------------- thread resources *)

(* TaskUserResource::alloc: the user stack, then the trap context. *)
AllocResource(m, tid) ==
  LET Made(done) == IF done.err = "ok" THEN [done EXCEPT !.tids = @ \cup {tid}] ELSE done
  IN Made(NewArea(NewArea(m, get_user_task_stack_vpn_range(m.base, tid)),
                  get_task_trap_ctx_vpn_range(tid)))

(* TaskUserResource::dealloc: the other way round. *)
DeallocResource(m, tid) ==
  [PopArea(PopArea(m, get_task_trap_ctx_vpn_range(tid)),
           get_user_task_stack_vpn_range(m.base, tid)) EXCEPT !.tids = @ \ {tid}]

(* TaskUserResource::drop unwraps. *)
Unwrap(m) == IF m.err = "ok" THEN m ELSE Fail(m, "panic")
DropResource(m, tid) == Unwrap(DeallocResource(m, tid))

(* TaskUserResource::new: an error drops the resource, which deallocates   *)
(* two areas of which at least one is not there.                           *)
NewResource(m, tid) ==
  LET Made(done) ==
        IF done.err \in {"ok", "panic"} THEN done
        ELSE DropResource([done EXCEPT !.err = "ok"], tid)
  IN Made(AllocResource(m, tid))

(* ----------------------------------------------------------- actions *)

(* The machine for the space of process p, with the frames machine m left. *)
Over(p, m) ==
  space[p] @@ [free |-> m.free, exhausted |-> m.exhausted, err |-> "ok", at |-> None]

(* The outcome of a handler, which a panicked kernel does not reach: a     *)
(* panic, or machine m as p's space.                                       *)
Commit(p, m) ==
  /\ kernel = "running"
  /\ exhausted' = m.exhausted
  /\ IF m.err = "panic"
     THEN kernel' = "panicked" /\ UNCHANGED <<space, free>>
     ELSE /\ space' = [space EXCEPT ![p] = Keep(m)]
          /\ free' = m.free
          /\ UNCHANGED kernel

(* mark_zombie with the pages recycled before the threads let go of theirs. *)
EndRecyclesFirst(m) ==
  FoldLeft(DropResource, recycle_data_pages(m), SetToSortSeq(m.tids, <))

(* ProcessControlBlock::mark_zombie: every thread's resource is dropped,   *)
(* then the other areas. The table stays until the process is reaped.      *)
End(m) ==
  recycle_data_pages(FoldLeft(DropResource, m, SetToSortSeq(m.tids, <)))

(* A system call of p that failed after machine m: p's root task exits. *)
EndAfter(p, m) == Commit(p, IF m.err = "panic" THEN m ELSE End(Over(p, m)))

(* sys_thread_create. A failure is TaskUserResource::new's, never an Err. *)
ThreadCreate(p, t) ==
  /\ ROOT_TID \in space[p].tids /\ t \notin space[p].tids
  /\ Commit(p, NewResource(Over(p, Bare), t))

(* A thread other than the root ends and its user resource with it. *)
ThreadExit(p, t) ==
  /\ t \in space[p].tids \ {ROOT_TID}
  /\ Commit(p, DropResource(Over(p, Bare), t))

(* fork_process, called by the root task of p, with q the new process. *)
Fork(p, q) ==
  LET Copied(copy) == IF copy.err = "ok" THEN Commit(q, NewResource(copy, ROOT_TID))
                      ELSE EndAfter(p, DropSpace(copy))
  IN /\ ROOT_TID \in space[p].tids /\ q \notin Alive
     /\ Copied(new_user_from_another(Bare, space[p]))

(* exec by the only thread of p: the new space is built, the thread's      *)
(* resource moves over, and the old space is dropped. When there is no     *)
(* room or no frame for it in the new space, the call fails with the       *)
(* thread's resource gone, and its exit then panics.                       *)
Exec(p, segments) ==
  LET Replaced(new, gone) ==
        Commit(p, IF new.err = "ok" /\ gone.err = "ok" THEN [new EXCEPT !.free = gone.free]
                  ELSE Fail(new, "panic"))
      Moved(new, old) == Replaced(new, DropSpace([old EXCEPT !.free = new.free]))
      Left(old, loaded) ==
        Moved(AllocResource([loaded EXCEPT !.free = old.free], ROOT_TID), old)
      Loaded(loaded) ==
        IF loaded.err = "ok" THEN Left(DeallocResource(Over(p, loaded), ROOT_TID), loaded)
        ELSE EndAfter(p, DropSpace(loaded))
  IN /\ space[p].tids = {ROOT_TID}
     /\ Loaded(new_user_from_elf(Bare, segments))

(* The root task ends, or a parent's end takes the process with it. *)
Exit(p) ==
  /\ ROOT_TID \in space[p].tids
  /\ Commit(p, End(Over(p, Bare)))

(* wait_pid drops the last reference to a zombie: of the space nothing is  *)
(* left.                                                                   *)
Reap(p) ==
  LET Gone(m) == NoSpace @@ m
  IN /\ p # InitProc /\ space[p].tids = {}
     /\ Commit(p, Gone(DropSpace(Over(p, Bare))))

(* new_init_proc has loaded some program, with all frames free before. *)
Init ==
  \E segments \in Programs :
    LET loaded == NewResource(new_user_from_elf(Blank(Frames, FALSE), segments), ROOT_TID)
    IN /\ loaded.err = "ok"
       /\ space = [p \in Procs |-> IF p = InitProc THEN Keep(loaded) ELSE NoSpace]
       /\ free = loaded.free
       /\ exhausted = FALSE
       /\ kernel = "running"

Next ==
  \E p \in Alive :
    \/ \E t \in Tids : ThreadCreate(p, t) \/ ThreadExit(p, t)
    \/ \E q \in Procs : Fork(p, q)
    \/ \E segments \in Programs : Exec(p, segments)
    \/ Exit(p)
    \/ Reap(p)

Spec == Init /\ [][Next]_vars

(* -------------------------------------------------------- properties *)

(* Ranges of pages without a common page. *)
Disjoint(a, b) == a[2] <= b[1] \/ b[2] <= a[1]

Held(sp) == DOMAIN sp.mappers \cup Range(sp.trackers)

(* No frame is lost and none is used twice: a frame is free, or it is one  *)
(* mapper or one page of data of one space (FrameTracker, alloc and drop   *)
(* across map, unmap, the error paths, and dropped spaces).                *)
FramesPartitioned ==
  /\ Frames = free \cup UNION {Held(space[p]) : p \in Alive}
  /\ \A p \in Alive :
       /\ Held(space[p]) \cap free = {}
       /\ \A q \in Alive \ {p} : Held(space[p]) \cap Held(space[q]) = {}
       /\ IsInjective(space[p].trackers)
       /\ DOMAIN space[p].mappers \cap Range(space[p].trackers) = {}

AreaPages(sp) == UNION {a[1]..(a[2] - 1) : a \in sp.areas}

(* A page translates exactly when it belongs to an area or is the          *)
(* trampoline, and then to the frame that was taken for it: no stale       *)
(* translation outlives its area (translate_ppn_with against area_set).    *)
TranslatesAreas ==
  \A p \in Alive : \A v \in 0..MAX_VPN :
    translate_ppn_with(space[p], v) =
      CASE v = TRAMPOLINE_VPN -> {TRAMPOLINE_PHYSICAL_PAGE_NUMBER}
        [] v \in AreaPages(space[p]) -> {space[p].trackers[v]}
        [] OTHER -> {}

(* Every mapper counts its valid entries, and none but the root is kept    *)
(* once it has none: so unmapping finds the mappers to give back, and a    *)
(* table holds no more frames than its pages need.                         *)
MappersCount ==
  \A p \in Alive : \A f \in DOMAIN space[p].mappers :
    LET n == Cardinality({k \in DOMAIN space[p].pte : k[1] = f})
    IN /\ space[p].mappers[f].count = n
       /\ n = 0 => f = space[p].root

(* The page range allocator has given out exactly the pages of the areas,  *)
(* and two neighbouring intervals differ, as PageNode's comment asks: a    *)
(* free range is never hidden by a split that was not merged again.        *)
RangesMatchAreas ==
  \A p \in Alive :
    LET nodes == space[p].nodes
    IN /\ UsedPages(nodes) = AreaPages(space[p])
       /\ \A i \in 1..Len(nodes) - 2 : nodes[i].used # nodes[i + 1].used

(* The user stack and the trap context of a thread fit into a space with   *)
(* these areas: in pages that nothing else has, the trampoline included.   *)
Room(areas, base, tid) ==
  LET stack == get_user_task_stack_vpn_range(base, tid)
      ctx == get_task_trap_ctx_vpn_range(tid)
  IN /\ \A a \in areas : Disjoint(stack, a) /\ Disjoint(ctx, a)
     /\ stack[2] <= ctx[1]

(* While there are frames, the unwraps on the way (Area, PageRangeTracker, *)
(* FrameTracker and TaskUserResource being dropped) fail in two calls      *)
(* only, which find no room for a stack or trap context and then drop a    *)
(* resource that is not there: sys_thread_create, and exec of a program    *)
(* whose stack meets its own segments or the top of the space. max_end_va  *)
(* is the end of the last header, which need not be the highest. Ends,     *)
(* forks and reaped processes never panic, nor does a program that cannot  *)
(* be loaded.                                                              *)
SpacePanics ==
  [][kernel' = "panicked" /\ ~exhausted' =>
       /\ \A p \in Alive :
            /\ ~Exit(p) /\ ~Reap(p)
            /\ \A t \in Tids : ~ThreadExit(p, t)
            /\ \A q \in Procs : ~Fork(p, q)
       /\ \A p \in Alive, t \in Tids :
            ThreadCreate(p, t) => ~Room(space[p].areas, space[p].base, t)
       /\ \A p \in Alive, segments \in Programs :
            Exec(p, segments) => ~Room(Range(segments), Last(segments)[2], ROOT_TID)]_vars
=============================================================================
