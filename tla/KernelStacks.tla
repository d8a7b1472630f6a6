---------------------------- MODULE KernelStacks ----------------------------
(***************************************************************************)
(* The kernel space (memory/space.rs) and the kernel stacks in it          *)
(* (KernelStack in task/model.rs): a task control block owns an id of      *)
(* KERNEL_STACK_ALLOCATOR and the stack mapped at the place the id gives.  *)
(* A stack is made with its task and dropped with the last reference to    *)
(* it, so ids come back in any order. The user spaces share the frames:    *)
(* here they only take frames and give them back.                          *)
(***************************************************************************)
EXTENDS Area, IdAllocator

CONSTANTS
  Sections,      \* what new_kernel maps one to one, in its order; the last is the free memory
  KSTACK,        \* pages of KERNEL_TASK_STACK_BYTE_SIZE
  KGUARD,        \* KERNEL_GUARD_PAGE_COUNT
  MaxOthers      \* bound on the frames user spaces take

ASSUME KernelStacksAssumption ==
  /\ FirstId = 0
  /\ KSTACK \in Nat \ {0} /\ KGUARD \in Nat \ {0} /\ MaxOthers \in Nat
  /\ \A i \in 1..Len(Sections) - 1 : Sections[i][2] <= Sections[i + 1][1]
  /\ Frames = Sections[Len(Sections)][1]..(Sections[Len(Sections)][2] - 1)

VARIABLES
  kspace,     \* KERNEL_SPACE
  free,       \* frames the allocator can give
  exhausted,  \* whether it ever failed to
  others      \* frames of user spaces

stackVars == <<current_id, recycled, trackers, kernel, kspace, free, exhausted, others>>

(* Variant: the stacks lie one page too high. *)
StackRangeHigh(kid) ==
  LET end == TRAMPOLINE_VPN + 1 - (KSTACK + KGUARD) * kid IN <<end - KSTACK, end>>

get_kernel_task_stack_vpn_range(kid) ==
  LET end == TRAMPOLINE_VPN - (KSTACK + KGUARD) * kid IN <<end - KSTACK, end>>

(* new_kernel: the sections that are not empty, then the trampoline. *)
new_kernel(m) ==
  map_trampoline(FoldLeft(NewIdenticalArea, NewTable(m),
                          SelectSeq(Sections, LAMBDA a : a[1] # a[2])))

Init ==
  LET booted == new_kernel(Blank(Frames, FALSE))
  IN /\ booted.err = "ok"
     /\ kspace = Keep(booted)
     /\ free = booted.free
     /\ exhausted = FALSE
     /\ others = {}
     /\ IdInit

Machine == kspace @@ [free |-> free, exhausted |-> exhausted, err |-> "ok", at |-> None]

(* A handler ends with machine m; an unwrap that met an Err ends the       *)
(* kernel, and what the ids are then does not matter.                      *)
Settle(m) == kspace' = Keep(m) /\ free' = m.free /\ exhausted' = m.exhausted

AreaPanic(m) ==
  /\ kernel' = "area panicked"
  /\ exhausted' = m.exhausted
  /\ UNCHANGED <<current_id, recycled, trackers, kspace, free>>

map_kernel_task_stack(kid) == NewArea(Machine, get_kernel_task_stack_vpn_range(kid))

unmap_kernel_task_stack(kid) == PopArea(Machine, get_kernel_task_stack_vpn_range(kid))

(* KernelStack::new: an id, then the stack of this id. When Area::new fails *)
(* the half-built area is dropped first, and the id goes back.             *)
NewStack(id) ==
  LET Mapped(m) ==
        CASE m.err = "ok" -> (AllocRecycled \/ AllocFresh) /\ Settle(m)
          [] m.err = "panic" -> AreaPanic(m)
          [] OTHER -> /\ recycled' = recycled \cup {id}
                      /\ current_id' = IF recycled = {} THEN id + 1 ELSE current_id
                      /\ Settle(m)
                      /\ UNCHANGED <<trackers, kernel>>
  IN /\ kernel = "running"
     /\ IF recycled # {} THEN id = Smallest(recycled) ELSE id = current_id
     /\ Mapped(map_kernel_task_stack(id))
     /\ UNCHANGED others

(* Variant: the stack is not unmapped. *)
DropStackForgets(kid) ==
  /\ DropTracker(kid)
  /\ UNCHANGED <<kspace, free, exhausted, others>>

(* Drop for KernelStack: unmap_kernel_task_stack, unwrapped, and then the  *)
(* tracker of the id is dropped.                                           *)
DropStack(kid) ==
  LET Popped(m) == IF m.err = "ok" THEN DropTracker(kid) /\ Settle(m) ELSE AreaPanic(m)
  IN /\ kernel = "running"
     /\ trackers[kid] > 0
     /\ Popped(unmap_kernel_task_stack(kid))
     /\ UNCHANGED others

(* User spaces, by way of FRAME_ALLOCATOR. *)
OthersTake ==
  /\ kernel = "running"
  /\ Cardinality(others) < MaxOthers /\ free # {}
  /\ others' = others \cup {Min(free)}
  /\ free' = free \ {Min(free)}
  /\ UNCHANGED <<current_id, recycled, trackers, kernel, kspace, exhausted>>

OthersReturn(f) ==
  /\ kernel = "running"
  /\ f \in others
  /\ others' = others \ {f}
  /\ free' = free \cup {f}
  /\ UNCHANGED <<current_id, recycled, trackers, kernel, kspace, exhausted>>

Next ==
  \/ AllocExhausted /\ UNCHANGED <<kspace, free, exhausted, others>>
  \/ \E id \in Ids : NewStack(id) \/ DropStack(id)
  \/ OthersTake
  \/ \E f \in others : OthersReturn(f)

Spec == Init /\ [][Next]_stackVars

-----------------------------------------------------------------------------

Owned == {id \in Ids : trackers[id] > 0}

PagesOf(ranges) == UNION {a[1]..(a[2] - 1) : a \in ranges}

StackPages == PagesOf({get_kernel_task_stack_vpn_range(id) : id \in Owned})

(* In every state the kernel space is what the running kernel relies on.   *)
(* The image and the free memory translate to themselves, which is how the *)
(* kernel reaches every frame.  The stack of each task in existence is     *)
(* mapped, to frames that nobody else has and that belong to no table.     *)
(* Every other page, so every guard page and every stack whose task is     *)
(* gone, is not mapped.  This is KernelStack::new and its Drop over        *)
(* map_kernel_task_stack and unmap_kernel_task_stack (model.rs:39).        *)
StacksMapped ==
  /\ \A v \in 0..MAX_VPN :
       translate_ppn_with(kspace, v) =
         CASE v = TRAMPOLINE_VPN -> {TRAMPOLINE_PHYSICAL_PAGE_NUMBER}
           [] v \in PagesOf(Range(Sections)) -> {v}
           [] v \in StackPages -> {kspace.trackers[v]}
           [] OTHER -> {}
  /\ DOMAIN kspace.trackers = StackPages
  /\ IsInjective(kspace.trackers)
  /\ LET held == <<free, others, DOMAIN kspace.mappers, Range(kspace.trackers)>>
     IN /\ UNION Range(held) = Frames
        /\ \A i, j \in 1..4 : i # j => held[i] \cap held[j] = {}

(* Making a stack and dropping one, in any order, panics only when frames  *)
(* run out in the middle of a stack: the place of an id is free when the   *)
(* id is, and the stack of an owned id is always there to unmap.           *)
StackPanics == kernel = "area panicked" => exhausted

=============================================================================
