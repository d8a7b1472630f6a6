-------------------------------- MODULE Area --------------------------------
(***************************************************************************)
(* Areas (memory/area.rs): ranges of pages of a space, each reserved with  *)
(* the page range allocator and mapped page by page. The machine of        *)
(* PageTable is threaded on with                                           *)
(*   nodes   the list of the page range allocator                          *)
(*   areas   area_set, the areas as <<start, end>>                         *)
(* and, for user spaces, base_size and the tids that own a resource. The   *)
(* err "panic" is an unwrap() that met an Err.                             *)
(***************************************************************************)
EXTENDS PageRange, PageTable

MAX_VPN == PTE_COUNT ^ PAGE_LEVEL - 1
TRAMPOLINE_VPN == MAX_VPN

(* Sorted by start, as the area_set BTreeMap iterates. *)
InOrder(areas) == SetToSortSeq(areas, LAMBDA a, b : a[1] < b[1])

Pages(a) == [i \in 1..(a[2] - a[1]) |-> a[1] + i - 1]

(* new_bare, but for the table, over some free frames. *)
Blank(frames, failed) ==
  [free |-> frames, exhausted |-> failed, err |-> "ok", root |-> None, at |-> None,
   mappers |-> Empty, pte |-> Empty, trackers |-> Empty,
   nodes |-> NewRange(0, MAX_VPN + 1), areas |-> {}, base |-> 0, tids |-> {}]

(* What of a machine belongs to the space. *)
Keep(m) ==
  [root |-> m.root, mappers |-> m.mappers, pte |-> m.pte, trackers |-> m.trackers,
   nodes |-> m.nodes, areas |-> m.areas, base |-> m.base, tids |-> m.tids]

NoSpace == Keep(Blank({}, FALSE))

map_trampoline(m) ==
  IF m.err # "ok" THEN m
  ELSE map_without_alloc(m, TRAMPOLINE_VPN, TRAMPOLINE_PHYSICAL_PAGE_NUMBER)

(* Drop for Area: unmap().unwrap(), then the range goes back, unwrapped    *)
(* too. Nothing follows a panic.                                           *)
DropArea(m, a) ==
  LET Release(unmapped, nodes) ==
        IF unmapped.err # "ok" \/ nodes = {} THEN Fail(unmapped, "panic")
        ELSE [unmapped EXCEPT !.nodes = CHOOSE n \in nodes : TRUE]
  IN IF m.err = "panic" THEN m
     ELSE Release(FoldLeft(LAMBDA acc, v : IF acc.err = "ok" THEN unmap(acc, v) ELSE acc,
                           m, Pages(a)),
                  dealloc(m.nodes, a[1], a[2]))

(* Area::new and the push into area_set: reserve the range, map page by    *)
(* page. An error of map() drops the area that was half built.             *)
NewArea(m, a) ==
  LET Dropped(half, error) == IF half.err = "ok" THEN Fail(half, error) ELSE half
      Push(mapped) ==
        IF mapped.err = "ok" THEN [mapped EXCEPT !.areas = @ \cup {a}]
        ELSE Dropped(DropArea([mapped EXCEPT !.err = "ok"], a), mapped.err)
      Reserved(nodes) ==
        IF nodes = {} THEN Fail(m, "AreaAllocFailed")
        ELSE Push(FoldLeft(LAMBDA acc, v : IF acc.err = "ok" THEN map(acc, v) ELSE acc,
                           [m EXCEPT !.nodes = CHOOSE n \in nodes : TRUE], Pages(a)))
  IN IF m.err # "ok" THEN m ELSE Reserved(alloc(m.nodes, a[1], a[2]))

(* Area::new for an Identical area of the kernel's image and its push. *)
NewIdenticalArea(m, a) ==
  LET Push(mapped) == IF mapped.err = "ok" THEN [mapped EXCEPT !.areas = @ \cup {a}] ELSE mapped
      Reserved(nodes) ==
        IF nodes = {} THEN Fail(m, "AreaAllocFailed")
        ELSE Push(FoldLeft(LAMBDA acc, v : IF acc.err = "ok" THEN map_without_alloc(acc, v, v)
                                           ELSE acc,
                           [m EXCEPT !.nodes = CHOOSE n \in nodes : TRUE], Pages(a)))
  IN IF m.err # "ok" THEN m ELSE Reserved(alloc(m.nodes, a[1], a[2]))

(* Space::pop *)
PopArea(m, a) ==
  CASE m.err # "ok" -> m
    [] m.err = "ok" /\ a \notin m.areas -> Fail(m, "AreaDeallocFailed")
    [] OTHER -> DropArea([m EXCEPT !.areas = @ \ {a}], a)
=============================================================================
