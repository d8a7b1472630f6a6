------------------------------ MODULE PageTable ------------------------------
(***************************************************************************)
(* The page table of a space (memory/page_table_riscv.rs) and the frames   *)
(* it takes from the frame allocator. A machine is a record                *)
(*   free       frames the allocator would still give                      *)
(*   exhausted  whether an allocation ever failed                          *)
(*   err        "ok", or the error of the call that is being carried out   *)
(*   root       the frame of the root mapper                               *)
(*   mappers    frame -> [parent, count], the root included                *)
(*   pte        <<frame, index>> -> frame, the valid entries               *)
(*   trackers   vpn -> frame, the frames that hold data                    *)
(* which the operators below transform. The frame allocator gives out the  *)
(* smallest recycled frame, or the next fresh one, which is larger than    *)
(* every recycled one (IdAllocator): the smallest free frame.              *)
(***************************************************************************)
EXTENDS Integers, SequencesExt

CONSTANTS
  PAGE_LEVEL,  \* levels of the table, 3 under Sv39
  PTE_COUNT,   \* entries of a mapper, 512 under Sv39
  Frames       \* physical page numbers of the frame allocator

ASSUME PageTableAssumption ==
  /\ PAGE_LEVEL \in Nat /\ PAGE_LEVEL > 1
  /\ PTE_COUNT \in Nat /\ PTE_COUNT > 1
  /\ Frames \subseteq Nat \ {0}

None == 0

(* A frame outside the allocator's range: the trampoline's code. *)
TRAMPOLINE_PHYSICAL_PAGE_NUMBER == -1

Empty == [x \in {} |-> x]

Without(f, x) == [y \in DOMAIN f \ {x} |-> f[y]]

Fail(m, error) == [m EXCEPT !.err = error]

Exhausted(m) == [m EXCEPT !.err = "FrameExhausted", !.exhausted = TRUE]

page_indexes(vpn) ==
  [i \in 1..PAGE_LEVEL |-> (vpn \div PTE_COUNT ^ (PAGE_LEVEL - i)) % PTE_COUNT]

(* PageTable::new: only the root mapper, which has no parent. *)
NewTable(m) ==
  IF m.free = {} THEN Exhausted(m)
  ELSE LET ppn == Min(m.free)
       IN [m EXCEPT !.free = @ \ {ppn}, !.root = ppn,
                    !.mappers = (ppn :> [parent |-> None, count |-> 0]),
                    !.pte = Empty, !.trackers = Empty]

(* Writing a valid entry and counting it in its mapper. *)
SetEntry(m, at, index, ppn) ==
  LET written == [m EXCEPT !.pte = (<<at, index>> :> ppn) @@ @]
  IN IF m.mappers[at].count = PTE_COUNT THEN Fail(written, "AllocFullPageMapper")
     ELSE [written EXCEPT !.mappers[at].count = @ + 1]

(* One level down from mapper m.at, which is made if it is not there. *)
Descend(m, index) ==
  LET key == <<m.at, index>>
      Made(entered, ppn) ==
        IF entered.err # "ok" THEN [entered EXCEPT !.free = m.free]
        ELSE [entered EXCEPT !.mappers = (ppn :> [parent |-> m.at, count |-> 0]) @@ @,
                             !.at = ppn]
      Make(ppn) == Made(SetEntry([m EXCEPT !.free = @ \ {ppn}], m.at, index, ppn), ppn)
  IN CASE m.err # "ok" -> m
       [] m.err = "ok" /\ key \in DOMAIN m.pte ->
            IF m.pte[key] \in DOMAIN m.mappers THEN [m EXCEPT !.at = m.pte[key]]
            ELSE Fail(m, "PPNNotMapped")
       [] m.err = "ok" /\ key \notin DOMAIN m.pte /\ m.free = {} -> Exhausted(m)
       [] OTHER -> Make(Min(m.free))

map_without_alloc(m, vpn, ppn) ==
  LET Leaf(last, index) ==
        CASE last.err # "ok" -> last
          [] last.err = "ok" /\ <<last.at, index>> \in DOMAIN last.pte ->
               Fail(last, "VPNAlreadyMapped")
          [] OTHER -> SetEntry(last, last.at, index, ppn)
  IN Leaf(FoldLeft(Descend, [m EXCEPT !.at = m.root], Front(page_indexes(vpn))),
          Last(page_indexes(vpn)))

(* The mapper of the last level on the way to vpn, None when an entry on   *)
(* the way is not valid.                                                   *)
Walk(m, vpn) ==
  FoldLeft(LAMBDA at, index : IF at # None /\ <<at, index>> \in DOMAIN m.pte
                              THEN m.pte[<<at, index>>] ELSE None,
           m.root, Front(page_indexes(vpn)))

(* One level up without giving an emptied mapper back. *)
AscendKeeps(m, index) ==
  LET key == <<m.at, index>>
  IN CASE m.err # "ok" \/ m.at = None -> m
       [] m.err = "ok" /\ m.at # None /\ key \notin DOMAIN m.pte -> Fail(m, "VPNNotMapped")
       [] OTHER -> [m EXCEPT !.pte = Without(@, key), !.mappers[m.at].count = @ - 1,
                             !.at = None]

(* One level up: the entry at index of mapper m.at is cleared. A mapper    *)
(* that is empty then, and is not the root, is given back, and its parent  *)
(* is next; otherwise the walk is over.                                    *)
Ascend(m, index) ==
  LET key == <<m.at, index>>
      left == [m EXCEPT !.pte = Without(@, key), !.mappers[m.at].count = @ - 1]
  IN CASE m.err # "ok" \/ m.at = None -> m
       [] m.err = "ok" /\ m.at # None /\ key \notin DOMAIN m.pte -> Fail(m, "VPNNotMapped")
       [] m.err = "ok" /\ key \in DOMAIN m.pte /\ m.mappers[m.at].count = 0 ->
            Fail(m, "DeallocEmptyPageMapper")
       [] OTHER ->
            IF left.mappers[m.at].count > 0 \/ m.at = m.root THEN [left EXCEPT !.at = None]
            ELSE [left EXCEPT !.mappers = Without(@, m.at), !.free = @ \cup {m.at},
                              !.at = m.mappers[m.at].parent]

unmap_without_dealloc(m, vpn) ==
  LET From(at) ==
        CASE at = None -> Fail(m, "VPNNotMapped")
          [] at # None /\ at \notin DOMAIN m.mappers -> Fail(m, "PPNNotMapped")
          [] OTHER -> FoldLeft(Ascend, [m EXCEPT !.at = at], Reverse(page_indexes(vpn)))
  IN From(Walk(m, vpn))

(* map: the data frame is taken before the mappers. *)
map(m, vpn) ==
  LET Track(mapped, ppn) ==
        CASE mapped.err # "ok" -> [mapped EXCEPT !.free = @ \cup {ppn}]
          [] mapped.err = "ok" /\ vpn \in DOMAIN m.trackers -> Fail(mapped, "VPNAlreadyMapped")
          [] OTHER -> [mapped EXCEPT !.trackers = (vpn :> ppn) @@ @]
      Map(ppn) == Track(map_without_alloc([m EXCEPT !.free = @ \ {ppn}], vpn, ppn), ppn)
  IN IF m.free = {} THEN Exhausted(m) ELSE Map(Min(m.free))

(* unmap that only drops the frame and leaves the entry. *)
UnmapLeavesEntry(m, vpn) ==
  IF vpn \notin DOMAIN m.trackers THEN Fail(m, "VPNNotMapped")
  ELSE [m EXCEPT !.trackers = Without(@, vpn), !.free = @ \cup {m.trackers[vpn]}]

unmap(m, vpn) ==
  LET Untrack(cleared) ==
        CASE cleared.err # "ok" -> cleared
          [] cleared.err = "ok" /\ vpn \notin DOMAIN m.trackers ->
               Fail(cleared, "VPNNotMapped")
          [] OTHER -> [cleared EXCEPT !.trackers = Without(@, vpn),
                                      !.free = @ \cup {m.trackers[vpn]}]
  IN Untrack(unmap_without_dealloc(m, vpn))

(* The set of the one frame vpn translates to, or of none. *)
translate_ppn_with(m, vpn) ==
  LET key == <<Walk(m, vpn), Last(page_indexes(vpn))>>
  IN {m.pte[k] : k \in {key} \cap DOMAIN m.pte}

(* A dropped table that forgets its mappers. *)
DropTableLeaks(m) == [m EXCEPT !.free = @ \cup Range(m.trackers)]

(* A dropped table gives back the frames of its mappers and its data. *)
DropTable(m) ==
  [m EXCEPT !.free = @ \cup DOMAIN m.mappers \cup Range(m.trackers)]
=============================================================================
