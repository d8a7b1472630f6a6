------------------------------ MODULE PageRange ------------------------------
(***************************************************************************)
(* LinkedListPageRangeAllocator (memory/allocator.rs): which virtual pages *)
(* of a space are given to areas. The linked list of PageNodes is a        *)
(* sequence of [vpn, used]: a node opens the interval that the next one    *)
(* ends, and the last node only ends the range. The list is doubly linked  *)
(* with Arc and Weak; link and merge_range keep both directions in step,   *)
(* which is what lets a sequence stand for it.                             *)
(***************************************************************************)
EXTENDS Naturals, SequencesExt

Node(used, vpn) == [vpn |-> vpn, used |-> used]

NewRange(start, end) == <<Node(FALSE, start), Node(FALSE, end)>>

(* The node that opens the interval which holds [start, end). The code     *)
(* walks the list and stops at the first node that ends after start; the   *)
(* vpns ascend, so at most one interval qualifies.                         *)
find_range_nodes(nodes, start, end) ==
  {i \in 1..Len(nodes) - 1 : nodes[i].vpn <= start /\ nodes[i + 1].vpn >= end}

(* Node i is dropped when it has two neighbours and only repeats the state *)
(* of the interval before it.                                              *)
merge_range(nodes, i) ==
  IF 1 < i /\ i < Len(nodes) /\ nodes[i].used = nodes[i - 1].used
  THEN RemoveAt(nodes, i) ELSE nodes

(* Split with the merge of the left interval missing. *)
SplitNoMerge(nodes, i, start, end, used) ==
  LET marked == [nodes EXCEPT ![i].used = used]
  IN CASE nodes[i].vpn # start /\ nodes[i + 1].vpn # end ->
            InsertAt(InsertAt(nodes, i + 1, Node(~used, end)), i + 1, Node(used, start))
       [] nodes[i].vpn # start /\ nodes[i + 1].vpn = end ->
            merge_range(InsertAt(nodes, i + 1, Node(used, start)), i + 2)
       [] nodes[i].vpn = start /\ nodes[i + 1].vpn # end ->
            InsertAt(marked, i + 1, Node(~used, end))
       [] OTHER -> merge_range(marked, i + 1)

(* The list after [start, end), which lies in the interval opened by node  *)
(* i, turned to used: split off what is left on either side, and merge     *)
(* with a neighbour where nothing is left between.                         *)
Split(nodes, i, start, end, used) ==
  LET marked == [nodes EXCEPT ![i].used = used]
      merged == merge_range(marked, i)
  IN CASE nodes[i].vpn # start /\ nodes[i + 1].vpn # end ->
            InsertAt(InsertAt(nodes, i + 1, Node(~used, end)), i + 1, Node(used, start))
       [] nodes[i].vpn # start /\ nodes[i + 1].vpn = end ->
            merge_range(InsertAt(nodes, i + 1, Node(used, start)), i + 2)
       [] nodes[i].vpn = start /\ nodes[i + 1].vpn # end ->
            merge_range(InsertAt(marked, i + 1, Node(~used, end)), i)
       [] OTHER -> merge_range(merged, Len(merged) - Len(nodes) + i + 1)

(* Some(()) with the new list, or None: a set of one list or none. *)
change(nodes, start, end, used) ==
  {Split(nodes, i, start, end, used) :
     i \in {i \in find_range_nodes(nodes, start, end) :
              start < end /\ nodes[i].used # used}}

alloc(nodes, start, end) == change(nodes, start, end, TRUE)
dealloc(nodes, start, end) == change(nodes, start, end, FALSE)

(* Reading the list: the pages in its used intervals. *)
UsedPages(nodes) ==
  UNION {nodes[i].vpn..(nodes[i + 1].vpn - 1) :
           i \in {i \in 1..Len(nodes) - 1 : nodes[i].used}}
=============================================================================
