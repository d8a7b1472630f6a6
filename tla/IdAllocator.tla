---------------------------- MODULE IdAllocator ----------------------------
(***************************************************************************)
(* The recycling allocators of the kernel: BTreeIdAllocator (process ids,  *)
(* thread ids, kernel stack ids) and BTreeSetFrameAllocator (physical      *)
(* frames).  Both hand out the smallest recycled number, else the next     *)
(* number never used, and both are driven by a tracker whose Drop gives    *)
(* the number back and unwraps the result.                                 *)
(*                                                                         *)
(* The first number is 0 for ids and the first page after the kernel image *)
(* for frames, so it is a constant here.                                   *)
(***************************************************************************)
EXTENDS Integers, FiniteSets

CONSTANTS
  FirstId,   \* the value current_id starts from
  MaxId      \* max_id / end_ppn: the first number that is never handed out

ASSUME IdBounds == FirstId \in Nat /\ MaxId \in Nat /\ FirstId <= MaxId

VARIABLES
  current_id,  \* the next number never handed out before
  recycled,    \* numbers given back and not handed out again
  trackers,    \* how many living IdTrackers / FrameTrackers own each number
  kernel       \* "panicked" once a tracker's Drop unwrapped an error

vars == <<current_id, recycled, trackers, kernel>>

Ids == FirstId .. (MaxId - 1)

IdInit ==
  /\ current_id = FirstId
  /\ recycled = {}
  /\ trackers = [id \in Ids |-> 0]
  /\ kernel = "running"

Smallest(S) == CHOOSE id \in S : \A other \in S : id <= other

-----------------------------------------------------------------------------

(* Variant: first() instead of pop_first(). *)
AllocRecycledKept ==
  /\ kernel = "running"
  /\ recycled # {}
  /\ trackers' = [trackers EXCEPT ![Smallest(recycled)] = @ + 1]
  /\ UNCHANGED <<current_id, recycled, kernel>>

(* recycled.pop_first() gives the smallest recycled number. *)
AllocRecycled ==
  /\ kernel = "running"
  /\ recycled # {}
  /\ recycled' = recycled \ {Smallest(recycled)}
  /\ trackers' = [trackers EXCEPT ![Smallest(recycled)] = @ + 1]
  /\ UNCHANGED <<current_id, kernel>>

(* Nothing recycled: current_id is handed out and advanced. *)
AllocFresh ==
  /\ kernel = "running"
  /\ recycled = {}
  /\ current_id < MaxId
  /\ current_id' = current_id + 1
  /\ trackers' = [trackers EXCEPT ![current_id] = @ + 1]
  /\ UNCHANGED <<recycled, kernel>>

(* Err(IdExhausted) / Err(FrameExhausted): no state changes. *)
AllocExhausted ==
  /\ kernel = "running"
  /\ recycled = {}
  /\ current_id >= MaxId
  /\ UNCHANGED vars

(* Variant: off by one in the first comparison. *)
NotDeallocableStrict(id) == id + 1 >= current_id \/ id \in recycled

(* What dealloc refuses. *)
NotDeallocable(id) == id >= current_id \/ id \in recycled

(* The tracker of id is dropped: dealloc(id).unwrap(). *)
DropTracker(id) ==
  /\ kernel = "running"
  /\ trackers[id] > 0
  /\ trackers' = [trackers EXCEPT ![id] = @ - 1]
  /\ kernel' = IF NotDeallocable(id) THEN "panicked" ELSE kernel
  /\ recycled' = IF NotDeallocable(id) THEN recycled ELSE recycled \cup {id}
  /\ UNCHANGED current_id

IdNext ==
  \/ AllocRecycled
  \/ AllocFresh
  \/ AllocExhausted
  \/ \E id \in Ids : DropTracker(id)

IdSpec == IdInit /\ [][IdNext]_vars

-----------------------------------------------------------------------------

(* Type invariant of the allocator and of the trackers it has given out. *)
TypeOK ==
  /\ current_id \in FirstId .. MaxId
  /\ recycled \subseteq Ids
  /\ trackers \in [Ids -> Nat]
  /\ kernel \in {"running", "panicked"}

(* Every number below current_id is either owned by exactly one tracker or *)
(* waiting in recycled, and never both; no number above it is either.  So  *)
(* alloc and dealloc neither lose a number nor hand one out twice.         *)
Partition ==
  \A id \in Ids :
    trackers[id] = IF id < current_id /\ id \notin recycled THEN 1 ELSE 0

(* The unwrap in IdTracker::drop and FrameTracker::drop never meets an     *)
(* error, whatever the order in which trackers are dropped.                *)
DropNeverFails == kernel # "panicked"

(* alloc gives an error only when every number is owned by a tracker.      *)
ExhaustedOnlyWhenFull ==
  (recycled = {} /\ current_id >= MaxId) => \A id \in Ids : trackers[id] > 0

=============================================================================
