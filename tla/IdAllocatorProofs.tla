------------------------- MODULE IdAllocatorProofs -------------------------
(***************************************************************************)
(* The allocators never give a number to two owners, never lose one, and   *)
(* the unwrap in the trackers' Drop never panics, for every range of ids.  *)
(***************************************************************************)
EXTENDS IdAllocator, WellFoundedInduction, TLAPS

(* The invariant that is inductive.  Recycled numbers must lie below       *)
(* current_id: without it a fresh number could already be recycled, and    *)
(* dealloc could refuse a number a tracker owns.                           *)
IdInv ==
  /\ TypeOK
  /\ Partition
  /\ \A id \in recycled : id < current_id
  /\ kernel = "running"

(* A non-empty set of naturals has a smallest element, so pop_first on the *)
(* recycled set returns one of its members.                                *)
LEMMA SmallestMember ==
  ASSUME NEW S \in SUBSET Nat, S # {}
  PROVE  Smallest(S) \in S
<1> DEFINE Less == {p \in Nat \X Nat : p[1] < p[2]}
<1>1. IsWellFoundedOn(Less, Nat)
  BY NatLessThanWellFounded DEF OpToRel
<1>2. PICK id \in S : \A other \in S : <<other, id>> \notin Less
  BY <1>1, WFMin
<1>3. ASSUME NEW other \in S PROVE id <= other
  <2>1. other \in Nat /\ id \in Nat /\ <<other, id>> \notin Less
    BY <1>2
  <2>2. ~(other < id)
    BY <2>1
  <2> QED
    BY <2>1, <2>2
<1> QED
  BY <1>3 DEF Smallest

(* Every step of an allocator keeps the partition of the numbers. *)
LEMMA IdStep == IdInv /\ [IdNext]_vars => IdInv'
<1> SUFFICES ASSUME IdInv, [IdNext]_vars PROVE IdInv'
  OBVIOUS
<1>1. CASE AllocRecycled
  <2>1. Smallest(recycled) \in recycled
    BY <1>1, IdBounds, SmallestMember DEF AllocRecycled, IdInv, TypeOK, Ids
  <2> DEFINE id == Smallest(recycled)
  <2>2. id \in Ids /\ id < current_id /\ trackers[id] = 0
    BY <2>1, IdBounds DEF IdInv, TypeOK, Partition, Ids
  <2> HIDE DEF id
  <2>3. TypeOK'
    BY <1>1, <2>2, IdBounds DEF AllocRecycled, IdInv, TypeOK, id
  <2>4. Partition'
    BY <1>1, <2>2, IdBounds DEF AllocRecycled, IdInv, TypeOK, Partition, id
  <2>5. (\A n \in recycled : n < current_id)' /\ (kernel = "running")'
    BY <1>1 DEF AllocRecycled, IdInv
  <2> QED
    BY <2>3, <2>4, <2>5 DEF IdInv
<1>2. CASE AllocFresh
  BY <1>2, IdBounds DEF AllocFresh, IdInv, TypeOK, Partition, Ids
<1>3. CASE AllocExhausted
  BY <1>3 DEF AllocExhausted, vars, IdInv, TypeOK, Partition, Ids
<1>4. ASSUME NEW id \in Ids, DropTracker(id) PROVE IdInv'
  <2>1. ~NotDeallocable(id)
    BY <1>4 DEF DropTracker, NotDeallocable, IdInv, TypeOK, Partition, Ids
  <2>2. trackers[id] = 1 /\ id < current_id
    BY <1>4, <2>1 DEF DropTracker, NotDeallocable, IdInv, TypeOK, Partition
  <2>3. kernel' = "running" /\ recycled' = recycled \cup {id}
    BY <1>4, <2>1 DEF DropTracker, IdInv
  <2>4. TypeOK'
    BY <1>4, <2>2, <2>3, IdBounds DEF DropTracker, IdInv, TypeOK
  <2>5. Partition'
    BY <1>4, <2>2, <2>3, IdBounds DEF DropTracker, IdInv, TypeOK, Partition
  <2> QED
    BY <1>4, <2>2, <2>3, <2>4, <2>5 DEF DropTracker, IdInv
<1>5. CASE UNCHANGED vars
  BY <1>5 DEF vars, IdInv, TypeOK, Partition, Ids
<1> QED
  BY <1>1, <1>2, <1>3, <1>4, <1>5 DEF IdNext

(* For every range of numbers: alloc never hands a number to two owners,   *)
(* dealloc loses none, and the unwrap in IdTracker::drop and in            *)
(* FrameTracker::drop cannot fail.                                         *)
THEOREM IdPartition == IdSpec => [](TypeOK /\ Partition /\ DropNeverFails)
<1>1. ASSUME IdInit PROVE IdInv
  <2>1. TypeOK
    BY <1>1, IdBounds DEF IdInit, TypeOK
  <2>2. Partition
    BY <1>1, IdBounds DEF IdInit, Partition, Ids
  <2>3. kernel = "running" /\ recycled = {}
    BY <1>1 DEF IdInit
  <2> QED
    BY <2>1, <2>2, <2>3 DEF IdInv
<1>2. IdInv => TypeOK /\ Partition /\ DropNeverFails
  BY DEF IdInv, DropNeverFails
<1> QED
  BY <1>1, <1>2, IdStep, PTL DEF IdSpec

(* alloc reports IdExhausted or FrameExhausted only when every number is   *)
(* owned by a tracker.                                                     *)
THEOREM IdExhaustion == IdSpec => []ExhaustedOnlyWhenFull
<1>1. TypeOK /\ Partition => ExhaustedOnlyWhenFull
  BY IdBounds DEF TypeOK, Partition, ExhaustedOnlyWhenFull, Ids
<1> QED
  BY <1>1, IdPartition, PTL

=============================================================================
