----------------------------- MODULE RingBuffer -----------------------------
(***************************************************************************)
(* RingBuffer of lang/buffer.rs: a byte array with two positions that wrap *)
(* around, and a status that tells the full buffer from the empty one when *)
(* the positions meet. The comments on the fields head and tail give them  *)
(* each other's part (buffer.rs:139-145): read_byte takes from tail and    *)
(* write_byte stores at head, and so do they here.                         *)
(***************************************************************************)
EXTENDS Naturals, Sequences

CONSTANTS Byte, Capacity, NoByte

ASSUME CapacityAssumption ==
  /\ Capacity \in Nat /\ Capacity > 2       \* asserted by RingBuffer::new
  /\ NoByte \notin Byte

VARIABLES
  head,    \* where the next byte is written
  tail,    \* where the next byte is read
  status,  \* RingBufferStatus, with the size that NORMAL carries
  buffer,
  answer   \* what the last call returned

vars == <<head, tail, status, buffer, answer>>

Index == 0 .. (Capacity - 1)

Status(tag, size) == [tag |-> tag, size |-> size]

Init ==
  /\ head = 0
  /\ tail = 0
  /\ status = Status("EMPTY", 0)
  /\ \E zero \in Byte : buffer = [i \in Index |-> zero]
  /\ answer = NoByte

(* len() *)
Length ==
  CASE status.tag = "EMPTY" -> 0
    [] status.tag = "FULL" -> Capacity
    [] OTHER -> status.size

Succ(i) == IF i + 1 = Capacity THEN 0 ELSE i + 1

(* Variant: the positions are not compared. *)
ReadNeverEmpties ==
  IF Length = 0 THEN answer' = NoByte /\ UNCHANGED <<head, tail, status, buffer>>
  ELSE /\ answer' = buffer[tail]
       /\ tail' = Succ(tail)
       /\ status' = Status("NORMAL", Length - 1)
       /\ UNCHANGED <<head, buffer>>

read_byte ==
  IF Length = 0 THEN answer' = NoByte /\ UNCHANGED <<head, tail, status, buffer>>
  ELSE /\ answer' = buffer[tail]
       /\ tail' = Succ(tail)
       /\ status' = IF Succ(tail) = head THEN Status("EMPTY", 0)
                    ELSE Status("NORMAL", Length - 1)
       /\ UNCHANGED <<head, buffer>>

(* Variant: the position moves before the byte is stored. *)
WriteAfterMove(byte) ==
  IF Length = Capacity THEN answer' = "EOB" /\ UNCHANGED <<head, tail, status, buffer>>
  ELSE /\ head' = Succ(head)
       /\ buffer' = [buffer EXCEPT ![Succ(head)] = byte]
       /\ status' = IF tail = Succ(head) THEN Status("FULL", 0)
                    ELSE Status("NORMAL", Length + 1)
       /\ answer' = "Ok"
       /\ UNCHANGED tail

write_byte(byte) ==
  IF Length = Capacity THEN answer' = "EOB" /\ UNCHANGED <<head, tail, status, buffer>>
  ELSE /\ buffer' = [buffer EXCEPT ![head] = byte]
       /\ head' = Succ(head)
       /\ status' = IF tail = Succ(head) THEN Status("FULL", 0)
                    ELSE Status("NORMAL", Length + 1)
       /\ answer' = "Ok"
       /\ UNCHANGED tail

Next == read_byte \/ \E byte \in Byte : write_byte(byte)

Spec == Init /\ [][Next]_vars

-----------------------------------------------------------------------------

(* Type invariant. *)
TypeOK ==
  /\ head \in Index /\ tail \in Index
  /\ status \in [tag : {"EMPTY", "FULL", "NORMAL"}, size : Nat]
  /\ buffer \in [Index -> Byte]
  /\ answer \in Byte \cup {NoByte, "Ok", "EOB"}

Wrap(i) == IF i >= Capacity THEN i - Capacity ELSE i

(* The status and the positions agree: the write position is as many bytes *)
(* past the read position as len() says, and a NORMAL buffer is neither    *)
(* empty nor full. read_byte and write_byte decide between the three by    *)
(* comparing positions, never by the size they carry along. The write      *)
(* position is head, which the comment on the field calls the unread one.  *)
StatusMatchesPositions ==
  /\ head = Wrap(tail + Length)
  /\ status.tag = "NORMAL" => 0 < status.size /\ status.size < Capacity

(* The bytes written and not yet read, oldest first. *)
Content == [i \in 1 .. Length |-> buffer[Wrap(tail + (i - 1))]]

Fifo == INSTANCE BoundedFifo WITH queue <- Content

(* The ring buffer is a bounded queue: every byte comes out once, in the   *)
(* order of the writes, Capacity bytes fit, and only a full buffer refuses *)
(* one.                                                                    *)
RefinesFifo == Fifo!FifoSpec

=============================================================================
