---------------------------- MODULE BoundedFifo ----------------------------
(***************************************************************************)
(* What a ring buffer promises: a queue of at most Capacity bytes. A write *)
(* to a full queue and a read of an empty one change nothing and say so.   *)
(***************************************************************************)
EXTENDS Naturals, Sequences

CONSTANTS Byte, Capacity, NoByte

VARIABLES
  queue,   \* the bytes written and not read, oldest first
  answer   \* what the last call returned

FifoInit == queue = << >> /\ answer = NoByte

Put(b) ==
  /\ Len(queue) < Capacity
  /\ queue' = Append(queue, b)
  /\ answer' = "Ok"

PutFull ==
  /\ Len(queue) = Capacity
  /\ answer' = "EOB"
  /\ queue' = queue

Get ==
  /\ queue # << >>
  /\ answer' = Head(queue)
  /\ queue' = Tail(queue)

GetEmpty ==
  /\ queue = << >>
  /\ answer' = NoByte
  /\ queue' = queue

FifoNext == (\E b \in Byte : Put(b)) \/ PutFull \/ Get \/ GetEmpty

FifoSpec == FifoInit /\ [][FifoNext]_<<queue, answer>>

=============================================================================
