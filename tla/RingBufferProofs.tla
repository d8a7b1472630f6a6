-------------------------- MODULE RingBufferProofs --------------------------
(***************************************************************************)
(* Proofs about RingBuffer, for every capacity above two.                  *)
(***************************************************************************)
EXTENDS RingBuffer, SequenceTheorems, TLAPS

RInv == TypeOK /\ StatusMatchesPositions

(* len() is between zero and the capacity, and decides the status. *)
LEMMA LengthRange ==
  ASSUME RInv
  PROVE  /\ Length \in 0 .. Capacity
         /\ Length = 0 <=> status.tag = "EMPTY"
         /\ Length = Capacity <=> status.tag = "FULL"
  BY CapacityAssumption DEF RInv, TypeOK, StatusMatchesPositions, Length

(* A read keeps the invariant and takes one byte off. *)
LEMMA ReadStep ==
  ASSUME RInv, read_byte, Length # 0
  PROVE  /\ RInv'
         /\ Length' = Length - 1
         /\ tail' = Succ(tail) /\ head' = head /\ buffer' = buffer
         /\ answer' = buffer[tail]
<1>1. tail' = Succ(tail) /\ head' = head /\ buffer' = buffer /\ answer' = buffer[tail]
  BY DEF read_byte
<1>2. Length \in 1 .. Capacity
  BY LengthRange, CapacityAssumption
<1>3. head = Wrap(tail + Length) /\ head \in Index /\ tail \in Index
  BY DEF RInv, TypeOK, StatusMatchesPositions
<1>4. Succ(tail) \in Index
  BY <1>3, CapacityAssumption DEF Succ, Index
<1>5. Succ(tail) = head <=> Length = 1
  BY <1>2, <1>3, CapacityAssumption DEF Succ, Wrap, Index
<1>6. status' = IF Length = 1 THEN Status("EMPTY", 0) ELSE Status("NORMAL", Length - 1)
  BY <1>5 DEF read_byte
<1>7. Length' = Length - 1
  BY <1>2, <1>6, CapacityAssumption DEF Length, Status
<1>8. TypeOK'
  <2>1. status' \in [tag : {"EMPTY", "FULL", "NORMAL"}, size : Nat]
    BY <1>2, <1>6, CapacityAssumption DEF Status
  <2>2. buffer[tail] \in Byte
    BY <1>3 DEF RInv, TypeOK
  <2> QED BY <1>1, <1>3, <1>4, <2>1, <2>2 DEF RInv, TypeOK
<1>9. head' = Wrap(tail' + Length')
  BY <1>1, <1>2, <1>3, <1>7, CapacityAssumption DEF Succ, Wrap, Index
<1>10. status'.tag = "NORMAL" => 0 < status'.size /\ status'.size < Capacity
  BY <1>2, <1>6, CapacityAssumption DEF Status
<1> QED BY <1>1, <1>7, <1>8, <1>9, <1>10 DEF RInv, StatusMatchesPositions, Wrap, Length

(* A write keeps the invariant and puts one byte at the write position. *)
LEMMA WriteStep ==
  ASSUME NEW byte \in Byte, RInv, write_byte(byte), Length # Capacity
  PROVE  /\ RInv'
         /\ Length' = Length + 1
         /\ tail' = tail
         /\ buffer' = [buffer EXCEPT ![Wrap(tail + Length)] = byte]
         /\ answer' = "Ok"
<1>1. /\ tail' = tail /\ head' = Succ(head) /\ answer' = "Ok"
      /\ buffer' = [buffer EXCEPT ![head] = byte]
  BY DEF write_byte
<1>2. Length \in 0 .. (Capacity - 1)
  BY LengthRange, CapacityAssumption
<1>3. head = Wrap(tail + Length) /\ head \in Index /\ tail \in Index
  BY DEF RInv, TypeOK, StatusMatchesPositions
<1>4. Succ(head) \in Index
  BY <1>3, CapacityAssumption DEF Succ, Index
<1>5. tail = Succ(head) <=> Length = Capacity - 1
  BY <1>2, <1>3, CapacityAssumption DEF Succ, Wrap, Index
<1>6. status' = IF Length = Capacity - 1 THEN Status("FULL", 0) ELSE Status("NORMAL", Length + 1)
  BY <1>5 DEF write_byte
<1>7. Length' = Length + 1
  BY <1>2, <1>6, CapacityAssumption DEF Length, Status
<1>8. TypeOK'
  <2>1. status' \in [tag : {"EMPTY", "FULL", "NORMAL"}, size : Nat]
    BY <1>2, <1>6, CapacityAssumption DEF Status
  <2>2. buffer' \in [Index -> Byte]
    BY <1>1, <1>3 DEF RInv, TypeOK
  <2> QED BY <1>1, <1>3, <1>4, <2>1, <2>2 DEF TypeOK
<1>9. head' = Wrap(tail' + Length')
  BY <1>1, <1>2, <1>3, <1>7, CapacityAssumption DEF Succ, Wrap, Index
<1>10. status'.tag = "NORMAL" => 0 < status'.size /\ status'.size < Capacity
  BY <1>2, <1>6, CapacityAssumption DEF Status
<1> QED BY <1>1, <1>3, <1>7, <1>8, <1>9, <1>10 DEF RInv, StatusMatchesPositions, Wrap, Length

(* The initial state satisfies the invariant. *)
LEMMA InitInv == Init => RInv
  BY CapacityAssumption
     DEF Init, RInv, TypeOK, StatusMatchesPositions, Status, Index, Wrap, Length

(* Every step keeps the invariant. *)
LEMMA StepInv == RInv /\ [Next]_vars => RInv'
<1> SUFFICES ASSUME RInv, [Next]_vars PROVE RInv'
  OBVIOUS
<1>1. CASE read_byte
  <2>1. CASE Length # 0
    BY <1>1, <2>1, ReadStep
  <2>2. CASE Length = 0
    BY <1>1, <2>2 DEF read_byte, RInv, TypeOK, StatusMatchesPositions, Length, Wrap
  <2> QED BY <2>1, <2>2
<1>2. ASSUME NEW byte \in Byte, write_byte(byte) PROVE RInv'
  <2>1. CASE Length # Capacity
    BY <1>2, <2>1, WriteStep
  <2>2. CASE Length = Capacity
    BY <1>2, <2>2 DEF write_byte, RInv, TypeOK, StatusMatchesPositions, Length, Wrap
  <2> QED BY <2>1, <2>2
<1>3. CASE UNCHANGED vars
  BY <1>3 DEF vars, RInv, TypeOK, StatusMatchesPositions, Length, Wrap
<1> QED BY <1>1, <1>2, <1>3 DEF Next

(* The status and the positions of the ring buffer always agree, for every *)
(* capacity RingBuffer::new accepts.                                       *)
THEOREM RingBufferSafety == Spec => [](TypeOK /\ StatusMatchesPositions)
<1>1. RInv <=> TypeOK /\ StatusMatchesPositions
  BY DEF RInv
<1> QED BY <1>1, InitInv, StepInv, PTL DEF Spec

(* The content is a sequence of as many bytes as len() says. *)
LEMMA ContentSeq ==
  ASSUME RInv
  PROVE  /\ Content \in Seq(Byte)
         /\ Len(Content) = Length
         /\ Content = << >> <=> Length = 0
<1>1. Length \in Nat /\ Length <= Capacity
  BY LengthRange, CapacityAssumption
<1>2. \A i \in 1 .. Length : Wrap(tail + (i - 1)) \in Index
  BY <1>1, CapacityAssumption DEF RInv, TypeOK, Wrap, Index
<1>3. \A i \in 1 .. Length : buffer[Wrap(tail + (i - 1))] \in Byte
  BY <1>2 DEF RInv, TypeOK
<1>4. Content \in [1 .. Length -> Byte]
  BY <1>3 DEF Content
<1> QED BY <1>1, <1>4

(* Reading a byte takes the head off the content. *)
LEMMA ReadContent ==
  ASSUME RInv, read_byte, Length # 0
  PROVE  /\ Content # << >>
         /\ answer' = Head(Content)
         /\ Content' = Tail(Content)
<1>1. Length \in 1 .. Capacity /\ tail \in Index
  BY LengthRange, CapacityAssumption DEF RInv, TypeOK
<1>2. /\ Length' = Length - 1 /\ tail' = Succ(tail) /\ buffer' = buffer
      /\ answer' = buffer[tail]
  BY ReadStep
<1>3. Content \in Seq(Byte) /\ Len(Content) = Length /\ Content # << >>
  BY ContentSeq
<1>4. Head(Content) = buffer[tail]
  <2>1. Content[1] = buffer[Wrap(tail + (1 - 1))]
    BY <1>1 DEF Content
  <2>2. Wrap(tail + (1 - 1)) = tail
    BY <1>1, CapacityAssumption DEF Wrap, Index
  <2> QED BY <1>3, <2>1, <2>2
<1>5. Content' = [i \in 1 .. (Length - 1) |-> buffer[Wrap(Succ(tail) + (i - 1))]]
  BY <1>2 DEF Content, Wrap
<1>6. /\ Tail(Content) \in Seq(Byte)
      /\ Len(Tail(Content)) = Length - 1
      /\ \A i \in 1 .. (Length - 1) : Tail(Content)[i] = Content[i + 1]
  BY <1>3, HeadTailProperties
<1>7. \A i \in 1 .. (Length - 1) : Content[i + 1] = buffer[Wrap(Succ(tail) + (i - 1))]
  <2> TAKE i \in 1 .. (Length - 1)
  <2>1. i + 1 \in 1 .. Length
    BY <1>1, CapacityAssumption
  <2>2. Content[i + 1] = buffer[Wrap(tail + ((i + 1) - 1))]
    BY <2>1 DEF Content
  <2>3. Wrap(tail + ((i + 1) - 1)) = Wrap(Succ(tail) + (i - 1))
    BY <1>1, CapacityAssumption DEF Wrap, Succ, Index
  <2> QED BY <2>2, <2>3
<1>8. Tail(Content) = [i \in 1 .. (Length - 1) |-> Tail(Content)[i]]
  BY <1>6, LenProperties
<1> QED BY <1>2, <1>3, <1>4, <1>5, <1>6, <1>7, <1>8

(* Writing a byte appends it to the content. *)
LEMMA WriteContent ==
  ASSUME NEW byte \in Byte, RInv, write_byte(byte), Length # Capacity
  PROVE  Content' = Append(Content, byte)
<1>1. Length \in 0 .. (Capacity - 1) /\ tail \in Index
  BY LengthRange, CapacityAssumption DEF RInv, TypeOK
<1>2. /\ Length' = Length + 1 /\ tail' = tail
      /\ buffer' = [buffer EXCEPT ![Wrap(tail + Length)] = byte]
  BY WriteStep
<1>3. Content \in Seq(Byte) /\ Len(Content) = Length
  BY ContentSeq
<1>4. Content' = [i \in 1 .. (Length + 1) |-> buffer'[Wrap(tail + (i - 1))]]
  BY <1>2 DEF Content, Wrap
<1>5. /\ Append(Content, byte) = [i \in 1 .. (Length + 1) |-> Append(Content, byte)[i]]
      /\ \A i \in 1 .. (Length + 1) :
           Append(Content, byte)[i] = IF i = Length + 1 THEN byte ELSE Content[i]
  <2>1. /\ Append(Content, byte) \in Seq(Byte)
        /\ Len(Append(Content, byte)) = Length + 1
        /\ \A i \in 1 .. Length : Append(Content, byte)[i] = Content[i]
        /\ Append(Content, byte)[Length + 1] = byte
    BY <1>3, AppendProperties
  <2>2. \A i \in 1 .. (Length + 1) : i = Length + 1 \/ i \in 1 .. Length
    BY <1>1, CapacityAssumption
  <2>3. Append(Content, byte) = [i \in 1 .. (Length + 1) |-> Append(Content, byte)[i]]
    BY <2>1, LenProperties
  <2> QED BY <1>1, <2>1, <2>2, <2>3, CapacityAssumption
<1>6. \A i \in 1 .. (Length + 1) :
        buffer'[Wrap(tail + (i - 1))] = IF i = Length + 1 THEN byte ELSE Content[i]
  <2> TAKE i \in 1 .. (Length + 1)
  <2>1. Wrap(tail + (i - 1)) \in Index /\ Wrap(tail + Length) \in Index
    BY <1>1, CapacityAssumption DEF Wrap, Index
  <2>2. buffer \in [Index -> Byte]
    BY DEF RInv, TypeOK
  <2>3. CASE i = Length + 1
    <3>1. i - 1 = Length
      BY <2>3, <1>1, CapacityAssumption
    <3> QED BY <1>2, <2>1, <2>2, <2>3, <3>1
  <2>4. CASE i # Length + 1
    <3>1. i \in 1 .. Length
      BY <2>4, <1>1, CapacityAssumption
    <3>2. Wrap(tail + (i - 1)) # Wrap(tail + Length)
      BY <3>1, <1>1, CapacityAssumption DEF Wrap, Index
    <3>3. Content[i] = buffer[Wrap(tail + (i - 1))]
      BY <3>1 DEF Content
    <3> QED BY <1>2, <2>1, <2>2, <2>4, <3>2, <3>3
  <2> QED BY <2>3, <2>4
<1> QED BY <1>4, <1>5, <1>6

(* The ring buffer implements the bounded queue, for every capacity. *)
THEOREM RingBufferRefinement == Spec => RefinesFifo
<1>1. Init => Fifo!FifoInit
  <2> SUFFICES ASSUME Init PROVE Fifo!FifoInit
    OBVIOUS
  <2>1. Length = 0
    BY DEF Init, Length, Status
  <2>2. Content = << >>
    BY <2>1, InitInv, ContentSeq
  <2> QED BY <2>2 DEF Init, Fifo!FifoInit
<1>2. RInv /\ [Next]_vars => [Fifo!FifoNext]_<<Content, answer>>
  <2> SUFFICES ASSUME RInv, [Next]_vars PROVE [Fifo!FifoNext]_<<Content, answer>>
    OBVIOUS
  <2>0. Length \in 0 .. Capacity /\ Len(Content) = Length
    BY LengthRange, ContentSeq
  <2>1. CASE read_byte
    <3>1. CASE Length # 0
      BY <2>1, <3>1, ReadContent DEF Fifo!FifoNext, Fifo!Get
    <3>2. CASE Length = 0
      <4>1. Content = << >> /\ answer' = NoByte
        BY <2>1, <3>2, ContentSeq DEF read_byte
      <4>2. Content' = Content
        BY <2>1, <3>2 DEF read_byte, Content, Length, Wrap
      <4> QED BY <4>1, <4>2 DEF Fifo!FifoNext, Fifo!GetEmpty
    <3> QED BY <3>1, <3>2
  <2>2. ASSUME NEW byte \in Byte, write_byte(byte) PROVE Fifo!FifoNext
    <3>1. CASE Length # Capacity
      <4>1. Content' = Append(Content, byte) /\ answer' = "Ok"
        BY <2>2, <3>1, WriteContent, WriteStep
      <4>2. Len(Content) < Capacity
        BY <2>0, <3>1, CapacityAssumption
      <4> QED BY <4>1, <4>2 DEF Fifo!FifoNext, Fifo!Put
    <3>2. CASE Length = Capacity
      <4>1. answer' = "EOB"
        BY <2>2, <3>2 DEF write_byte
      <4>2. Content' = Content
        BY <2>2, <3>2 DEF write_byte, Content, Length, Wrap
      <4> QED BY <2>0, <3>2, <4>1, <4>2 DEF Fifo!FifoNext, Fifo!PutFull
    <3> QED BY <3>1, <3>2
  <2>3. CASE UNCHANGED vars
    BY <2>3 DEF vars, Content, Length, Wrap
  <2> QED BY <2>1, <2>2, <2>3 DEF Next
<1>3. Spec => []RInv
  BY InitInv, StepInv, PTL DEF Spec
<1> QED BY <1>1, <1>2, <1>3, PTL DEF Spec, RefinesFifo, Fifo!FifoSpec

=============================================================================
