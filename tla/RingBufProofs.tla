---------------------------- MODULE RingBufProofs ---------------------------
(***************************************************************************)
(* ringbuf.c is a bounded FIFO, for every capacity and every byte set.     *)
(***************************************************************************)
EXTENDS RingBuf, SequenceTheorems, TLAPS

USE SizeAssumption, ByteAssumption

(* A wrapped pointer stays in the buffer.                                  *)
LEMMA OffsetInSlots ==
  ASSUME NEW p \in Slots, NEW n \in 0 .. Size
  PROVE  Offset(p, n) \in Slots
BY DEF Offset, Slots

(* Moving n slots and then m is moving n + m.                              *)
LEMMA OffsetAdds ==
  ASSUME NEW p \in Slots, NEW n \in 0 .. Size, NEW m \in 0 .. Size,
         n + m <= Size
  PROVE  Offset(Offset(p, n), m) = Offset(p, n + m)
BY DEF Offset, Slots

(* Slots at different distances below Size from p are different slots.     *)
LEMMA OffsetInjective ==
  ASSUME NEW p \in Slots, NEW n \in 0 .. Size, NEW m \in 0 .. Size,
         n < m, m < n + Size
  PROVE  Offset(p, n) # Offset(p, m)
BY DEF Offset, Slots

-----------------------------------------------------------------------------
LEMMA InitIInv == RINGBUF_Init => IInv
BY DEF RINGBUF_Init, IInv, TypeOK, PointersAgree, Offset, Slots

(* The ring stays well typed and its pointers agree with its count.        *)
LEMMA NextIInv == IInv /\ [Next]_vars => IInv'
<1> SUFFICES ASSUME IInv, [Next]_vars PROVE IInv'
  OBVIOUS
<1> USE DEF IInv, TypeOK, PointersAgree
<1>1. ASSUME NEW c \in Byte, RINGBUF_Put(c) PROVE IInv'
  <2>1. CASE fill_cnt >= Size
    BY <1>1, <2>1 DEF RINGBUF_Put
  <2>2. CASE fill_cnt < Size
    <3>1. /\ fill_cnt' = fill_cnt + 1
          /\ buf' = [buf EXCEPT ![p_w] = c]
          /\ p_w' = Offset(p_w, 1)
          /\ ret' = 0
          /\ p_r' = p_r
          /\ got' = got
      BY <1>1, <2>2 DEF RINGBUF_Put
    <3>2. p_w' = Offset(p_r, fill_cnt + 1)
      BY <2>2, <3>1, OffsetAdds
    <3>3. p_w' \in Slots
      BY <3>1, OffsetInSlots
    <3> QED
      BY <2>2, <3>1, <3>2, <3>3
  <2> QED
    BY <2>1, <2>2
<1>2. ASSUME RINGBUF_Get PROVE IInv'
  <2>1. CASE fill_cnt <= 0
    BY <1>2, <2>1 DEF RINGBUF_Get
  <2>2. CASE fill_cnt > 0
    <3>1. /\ fill_cnt' = fill_cnt - 1
          /\ got' = buf[p_r]
          /\ p_r' = Offset(p_r, 1)
          /\ ret' = 0
          /\ buf' = buf
          /\ p_w' = p_w
      BY <1>2, <2>2 DEF RINGBUF_Get
    <3>2. Offset(Offset(p_r, 1), fill_cnt - 1) = Offset(p_r, fill_cnt)
      BY <2>2, OffsetAdds
    <3>3. p_r' \in Slots
      BY <3>1, OffsetInSlots
    <3> QED
      BY <2>2, <3>1, <3>2, <3>3
  <2> QED
    BY <2>1, <2>2
<1>3. CASE UNCHANGED vars
  BY <1>3 DEF vars, Slots
<1> QED
  BY <1>1, <1>2, <1>3 DEF Next

(* The invariant of ringbuf.c lines 32-67 holds in every reachable state.  *)
THEOREM RingInvariant == Spec => []IInv
<1>1. QED
  BY InitIInv, NextIInv, PTL DEF Spec

(* Pointers and count of ringbuf.c lines 32-67 keep their ranges, however  *)
(* often they wrap.                                                        *)
THEOREM RingTypes == Spec => []TypeOK
<1>1. IInv => TypeOK
  BY DEF IInv
<1> QED
  BY <1>1, RingInvariant, PTL

(* The pointers and the count of ringbuf.c never disagree.                 *)
THEOREM PointersAlwaysAgree == Spec => []PointersAgree
<1>1. IInv => PointersAgree
  BY DEF IInv
<1> QED
  BY <1>1, RingInvariant, PTL

-----------------------------------------------------------------------------
(* n slots read from p on are a sequence of n bytes.                       *)
LEMMA SlotsFrom ==
  ASSUME NEW b \in [Slots -> Byte], NEW p \in Slots, NEW n \in 0 .. Size
  PROVE  LET s == [i \in 1 .. n |-> b[Offset(p, i - 1)]]
         IN  s \in Seq(Byte) /\ Len(s) = n
<1>1. \A i \in 1 .. n : b[Offset(p, i - 1)] \in Byte
  BY OffsetInSlots
<1> QED
  BY <1>1

LEMMA ContentType ==
  ASSUME IInv
  PROVE  Content \in Seq(Byte) /\ Len(Content) = fill_cnt
BY SlotsFrom DEF Content, IInv, TypeOK

(* A successful RINGBUF_Put appends its byte to the content.               *)
LEMMA PutAppends ==
  ASSUME IInv, IInv', NEW c \in Byte, RINGBUF_Put(c), fill_cnt < Size
  PROVE  Content' = Append(Content, c)
<1>1. /\ fill_cnt' = fill_cnt + 1
      /\ buf' = [buf EXCEPT ![p_w] = c]
      /\ p_r' = p_r
  BY DEF RINGBUF_Put, IInv, TypeOK
<1>2. buf'[Offset(p_r, fill_cnt)] = c
  BY <1>1 DEF IInv, TypeOK, PointersAgree
<1>3. ASSUME NEW i \in 1 .. fill_cnt
      PROVE  buf'[Offset(p_r, i - 1)] = buf[Offset(p_r, i - 1)]
  <2>1. Offset(p_r, i - 1) # p_w
    BY OffsetInjective DEF IInv, TypeOK, PointersAgree
  <2>2. Offset(p_r, i - 1) \in Slots
    BY OffsetInSlots DEF IInv, TypeOK
  <2> QED
    BY <1>1, <2>1, <2>2 DEF IInv, TypeOK
<1>4. /\ Content' \in Seq(Byte)
      /\ Len(Content') = fill_cnt + 1
  BY <1>1, SlotsFrom DEF Content, IInv, TypeOK
<1>5. /\ Append(Content, c) \in Seq(Byte)
      /\ Len(Append(Content, c)) = fill_cnt + 1
      /\ \A i \in 1 .. fill_cnt : Append(Content, c)[i] = Content[i]
      /\ Append(Content, c)[fill_cnt + 1] = c
  BY ContentType, AppendProperties
<1>6. ASSUME NEW i \in 1 .. (fill_cnt + 1)
      PROVE  Content'[i] = Append(Content, c)[i]
  <2>1. Content'[i] = buf'[Offset(p_r, i - 1)]
    BY <1>1 DEF Content, IInv, TypeOK
  <2>2. CASE i = fill_cnt + 1
    BY <1>2, <1>5, <2>1, <2>2 DEF IInv, TypeOK
  <2>3. CASE i \in 1 .. fill_cnt
    BY <1>3, <1>5, <2>1, <2>3 DEF Content
  <2>4. i = fill_cnt + 1 \/ i \in 1 .. fill_cnt
    BY DEF IInv, TypeOK
  <2> QED
    BY <2>2, <2>3, <2>4
<1> QED
  BY <1>4, <1>5, <1>6, SeqEqual

(* A successful RINGBUF_Get hands out the oldest byte and removes it.      *)
LEMMA GetRemovesHead ==
  ASSUME IInv, IInv', RINGBUF_Get, fill_cnt > 0
  PROVE  /\ Content # <<>>
         /\ got' = Head(Content)
         /\ Content' = Tail(Content)
<1>1. /\ fill_cnt' = fill_cnt - 1
      /\ got' = buf[p_r]
      /\ p_r' = Offset(p_r, 1)
      /\ buf' = buf
  BY DEF RINGBUF_Get, IInv, TypeOK
<1>2. Content # <<>> /\ Head(Content) = Content[1]
  BY ContentType DEF IInv, TypeOK
<1>3. Content[1] = buf[p_r]
  BY DEF Content, Offset, IInv, TypeOK, Slots
<1>4. /\ Content' \in Seq(Byte)
      /\ Len(Content') = fill_cnt - 1
  BY <1>1, SlotsFrom DEF Content, IInv, TypeOK
<1>5. /\ Tail(Content) \in Seq(Byte)
      /\ Len(Tail(Content)) = fill_cnt - 1
      /\ \A i \in 1 .. (fill_cnt - 1) : Tail(Content)[i] = Content[i + 1]
  BY <1>2, ContentType, HeadTailProperties
<1>6. ASSUME NEW i \in 1 .. (fill_cnt - 1)
      PROVE  Content'[i] = Tail(Content)[i]
  <2>1. Offset(Offset(p_r, 1), i - 1) = Offset(p_r, i)
    BY OffsetAdds DEF IInv, TypeOK
  <2>2. Content'[i] = buf[Offset(p_r, i)]
    BY <1>1, <2>1 DEF Content
  <2>3. Content[i + 1] = buf[Offset(p_r, i)]
    BY DEF Content, IInv, TypeOK
  <2> QED
    BY <1>5, <2>2, <2>3
<1>7. Content' = Tail(Content)
  BY <1>4, <1>5, <1>6, SeqEqual
<1> QED
  BY <1>1, <1>2, <1>3, <1>7

(* Every step of the ring is a step of the FIFO or leaves it alone.        *)
LEMMA NextImplementsFifo ==
  IInv /\ IInv' /\ [Next]_vars => [Fifo!Next]_<<Content, got, ret>>
<1> SUFFICES ASSUME IInv, IInv', [Next]_vars
             PROVE  [Fifo!Next]_<<Content, got, ret>>
  OBVIOUS
<1>1. ASSUME NEW c \in Byte, RINGBUF_Put(c) PROVE Fifo!Next
  <2>1. CASE fill_cnt < Size
    <3>1. Fifo!Put(c)
      BY <1>1, <2>1, PutAppends, ContentType
         DEF RINGBUF_Put, Fifo!Put, IInv, TypeOK
    <3> QED
      BY <3>1 DEF Fifo!Next
  <2>2. CASE fill_cnt >= Size
    <3>1. Content' = Content
      BY <1>1, <2>2 DEF RINGBUF_Put, Content, IInv, TypeOK
    <3>2. Fifo!PutFull
      BY <1>1, <2>2, <3>1, ContentType DEF RINGBUF_Put, Fifo!PutFull, IInv, TypeOK
    <3> QED
      BY <3>2 DEF Fifo!Next
  <2> QED
    BY <2>1, <2>2 DEF IInv, TypeOK
<1>2. ASSUME RINGBUF_Get PROVE Fifo!Next
  <2>1. CASE fill_cnt > 0
    <3>1. Fifo!Get
      BY <1>2, <2>1, GetRemovesHead DEF RINGBUF_Get, Fifo!Get, IInv, TypeOK
    <3> QED
      BY <3>1 DEF Fifo!Next
  <2>2. CASE fill_cnt <= 0
    <3>1. Content' = Content
      BY <1>2, <2>2 DEF RINGBUF_Get, Content, IInv, TypeOK
    <3>2. Content = <<>>
      BY <2>2, ContentType DEF IInv, TypeOK
    <3>3. Fifo!GetEmpty
      BY <1>2, <2>2, <3>1, <3>2
         DEF RINGBUF_Get, Fifo!GetEmpty, IInv, TypeOK
    <3> QED
      BY <3>3 DEF Fifo!Next
  <2> QED
    BY <2>1, <2>2 DEF IInv, TypeOK
<1>3. CASE UNCHANGED vars
  BY <1>3 DEF vars, Content
<1> QED
  BY <1>1, <1>2, <1>3 DEF Next

(* ringbuf.c implements a bounded byte FIFO.                               *)
THEOREM RingImplementsFifo == Spec => ImplementsFifo
<1>1. RINGBUF_Init => Fifo!Init
  BY DEF RINGBUF_Init, Fifo!Init, Content
<1> QED
  BY <1>1, RingInvariant, NextImplementsFifo, PTL
     DEF Spec, ImplementsFifo, Fifo!Spec

=============================================================================
