-------------------------- MODULE FrameQueueProofs --------------------------
(***************************************************************************)
(* The outbound queue keeps its messages whole and in order, for every     *)
(* ring size and every set of frames; and what is read from it is, byte    *)
(* for byte, a packet that was put, for every set of packets.              *)
(***************************************************************************)
EXTENDS PacketQueue, FoldProofs, SequenceTheorems

LEMMA WireShape ==
  ASSUME NEW m \in Msg
  PROVE  /\ Wire[m] \in Seq(Byte)
         /\ Len(Wire[m]) \in Nat
         /\ Len(Wire[m]) >= 2
         /\ Wire[m][1] = Begin
         /\ Wire[m][Len(Wire[m])] = End
         /\ \A i \in 2 .. (Len(Wire[m]) - 1) :
              Wire[m][i] # Begin /\ Wire[m][i] # End
<1>1. Wire[m] \in Seq(Byte)
  BY WireAssumption
<1>2. Len(Wire[m]) \in Nat
  BY <1>1
<1> QED
  BY <1>1, <1>2, WireAssumption

LEMMA MarkersDiffer == Begin # End
BY DEF Begin, End

(* What the invariant says of one frame.                                   *)
LEMMA FrameAt ==
  ASSUME IInv, NEW k \in 1 .. Len(live)
  PROVE  /\ live[k] \in Msg
         /\ starts[k] \in Nat
         /\ starts[k] >= 1
         /\ EndOf(k) = starts[k] + Len(Wire[live[k]]) - 1
         /\ EndOf(k) > starts[k]
         /\ EndOf(k) \in 1 .. Len(ring)
         /\ \A j \in 1 .. Len(Wire[live[k]]) :
              ring[starts[k] + j - 1] = Wire[live[k]][j]
         /\ ring[EndOf(k)] = End
<1>1. live[k] \in Msg /\ starts[k] \in Nat /\ Len(ring) \in Nat
  BY DEF IInv, TypeOK, FramesIntact
<1>2. /\ starts[k] >= 1
      /\ EndOf(k) <= Len(ring)
      /\ \A j \in 1 .. Len(Wire[live[k]]) :
           ring[starts[k] + j - 1] = Wire[live[k]][j]
  BY DEF IInv, FramesIntact
<1>3. /\ Len(Wire[live[k]]) \in Nat
      /\ Len(Wire[live[k]]) >= 2
      /\ Wire[live[k]][Len(Wire[live[k]])] = End
  BY <1>1, WireShape
<1>4. EndOf(k) = starts[k] + Len(Wire[live[k]]) - 1
  BY DEF EndOf
<1>5. Len(Wire[live[k]]) \in 1 .. Len(Wire[live[k]])
  BY <1>3
<1>6. ring[starts[k] + Len(Wire[live[k]]) - 1] = End
  BY <1>2, <1>3, <1>5
<1> QED
  BY <1>1, <1>2, <1>3, <1>4, <1>6, SMTT(60)

LEMMA FramesApart ==
  ASSUME IInv, NEW k \in 1 .. Len(live), NEW l \in 1 .. Len(live), k < l
  PROVE  EndOf(k) < starts[l]
BY DEF IInv, FramesIntact

LEMMA EndsAreFrameEnds ==
  ASSUME IInv, NEW i \in 1 .. Len(ring), ring[i] = End
  PROVE  \E k \in 1 .. Len(live) : i = EndOf(k)
BY DEF IInv, FramesIntact

(* The first end byte in the ring is that of the oldest message.           *)
LEMMA FirstEndIsOldest ==
  ASSUME IInv, HasFrame
  PROVE  /\ 1 \in 1 .. Len(live)
         /\ FirstEnd = EndOf(1)
<1>1. PICK i \in 1 .. Len(ring) : ring[i] = End
  BY DEF HasFrame
<1>2. PICK k \in 1 .. Len(live) : i = EndOf(k)
  BY <1>1, EndsAreFrameEnds
<1>3. 1 \in 1 .. Len(live)
  BY <1>2
<1>4. EndOf(1) \in 1 .. Len(ring) /\ ring[EndOf(1)] = End
  BY <1>3, FrameAt
<1>5. ASSUME NEW j \in 1 .. Len(ring), ring[j] = End
      PROVE  EndOf(1) <= j
  <2>1. PICK l \in 1 .. Len(live) : j = EndOf(l)
    BY <1>5, EndsAreFrameEnds
  <2>2. CASE l = 1
    BY <1>4, <2>1, <2>2
  <2>3. CASE l > 1
    <3>1. EndOf(1) < starts[l]
      BY <1>3, <2>3, FramesApart
    <3>2. starts[l] \in Nat /\ EndOf(l) > starts[l]
      BY FrameAt
    <3> QED
      BY <1>4, <2>1, <3>1, <3>2
  <2>4. l = 1 \/ l > 1
    OBVIOUS
  <2> QED
    BY <2>2, <2>3, <2>4
<1>6. \A j \in 1 .. (EndOf(1) - 1) : ring[j] # End
  BY <1>4, <1>5
<1>7. ASSUME NEW e \in 1 .. Len(ring),
             ring[e] = End, \A j \in 1 .. (e - 1) : ring[j] # End
      PROVE  e = EndOf(1)
  BY <1>4, <1>5, <1>7
<1>8. FirstEnd = EndOf(1)
  BY <1>4, <1>6, <1>7 DEF FirstEnd
<1> QED
  BY <1>3, <1>8

(* What MQTT_Task keeps of the bytes it reads is the oldest message.       *)
LEMMA OldestIsWhole ==
  ASSUME IInv, HasFrame
  PROVE  FrameIn(SubSeq(ring, 1, FirstEnd)) = Wire[live[1]]
<1> DEFINE bytes == SubSeq(ring, 1, FirstEnd)
           w == Wire[live[1]]
           b == starts[1]
<1>1. /\ live[1] \in Msg
      /\ b \in Nat
      /\ b >= 1
      /\ FirstEnd = b + Len(w) - 1
      /\ FirstEnd \in 1 .. Len(ring)
      /\ \A j \in 1 .. Len(w) : ring[b + j - 1] = w[j]
  BY FirstEndIsOldest, FrameAt
<1>2. /\ w \in Seq(Byte)
      /\ Len(w) \in Nat
      /\ Len(w) >= 2
      /\ w[1] = Begin
      /\ w[Len(w)] = End
      /\ \A i \in 2 .. (Len(w) - 1) : w[i] # Begin
  BY <1>1, WireShape
<1>3. ring \in Seq(Byte) /\ Len(ring) \in Nat
  BY DEF IInv, TypeOK
<1>4. /\ bytes \in Seq(Byte)
      /\ Len(bytes) = FirstEnd
      /\ \A i \in 1 .. FirstEnd : bytes[i] = ring[i]
  <2>1. \A i \in 1 .. FirstEnd : ring[i] \in Byte
    BY <1>1, <1>3, ElementOfSeq
  <2>2. 1 \in Int /\ FirstEnd \in Int /\ 1 <= FirstEnd
    BY <1>1
  <2> HIDE DEF bytes
  <2>3. /\ SubSeq(ring, 1, FirstEnd) \in Seq(Byte)
        /\ Len(SubSeq(ring, 1, FirstEnd)) = FirstEnd - 1 + 1
        /\ \A i \in 1 .. FirstEnd - 1 + 1 :
             SubSeq(ring, 1, FirstEnd)[i] = ring[1 + i - 1]
    BY <2>1, <2>2, SubSeqProperties
  <2> QED
    BY <2>2, <2>3 DEF bytes
<1> HIDE DEF bytes, w, b
<1>5. ASSUME NEW j \in 1 .. Len(w)
      PROVE  bytes[b + j - 1] = w[j]
  <2>1. b + j - 1 \in 1 .. FirstEnd
    BY <1>1, <1>2
  <2> QED
    BY <1>1, <1>4, <2>1
<1>6. b \in 1 .. Len(bytes) /\ bytes[b] = Begin
  <2>1. 1 \in 1 .. Len(w) /\ b + 1 - 1 = b
    BY <1>1, <1>2
  <2>2. bytes[b] = w[1]
    BY <1>5, <2>1
  <2> QED
    BY <1>1, <1>2, <1>4, <2>2
<1>7. ASSUME NEW j \in (b + 1) .. Len(bytes)
      PROVE  bytes[j] # Begin
  <2>1. j - b + 1 \in 2 .. Len(w) /\ b + (j - b + 1) - 1 = j
    BY <1>1, <1>2, <1>4
  <2>2. bytes[j] = w[j - b + 1]
    <3>1. j - b + 1 \in 1 .. Len(w)
      BY <1>2, <2>1
    <3>2. bytes[b + (j - b + 1) - 1] = w[j - b + 1]
      BY <1>5, <3>1
    <3> QED
      BY <2>1, <3>2
  <2>3. CASE j - b + 1 = Len(w)
    BY <1>2, <2>2, <2>3, MarkersDiffer
  <2>4. CASE j - b + 1 \in 2 .. (Len(w) - 1)
    BY <1>2, <2>2, <2>4
  <2> QED
    BY <1>2, <2>1, <2>3, <2>4
<1>8. ASSUME NEW i \in 1 .. Len(bytes), bytes[i] = Begin,
             \A j \in (i + 1) .. Len(bytes) : bytes[j] # Begin
      PROVE  i = b
  <2>1. ~(i < b)
    BY <1>6, <1>8
  <2>2. ~(i > b)
    BY <1>1, <1>6, <1>7, <1>8
  <2> QED
    BY <1>1, <2>1, <2>2
<1>9. LastBegin(bytes) = b
  BY <1>6, <1>7, <1>8 DEF LastBegin
<1>10. FrameIn(bytes) = SubSeq(bytes, b, Len(bytes))
  BY <1>9 DEF FrameIn
<1>11. /\ FrameIn(bytes) \in Seq(Byte)
       /\ Len(FrameIn(bytes)) = Len(w)
       /\ \A i \in 1 .. Len(w) : FrameIn(bytes)[i] = bytes[b + i - 1]
  <2>1. \A i \in b .. Len(bytes) : bytes[i] \in Byte
    BY <1>1, <1>4, <1>6, ElementOfSeq
  <2>2. b \in Int /\ Len(bytes) \in Int /\ b <= Len(bytes)
        /\ Len(bytes) - b + 1 = Len(w)
    BY <1>1, <1>2, <1>4, <1>6
  <2>3. /\ SubSeq(bytes, b, Len(bytes)) \in Seq(Byte)
        /\ Len(SubSeq(bytes, b, Len(bytes))) = Len(bytes) - b + 1
        /\ \A i \in 1 .. Len(bytes) - b + 1 :
             SubSeq(bytes, b, Len(bytes))[i] = bytes[b + i - 1]
    BY <2>1, <2>2, SubSeqProperties
  <2> QED
    BY <1>10, <2>2, <2>3
<1>12. FrameIn(bytes) = w
  BY <1>2, <1>5, <1>11, SeqEqual
<1> QED
  BY <1>12 DEF bytes, w

-----------------------------------------------------------------------------
(* The part of the invariant the queue operations can disturb, said of a   *)
(* ring rg, a sequence lv of messages and the places st of their frames.   *)
LastOf(lv, st, k) == st[k] + Len(Wire[lv[k]]) - 1

QueueAs(rg, lv, st) ==
  /\ rg \in Seq(Byte)
  /\ Len(rg) <= Size
  /\ lv \in Seq(Msg)
  /\ st \in Seq(Nat)
  /\ Len(st) = Len(lv)
  /\ \A k \in 1 .. Len(lv) :
       /\ st[k] >= 1
       /\ LastOf(lv, st, k) <= Len(rg)
       /\ \A j \in 1 .. Len(Wire[lv[k]]) : rg[st[k] + j - 1] = Wire[lv[k]][j]
       /\ \A l \in 1 .. Len(lv) : k < l => LastOf(lv, st, k) < st[l]
  /\ \A i \in 1 .. Len(rg) :
       rg[i] = End => \E k \in 1 .. Len(lv) : i = LastOf(lv, st, k)
  /\ rg # <<>> => rg[1] = Begin
  /\ \A i \in 1 .. (Len(rg) - 1) : rg[i] = End => rg[i + 1] = Begin

LEMMA IInvIsQueueAs ==
  ASSUME IInv
  PROVE  QueueAs(ring, live, starts)
BY DEF IInv, TypeOK, FramesIntact, StartsAtFrame, QueueAs, EndOf, LastOf

LEMMA QueueAsNext ==
  ASSUME QueueAs(ring', live', starts')
  PROVE  FramesIntact' /\ StartsAtFrame'
BY DEF FramesIntact, StartsAtFrame, QueueAs, EndOf, LastOf

LEMMA EmptyIsQueue == QueueAs(<<>>, <<>>, <<>>)
BY SizeAssumption DEF QueueAs

(* Where the j-th byte of a frame lies when e bytes before it are gone.    *)
LEMMA Shifted ==
  ASSUME NEW s \in Int, NEW e \in Int, NEW j \in Int, NEW r \in Int,
         e < s, j >= 1, s + j - 1 <= r
  PROVE  /\ (s - e) + j - 1 \in 1 .. (r - e)
         /\ e + ((s - e) + j - 1) = s + j - 1
OBVIOUS

(* A frame of the queue lies inside the ring.                              *)
LEMMA FrameBounds ==
  ASSUME NEW rg, NEW lv, NEW st, QueueAs(rg, lv, st), NEW k \in 1 .. Len(lv)
  PROVE  /\ lv[k] \in Msg
         /\ st[k] \in Nat
         /\ st[k] >= 1
         /\ LastOf(lv, st, k) = st[k] + Len(Wire[lv[k]]) - 1
         /\ LastOf(lv, st, k) \in 2 .. Len(rg)
         /\ LastOf(lv, st, k) > st[k]
         /\ \A j \in 1 .. Len(Wire[lv[k]]) :
              /\ rg[st[k] + j - 1] = Wire[lv[k]][j]
              /\ st[k] + j - 1 \in 1 .. Len(rg)
<1>1. lv[k] \in Msg /\ st[k] \in Nat /\ Len(rg) \in Nat
  BY SMTT(60) DEF QueueAs
<1>2. /\ st[k] >= 1
      /\ LastOf(lv, st, k) <= Len(rg)
      /\ \A j \in 1 .. Len(Wire[lv[k]]) : rg[st[k] + j - 1] = Wire[lv[k]][j]
  BY DEF QueueAs
<1>3. Len(Wire[lv[k]]) \in Nat /\ Len(Wire[lv[k]]) >= 2
  BY <1>1, WireShape
<1>4. LastOf(lv, st, k) = st[k] + Len(Wire[lv[k]]) - 1
  BY DEF LastOf
<1>5. \A j \in 1 .. Len(Wire[lv[k]]) : st[k] + j - 1 \in 1 .. Len(rg)
  BY <1>1, <1>2, <1>3, <1>4, SMTT(60)
<1> QED
  BY <1>1, <1>2, <1>3, <1>4, <1>5, SMTT(60)

(* A put that finds room adds one whole frame after what is there.         *)
LEMMA PutWholeKeeps ==
  ASSUME NEW rg, NEW lv, NEW st, QueueAs(rg, lv, st),
         NEW m \in Msg, Len(Wire[m]) <= Size - Len(rg)
  PROVE  QueueAs(rg \o Wire[m], Append(lv, m), Append(st, Len(rg) + 1))
<1> DEFINE n == Len(lv)
           r == Len(rg)
           w == Wire[m]
           rg1 == rg \o w
           lv1 == Append(lv, m)
           st1 == Append(st, r + 1)
<1>1. /\ rg \in Seq(Byte)
      /\ r \in Nat
      /\ r <= Size
      /\ lv \in Seq(Msg)
      /\ st \in Seq(Nat)
      /\ n \in Nat
      /\ Len(st) = n
      /\ Size \in Nat
      /\ Len(w) <= Size - r
  BY SizeAssumption DEF QueueAs
<1>2. /\ w \in Seq(Byte)
      /\ Len(w) \in Nat
      /\ Len(w) >= 2
      /\ w[1] = Begin
      /\ w[Len(w)] = End
      /\ \A i \in 2 .. (Len(w) - 1) : w[i] # End
  BY WireShape
<1>3. /\ rg1 \in Seq(Byte)
      /\ Len(rg1) = r + Len(w)
      /\ \A i \in 1 .. r : rg1[i] = rg[i]
      /\ \A i \in (r + 1) .. (r + Len(w)) : rg1[i] = w[i - r]
  BY <1>1, <1>2, ConcatProperties
<1>4. /\ lv1 \in Seq(Msg)
      /\ Len(lv1) = n + 1
      /\ \A k \in 1 .. n : lv1[k] = lv[k]
      /\ lv1[n + 1] = m
  BY <1>1, AppendProperties
<1>5. /\ st1 \in Seq(Nat)
      /\ Len(st1) = n + 1
      /\ \A k \in 1 .. n : st1[k] = st[k]
      /\ st1[n + 1] = r + 1
  BY <1>1, AppendProperties
<1>6. ASSUME NEW k \in 1 .. n
      PROVE  LastOf(lv1, st1, k) = LastOf(lv, st, k)
  BY <1>4, <1>5 DEF LastOf
<1>7. LastOf(lv1, st1, n + 1) = r + Len(w)
  BY <1>1, <1>2, <1>4, <1>5 DEF LastOf
<1> HIDE DEF rg1, lv1, st1
<1>8. ASSUME NEW k \in 1 .. (n + 1)
      PROVE  /\ st1[k] >= 1
             /\ LastOf(lv1, st1, k) <= Len(rg1)
             /\ \A j \in 1 .. Len(Wire[lv1[k]]) :
                  rg1[st1[k] + j - 1] = Wire[lv1[k]][j]
             /\ \A l \in 1 .. (n + 1) : k < l => LastOf(lv1, st1, k) < st1[l]
  <2>1. CASE k \in 1 .. n
    <3>0. /\ st[k] \in Nat
          /\ st[k] >= 1
          /\ LastOf(lv, st, k) \in 2 .. r
      BY <2>1, FrameBounds
    <3>1. st1[k] >= 1 /\ LastOf(lv1, st1, k) <= Len(rg1)
      <4>1. st1[k] = st[k] /\ LastOf(lv1, st1, k) = LastOf(lv, st, k)
        BY <1>5, <1>6, <2>1
      <4>2. Len(rg1) >= r
        BY <1>1, <1>2, <1>3
      <4>3. Len(rg1) \in Nat
        BY <1>1, <1>2, <1>3
      <4> QED
        BY <1>1, <3>0, <4>1, <4>2, <4>3
    <3>2. ASSUME NEW j \in 1 .. Len(Wire[lv[k]])
          PROVE  rg1[st[k] + j - 1] = Wire[lv[k]][j]
      <4>1. rg[st[k] + j - 1] = Wire[lv[k]][j] /\ st[k] + j - 1 \in 1 .. r
        BY <2>1, FrameBounds
      <4> QED
        BY <1>3, <4>1
    <3>3. ASSUME NEW l \in 1 .. (n + 1), k < l
          PROVE  LastOf(lv1, st1, k) < st1[l]
      <4>1. CASE l = n + 1
        BY <1>1, <1>5, <1>6, <2>1, <3>0, <4>1
      <4>2. CASE l \in 1 .. n
        <5>1. LastOf(lv, st, k) < st[l]
          BY <2>1, <3>3, <4>2 DEF QueueAs
        <5> QED
          BY <1>5, <1>6, <2>1, <4>2, <5>1
      <4> QED
        BY <1>1, <4>1, <4>2
    <3> QED
      BY <1>4, <1>5, <2>1, <3>1, <3>2, <3>3
  <2>2. CASE k = n + 1
    <3>1. st1[k] >= 1 /\ LastOf(lv1, st1, k) <= Len(rg1)
      BY <1>1, <1>2, <1>3, <1>5, <1>7, <2>2, SMTT(60)
    <3>2. ASSUME NEW j \in 1 .. Len(w)
          PROVE  rg1[r + 1 + j - 1] = w[j]
      <4>1. r + 1 + j - 1 \in (r + 1) .. (r + Len(w)) /\ (r + 1 + j - 1) - r = j
        BY <1>1, <1>2, SMTT(60)
      <4> QED
        BY <1>3, <4>1
    <3>3. \A l \in 1 .. (n + 1) : ~(k < l)
      BY <1>1, <2>2
    <3> QED
      BY <1>4, <1>5, <2>2, <3>1, <3>2, <3>3
  <2> QED
    BY <1>1, <2>1, <2>2
<1>9. ASSUME NEW i \in 1 .. (r + Len(w)), rg1[i] = End
      PROVE  \E k \in 1 .. (n + 1) : i = LastOf(lv1, st1, k)
  <2>1. CASE i \in 1 .. r
    <3>1. rg[i] = End
      BY <1>3, <1>9, <2>1
    <3>2. PICK k \in 1 .. n : i = LastOf(lv, st, k)
      BY <2>1, <3>1 DEF QueueAs
    <3>3. k \in 1 .. (n + 1) /\ i = LastOf(lv1, st1, k)
      BY <1>1, <1>6, <3>2
    <3> QED
      BY <3>3
  <2>2. CASE i \in (r + 1) .. (r + Len(w))
    <3>1. w[i - r] = End
      BY <1>3, <1>9, <2>2
    <3>2. i - r = Len(w)
      <4>1. i - r \in 1 .. Len(w)
        BY <1>1, <1>2, <2>2
      <4>2. i - r # 1
        BY <1>2, <3>1, MarkersDiffer
      <4>3. ~(i - r \in 2 .. (Len(w) - 1))
        BY <1>2, <3>1
      <4>4. i - r \in Int /\ Len(w) \in Nat
        BY <1>1, <1>2
      <4> QED
        BY <4>1, <4>2, <4>3, <4>4
    <3>3. i = LastOf(lv1, st1, n + 1) /\ n + 1 \in 1 .. (n + 1)
      BY <1>1, <1>2, <1>7, <2>2, <3>2
    <3> QED
      BY <3>3
  <2>3. i \in 1 .. r \/ i \in (r + 1) .. (r + Len(w))
    BY <1>1, <1>2
  <2> QED
    BY <2>1, <2>2, <2>3
<1>10. rg1[r + 1] = Begin
  <2>1. r + 1 \in (r + 1) .. (r + Len(w)) /\ (r + 1) - r = 1
    BY <1>1, <1>2
  <2> QED
    BY <1>2, <1>3, <2>1
<1>11. rg1[1] = Begin
  <2>1. CASE r = 0
    BY <1>10, <2>1
  <2>2. CASE r > 0
    <3>1. rg # <<>> /\ 1 \in 1 .. r
      BY <1>1, <2>2
    <3>2. rg[1] = Begin
      BY <3>1 DEF QueueAs
    <3> QED
      BY <1>3, <3>1, <3>2
  <2> QED
    BY <1>1, <2>1, <2>2
<1>12. ASSUME NEW i \in 1 .. (r + Len(w) - 1), rg1[i] = End
       PROVE  rg1[i + 1] = Begin
  <2>1. CASE i < r
    <3>1. i \in 1 .. (r - 1) /\ i \in 1 .. r /\ i + 1 \in 1 .. r
      BY <1>1, <2>1
    <3>2. rg[i] = End
      BY <1>3, <1>12, <3>1
    <3>3. rg[i + 1] = Begin
      BY <3>1, <3>2 DEF QueueAs
    <3> QED
      BY <1>3, <3>1, <3>3
  <2>2. CASE i = r
    BY <1>10, <2>2
  <2>3. CASE i > r
    <3>1. i \in 1 .. (r + Len(w))
      BY <1>1, <1>2
    <3>2. PICK k \in 1 .. (n + 1) : i = LastOf(lv1, st1, k)
      BY <1>9, <1>12, <3>1
    <3>3. k # n + 1
      BY <1>1, <1>2, <1>7, <3>2
    <3>4. k \in 1 .. n
      BY <1>1, <3>3
    <3>5. LastOf(lv, st, k) \in 2 .. r
      BY <3>4, FrameBounds
    <3> QED
      BY <1>1, <1>6, <2>3, <3>2, <3>4, <3>5
  <2> QED
    BY <1>1, <1>2, <2>1, <2>2, <2>3
<1>13. Len(rg1) <= Size
  BY <1>1, <1>2, <1>3
<1>14. QueueAs(rg1, lv1, st1)
  BY <1>3, <1>4, <1>5, <1>8, <1>9, <1>11, <1>12, <1>13 DEF QueueAs
<1> QED
  BY <1>14 DEF rg1, lv1, st1

(* A put that runs out of room adds the first bytes of a frame, none of    *)
(* them an end byte.                                                       *)
LEMMA PutPartKeeps ==
  ASSUME NEW rg, NEW lv, NEW st, QueueAs(rg, lv, st),
         NEW v \in Seq(Byte), Len(v) <= Size - Len(rg),
         \A i \in 1 .. Len(v) : v[i] # End,
         Len(v) > 0 => v[1] = Begin
  PROVE  QueueAs(rg \o v, lv, st)
<1> DEFINE n == Len(lv)
           r == Len(rg)
           rg1 == rg \o v
<1>1. /\ rg \in Seq(Byte)
      /\ r \in Nat
      /\ r <= Size
      /\ lv \in Seq(Msg)
      /\ st \in Seq(Nat)
      /\ n \in Nat
      /\ Len(st) = n
      /\ Len(v) \in Nat
      /\ Size \in Nat
  BY SizeAssumption DEF QueueAs
<1>2. /\ rg1 \in Seq(Byte)
      /\ Len(rg1) = r + Len(v)
      /\ \A i \in 1 .. r : rg1[i] = rg[i]
      /\ \A i \in (r + 1) .. (r + Len(v)) : rg1[i] = v[i - r]
  BY <1>1, ConcatProperties
<1> HIDE DEF rg1
<1>3. ASSUME NEW k \in 1 .. n
      PROVE  /\ st[k] >= 1
             /\ LastOf(lv, st, k) <= Len(rg1)
             /\ \A j \in 1 .. Len(Wire[lv[k]]) :
                  rg1[st[k] + j - 1] = Wire[lv[k]][j]
             /\ \A l \in 1 .. n : k < l => LastOf(lv, st, k) < st[l]
  <2>1. st[k] >= 1 /\ LastOf(lv, st, k) \in 2 .. r
    BY <1>3, FrameBounds
  <2>2. LastOf(lv, st, k) <= Len(rg1)
    BY <1>1, <1>2, <2>1
  <2>3. ASSUME NEW j \in 1 .. Len(Wire[lv[k]])
        PROVE  rg1[st[k] + j - 1] = Wire[lv[k]][j]
    <3>1. rg[st[k] + j - 1] = Wire[lv[k]][j] /\ st[k] + j - 1 \in 1 .. r
      BY <1>3, FrameBounds
    <3> QED
      BY <1>2, <3>1
  <2>4. \A l \in 1 .. n : k < l => LastOf(lv, st, k) < st[l]
    BY DEF QueueAs
  <2> QED
    BY <2>1, <2>2, <2>3, <2>4
<1>4. ASSUME NEW i \in 1 .. (r + Len(v)), rg1[i] = End
      PROVE  i \in 1 .. r /\ rg[i] = End
  <2>1. CASE i \in (r + 1) .. (r + Len(v))
    <3>1. i - r \in 1 .. Len(v)
      BY <1>1, <2>1
    <3> QED
      BY <1>2, <1>4, <2>1, <3>1
  <2>2. CASE i \in 1 .. r
    BY <1>2, <1>4, <2>2
  <2>3. i \in 1 .. r \/ i \in (r + 1) .. (r + Len(v))
    BY <1>1
  <2> QED
    BY <2>1, <2>2, <2>3
<1>5. ASSUME NEW i \in 1 .. (r + Len(v)), rg1[i] = End
      PROVE  \E k \in 1 .. n : i = LastOf(lv, st, k)
  BY <1>4, <1>5 DEF QueueAs
<1>6. Len(v) > 0 => rg1[r + 1] = Begin
  <2> SUFFICES ASSUME Len(v) > 0
               PROVE  rg1[r + 1] = Begin
    OBVIOUS
  <2>1. r + 1 \in (r + 1) .. (r + Len(v)) /\ (r + 1) - r = 1
    BY <1>1
  <2> QED
    BY <1>2, <2>1
<1>7. rg1 # <<>> => rg1[1] = Begin
  <2>1. CASE r = 0
    BY <1>1, <1>2, <1>6, <2>1
  <2>2. CASE r > 0
    <3>1. rg # <<>> /\ 1 \in 1 .. r
      BY <1>1, <2>2
    <3>2. rg[1] = Begin
      BY <3>1 DEF QueueAs
    <3> QED
      BY <1>2, <3>1, <3>2
  <2> QED
    BY <1>1, <2>1, <2>2
<1>8. ASSUME NEW i \in 1 .. (r + Len(v) - 1), rg1[i] = End
      PROVE  rg1[i + 1] = Begin
  <2>1. i \in 1 .. r /\ rg[i] = End
    BY <1>1, <1>4, <1>8
  <2>2. CASE i = r
    BY <1>1, <1>6, <2>2
  <2>3. CASE i # r
    <3>1. i \in 1 .. (r - 1) /\ i + 1 \in 1 .. r
      BY <1>1, <2>1, <2>3
    <3>2. rg[i + 1] = Begin
      BY <2>1, <3>1 DEF QueueAs
    <3> QED
      BY <1>2, <3>1, <3>2
  <2> QED
    BY <2>2, <2>3
<1>9. Len(rg1) <= Size
  BY <1>1, <1>2
<1>10. QueueAs(rg1, lv, st)
  BY <1>1, <1>2, <1>3, <1>5, <1>7, <1>8, <1>9 DEF QueueAs
<1> QED
  BY <1>10 DEF rg1

LEMMA ArrayIsSeq ==
  ASSUME NEW S, NEW n \in Nat, NEW f \in [1 .. n -> S]
  PROVE  f \in Seq(S) /\ Len(f) = n
<1>1. f \in Seq(S)
  OBVIOUS
<1>2. Len(f) \in Nat /\ DOMAIN f = 1 .. Len(f) /\ DOMAIN f = 1 .. n
  BY <1>1
<1> QED
  BY <1>1, <1>2

(* A get takes the oldest frame, with the bytes before it.                 *)
LEMMA GetFrameKeeps ==
  ASSUME NEW rg, NEW lv, NEW st, QueueAs(rg, lv, st), Len(lv) > 0
  PROVE  LET e == LastOf(lv, st, 1) IN
         QueueAs(SubSeq(rg, e + 1, Len(rg)), Tail(lv),
                 [k \in 1 .. (Len(st) - 1) |-> st[k + 1] - e])
<1> DEFINE n == Len(lv)
           r == Len(rg)
           e == LastOf(lv, st, 1)
           rg1 == SubSeq(rg, e + 1, r)
           lv1 == Tail(lv)
           st1 == [k \in 1 .. (Len(st) - 1) |-> st[k + 1] - e]
<1>1. /\ rg \in Seq(Byte)
      /\ r \in Nat
      /\ r <= Size
      /\ lv \in Seq(Msg)
      /\ lv # <<>>
      /\ st \in Seq(Nat)
      /\ n \in Nat
      /\ n >= 1
      /\ Len(st) = n
      /\ Size \in Nat
  BY SizeAssumption, SMTT(60) DEF QueueAs
<1>2. e \in 2 .. r /\ rg[e] = End
  <2>1. 1 \in 1 .. n
    BY <1>1
  <2>2. /\ lv[1] \in Msg
        /\ st[1] \in Nat
        /\ e = st[1] + Len(Wire[lv[1]]) - 1
        /\ e \in 2 .. r
        /\ \A j \in 1 .. Len(Wire[lv[1]]) :
             rg[st[1] + j - 1] = Wire[lv[1]][j]
    BY <2>1, FrameBounds
  <2>3. /\ Len(Wire[lv[1]]) \in 1 .. Len(Wire[lv[1]])
        /\ Wire[lv[1]][Len(Wire[lv[1]])] = End
    BY <2>2, WireShape
  <2> QED
    BY <2>2, <2>3
<1>3. /\ rg1 \in Seq(Byte)
      /\ Len(rg1) = r - e
      /\ \A i \in 1 .. (r - e) : rg1[i] = rg[e + i]
  <2>1. \A i \in (e + 1) .. r : rg[i] \in Byte
    BY <1>1, <1>2, ElementOfSeq
  <2>2. e + 1 \in Int /\ r \in Int
    BY <1>1, <1>2
  <2> HIDE DEF e, r
  <2>3. /\ rg1 \in Seq(Byte)
        /\ Len(rg1) = IF e + 1 <= r THEN r - (e + 1) + 1 ELSE 0
        /\ \A i \in 1 .. r - (e + 1) + 1 : rg1[i] = rg[(e + 1) + i - 1]
    BY <2>1, <2>2, SubSeqProperties, SMTT(60)
  <2>4. Len(rg1) = r - e
    BY <1>1, <1>2, <2>3
  <2>5. ASSUME NEW i \in 1 .. (r - e)
        PROVE  rg1[i] = rg[e + i]
    <3>1. i \in 1 .. r - (e + 1) + 1 /\ (e + 1) + i - 1 = e + i
      BY <1>1, <1>2
    <3>2. rg1[i] = rg[(e + 1) + i - 1]
      BY <2>3, <3>1
    <3> QED
      BY <3>1, <3>2
  <2> QED
    BY <2>3, <2>4, <2>5
<1>4. /\ lv1 \in Seq(Msg)
      /\ Len(lv1) = n - 1
      /\ \A k \in 1 .. (n - 1) : lv1[k] = lv[k + 1]
  BY <1>1, HeadTailProperties
<1>5. ASSUME NEW k \in 1 .. (n - 1)
      PROVE  /\ k + 1 \in 1 .. n
             /\ 1 < k + 1
             /\ st[k + 1] \in Nat
             /\ e < st[k + 1]
             /\ st[k + 1] - e \in Nat
             /\ st1[k] = st[k + 1] - e
  <2>1. k + 1 \in 1 .. n /\ 1 \in 1 .. n /\ 1 < k + 1
    BY <1>1
  <2>2. e < st[k + 1]
    BY <2>1 DEF QueueAs
  <2>3. st[k + 1] \in Nat
    BY <1>1, <2>1
  <2>4. st1[k] = st[k + 1] - e
    BY <1>1
  <2> QED
    BY <1>2, <2>1, <2>2, <2>3, <2>4, SMTT(60)
<1>6. st1 \in Seq(Nat) /\ Len(st1) = n - 1
  <2>1. st1 \in [1 .. (n - 1) -> Nat]
    BY <1>1, <1>5
  <2>2. n - 1 \in Nat
    BY <1>1
  <2> HIDE DEF st1
  <2> QED
    BY <2>1, <2>2, ArrayIsSeq
<1> HIDE DEF rg1, lv1, st1, e
<1>7. ASSUME NEW k \in 1 .. (n - 1)
      PROVE  LastOf(lv1, st1, k) = LastOf(lv, st, k + 1) - e
  <2>1. lv[k + 1] \in Msg
    BY <1>1, <1>5
  <2>2. Len(Wire[lv[k + 1]]) \in Nat
    BY <2>1, WireShape
  <2>3. lv1[k] = lv[k + 1] /\ st1[k] = st[k + 1] - e
    BY <1>4, <1>5
  <2>4. st[k + 1] \in Nat /\ e \in Nat
    BY <1>1, <1>2, <1>5
  <2> QED
    BY <2>2, <2>3, <2>4 DEF LastOf
<1>8. ASSUME NEW k \in 1 .. (n - 1)
      PROVE  /\ st1[k] >= 1
             /\ LastOf(lv1, st1, k) <= Len(rg1)
             /\ \A j \in 1 .. Len(Wire[lv1[k]]) :
                  rg1[st1[k] + j - 1] = Wire[lv1[k]][j]
             /\ \A l \in 1 .. (n - 1) : k < l => LastOf(lv1, st1, k) < st1[l]
  <2>1. /\ st1[k] = st[k + 1] - e
        /\ lv1[k] = lv[k + 1]
        /\ st[k + 1] \in Nat
        /\ e \in Nat
        /\ e < st[k + 1]
        /\ k + 1 \in 1 .. n
    BY <1>2, <1>4, <1>5
  <2>2. LastOf(lv, st, k + 1) \in 2 .. r
    BY <2>1, FrameBounds
  <2>3. LastOf(lv1, st1, k) <= Len(rg1)
    BY <1>1, <1>3, <1>7, <2>1, <2>2
  <2>4. ASSUME NEW j \in 1 .. Len(Wire[lv1[k]])
        PROVE  rg1[st1[k] + j - 1] = Wire[lv1[k]][j]
    <3>1. j \in 1 .. Len(Wire[lv[k + 1]])
      BY <2>1
    <3>2. /\ rg[st[k + 1] + j - 1] = Wire[lv[k + 1]][j]
          /\ st[k + 1] + j - 1 \in 1 .. r
      BY <2>1, <3>1, FrameBounds
    <3>3. j \in Int /\ j >= 1
      BY <3>1
    <3>a. /\ (st[k + 1] - e) + j - 1 \in 1 .. (r - e)
          /\ e + ((st[k + 1] - e) + j - 1) = st[k + 1] + j - 1
      <4>1. PICK s \in Int : s = st[k + 1] /\ e < s
        BY <1>1, <2>1
      <4>2. e \in Int /\ r \in Int
        BY <1>1, <2>1
      <4>3. s + j - 1 <= r
        BY <3>2, <4>1
      <4>4. /\ (s - e) + j - 1 \in 1 .. (r - e)
            /\ e + ((s - e) + j - 1) = s + j - 1
        BY <3>3, <4>1, <4>2, <4>3, Shifted, ZenonT(60)
      <4> QED
        BY <4>1, <4>4, Zenon
    <3>4. /\ st1[k] + j - 1 \in 1 .. (r - e)
          /\ e + (st1[k] + j - 1) = st[k + 1] + j - 1
      BY <2>1, <3>a
    <3>5. rg1[st1[k] + j - 1] = rg[e + (st1[k] + j - 1)]
      BY <1>3, <3>4
    <3> QED
      BY <2>1, <3>2, <3>4, <3>5
  <2>5. ASSUME NEW l \in 1 .. (n - 1), k < l
        PROVE  LastOf(lv1, st1, k) < st1[l]
    <3>1. /\ l + 1 \in 1 .. n
          /\ k + 1 < l + 1
          /\ st[l + 1] \in Nat
          /\ st1[l] = st[l + 1] - e
      BY <1>5, <2>5
    <3>2. LastOf(lv, st, k + 1) < st[l + 1]
      BY <2>1, <3>1 DEF QueueAs
    <3> QED
      BY <1>7, <2>1, <2>2, <3>1, <3>2
  <2>6. st1[k] >= 1
    BY <2>1
  <2> QED
    BY <2>3, <2>4, <2>5, <2>6
<1>9. ASSUME NEW i \in 1 .. (r - e), rg1[i] = End
      PROVE  \E k \in 1 .. (n - 1) : i = LastOf(lv1, st1, k)
  <2>1. e + i \in 1 .. r /\ rg[e + i] = End /\ e + i # e
    BY <1>1, <1>2, <1>3, <1>9
  <2>2. PICK l \in 1 .. n : e + i = LastOf(lv, st, l)
    BY <2>1 DEF QueueAs
  <2>3. l # 1
    BY <2>1, <2>2 DEF e
  <2>4. l - 1 \in 1 .. (n - 1) /\ (l - 1) + 1 = l
    BY <1>1, <2>3
  <2>5. LastOf(lv1, st1, l - 1) = LastOf(lv, st, l) - e
    BY <1>7, <2>4
  <2>6. i = LastOf(lv1, st1, l - 1)
    BY <1>2, <2>2, <2>5
  <2> QED
    BY <2>4, <2>6
<1>10. rg1 # <<>> => rg1[1] = Begin
  <2> SUFFICES ASSUME rg1 # <<>>
               PROVE  rg1[1] = Begin
    OBVIOUS
  <2>1. r - e > 0
    BY <1>1, <1>2, <1>3
  <2>2. e \in 1 .. (r - 1) /\ 1 \in 1 .. (r - e)
    BY <1>1, <1>2, <2>1
  <2>3. rg[e + 1] = Begin
    BY <1>2, <2>2 DEF QueueAs
  <2> QED
    BY <1>3, <2>2, <2>3
<1>11. ASSUME NEW i \in 1 .. (r - e - 1), rg1[i] = End
       PROVE  rg1[i + 1] = Begin
  <2>1. /\ i \in 1 .. (r - e)
        /\ i + 1 \in 1 .. (r - e)
        /\ e + i \in 1 .. (r - 1)
        /\ e + (i + 1) = (e + i) + 1
    BY <1>1, <1>2
  <2>2. rg[e + i] = End
    BY <1>3, <1>11, <2>1
  <2>3. rg[(e + i) + 1] = Begin
    BY <2>1, <2>2 DEF QueueAs
  <2> QED
    BY <1>3, <2>1, <2>3
<1>12. Len(rg1) <= Size
  BY <1>1, <1>2, <1>3
<1>13. QueueAs(rg1, lv1, st1)
  BY <1>3, <1>4, <1>6, <1>8, <1>9, <1>10, <1>11, <1>12 DEF QueueAs
<1> QED
  BY <1>13 DEF rg1, lv1, st1, e

-----------------------------------------------------------------------------
(* A ring without an end byte holds no message.                            *)
LEMMA NoFrameNoMessage ==
  ASSUME IInv, ~HasFrame
  PROVE  live = <<>> /\ starts = <<>>
<1>1. live \in Seq(Msg) /\ starts \in Seq(Nat) /\ Len(starts) = Len(live)
  BY DEF IInv, TypeOK, FramesIntact
<1>2. ~(Len(live) > 0)
  <2> SUFFICES ASSUME Len(live) > 0
               PROVE  FALSE
    OBVIOUS
  <2>1. 1 \in 1 .. Len(live)
    BY <1>1
  <2>2. EndOf(1) \in 1 .. Len(ring) /\ ring[EndOf(1)] = End
    BY <2>1, FrameAt
  <2> QED
    BY <2>2 DEF HasFrame
<1> QED
  BY <1>1, <1>2

LEMMA PutsKeeps ==
  ASSUME IInv, NEW m \in Msg, QUEUE_Puts(m)
  PROVE  /\ QueueAs(ring', live', starts')
         /\ ~PutsOK(m) => Len(ring') = Size
<1>1. QueueAs(ring, live, starts)
  BY IInvIsQueueAs
<1>2. Len(ring) \in Nat /\ Len(ring) <= Size /\ Size \in Nat
  BY SizeAssumption DEF IInv, TypeOK
<1>3. CASE PutsOK(m)
  <2>1. /\ ring' = ring \o Wire[m]
        /\ live' = Append(live, m)
        /\ starts' = Append(starts, Len(ring) + 1)
        /\ Len(Wire[m]) <= Size - Len(ring)
    BY <1>3 DEF QUEUE_Puts, PutsOK, Room
  <2> QED
    BY <1>1, <1>3, <2>1, PutWholeKeeps
<1>4. CASE ~PutsOK(m)
  <2> DEFINE q == Size - Len(ring)
             v == SubSeq(Wire[m], 1, q)
  <2>1. /\ ring' = ring \o v
        /\ live' = live
        /\ starts' = starts
        /\ ~(Len(Wire[m]) <= q)
    BY <1>4 DEF QUEUE_Puts, PutsOK, Room
  <2>2. q \in Nat /\ 1 \in Int /\ q \in Int
    BY <1>2
  <2>3. /\ Wire[m] \in Seq(Byte)
        /\ Len(Wire[m]) \in Nat
        /\ Wire[m][1] = Begin
        /\ \A i \in 2 .. (Len(Wire[m]) - 1) : Wire[m][i] # End
    BY WireShape
  <2>4. \A i \in 1 .. q : Wire[m][i] \in Byte
    BY <2>1, <2>2, <2>3, ElementOfSeq
  <2> HIDE DEF q
  <2>5. /\ v \in Seq(Byte)
        /\ Len(v) = q
        /\ \A i \in 1 .. q : v[i] = Wire[m][i]
    <3>1. /\ v \in Seq(Byte)
          /\ Len(v) = IF 1 <= q THEN q - 1 + 1 ELSE 0
          /\ \A i \in 1 .. q - 1 + 1 : v[i] = Wire[m][1 + i - 1]
      BY <2>2, <2>4, SubSeqProperties
    <3> QED
      BY <2>2, <3>1
  <2>6. \A i \in 1 .. Len(v) : v[i] # End
    <3> SUFFICES ASSUME NEW i \in 1 .. q
                 PROVE  Wire[m][i] # End
      BY <2>5
    <3>1. CASE i = 1
      BY <2>3, <3>1, MarkersDiffer
    <3>2. CASE i # 1
      <4>1. i \in 2 .. (Len(Wire[m]) - 1)
        BY <2>1, <2>2, <2>3, <3>2
      <4> QED
        BY <2>3, <4>1
    <3> QED
      BY <3>1, <3>2
  <2>7. Len(v) > 0 => v[1] = Begin
    BY <2>2, <2>3, <2>5
  <2>8. QueueAs(ring \o v, live, starts)
    <3>1. v \in Seq(Byte) /\ Len(v) <= Size - Len(ring)
      BY <2>2, <2>5 DEF q
    <3> HIDE DEF v
    <3> QED
      BY <1>1, <2>6, <2>7, <3>1, PutPartKeeps
  <2>9. Len(ring \o v) = Len(ring) + Len(v)
    <3>1. ring \in Seq(Byte)
      BY DEF IInv, TypeOK
    <3> HIDE DEF v
    <3> QED
      BY <2>5, <3>1, ConcatProperties
  <2>10. Len(ring \o v) = Size
    BY <1>2, <2>5, <2>9 DEF q
  <2> QED
    BY <2>1, <2>8, <2>10
<1> QED
  BY <1>3, <1>4

LEMMA GetsKeeps ==
  ASSUME IInv, QUEUE_Gets
  PROVE  /\ QueueAs(ring', live', starts')
         /\ HasFrame => /\ FirstEnd \in 1 .. Len(ring)
                        /\ Len(ring') = Len(ring) - FirstEnd
                        /\ live # <<>>
                        /\ live' = Tail(live)
         /\ ~HasFrame => live = <<>> /\ live' = <<>>
<1>1. QueueAs(ring, live, starts)
  BY IInvIsQueueAs
<1>2. CASE HasFrame
  <2>1. /\ FirstEnd = EndOf(1)
        /\ 1 \in 1 .. Len(live)
        /\ FirstEnd \in 1 .. Len(ring)
    BY <1>2, FirstEndIsOldest, FrameAt
  <2>2. FirstEnd = LastOf(live, starts, 1)
    BY <2>1 DEF EndOf, LastOf
  <2>3. /\ ring' = SubSeq(ring, FirstEnd + 1, Len(ring))
        /\ live' = Tail(live)
        /\ starts' = [k \in 1 .. (Len(starts) - 1) |-> starts[k + 1] - FirstEnd]
    BY <1>2 DEF QUEUE_Gets
  <2>4. live \in Seq(Msg) /\ ring \in Seq(Byte) /\ Len(ring) \in Nat
    BY DEF IInv, TypeOK
  <2>5. Len(live) > 0 /\ live # <<>>
    BY <2>1, <2>4
  <2>6. QueueAs(ring', live', starts')
    BY <1>1, <2>2, <2>3, <2>5, GetFrameKeeps
  <2>7. Len(ring') = Len(ring) - FirstEnd
    <3>1. \A i \in (FirstEnd + 1) .. Len(ring) : ring[i] \in Byte
      BY <2>1, <2>4, ElementOfSeq
    <3>2. FirstEnd + 1 \in Int /\ Len(ring) \in Int
      BY <2>1, <2>4
    <3>3. Len(ring') = IF FirstEnd + 1 <= Len(ring)
                         THEN Len(ring) - (FirstEnd + 1) + 1 ELSE 0
      BY <2>3, <3>1, <3>2, SubSeqProperties
    <3> QED
      BY <2>1, <2>4, <3>3
  <2> QED
    BY <1>2, <2>1, <2>3, <2>5, <2>6, <2>7
<1>3. CASE ~HasFrame
  <2>1. live = <<>> /\ starts = <<>>
    BY <1>3, NoFrameNoMessage
  <2>2. ring' = <<>> /\ live' = <<>> /\ starts' = <<>>
    BY <1>3, <2>1 DEF QUEUE_Gets
  <2> QED
    BY <1>3, <2>1, <2>2, EmptyIsQueue
<1> QED
  BY <1>2, <1>3

-----------------------------------------------------------------------------
LEMMA InitIInv == Init => IInv /\ LoopInv
<1> SUFFICES ASSUME Init
             PROVE  IInv /\ LoopInv
  OBVIOUS
<1>1. TypeOK
  BY SizeAssumption DEF Init, TypeOK
<1>2. FramesIntact /\ StartsAtFrame
  BY DEF Init, FramesIntact, StartsAtFrame
<1>3. LoopInv
  BY DEF Init, LoopInv
<1> QED
  BY <1>1, <1>2, <1>3 DEF IInv

(* What is left of the invariant once the queue is known to be right.      *)
LEMMA IInvNext ==
  ASSUME QueueAs(ring', live', starts'),
         phase' \in {"idle", "evict", "retry"},
         pushing' \in Msg \cup {NoMsg},
         phase' = "idle" <=> pushing' = NoMsg,
         out' \in Seq(Byte),
         largest' \in Nat
  PROVE  IInv'
BY QueueAsNext DEF IInv, TypeOK, QueueAs

LEMMA TryPutsKeeps ==
  ASSUME IInv, LoopInv, NEW m \in Msg, TryPuts(m),
         \/ phase = "idle"
         \/ phase = "retry" /\ m = pushing
  PROVE  IInv' /\ LoopInv'
<1>1. QueueAs(ring', live', starts') /\ (~PutsOK(m) => Len(ring') = Size)
  BY PutsKeeps DEF TryPuts
<1>2. /\ Len(Wire[m]) \in Nat
      /\ Len(Wire[m]) >= 2
      /\ Len(ring) \in Nat
      /\ Size \in Nat
      /\ largest \in Nat
      /\ out \in Seq(Byte)
  BY WireShape, SizeAssumption DEF IInv, TypeOK
<1>3. CASE PutsOK(m)
  <2>1. phase' = "idle" /\ pushing' = NoMsg /\ largest' = 0 /\ out' = out
    BY <1>3 DEF TryPuts
  <2>2. IInv'
    BY <1>1, <1>2, <2>1, IInvNext
  <2> QED
    BY <2>1, <2>2 DEF LoopInv
<1>4. CASE ~PutsOK(m)
  <2>1. phase' = "evict" /\ pushing' = m /\ largest' = largest /\ out' = out
    BY <1>4 DEF TryPuts
  <2>2. IInv'
    BY <1>1, <1>2, <2>1, NoMsgAssumption, IInvNext
  <2>3. Len(Wire[m]) > largest
    BY <1>2, <1>4 DEF LoopInv, PutsOK, Room
  <2>4. Len(ring') = Size
    BY <1>1, <1>4
  <2> QED
    BY <1>2, <2>1, <2>2, <2>3, <2>4 DEF LoopInv, Room
<1> QED
  BY <1>3, <1>4

LEMMA EvictKeeps ==
  ASSUME IInv, LoopInv, Evict
  PROVE  IInv' /\ LoopInv'
<1>1. /\ QueueAs(ring', live', starts')
      /\ HasFrame => /\ FirstEnd \in 1 .. Len(ring)
                     /\ Len(ring') = Len(ring) - FirstEnd
  BY GetsKeeps DEF Evict
<1>2. /\ Len(ring) \in Nat
      /\ Size \in Nat
      /\ largest \in Nat
      /\ out \in Seq(Byte)
      /\ out' = out
      /\ phase = "evict"
      /\ pushing \in Msg
  BY SizeAssumption DEF IInv, TypeOK, Evict
<1>3. CASE HasFrame
  <2>1. /\ phase' = "retry"
        /\ pushing' = pushing
        /\ largest' = IF FirstEnd > largest THEN FirstEnd ELSE largest
    BY <1>3 DEF Evict
  <2>2. largest' \in Nat
    BY <1>1, <1>2, <1>3, <2>1
  <2>3. IInv'
    BY <1>1, <1>2, <2>1, <2>2, NoMsgAssumption, IInvNext
  <2>4. Len(Wire[pushing]) > largest /\ Size - Len(ring) = 0
    BY <1>2 DEF LoopInv, Room
  <2>5. CASE FirstEnd > largest
    <3>1. largest' = FirstEnd /\ Size - Len(ring') = FirstEnd
      BY <1>1, <1>2, <1>3, <2>1, <2>4, <2>5
    <3>2. largest' <= Size - Len(ring')
      BY <1>1, <1>3, <3>1
    <3> QED
      BY <2>1, <2>3, <3>2 DEF LoopInv, Room
  <2>6. CASE ~(FirstEnd > largest)
    BY <2>1, <2>3, <2>4, <2>6 DEF LoopInv, Room
  <2> QED
    BY <2>5, <2>6
<1>4. CASE ~HasFrame
  <2>1. phase' = "idle" /\ pushing' = NoMsg /\ largest' = 0
    BY <1>4 DEF Evict
  <2>2. IInv'
    BY <1>1, <1>2, <2>1, IInvNext
  <2> QED
    BY <2>1, <2>2 DEF LoopInv
<1> QED
  BY <1>3, <1>4

(* A reply, or a send, leaves the push loop alone.                         *)
LEMMA ReplyKeeps ==
  ASSUME IInv, LoopInv, NEW m \in Msg, Reply(m)
  PROVE  IInv' /\ LoopInv'
<1>1. QueueAs(ring', live', starts')
  BY PutsKeeps DEF Reply
<1>2. /\ phase' = phase /\ pushing' = pushing
      /\ out' = out /\ largest' = largest
      /\ phase = "idle"
  BY DEF Reply
<1>3. IInv'
  BY <1>1, <1>2, IInvNext DEF IInv, TypeOK
<1> QED
  BY <1>2, <1>3 DEF LoopInv

LEMMA SendKeeps ==
  ASSUME IInv, LoopInv, SendNext
  PROVE  IInv' /\ LoopInv'
<1>1. /\ QueueAs(ring', live', starts')
      /\ HasFrame => FirstEnd \in 1 .. Len(ring)
  BY GetsKeeps DEF SendNext
<1>2. /\ phase' = phase /\ pushing' = pushing /\ largest' = largest
      /\ out' = IF HasFrame THEN SubSeq(ring, 1, FirstEnd) ELSE out
      /\ phase = "idle"
  BY DEF SendNext
<1>3. out' \in Seq(Byte)
  <2>1. CASE HasFrame
    <3>1. ring \in Seq(Byte) /\ Len(ring) \in Nat
      BY DEF IInv, TypeOK
    <3>2. \A i \in 1 .. FirstEnd : ring[i] \in Byte
      BY <1>1, <2>1, <3>1, ElementOfSeq
    <3>3. SubSeq(ring, 1, FirstEnd) \in Seq(Byte)
      BY <1>1, <2>1, <3>2, SubSeqProperties
    <3> QED
      BY <1>2, <2>1, <3>3
  <2>2. CASE ~HasFrame
    BY <1>2, <2>2 DEF IInv, TypeOK
  <2> QED
    BY <2>1, <2>2
<1>4. IInv'
  BY <1>1, <1>2, <1>3, IInvNext DEF IInv, TypeOK
<1> QED
  BY <1>2, <1>4 DEF LoopInv

LEMMA NextKeeps ==
  ASSUME IInv, LoopInv, [Next]_vars
  PROVE  IInv' /\ LoopInv'
<1>1. ASSUME NEW m \in Msg, MQTT_Publish(m)
      PROVE  IInv' /\ LoopInv'
  BY <1>1, TryPutsKeeps DEF MQTT_Publish
<1>2. ASSUME NEW m \in Msg, Reply(m)
      PROVE  IInv' /\ LoopInv'
  BY <1>2, ReplyKeeps
<1>3. CASE Evict
  BY <1>3, EvictKeeps
<1>4. CASE Retry
  <2>1. phase = "retry" /\ pushing \in Msg /\ TryPuts(pushing)
    BY <1>4 DEF Retry, IInv, TypeOK
  <2> QED
    BY <2>1, TryPutsKeeps
<1>5. CASE SendNext
  BY <1>5, SendKeeps
<1>6. CASE UNCHANGED vars
  <2>1. IInv'
    BY <1>6 DEF vars, IInv, TypeOK, FramesIntact, StartsAtFrame, EndOf
  <2>2. LoopInv'
    BY <1>6 DEF vars, LoopInv, Room
  <2> QED
    BY <2>1, <2>2
<1> QED
  BY <1>1, <1>2, <1>3, <1>4, <1>5, <1>6 DEF Next

(* The frames of the accepted messages stay whole and in order, and every  *)
(* byte a get reads first is a begin byte, in every reachable state of     *)
(* every queue (queue.c lines 42-57, proto.c lines 106-128).               *)
THEOREM QueueInvariant == Spec => [](IInv /\ LoopInv)
BY InitIInv, NextKeeps, PTL DEF Spec

(* The ring never holds more than its size, and what is read or pushed is  *)
(* always a message of the program (queue.c lines 42-57).                  *)
THEOREM QueueTypes == Spec => []TypeOK
BY QueueInvariant, PTL DEF IInv

THEOREM QueueFramesIntact == Spec => []FramesIntact
BY QueueInvariant, PTL DEF IInv

THEOREM QueueStartsAtFrame == Spec => []StartsAtFrame
BY QueueInvariant, PTL DEF IInv

(* The push loop gives up only on a message longer than every one it       *)
(* evicted (mqtt.c lines 592-598).                                         *)
THEOREM QueueRefusesOnlyLongest == Spec => []RefusedOnlyIfLongest
<1>1. LoopInv => RefusedOnlyIfLongest
  BY DEF LoopInv, RefusedOnlyIfLongest
<1> QED
  BY <1>1, QueueInvariant, PTL

-----------------------------------------------------------------------------
(* The abstract queue under the two queue operations.                      *)
LEMMA WireQueueShape ==
  ASSUME live \in Seq(Msg)
  PROVE  /\ WireQueue \in Seq(Seq(Byte))
         /\ Len(WireQueue) = Len(live)
         /\ \A k \in 1 .. Len(live) : WireQueue[k] = Wire[live[k]]
<1>1. Len(live) \in Nat
  OBVIOUS
<1>2. WireQueue \in [1 .. Len(live) -> Seq(Byte)]
  BY <1>1, WireAssumption DEF WireQueue
<1>3. WireQueue \in Seq(Seq(Byte)) /\ Len(WireQueue) = Len(live)
  BY <1>1, <1>2, ArrayIsSeq
<1>4. \A k \in 1 .. Len(live) : WireQueue[k] = Wire[live[k]]
  BY DEF WireQueue
<1> QED
  BY <1>3, <1>4

LEMMA PutAppendsFrame ==
  ASSUME live \in Seq(Msg), NEW m \in Msg, live' = Append(live, m)
  PROVE  WireQueue' = Append(WireQueue, Wire[m])
<1> DEFINE n == Len(live)
<1>1. live' \in Seq(Msg)
  BY AppendProperties
<1>2. /\ Len(live') = n + 1
      /\ \A k \in 1 .. n : live'[k] = live[k]
      /\ live'[n + 1] = m
      /\ n \in Nat
  BY AppendProperties
<1>3. /\ WireQueue \in Seq(Seq(Byte))
      /\ Len(WireQueue) = n
      /\ \A k \in 1 .. n : WireQueue[k] = Wire[live[k]]
  BY WireQueueShape
<1>4. /\ WireQueue' \in Seq(Seq(Byte))
      /\ Len(WireQueue') = n + 1
      /\ \A k \in 1 .. (n + 1) : WireQueue'[k] = Wire[live'[k]]
  <2>1. /\ WireQueue' \in Seq(Seq(Byte))
        /\ Len(WireQueue') = Len(live')
        /\ \A k \in 1 .. Len(live') : WireQueue'[k] = Wire[live'[k]]
    <3>1. Len(live') \in Nat
      BY <1>1
    <3>2. WireQueue' \in [1 .. Len(live') -> Seq(Byte)]
      BY <1>1, <3>1, WireAssumption DEF WireQueue
    <3>3. WireQueue' \in Seq(Seq(Byte)) /\ Len(WireQueue') = Len(live')
      BY <3>1, <3>2, ArrayIsSeq
    <3>4. \A k \in 1 .. Len(live') : WireQueue'[k] = Wire[live'[k]]
      BY DEF WireQueue
    <3> QED
      BY <3>3, <3>4
  <2> QED
    BY <1>2, <2>1
<1>5. Wire[m] \in Seq(Byte)
  BY WireShape
<1> DEFINE q == Append(WireQueue, Wire[m])
<1>6. /\ q \in Seq(Seq(Byte))
      /\ Len(q) = n + 1
      /\ \A k \in 1 .. n : q[k] = WireQueue[k]
      /\ q[n + 1] = Wire[m]
  BY <1>3, <1>5, AppendProperties
<1> HIDE DEF q, n
<1>7. ASSUME NEW k \in 1 .. (n + 1)
      PROVE  WireQueue'[k] = q[k]
  <2>1. CASE k = n + 1
    BY <1>2, <1>4, <1>6, <2>1
  <2>2. CASE k \in 1 .. n
    <3>1. q[k] = WireQueue[k]
      BY <1>6, <2>2
    <3>2. WireQueue[k] = Wire[live[k]]
      BY <1>3, <2>2
    <3>3. live'[k] = live[k]
      BY <1>2, <2>2
    <3>4. WireQueue'[k] = Wire[live'[k]]
      BY <1>4
    <3> QED
      BY <3>1, <3>2, <3>3, <3>4
  <2> QED
    BY <1>2, <2>1, <2>2
<1>8. WireQueue' = q
  BY <1>4, <1>6, <1>7, SeqEqual
<1> QED
  BY <1>8 DEF q

LEMMA GetRemovesFrame ==
  ASSUME live \in Seq(Msg), live # <<>>, live' = Tail(live)
  PROVE  /\ WireQueue # <<>>
         /\ Head(WireQueue) = Wire[live[1]]
         /\ WireQueue' = Tail(WireQueue)
<1> DEFINE n == Len(live)
<1>1. /\ live' \in Seq(Msg)
      /\ Len(live') = n - 1
      /\ \A k \in 1 .. (n - 1) : live'[k] = live[k + 1]
      /\ n \in Nat
      /\ n >= 1
  BY HeadTailProperties
<1>2. /\ WireQueue \in Seq(Seq(Byte))
      /\ Len(WireQueue) = n
      /\ \A k \in 1 .. n : WireQueue[k] = Wire[live[k]]
  BY WireQueueShape
<1>3. /\ WireQueue' \in Seq(Seq(Byte))
      /\ Len(WireQueue') = n - 1
      /\ \A k \in 1 .. (n - 1) : WireQueue'[k] = Wire[live'[k]]
  <2>1. Len(live') \in Nat
    BY <1>1
  <2>2. WireQueue' \in [1 .. Len(live') -> Seq(Byte)]
    BY <1>1, <2>1, WireAssumption DEF WireQueue
  <2>3. WireQueue' \in Seq(Seq(Byte)) /\ Len(WireQueue') = Len(live')
    BY <2>1, <2>2, ArrayIsSeq
  <2>4. \A k \in 1 .. Len(live') : WireQueue'[k] = Wire[live'[k]]
    BY DEF WireQueue
  <2> QED
    BY <1>1, <2>3, <2>4
<1>4. WireQueue # <<>>
  BY <1>1, <1>2
<1> DEFINE q == Tail(WireQueue)
<1>5. /\ q \in Seq(Seq(Byte))
      /\ Len(q) = n - 1
      /\ \A k \in 1 .. (n - 1) : q[k] = WireQueue[k + 1]
  BY <1>2, <1>4, HeadTailProperties
<1>6. Head(WireQueue) = Wire[live[1]]
  BY <1>1, <1>2, <1>4
<1> HIDE DEF q, n
<1>7. ASSUME NEW k \in 1 .. (n - 1)
      PROVE  WireQueue'[k] = q[k]
  <2>1. k + 1 \in 1 .. n
    BY <1>1
  <2>2. q[k] = WireQueue[k + 1]
    BY <1>5
  <2>3. WireQueue[k + 1] = Wire[live[k + 1]]
    BY <1>2, <2>1
  <2>4. live'[k] = live[k + 1]
    BY <1>1
  <2>5. WireQueue'[k] = Wire[live'[k]]
    BY <1>3
  <2> QED
    BY <2>2, <2>3, <2>4, <2>5
<1>8. WireQueue' = q
  BY <1>3, <1>5, <1>7, SeqEqual
<1> QED
  BY <1>4, <1>6, <1>8 DEF q

LEMMA EmptyWireQueue ==
  ASSUME live = <<>>
  PROVE  WireQueue = <<>>
<1>1. live \in Seq(Msg) /\ Len(live) = 0
  OBVIOUS
<1> QED
  BY <1>1, WireQueueShape

-----------------------------------------------------------------------------
Wanted == IF phase = "idle" THEN <<>> ELSE Wire[pushing]
Taken == IF out = <<>> THEN <<>> ELSE FrameIn(out)

LEMMA TryPutsImplements ==
  ASSUME IInv, NEW m \in Msg, TryPuts(m),
         \/ phase = "idle"
         \/ phase = "retry" /\ m = pushing
  PROVE  Fifo!Next \/ UNCHANGED <<WireQueue, Wanted, Taken>>
<1>1. live \in Seq(Msg)
  BY DEF IInv, TypeOK
<1>2. Taken' = Taken
  BY DEF TryPuts, Taken, FrameIn, LastBegin
<1>3. Wanted \in {<<>>, Wire[m]}
  BY DEF Wanted
<1>4. CASE PutsOK(m)
  <2>1. live' = Append(live, m) /\ phase' = "idle"
    BY <1>4 DEF TryPuts, QUEUE_Puts
  <2>2. WireQueue' = Append(WireQueue, Wire[m])
    BY <1>1, <2>1, PutAppendsFrame
  <2>3. Wanted' = <<>>
    BY <2>1 DEF Wanted
  <2>4. Fifo!Accept(Wire[m])
    BY <1>2, <1>3, <2>2, <2>3 DEF Fifo!Accept, Wanted, Taken
  <2> QED
    BY <2>4 DEF Fifo!Next
<1>5. CASE ~PutsOK(m)
  <2>1. live' = live /\ phase' = "evict" /\ pushing' = m
    BY <1>5 DEF TryPuts, QUEUE_Puts
  <2>2. WireQueue' = WireQueue
    BY <2>1 DEF WireQueue
  <2>3. Wanted' = Wire[m]
    BY <2>1 DEF Wanted
  <2>4. CASE phase = "idle"
    <3>1. Fifo!MakeRoom(Wire[m])
      BY <1>2, <2>2, <2>3, <2>4 DEF Fifo!MakeRoom, Wanted, Taken
    <3> QED
      BY <3>1 DEF Fifo!Next
  <2>5. CASE phase = "retry" /\ m = pushing
    BY <1>2, <2>2, <2>3, <2>5 DEF Wanted
  <2> QED
    BY <2>4, <2>5
<1> QED
  BY <1>4, <1>5

LEMMA EvictImplements ==
  ASSUME IInv, Evict
  PROVE  Fifo!Next \/ UNCHANGED <<WireQueue, Wanted, Taken>>
<1>1. live \in Seq(Msg)
  BY DEF IInv, TypeOK
<1>2. Taken' = Taken
  BY DEF Evict, Taken, FrameIn, LastBegin
<1>3. pushing \in Msg /\ phase = "evict"
  BY DEF IInv, TypeOK, Evict
<1>4. Wanted = Wire[pushing] /\ Wanted # <<>>
  BY <1>3, WireShape DEF Wanted
<1>5. /\ HasFrame => live # <<>> /\ live' = Tail(live)
      /\ ~HasFrame => live = <<>> /\ live' = <<>>
  BY GetsKeeps DEF Evict
<1>6. CASE HasFrame
  <2>1. WireQueue # <<>> /\ WireQueue' = Tail(WireQueue)
    BY <1>1, <1>5, <1>6, GetRemovesFrame
  <2>2. Wanted' = Wanted
    BY <1>3, <1>6 DEF Evict, Wanted
  <2>3. Fifo!DropOldest
    BY <1>2, <1>4, <2>1, <2>2 DEF Fifo!DropOldest, Wanted, Taken
  <2> QED
    BY <2>3 DEF Fifo!Next
<1>7. CASE ~HasFrame
  <2>1. WireQueue = <<>> /\ WireQueue' = WireQueue
    <3>1. live = <<>> /\ live' = live
      BY <1>5, <1>7
    <3> QED
      BY <3>1, EmptyWireQueue DEF WireQueue
  <2>2. Wanted' = <<>>
    BY <1>7 DEF Evict, Wanted
  <2>3. Fifo!Refuse
    BY <1>2, <1>4, <2>1, <2>2 DEF Fifo!Refuse, Wanted, Taken
  <2> QED
    BY <2>3 DEF Fifo!Next
<1> QED
  BY <1>6, <1>7

LEMMA ReplyImplements ==
  ASSUME IInv, NEW m \in Msg, Reply(m)
  PROVE  Fifo!Next \/ UNCHANGED <<WireQueue, Wanted, Taken>>
<1>1. live \in Seq(Msg)
  BY DEF IInv, TypeOK
<1>2. Taken' = Taken /\ Wanted' = Wanted /\ Wanted = <<>>
  BY DEF Reply, Taken, FrameIn, LastBegin, Wanted
<1>3. CASE PutsOK(m)
  <2>1. WireQueue' = Append(WireQueue, Wire[m])
    BY <1>1, <1>3, PutAppendsFrame DEF Reply, QUEUE_Puts
  <2>2. Fifo!Accept(Wire[m])
    BY <1>2, <2>1 DEF Fifo!Accept, Wanted, Taken
  <2> QED
    BY <2>2 DEF Fifo!Next
<1>4. CASE ~PutsOK(m)
  BY <1>2, <1>4 DEF Reply, QUEUE_Puts, WireQueue
<1> QED
  BY <1>3, <1>4

LEMMA SendImplements ==
  ASSUME IInv, SendNext
  PROVE  Fifo!Next \/ UNCHANGED <<WireQueue, Wanted, Taken>>
<1>1. live \in Seq(Msg)
  BY DEF IInv, TypeOK
<1>2. Wanted' = Wanted /\ Wanted = <<>>
  BY DEF SendNext, Wanted
<1>3. /\ HasFrame => /\ FirstEnd \in 1 .. Len(ring)
                     /\ live # <<>> /\ live' = Tail(live)
      /\ ~HasFrame => live = <<>> /\ live' = <<>>
  BY GetsKeeps DEF SendNext
<1>4. CASE HasFrame
  <2>1. /\ WireQueue # <<>>
        /\ Head(WireQueue) = Wire[live[1]]
        /\ WireQueue' = Tail(WireQueue)
    BY <1>1, <1>3, <1>4, GetRemovesFrame
  <2>2. out' = SubSeq(ring, 1, FirstEnd)
    BY <1>4 DEF SendNext
  <2>3. out' # <<>>
    <3>1. ring \in Seq(Byte) /\ Len(ring) \in Nat
      BY DEF IInv, TypeOK
    <3>2. \A i \in 1 .. FirstEnd : ring[i] \in Byte
      BY <1>3, <1>4, <3>1, ElementOfSeq
    <3>3. 1 <= FirstEnd /\ FirstEnd \in Int
      BY <1>3, <1>4
    <3>4. Len(out') = FirstEnd - 1 + 1
      BY <2>2, <3>2, <3>3, SubSeqProperties
    <3> QED
      BY <3>3, <3>4
  <2>4. FrameIn(out') = Wire[live[1]]
    BY <1>4, <2>2, OldestIsWhole
  <2>5. Taken' = Head(WireQueue)
    BY <2>1, <2>3, <2>4 DEF Taken, FrameIn, LastBegin
  <2>6. Fifo!Take
    BY <1>2, <2>1, <2>5 DEF Fifo!Take, Wanted, Taken
  <2> QED
    BY <2>6 DEF Fifo!Next
<1>5. CASE ~HasFrame
  <2>1. live' = live
    BY <1>3, <1>5
  <2>2. out' = out
    BY <1>5 DEF SendNext
  <2> QED
    BY <1>2, <2>1, <2>2 DEF WireQueue, Taken, FrameIn, LastBegin
<1> QED
  BY <1>4, <1>5

LEMMA NextImplementsFifo ==
  ASSUME IInv, [Next]_vars
  PROVE  [Fifo!Next]_<<WireQueue, Wanted, Taken>>
<1>1. ASSUME NEW m \in Msg, MQTT_Publish(m)
      PROVE  Fifo!Next \/ UNCHANGED <<WireQueue, Wanted, Taken>>
  BY <1>1, TryPutsImplements DEF MQTT_Publish
<1>2. CASE Retry
  <2>1. phase = "retry" /\ pushing \in Msg /\ TryPuts(pushing)
    BY <1>2 DEF Retry, IInv, TypeOK
  <2> QED
    BY <2>1, TryPutsImplements
<1>3. CASE UNCHANGED vars
  BY <1>3 DEF vars, WireQueue, Wanted, Taken, FrameIn, LastBegin
<1> QED
  BY <1>1, <1>2, <1>3, EvictImplements, ReplyImplements, SendImplements DEF Next

(* queue.c with its users in mqtt.c implements a FIFO of whole messages    *)
(* that loses only the oldest ones, for lack of room.                      *)
THEOREM QueueImplementsFifo == Spec => ImplementsFifo
<1>1. Init => Fifo!Init
  BY EmptyWireQueue DEF Init, Fifo!Init
<1>2. IInv /\ [Next]_vars => [Fifo!Next]_<<WireQueue, Wanted, Taken>>
  BY NextImplementsFifo
<1> QED
  BY <1>1, <1>2, QueueInvariant, PTL
     DEF Spec, ImplementsFifo, Fifo!Spec, Wanted, Taken

-----------------------------------------------------------------------------
LEMMA FlipBit5Byte ==
  ASSUME NEW v \in Byte
  PROVE  FlipBit5(v) \in Byte
<1>1. CASE (v \div 32) % 2 = 1
  <2>1. v >= 32
    BY <1>1 DEF Byte
  <2> QED
    BY <1>1, <2>1 DEF Byte, FlipBit5
<1>2. CASE (v \div 32) % 2 # 1
  <2>1. v \in 0 .. 31 \/ v \in 64 .. 95 \/ v \in 128 .. 159 \/ v \in 192 .. 223
    BY <1>2 DEF Byte
  <2> QED
    BY <1>2, <2>1 DEF Byte, FlipBit5
<1> QED
  BY <1>1, <1>2

(* Escaped, a byte is one or two that are no markers.                      *)
EscapedAs(e, v) ==
  \/ /\ v \notin {Escape, FrameBegin, FrameEnd}
     /\ Len(e) = 1
     /\ e[1] = v
  \/ /\ Len(e) = 2
     /\ e[1] = Escape
     /\ e[2] \notin {Escape, FrameBegin, FrameEnd}
     /\ FlipBit5(e[2]) = v

LEMMA EscapedShape ==
  ASSUME NEW v \in Byte
  PROVE  EscapeByte(v) \in Seq(Byte) /\ EscapedAs(EscapeByte(v), v)
<1> USE DEF EscapedAs
<1>1. CASE v \notin {Escape, FrameBegin, FrameEnd}
  <2>1. EscapeByte(v) = <<v>>
    BY <1>1 DEF EscapeByte
  <2> QED
    BY <1>1, <2>1
<1>2. CASE v \in {Escape, FrameBegin, FrameEnd}
  <2> DEFINE u == FlipBit5(v)
  <2>1. EscapeByte(v) = <<Escape, u>>
    BY <1>2 DEF EscapeByte
  <2>2. v \in {125, 126, 127}
    BY <1>2 DEF Escape, FrameBegin, FrameEnd
  <2>3. (v \div 32) % 2 = 1
    BY <2>2
  <2>4. u = v - 32
    BY <2>3 DEF FlipBit5
  <2>5. u \in {93, 94, 95}
    BY <2>2, <2>4
  <2>6. (u \div 32) % 2 = 0
    BY <2>5
  <2>7. FlipBit5(u) = v
    BY <2>2, <2>4, <2>6 DEF FlipBit5
  <2>8. u \notin {Escape, FrameBegin, FrameEnd} /\ u \in Byte /\ Escape \in Byte
    BY <2>5 DEF Escape, FrameBegin, FrameEnd, Byte
  <2> HIDE DEF u
  <2>9. /\ <<Escape, u>> \in Seq(Byte) /\ Len(<<Escape, u>>) = 2
        /\ <<Escape, u>>[1] = Escape /\ <<Escape, u>>[2] = u
    BY <2>8
  <2> QED
    BY <2>1, <2>7, <2>8, <2>9
<1> QED
  BY <1>1, <1>2
-----------------------------------------------------------------------------
(* The bytes of a packet, escaped one after the other: f[k] are those of   *)
(* its first k.                                                            *)
Escaped(f, p, body) ==
  /\ f \in [0 .. Len(p) -> Seq(Byte)]
  /\ f[0] = <<>>
  /\ \A k \in 1 .. Len(p) : f[k] = f[k - 1] \o EscapeByte(p[k])
  /\ body = f[Len(p)]

LEMMA FrameIsEscaped ==
  ASSUME NEW p \in Seq(Byte)
  PROVE  \E f, body : /\ Escaped(f, p, body)
                      /\ PROTO_AddRb(p) = <<FrameBegin>> \o body \o <<FrameEnd>>
<1> DEFINE n == Len(p)
           seqs == [i \in 1 .. n |-> EscapeByte(p[i])]
<1>1. n \in Nat /\ \A i \in 1 .. n : p[i] \in Byte
  OBVIOUS
<1>2. seqs \in [1 .. n -> Seq(Byte)]
  BY <1>1, EscapedShape
<1>3. \A k \in 1 .. n : seqs[k] = EscapeByte(p[k])
  OBVIOUS
<1>4. PROTO_AddRb(p) = <<FrameBegin>> \o FlattenSeq(seqs) \o <<FrameEnd>>
  BY DEF PROTO_AddRb
<1> HIDE DEF seqs
<1>5. Flattened(seqs, n, Byte)
  BY <1>1, <1>2, FlattenedIs
<1>6. PICK f \in [0 .. n -> Seq(Byte)] :
        Flattening(f, seqs, n) /\ FlattenSeq(seqs) = f[n]
  BY <1>5 DEF Flattened
<1>7. Escaped(f, p, FlattenSeq(seqs))
  BY <1>3, <1>6 DEF Flattening, Escaped
<1> QED
  BY <1>4, <1>7

(* Every stretch of f lies in the body where it was put, and no byte of    *)
(* the body is a marker.                                                   *)
(* One sequence after another.                                             *)
Joined(s, t, both) ==
  /\ Len(s) \in Nat /\ Len(t) \in Nat /\ Len(both) \in Nat
  /\ Len(both) = Len(s) + Len(t) /\ Len(s) <= Len(both)
  /\ \A i \in 1 .. Len(s) : i \in 1 .. Len(both) /\ both[i] = s[i]
  /\ \A j \in 1 .. Len(t) :
       Len(s) + j \in 1 .. Len(both) /\ both[Len(s) + j] = t[j]
  /\ \A i \in 1 .. Len(both) :
       i \notin 1 .. Len(s) =>
         \E j \in 1 .. Len(t) : i = Len(s) + j /\ both[i] = t[j]

LEMMA Joining ==
  ASSUME NEW S, NEW s \in Seq(S), NEW t \in Seq(S)
  PROVE  Joined(s, t, s \o t)
<1>1. /\ Len(s) \in Nat /\ Len(t) \in Nat /\ Len(s \o t) \in Nat
      /\ Len(s \o t) = Len(s) + Len(t) /\ Len(s) <= Len(s \o t)
      /\ \A i \in 1 .. Len(s) : (s \o t)[i] = s[i]
      /\ \A j \in 1 .. Len(t) : (s \o t)[Len(s) + j] = t[j]
  OBVIOUS
<1>2. /\ \A i \in 1 .. Len(s) : i \in 1 .. Len(s \o t)
      /\ \A j \in 1 .. Len(t) : Len(s) + j \in 1 .. Len(s \o t)
  BY <1>1
<1>3. ASSUME NEW i \in 1 .. Len(s \o t), i \notin 1 .. Len(s)
      PROVE  \E j \in 1 .. Len(t) : i = Len(s) + j /\ (s \o t)[i] = t[j]
  <2>1. i - Len(s) \in 1 .. Len(t) /\ i = Len(s) + (i - Len(s))
    BY <1>1, <1>3
  <2> QED
    BY <1>1, <2>1
<1> QED
  BY <1>1, <1>2, <1>3 DEF Joined

LEMMA EscapedGrows ==
  ASSUME NEW p \in Seq(Byte), NEW f, NEW body, Escaped(f, p, body),
         NEW k \in 1 .. Len(p)
  PROVE  /\ f[k] \in Seq(Byte) /\ f[k - 1] \in Seq(Byte)
         /\ EscapeByte(p[k]) \in Seq(Byte)
         /\ Joined(f[k - 1], EscapeByte(p[k]), f[k])
<1>1. /\ f[k] \in Seq(Byte) /\ f[k - 1] \in Seq(Byte)
      /\ f[k] = f[k - 1] \o EscapeByte(p[k])
  BY SMTT(60) DEF Escaped
<1>2. p[k] \in Byte
  OBVIOUS
<1>3. EscapeByte(p[k]) \in Seq(Byte)
  BY <1>2, EscapedShape
<1>4. Joined(f[k - 1], EscapeByte(p[k]), f[k - 1] \o EscapeByte(p[k]))
  BY <1>1, <1>3, Joining
<1> QED
  BY <1>1, <1>3, <1>4

LEMMA EscapedInBody ==
  ASSUME NEW p \in Seq(Byte), NEW f, NEW body, Escaped(f, p, body)
  PROVE  \A k \in 0 .. Len(p) :
           /\ f[k] \in Seq(Byte)
           /\ Len(f[k]) <= Len(body)
           /\ \A i \in 1 .. Len(f[k]) : body[i] = f[k][i]
<1> DEFINE n == Len(p)
           Lies(k) == /\ f[k] \in Seq(Byte)
                      /\ Len(f[k]) <= Len(body)
                      /\ \A i \in 1 .. Len(f[k]) : body[i] = f[k][i]
           S == {k \in 0 .. n : Lies(k)}
<1>1. n \in Nat
  OBVIOUS
<1>2. Lies(n)
  BY <1>1 DEF Escaped
<1>3. n \in S
  BY <1>1, <1>2
<1>4. ASSUME NEW k \in 1 .. n, k \in S
      PROVE  k - 1 \in S
  <2>1. Lies(k)
    BY <1>4
  <2>2. /\ f[k] \in Seq(Byte) /\ f[k - 1] \in Seq(Byte)
        /\ Joined(f[k - 1], EscapeByte(p[k]), f[k])
    BY EscapedGrows
  <2>3. Len(body) \in Nat
    BY <1>1 DEF Escaped
  <2>4. /\ Len(f[k - 1]) \in Nat /\ Len(f[k]) \in Nat
        /\ Len(f[k - 1]) <= Len(f[k])
        /\ \A i \in 1 .. Len(f[k - 1]) :
             i \in 1 .. Len(f[k]) /\ f[k][i] = f[k - 1][i]
    BY <2>2 DEF Joined
  <2>5. \A i \in 1 .. Len(f[k - 1]) : body[i] = f[k - 1][i]
    BY <2>1, <2>4
  <2>6. Len(f[k - 1]) <= Len(body)
    <3>1. Len(f[k]) <= Len(body)
      BY <2>1
    <3> HIDE DEF Lies
    <3> QED
      BY <2>3, <2>4, <3>1
  <2>7. Lies(k - 1)
    BY <2>2, <2>5, <2>6
  <2> QED
    BY <2>7
<1> HIDE DEF S
<1>5. \A k \in 0 .. n : k \in S
  BY <1>1, <1>3, <1>4, InductionDown
<1> QED
  BY <1>5 DEF S

(* Where the k-th byte of the packet lies in the body, escaped.            *)
LiesAt(e, from, to, body) ==
  /\ from \in Nat /\ to \in Nat /\ Len(e) \in {1, 2}
  /\ to = from + Len(e)
  /\ \A j \in 1 .. Len(e) : from + j \in 1 .. Len(body) /\ body[from + j] = e[j]

LEMMA EscapedAt ==
  ASSUME NEW p \in Seq(Byte), NEW f, NEW body, Escaped(f, p, body),
         NEW k \in 1 .. Len(p)
  PROVE  LiesAt(EscapeByte(p[k]), Len(f[k - 1]), Len(f[k]), body)
<1>1. /\ f[k - 1] \in Seq(Byte)
      /\ EscapeByte(p[k]) \in Seq(Byte)
      /\ Joined(f[k - 1], EscapeByte(p[k]), f[k])
  BY EscapedGrows
<1>2. /\ Len(f[k]) <= Len(body)
      /\ \A i \in 1 .. Len(f[k]) : body[i] = f[k][i]
  BY EscapedInBody
<1>3. Len(EscapeByte(p[k])) \in {1, 2}
  <2>1. p[k] \in Byte
    OBVIOUS
  <2> QED
    BY <2>1, EscapedShape DEF EscapedAs
<1>4. /\ Len(f[k - 1]) \in Nat /\ Len(f[k]) \in Nat
      /\ Len(f[k]) = Len(f[k - 1]) + Len(EscapeByte(p[k]))
      /\ \A j \in 1 .. Len(EscapeByte(p[k])) :
           /\ Len(f[k - 1]) + j \in 1 .. Len(f[k])
           /\ f[k][Len(f[k - 1]) + j] = EscapeByte(p[k])[j]
  BY <1>1 DEF Joined
<1>5. \A i \in 1 .. Len(f[k]) : i \in 1 .. Len(body)
  <2>1. Len(body) \in Nat
    BY DEF Escaped
  <2>2. Len(f[k]) <= Len(body) /\ Len(f[k]) \in Nat
    BY <1>2, <1>4
  <2> QED
    BY <2>1, <2>2
<1>6. ASSUME NEW j \in 1 .. Len(EscapeByte(p[k]))
      PROVE  /\ Len(f[k - 1]) + j \in 1 .. Len(body)
             /\ body[Len(f[k - 1]) + j] = EscapeByte(p[k])[j]
  BY <1>2, <1>4, <1>5
<1> QED
  BY <1>3, <1>4, <1>6 DEF LiesAt

LEMMA BodyHasNoMarkers ==
  ASSUME NEW p \in Seq(Byte), NEW f, NEW body, Escaped(f, p, body)
  PROVE  /\ body \in Seq(Byte)
         /\ \A i \in 1 .. Len(body) : body[i] \notin {FrameBegin, FrameEnd}
<1> DEFINE n == Len(p)
           Clean(k) == \A i \in 1 .. Len(f[k]) : f[k][i] \notin {FrameBegin, FrameEnd}
           S == {k \in 0 .. n : Clean(k)}
<1>1. n \in Nat /\ body = f[n] /\ f[n] \in Seq(Byte) /\ f[0] = <<>>
  BY DEF Escaped
<1>2. 0 \in S
  BY <1>1
<1>3. ASSUME NEW k \in 1 .. n, k - 1 \in S
      PROVE  k \in S
  <2>1. Clean(k - 1)
    BY <1>3
  <2>2. /\ f[k - 1] \in Seq(Byte)
        /\ EscapeByte(p[k]) \in Seq(Byte)
        /\ Joined(f[k - 1], EscapeByte(p[k]), f[k])
    BY EscapedGrows
  <2>3. p[k] \in Byte /\ Escape \notin {FrameBegin, FrameEnd}
    BY DEF Escape, FrameBegin, FrameEnd
  <2>4. \A j \in 1 .. Len(EscapeByte(p[k])) :
          EscapeByte(p[k])[j] \notin {FrameBegin, FrameEnd}
    <3>1. EscapedAs(EscapeByte(p[k]), p[k])
      BY <2>3, EscapedShape
    <3> QED
      BY <2>3, <3>1 DEF EscapedAs
  <2>5. ASSUME NEW i \in 1 .. Len(f[k])
        PROVE  f[k][i] \notin {FrameBegin, FrameEnd}
    <3>1. CASE i \in 1 .. Len(f[k - 1])
      BY <2>1, <2>2, <3>1 DEF Joined
    <3>2. CASE i \notin 1 .. Len(f[k - 1])
      BY <2>2, <2>4, <3>2 DEF Joined
    <3> QED
      BY <3>1, <3>2
  <2>6. Clean(k)
    BY <2>5
  <2> QED
    BY <2>6
<1> HIDE DEF S
<1>4. \A k \in 0 .. n : k \in S
  BY <1>1, <1>2, <1>3, InductionTo
<1> QED
  BY <1>1, <1>4 DEF S

(* A frame is a body between its two markers.                              *)
Framed(w, body) ==
  /\ w \in Seq(Byte) /\ Len(body) \in Nat
  /\ Len(w) = Len(body) + 2
  /\ w[1] = FrameBegin /\ w[Len(body) + 2] = FrameEnd
  /\ \A i \in 1 .. Len(body) : w[i + 1] = body[i]

LEMMA FrameIsFramed ==
  ASSUME NEW body \in Seq(Byte)
  PROVE  Framed(<<FrameBegin>> \o body \o <<FrameEnd>>, body)
<1> DEFINE b == <<FrameBegin>>
           e == <<FrameEnd>>
           s == b \o body
<1>1. /\ b \in Seq(Byte) /\ Len(b) = 1 /\ b[1] = FrameBegin
      /\ e \in Seq(Byte) /\ Len(e) = 1 /\ e[1] = FrameEnd
  BY DEF FrameBegin, FrameEnd, Byte
<1> HIDE DEF b, e
<1>2. s \in Seq(Byte) /\ Joined(b, body, s)
  BY <1>1, Joining
<1>3. /\ Len(body) \in Nat /\ Len(s) = 1 + Len(body)
      /\ s[1] = FrameBegin /\ 1 \in 1 .. Len(s)
      /\ \A j \in 1 .. Len(body) : s[1 + j] = body[j] /\ 1 + j \in 1 .. Len(s)
  BY <1>1, <1>2 DEF Joined
<1> HIDE DEF s
<1>4. s \o e \in Seq(Byte) /\ Joined(s, e, s \o e)
  BY <1>1, <1>2, Joining
<1>5. /\ Len(s \o e) = Len(s) + 1
      /\ \A i \in 1 .. Len(s) : (s \o e)[i] = s[i]
      /\ (s \o e)[Len(s) + 1] = FrameEnd
  BY <1>1, <1>4 DEF Joined
<1>6. Len(s) + 1 = Len(body) + 2
  BY <1>3
<1>7. \A i \in 1 .. Len(body) : i + 1 = 1 + i /\ (s \o e)[i + 1] = body[i]
  BY <1>3, <1>5
<1>8. Framed(s \o e, body)
  BY <1>3, <1>4, <1>5, <1>6, <1>7 DEF Framed
<1> QED
  BY <1>8 DEF s, b, e

(* What PROTO_AddRb puts for any packet is a frame as the queue takes it:  *)
(* the two markers are at its ends and nowhere else (proto.c lines         *)
(* 105-130).                                                               *)
IsFrame(w) ==
  /\ w \in Seq(Byte)
  /\ Len(w) >= 2
  /\ w[1] = Begin
  /\ w[Len(w)] = End
  /\ \A i \in 2 .. (Len(w) - 1) : w[i] \notin {Begin, End}

THEOREM PacketsAreFramed ==
  ASSUME NEW p \in Seq(Byte)
  PROVE  IsFrame(PROTO_AddRb(p))
<1> DEFINE w == PROTO_AddRb(p)
<1>1. PICK f, body : Escaped(f, p, body)
                      /\ w = <<FrameBegin>> \o body \o <<FrameEnd>>
  BY FrameIsEscaped
<1> HIDE DEF w
<1>2. /\ body \in Seq(Byte)
      /\ \A i \in 1 .. Len(body) : body[i] \notin {FrameBegin, FrameEnd}
  BY <1>1, BodyHasNoMarkers
<1>3. Framed(w, body)
  BY <1>1, <1>2, FrameIsFramed
<1>4. Begin = FrameBegin /\ End = FrameEnd
  BY DEF Begin, End, FrameBegin, FrameEnd
<1>5. ASSUME NEW i \in 2 .. (Len(w) - 1)
      PROVE  w[i] \notin {Begin, End}
  <2>1. PICK j \in 1 .. Len(body) : i = j + 1
    <3>1. i - 1 \in 1 .. Len(body) /\ i = (i - 1) + 1
      BY <1>3 DEF Framed
    <3> QED
      BY <3>1
  <2> QED
    BY <1>2, <1>3, <1>4, <2>1 DEF Framed
<1>6. w \in Seq(Byte) /\ Len(w) >= 2 /\ w[1] = Begin /\ w[Len(w)] = End
  BY <1>3, <1>4 DEF Framed
<1>7. IsFrame(w)
  BY <1>5, <1>6 DEF IsFrame
<1> QED
  BY <1>7 DEF w
-----------------------------------------------------------------------------
(* The states of a parser, and the ones it passes through reading bytes.   *)
Parsers == [buf : Seq(Byte), isBegin : BOOLEAN, isEsc : BOOLEAN]

LEMMA ParserByte ==
  ASSUME NEW q \in Parsers, NEW v \in Byte, NEW size
  PROVE  PROTO_ParseByte(q, v, size) \in Parsers
<1>1. /\ q.buf \in Seq(Byte) /\ q.isBegin \in BOOLEAN /\ q.isEsc \in BOOLEAN
      /\ q = [buf |-> q.buf, isBegin |-> q.isBegin, isEsc |-> q.isEsc]
  BY DEF Parsers
<1>2. FlipBit5(v) \in Byte
  BY FlipBit5Byte
<1> DEFINE x == IF q.isEsc THEN FlipBit5(v) ELSE v
           kept == IF Len(q.buf) < size THEN Append(q.buf, x) ELSE q.buf
<1>3. kept \in Seq(Byte)
  BY <1>1, <1>2
<1> HIDE DEF x, kept
<1>4. CASE v = Escape
  <2>1. PROTO_ParseByte(q, v, size) = [q EXCEPT !.isEsc = TRUE]
    BY <1>4 DEF PROTO_ParseByte, Escape, FrameBegin, FrameEnd
  <2> QED
    BY <1>1, <2>1 DEF Parsers
<1>5. CASE v = FrameBegin
  BY <1>5 DEF PROTO_ParseByte, Parsers, Escape, FrameBegin, FrameEnd
<1>6. CASE v = FrameEnd
  <2>1. PROTO_ParseByte(q, v, size) = [q EXCEPT !.isBegin = FALSE]
    BY <1>6 DEF PROTO_ParseByte, Escape, FrameBegin, FrameEnd
  <2> QED
    BY <1>1, <2>1 DEF Parsers
<1>7. CASE v \notin {Escape, FrameBegin, FrameEnd}
  <2>1. CASE ~q.isBegin
    BY <1>7, <2>1 DEF PROTO_ParseByte
  <2>2. CASE q.isBegin
    <3>1. PROTO_ParseByte(q, v, size)
            = [q EXCEPT !.isEsc = FALSE, !.buf = kept]
      BY <1>7, <2>2, Zenon DEF PROTO_ParseByte, kept, x
    <3> QED
      BY <1>1, <1>3, <3>1 DEF Parsers
  <2> QED
    BY <2>1, <2>2
<1> QED
  BY <1>4, <1>5, <1>6, <1>7

ParseTrace(c, bytes, begin, size) ==
  /\ c \in [0 .. Len(bytes) -> Parsers]
  /\ c[0] = PROTO_Init(begin)
  /\ \A k \in 1 .. Len(bytes) : c[k] = PROTO_ParseByte(c[k - 1], bytes[k], size)

LEMMA ParseTraceOf ==
  ASSUME NEW bytes \in Seq(Byte), NEW begin \in BOOLEAN, NEW size
  PROVE  \E c : /\ ParseTrace(c, bytes, begin, size)
                /\ PROTO_ParseRb(bytes, begin, size) = c[Len(bytes)].buf
<1> DEFINE n == Len(bytes)
           base == PROTO_Init(begin)
           step == [x \in Parsers \X (1 .. n) |->
                      PROTO_ParseByte(x[1], bytes[x[2]], size)]
           Obeys(iter) == iter = [T \in SUBSET (1 .. n) |->
              IF T = {} THEN base
              ELSE PROTO_ParseByte(iter[T \ {Max(T)}], bytes[Max(T)], size)]
           found == CHOOSE iter : Obeys(iter)
<1>0. n \in Nat /\ DOMAIN bytes = 1 .. n /\ \A k \in 1 .. n : bytes[k] \in Byte
  OBVIOUS
<1>1. step \in [Parsers \X (1 .. n) -> Parsers]
  BY <1>0, ParserByte
<1>2. base \in Parsers
  BY DEF PROTO_Init, Parsers
<1>4. PROTO_ParseRb(bytes, begin, size) = found[1 .. n].buf
  BY <1>0, Zenon DEF PROTO_ParseRb, FoldLeft, MapThenFoldSet
<1>5. \A v \in Parsers, k \in 1 .. n :
        step[<<v, k>>] = PROTO_ParseByte(v, bytes[k], size)
  OBVIOUS
<1> HIDE DEF step, base, n
<1>6. PICK it \in [SUBSET (1 .. n) -> Parsers] :
        it = [T \in SUBSET (1 .. n) |->
               IF T = {} THEN base ELSE step[<<it[T \ {Max(T)}], Max(T)>>]]
  <2>1. HasLeftFold(n, Parsers, base, step)
    BY <1>0, <1>1, <1>2, FoldLeftExists
  <2> QED
    BY <2>1 DEF HasLeftFold
<1>7. Obeys(it)
  <2>1. ASSUME NEW T \in SUBSET (1 .. n), T # {}
        PROVE  step[<<it[T \ {Max(T)}], Max(T)>>]
                 = PROTO_ParseByte(it[T \ {Max(T)}], bytes[Max(T)], size)
    <3>1. Max(T) \in 1 .. n /\ it[T \ {Max(T)}] \in Parsers
      BY <1>0, <2>1, LargestIn
    <3> QED
      BY <1>5, <3>1
  <2>2. \A T \in SUBSET (1 .. n) :
          (IF T = {} THEN base ELSE step[<<it[T \ {Max(T)}], Max(T)>>])
            = IF T = {} THEN base
              ELSE PROTO_ParseByte(it[T \ {Max(T)}], bytes[Max(T)], size)
    BY <2>1, Zenon
  <2> QED
    BY <1>6, <2>2, Zenon
<1>8. Obeys(found)
  BY <1>7, Zenon
<1> HIDE DEF found
<1>9. found[{}] = base
  BY <1>0, <1>8, Ends
<1>10. ASSUME NEW T \in SUBSET (1 .. n), T # {}, found[T \ {Max(T)}] \in Parsers
       PROVE  found[T] = step[<<found[T \ {Max(T)}], Max(T)>>]
  <2>1. Max(T) \in 1 .. n
    BY <1>0, <1>10, LargestIn
  <2>2. found[T] = PROTO_ParseByte(found[T \ {Max(T)}], bytes[Max(T)], size)
    BY <1>8, <1>10, Zenon
  <2> QED
    BY <1>5, <1>10, <2>1, <2>2
<1>11. PICK c \in [0 .. n -> Parsers] :
         LeftTrace(c, base, step, n) /\ found[1 .. n] = c[n]
  <2>1. FoldsLeft(found, n, Parsers, base, step)
    BY <1>9, <1>10 DEF FoldsLeft
  <2>2. TracedLeft(found, n, Parsers, base, step)
    BY <1>0, <1>1, <1>2, <2>1, LeftTraceOf
  <2> QED
    BY <2>2 DEF TracedLeft
<1>12. \A k \in 1 .. n : c[k] = PROTO_ParseByte(c[k - 1], bytes[k], size)
  <2> SUFFICES ASSUME NEW k \in 1 .. n
               PROVE  c[k] = PROTO_ParseByte(c[k - 1], bytes[k], size)
    OBVIOUS
  <2>1. c[k - 1] \in Parsers
    BY <1>0
  <2> QED
    BY <1>5, <1>11, <2>1 DEF LeftTrace
<1>13. ParseTrace(c, bytes, begin, size)
  BY <1>11, <1>12 DEF ParseTrace, LeftTrace, base, n
<1> QED
  BY <1>4, <1>11, <1>13 DEF n

(* The parser has taken the first k bytes of a packet.                     *)
Holds(q, p, k) ==
  /\ q \in Parsers
  /\ q.isBegin /\ ~q.isEsc
  /\ Len(q.buf) = k
  /\ \A i \in 1 .. k : q.buf[i] = p[i]

LEMMA ParserIs ==
  ASSUME NEW b \in Seq(Byte), NEW begun \in BOOLEAN, NEW esc \in BOOLEAN, NEW r,
         r = [buf |-> b, isBegin |-> begun, isEsc |-> esc]
  PROVE  /\ r \in Parsers
         /\ r.buf = b /\ r.isBegin = begun /\ r.isEsc = esc
<1>1. [buf |-> b, isBegin |-> begun, isEsc |-> esc] \in Parsers
  BY DEF Parsers
<1> QED
  BY <1>1

LEMMA DataByte ==
  ASSUME NEW q \in Parsers, NEW v \in Byte, NEW x \in Byte, NEW size \in Nat,
         q.isBegin, v \notin {Escape, FrameBegin, FrameEnd},
         x = IF q.isEsc THEN FlipBit5(v) ELSE v, Len(q.buf) < size
  PROVE  PROTO_ParseByte(q, v, size)
           = [buf |-> Append(q.buf, x), isBegin |-> TRUE, isEsc |-> FALSE]
<1>1. PROTO_ParseByte(q, v, size)
        = [q EXCEPT !.isEsc = FALSE, !.buf = Append(q.buf, x)]
  BY Zenon DEF PROTO_ParseByte
<1>2. /\ q.isBegin = TRUE
      /\ q = [buf |-> q.buf, isBegin |-> q.isBegin, isEsc |-> q.isEsc]
  BY DEF Parsers
<1> QED
  BY <1>1, <1>2

LEMMA DataTaken ==
  ASSUME NEW p \in Seq(Byte), NEW k \in 1 .. Len(p), NEW q, NEW r,
         Holds(q, p, k - 1),
         r = [buf |-> Append(q.buf, p[k]), isBegin |-> TRUE, isEsc |-> FALSE]
  PROVE  Holds(r, p, k)
<1>1. q.buf \in Seq(Byte) /\ p[k] \in Byte /\ Len(q.buf) = k - 1
  BY DEF Holds, Parsers
<1>2. /\ Append(q.buf, p[k]) \in Seq(Byte)
      /\ Len(Append(q.buf, p[k])) = k
      /\ \A i \in 1 .. (k - 1) : Append(q.buf, p[k])[i] = q.buf[i]
      /\ Append(q.buf, p[k])[k] = p[k]
  BY <1>1, AppendProperties
<1>3. \A i \in 1 .. k : i \in 1 .. (k - 1) \/ i = k
  OBVIOUS
<1>4. \A i \in 1 .. k : Append(q.buf, p[k])[i] = p[i]
  BY <1>2, <1>3 DEF Holds
<1> DEFINE b == Append(q.buf, p[k])
<1> HIDE DEF b
<1>5. r = [buf |-> b, isBegin |-> TRUE, isEsc |-> FALSE] /\ b \in Seq(Byte)
  BY <1>2 DEF b
<1>6. r \in Parsers /\ r.isBegin = TRUE /\ r.isEsc = FALSE /\ r.buf = b
  BY <1>5, ParserIs, ZenonT(60)
<1> QED
  BY <1>2, <1>4, <1>6 DEF Holds, b

(* An escaped byte is taken as the byte it stands for: the parser is where *)
(* c says after the first byte of e and after its last.                    *)
LEMMA EscapedTaken ==
  ASSUME NEW p \in Seq(Byte), NEW k \in 1 .. Len(p),
         NEW size \in Nat, Len(p) <= size,
         NEW e \in Seq(Byte), EscapedAs(e, p[k]),
         NEW q, NEW q1, NEW r, Holds(q, p, k - 1),
         q1 = PROTO_ParseByte(q, e[1], size),
         r = IF Len(e) = 1 THEN q1 ELSE PROTO_ParseByte(q1, e[2], size)
  PROVE  Holds(r, p, k)
<1>1. /\ p[k] \in Byte /\ Len(q.buf) = k - 1 /\ Len(q.buf) < size
      /\ q \in Parsers /\ q.isBegin /\ ~q.isEsc
  BY DEF Holds
<1>2. CASE Len(e) = 1
  <2>1. p[k] \notin {Escape, FrameBegin, FrameEnd} /\ e[1] = p[k] /\ r = q1
    BY <1>2 DEF EscapedAs
  <2>2. r = [buf |-> Append(q.buf, p[k]), isBegin |-> TRUE, isEsc |-> FALSE]
    BY <1>1, <2>1, DataByte
  <2> QED
    BY <2>2, DataTaken
<1>3. CASE Len(e) # 1
  <2>1. /\ Len(e) = 2 /\ e[1] = Escape
        /\ e[2] \notin {Escape, FrameBegin, FrameEnd}
        /\ FlipBit5(e[2]) = p[k] /\ r = PROTO_ParseByte(q1, e[2], size)
    BY <1>3 DEF EscapedAs
  <2>2. e[2] \in Byte
    <3>1. 2 \in 1 .. Len(e)
      BY <2>1
    <3> QED
      BY <3>1
  <2>3. q1 = [q EXCEPT !.isEsc = TRUE]
    <3>1. Escape # FrameBegin /\ Escape # FrameEnd
      BY DEF Escape, FrameBegin, FrameEnd
    <3>2. PROTO_ParseByte(q, Escape, size) = [q EXCEPT !.isEsc = TRUE]
      BY <3>1, Zenon DEF PROTO_ParseByte
    <3> QED
      BY <2>1, <3>2
  <2>4. /\ q.buf \in Seq(Byte) /\ q.isBegin = TRUE
        /\ q = [buf |-> q.buf, isBegin |-> q.isBegin, isEsc |-> q.isEsc]
    BY <1>1 DEF Parsers
  <2>5. q1 = [buf |-> q.buf, isBegin |-> TRUE, isEsc |-> TRUE]
    BY <2>3, <2>4
  <2>6. q1 \in Parsers
    BY <2>4, <2>5, ParserIs
  <2>7. q1.isBegin = TRUE /\ q1.isEsc = TRUE /\ q1.buf = q.buf
    BY <2>4, <2>5, ParserIs
  <2>8. p[k] = IF q1.isEsc THEN FlipBit5(e[2]) ELSE e[2]
    BY <2>1, <2>7, Zenon
  <2>9. Len(q1.buf) < size /\ q1.isBegin
    BY <1>1, <2>7
  <2>10. r = [buf |-> Append(q1.buf, p[k]), isBegin |-> TRUE, isEsc |-> FALSE]
    <3>1. PROTO_ParseByte(q1, e[2], size)
            = [buf |-> Append(q1.buf, p[k]), isBegin |-> TRUE, isEsc |-> FALSE]
      BY <1>1, <2>1, <2>2, <2>6, <2>8, <2>9, DataByte, SMTT(60)
    <3> QED
      BY <2>1, <3>1
  <2>11. r = [buf |-> Append(q.buf, p[k]), isBegin |-> TRUE, isEsc |-> FALSE]
    BY <2>7, <2>10
  <2> QED
    BY <2>11, DataTaken
<1> QED
  BY <1>2, <1>3
-----------------------------------------------------------------------------
(* The positions of a frame of lw bytes, lb between the markers, that      *)
(* starts at s and ends at N.                                              *)
Positions(s, lb, lw, N) ==
  /\ s \in 1 .. N /\ N \in 1 .. N /\ N - 1 = s + lb
  /\ 1 \in 1 .. lw /\ lw \in 1 .. lw
  /\ s + 1 - 1 = s
  /\ \A i \in 1 .. lb : i + 1 \in 1 .. lw /\ s + (i + 1) - 1 = s + i
                         /\ s + i \in 1 .. N

LEMMA FramePositions ==
  ASSUME NEW s \in Nat, s >= 1, NEW lb \in Nat, NEW lw, NEW N,
         lw = lb + 2, N = s + lw - 1
  PROVE  Positions(s, lb, lw, N)
BY DEF Positions

LEMMA NextPositions ==
  ASSUME NEW s \in Nat, NEW a \in Nat
  PROVE  s + (a + 1) - 1 = s + a /\ s + (a + 2) - 1 = s + (a + 1)
OBVIOUS

(* From position s on, the parser reads the bytes of a body.               *)
Reads(c, s, body, size) ==
  \A i \in 1 .. Len(body) :
    c[s + i] = PROTO_ParseByte(c[s + i - 1], body[i], size)

LEMMA EscapedRead ==
  ASSUME NEW p \in Seq(Byte), NEW k \in 1 .. Len(p),
         NEW size \in Nat, Len(p) <= size,
         NEW e \in Seq(Byte), EscapedAs(e, p[k]),
         NEW c, NEW s \in Nat, NEW body, Reads(c, s, body, size),
         NEW a, NEW to, LiesAt(e, a, to, body),
         Holds(c[s + a], p, k - 1)
  PROVE  Holds(c[s + to], p, k)
<1>1. a \in Nat /\ to = a + Len(e) /\ Len(e) \in {1, 2}
  BY DEF LiesAt
<1>2. ASSUME NEW j \in 1 .. Len(e), NEW i, NEW h, i = s + (a + j), h = i - 1
      PROVE  c[i] = PROTO_ParseByte(c[h], e[j], size)
  <2>1. a + j \in 1 .. Len(body) /\ body[a + j] = e[j]
    BY DEF LiesAt
  <2> QED
    BY <1>2, <2>1, SMTT(60) DEF Reads
<1>3. c[s + (a + 1)] = PROTO_ParseByte(c[s + a], e[1], size)
  <2>1. s + a = (s + (a + 1)) - 1
    BY <1>1
  <2>2. 1 \in 1 .. Len(e)
    <3>1. CASE Len(e) = 1
      BY <3>1
    <3>2. CASE Len(e) = 2
      BY <3>2
    <3> QED
      BY <1>1, <3>1, <3>2
  <2> QED
    BY <1>2, <2>1, <2>2
<1>4. CASE Len(e) = 1
  BY <1>1, <1>3, <1>4, EscapedTaken
<1>5. CASE Len(e) = 2
  <2>1. s + (a + 1) = (s + (a + 2)) - 1
    BY <1>1
  <2>2. 2 \in 1 .. Len(e)
    BY <1>5
  <2>3. c[s + (a + 2)] = PROTO_ParseByte(c[s + (a + 1)], e[2], size)
    BY <1>2, <2>1, <2>2
  <2> DEFINE q1 == c[s + (a + 1)]
             r == c[s + (a + 2)]
             q == c[s + a]
  <2>4. q1 = PROTO_ParseByte(q, e[1], size) /\ Holds(q, p, k - 1)
    BY <1>3
  <2>5. r = IF Len(e) = 1 THEN q1 ELSE PROTO_ParseByte(q1, e[2], size)
    BY <1>5, <2>3
  <2> HIDE DEF q1, r, q
  <2>6. Holds(r, p, k)
    BY <2>4, <2>5, EscapedTaken
  <2> QED
    BY <1>1, <1>5, <2>6 DEF r
<1> QED
  BY <1>1, <1>4, <1>5

(* A frame ends what has been read.                                        *)
Carries(bytes, w) ==
  \E s \in 1 .. Len(bytes) :
    /\ Len(bytes) = s + Len(w) - 1
    /\ \A j \in 1 .. Len(w) : bytes[s + j - 1] = w[j]

(* A packet comes out of its frame as it went in, whatever is read before  *)
(* the frame and whatever the flag left uninitialised holds.               *)
THEOREM FramesGiveBackTheirPacket ==
  ASSUME NEW p \in Seq(Byte), NEW size \in Nat, Len(p) <= size,
         NEW bytes \in Seq(Byte), Carries(bytes, PROTO_AddRb(p)),
         NEW begin \in BOOLEAN
  PROVE  PROTO_ParseRb(bytes, begin, size) = p
<1> DEFINE w == PROTO_AddRb(p)
           n == Len(p)
           N == Len(bytes)
<1>1. PICK f, body : Escaped(f, p, body)
                      /\ w = <<FrameBegin>> \o body \o <<FrameEnd>>
  BY FrameIsEscaped
<1>2. /\ body \in Seq(Byte)
      /\ \A i \in 1 .. Len(body) : body[i] \notin {FrameBegin, FrameEnd}
  BY <1>1, BodyHasNoMarkers
<1>3. Framed(w, body)
  BY <1>1, <1>2, FrameIsFramed
<1>4. PICK c : /\ ParseTrace(c, bytes, begin, size)
               /\ PROTO_ParseRb(bytes, begin, size) = c[N].buf
  BY ParseTraceOf
<1>5. PICK s \in 1 .. N :
        N = s + Len(w) - 1 /\ \A j \in 1 .. Len(w) : bytes[s + j - 1] = w[j]
  BY DEF Carries
<1> HIDE DEF w
<1>6. /\ Len(body) \in Nat /\ N \in Nat /\ s \in Nat /\ n \in Nat /\ s >= 1
      /\ Len(w) = Len(body) + 2
  <2>1. Len(body) \in Nat /\ Len(w) = Len(body) + 2
    BY <1>3 DEF Framed
  <2> QED
    BY <2>1
<1>7. Positions(s, Len(body), Len(w), N)
  BY <1>5, <1>6, FramePositions
<1>8. /\ s \in 1 .. N /\ N \in 1 .. N /\ N - 1 = s + Len(body)
      /\ 1 \in 1 .. Len(w) /\ Len(w) \in 1 .. Len(w) /\ s + 1 - 1 = s
      /\ \A i \in 1 .. Len(body) :
           /\ i + 1 \in 1 .. Len(w) /\ s + (i + 1) - 1 = s + i
           /\ s + i \in 1 .. N
  BY <1>7 DEF Positions
<1>9. bytes[s] = FrameBegin /\ bytes[N] = FrameEnd
  <2>1. bytes[s + 1 - 1] = w[1] /\ bytes[s + Len(w) - 1] = w[Len(w)]
    BY <1>5, <1>8
  <2>2. w[1] = FrameBegin /\ w[Len(w)] = FrameEnd
    BY <1>3 DEF Framed
  <2> QED
    BY <1>5, <1>8, <2>1, <2>2
<1>10. ASSUME NEW i \in 1 .. Len(body)
      PROVE  s + i \in 1 .. N /\ bytes[s + i] = body[i]
  <2>1. bytes[s + (i + 1) - 1] = w[i + 1]
    BY <1>5, <1>8
  <2>2. w[i + 1] = body[i]
    BY <1>3 DEF Framed
  <2> QED
    BY <1>8, <2>1, <2>2
<1>11. \A i \in 1 .. N : c[i] = PROTO_ParseByte(c[i - 1], bytes[i], size)
  BY <1>4 DEF ParseTrace
<1>12. \A i \in 0 .. N : c[i] \in Parsers
  BY <1>4 DEF ParseTrace
<1> HIDE DEF N, n
<1> DEFINE S == {k \in 0 .. n : Holds(c[s + Len(f[k])], p, k)}
<1>13. 0 \in S
  <2>1. c[s] = PROTO_ParseByte(c[s - 1], FrameBegin, size)
    <3>1. s \in 1 .. N /\ bytes[s] = FrameBegin
      BY <1>8, <1>9
    <3> QED
      BY <1>11, <3>1
  <2>2. PROTO_ParseByte(c[s - 1], FrameBegin, size)
          = [buf |-> <<>>, isBegin |-> TRUE, isEsc |-> FALSE]
    BY DEF PROTO_ParseByte, Escape, FrameBegin, FrameEnd
  <2>3. c[s] = [buf |-> <<>>, isBegin |-> TRUE, isEsc |-> FALSE]
    BY <2>1, <2>2, Zenon
  <2>4. <<>> \in Seq(Byte) /\ Len(<<>>) = 0
    OBVIOUS
  <2>5. Holds(c[s], p, 0)
    <3>1. c[s] \in Parsers
      <4>1. s \in 0 .. N
        BY <1>8
      <4> QED
        BY <1>12, <4>1
    <3>2. c[s].buf = <<>> /\ c[s].isBegin = TRUE /\ c[s].isEsc = FALSE
      BY <2>3
    <3> QED
      BY <2>4, <3>1, <3>2 DEF Holds
  <2>6. s + Len(f[0]) = s
    <3>1. f[0] = <<>>
      BY <1>1 DEF Escaped
    <3> QED
      BY <1>6, <2>4, <3>1
  <2> QED
    BY <1>6, <2>5, <2>6
<1>14. ASSUME NEW k \in 1 .. n, k - 1 \in S
       PROVE  k \in S
  <2>1. k \in 1 .. Len(p) /\ p[k] \in Byte
    BY DEF n
  <2>2. LiesAt(EscapeByte(p[k]), Len(f[k - 1]), Len(f[k]), body)
    BY <1>1, <2>1, EscapedAt
  <2>3. EscapeByte(p[k]) \in Seq(Byte) /\ EscapedAs(EscapeByte(p[k]), p[k])
    BY <2>1, EscapedShape
  <2>4. Holds(c[s + Len(f[k - 1])], p, k - 1)
    BY <1>14
  <2>5. Reads(c, s, body, size)
    <3>1. ASSUME NEW i \in 1 .. Len(body), NEW h, h = s + i
          PROVE  c[h] = PROTO_ParseByte(c[h - 1], body[i], size)
      <4>1. h \in 1 .. N /\ bytes[h] = body[i]
        BY <1>10, <3>1
      <4> QED
        BY <1>11, <4>1
    <3> QED
      BY <3>1 DEF Reads
  <2>6. Holds(c[s + Len(f[k])], p, k)
    BY <1>6, <2>1, <2>2, <2>3, <2>4, <2>5, EscapedRead
  <2> QED
    BY <2>6
<1> HIDE DEF S
<1>15. \A k \in 0 .. n : k \in S
  BY <1>6, <1>13, <1>14, InductionTo
<1>16. Holds(c[s + Len(body)], p, n)
  <2>1. n \in S
    BY <1>6, <1>15
  <2>2. f[n] = body
    BY <1>1 DEF Escaped, n
  <2> QED
    BY <2>1, <2>2 DEF S
<1>17. c[N].buf = c[s + Len(body)].buf
  <2>1. c[N] = PROTO_ParseByte(c[s + Len(body)], FrameEnd, size)
    BY <1>8, <1>9, <1>11
  <2>2. FrameEnd # Escape /\ FrameEnd # FrameBegin
    BY DEF Escape, FrameBegin, FrameEnd
  <2>3. c[N] = [c[s + Len(body)] EXCEPT !.isBegin = FALSE]
    BY <2>1, <2>2, Zenon DEF PROTO_ParseByte
  <2>4. c[s + Len(body)] \in Parsers
    BY <1>16 DEF Holds
  <2> QED
    BY <2>3, <2>4 DEF Parsers
<1> DEFINE b == c[s + Len(body)].buf
<1>18. b \in Seq(Byte) /\ Len(b) = Len(p) /\ \A i \in 1 .. Len(p) : b[i] = p[i]
  BY <1>16 DEF Holds, Parsers, n
<1> HIDE DEF b
<1>19. b = p
  BY <1>18, SeqEqual
<1> QED
  BY <1>4, <1>17, <1>19 DEF b

LEMMA OldestIsCarried ==
  ASSUME IInv, HasFrame
  PROVE  live[1] \in Msg /\ Carries(SubSeq(ring, 1, FirstEnd), Wire[live[1]])
<1> DEFINE e == FirstEnd
           w == Wire[live[1]]
           s == starts[1]
           bytes == SubSeq(ring, 1, e)
<1>1. 1 \in 1 .. Len(live) /\ e = EndOf(1)
  BY FirstEndIsOldest
<1>2. /\ live[1] \in Msg
      /\ s \in Nat /\ s >= 1
      /\ EndOf(1) = s + Len(w) - 1
      /\ EndOf(1) > s
      /\ EndOf(1) \in 1 .. Len(ring)
      /\ \A j \in 1 .. Len(w) : ring[s + j - 1] = w[j]
  BY <1>1, FrameAt
<1>3. Len(w) \in Nat
  BY <1>2, WireShape
<1>4. ring \in Seq(Byte) /\ Len(ring) \in Nat
  BY DEF IInv, TypeOK
<1> HIDE DEF e, w, s
<1>5. e \in 1 .. Len(ring) /\ e = s + Len(w) - 1 /\ e > s
  BY <1>1, <1>2
<1>6. /\ bytes \in Seq(Byte) /\ Len(bytes) = e
      /\ \A i \in 1 .. e : bytes[i] = ring[i]
  BY <1>4, <1>5
<1> HIDE DEF bytes
<1>7. ASSUME NEW j \in 1 .. Len(w)
      PROVE  bytes[s + j - 1] = w[j]
  <2>1. s + j - 1 \in 1 .. e
    BY <1>2, <1>3, <1>5
  <2> QED
    BY <1>2, <1>6, <2>1
<1>8. s \in 1 .. Len(bytes) /\ Len(bytes) = s + Len(w) - 1
  BY <1>2, <1>3, <1>5, <1>6
<1>9. Carries(bytes, w)
  BY <1>7, <1>8 DEF Carries
<1> QED
  BY <1>2, <1>9 DEF bytes, e, w

(* What has been read last ends in the frame of a message.                 *)
OutWhole ==
  out # <<>> =>
    \E m \in Msg : FrameIn(out) = Wire[m] /\ Carries(out, Wire[m])

LEMMA OutWholeKept ==
  ASSUME IInv, OutWhole, [Next]_vars
  PROVE  OutWhole'
<1>1. CASE out' = out
  BY <1>1 DEF OutWhole, FrameIn, LastBegin, Carries
<1>2. CASE SendNext
  <2>1. CASE HasFrame
    <3>1. out' = SubSeq(ring, 1, FirstEnd)
      BY <1>2, <2>1 DEF SendNext
    <3>2. FrameIn(SubSeq(ring, 1, FirstEnd)) = Wire[live[1]]
      BY <2>1, OldestIsWhole
    <3>3. live[1] \in Msg /\ Carries(SubSeq(ring, 1, FirstEnd), Wire[live[1]])
      BY <2>1, OldestIsCarried
    <3>4. \E m \in Msg : FrameIn(out') = Wire[m] /\ Carries(out', Wire[m])
      BY <3>1, <3>2, <3>3
    <3> QED
      BY <3>4 DEF OutWhole, FrameIn, LastBegin, Carries
  <2>2. CASE ~HasFrame
    BY <1>1, <1>2, <2>2 DEF SendNext
  <2> QED
    BY <2>1, <2>2
<1>3. CASE ~SendNext
  <2>1. out' = out
    BY <1>3 DEF Next, MQTT_Publish, Reply, Evict, Retry, TryPuts, vars
  <2> QED
    BY <1>1, <2>1
<1> QED
  BY <1>2, <1>3

LEMMA WholeIsIntact ==
  ASSUME TypeOK, OutWhole
  PROVE  PacketIntact
<1> SUFFICES ASSUME out # <<>>
             PROVE  \E m \in Msg :
                      /\ FrameIn(out) = Wire[m]
                      /\ \A begin \in BOOLEAN :
                           PROTO_ParseRb(out, begin, BufSize) = Packet[m]
  BY DEF PacketIntact
<1>1. PICK m \in Msg : FrameIn(out) = Wire[m] /\ Carries(out, Wire[m])
  BY DEF OutWhole
<1>3. /\ Packet[m] \in Seq(Byte) /\ BufSize \in Nat /\ Len(Packet[m]) <= BufSize
      /\ Wire[m] = PROTO_AddRb(Packet[m])
  BY PacketAssumption
<1>4. out \in Seq(Byte)
  BY DEF TypeOK
<1>5. ASSUME NEW begin \in BOOLEAN
      PROVE  PROTO_ParseRb(out, begin, BufSize) = Packet[m]
  BY <1>1, <1>3, <1>4, FramesGiveBackTheirPacket
<1> QED
  BY <1>1, <1>5

(* What MQTT_Task sends is the packet of a message, for every set of       *)
(* packets no longer than the buffer (mqtt.c lines 732-745).               *)
THEOREM PacketsComeOutIntact == Spec => []PacketIntact
<1>1. Init => OutWhole
  BY DEF Init, OutWhole
<1>2. IInv /\ OutWhole /\ [Next]_vars => OutWhole'
  BY OutWholeKept
<1>3. IInv /\ OutWhole => PacketIntact
  BY WholeIsIntact DEF IInv
<1> QED
  BY <1>1, <1>2, <1>3, QueueInvariant, PTL DEF Spec
=============================================================================
