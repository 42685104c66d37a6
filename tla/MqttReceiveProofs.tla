------------------------- MODULE MqttReceiveProofs -------------------------
(***************************************************************************)
(* That the client takes the packets of a segment apart exactly, for every *)
(* size of the buffer, every packet that fits it and segments of every     *)
(* length.  In this order:                                                 *)
(*  - what the functions of mqtt_msg.c build and find, on both forms of    *)
(*    the remaining length, whatever lies behind a packet (Framed, Shows,  *)
(*    PublishReads);                                                       *)
(*  - that no two bytes of 128 and more ever follow each other (Tame), so  *)
(*    that every pass ends and every read stays in in_buffer (Typed);      *)
(*  - what the bytes of a sequence of packets begin with (Bytes, Opens),   *)
(*    and that a cut packet is not mixed with another (Unmixed);           *)
(*  - which messages meet what packets make the client owe (Answers), and  *)
(*    that what was delivered and queued is exactly what the packets       *)
(*    handled so far call for (Story, Kept).                               *)
(***************************************************************************)
EXTENDS MqttReceive, FoldProofs, SequenceTheorems

-----------------------------------------------------------------------------
(* The fixed header.                                                       *)

(* Where the loop over the bytes of the remaining length stops: k bytes    *)
(* were looked at.                                                         *)
StopsAfter(k, buf, length) ==
  /\ k \in 1 .. length
  /\ k = length \/ buf[k + 1] < 128
  /\ \A j \in 1 .. k - 1 : buf[j + 1] >= 128

Stops(buf, length) ==
  \E k \in 1 .. length :
    /\ StopsAfter(k, buf, length)
    /\ HeaderEnd(buf, length) = IF k = length THEN length ELSE k + 1

LEMMA HeaderStops ==
  ASSUME NEW buf \in Seq(Nat), NEW length \in 1 .. Len(buf)
  PROVE  Stops(buf, length)
<1> DEFINE T == {i \in 1 .. length : i = length \/ buf[i + 1] < 128}
           AtEnd(i) == /\ i = length \/ buf[i + 1] < 128
                      /\ \A j \in 1 .. i - 1 : buf[j + 1] >= 128
           last == CHOOSE i \in 1 .. length : AtEnd(i)
<1>1. T \in SUBSET Nat /\ length \in T
  OBVIOUS
<1>2. PICK m \in T : \A k \in T : m <= k
  BY <1>1, SmallestOf
<1>3. m \in 1 .. length /\ AtEnd(m)
  <2>1. ASSUME NEW j \in 1 .. m - 1 PROVE buf[j + 1] >= 128
    <3>1. j \in 1 .. length /\ j # length /\ j < m
      BY <1>2
    <3>2. ~(buf[j + 1] < 128)
      BY <1>2, <3>1
    <3>3. j + 1 \in 1 .. Len(buf)
      BY <3>1
    <3>4. buf[j + 1] \in Nat
      BY <3>3
    <3> QED
      BY <3>2, <3>4
  <2> QED
    BY <1>2, <2>1
<1> HIDE DEF AtEnd
<1>4. last \in 1 .. length /\ AtEnd(last)
  BY <1>3, Zenon
<1>5. HeaderEnd(buf, length) = IF last = length THEN length ELSE last + 1
  BY DEF HeaderEnd, AtEnd
<1> HIDE DEF last
<1>6. StopsAfter(last, buf, length)
  BY <1>4 DEF StopsAfter, AtEnd
<1> QED
  BY <1>4, <1>5, <1>6 DEF Stops

LEMMA HeaderEndIn ==
  ASSUME NEW buf \in Seq(Nat), NEW length \in 1 .. Len(buf)
  PROVE  HeaderEnd(buf, length) \in 1 .. length
<1>1. PICK k \in 1 .. length :
        HeaderEnd(buf, length) = IF k = length THEN length ELSE k + 1
  BY HeaderStops DEF Stops
<1> QED
  BY <1>1

(* The sum over at most two bytes, in whichever order.                     *)
Summed(buf, i) == (buf[i + 1] % 128) * 128^(i - 1)
Low(buf, end) == IF end > 1 THEN buf[2] % 128 ELSE 0
High(buf, end) == IF end > 2 THEN 128 * (buf[3] % 128) ELSE 0

Adds(g, buf, n) ==
  g = [T \in SUBSET (1 .. n) |->
         IF T = {} THEN 0
         ELSE Summed(buf, CHOOSE x \in T : TRUE) + g[T \ {CHOOSE x \in T : TRUE}]]

LEMMA SummedIs ==
  ASSUME NEW buf \in Seq(Nat)
  PROVE  /\ 1 < Len(buf) => Summed(buf, 1) = buf[2] % 128 /\ Summed(buf, 1) \in Nat
         /\ 2 < Len(buf) => Summed(buf, 2) = 128 * (buf[3] % 128) /\ Summed(buf, 2) \in Nat
<1>1. ASSUME NEW x \in Nat PROVE x % 128 \in Nat
  BY <1>1, SMTT(30)
<1>2. ASSUME NEW x \in Nat PROVE x * 128^(1 - 1) = x /\ x * 128^(2 - 1) = 128 * x
  OBVIOUS
<1>3. 1 < Len(buf) => buf[1 + 1] \in Nat /\ buf[1 + 1] % 128 \in Nat
  BY <1>1
<1>4. 2 < Len(buf) => buf[2 + 1] \in Nat /\ buf[2 + 1] % 128 \in Nat
  BY <1>1
<1>5. 1 + 1 = 2 /\ 2 + 1 = 3
  OBVIOUS
<1>6. 1 < Len(buf) => Summed(buf, 1) = buf[2] % 128 /\ Summed(buf, 1) \in Nat
  <2> SUFFICES ASSUME 1 < Len(buf)
               PROVE  Summed(buf, 1) = buf[2] % 128 /\ Summed(buf, 1) \in Nat
    OBVIOUS
  <2>1. PICK x \in Nat : x = buf[1 + 1] % 128
    BY <1>3
  <2>2. Summed(buf, 1) = x * 128^(1 - 1)
    BY <2>1, Zenon DEF Summed
  <2>3. Summed(buf, 1) = x
    BY <1>2, <2>2
  <2> QED
    BY <1>5, <2>1, <2>3
<1>7. 2 < Len(buf) => Summed(buf, 2) = 128 * (buf[3] % 128) /\ Summed(buf, 2) \in Nat
  <2> SUFFICES ASSUME 2 < Len(buf)
               PROVE  Summed(buf, 2) = 128 * (buf[3] % 128) /\ Summed(buf, 2) \in Nat
    OBVIOUS
  <2>1. PICK x \in Nat : x = buf[2 + 1] % 128
    BY <1>4
  <2>2. Summed(buf, 2) = x * 128^(2 - 1)
    BY <2>1, Zenon DEF Summed
  <2>3. Summed(buf, 2) = 128 * x
    BY <1>2, <2>2
  <2> QED
    BY <1>5, <2>1, <2>3, SMTT(60)
<1> QED
  BY <1>6, <1>7

LEMMA AddsExists ==
  ASSUME NEW buf, NEW n \in 0 .. 2, \A i \in 1 .. n : Summed(buf, i) \in Nat
  PROVE  \E g : Adds(g, buf, n)
<1> DEFINE S == 1 .. n
           pick == [T \in SUBSET S |-> CHOOSE x \in T : TRUE]
           step == [x \in S \X Nat |-> Summed(buf, x[1]) + x[2]]
<1>1. \A T \in SUBSET S : T # {} => pick[T] \in T
  <2> SUFFICES ASSUME NEW T \in SUBSET S, T # {} PROVE (CHOOSE x \in T : TRUE) \in T
    OBVIOUS
  <2> QED
    BY Zenon
<1>2. IsFiniteSet(S)
  BY FS_Interval
<1>3. step \in [S \X Nat -> Nat]
  OBVIOUS
<1>4. /\ \A T \in SUBSET S : pick[T] = CHOOSE x \in T : TRUE
      /\ \A k \in S, v \in Nat : step[<<k, v>>] = Summed(buf, k) + v
  OBVIOUS
<1> HIDE DEF S, pick, step
<1>5. HasFold(S, Nat, 0, pick, step)
  BY <1>1, <1>2, <1>3, FoldExists
<1>6. PICK g \in [SUBSET S -> Nat] :
        \A T \in SUBSET S : g[T] = FoldStep(g, 0, pick, step, T)
  BY <1>5 DEF HasFold
<1>7. ASSUME NEW T \in SUBSET S
      PROVE  g[T] = IF T = {} THEN 0
                    ELSE Summed(buf, CHOOSE x \in T : TRUE) + g[T \ {CHOOSE x \in T : TRUE}]
  <2>1. CASE T = {}
    BY <1>6, <2>1 DEF FoldStep
  <2>2. CASE T # {}
    <3>1. pick[T] \in S /\ T \ {pick[T]} \in SUBSET S
      BY <1>1, <2>2
    <3>2. g[T] = step[<<pick[T], g[T \ {pick[T]}]>>]
      BY <1>6, <2>2, Zenon DEF FoldStep
    <3>3. g[T] = Summed(buf, pick[T]) + g[T \ {pick[T]}]
      BY <1>4, <3>1, <3>2
    <3> QED
      BY <1>4, <2>2, <3>3, Zenon
  <2> QED
    BY <2>1, <2>2
<1>8. g = [T \in SUBSET S |->
            IF T = {} THEN 0
            ELSE Summed(buf, CHOOSE x \in T : TRUE) + g[T \ {CHOOSE x \in T : TRUE}]]
  BY <1>7
<1> QED
  BY <1>8 DEF Adds, S

LEMMA TotalIs ==
  ASSUME NEW buf \in Seq(Nat), NEW length, NEW end \in 1 .. 3,
         end = HeaderEnd(buf, length), end <= Len(buf)
  PROVE  mqtt_get_total_length(buf, length) = end + (Low(buf, end) + High(buf, end))
<1> DEFINE found == CHOOSE g : Adds(g, buf, end - 1)
<1>1. PICK n \in 0 .. 2 : n = end - 1
  OBVIOUS
<1>2. mqtt_get_total_length(buf, length) = end + found[1 .. n]
  <2>1. found = CHOOSE g : g = [T \in SUBSET (1 .. end - 1) |->
             IF T = {} THEN 0
             ELSE LET x == CHOOSE x \in T : TRUE
                  IN  (buf[x + 1] % 128) * 128^(x - 1) + g[T \ {x}]]
    BY Zenon DEF Adds, Summed
  <2>2. mqtt_get_total_length(buf, length) = end + found[1 .. end - 1]
    BY <2>1, Zenon DEF mqtt_get_total_length, MapThenSumSet, MapThenFoldSet
  <2> QED
    BY <1>1, <2>2
<1>3. \A i \in 1 .. n : Summed(buf, i) \in Nat
  <2> SUFFICES ASSUME NEW i \in 1 .. n PROVE Summed(buf, i) \in Nat
    OBVIOUS
  <2>1. i = 1 \/ i = 2
    OBVIOUS
  <2>2. i < Len(buf)
    BY <1>1
  <2> QED
    BY <2>1, <2>2, SummedIs
<1>4. Adds(found, buf, n)
  BY <1>1, <1>3, AddsExists, Zenon
<1> HIDE DEF found
<1>5. /\ found[{}] = 0
      /\ \A T \in SUBSET (1 .. n) : T # {} =>
           found[T] = Summed(buf, CHOOSE x \in T : TRUE)
                      + found[T \ {CHOOSE x \in T : TRUE}]
  BY <1>4 DEF Adds
<1>6. n > 0 => found[{1}] = Low(buf, end)
  <2> SUFFICES ASSUME n > 0 PROVE found[{1}] = Low(buf, end)
    OBVIOUS
  <2>1. {1} \in SUBSET (1 .. n) /\ {1} # {} /\ (CHOOSE x \in {1} : TRUE) = 1 /\ {1} \ {1} = {}
    OBVIOUS
  <2>2. found[{1}] = Summed(buf, CHOOSE x \in {1} : TRUE)
                       + found[{1} \ {CHOOSE x \in {1} : TRUE}]
    BY <1>5, <2>1, Zenon
  <2>3. found[{1}] = Summed(buf, 1) + 0
    BY <1>5, <2>1, <2>2, Zenon
  <2>4. Summed(buf, 1) = Low(buf, end) /\ Summed(buf, 1) \in Nat
    BY <1>1, SummedIs DEF Low
  <2> QED
    BY <2>3, <2>4
<1>7. n > 1 => found[{2}] = High(buf, end)
  <2> SUFFICES ASSUME n > 1 PROVE found[{2}] = High(buf, end)
    OBVIOUS
  <2>1. {2} \in SUBSET (1 .. n) /\ {2} # {} /\ (CHOOSE x \in {2} : TRUE) = 2 /\ {2} \ {2} = {}
    OBVIOUS
  <2>2. found[{2}] = Summed(buf, CHOOSE x \in {2} : TRUE)
                       + found[{2} \ {CHOOSE x \in {2} : TRUE}]
    BY <1>5, <2>1, Zenon
  <2>3. found[{2}] = Summed(buf, 2) + 0
    BY <1>5, <2>1, <2>2, Zenon
  <2>4. Summed(buf, 2) = High(buf, end) /\ Summed(buf, 2) \in Nat
    BY <1>1, SummedIs DEF High
  <2> QED
    BY <2>3, <2>4
<1>8. found[1 .. n] = Low(buf, end) + High(buf, end)
  <2>1. CASE n = 0
    <3>1. 1 .. n = {} /\ Low(buf, end) = 0 /\ High(buf, end) = 0
      BY <1>1, <2>1 DEF Low, High
    <3>2. found[1 .. n] = 0
      BY <1>5, <3>1, Zenon
    <3> QED
      BY <3>1, <3>2
  <2>2. CASE n = 1
    <3>1. 1 .. n = {1} /\ High(buf, end) = 0
      BY <1>1, <2>2 DEF High
    <3>2. Low(buf, end) \in Nat
      BY <1>1, <2>2, SummedIs DEF Low
    <3> QED
      BY <1>6, <2>2, <3>1, <3>2
  <2>3. CASE n = 2
    <3> DEFINE x == CHOOSE x \in {1, 2} : TRUE
    <3>1. 1 .. n = {1, 2} /\ {1, 2} \in SUBSET (1 .. n) /\ {1, 2} # {}
      BY <2>3
    <3>2. x \in {1, 2}
      BY Zenon
    <3>3. found[{1, 2}] = Summed(buf, x) + found[{1, 2} \ {x}]
      BY <1>5, <3>1, Zenon
    <3> HIDE DEF x
    <3>4. /\ Summed(buf, 1) = Low(buf, end) /\ Summed(buf, 1) \in Nat
          /\ Summed(buf, 2) = High(buf, end) /\ Summed(buf, 2) \in Nat
      BY <1>1, <2>3, SummedIs DEF Low, High
    <3>5. {1, 2} \ {1} = {2} /\ {1, 2} \ {2} = {1}
      OBVIOUS
    <3>6. found[{1}] = Low(buf, end) /\ found[{2}] = High(buf, end)
      BY <1>6, <1>7, <2>3
    <3>7. CASE x = 1
      <4>1. found[{1, 2}] = Summed(buf, 1) + found[{2}]
        BY <3>3, <3>5, <3>7, Zenon
      <4>2. found[{1, 2}] = Low(buf, end) + High(buf, end)
        BY <3>4, <3>6, <4>1, Zenon
      <4> QED
        BY <3>1, <4>2, Zenon
    <3>8. CASE x = 2
      <4>1. found[{1, 2}] = Summed(buf, 2) + found[{1}]
        BY <3>3, <3>5, <3>8, Zenon
      <4>2. found[{1, 2}] = High(buf, end) + Low(buf, end)
        BY <3>4, <3>6, <4>1, Zenon
      <4>3. High(buf, end) + Low(buf, end) = Low(buf, end) + High(buf, end)
        BY <3>4
      <4> QED
        BY <3>1, <4>2, <4>3, Zenon
    <3> QED
      BY <3>2, <3>7, <3>8
  <2> QED
    BY <2>1, <2>2, <2>3
<1> QED
  BY <1>2, <1>8

(* A message, and what a buffer shows of it that holds its first length    *)
(* bytes or all of it and something behind it.                             *)
HeaderBytes(m, h, n) ==
  \/ h = 2 /\ n \in 0 .. 127 /\ m[2] = n
  \/ h = 3 /\ n \in Nat /\ 128 <= n /\ n <= 16383 /\ m[2] = 128 + (n % 128) /\ m[3] = n \div 128

Framed(m, first, body, h) ==
  /\ m \in Seq(Nat) /\ body \in Seq(Nat) /\ h \in 2 .. 3
  /\ Len(m) = h + Len(body) /\ Len(m) <= BufferLength
  /\ m[1] = first /\ HeaderBytes(m, h, Len(body))
  /\ \A k \in 1 .. Len(body) : m[h + k] = body[k]

Shows(buf, length, m) ==
  /\ buf \in Seq(Nat) /\ length \in 1 .. Len(buf)
  /\ \A i \in 1 .. length : i <= Len(m) => buf[i] = m[i]

Join(m, s, t) ==
  /\ Len(m) = Len(s) + Len(t)
  /\ \A i \in 1 .. Len(s) : m[i] = s[i]
  /\ \A i \in 1 .. Len(t) : m[Len(s) + i] = t[i]

LEMMA JoinIs ==
  ASSUME NEW S, NEW s \in Seq(S), NEW t \in Seq(S)
  PROVE  s \o t \in Seq(S) /\ Join(s \o t, s, t)
<1>1. s \o t \in Seq(S) /\ Len(s \o t) = Len(s) + Len(t)
  OBVIOUS
<1>2. \A i \in 1 .. Len(s) : (s \o t)[i] = s[i]
  OBVIOUS
<1>3. \A i \in 1 .. Len(t) : (s \o t)[Len(s) + i] = t[i]
  OBVIOUS
<1> QED
  BY <1>1, <1>2, <1>3, Zenon DEF Join

LEMMA Behind2 ==
  ASSUME NEW a \in Nat, NEW b \in Nat, NEW body \in Seq(Nat), NEW m,
         m = <<a>> \o <<b>> \o body
  PROVE  /\ m \in Seq(Nat) /\ Len(m) = 2 + Len(body)
         /\ m[1] = a /\ m[2] = b
         /\ \A k \in 1 .. Len(body) : m[2 + k] = body[k]
<1>1. <<a>> \in Seq(Nat) /\ <<b>> \in Seq(Nat)
  OBVIOUS
<1>2. PICK s : s = <<a>> \o <<b>>
  OBVIOUS
<1>3. s \in Seq(Nat) /\ Len(s) = 2 /\ s[1] = a /\ s[2] = b
  BY <1>1, <1>2
<1>4. m \in Seq(Nat) /\ Join(m, s, body)
  BY <1>2, <1>3, JoinIs
<1> QED
  BY <1>3, <1>4 DEF Join

LEMMA Behind3 ==
  ASSUME NEW a \in Nat, NEW b \in Nat, NEW c \in Nat, NEW body \in Seq(Nat),
         NEW m, m = <<a>> \o <<b, c>> \o body
  PROVE  /\ m \in Seq(Nat) /\ Len(m) = 3 + Len(body)
         /\ m[1] = a /\ m[2] = b /\ m[3] = c
         /\ \A k \in 1 .. Len(body) : m[3 + k] = body[k]
<1>1. <<a>> \in Seq(Nat) /\ <<b, c>> \in Seq(Nat)
  OBVIOUS
<1>2. PICK s : s = <<a>> \o <<b, c>>
  OBVIOUS
<1>3. s \in Seq(Nat) /\ Len(s) = 3 /\ s[1] = a /\ s[2] = b /\ s[3] = c
  BY <1>1, <1>2
<1>4. m \in Seq(Nat) /\ Join(m, s, body)
  BY <1>2, <1>3, JoinIs
<1> QED
  BY <1>3, <1>4 DEF Join

LEMMA Buffer == BufferLength \in Nat /\ BufferLength >= 7 /\ BufferLength <= 16386
BY MsgAssumption, SMTT(60)

First(type, qos, retain) == 16 * type + 2 * qos + retain

LEMMA FiniIs ==
  ASSUME NEW type \in Nat, NEW qos \in Nat, NEW retain \in Nat,
         NEW body \in Seq(Nat), fini_message(type, qos, retain, body) # << >>
  PROVE  \E h \in 2 .. 3 : Framed(fini_message(type, qos, retain, body),
                                  First(type, qos, retain), body, h)
<1> DEFINE first == First(type, qos, retain)
           m == fini_message(type, qos, retain, body)
<1>0. first \in Nat
  BY DEF First
<1>1. PICK n \in Nat : n = Len(body)
  OBVIOUS
<1>2. n + 3 <= BufferLength /\ m = <<first>> \o RemainingLength(n) \o body
  <2>1. m = IF Len(body) + 3 > BufferLength THEN << >>
            ELSE <<first>> \o RemainingLength(Len(body)) \o body
    BY DEF fini_message, First
  <2> HIDE DEF m, first
  <2>2. m # << >>
    BY DEF m
  <2>3. ~(n + 3 > BufferLength)
    BY <1>1, <2>1, <2>2
  <2>4. n + 3 <= BufferLength
    BY <2>3, Buffer
  <2> QED
    BY <1>1, <2>1, <2>3, <2>4
<1> HIDE DEF m, first
<1>3. n <= 16383
  BY <1>2, Buffer
<1>4. CASE n <= 127
  <2>1. m = <<first>> \o <<n>> \o body
    BY <1>2, <1>4, SMTT(60) DEF RemainingLength
  <2>2. /\ m \in Seq(Nat) /\ Len(m) = 2 + Len(body) /\ m[1] = first /\ m[2] = n
        /\ \A k \in 1 .. Len(body) : m[2 + k] = body[k]
    BY <1>0, <2>1, Behind2
  <2>3. HeaderBytes(m, 2, n)
    <3>1. n \in 0 .. 127 /\ m[2] = n
      BY <1>4, <2>2
    <3> QED
      BY <3>1, SMTT(60) DEF HeaderBytes
  <2>4. Len(m) <= BufferLength
    BY <1>1, <1>2, <2>2, Buffer, SMTT(60)
  <2>5. Framed(m, first, body, 2)
    BY <1>1, <2>2, <2>3, <2>4 DEF Framed
  <2> QED
    BY <2>5 DEF m, first
<1>5. CASE n > 127
  <2>0. n % 128 \in Nat /\ n \div 128 \in Nat
    BY SMTT(30)
  <2>1. PICK b \in Nat, c \in Nat : b = 128 + (n % 128) /\ c = n \div 128
    BY <2>0
  <2>2. m = <<first>> \o <<b, c>> \o body
    BY <1>2, <1>5, <2>1, SMTT(60) DEF RemainingLength
  <2>3. /\ m \in Seq(Nat) /\ Len(m) = 3 + Len(body)
        /\ m[1] = first /\ m[2] = b /\ m[3] = c
        /\ \A k \in 1 .. Len(body) : m[3 + k] = body[k]
    BY <1>0, <2>2, Behind3
  <2>4. HeaderBytes(m, 3, n)
    <3>1. n \in Nat /\ 128 <= n /\ n <= 16383
      BY <1>3, <1>5, SMTT(60)
    <3>2. m[2] = 128 + (n % 128) /\ m[3] = n \div 128
      <4>1. m[2] = b /\ m[3] = c
        BY <2>3, Zenon
      <4> QED
        BY <2>1, <4>1
    <3> QED
      BY <3>1, <3>2 DEF HeaderBytes
  <2>5. Len(m) <= BufferLength
    BY <1>1, <1>2, <2>3, Buffer
  <2>6. Framed(m, first, body, 3)
    BY <1>1, <2>3, <2>4, <2>5 DEF Framed
  <2> QED
    BY <2>6 DEF m, first
<1> QED
  BY <1>4, <1>5

LEMMA DivMod128 ==
  ASSUME NEW n \in Nat, 128 <= n, n <= 16383
  PROVE  /\ (128 + (n % 128)) % 128 = n % 128 /\ n % 128 \in Nat
         /\ n \div 128 \in 1 .. 127 /\ (n \div 128) % 128 = n \div 128
         /\ (n % 128) + 128 * (n \div 128) = n
BY SMTT(60)

LEMMA HeaderRead ==
  ASSUME NEW m, NEW first, NEW body, NEW h, NEW buf, NEW length,
         Framed(m, first, body, h), Shows(buf, length, m)
  PROVE  /\ buf[1] = first
         /\ length >= h => /\ HeaderEnd(buf, length) = h
                           /\ mqtt_get_total_length(buf, length) = Len(m)
         /\ length < h => /\ HeaderEnd(buf, length) = length
                          /\ mqtt_get_total_length(buf, length) \in Nat
                          /\ mqtt_get_total_length(buf, length) >= length
<1> DEFINE n == Len(body)
<1>1. /\ m \in Seq(Nat) /\ h \in 2 .. 3 /\ n \in Nat
      /\ Len(m) = h + n /\ m[1] = first /\ HeaderBytes(m, h, n)
  BY DEF Framed
<1>2. /\ buf \in Seq(Nat) /\ length \in 1 .. Len(buf)
      /\ \A i \in 1 .. length : i <= Len(m) => buf[i] = m[i]
  BY DEF Shows
<1> HIDE DEF n
<1>3. buf[1] = m[1] /\ (length >= 2 => buf[2] = m[2])
      /\ (length >= 3 /\ h = 3 => buf[3] = m[3])
  BY <1>1, <1>2, SMTT(60)
<1>4. PICK k \in 1 .. length :
        /\ StopsAfter(k, buf, length)
        /\ HeaderEnd(buf, length) = IF k = length THEN length ELSE k + 1
  BY <1>2, HeaderStops DEF Stops
<1>5. CASE h = 2
  <2>1. m[2] = n /\ n <= 127
    BY <1>1, <1>5 DEF HeaderBytes
  <2>2. CASE length = 1
    <3>1. HeaderEnd(buf, length) = 1
      BY <1>4, <2>2
    <3>2. mqtt_get_total_length(buf, length) = 1 + (Low(buf, 1) + High(buf, 1))
      BY <1>2, <3>1, TotalIs
    <3>3. Low(buf, 1) = 0 /\ High(buf, 1) = 0
      BY DEF Low, High
    <3> QED
      BY <1>1, <1>3, <1>5, <2>2, <3>1, <3>2, <3>3
  <2>3. CASE length >= 2
    <3>1. buf[2] < 128 /\ buf[2] = n
      BY <1>1, <1>3, <2>1, <2>3
    <3>2. k = 1
      <4>1. CASE k > 1
        <5>1. 1 \in 1 .. k - 1 /\ 1 + 1 = 2
          BY <4>1
        <5>2. buf[2] >= 128
          BY <1>4, <5>1 DEF StopsAfter
        <5> QED
          BY <1>1, <3>1, <5>2
      <4> QED
        BY <4>1
    <3>3. HeaderEnd(buf, length) = 2
      BY <1>4, <2>3, <3>2
    <3>4. mqtt_get_total_length(buf, length) = 2 + (Low(buf, 2) + High(buf, 2))
      BY <1>2, <2>3, <3>3, TotalIs
    <3>5. Low(buf, 2) = n /\ High(buf, 2) = 0
      <4>1. n % 128 = n
        BY <1>1, <2>1, SMTT(60)
      <4> QED
        BY <3>1, <4>1 DEF Low, High
    <3> QED
      BY <1>1, <1>2, <1>3, <1>5, <2>3, <3>3, <3>4, <3>5
  <2> QED
    BY <1>2, <2>2, <2>3
<1>6. CASE h = 3
  <2>1. n \in Nat /\ 128 <= n /\ n <= 16383 /\ m[2] = 128 + (n % 128) /\ m[3] = n \div 128
    BY <1>1, <1>6, SMTT(60) DEF HeaderBytes
  <2>2. PICK b \in Nat, c \in Nat :
          /\ b = n % 128 /\ c = n \div 128 /\ c <= 127
          /\ (128 + b) % 128 = b /\ c % 128 = c /\ b + 128 * c = n
    BY <2>1, DivMod128, SMTT(60)
  <2>3. m[2] = 128 + b /\ m[3] = c
    BY <2>1, <2>2
  <2>4. CASE length = 1
    <3>1. HeaderEnd(buf, length) = 1
      BY <1>4, <2>4
    <3>2. mqtt_get_total_length(buf, length) = 1 + (Low(buf, 1) + High(buf, 1))
      BY <1>2, <3>1, TotalIs
    <3>3. Low(buf, 1) = 0 /\ High(buf, 1) = 0
      BY DEF Low, High
    <3> QED
      BY <1>1, <1>3, <1>6, <2>4, <3>1, <3>2, <3>3
  <2>5. CASE length = 2
    <3>1. HeaderEnd(buf, length) = 2
      BY <1>4, <2>5
    <3>2. mqtt_get_total_length(buf, length) = 2 + (Low(buf, 2) + High(buf, 2))
      BY <1>2, <2>5, <3>1, TotalIs
    <3>3. Low(buf, 2) = b /\ High(buf, 2) = 0
      BY <1>3, <2>2, <2>3, <2>5 DEF Low, High
    <3>4. ~(length >= h) /\ 2 + (b + 0) \in Nat /\ 2 + (b + 0) >= 2
      BY <1>6, <2>5
    <3>5. mqtt_get_total_length(buf, length) = 2 + (b + 0)
      BY <3>2, <3>3, Zenon
    <3>6. buf[1] = first
      BY <1>1, <1>3
    <3> QED
      BY <2>5, <3>1, <3>4, <3>5, <3>6
  <2>6. CASE length >= 3
    <3>0. length >= 2
      BY <1>2, <2>6
    <3>1. buf[2] = 128 + b /\ buf[3] = c
      BY <1>3, <1>6, <2>3, <2>6, <3>0, Zenon
    <3>2. k = 2
      <4>1. CASE k > 2
        <5>1. 2 \in 1 .. k - 1 /\ 2 + 1 = 3
          BY <4>1
        <5>2. buf[3] >= 128
          BY <1>4, <5>1 DEF StopsAfter
        <5> QED
          BY <2>2, <3>1, <5>2
      <4>2. CASE k = 1
        <5>1. k # length /\ k + 1 = 2
          BY <2>6, <4>2
        <5>2. buf[2] < 128
          BY <1>4, <5>1 DEF StopsAfter
        <5> QED
          BY <3>1, <5>2
      <4> QED
        BY <4>1, <4>2
    <3>3. HeaderEnd(buf, length) = 3
      BY <1>4, <2>6, <3>2
    <3>4. mqtt_get_total_length(buf, length) = 3 + (Low(buf, 3) + High(buf, 3))
      BY <1>2, <2>6, <3>3, TotalIs
    <3>5. Low(buf, 3) = b /\ High(buf, 3) = 128 * c
      BY <2>2, <3>1 DEF Low, High
    <3>6. mqtt_get_total_length(buf, length) = Len(m)
      BY <1>1, <1>6, <2>2, <3>4, <3>5
    <3> QED
      BY <1>1, <1>2, <1>3, <1>6, <2>6, <3>3, <3>6
  <2> QED
    BY <1>2, <2>4, <2>5, <2>6
<1> QED
  BY <1>1, <1>5, <1>6

LEMMA WordBytesAre ==
  ASSUME NEW w \in Nat
  PROVE  /\ WordBytes(w) \in Seq(Nat) /\ Len(WordBytes(w)) = 2
         /\ 256 * WordBytes(w)[1] + WordBytes(w)[2] = w
<1>1. w \div 256 \in Nat /\ w % 256 \in Nat /\ 256 * (w \div 256) + (w % 256) = w
  BY SMTT(60)
<1>2. PICK a \in Nat, b \in Nat : a = w \div 256 /\ b = w % 256
  BY <1>1
<1>3. WordBytes(w) = <<a, b>>
  BY <1>2 DEF WordBytes
<1> QED
  BY <1>1, <1>2, <1>3

(* The body of a PUBLISH.                                                  *)
Wide(qos) == IF qos > 0 THEN 2 ELSE 0

Parts(body, topic, wide, id, data) ==
  /\ Len(body) = 2 + Len(topic) + wide + Len(data)
  /\ WordAt(body, 0) = Len(topic)
  /\ \A k \in 1 .. Len(topic) : body[2 + k] = topic[k]
  /\ wide = 2 => WordAt(body, 2 + Len(topic)) = id
  /\ \A k \in 1 .. Len(data) : body[2 + Len(topic) + wide + k] = data[k]

LEMMA StringIs ==
  ASSUME NEW string \in Seq(Nat)
  PROVE  /\ append_string(string) \in Seq(Nat)
         /\ Len(append_string(string)) = 2 + Len(string)
         /\ WordAt(append_string(string), 0) = Len(string)
         /\ \A k \in 1 .. Len(string) : append_string(string)[2 + k] = string[k]
<1>1. PICK n \in Nat : n = Len(string)
  OBVIOUS
<1>2. PICK w \in Seq(Nat) : /\ w = WordBytes(n) /\ Len(w) = 2
                            /\ 256 * w[1] + w[2] = n
  BY WordBytesAre, ZenonT(60)
<1>3. append_string(string) \in Seq(Nat) /\ Join(append_string(string), w, string)
  BY <1>1, <1>2, JoinIs DEF append_string
<1>4. /\ Len(append_string(string)) = 2 + Len(string)
      /\ append_string(string)[1] = w[1] /\ append_string(string)[2] = w[2]
      /\ \A k \in 1 .. Len(string) : append_string(string)[2 + k] = string[k]
  BY <1>2, <1>3 DEF Join
<1>5. WordAt(append_string(string), 0) = n
  BY <1>2, <1>4 DEF WordAt
<1> QED
  BY <1>1, <1>3, <1>4, <1>5

(* Positions in three sequences joined.                                    *)
Three(m, a, p, i, w, d) ==
  /\ Len(m) = p + w + Len(d)
  /\ \A k \in 1 .. p : m[k] = a[k]
  /\ \A k \in 1 .. w : m[p + k] = i[k]
  /\ \A k \in 1 .. Len(d) : m[p + w + k] = d[k]

LEMMA ThreeIs ==
  ASSUME NEW a \in Seq(Nat), NEW i \in Seq(Nat), NEW d \in Seq(Nat),
         NEW p \in Nat, NEW w \in Nat, Len(a) = p, Len(i) = w,
         NEW m, m = a \o i \o d
  PROVE  m \in Seq(Nat) /\ Three(m, a, p, i, w, d)
<1>1. PICK s \in Seq(Nat) : s = a \o i /\ Join(s, a, i)
  BY JoinIs
<1>2. m = s \o d
  BY <1>1
<1>3. m \in Seq(Nat) /\ Join(m, s, d)
  BY <1>2, JoinIs
<1>4. /\ Len(s) = p + w
      /\ \A k \in 1 .. p : s[k] = a[k]
      /\ \A k \in 1 .. w : s[p + k] = i[k]
  BY <1>1, Zenon DEF Join
<1>5. /\ Len(m) = p + w + Len(d)
      /\ \A k \in 1 .. p + w : m[k] = s[k]
      /\ \A k \in 1 .. Len(d) : m[p + w + k] = d[k]
  BY <1>3, <1>4, Zenon DEF Join
<1>6. \A k \in 1 .. p : m[k] = a[k]
  BY <1>4, <1>5
<1>7. \A k \in 1 .. w : m[p + k] = i[k]
  <2> SUFFICES ASSUME NEW k \in 1 .. w PROVE m[p + k] = i[k]
    OBVIOUS
  <2>1. p + k \in 1 .. p + w
    OBVIOUS
  <2>2. m[p + k] = s[p + k]
    BY <1>5, <2>1, Zenon
  <2>3. s[p + k] = i[k]
    BY <1>4, Zenon
  <2> QED
    BY <2>2, <2>3
<1> QED
  BY <1>3, <1>5, <1>6, <1>7, Zenon DEF Three

LEMMA BodyIs ==
  ASSUME NEW topic \in Seq(Nat), NEW data \in Seq(Nat), NEW qos \in 0 .. 2,
         NEW id \in Nat, NEW body,
         body = append_string(topic)
                \o (IF qos > 0 THEN WordBytes(id) ELSE << >>) \o data
  PROVE  body \in Seq(Nat) /\ Parts(body, topic, Wide(qos), id, data)
<1>0. PICK a \in Seq(Nat) :
        /\ a = append_string(topic) /\ Len(a) = 2 + Len(topic)
        /\ WordAt(a, 0) = Len(topic)
        /\ \A k \in 1 .. Len(topic) : a[2 + k] = topic[k]
  BY StringIs, Zenon
<1>1. PICK t \in Nat :
        /\ a = append_string(topic) /\ t = Len(topic) /\ Len(a) = 2 + t
        /\ WordAt(a, 0) = t /\ \A k \in 1 .. t : a[2 + k] = topic[k]
  <2>1. Len(topic) \in Nat
    OBVIOUS
  <2> QED
    BY <1>0, <2>1, Zenon
<1>2. PICK wide \in {0, 2} : wide = Wide(qos)
  BY DEF Wide
<1>3. PICK i \in Seq(Nat) :
        /\ i = IF qos > 0 THEN WordBytes(id) ELSE << >>
        /\ Len(i) = wide /\ (wide = 2 => 256 * i[1] + i[2] = id)
  <2>1. CASE qos > 0
    <3>1. wide = 2
      BY <1>2, <2>1 DEF Wide
    <3>2. PICK i \in Seq(Nat) : /\ i = WordBytes(id) /\ Len(i) = 2
                               /\ 256 * i[1] + i[2] = id
      BY WordBytesAre, ZenonT(60)
    <3>3. i = IF qos > 0 THEN WordBytes(id) ELSE << >>
      BY <2>1, <3>2
    <3>4. Len(i) = wide
      BY <3>1, <3>2, Zenon
    <3>5. wide = 2 => 256 * i[1] + i[2] = id
      BY <3>2, Zenon
    <3> QED
      BY <3>3, <3>4, <3>5, ZenonT(60)
  <2>2. CASE ~(qos > 0)
    <3>0. << >> \in Seq(Nat) /\ Len(<< >>) = 0
      OBVIOUS
    <3>1. PICK i \in Seq(Nat) : i = << >> /\ Len(i) = 0
      BY <3>0, Zenon
    <3>2. wide = 0
      BY <1>2, <2>2 DEF Wide
    <3>3. i = IF qos > 0 THEN WordBytes(id) ELSE << >>
      BY <2>2, <3>1
    <3>4. wide # 2
      BY <3>2
    <3> QED
      BY <3>1, <3>2, <3>3, <3>4, Zenon
  <2> QED
    BY <2>1, <2>2
<1>4. body = a \o i \o data
  BY <1>1, <1>3
<1>5. /\ body \in Seq(Nat)
      /\ Len(body) = 2 + t + wide + Len(data)
      /\ \A k \in 1 .. 2 + t : body[k] = a[k]
      /\ \A k \in 1 .. wide : body[2 + t + k] = i[k]
      /\ \A k \in 1 .. Len(data) : body[2 + t + wide + k] = data[k]
  <2>1. PICK p \in Nat, w \in Nat : p = 2 + t /\ w = wide
    OBVIOUS
  <2>2. Len(a) = p /\ Len(i) = w
    BY <1>1, <1>3, <2>1, Zenon
  <2>3. body \in Seq(Nat) /\ Three(body, a, p, i, w, data)
    BY <1>4, <2>2, ThreeIs
  <2> QED
    BY <2>1, <2>3, Zenon DEF Three
<1>6. WordAt(body, 0) = t
  <2>1. body[0 + 1] = a[0 + 1] /\ body[0 + 2] = a[0 + 2]
    BY <1>5, SMTT(60)
  <2> QED
    BY <1>1, <2>1, SMTT(60) DEF WordAt
<1>7. \A k \in 1 .. t : body[2 + k] = topic[k]
  <2> SUFFICES ASSUME NEW k \in 1 .. t PROVE body[2 + k] = topic[k]
    OBVIOUS
  <2>1. 2 + k \in 1 .. 2 + t
    OBVIOUS
  <2> QED
    BY <1>1, <1>5, <2>1
<1>8. wide = 2 => WordAt(body, 2 + t) = id
  <2> SUFFICES ASSUME wide = 2 PROVE WordAt(body, 2 + t) = id
    OBVIOUS
  <2>1. body[2 + t + 1] = i[1] /\ body[2 + t + 2] = i[2]
    <3>1. 1 \in 1 .. wide /\ 2 \in 1 .. wide
      OBVIOUS
    <3> QED
      BY <1>5, <3>1, Zenon
  <2> QED
    BY <1>3, <2>1, ZenonT(60) DEF WordAt
<1> QED
  BY <1>1, <1>2, <1>5, <1>6, <1>7, <1>8, ZenonT(60) DEF Parts

(* What of a PUBLISH stands in a buffer that shows it, as far as length    *)
(* bytes of it reach.                                                      *)
Laid(buf, length, h, topic, wide, id, data) ==
  /\ HeaderEnd(buf, length) = IF length >= h THEN h ELSE length
  /\ length >= h => mqtt_get_total_length(buf, length)
                      = h + 2 + Len(topic) + wide + Len(data)
  /\ length >= h + 2 => WordAt(buf, h) = Len(topic)
  /\ \A k \in 1 .. Len(topic) : h + 2 + k <= length => buf[h + 2 + k] = topic[k]
  /\ wide = 2 /\ h + 2 + Len(topic) + 2 <= length =>
       WordAt(buf, h + 2 + Len(topic)) = id
  /\ \A k \in 1 .. Len(data) : h + 2 + Len(topic) + wide + k <= length =>
       buf[h + 2 + Len(topic) + wide + k] = data[k]

LEMMA PublishLaid ==
  ASSUME NEW m, NEW first, NEW body, NEW h, NEW buf, NEW length,
         Framed(m, first, body, h), Shows(buf, length, m),
         NEW topic \in Seq(Nat), NEW data \in Seq(Nat), NEW wide \in {0, 2},
         NEW id, Parts(body, topic, wide, id, data)
  PROVE  /\ Laid(buf, length, h, topic, wide, id, data)
         /\ Len(m) = h + 2 + Len(topic) + wide + Len(data)
<1>1. PICK t \in Nat, d \in Nat : t = Len(topic) /\ d = Len(data)
  OBVIOUS
<1>2. /\ h \in 2 .. 3 /\ Len(m) = h + 2 + t + wide + d
      /\ Len(body) = 2 + t + wide + d
      /\ \A k \in 1 .. 2 + t + wide + d : m[h + k] = body[k]
  BY <1>1 DEF Framed, Parts
<1>3. length \in Nat /\ \A i \in 1 .. length : i <= h + 2 + t + wide + d => buf[i] = m[i]
  BY <1>2, SMTT(60) DEF Shows
<1>4. ASSUME NEW k \in 1 .. 2 + t + wide + d, h + k <= length
      PROVE  buf[h + k] = body[k]
  <2>1. h + k \in 1 .. length /\ h + k <= h + 2 + t + wide + d
    BY <1>2, <1>3, <1>4
  <2> QED
    BY <1>2, <1>3, <2>1
<1>5. /\ HeaderEnd(buf, length) = IF length >= h THEN h ELSE length
      /\ length >= h => mqtt_get_total_length(buf, length) = h + 2 + t + wide + d
  <2>1. CASE length >= h
    <3>0. length >= h => /\ HeaderEnd(buf, length) = h
                         /\ mqtt_get_total_length(buf, length) = Len(m)
      BY HeaderRead
    <3>1. HeaderEnd(buf, length) = h /\ mqtt_get_total_length(buf, length) = Len(m)
      BY <2>1, <3>0, Zenon
    <3> QED
      BY <1>2, <2>1, <3>1
  <2>2. CASE ~(length >= h)
    <3>1. length < h
      BY <1>2, <1>3, <2>2
    <3> QED
      BY <2>2, <3>1, HeaderRead
  <2> QED
    BY <2>1, <2>2
<1>6. length >= h + 2 => WordAt(buf, h) = t
  <2> SUFFICES ASSUME length >= h + 2 PROVE WordAt(buf, h) = t
    OBVIOUS
  <2>1. 1 \in 1 .. 2 + t + wide + d /\ 2 \in 1 .. 2 + t + wide + d /\ h + 1 <= length
    BY <1>2, <1>3
  <2>2. buf[h + 1] = body[1] /\ buf[h + 2] = body[2]
    BY <1>4, <2>1
  <2>3. 256 * body[0 + 1] + body[0 + 2] = t
    BY <1>1 DEF Parts, WordAt
  <2> QED
    BY <2>2, <2>3 DEF WordAt
<1>7. ASSUME NEW k \in 1 .. t, h + 2 + k <= length PROVE buf[h + 2 + k] = topic[k]
  <2>1. 2 + k \in 1 .. 2 + t + wide + d /\ h + (2 + k) <= length /\ h + 2 + k = h + (2 + k)
    BY <1>2, <1>7
  <2>2. buf[h + (2 + k)] = body[2 + k]
    BY <1>4, <2>1
  <2>3. body[2 + k] = topic[k]
    BY <1>1 DEF Parts
  <2> QED
    BY <2>1, <2>2, <2>3
<1>8. ASSUME wide = 2, h + 2 + t + 2 <= length PROVE WordAt(buf, h + 2 + t) = id
  <2>1. /\ 2 + t + 1 \in 1 .. 2 + t + wide + d /\ 2 + t + 2 \in 1 .. 2 + t + wide + d
        /\ h + (2 + t + 1) <= length /\ h + (2 + t + 2) <= length
        /\ h + 2 + t + 1 = h + (2 + t + 1) /\ h + 2 + t + 2 = h + (2 + t + 2)
    BY <1>2, <1>3, <1>8
  <2>2. buf[h + 2 + t + 1] = body[2 + t + 1] /\ buf[h + 2 + t + 2] = body[2 + t + 2]
    BY <1>4, <2>1, SMTT(60)
  <2>3. 256 * body[2 + t + 1] + body[2 + t + 2] = id
    BY <1>1, <1>8 DEF Parts, WordAt
  <2> QED
    BY <2>2, <2>3 DEF WordAt
<1>9. ASSUME NEW k \in 1 .. d, h + 2 + t + wide + k <= length
      PROVE  buf[h + 2 + t + wide + k] = data[k]
  <2>1. /\ 2 + t + wide + k \in 1 .. 2 + t + wide + d
        /\ h + (2 + t + wide + k) <= length
        /\ h + 2 + t + wide + k = h + (2 + t + wide + k)
    BY <1>2, <1>9
  <2>2. buf[h + (2 + t + wide + k)] = body[2 + t + wide + k]
    BY <1>4, <2>1
  <2>3. body[2 + t + wide + k] = data[k]
    BY <1>1 DEF Parts
  <2> QED
    BY <2>1, <2>2, <2>3
<1> QED
  BY <1>1, <1>2, <1>5, <1>6, <1>7, <1>8, <1>9 DEF Laid

(* What stands in a sequence is cut out of it.                             *)
LEMMA CutOut ==
  ASSUME NEW s \in Seq(Nat), NEW t \in Seq(Nat), NEW i \in Nat, NEW j,
         j = i + Len(t), j <= Len(s), \A k \in 1 .. Len(t) : s[i + k] = t[k]
  PROVE  SubSeq(s, i + 1, j) = t
<1> DEFINE part == SubSeq(s, i + 1, i + Len(t))
<1>1. \A n \in i + 1 .. i + Len(t) : s[n] \in Nat
  OBVIOUS
<1>2. /\ part \in Seq(Nat) /\ Len(part) = Len(t)
      /\ \A k \in 1 .. Len(t) : part[k] = s[i + k]
  <2>1. i + 1 \in Int /\ i + Len(t) \in Int /\ Len(t) \in Nat
    OBVIOUS
  <2>2. /\ part \in Seq(Nat)
        /\ Len(part) = IF i + 1 <= i + Len(t) THEN (i + Len(t)) - (i + 1) + 1 ELSE 0
        /\ \A k \in 1 .. (i + Len(t)) - (i + 1) + 1 : part[k] = s[(i + 1) + k - 1]
    BY <1>1, <2>1, SubSeqProperties
  <2> HIDE DEF part
  <2>3. \A k \in 1 .. Len(t) : (i + 1) + k - 1 = i + k
    BY <2>1
  <2> QED
    BY <2>1, <2>2, <2>3, SMTT(60)
<1> HIDE DEF part
<1>3. Len(part) = Len(t) /\ \A k \in 1 .. Len(part) : part[k] = t[k]
  BY <1>2
<1>4. part = t
  BY <1>2, <1>3, SeqEqual
<1> QED
  BY <1>4 DEF part

LEMMA SubSeqOf ==
  ASSUME NEW S, NEW s \in Seq(S), NEW i \in Nat, NEW j \in Nat, j <= Len(s)
  PROVE  /\ SubSeq(s, i + 1, j) \in Seq(S)
         /\ Len(SubSeq(s, i + 1, j)) = IF i <= j THEN j - i ELSE 0
         /\ \A k \in 1 .. j - i : SubSeq(s, i + 1, j)[k] = s[i + k]
<1>1. \A n \in i + 1 .. j : s[n] \in S
  OBVIOUS
<1>2. i + 1 \in Int /\ j \in Int
  OBVIOUS
<1>3. /\ SubSeq(s, i + 1, j) \in Seq(S)
      /\ Len(SubSeq(s, i + 1, j)) = IF i + 1 <= j THEN j - (i + 1) + 1 ELSE 0
      /\ \A k \in 1 .. j - (i + 1) + 1 : SubSeq(s, i + 1, j)[k] = s[(i + 1) + k - 1]
  BY <1>1, <1>2, SubSeqProperties
<1>4. (i + 1 <= j) => j - (i + 1) + 1 = j - i
  OBVIOUS
<1>5. ~(i + 1 <= j) => (i <= j => j - i = 0)
  OBVIOUS
<1>6. Len(SubSeq(s, i + 1, j)) = IF i <= j THEN j - i ELSE 0
  <2> DEFINE l == Len(SubSeq(s, i + 1, j))
  <2>1. l = IF i + 1 <= j THEN j - (i + 1) + 1 ELSE 0
    BY <1>3
  <2> HIDE DEF l
  <2>2. l = IF i <= j THEN j - i ELSE 0
    BY <2>1
  <2> QED
    BY <2>2 DEF l
<1>7. ASSUME NEW k \in 1 .. j - i PROVE SubSeq(s, i + 1, j)[k] = s[i + k]
  <2>1. k \in 1 .. j - (i + 1) + 1 /\ (i + 1) + k - 1 = i + k
    OBVIOUS
  <2> QED
    BY <1>3, <2>1, Zenon
<1> QED
  BY <1>3, <1>6, <1>7

(* The three reads of a received PUBLISH.                                  *)
LEMMA TopicRead ==
  ASSUME NEW buf \in Seq(Nat), NEW length \in 1 .. Len(buf), NEW h \in 2 .. 3,
         NEW topic \in Seq(Nat), NEW wide \in {0, 2}, NEW id, NEW data \in Seq(Nat),
         Laid(buf, length, h, topic, wide, id, data), topic # << >>
  PROVE  /\ \/ mqtt_get_publish_topic(buf, length) = NULL
            \/ mqtt_get_publish_topic(buf, length) = topic /\ h + 2 + Len(topic) <= length
         /\ h + 2 + Len(topic) <= length =>
              mqtt_get_publish_topic(buf, length) = topic
<1>1. PICK t \in Nat : t = Len(topic) /\ t > 0
  OBVIOUS
<1>2. length \in Nat
  OBVIOUS
<1>3. CASE ~(length >= h)
  <2>1. HeaderEnd(buf, length) = length
    BY <1>3 DEF Laid
  <2>2. mqtt_get_publish_topic(buf, length) = NULL
    BY <2>1 DEF mqtt_get_publish_topic
  <2>3. ~(h + 2 + t <= length)
    BY <1>3
  <2> QED
    BY <1>1, <2>2, <2>3
<1>4. CASE length >= h /\ h + 2 >= length
  <2>1. HeaderEnd(buf, length) = h
    BY <1>4 DEF Laid
  <2>2. mqtt_get_publish_topic(buf, length) = NULL
    BY <1>4, <2>1 DEF mqtt_get_publish_topic
  <2>3. ~(h + 2 + t <= length)
    BY <1>1, <1>4
  <2> QED
    BY <1>1, <2>2, <2>3
<1>5. CASE length > h + 2
  <2>0. length >= h /\ length >= h + 2 /\ ~(h + 2 >= length)
    BY <1>5
  <2>1. HeaderEnd(buf, length) = h /\ WordAt(buf, h) = t
    BY <1>1, <2>0 DEF Laid
  <2>2. mqtt_get_publish_topic(buf, length)
          = IF h + 2 + t > length THEN NULL ELSE SubSeq(buf, h + 3, h + 2 + t)
    BY <2>0, <2>1 DEF mqtt_get_publish_topic
  <2>3. CASE h + 2 + t > length
    BY <1>1, <2>2, <2>3
  <2>4. CASE ~(h + 2 + t > length)
    <3>1. \A k \in 1 .. t : buf[(h + 2) + k] = topic[k]
      <4> SUFFICES ASSUME NEW k \in 1 .. t PROVE buf[(h + 2) + k] = topic[k]
        OBVIOUS
      <4>1. h + 2 + k <= length
        BY <2>4
      <4> QED
        BY <1>1, <4>1 DEF Laid
    <3>2. h + 2 \in Nat /\ (h + 2) + t <= Len(buf) /\ (h + 2) + 1 = h + 3
      BY <2>4
    <3>3. SubSeq(buf, (h + 2) + 1, h + 2 + t) = topic
      BY <1>1, <3>1, <3>2, CutOut, ZenonT(60)
    <3>4. mqtt_get_publish_topic(buf, length) = topic
      BY <2>2, <2>4, <3>2, <3>3, Zenon
    <3>5. h + 2 + t <= length
      BY <2>4
    <3> QED
      BY <1>1, <3>4, <3>5
  <2> QED
    BY <2>3, <2>4
<1> QED
  BY <1>2, <1>3, <1>4, <1>5

LEMMA MinOfTwo ==
  ASSUME NEW a \in Nat, NEW b \in Nat
  PROVE  Min({a, b}) = IF a <= b THEN a ELSE b
<1> DEFINE x == CHOOSE x \in {a, b} : \A y \in {a, b} : x <= y
<1>1. \E m \in {a, b} : \A y \in {a, b} : m <= y
  OBVIOUS
<1>2. x \in {a, b} /\ \A y \in {a, b} : x <= y
  BY <1>1, Zenon
<1>3. Min({a, b}) = x
  BY Zenon DEF Min
<1> HIDE DEF x
<1> QED
  BY <1>2, <1>3

LEMMA PrefixIs ==
  ASSUME NEW S, NEW r \in Seq(S), NEW d \in Seq(S), Len(r) <= Len(d),
         \A k \in 1 .. Len(r) : r[k] = d[k]
  PROVE  IsPrefix(r, d)
<1>1. PICK n \in Nat : n = Len(r)
  OBVIOUS
<1>2. PICK p : p = SubSeq(r, 0 + 1, n)
  OBVIOUS
<1>3. PICK q : q = SubSeq(d, 0 + 1, n)
  OBVIOUS
<1>4. p \in Seq(S) /\ Len(p) = n /\ \A k \in 1 .. n : p[k] = r[0 + k]
  BY <1>1, <1>2, SubSeqOf
<1>5. q \in Seq(S) /\ Len(q) = n /\ \A k \in 1 .. n : q[k] = d[0 + k]
  BY <1>1, <1>3, SubSeqOf
<1>6. \A k \in 1 .. Len(p) : p[k] = q[k]
  BY <1>1, <1>4, <1>5
<1>7. p = q
  BY <1>4, <1>5, <1>6, SeqEqual
<1>8. SubSeq(r, 1, Len(r)) = SubSeq(d, 1, Len(r))
  BY <1>1, <1>2, <1>3, <1>7
<1> QED
  BY <1>8 DEF IsPrefix

LEMMA DataRead ==
  ASSUME NEW buf \in Seq(Nat), NEW length \in 1 .. Len(buf), NEW h \in 2 .. 3,
         NEW topic \in Seq(Nat), NEW qos \in 0 .. 2, NEW id, NEW data \in Seq(Nat),
         Laid(buf, length, h, topic, Wide(qos), id, data), topic # << >>,
         mqtt_get_qos(buf) = qos, h + 2 + Len(topic) <= length
  PROVE  /\ IsPrefix(mqtt_get_publish_data(buf, length), data)
         /\ h + 2 + Len(topic) + Wide(qos) + Len(data) <= length =>
              mqtt_get_publish_data(buf, length) = data
<1>1. PICK t \in Nat, d \in Nat, wide \in {0, 2} :
        t = Len(topic) /\ t > 0 /\ d = Len(data) /\ wide = Wide(qos)
  BY DEF Wide
<1>2. length \in Nat /\ length >= h + 2 /\ length >= h /\ ~(h + 2 >= length)
      /\ h + 2 + t <= length /\ length <= Len(buf)
  BY <1>1
<1> DEFINE at == h + 2 + t
           from == at + wide
           total == from + d
           got == mqtt_get_publish_data(buf, length)
<1>3. HeaderEnd(buf, length) = h /\ WordAt(buf, h) = t
      /\ mqtt_get_total_length(buf, length) = total
  BY <1>1, <1>2 DEF Laid
<1>4. from = IF qos > 0 THEN at + 2 ELSE at
  BY <1>1, SMTT(60) DEF Wide
<1>5. got = IF at >= length \/ (qos > 0 /\ from >= length) \/ total < from
            THEN << >> ELSE SubSeq(buf, from + 1, Min({total, length}))
  <2>1. from = IF mqtt_get_qos(buf) > 0 THEN at + 2 ELSE at
    BY <1>4
  <2> QED
    BY <1>2, <1>3, <2>1 DEF mqtt_get_publish_data
<1>6. \A k \in 1 .. d : from + k <= length => buf[from + k] = data[k]
  <2>1. \A k \in 1 .. Len(data) : h + 2 + Len(topic) + Wide(qos) + k <= length =>
          buf[h + 2 + Len(topic) + Wide(qos) + k] = data[k]
    BY Zenon DEF Laid
  <2>2. \A k \in 1 .. d : h + 2 + t + wide + k <= length =>
          buf[h + 2 + t + wide + k] = data[k]
    BY <1>1, <2>1, Zenon
  <2> QED
    BY <2>2
<1>7. from \in Nat /\ total \in Nat /\ at \in Nat /\ ~(total < from) /\ total = from + d
      /\ (~(qos > 0) => wide = 0)
  <2>1. ~(qos > 0) => wide = 0
    BY <1>1 DEF Wide
  <2>2. h \in Nat /\ t \in Nat /\ wide \in Nat /\ d \in Nat
    OBVIOUS
  <2> QED
    BY <2>1, <2>2
<1>8. total = h + 2 + Len(topic) + Wide(qos) + Len(data)
  BY <1>1
<1> HIDE DEF at, from, total, got
<1>9. CASE at >= length \/ (qos > 0 /\ from >= length)
  <2>1. got = << >>
    BY <1>5, <1>9
  <2>2. from >= length
    BY <1>2, <1>7, <1>9 DEF at, from
  <2>3. total <= length => data = << >>
    <3> SUFFICES ASSUME total <= length PROVE data = << >>
      OBVIOUS
    <3>1. d = 0
      BY <1>2, <1>7, <2>2
    <3>2. Len(data) = 0
      BY <1>1, <3>1
    <3> QED
      BY <3>2, EmptySeq
  <2>4. IsPrefix(<< >>, data)
    <3>1. << >> \in Seq(Nat) /\ Len(<< >>) = 0
      OBVIOUS
    <3>2. Len(<< >>) <= Len(data) /\ \A k \in 1 .. Len(<< >>) : << >>[k] = data[k]
      BY <3>1
    <3> QED
      BY <3>1, <3>2, PrefixIs
  <2> QED
    BY <1>8, <2>1, <2>3, <2>4 DEF got
<1>10. CASE ~(at >= length \/ (qos > 0 /\ from >= length))
  <2>1. got = SubSeq(buf, from + 1, Min({total, length}))
    BY <1>5, <1>7, <1>10
  <2>2. from < length
    <3>1. CASE qos > 0
      BY <1>2, <1>7, <1>10, <3>1
    <3>2. CASE ~(qos > 0)
      BY <1>2, <1>7, <1>10, <3>2 DEF at, from
    <3> QED
      BY <3>1, <3>2
  <2>3. CASE total <= length
    <3>1. Min({total, length}) = total
      BY <1>2, <1>7, <2>3, MinOfTwo
    <3>2. SubSeq(buf, from + 1, total) = data
      <4>1. \A k \in 1 .. Len(data) : buf[from + k] = data[k]
        BY <1>1, <1>2, <1>6, <1>7, <2>3, SMTT(60)
      <4>2. total = from + Len(data) /\ total <= Len(buf)
        BY <1>1, <1>2, <1>7, <2>3
      <4> QED
        BY <1>7, <4>1, <4>2, CutOut
    <3>3. got = data
      BY <2>1, <3>1, <3>2, Zenon
    <3>4. IsPrefix(data, data)
      BY PrefixIs
    <3> QED
      BY <3>3, <3>4 DEF got
  <2>4. CASE ~(total <= length)
    <3>1. Min({total, length}) = length
      BY <1>2, <1>7, <2>4, MinOfTwo
    <3>2. got = SubSeq(buf, from + 1, length)
      BY <2>1, <3>1, Zenon
    <3>3. /\ got \in Seq(Nat) /\ Len(got) = IF from <= length THEN length - from ELSE 0
          /\ \A k \in 1 .. length - from : got[k] = buf[from + k]
      <4>1. from \in Nat /\ length \in Nat /\ length <= Len(buf)
        BY <1>2, <1>7
      <4>2. /\ SubSeq(buf, from + 1, length) \in Seq(Nat)
            /\ Len(SubSeq(buf, from + 1, length)) = IF from <= length THEN length - from ELSE 0
            /\ \A k \in 1 .. length - from : SubSeq(buf, from + 1, length)[k] = buf[from + k]
        BY <4>1, SubSeqOf, SMTT(60)
      <4> QED
        BY <3>2, <4>2, Zenon
    <3>4. Len(got) = length - from /\ length - from <= d
      <4>1. from <= length /\ length - from <= d
        BY <1>2, <1>7, <2>2, <2>4
      <4> QED
        BY <3>3, <4>1
    <3>5. \A k \in 1 .. length - from : got[k] = data[k]
      <4> SUFFICES ASSUME NEW k \in 1 .. length - from PROVE got[k] = data[k]
        OBVIOUS
      <4>1. k \in 1 .. d /\ from + k <= length
        BY <1>2, <1>7, <3>4
      <4> QED
        BY <1>6, <3>3, <4>1
    <3>6. IsPrefix(got, data)
      BY <1>1, <3>3, <3>4, <3>5, PrefixIs
    <3> QED
      BY <1>8, <2>4, <3>6 DEF got
  <2> QED
    BY <2>3, <2>4
<1> QED
  BY <1>9, <1>10

LEMMA IdRead ==
  ASSUME NEW buf \in Seq(Nat), NEW length \in 1 .. Len(buf), NEW h \in 2 .. 3,
         NEW topic \in Seq(Nat), NEW qos \in 1 .. 2, NEW id, NEW data \in Seq(Nat),
         Laid(buf, length, h, topic, Wide(qos), id, data), topic # << >>,
         mqtt_get_type(buf) = PUBLISH, mqtt_get_qos(buf) = qos,
         h + 2 + Len(topic) + 2 < length
  PROVE  mqtt_get_id(buf, length) = id
<1>1. PICK t \in Nat : t = Len(topic) /\ t > 0
  OBVIOUS
<1>2. /\ length \in Nat /\ length >= h + 2 /\ length >= h /\ ~(h + 2 >= length)
      /\ ~(h + 2 + t >= length) /\ ~(h + 2 + t + 2 >= length)
      /\ h + 2 + t + 2 <= length
  BY <1>1, SMTT(60)
<1>3. Wide(qos) = 2 /\ qos # 0
  BY DEF Wide
<1>4. HeaderEnd(buf, length) = h /\ WordAt(buf, h) = t
  BY <1>1, <1>2 DEF Laid
<1>5. WordAt(buf, h + 2 + t) = id
  <2>1. Wide(qos) = 2 /\ h + 2 + Len(topic) + 2 <= length =>
          WordAt(buf, h + 2 + Len(topic)) = id
    BY Zenon DEF Laid
  <2> QED
    BY <1>1, <1>2, <1>3, <2>1, Zenon
<1>6. PICK i, at : i = h /\ at = h + 2 + t
  OBVIOUS
<1>7. /\ ~(i + 2 >= length) /\ ~(at >= length) /\ mqtt_get_qos(buf) # 0
      /\ ~(at + 2 >= length) /\ WordAt(buf, at) = id
  BY <1>2, <1>3, <1>5, <1>6
<1>8. HeaderEnd(buf, length) = i /\ i + 2 + WordAt(buf, i) = at
  BY <1>4, <1>6, Zenon
<1>9. mqtt_get_id(buf, length) =
        IF \/ i + 2 >= length \/ at >= length
           \/ mqtt_get_qos(buf) = 0 \/ at + 2 >= length
        THEN 0 ELSE WordAt(buf, at)
  <2>1. mqtt_get_type(buf) \notin {PUBACK, PUBREC, PUBREL, PUBCOMP, SUBACK,
                                  UNSUBACK, SUBSCRIBE}
    BY DEF PUBLISH, PUBACK, PUBREC, PUBREL, PUBCOMP, SUBACK, UNSUBACK, SUBSCRIBE
  <2> QED
    BY <1>8, <2>1 DEF mqtt_get_id
<1> QED
  BY <1>7, <1>9

(* All of it, for a PUBLISH the broker sends or the client builds.         *)
PublishReads(buf, length, topic, qos, id, data, full) ==
  /\ mqtt_get_type(buf) = PUBLISH /\ mqtt_get_qos(buf) = qos
  /\ mqtt_get_total_length(buf, length) \in Nat
  /\ full <= length =>
       /\ mqtt_get_publish_topic(buf, length) = topic
       /\ mqtt_get_publish_data(buf, length) = data
       /\ mqtt_get_total_length(buf, length) = full
       /\ qos > 0 /\ (full < length \/ data # << >>) =>
            mqtt_get_id(buf, length) = id
  /\ length < full =>
       /\ \/ mqtt_get_publish_topic(buf, length) = NULL
          \/ /\ mqtt_get_publish_topic(buf, length) = topic
             /\ IsPrefix(mqtt_get_publish_data(buf, length), data)
       /\ mqtt_get_total_length(buf, length) >= length

LEMMA FirstIs ==
  ASSUME NEW type \in 0 .. 15, NEW qos \in 0 .. 2, NEW retain \in 0 .. 1
  PROVE  /\ First(type, qos, retain) \in 0 .. 255
         /\ First(type, qos, retain) \div 16 = type
         /\ (First(type, qos, retain) \div 2) % 4 = qos
<1>1. First(type, qos, retain) \in 0 .. 255
  BY DEF First
<1>2. First(type, qos, retain) \div 16 = type
  BY SMTT(30) DEF First
<1>3. First(type, qos, retain) \div 2 = 8 * type + qos
  BY SMTT(30) DEF First
<1>4. (8 * type + qos) % 4 = qos
  BY SMTT(30)
<1> QED
  BY <1>1, <1>2, <1>3, <1>4

LEMMA PublishIsRead ==
  ASSUME NEW topic \in Seq(Nat), NEW data \in Seq(Nat), NEW qos \in 0 .. 2,
         NEW retain \in 0 .. 1, NEW id \in Nat, NEW m,
         m = mqtt_msg_publish(topic, data, qos, retain, id), m # << >>,
         topic # << >>, NEW buf, NEW length, Shows(buf, length, m)
  PROVE  /\ m \in Seq(Nat) /\ Len(m) > 0 /\ Len(m) <= BufferLength
         /\ PublishReads(buf, length, topic, qos, id, data, Len(m))
<1>1. PICK body \in Seq(Nat) :
        /\ body = append_string(topic)
                  \o (IF qos > 0 THEN WordBytes(id) ELSE << >>) \o data
        /\ Parts(body, topic, Wide(qos), id, data)
  BY BodyIs
<1>2. m = fini_message(PUBLISH, qos, retain, body)
  BY <1>1 DEF mqtt_msg_publish
<1> DEFINE first == First(PUBLISH, qos, retain)
<1>3. PICK h \in 2 .. 3 : Framed(m, first, body, h)
  <2>1. PUBLISH \in Nat /\ qos \in Nat /\ retain \in Nat
    BY DEF PUBLISH
  <2> QED
    BY <1>2, <2>1, FiniIs
<1>4. Wide(qos) \in {0, 2}
  BY DEF Wide
<1>5. /\ Laid(buf, length, h, topic, Wide(qos), id, data)
      /\ Len(m) = h + 2 + Len(topic) + Wide(qos) + Len(data)
  BY <1>1, <1>3, <1>4, PublishLaid, SMTT(60)
<1>6. buf \in Seq(Nat) /\ length \in 1 .. Len(buf)
  BY DEF Shows
<1>7. m \in Seq(Nat) /\ Len(m) <= BufferLength
  BY <1>3 DEF Framed
<1>8. PICK t \in Nat, d \in Nat, wide \in {0, 2} :
        t = Len(topic) /\ t > 0 /\ d = Len(data) /\ wide = Wide(qos)
  BY <1>4
<1>9. Len(m) = h + 2 + t + wide + d /\ Len(m) > 0
  BY <1>5, <1>8, SMTT(60)
<1>10. mqtt_get_type(buf) = PUBLISH /\ mqtt_get_qos(buf) = qos
  <2>1. buf[1] = first
    BY <1>3, HeaderRead
  <2>2. PUBLISH \in 0 .. 15
    BY SMTT(60) DEF PUBLISH
  <2>3. first \div 16 = PUBLISH /\ (first \div 2) % 4 = qos
    BY <2>2, FirstIs, ZenonT(60)
  <2> HIDE DEF first
  <2> QED
    BY <2>1, <2>3 DEF mqtt_get_type, mqtt_get_qos
<1>11. length < h => /\ mqtt_get_total_length(buf, length) \in Nat
                     /\ mqtt_get_total_length(buf, length) >= length
  BY <1>3, HeaderRead
<1>12. length >= h => mqtt_get_total_length(buf, length) = Len(m)
  BY <1>3, HeaderRead
<1>13. mqtt_get_total_length(buf, length) \in Nat
  BY <1>6, <1>7, <1>11, <1>12, SMTT(60)
<1>14. /\ \/ mqtt_get_publish_topic(buf, length) = NULL
          \/ mqtt_get_publish_topic(buf, length) = topic /\ h + 2 + t <= length
       /\ h + 2 + t <= length => mqtt_get_publish_topic(buf, length) = topic
  <2>1. /\ \/ mqtt_get_publish_topic(buf, length) = NULL
           \/ mqtt_get_publish_topic(buf, length) = topic /\ h + 2 + Len(topic) <= length
        /\ h + 2 + Len(topic) <= length =>
             mqtt_get_publish_topic(buf, length) = topic
    BY <1>4, <1>5, <1>6, TopicRead, ZenonT(60)
  <2> QED
    BY <1>8, <2>1, Zenon
<1>15. h + 2 + t <= length =>
         /\ IsPrefix(mqtt_get_publish_data(buf, length), data)
         /\ h + 2 + t + wide + d <= length =>
              mqtt_get_publish_data(buf, length) = data
  <2>1. h + 2 + Len(topic) <= length =>
          /\ IsPrefix(mqtt_get_publish_data(buf, length), data)
          /\ h + 2 + Len(topic) + Wide(qos) + Len(data) <= length =>
               mqtt_get_publish_data(buf, length) = data
    BY <1>5, <1>6, <1>10, DataRead, ZenonT(60)
  <2> QED
    BY <1>8, <2>1, Zenon
<1>16. CASE Len(m) <= length
  <2>1. length >= h /\ h + 2 + t <= length /\ h + 2 + t + wide + d <= length
        /\ ~(length < Len(m))
    <3>1. PICK n \in Nat, l \in Nat : n = Len(m) /\ l = length
      BY <1>6, <1>7
    <3>2. n = h + 2 + t + wide + d /\ n <= l
      BY <1>9, <1>16, <3>1, Zenon
    <3>3. l >= h /\ h + 2 + t <= l /\ h + 2 + t + wide + d <= l /\ ~(l < n)
      BY <3>2
    <3> QED
      BY <3>1, <3>3, Zenon
  <2>2. qos > 0 /\ (Len(m) < length \/ data # << >>) => mqtt_get_id(buf, length) = id
    <3> SUFFICES ASSUME qos > 0, Len(m) < length \/ data # << >>
                 PROVE  mqtt_get_id(buf, length) = id
      OBVIOUS
    <3>1. qos \in 1 .. 2 /\ wide = 2
      BY <1>8 DEF Wide
    <3>2. d > 0 \/ Len(m) < length
      BY <1>8
    <3>3. h + 2 + t + 2 < length
      BY <1>6, <1>9, <1>16, <3>1, <3>2
    <3> QED
      BY <1>5, <1>6, <1>8, <1>10, <3>1, <3>3, IdRead
  <2> QED
    BY <1>7, <1>9, <1>10, <1>12, <1>13, <1>14, <1>15, <1>16, <2>1, <2>2 DEF PublishReads
<1>17. CASE length < Len(m)
  <2>1. ~(Len(m) <= length)
    BY <1>6, <1>9, <1>17
  <2>2. mqtt_get_total_length(buf, length) >= length
    <3>1. CASE length < h
      BY <1>11, <3>1
    <3>2. CASE length >= h
      BY <1>6, <1>9, <1>12, <1>17, <3>2
    <3> QED
      BY <1>6, <3>1, <3>2
  <2> QED
    BY <1>7, <1>9, <1>10, <1>13, <1>14, <1>15, <1>17, <2>1, <2>2 DEF PublishReads
<1> QED
  BY <1>6, <1>9, <1>16, <1>17

(* For topic and data of every length, every id, quality and retain flag:  *)
(* the accessors of mqtt_msg.c find in a PUBLISH what it was built from,   *)
(* whatever lies behind it in the buffer: other packets of the segment or  *)
(* what in_buffer held before.  The id is found if the packet does not     *)
(* end where the buffer does, or has data.                                 *)
THEOREM PublishFound ==
  ASSUME NEW topic \in Seq(Nat), topic # << >>, NEW data \in Seq(Nat),
         NEW qos \in 0 .. 2, NEW retain \in 0 .. 1, NEW id \in Nat,
         NEW m, m = mqtt_msg_publish(topic, data, qos, retain, id), m # << >>,
         NEW buf \in Seq(Nat), NEW length \in 1 .. Len(buf),
         Len(m) <= length, \A i \in 1 .. Len(m) : buf[i] = m[i]
  PROVE  /\ mqtt_get_type(buf) = PUBLISH /\ mqtt_get_qos(buf) = qos
         /\ mqtt_get_publish_topic(buf, length) = topic
         /\ mqtt_get_publish_data(buf, length) = data
         /\ mqtt_get_total_length(buf, length) = Len(m)
         /\ qos > 0 /\ (Len(m) < length \/ data # << >>) =>
              mqtt_get_id(buf, length) = id
<1>1. \E first, body : \E h \in 2 .. 3 : Framed(m, first, body, h)
  <2>1. PICK body : body = append_string(topic)
                           \o (IF qos > 0 THEN WordBytes(id) ELSE << >>) \o data
    OBVIOUS
  <2>2. body \in Seq(Nat)
    BY <2>1, BodyIs
  <2>3. m = fini_message(PUBLISH, qos, retain, body)
    BY <2>1, Zenon DEF mqtt_msg_publish
  <2>4. PUBLISH \in Nat /\ qos \in Nat /\ retain \in Nat
    BY DEF PUBLISH
  <2>5. fini_message(PUBLISH, qos, retain, body) # << >>
    BY <2>3, Zenon
  <2>6. PICK h \in 2 .. 3 : Framed(fini_message(PUBLISH, qos, retain, body),
                                  First(PUBLISH, qos, retain), body, h)
    BY <2>2, <2>4, <2>5, FiniIs
  <2>7. Framed(m, First(PUBLISH, qos, retain), body, h)
    BY <2>3, <2>6, Zenon
  <2> QED
    BY <2>7, Zenon
<1>2. Len(m) \in Nat
  BY <1>1 DEF Framed
<1>3. Shows(buf, length, m)
  <2>1. ASSUME NEW i \in 1 .. length, i <= Len(m) PROVE buf[i] = m[i]
    <3>1. i \in 1 .. Len(m)
      BY <1>2, <2>1
    <3> QED
      BY <3>1
  <2> QED
    BY <2>1 DEF Shows
<1>4. PublishReads(buf, length, topic, qos, id, data, Len(m))
  BY <1>3, PublishIsRead
<1> QED
  BY <1>4, Zenon DEF PublishReads

(* Of a PUBLISH that did not arrive as a whole the topic is found as a     *)
(* whole or not at all, the data is a start of its data, and the packet    *)
(* seems to end where the segment does or behind it, whatever the rest of  *)
(* the buffer holds.                                                       *)
THEOREM CutPublishFound ==
  ASSUME NEW topic \in Seq(Nat), topic # << >>, NEW data \in Seq(Nat),
         NEW qos \in 0 .. 2, NEW retain \in 0 .. 1, NEW id \in Nat,
         NEW m, m = mqtt_msg_publish(topic, data, qos, retain, id), m # << >>,
         NEW buf \in Seq(Nat), NEW length \in 1 .. Len(buf),
         length < Len(m), \A i \in 1 .. length : buf[i] = m[i]
  PROVE  /\ mqtt_get_type(buf) = PUBLISH /\ mqtt_get_qos(buf) = qos
         /\ \/ mqtt_get_publish_topic(buf, length) = NULL
            \/ /\ mqtt_get_publish_topic(buf, length) = topic
               /\ IsPrefix(mqtt_get_publish_data(buf, length), data)
         /\ mqtt_get_total_length(buf, length) >= length
<1>1. Shows(buf, length, m)
  BY DEF Shows
<1>2. PublishReads(buf, length, topic, qos, id, data, Len(m))
  BY <1>1, PublishIsRead
<1> QED
  BY <1>2, Zenon DEF PublishReads

-----------------------------------------------------------------------------
(* The bytes of a message.                                                 *)
LEMMA InSeq ==
  ASSUME NEW S, NEW s \in Seq(S)
  PROVE  Len(s) \in Nat /\ \A i \in 1 .. Len(s) : s[i] \in S
OBVIOUS

LEMMA EmptyIn == ASSUME NEW S PROVE << >> \in Seq(S)
OBVIOUS

LEMMA OneIn == ASSUME NEW S, NEW x \in S PROVE <<x>> \in Seq(S) /\ Len(<<x>>) = 1
OBVIOUS

LEMMA SeqIn ==
  ASSUME NEW S, NEW T, NEW s \in Seq(S), \A i \in 1 .. Len(s) : s[i] \in T
  PROVE  s \in Seq(T)
<1>1. s \in [1 .. Len(s) -> T] /\ Len(s) \in Nat
  OBVIOUS
<1> QED
  BY <1>1, IsASeq

LEMMA Within ==
  ASSUME NEW S, NEW T, S \subseteq T, NEW s \in Seq(S)
  PROVE  s \in Seq(T)
<1>1. \A i \in 1 .. Len(s) : s[i] \in T
  BY InSeq
<1> QED
  BY <1>1, SeqIn

LEMMA Subsets ==
  Letter \subseteq Byte /\ Byte \subseteq Nat /\ Letter \subseteq Nat
BY DEF Letter, Byte

LEMMA ByteIs == ASSUME NEW x \in 0 .. 255 PROVE x \in Byte
BY DEF Byte

LEMMA ByteIsNat ==
  ASSUME NEW s \in Seq(Byte)
  PROVE  s \in Seq(Nat) /\ \A i \in 1 .. Len(s) : s[i] \in Byte
BY InSeq, Subsets, Within

LEMMA LetterIsByte ==
  ASSUME NEW s \in Seq(Letter)
  PROVE  /\ s \in Seq(Byte) /\ s \in Seq(Nat)
         /\ \A i \in 1 .. Len(s) : s[i] \in Byte /\ s[i] < 128
<1>1. \A i \in 1 .. Len(s) : s[i] \in Letter
  BY InSeq
<1>2. \A x \in Letter : x \in Byte /\ x < 128
  BY DEF Byte, Letter
<1>3. s \in Seq(Byte) /\ s \in Seq(Nat)
  BY Subsets, Within
<1> QED
  BY <1>1, <1>2, <1>3

LEMMA ShortHeader ==
  ASSUME NEW m, NEW h, NEW n \in Nat, n <= 127, HeaderBytes(m, h, n)
  PROVE  h = 2 /\ m[2] = n
BY DEF HeaderBytes

LEMMA FramedBytes ==
  ASSUME NEW m, NEW first \in Byte, NEW body \in Seq(Byte), NEW h,
         Framed(m, first, body, h)
  PROVE  m \in Seq(Byte)
<1>1. PICK n \in Nat : n = Len(body)
  OBVIOUS
<1>2. /\ m \in Seq(Nat) /\ h \in 2 .. 3 /\ Len(m) = h + n
      /\ m[1] = first /\ HeaderBytes(m, h, n)
      /\ \A k \in 1 .. n : m[h + k] = body[k]
  BY <1>1 DEF Framed
<1>3. m[2] \in Byte /\ (h = 3 => m[3] \in Byte)
  <2>1. CASE h = 2
    <3>1. n \in 0 .. 127 /\ m[2] = n
      BY <1>2, <2>1 DEF HeaderBytes
    <3>2. n \in Byte
      BY <3>1 DEF Byte
    <3> QED
      BY <2>1, <3>1, <3>2
  <2>2. CASE h = 3
    <3>1. n \in Nat /\ 128 <= n /\ n <= 16383 /\ m[2] = 128 + (n % 128) /\ m[3] = n \div 128
      BY <1>2, <2>2, SMTT(60) DEF HeaderBytes
    <3>2. n % 128 \in 0 .. 127 /\ n \div 128 \in 1 .. 127
      <4>1. n % 128 \in 0 .. 127
        BY SMTT(30)
      <4> QED
        BY <3>1, <4>1, DivMod128
    <3> QED
      BY <3>1, <3>2, SMTT(60) DEF Byte
  <2> QED
    BY <1>2, <2>1, <2>2
<1>4. ASSUME NEW i \in 1 .. Len(m) PROVE m[i] \in Byte
  <2>1. CASE i <= h
    <3>1. i = 1 \/ i = 2 \/ (i = 3 /\ h = 3)
      BY <1>2, <2>1
    <3> QED
      BY <1>2, <1>3, <3>1
  <2>2. CASE ~(i <= h)
    <3>1. i - h \in 1 .. n /\ h + (i - h) = i
      BY <1>2, <2>2
    <3>2. m[i] = body[i - h]
      BY <1>2, <3>1
    <3> QED
      BY <1>1, <3>1, <3>2
  <2> QED
    BY <2>1, <2>2
<1> QED
  BY <1>2, <1>4, SeqIn

(* No two neighbouring bytes that both look as if the remaining length     *)
(* went on.                                                                *)
Tame(s) == \A i \in 1 .. Len(s) - 1 : s[i] < 128 \/ s[i + 1] < 128

LEMMA FramedTame ==
  ASSUME NEW m, NEW first, NEW body \in Seq(Byte), NEW h,
         Framed(m, first, body, h), Tame(body), h = 3 => first < 128,
         body # << >> => body[Len(body)] < 128
  PROVE  Len(m) > 0 /\ Tame(m) /\ m[Len(m)] < 128
<1>1. PICK n \in Nat : n = Len(body)
  OBVIOUS
<1>2. /\ m \in Seq(Nat) /\ h \in 2 .. 3 /\ Len(m) = h + n
      /\ m[1] = first /\ HeaderBytes(m, h, n)
      /\ \A k \in 1 .. n : m[h + k] = body[k]
  BY <1>1 DEF Framed
<1>3. m[h] < 128
  <2>1. CASE h = 2
    BY <1>2, <2>1 DEF HeaderBytes
  <2>2. CASE h = 3
    <3>1. n \in Nat /\ 128 <= n /\ n <= 16383 /\ m[3] = n \div 128
      BY <1>2, <2>2, SMTT(60) DEF HeaderBytes
    <3>2. PICK c \in 1 .. 127 : c = n \div 128
      BY <3>1, DivMod128, SMTT(60)
    <3> QED
      BY <2>2, <3>1, <3>2, SMTT(60)
  <2> QED
    BY <1>2, <2>1, <2>2
<1>4. ASSUME NEW i \in 1 .. Len(m) - 1 PROVE m[i] < 128 \/ m[i + 1] < 128
  <2>1. CASE i < h
    <3>1. i = h - 1 \/ (i = 1 /\ h = 3)
      BY <1>2, <2>1
    <3>2. CASE i = h - 1
      <4>1. i + 1 = h
        BY <1>2, <3>2
      <4> QED
        BY <1>3, <4>1
    <3> QED
      BY <1>2, <3>1, <3>2
  <2>2. CASE i = h
    BY <1>3, <2>2
  <2>3. CASE i > h
    <3>1. /\ i - h \in 1 .. n - 1 /\ h + (i - h) = i
          /\ (i - h) + 1 \in 1 .. n /\ h + ((i - h) + 1) = i + 1 /\ i - h \in 1 .. n
      BY <1>2, <2>3
    <3>2. m[i] = body[i - h] /\ m[i + 1] = body[(i - h) + 1]
      BY <1>2, <3>1, SMTT(60)
    <3>3. body[i - h] < 128 \/ body[(i - h) + 1] < 128
      BY <1>1, <3>1 DEF Tame
    <3> QED
      BY <3>2, <3>3
  <2> QED
    BY <1>2, <2>1, <2>2, <2>3
<1>5. m[Len(m)] < 128
  <2>1. CASE n = 0
    BY <1>2, <1>3, <2>1
  <2>2. CASE n > 0
    <3>1. body # << >> /\ n \in 1 .. n
      BY <1>1, <2>2
    <3>2. m[h + n] = body[n]
      BY <1>2, <3>1
    <3> QED
      BY <1>1, <1>2, <3>1, <3>2
  <2> QED
    BY <2>1, <2>2
<1> QED
  BY <1>2, <1>4, <1>5 DEF Tame

IsWord(w) == w \in Nat /\ w <= 65535

LEMMA WordBytesBytes ==
  ASSUME NEW w, IsWord(w)
  PROVE  w \in Nat /\ WordBytes(w) \in Seq(Byte)
<1>0. w \in Nat /\ w <= 65535
  BY DEF IsWord
<1>1. w \div 256 \in Nat /\ w \div 256 <= 255
  BY <1>0, SMTT(30)
<1>2. w % 256 \in Nat /\ w % 256 <= 255
  BY <1>0, SMTT(30)
<1>3. w \div 256 \in Byte /\ w % 256 \in Byte
  BY <1>1, <1>2 DEF Byte
<1>4. PICK a \in Byte, b \in Byte : a = w \div 256 /\ b = w % 256
  BY <1>3
<1>5. WordBytes(w) = <<a, b>>
  BY <1>4, Zenon DEF WordBytes
<1> QED
  BY <1>0, <1>5

IsId(w) == w \in {256 * high + low : high \in Letter, low \in Letter}

Halves(w, p, q) ==
  p \in Nat /\ q \in Nat /\ p < 128 /\ q < 128 /\ w = 256 * p + q

LEMMA IdParts ==
  ASSUME NEW w, IsId(w)
  PROVE  \E p, q : Halves(w, p, q)
<1>1. PICK a \in Letter, b \in Letter : w = 256 * a + b
  BY DEF IsId
<1>2. a \in Nat /\ b \in Nat /\ a < 128 /\ b < 128
  BY DEF Letter
<1>3. Halves(w, a, b)
  BY <1>1, <1>2 DEF Halves
<1> QED
  BY <1>3, Zenon

LEMMA HalvesSame ==
  ASSUME NEW w, NEW a \in Nat, NEW b \in Nat, b <= 255, w = 256 * a + b,
         NEW p, NEW q, Halves(w, p, q)
  PROVE  a = p /\ b = q /\ a < 128 /\ b < 128
<1>1. /\ p \in Nat /\ q \in Nat /\ p < 128 /\ q < 128
      /\ 256 * a + b = 256 * p + q
  BY DEF Halves
<1> QED
  BY <1>1

LEMMA WordBytesLetters ==
  ASSUME NEW w, IsId(w)
  PROVE  IsWord(w) /\ w \in Nat /\ WordBytes(w) \in Seq(Letter)
<1>1. PICK a \in Letter, b \in Letter : w = 256 * a + b
  BY DEF IsId
<1>2. (256 * a + b) \div 256 = a /\ (256 * a + b) % 256 = b
  BY SMTT(30) DEF Letter
<1>3. WordBytes(w) = <<a, b>>
  BY <1>1, <1>2 DEF WordBytes
<1>4. IsWord(w) /\ w \in Nat
  BY <1>1 DEF IsWord, Letter
<1> QED
  BY <1>3, <1>4

LEMMA StringBytes ==
  ASSUME NEW string \in Seq(Byte), IsWord(Len(string))
  PROVE  append_string(string) \in Seq(Byte)
<1>1. PICK w \in Seq(Byte) : w = WordBytes(Len(string))
  BY WordBytesBytes
<1> QED
  BY <1>1, JoinIs DEF append_string

LEMMA PublishBodyBytes ==
  ASSUME NEW topic \in Seq(Byte), NEW data \in Seq(Byte), NEW qos,
         NEW id, IsWord(id), IsWord(Len(topic))
  PROVE  append_string(topic) \o (IF qos > 0 THEN WordBytes(id) ELSE << >>) \o data
           \in Seq(Byte)
<1>1. PICK t \in Seq(Byte) : t = append_string(topic)
  BY StringBytes
<1>2. PICK i \in Seq(Byte) : i = IF qos > 0 THEN WordBytes(id) ELSE << >>
  <2>1. PICK w \in Seq(Byte) : w = WordBytes(id)
    BY WordBytesBytes
  <2>2. PICK e \in Seq(Byte) : e = << >>
    BY EmptyIn
  <2>3. CASE qos > 0
    BY <2>1, <2>3
  <2>4. CASE ~(qos > 0)
    BY <2>2, <2>4
  <2> QED
    BY <2>3, <2>4
<1>3. PICK s \in Seq(Byte) : s = t \o i
  BY JoinIs
<1>4. s \o data \in Seq(Byte)
  BY JoinIs
<1> QED
  BY <1>1, <1>2, <1>3, <1>4

(* A body of at most as many bytes as the buffer has.                      *)
LEMMA PublishBytes ==
  ASSUME NEW topic \in Seq(Byte), NEW data \in Seq(Byte), NEW qos \in 0 .. 2,
         NEW retain \in 0 .. 1, NEW id, IsWord(id), NEW m,
         m = mqtt_msg_publish(topic, data, qos, retain, id), m # << >>
  PROVE  /\ m \in Seq(Byte) /\ Len(m) <= BufferLength
         /\ Len(topic) <= BufferLength /\ IsWord(Len(topic))
<1> DEFINE first == First(PUBLISH, qos, retain)
<1>1. topic \in Seq(Nat) /\ data \in Seq(Nat)
  BY ByteIsNat
<1>2. PICK body \in Seq(Nat) :
        /\ body = append_string(topic)
                  \o (IF qos > 0 THEN WordBytes(id) ELSE << >>) \o data
        /\ Parts(body, topic, Wide(qos), id, data)
  BY <1>1, BodyIs, WordBytesBytes
<1>3. m = fini_message(PUBLISH, qos, retain, body)
  BY <1>2 DEF mqtt_msg_publish
<1>4. PICK h \in 2 .. 3 : Framed(m, first, body, h)
  <2>1. PUBLISH \in Nat /\ qos \in Nat /\ retain \in Nat
    BY SMTT(60) DEF PUBLISH
  <2> QED
    BY <1>3, <2>1, FiniIs
<1>5. first \in Byte
  <2>1. PUBLISH \in 0 .. 15
    BY DEF PUBLISH
  <2> QED
    BY <2>1, FirstIs DEF Byte
<1> HIDE DEF first
<1>6. Len(m) <= BufferLength /\ Len(m) = h + Len(body)
  BY <1>4 DEF Framed
<1>7. Len(body) = 2 + Len(topic) + Wide(qos) + Len(data)
  BY <1>2 DEF Parts
<1>8. Len(topic) <= BufferLength /\ IsWord(Len(topic))
  <2>1. PICK t \in Nat, d \in Nat, w \in Nat :
          t = Len(topic) /\ d = Len(data) /\ w = Wide(qos)
    <3>1. Wide(qos) \in Nat
      BY DEF Wide
    <3> QED
      BY <3>1
  <2>2. h + (2 + t + w + d) <= BufferLength
    BY <1>6, <1>7, <2>1
  <2>3. t <= BufferLength /\ IsWord(t)
    BY <2>2, Buffer DEF IsWord
  <2> QED
    BY <2>1, <2>3
<1>9. body \in Seq(Byte)
  BY <1>2, <1>8, PublishBodyBytes
<1>10. m \in Seq(Byte)
  BY <1>4, <1>5, <1>9, FramedBytes
<1> QED
  BY <1>6, <1>8, <1>10

-----------------------------------------------------------------------------
(* The packets the broker sends.                                           *)
Good(m) ==
  /\ m \in Seq(Byte) /\ Len(m) > 0 /\ Len(m) <= BufferLength
  /\ Tame(m) /\ m[Len(m)] < 128

LEMMA ShortIs ==
  ASSUME NEW type \in 0 .. 15, NEW qos \in 0 .. 2, NEW body \in Seq(Byte),
         Len(body) <= 4, NEW m, m = fini_message(type, qos, 0, body)
  PROVE  /\ m # << >> /\ m \in Seq(Byte) /\ Len(m) = 2 + Len(body)
         /\ Len(m) <= BufferLength
         /\ Framed(m, First(type, qos, 0), body, 2)
<1>1. body \in Seq(Nat) /\ Len(body) \in Nat
  BY ByteIsNat
<1>2. PICK f : f = First(type, qos, 0)
  OBVIOUS
<1>3. f \in Byte
  <2>1. 0 \in 0 .. 1
    OBVIOUS
  <2>2. f \in 0 .. 255
    BY <1>2, <2>1, FirstIs
  <2> QED
    BY <2>2, ByteIs
<1>4. m # << >>
  <2>1. ~(Len(body) + 3 > BufferLength)
    BY <1>1, Buffer
  <2>2. RemainingLength(Len(body)) = <<Len(body)>>
    BY <1>1 DEF RemainingLength
  <2>3. m = <<f>> \o <<Len(body)>> \o body
    BY <1>2, <2>1, <2>2 DEF fini_message, First
  <2>4. Len(m) = 2 + Len(body)
    BY <1>1, <1>3, <2>3, Subsets, Behind2
  <2> QED
    BY <1>1, <2>4
<1>5. PICK h \in 2 .. 3 : Framed(m, f, body, h)
  <2>1. type \in Nat /\ qos \in Nat /\ 0 \in Nat
    OBVIOUS
  <2> QED
    BY <1>1, <1>2, <1>4, <2>1, FiniIs
<1>6. h = 2 /\ Len(m) = 2 + Len(body)
  <2>1. HeaderBytes(m, h, Len(body)) /\ Len(m) = h + Len(body)
    BY <1>5 DEF Framed
  <2>2. PICK n \in Nat : n = Len(body) /\ n <= 4
    BY <1>1
  <2>3. HeaderBytes(m, h, n)
    BY <2>1, <2>2
  <2>4. h = 2
    BY <2>2, <2>3, ShortHeader
  <2> QED
    BY <2>1, <2>4
<1>7. m \in Seq(Byte)
  BY <1>3, <1>5, FramedBytes
<1>8. Len(m) <= BufferLength
  BY <1>5 DEF Framed
<1> QED
  BY <1>2, <1>4, <1>5, <1>6, <1>7, <1>8

LEMMA TypeRead ==
  ASSUME NEW type \in 0 .. 15, NEW qos \in 0 .. 2, NEW retain \in 0 .. 1,
         NEW m, NEW body, NEW h, Framed(m, First(type, qos, retain), body, h),
         NEW buf, NEW length, Shows(buf, length, m)
  PROVE  mqtt_get_type(buf) = type /\ mqtt_get_qos(buf) = qos
<1>1. buf[1] = First(type, qos, retain)
  BY HeaderRead, SMTT(60)
<1>2. /\ First(type, qos, retain) \div 16 = type
      /\ (First(type, qos, retain) \div 2) % 4 = qos
  BY FirstIs, ZenonT(60)
<1> QED
  BY <1>1, <1>2, Zenon DEF mqtt_get_type, mqtt_get_qos

LEMMA ShortGood ==
  ASSUME NEW type \in 0 .. 15, NEW qos \in 0 .. 2, NEW body \in Seq(Letter),
         Len(body) <= 4, NEW m, m = fini_message(type, qos, 0, body)
  PROVE  Good(m)
<1>1. /\ body \in Seq(Byte) /\ Len(body) \in Nat
      /\ \A i \in 1 .. Len(body) : body[i] < 128
  BY LetterIsByte
<1>2. /\ m \in Seq(Byte) /\ Len(m) = 2 + Len(body) /\ Len(m) <= BufferLength
      /\ Framed(m, First(type, qos, 0), body, 2)
  BY <1>1, ShortIs, ZenonT(60)
<1>3. Tame(body)
  BY <1>1 DEF Tame
<1>4. body # << >> => body[Len(body)] < 128
  <2>1. PICK n \in Nat : n = Len(body)
    BY <1>1
  <2>2. \A i \in 1 .. n : body[i] < 128
    BY <1>1, <2>1, Zenon
  <2>3. body # << >> => n \in 1 .. n
    BY <2>1
  <2>4. body # << >> => body[n] < 128
    BY <2>2, <2>3, Zenon
  <2> QED
    BY <2>1, <2>4, Zenon
<1>5. Len(m) > 0 /\ Tame(m) /\ m[Len(m)] < 128
  <2>1. PICK h, first : Framed(m, first, body, h) /\ h = 2
    BY <1>2
  <2>2. h = 3 => first < 128
    BY <2>1
  <2> QED
    BY <1>1, <1>3, <1>4, <2>1, <2>2, FramedTame
<1> QED
  BY <1>2, <1>5 DEF Good

(* A topic may be long, but the rest of the body is letters.               *)
LEMMA PublishTame ==
  ASSUME NEW topic \in Seq(Letter), NEW data \in Seq(Letter), NEW wide \in {0, 2},
         NEW id, IsId(id),
         NEW body \in Seq(Byte), Parts(body, topic, wide, id, data),
         topic # << >>, Len(topic) <= BufferLength
  PROVE  Tame(body) /\ body # << >> /\ body[Len(body)] < 128
<1>1. PICK t \in Nat, d \in Nat : t = Len(topic) /\ d = Len(data) /\ t > 0
  OBVIOUS
<1>2. /\ Len(body) = 2 + t + wide + d /\ WordAt(body, 0) = t
      /\ \A k \in 1 .. t : body[2 + k] = topic[k]
      /\ wide = 2 => WordAt(body, 2 + t) = id
      /\ \A k \in 1 .. d : body[2 + t + wide + k] = data[k]
  BY <1>1 DEF Parts
<1>3. \A i \in 1 .. 2 + t + wide + d : body[i] \in Byte
  <2>1. \A i \in 1 .. Len(body) : body[i] \in Byte
    BY InSeq
  <2> QED
    BY <1>2, <2>1, Zenon
<1>4. \A x \in Byte : x \in Nat /\ x <= 255
  BY DEF Byte
<1>5. /\ \A k \in 1 .. t : topic[k] < 128
      /\ \A k \in 1 .. d : data[k] < 128
  BY <1>1, LetterIsByte
<1>6. body[1] < 128
  <2>1. 1 \in 1 .. 2 + t + wide + d /\ 2 \in 1 .. 2 + t + wide + d
    OBVIOUS
  <2>2. PICK a \in Nat, b \in Nat : a = body[1] /\ b = body[2]
    BY <1>3, <1>4, <2>1
  <2>3. 256 * a + b = t
    BY <1>2, <2>2 DEF WordAt
  <2>4. t <= 16386
    BY <1>1, Buffer
  <2>5. a < 128
    BY <2>3, <2>4
  <2> QED
    BY <2>2, <2>5
<1>7. wide = 2 => body[2 + t + 1] < 128 /\ body[2 + t + 2] < 128
  <2> SUFFICES ASSUME wide = 2
               PROVE  body[2 + t + 1] < 128 /\ body[2 + t + 2] < 128
    OBVIOUS
  <2>1. 2 + t + 1 \in 1 .. 2 + t + wide + d /\ 2 + t + 2 \in 1 .. 2 + t + wide + d
    OBVIOUS
  <2>2. PICK a \in Nat, b \in Nat :
          a = body[2 + t + 1] /\ b = body[2 + t + 2] /\ a <= 255 /\ b <= 255
    BY <1>3, <1>4, <2>1, ZenonT(60)
  <2>3. 256 * a + b = id
    <3>1. 256 * body[(2 + t) + 1] + body[(2 + t) + 2] = id
      BY <1>2, Zenon DEF WordAt
    <3> QED
      BY <2>2, <3>1
  <2>4. PICK p, q : Halves(id, p, q)
    BY IdParts, Zenon
  <2>5. a < 128 /\ b < 128
    BY <2>2, <2>3, <2>4, HalvesSame, SMTT(60)
  <2> QED
    BY <2>2, <2>5
<1>8. ASSUME NEW i \in 1 .. 2 + t + wide + d, i # 2
      PROVE  body[i] < 128
  <2>1. CASE i = 1
    BY <1>6, <2>1
  <2>2. CASE i > 2 /\ i <= 2 + t
    <3>1. i - 2 \in 1 .. t /\ 2 + (i - 2) = i
      BY <2>2
    <3>2. body[i] = topic[i - 2]
      BY <1>2, <3>1
    <3> QED
      BY <1>5, <3>1, <3>2
  <2>3. CASE i > 2 + t /\ i <= 2 + t + wide
    <3>1. wide = 2 /\ (i = 2 + t + 1 \/ i = 2 + t + 2)
      BY <2>3
    <3> QED
      BY <1>7, <3>1
  <2>4. CASE i > 2 + t + wide
    <3>1. i - (2 + t + wide) \in 1 .. d /\ 2 + t + wide + (i - (2 + t + wide)) = i
      BY <2>4
    <3>2. body[i] = data[i - (2 + t + wide)]
      BY <1>2, <3>1
    <3> QED
      BY <1>5, <3>1, <3>2
  <2> QED
    BY <1>8, <2>1, <2>2, <2>3, <2>4
<1>9. ASSUME NEW i \in 1 .. Len(body) - 1 PROVE body[i] < 128 \/ body[i + 1] < 128
  <2>1. i \in 1 .. 2 + t + wide + d /\ i + 1 \in 1 .. 2 + t + wide + d
    BY <1>2
  <2> QED
    BY <1>8, <2>1
<1>10. body # << >> /\ body[Len(body)] < 128
  <2>1. 2 + t + wide + d \in 1 .. 2 + t + wide + d /\ 2 + t + wide + d # 2
    BY <1>1
  <2> QED
    BY <1>2, <1>8, <2>1
<1> QED
  BY <1>9, <1>10 DEF Tame

LEMMA PublishGood ==
  ASSUME NEW topic \in Seq(Letter), NEW data \in Seq(Letter), NEW qos \in 0 .. 2,
         NEW id, IsId(id),
         NEW m, m = mqtt_msg_publish(topic, data, qos, 0, id), m # << >>,
         topic # << >>
  PROVE  Good(m)
<1>1. /\ topic \in Seq(Byte) /\ data \in Seq(Byte)
      /\ topic \in Seq(Nat) /\ data \in Seq(Nat)
      /\ id \in Nat /\ IsWord(id) /\ 0 \in 0 .. 1
  BY LetterIsByte, WordBytesLetters
<1>2. m \in Seq(Byte) /\ Len(m) <= BufferLength /\ Len(topic) <= BufferLength
      /\ IsWord(Len(topic))
  BY <1>1, PublishBytes
<1>3. PICK body \in Seq(Nat) :
        /\ body = append_string(topic)
                  \o (IF qos > 0 THEN WordBytes(id) ELSE << >>) \o data
        /\ Parts(body, topic, Wide(qos), id, data)
  BY <1>1, BodyIs
<1>4. body \in Seq(Byte)
  BY <1>1, <1>2, <1>3, PublishBodyBytes
<1>5. Tame(body) /\ body # << >> /\ body[Len(body)] < 128
  <2>1. PICK wide \in {0, 2} : wide = Wide(qos)
    BY DEF Wide
  <2>2. Parts(body, topic, wide, id, data)
    BY <1>3, <2>1
  <2> QED
    BY <1>2, <1>4, <2>2, PublishTame
<1>6. PICK h \in 2 .. 3 : Framed(m, First(PUBLISH, qos, 0), body, h)
  <2>1. PUBLISH \in Nat /\ qos \in Nat /\ 0 \in Nat
    BY DEF PUBLISH
  <2>2. m = fini_message(PUBLISH, qos, 0, body)
    BY <1>3 DEF mqtt_msg_publish
  <2> QED
    BY <2>1, <2>2, FiniIs
<1>7. First(PUBLISH, qos, 0) < 128
  BY DEF First, PUBLISH
<1>8. Len(m) > 0 /\ Tame(m) /\ m[Len(m)] < 128
  BY <1>4, <1>5, <1>6, <1>7, FramedTame
<1> QED
  BY <1>2, <1>8 DEF Good

Sendable == Packets \cup {Accepted}

(* What ReceiveAssumption and CONNACK say of a packet.                     *)
Sound(p) ==
  /\ p.type \in {CONNACK, PUBLISH, PUBREC, PUBREL, SUBACK, PINGREQ}
  /\ p.qos \in 0 .. 2 /\ IsId(p.id)
  /\ p.topic \in Seq(Letter) /\ p.data \in Seq(Letter)
  /\ p.type = PUBLISH => p.topic # << >> /\ Encode(p) # << >>

LEMMA SendableSound ==
  ASSUME NEW p \in Sendable
  PROVE  Sound(p)
<1>1. CASE p \in Packets
  <2>1. p \in Packet /\ (p.type = PUBLISH => p.topic # << >> /\ Encode(p) # << >>)
    BY <1>1, ReceiveAssumption
  <2>2. /\ p.type \in {CONNACK, PUBLISH, PUBREC, PUBREL, SUBACK, PINGREQ}
        /\ p.qos \in 0 .. 2 /\ p.id \in {256 * high + low : high \in Letter, low \in Letter}
        /\ p.topic \in Seq(Letter) /\ p.data \in Seq(Letter)
    BY <2>1 DEF Packet
  <2>3. IsId(p.id)
    BY <2>2 DEF IsId
  <2> QED
    BY <2>1, <2>2, <2>3 DEF Sound
<1>2. CASE p = Accepted
  <2>1. /\ p.type = CONNACK /\ p.qos = 0 /\ p.id = 0 /\ p.topic = << >> /\ p.data = << >>
    BY <1>2 DEF Accepted
  <2>2. IsId(0)
    <3>1. 0 \in Letter /\ 256 * 0 + 0 = 0
      BY DEF Letter
    <3> QED
      BY <3>1 DEF IsId
  <2>3. << >> \in Seq(Letter)
    BY EmptyIn
  <2>4. CONNACK # PUBLISH /\ 0 \in 0 .. 2
    BY DEF CONNACK, PUBLISH
  <2> QED
    BY <2>1, <2>2, <2>3, <2>4 DEF Sound
<1> QED
  BY <1>1, <1>2 DEF Sendable

(* The short packets, their bodies and their flags.                        *)
Short(p, qos, body) ==
  /\ qos \in 0 .. 2 /\ body \in Seq(Letter) /\ Len(body) <= 4
  /\ Encode(p) = fini_message(p.type, qos, 0, body)
  /\ p.type \in {PUBREC, PUBREL} => qos = (IF p.type = PUBREL THEN 1 ELSE 0)
                                     /\ body = WordBytes(p.id)

LEMMA EncodeShort ==
  ASSUME NEW p, Sound(p), p.type # PUBLISH
  PROVE  \E qos, body : Short(p, qos, body)
<1>1. /\ CONNACK # PUBLISH /\ CONNACK # SUBACK /\ CONNACK # PINGREQ
      /\ SUBACK # PUBLISH /\ SUBACK # PINGREQ /\ PINGREQ # PUBLISH
      /\ PUBREC # CONNACK /\ PUBREC # PUBLISH /\ PUBREC # SUBACK /\ PUBREC # PINGREQ
      /\ PUBREL # CONNACK /\ PUBREL # PUBLISH /\ PUBREL # SUBACK /\ PUBREL # PINGREQ
      /\ CONNACK # PUBREC /\ CONNACK # PUBREL /\ SUBACK # PUBREC /\ SUBACK # PUBREL
      /\ PINGREQ # PUBREC /\ PINGREQ # PUBREL /\ PUBREC # PUBREL /\ PUBREL # PUBREC
  BY DEF CONNACK, PUBLISH, PUBREC, PUBREL, SUBACK, PINGREQ
<1>2. WordBytes(p.id) \in Seq(Letter) /\ Len(WordBytes(p.id)) = 2
  <2>1. IsId(p.id)
    BY DEF Sound
  <2> QED
    BY <2>1, WordBytesLetters, WordBytesAre
<1>3. 0 \in Letter /\ 1 \in Letter
  BY DEF Letter
<1>4. CASE p.type = CONNACK
  <2>1. Encode(p) = fini_message(CONNACK, 0, 0, <<0, 0>>)
    BY <1>1, <1>4 DEF Encode
  <2>2. <<0, 0>> \in Seq(Letter) /\ Len(<<0, 0>>) <= 4 /\ 0 \in 0 .. 2
    BY <1>3
  <2>3. Short(p, 0, <<0, 0>>)
    BY <1>1, <1>4, <2>1, <2>2 DEF Short
  <2> QED
    BY <2>3, Zenon
<1>5. CASE p.type = SUBACK
  <2>1. PICK w : w = WordBytes(p.id) /\ w \in Seq(Letter) /\ Len(w) = 2
    BY <1>2
  <2>2. PICK b : b = w \o <<1>> /\ b \in Seq(Letter) /\ Len(b) <= 4
    <3>1. <<1>> \in Seq(Letter) /\ Len(<<1>>) = 1
      BY <1>3, OneIn
    <3>2. w \o <<1>> \in Seq(Letter) /\ Join(w \o <<1>>, w, <<1>>)
      BY <2>1, <3>1, JoinIs
    <3>3. Len(w \o <<1>>) <= 4
      BY <2>1, <3>1, <3>2 DEF Join
    <3> QED
      BY <3>2, <3>3
  <2>3. Encode(p) = fini_message(SUBACK, 0, 0, b)
    BY <1>1, <1>5, <2>1, <2>2 DEF Encode
  <2>4. 0 \in 0 .. 2
    OBVIOUS
  <2>5. Short(p, 0, b)
    BY <1>1, <1>5, <2>2, <2>3, <2>4 DEF Short
  <2> QED
    BY <2>5, Zenon
<1>6. CASE p.type = PINGREQ
  <2>1. Encode(p) = fini_message(PINGREQ, 0, 0, << >>)
    BY <1>1, <1>6 DEF Encode
  <2>2. << >> \in Seq(Letter) /\ Len(<< >>) <= 4 /\ 0 \in 0 .. 2
    BY EmptyIn
  <2>3. Short(p, 0, << >>)
    BY <1>1, <1>6, <2>1, <2>2 DEF Short
  <2> QED
    BY <2>3, Zenon
<1>7. CASE p.type \in {PUBREC, PUBREL}
  <2>1. PICK q : q = (IF p.type = PUBREL THEN 1 ELSE 0) /\ q \in 0 .. 2
    OBVIOUS
  <2>2. Encode(p) = mqtt_msg_ack(p.type, p.id)
    BY <1>1, <1>7 DEF Encode
  <2>3. Encode(p) = fini_message(p.type, q, 0, WordBytes(p.id))
    BY <2>1, <2>2, Zenon DEF mqtt_msg_ack
  <2>4. Short(p, q, WordBytes(p.id))
    BY <1>2, <2>1, <2>3 DEF Short
  <2> QED
    BY <2>4, Zenon
<1> QED
  BY <1>4, <1>5, <1>6, <1>7 DEF Sound

LEMMA TypeSmall ==
  ASSUME NEW p, Sound(p)
  PROVE  p.type \in 0 .. 15
BY DEF Sound, CONNACK, PUBLISH, PUBREC, PUBREL, SUBACK, PINGREQ

LEMMA EncodePublish ==
  ASSUME NEW p, p.type = PUBLISH
  PROVE  Encode(p) = mqtt_msg_publish(p.topic, p.data, p.qos, 0, p.id)
<1>1. PUBLISH # CONNACK /\ PUBLISH # SUBACK /\ PUBLISH # PINGREQ
  BY DEF CONNACK, PUBLISH, SUBACK, PINGREQ
<1> QED
  BY <1>1 DEF Encode

LEMMA EncodeGood ==
  ASSUME NEW p \in Sendable
  PROVE  Good(Encode(p))
<1>1. Sound(p) /\ p.type \in 0 .. 15
  BY SendableSound, TypeSmall
<1>2. CASE p.type = PUBLISH
  <2>1. PICK m : m = Encode(p)
    OBVIOUS
  <2>2. m = mqtt_msg_publish(p.topic, p.data, p.qos, 0, p.id)
    BY <1>2, <2>1, EncodePublish
  <2>3. PICK topic, data, qos, id :
          topic = p.topic /\ data = p.data /\ qos = p.qos /\ id = p.id
    OBVIOUS
  <2>4. /\ topic \in Seq(Letter) /\ data \in Seq(Letter) /\ qos \in 0 .. 2
        /\ IsId(id) /\ topic # << >> /\ m # << >>
    BY <1>1, <1>2, <2>1, <2>3 DEF Sound
  <2>5. m = mqtt_msg_publish(topic, data, qos, 0, id)
    BY <2>2, <2>3
  <2>6. Good(m)
    BY <2>4, <2>5, PublishGood
  <2> QED
    BY <2>1, <2>6
<1>3. CASE p.type # PUBLISH
  <2>1. PICK qos, body : Short(p, qos, body)
    BY <1>1, <1>3, EncodeShort
  <2>2. PICK type : type = p.type
    OBVIOUS
  <2>3. /\ qos \in 0 .. 2 /\ body \in Seq(Letter) /\ Len(body) <= 4
        /\ Encode(p) = fini_message(type, qos, 0, body)
    BY <2>1, <2>2 DEF Short
  <2>4. type \in 0 .. 15
    BY <1>1, <2>2
  <2> QED
    BY <2>3, <2>4, ShortGood
<1> QED
  BY <1>2, <1>3

-----------------------------------------------------------------------------
(* Streams of bytes.                                                       *)
Tidy(s) == s \in Seq(Byte) /\ Tame(s) /\ (s # << >> => s[Len(s)] < 128)

LEMMA TidyJoin ==
  ASSUME NEW s, Tidy(s), NEW t \in Seq(Byte), Tame(t)
  PROVE  /\ s \o t \in Seq(Byte) /\ Tame(s \o t)
         /\ Tidy(t) => Tidy(s \o t)
<1>1. s \in Seq(Byte) /\ Tame(s) /\ (s # << >> => s[Len(s)] < 128)
  BY DEF Tidy
<1>2. PICK m : m = s \o t
  OBVIOUS
<1>3. m \in Seq(Byte) /\ Join(m, s, t)
  BY <1>1, <1>2, JoinIs
<1>4. PICK a \in Nat, b \in Nat : a = Len(s) /\ b = Len(t)
  BY <1>1
<1>5. /\ Len(m) = a + b
      /\ \A i \in 1 .. a : m[i] = s[i]
      /\ \A i \in 1 .. b : m[a + i] = t[i]
  BY <1>3, <1>4, Zenon DEF Join
<1>6. /\ \A i \in 1 .. a - 1 : s[i] < 128 \/ s[i + 1] < 128
      /\ \A i \in 1 .. b - 1 : t[i] < 128 \/ t[i + 1] < 128
      /\ a > 0 => s[a] < 128
  <2>1. a > 0 => s # << >>
    BY <1>1, <1>4
  <2> QED
    BY <1>1, <1>4, <2>1, Zenon DEF Tame
<1>7. ASSUME NEW i \in 1 .. Len(m) - 1 PROVE m[i] < 128 \/ m[i + 1] < 128
  <2>0. i \in 1 .. a + b - 1
    BY <1>5
  <2>1. CASE i < a
    <3>1. i \in 1 .. a /\ i + 1 \in 1 .. a /\ i \in 1 .. a - 1
      BY <2>0, <2>1
    <3>2. m[i] = s[i] /\ m[i + 1] = s[i + 1]
      BY <1>5, <3>1
    <3> QED
      BY <1>6, <3>1, <3>2
  <2>2. CASE i = a
    <3>1. i \in 1 .. a /\ a > 0
      BY <2>0, <2>2
    <3>2. m[i] = s[i]
      BY <1>5, <3>1
    <3> QED
      BY <1>6, <2>2, <3>1, <3>2
  <2>3. CASE i > a
    <3>1. PICK j \in 1 .. b - 1 : i = a + j /\ i + 1 = a + (j + 1)
      <4>1. i - a \in 1 .. b - 1 /\ i = a + (i - a) /\ i + 1 = a + ((i - a) + 1)
        BY <2>0, <2>3
      <4> QED
        BY <4>1
    <3>2. j \in 1 .. b /\ j + 1 \in 1 .. b
      OBVIOUS
    <3>3. m[i] = t[j] /\ m[i + 1] = t[j + 1]
      BY <1>5, <3>1, <3>2
    <3> QED
      BY <1>6, <3>3
  <2> QED
    BY <2>0, <2>1, <2>2, <2>3
<1>8. Tame(m)
  BY <1>7 DEF Tame
<1>9. ASSUME Tidy(t), m # << >> PROVE m[Len(m)] < 128
  <2>1. t # << >> => t[b] < 128
    BY <1>4, <1>9, Zenon DEF Tidy
  <2>2. CASE b = 0
    <3>1. a > 0 /\ a \in 1 .. a /\ Len(m) = a
      BY <1>3, <1>5, <1>9, <2>2
    <3>2. m[a] = s[a]
      BY <1>5, <3>1
    <3> QED
      BY <1>6, <3>1, <3>2
  <2>3. CASE b > 0
    <3>1. t # << >> /\ b \in 1 .. b
      BY <1>4, <2>3
    <3>2. m[a + b] = t[b]
      BY <1>5, <3>1
    <3> QED
      BY <1>5, <2>1, <3>1, <3>2
  <2> QED
    BY <2>2, <2>3
<1> QED
  BY <1>2, <1>3, <1>8, <1>9 DEF Tidy

LEMMA TamePart ==
  ASSUME NEW s \in Seq(Byte), Tame(s), NEW i \in Nat, NEW j \in Nat, j <= Len(s)
  PROVE  /\ SubSeq(s, i + 1, j) \in Seq(Byte) /\ Tame(SubSeq(s, i + 1, j))
         /\ Len(SubSeq(s, i + 1, j)) = IF i <= j THEN j - i ELSE 0
         /\ Tidy(s) /\ j = Len(s) => Tidy(SubSeq(s, i + 1, j))
<1>1. PICK m : m = SubSeq(s, i + 1, j)
  OBVIOUS
<1>2. /\ m \in Seq(Byte) /\ Len(m) = IF i <= j THEN j - i ELSE 0
      /\ \A k \in 1 .. j - i : m[k] = s[i + k]
  BY <1>1, SubSeqOf
<1>3. PICK n \in Nat : n = Len(s)
  OBVIOUS
<1>4. ASSUME NEW k \in 1 .. Len(m) - 1 PROVE m[k] < 128 \/ m[k + 1] < 128
  <2>1. k \in 1 .. j - i /\ k + 1 \in 1 .. j - i /\ i + k \in 1 .. n - 1
        /\ (i + k) + 1 = i + (k + 1)
    BY <1>2, <1>3
  <2>2. m[k] = s[i + k] /\ m[k + 1] = s[i + (k + 1)]
    BY <1>2, <2>1
  <2>3. s[i + k] < 128 \/ s[(i + k) + 1] < 128
    BY <1>3, <2>1, Zenon DEF Tame
  <2> QED
    BY <2>1, <2>2, <2>3
<1>5. Tame(m)
  BY <1>4 DEF Tame
<1>6. ASSUME Tidy(s), j = n, m # << >> PROVE m[Len(m)] < 128
  <2>1. j - i \in 1 .. j - i /\ Len(m) = j - i /\ i + (j - i) = n /\ n > 0
    BY <1>2, <1>6
  <2>2. m[j - i] = s[n]
    BY <1>2, <2>1
  <2>3. s # << >>
    BY <1>3, <2>1
  <2>4. s[n] < 128
    BY <1>3, <1>6, <2>3, Zenon DEF Tidy
  <2> QED
    BY <2>1, <2>2, <2>4
<1> QED
  BY <1>1, <1>2, <1>3, <1>5, <1>6 DEF Tidy

LEMMA GoodTidy ==
  ASSUME NEW m, Good(m)
  PROVE  Tidy(m) /\ m # << >>
BY DEF Good, Tidy

-----------------------------------------------------------------------------
(* What is read of a buffer that begins with the rest of a segment.        *)
Begins(buf, s) ==
  /\ buf \in Seq(Byte) /\ s \in Seq(Byte) /\ Len(s) \in 1 .. Len(buf)
  /\ \A i \in 1 .. Len(s) : buf[i] = s[i]

LEMMA CopyBegins ==
  ASSUME NEW s \in Seq(Byte), NEW b \in Seq(Byte), Len(b) = BufferLength,
         s # << >>, Len(s) < BufferLength, NEW buf,
         buf = s \o SubSeq(b, Len(s) + 1, BufferLength)
  PROVE  Begins(buf, s) /\ Len(buf) = BufferLength
<1>1. PICK n \in Nat, l \in Nat : n = Len(s) /\ l = BufferLength /\ n > 0 /\ n < l
  BY Buffer
<1>2. PICK t : t = SubSeq(b, n + 1, l)
  OBVIOUS
<1>3. t \in Seq(Byte) /\ Len(t) = l - n
  BY <1>1, <1>2, SubSeqOf
<1>4. buf \in Seq(Byte) /\ Join(buf, s, t)
  BY <1>1, <1>2, <1>3, JoinIs
<1>5. Len(buf) = n + (l - n) /\ \A i \in 1 .. n : buf[i] = s[i]
  BY <1>1, <1>3, <1>4 DEF Join
<1> QED
  BY <1>1, <1>4, <1>5 DEF Begins

LEMMA EndTame ==
  ASSUME NEW buf, NEW s, Begins(buf, s), Tame(s)
  PROVE  HeaderEnd(buf, Len(s)) \in 1 .. 3 /\ HeaderEnd(buf, Len(s)) <= Len(s)
<1>1. /\ buf \in Seq(Byte) /\ s \in Seq(Byte) /\ Len(s) \in 1 .. Len(buf)
      /\ \A i \in 1 .. Len(s) : buf[i] = s[i]
  BY DEF Begins
<1>2. PICK n \in Nat : n = Len(s)
  BY <1>1
<1>3. buf \in Seq(Nat) /\ n \in 1 .. Len(buf)
  BY <1>1, <1>2, ByteIsNat
<1>4. PICK k \in 1 .. n :
        /\ StopsAfter(k, buf, n)
        /\ HeaderEnd(buf, n) = IF k = n THEN n ELSE k + 1
  BY <1>3, HeaderStops DEF Stops
<1>5. ASSUME k > 2 PROVE FALSE
  <2>1. /\ 1 \in 1 .. k - 1 /\ 2 \in 1 .. k - 1 /\ 2 \in 1 .. n - 1
        /\ 2 \in 1 .. n /\ 3 \in 1 .. n /\ 1 + 1 = 2 /\ 2 + 1 = 3
    BY <1>5
  <2>2. buf[2] >= 128 /\ buf[3] >= 128
    BY <1>4, <2>1 DEF StopsAfter
  <2>3. s[2] < 128 \/ s[3] < 128
    BY <1>2, <2>1 DEF Tame
  <2>4. buf[2] = s[2] /\ buf[3] = s[3] /\ buf[2] \in Nat /\ buf[3] \in Nat
    BY <1>1, <1>2, <1>3, <2>1, SMTT(60)
  <2> QED
    BY <2>2, <2>3, <2>4
<1> QED
  BY <1>2, <1>4, <1>5

LEMMA TotalTame ==
  ASSUME NEW buf, NEW s, Begins(buf, s), Tame(s)
  PROVE  /\ mqtt_get_total_length(buf, Len(s)) \in Nat
         /\ mqtt_get_total_length(buf, Len(s)) > 0
<1>1. buf \in Seq(Nat) /\ Len(s) <= Len(buf) /\ Len(s) \in Nat
  <2>1. buf \in Seq(Byte) /\ s \in Seq(Byte) /\ Len(s) \in 1 .. Len(buf)
    BY DEF Begins
  <2> QED
    BY <2>1, ByteIsNat
<1>2. PICK end \in 1 .. 3 : end = HeaderEnd(buf, Len(s)) /\ end <= Len(s)
  BY EndTame
<1>3. mqtt_get_total_length(buf, Len(s)) = end + (Low(buf, end) + High(buf, end))
  BY <1>1, <1>2, TotalIs
<1>4. Low(buf, end) \in Nat /\ High(buf, end) \in Nat
  <2>1. end > 1 => buf[2] \in Nat
    BY <1>1, <1>2
  <2>2. end > 2 => buf[3] \in Nat
    BY <1>1, <1>2, SMTT(60)
  <2>3. \A x \in Nat : x % 128 \in Nat
    BY SMTT(30)
  <2> QED
    BY <2>1, <2>2, <2>3 DEF Low, High
<1> QED
  BY <1>3, <1>4

LEMMA WordIs ==
  ASSUME NEW buf \in Seq(Byte), NEW i \in Nat, i + 2 <= Len(buf)
  PROVE  WordAt(buf, i) \in Nat /\ IsWord(WordAt(buf, i))
<1>1. i + 1 \in 1 .. Len(buf) /\ i + 2 \in 1 .. Len(buf)
  OBVIOUS
<1>2. PICK a \in Byte, b \in Byte : a = buf[i + 1] /\ b = buf[i + 2]
  BY <1>1, InSeq
<1>3. a \in Nat /\ b \in Nat /\ a <= 255 /\ b <= 255
  BY DEF Byte
<1>4. 256 * a + b \in Nat /\ IsWord(256 * a + b)
  BY <1>3 DEF IsWord
<1> QED
  BY <1>2, <1>4, ZenonT(60) DEF WordAt

LEMMA TopicTyped ==
  ASSUME NEW buf \in Seq(Byte), NEW length \in 1 .. Len(buf)
  PROVE  mqtt_get_publish_topic(buf, length) \in Seq(Byte) \cup {NULL}
<1>1. PICK i \in Nat : i = HeaderEnd(buf, length) /\ i <= length
  BY ByteIsNat, HeaderEndIn
<1>2. CASE i + 2 >= length
  BY <1>1, <1>2 DEF mqtt_get_publish_topic
<1>3. CASE ~(i + 2 >= length)
  <2>1. PICK w \in Nat : w = WordAt(buf, i)
    BY <1>3, WordIs
  <2>2. CASE i + 2 + w > length
    BY <1>1, <2>1, <2>2 DEF mqtt_get_publish_topic
  <2>3. CASE ~(i + 2 + w > length)
    <3>1. /\ i + 2 \in Nat /\ i + 2 + w \in Nat /\ i + 2 + w <= Len(buf)
          /\ (i + 2) + 1 = i + 3
      BY <2>3
    <3>2. SubSeq(buf, (i + 2) + 1, i + 2 + w) \in Seq(Byte)
      BY <3>1, SubSeqOf
    <3>3. mqtt_get_publish_topic(buf, length) = SubSeq(buf, i + 3, i + 2 + w)
      BY <1>1, <1>3, <2>1, <2>3 DEF mqtt_get_publish_topic
    <3> QED
      BY <3>1, <3>2, <3>3
  <2> QED
    BY <2>2, <2>3
<1> QED
  BY <1>2, <1>3

Acks == {PUBACK, PUBREC, PUBREL, PUBCOMP, SUBACK, UNSUBACK, SUBSCRIBE}

NoId(buf, length, i) ==
  \/ i + 2 >= length \/ i + 2 + WordAt(buf, i) >= length
  \/ mqtt_get_qos(buf) = 0 \/ i + 2 + WordAt(buf, i) + 2 >= length

LEMMA IdShort ==
  ASSUME NEW buf, NEW length, ~(mqtt_get_type(buf) = PUBLISH)
  PROVE  /\ \/ mqtt_get_id(buf, length) = 0
            \/ (length >= 4 /\ mqtt_get_id(buf, length) = WordAt(buf, 2))
         /\ mqtt_get_type(buf) \in Acks /\ length >= 4 /\ buf[2] < 128 =>
              mqtt_get_id(buf, length) = WordAt(buf, 2)
<1> DEFINE id == mqtt_get_id(buf, length)
           word == WordAt(buf, 2)
           arrived == length >= 4
           short == buf[2] < 128
<1>1. CASE mqtt_get_type(buf) \in Acks
  <2>1. id = IF arrived /\ short THEN word ELSE 0
    BY <1>1, Zenon DEF mqtt_get_id, Acks
  <2> HIDE DEF id, word, arrived, short
  <2>2. arrived /\ short => id = word
    BY <2>1, Zenon
  <2>3. ~(arrived /\ short) => id = 0
    BY <2>1, Zenon
  <2>4. (id = 0 \/ (arrived /\ id = word)) /\ (arrived /\ short => id = word)
    BY <2>2, <2>3, Zenon
  <2> QED
    BY <2>4, Zenon DEF id, word, arrived, short
<1>2. CASE ~(mqtt_get_type(buf) \in Acks)
  <2>1. id = 0
    BY <1>2, Zenon DEF mqtt_get_id, Acks
  <2> QED
    BY <1>2, <2>1, Zenon
<1> QED
  BY <1>1, <1>2

LEMMA IdTyped ==
  ASSUME NEW buf \in Seq(Byte), NEW length \in 1 .. Len(buf)
  PROVE  mqtt_get_id(buf, length) \in Nat /\ IsWord(mqtt_get_id(buf, length))
<1>1. PICK i \in Nat : i = HeaderEnd(buf, length) /\ i <= length
  BY ByteIsNat, HeaderEndIn
<1>2. 0 \in Nat /\ IsWord(0)
  BY DEF IsWord
<1>3. PICK n \in Nat : n = Len(buf) /\ length <= n /\ length \in Nat
  OBVIOUS
<1>4. CASE mqtt_get_type(buf) = PUBLISH
  <2>3. mqtt_get_id(buf, length) =
          IF NoId(buf, length, i) THEN 0 ELSE WordAt(buf, i + 2 + WordAt(buf, i))
    <3>1. PUBLISH \notin Acks
      BY DEF PUBLISH, Acks, PUBACK, PUBREC, PUBREL, PUBCOMP, SUBACK, UNSUBACK, SUBSCRIBE
    <3> QED
      BY <1>1, <1>4, <3>1, Zenon DEF mqtt_get_id, NoId, Acks
  <2>4. \/ mqtt_get_id(buf, length) = 0
        \/ /\ ~NoId(buf, length, i)
           /\ mqtt_get_id(buf, length) = WordAt(buf, i + 2 + WordAt(buf, i))
    <3>1. CASE NoId(buf, length, i)
      BY <2>3, <3>1, Zenon
    <3>2. CASE ~NoId(buf, length, i)
      BY <2>3, <3>2, Zenon
    <3> QED
      BY <3>1, <3>2, Zenon
  <2>1. CASE i + 2 >= length
    <3>1. NoId(buf, length, i)
      BY <2>1, Zenon DEF NoId
    <3> QED
      BY <1>2, <2>4, <3>1
  <2>2. CASE ~(i + 2 >= length)
    <3>1. PICK w \in Nat : w = WordAt(buf, i)
      BY <1>3, <2>2, WordIs
    <3>2. \/ mqtt_get_id(buf, length) = 0
          \/ /\ ~(i + 2 + w + 2 >= length)
             /\ mqtt_get_id(buf, length) = WordAt(buf, i + 2 + w)
      <4>1. ~NoId(buf, length, i) => ~(i + 2 + w + 2 >= length)
        BY <3>1, Zenon DEF NoId
      <4>2. i + 2 + WordAt(buf, i) = i + 2 + w
        BY <3>1, Zenon
      <4>3. WordAt(buf, i + 2 + WordAt(buf, i)) = WordAt(buf, i + 2 + w)
        BY <4>2, Zenon
      <4> QED
        BY <2>4, <4>1, <4>3, Zenon
    <3>3. ~(i + 2 + w + 2 >= length) => i + 2 + w \in Nat /\ (i + 2 + w) + 2 <= Len(buf)
      BY <1>3
    <3>4. ~(i + 2 + w + 2 >= length) => WordAt(buf, i + 2 + w) \in Nat
                                        /\ IsWord(WordAt(buf, i + 2 + w))
      BY <3>3, WordIs
    <3> QED
      BY <1>2, <3>2, <3>4
  <2> QED
    BY <2>1, <2>2
<1>5. CASE mqtt_get_type(buf) # PUBLISH
  <2>1. \/ mqtt_get_id(buf, length) = 0
        \/ (length >= 4 /\ mqtt_get_id(buf, length) = WordAt(buf, 2))
    BY <1>5, IdShort, Zenon
  <2>2. length >= 4 => 2 \in Nat /\ 2 + 2 <= Len(buf)
    BY <1>3
  <2>3. length >= 4 => WordAt(buf, 2) \in Nat /\ IsWord(WordAt(buf, 2))
    BY <2>2, WordIs
  <2> QED
    BY <1>2, <2>1, <2>3
<1> QED
  BY <1>4, <1>5

LEMMA DataTyped ==
  ASSUME NEW buf \in Seq(Byte), NEW length \in 1 .. Len(buf),
         mqtt_get_total_length(buf, length) \in Nat
  PROVE  mqtt_get_publish_data(buf, length) \in Seq(Byte)
<1>1. PICK i \in Nat : i = HeaderEnd(buf, length) /\ i <= length
  BY ByteIsNat, HeaderEndIn
<1>2. PICK total \in Nat : total = mqtt_get_total_length(buf, length)
  OBVIOUS
<1>3. length \in Nat /\ length <= Len(buf)
  OBVIOUS
<1> DEFINE from(at) == IF mqtt_get_qos(buf) > 0 THEN at + 2 ELSE at
<1>4. CASE i + 2 >= length
  <2>1. mqtt_get_publish_data(buf, length) = << >>
    BY <1>1, <1>4 DEF mqtt_get_publish_data
  <2> QED
    BY <2>1, EmptyIn
<1>5. CASE ~(i + 2 >= length)
  <2>1. PICK w \in Nat : w = WordAt(buf, i)
    BY <1>3, <1>5, WordIs
  <2>2. PICK f \in Nat : f = from(i + 2 + w)
    OBVIOUS
  <2>3. \/ mqtt_get_publish_data(buf, length) = << >>
        \/ mqtt_get_publish_data(buf, length) = SubSeq(buf, f + 1, Min({total, length}))
    BY <1>1, <1>2, <2>1, <2>2, Zenon DEF mqtt_get_publish_data
  <2>4. Min({total, length}) \in Nat /\ Min({total, length}) <= Len(buf)
    BY <1>3, MinOfTwo
  <2>5. SubSeq(buf, f + 1, Min({total, length})) \in Seq(Byte)
    BY <2>4, SubSeqOf
  <2> QED
    BY <2>3, <2>5, EmptyIn
<1> QED
  BY <1>4, <1>5

-----------------------------------------------------------------------------
(* What is queued.                                                         *)
Offer == {m \in Seq(Byte) : m # << >> /\ Len(m) <= BufferLength}
Outs == [message_id : 0 .. IdRange - 1, offered : Seq(Offer)]

LEMMA FreshIs ==
  ASSUME NEW message_id \in 0 .. IdRange - 1
  PROVE  /\ Fresh(message_id) \in 1 .. IdRange - 1
         /\ Fresh(message_id) = IF message_id = IdRange - 1 THEN 1 ELSE message_id + 1
         /\ IsWord(Fresh(message_id))
<1>1. PICK n \in Nat : n = IdRange /\ n >= 2 /\ n <= 65536
  BY MsgAssumption, SMTT(60)
<1>2. (message_id + 1) % n = IF message_id = n - 1 THEN 0 ELSE message_id + 1
  <2>1. CASE message_id = n - 1
    <3>1. message_id + 1 = n /\ n % n = 0
      BY <1>1, <2>1, SMTT(30)
    <3> QED
      BY <2>1, <3>1
  <2>2. CASE message_id # n - 1
    <3>1. PICK k \in Nat : k = message_id + 1 /\ k < n
      BY <1>1, <2>2
    <3>2. k % n = k
      BY <1>1, <3>1, SMTT(30)
    <3> QED
      BY <2>2, <3>1, <3>2
  <2> QED
    BY <2>1, <2>2
<1>3. PICK f \in 1 .. n - 1 : /\ f = Fresh(message_id)
                              /\ f = IF message_id = n - 1 THEN 1 ELSE message_id + 1
  BY <1>1, <1>2 DEF Fresh
<1>4. IsWord(f)
  BY <1>1 DEF IsWord
<1> QED
  BY <1>1, <1>3, <1>4

LEMMA FiniOffer ==
  ASSUME NEW type \in 0 .. 15, NEW qos \in 0 .. 2, NEW retain \in 0 .. 1,
         NEW body \in Seq(Byte), NEW m, m = fini_message(type, qos, retain, body),
         m # << >>
  PROVE  m \in Offer
<1>1. body \in Seq(Nat) /\ type \in Nat /\ qos \in Nat /\ retain \in Nat
  BY ByteIsNat
<1>2. PICK h \in 2 .. 3 : Framed(m, First(type, qos, retain), body, h)
  BY <1>1, FiniIs
<1>3. First(type, qos, retain) \in Byte
  <2>1. First(type, qos, retain) \in 0 .. 255
    BY FirstIs, ZenonT(60)
  <2> QED
    BY <2>1, ByteIs
<1>4. m \in Seq(Byte)
  BY <1>2, <1>3, FramedBytes
<1>5. Len(m) <= BufferLength
  BY <1>2 DEF Framed
<1> QED
  BY <1>4, <1>5 DEF Offer

LEMMA OfferMore ==
  ASSUME NEW o \in Outs, NEW id \in 0 .. IdRange - 1, NEW m \in Offer
  PROVE  /\ [message_id |-> id, offered |-> Append(o.offered, m)] \in Outs
         /\ [o EXCEPT !.offered = Append(@, m)] \in Outs
<1>1. o.offered \in Seq(Offer)
  BY DEF Outs
<1>2. Append(o.offered, m) \in Seq(Offer)
  BY <1>1
<1> QED
  BY <1>2 DEF Outs

LEMMA AckOffer ==
  ASSUME NEW type \in 0 .. 15, NEW id, IsWord(id)
  PROVE  mqtt_msg_ack(type, id) \in Offer
<1>1. PICK body : body = WordBytes(id) /\ Len(body) <= 4 /\ body \in Seq(Byte)
  <2>1. id \in Nat /\ WordBytes(id) \in Seq(Byte)
    BY WordBytesBytes
  <2>2. Len(WordBytes(id)) = 2
    BY <2>1, WordBytesAre
  <2>3. Len(WordBytes(id)) <= 4
    BY <2>2
  <2> QED
    BY <2>1, <2>3, Zenon
<1>2. PICK qos \in 0 .. 2 : qos = IF type = PUBREL THEN 1 ELSE 0
  OBVIOUS
<1>3. mqtt_msg_ack(type, id) = fini_message(type, qos, 0, body)
  BY <1>1, <1>2, Zenon DEF mqtt_msg_ack
<1>4. PICK m : m = fini_message(type, qos, 0, body)
  OBVIOUS
<1>5. m # << >> /\ m \in Seq(Byte) /\ Len(m) <= BufferLength
  BY <1>1, <1>4, ShortIs
<1> QED
  BY <1>3, <1>4, <1>5 DEF Offer

LEMMA RepliedTyped ==
  ASSUME NEW o \in Outs, NEW type \in 0 .. 15, NEW id, IsWord(id)
  PROVE  Replied(o, type, id) \in Outs
<1>1. o.message_id \in 0 .. IdRange - 1
  BY DEF Outs
<1>2. CASE id = 0
  <2>1. PICK n : n = Fresh(o.message_id) /\ n \in 0 .. IdRange - 1 /\ IsWord(n)
    BY <1>1, FreshIs
  <2>2. mqtt_msg_ack(type, n) \in Offer
    BY <2>1, AckOffer
  <2>3. Replied(o, type, id) =
          [message_id |-> n, offered |-> Append(o.offered, mqtt_msg_ack(type, n))]
    BY <1>2, <2>1 DEF Replied
  <2> QED
    BY <2>1, <2>2, <2>3, OfferMore
<1>3. CASE id # 0
  <2>1. mqtt_msg_ack(type, id) \in Offer
    BY AckOffer
  <2>2. Replied(o, type, id) =
          [message_id |-> o.message_id,
           offered |-> Append(o.offered, mqtt_msg_ack(type, id))]
    BY <1>3 DEF Replied
  <2> QED
    BY <1>1, <2>1, <2>2, OfferMore
<1> QED
  BY <1>2, <1>3

LEMMA PublishedTyped ==
  ASSUME NEW o \in Outs, NEW topic \in Seq(Byte), NEW data \in Seq(Byte)
  PROVE  Published(o, topic, data) \in Outs
<1>1. o.message_id \in 0 .. IdRange - 1 /\ o.offered \in Seq(Offer)
  BY DEF Outs
<1>2. PICK n : n = Fresh(o.message_id) /\ n \in 0 .. IdRange - 1 /\ IsWord(n)
  BY <1>1, FreshIs
<1>3. PICK m : m = mqtt_msg_publish(topic, data, 1, 1, n)
  OBVIOUS
<1>4. CASE m = << >>
  <2>1. Published(o, topic, data) = [message_id |-> n, offered |-> o.offered]
    BY <1>2, <1>3, <1>4 DEF Published
  <2> QED
    BY <1>1, <1>2, <2>1 DEF Outs
<1>5. CASE m # << >>
  <2>0. 1 \in 0 .. 2 /\ 1 \in 0 .. 1
    OBVIOUS
  <2>1. m \in Seq(Byte) /\ Len(m) <= BufferLength
    BY <1>2, <1>3, <1>5, <2>0, PublishBytes
  <2>2. m \in Offer
    BY <1>5, <2>1 DEF Offer
  <2>3. Published(o, topic, data) = [message_id |-> n, offered |-> Append(o.offered, m)]
    BY <1>2, <1>3, <1>5 DEF Published
  <2> QED
    BY <1>2, <2>2, <2>3, OfferMore
<1> QED
  BY <1>4, <1>5

(* Whether it fits is a matter of lengths alone.                           *)
SubscribeBody(topic, id) == WordBytes(id) \o append_string(topic) \o <<1>>

LEMMA SubscribeBodyIs ==
  ASSUME NEW topic \in Seq(Byte), IsWord(Len(topic)), NEW id, IsWord(id)
  PROVE  /\ SubscribeBody(topic, id) \in Seq(Byte)
         /\ Len(SubscribeBody(topic, id)) = 5 + Len(topic)
         /\ WordAt(SubscribeBody(topic, id), 0) = id
<1>1. PICK w \in Seq(Byte) : /\ w = WordBytes(id) /\ Len(w) = 2
                             /\ 256 * w[1] + w[2] = id
  BY WordBytesBytes, WordBytesAre
<1>2. topic \in Seq(Nat)
  BY ByteIsNat
<1>3. PICK t \in Seq(Byte) : t = append_string(topic) /\ Len(t) = 2 + Len(topic)
  BY <1>2, StringBytes, StringIs
<1>4. PICK e \in Seq(Byte) : e = <<1>> /\ Len(e) = 1
  <2>1. 1 \in Byte
    BY DEF Byte
  <2> QED
    BY <2>1, OneIn
<1>5. PICK s \in Seq(Byte) : s = w \o t /\ Join(s, w, t)
  BY JoinIs
<1>6. PICK b \in Seq(Byte) : b = s \o e /\ Join(b, s, e)
  BY JoinIs
<1>7. SubscribeBody(topic, id) = b
  BY <1>1, <1>3, <1>4, <1>5, <1>6 DEF SubscribeBody
<1>8. PICK n \in Nat : n = Len(topic)
  OBVIOUS
<1>9. Len(b) = 5 + n
  BY <1>1, <1>3, <1>4, <1>5, <1>6, <1>8 DEF Join
<1>10. b[1] = w[1] /\ b[2] = w[2]
  <2>1. /\ 1 \in 1 .. Len(w) /\ 2 \in 1 .. Len(w)
        /\ 1 \in 1 .. Len(s) /\ 2 \in 1 .. Len(s)
    BY <1>1, <1>3, <1>5, <1>8 DEF Join
  <2> QED
    BY <1>5, <1>6, <2>1, Zenon DEF Join
<1>11. WordAt(b, 0) = id
  BY <1>1, <1>10 DEF WordAt
<1> QED
  BY <1>7, <1>8, <1>9, <1>11

LEMMA SubscribeIs ==
  ASSUME NEW topic \in Range(Subscriptions), NEW id, IsWord(id)
  PROVE  /\ topic \in Seq(Byte) /\ IsWord(Len(topic))
         /\ mqtt_msg_subscribe(topic, 1, id)
              = fini_message(SUBSCRIBE, 1, 0, SubscribeBody(topic, id))
         /\ mqtt_msg_subscribe(topic, 1, id) # << >>
<1>1. /\ topic \in Seq(Byte) /\ Len(topic) <= 122
      /\ mqtt_msg_subscribe(topic, 1, 1) # << >>
  <2>1. Range(Subscriptions) \subseteq Seq(Byte)
    BY ReceiveAssumption DEF Range
  <2> QED
    BY <2>1, ReceiveAssumption
<1>2. PICK n \in Nat : n = Len(topic) /\ n <= 122
  BY <1>1
<1>3. IsWord(n)
  BY <1>2 DEF IsWord
<1>4. IsWord(1)
  BY DEF IsWord
<1>5. ASSUME NEW i, IsWord(i)
      PROVE  /\ mqtt_msg_subscribe(topic, 1, i)
                  = fini_message(SUBSCRIBE, 1, 0, SubscribeBody(topic, i))
             /\ SubscribeBody(topic, i) \in Seq(Byte)
             /\ Len(SubscribeBody(topic, i)) = 5 + n
  BY <1>1, <1>2, <1>3, <1>5, SubscribeBodyIs DEF mqtt_msg_subscribe, SubscribeBody
<1>6. PICK b : b = SubscribeBody(topic, 1) /\ Len(b) = 5 + n
  BY <1>4, <1>5
<1>7. ~(5 + n + 3 > BufferLength)
  <2>1. fini_message(SUBSCRIBE, 1, 0, b) # << >>
    BY <1>1, <1>4, <1>5, <1>6, Zenon
  <2>2. ~(Len(b) + 3 > BufferLength)
    BY <2>1, Zenon DEF fini_message
  <2> QED
    BY <1>6, <2>2
<1>8. PICK c : c = SubscribeBody(topic, id) /\ Len(c) = 5 + n /\ c \in Seq(Byte)
  BY <1>5
<1>9. fini_message(SUBSCRIBE, 1, 0, c) # << >>
  <2>1. PICK f : f = First(SUBSCRIBE, 1, 0) /\ f \in Nat
    BY DEF First, SUBSCRIBE
  <2>2. 5 + n \in Nat
    OBVIOUS
  <2>3. fini_message(SUBSCRIBE, 1, 0, c) = <<f>> \o RemainingLength(5 + n) \o c
    BY <1>7, <1>8, <2>1 DEF fini_message, First
  <2>4. RemainingLength(5 + n) = <<5 + n>>
    BY <1>2 DEF RemainingLength
  <2>5. c \in Seq(Nat)
    BY <1>8, ByteIsNat
  <2>6. PICK m : m = <<f>> \o <<5 + n>> \o c
    OBVIOUS
  <2>7. Len(m) = 2 + Len(c)
    BY <2>1, <2>2, <2>5, <2>6, Behind2
  <2>8. Len(m) # 0
    BY <1>8, <2>7
  <2>9. m # << >>
    BY <2>8
  <2> QED
    BY <2>3, <2>4, <2>6, <2>9
<1> QED
  BY <1>1, <1>2, <1>3, <1>5, <1>8, <1>9

LEMMA SubscribedTyped ==
  ASSUME NEW o \in Outs, NEW topic \in Range(Subscriptions)
  PROVE  Subscribed(o, topic) \in Outs
<1>1. o.message_id \in 0 .. IdRange - 1
  BY DEF Outs
<1>2. PICK n : n = Fresh(o.message_id) /\ n \in 0 .. IdRange - 1 /\ IsWord(n)
  BY <1>1, FreshIs
<1>3. PICK m : m = mqtt_msg_subscribe(topic, 1, n)
  OBVIOUS
<1>4. /\ topic \in Seq(Byte) /\ IsWord(Len(topic)) /\ m # << >>
      /\ m = fini_message(SUBSCRIBE, 1, 0, SubscribeBody(topic, n))
  BY <1>2, <1>3, SubscribeIs
<1>5. SubscribeBody(topic, n) \in Seq(Byte)
  BY <1>2, <1>4, SubscribeBodyIs
<1>6. SUBSCRIBE \in 0 .. 15 /\ 1 \in 0 .. 2 /\ 0 \in 0 .. 1
  BY DEF SUBSCRIBE
<1>7. m \in Offer
  BY <1>4, <1>5, <1>6, FiniOffer
<1>8. Subscribed(o, topic) = [message_id |-> n, offered |-> Append(o.offered, m)]
  BY <1>2, <1>3 DEF Subscribed
<1> QED
  BY <1>2, <1>7, <1>8, OfferMore

(* The subscriptions, one after the other.                                 *)
SubscribedInTurn(c, o) ==
  LET n == Len(Subscriptions)
  IN  /\ c \in [0 .. n -> Outs] /\ c[0] = o
      /\ \A k \in 1 .. n : c[k] = Subscribed(c[k - 1], Subscriptions[k])
      /\ FoldLeft(Subscribed, o, Subscriptions) = c[n]

LEMMA SubscribesInTurn ==
  ASSUME NEW o \in Outs
  PROVE  \E c : SubscribedInTurn(c, o)
<1>0. PICK n \in Nat : n = Len(Subscriptions) /\ DOMAIN Subscriptions = 1 .. n
  <2>1. PICK S : S = Seq(Byte)
    OBVIOUS
  <2>2. Subscriptions \in Seq(S)
    BY <2>1, ReceiveAssumption, Zenon
  <2> QED
    BY <2>2
<1> DEFINE step == [x \in Outs \X (1 .. n) |-> Subscribed(x[1], Subscriptions[x[2]])]
           Obeys(iter) == iter = [T \in SUBSET (1 .. n) |->
              IF T = {} THEN o
              ELSE Subscribed(iter[T \ {Max(T)}], Subscriptions[Max(T)])]
           found == CHOOSE iter : Obeys(iter)
<1>1. \A v \in Outs, k \in 1 .. n : Subscribed(v, Subscriptions[k]) \in Outs
  <2> SUFFICES ASSUME NEW v \in Outs, NEW k \in 1 .. n
               PROVE  Subscribed(v, Subscriptions[k]) \in Outs
    OBVIOUS
  <2>1. Subscriptions[k] \in Range(Subscriptions)
    BY <1>0 DEF Range
  <2> QED
    BY <2>1, SubscribedTyped
<1>2. step \in [Outs \X (1 .. n) -> Outs]
  BY <1>1
<1>4. FoldLeft(Subscribed, o, Subscriptions) = found[1 .. n]
  BY <1>0, Zenon DEF FoldLeft, MapThenFoldSet
<1>5. \A v \in Outs, k \in 1 .. n : step[<<v, k>>] = Subscribed(v, Subscriptions[k])
  OBVIOUS
<1> HIDE DEF step
<1>6. PICK it \in [SUBSET (1 .. n) -> Outs] :
        it = [T \in SUBSET (1 .. n) |->
               IF T = {} THEN o ELSE step[<<it[T \ {Max(T)}], Max(T)>>]]
  <2>1. HasLeftFold(n, Outs, o, step)
    BY <1>2, FoldLeftExists
  <2> QED
    BY <2>1 DEF HasLeftFold
<1>7. Obeys(it)
  <2>1. ASSUME NEW T \in SUBSET (1 .. n), T # {}
        PROVE  step[<<it[T \ {Max(T)}], Max(T)>>]
                 = Subscribed(it[T \ {Max(T)}], Subscriptions[Max(T)])
    <3>1. Max(T) \in 1 .. n /\ it[T \ {Max(T)}] \in Outs
      BY <2>1, LargestIn
    <3> QED
      BY <1>5, <3>1
  <2>2. \A T \in SUBSET (1 .. n) :
          (IF T = {} THEN o ELSE step[<<it[T \ {Max(T)}], Max(T)>>])
            = IF T = {} THEN o
              ELSE Subscribed(it[T \ {Max(T)}], Subscriptions[Max(T)])
    BY <2>1, Zenon
  <2> QED
    BY <1>6, <2>2, Zenon
<1>8. Obeys(found)
  BY <1>7, Zenon
<1> HIDE DEF found
<1>9. found[{}] = o
  BY <1>8, Ends
<1>10. ASSUME NEW T \in SUBSET (1 .. n), T # {}, found[T \ {Max(T)}] \in Outs
       PROVE  found[T] = step[<<found[T \ {Max(T)}], Max(T)>>]
  <2>1. Max(T) \in 1 .. n
    BY <1>10, LargestIn
  <2>2. found[T] = Subscribed(found[T \ {Max(T)}], Subscriptions[Max(T)])
    BY <1>8, <1>10
  <2> QED
    BY <1>5, <1>10, <2>1, <2>2
<1>11. PICK c \in [0 .. n -> Outs] : LeftTrace(c, o, step, n) /\ found[1 .. n] = c[n]
  <2>1. FoldsLeft(found, n, Outs, o, step)
    BY <1>9, <1>10 DEF FoldsLeft
  <2>2. TracedLeft(found, n, Outs, o, step)
    BY <1>2, <2>1, LeftTraceOf
  <2> QED
    BY <2>2 DEF TracedLeft
<1>12. c[0] = o /\ \A k \in 1 .. n : c[k] = Subscribed(c[k - 1], Subscriptions[k])
  <2> SUFFICES ASSUME NEW k \in 1 .. n
               PROVE  c[k] = Subscribed(c[k - 1], Subscriptions[k])
    BY <1>11 DEF LeftTrace
  <2>1. c[k - 1] \in Outs
    OBVIOUS
  <2> QED
    BY <1>5, <1>11, <2>1 DEF LeftTrace
<1>13. SubscribedInTurn(c, o)
  BY <1>0, <1>4, <1>11, <1>12, Zenon DEF SubscribedInTurn
<1> QED
  BY <1>13, Zenon

LEMMA ConnectedTyped ==
  ASSUME NEW o \in Outs
  PROVE  mqttConnectedCb(o) \in Outs
<1>1. PICK c : SubscribedInTurn(c, o)
  BY SubscribesInTurn
<1>2. FoldLeft(Subscribed, o, Subscriptions) \in Outs
  <2>1. Len(Subscriptions) \in 0 .. Len(Subscriptions)
    BY ReceiveAssumption
  <2> QED
    BY <1>1, <2>1 DEF SubscribedInTurn
<1>3. Status \in Seq(Byte) /\ Version \in Seq(Byte)
  BY ReceiveAssumption
<1> QED
  BY <1>2, <1>3, PublishedTyped DEF mqttConnectedCb

-----------------------------------------------------------------------------
(* The types, and what they need: no stream shows a remaining length of    *)
(* more than two bytes, because no two neighbouring bytes of it are both   *)
(* 128 or more, and no packet ends in such a byte.                         *)
Piece ==
  {r \in [packet : Sendable, bytes : Seq(Byte), cut : BOOLEAN] :
     /\ Tidy(r.bytes) /\ r.bytes # << >>
     /\ ~r.cut => r.bytes = Encode(r.packet)}

Delivery == [topic : Seq(Byte) \cup {NULL}, data : Seq(Byte), whole : BOOLEAN]

Typed ==
  /\ connState \in {"MQTT_CONNECT_SENDING", "MQTT_DATA", "RESET"}
  /\ in_buffer \in Seq(Byte) /\ Len(in_buffer) = BufferLength
  /\ pdata \in Seq(Byte) /\ Tame(pdata)
  /\ out \in Outs
  /\ delivered \in Seq(Delivery)
  /\ wire \in Seq(Piece)
  /\ sent \in Seq(Sendable)
  /\ \A i \in 1 .. Len(wire) : wire[i].packet \in Range(sent)
  /\ \A i \in 2 .. Len(wire) : ~wire[i].cut
  /\ cuts \in 0 .. MaxCuts
  /\ aligned \in BOOLEAN
  /\ reached \in Seq(Sendable)

LEMMA OnWirePiece ==
  ASSUME NEW p \in Sendable
  PROVE  OnWire(p) \in Piece /\ OnWire(p).packet = p /\ ~OnWire(p).cut
<1>1. PICK m : m = Encode(p)
  OBVIOUS
<1>2. Tidy(m) /\ m # << >>
  BY <1>1, EncodeGood, GoodTidy
<1>3. m \in Seq(Byte)
  BY <1>2 DEF Tidy
<1>4. OnWire(p) = [packet |-> p, bytes |-> m, cut |-> FALSE]
  BY <1>1, Zenon DEF OnWire
<1> QED
  BY <1>1, <1>2, <1>3, <1>4 DEF Piece

LEMMA TypedInit ==
  ASSUME Init
  PROVE  Typed
<1>1. PICK l \in Nat : l = BufferLength
  BY Buffer
<1>2. in_buffer \in Seq(Byte) /\ Len(in_buffer) = BufferLength
  <2>1. in_buffer = [i \in 1 .. l |-> 0] /\ 0 \in Byte
    BY <1>1 DEF Init, Byte
  <2>2. in_buffer \in [1 .. l -> Byte]
    BY <2>1
  <2> QED
    BY <1>1, <2>2
<1>3. pdata \in Seq(Byte) /\ Tame(pdata)
  BY EmptyIn DEF Init, Tame
<1>4. out \in Outs
  <2>1. 0 \in 0 .. IdRange - 1
    BY MsgAssumption, SMTT(60)
  <2> QED
    BY <2>1, EmptyIn, SMTT(60) DEF Init, Outs
<1>5. delivered \in Seq(Delivery) /\ reached \in Seq(Sendable)
  BY EmptyIn DEF Init
<1>6. Accepted \in Sendable
  BY DEF Sendable
<1>7. sent \in Seq(Sendable) /\ Accepted \in Range(sent)
  <2>1. sent = <<Accepted>>
    BY DEF Init
  <2> QED
    BY <1>6, <2>1, OneIn DEF Range
<1>8. /\ wire \in Seq(Piece) /\ Len(wire) = 1 /\ wire[1] = OnWire(Accepted)
  BY <1>6, OnWirePiece, OneIn DEF Init
<1>9. \A i \in 1 .. Len(wire) : wire[i].packet \in Range(sent)
  BY <1>6, <1>7, <1>8, OnWirePiece
<1>10. \A i \in 2 .. Len(wire) : ~wire[i].cut
  BY <1>8
<1>11. cuts \in 0 .. MaxCuts
  BY ReceiveAssumption DEF Init
<1>12. connState = "MQTT_CONNECT_SENDING" /\ aligned = TRUE
  BY DEF Init
<1> QED
  BY <1>2, <1>3, <1>4, <1>5, <1>7, <1>8, <1>9, <1>10, <1>11, <1>12 DEF Typed

LEMMA CopiedBegins ==
  ASSUME Typed, Fits
  PROVE  /\ Begins(Copied, pdata) /\ Len(Copied) = BufferLength
         /\ Copied \in Seq(Byte) /\ Len(pdata) \in 1 .. Len(Copied)
<1>1. /\ pdata \in Seq(Byte) /\ in_buffer \in Seq(Byte) /\ Len(in_buffer) = BufferLength
      /\ pdata # << >> /\ Len(pdata) < BufferLength
  BY DEF Typed, Fits
<1>2. PICK buf : buf = pdata \o SubSeq(in_buffer, Len(pdata) + 1, BufferLength)
  OBVIOUS
<1>3. Begins(buf, pdata) /\ Len(buf) = BufferLength
  BY <1>1, <1>2, CopyBegins
<1>4. Copied = buf
  BY <1>2 DEF Copied
<1> QED
  BY <1>3, <1>4 DEF Begins

(* What RecvPublish, of all of READPACKET, gives dataCb.                   *)
LEMMA DeliveryTyped ==
  ASSUME NEW buf, NEW s, Begins(buf, s), Tame(s), NEW whole \in BOOLEAN
  PROVE  /\ mqtt_get_publish_data(buf, Len(s)) \in Seq(Byte)
         /\ [topic |-> mqtt_get_publish_topic(buf, Len(s)),
             data |-> mqtt_get_publish_data(buf, Len(s)), whole |-> whole] \in Delivery
<1>1. buf \in Seq(Byte) /\ Len(s) \in 1 .. Len(buf)
  BY DEF Begins
<1>2. mqtt_get_publish_topic(buf, Len(s)) \in Seq(Byte) \cup {NULL}
  BY <1>1, TopicTyped
<1>3. mqtt_get_publish_data(buf, Len(s)) \in Seq(Byte)
  BY <1>1, TotalTame, DataTyped
<1> QED
  BY <1>2, <1>3 DEF Delivery

LEMMA AnswerTyped ==
  ASSUME NEW o \in Outs, NEW qos, NEW id, IsWord(id)
  PROVE  Answer(o, qos, id) \in Outs
<1>1. PUBACK \in 0 .. 15 /\ PUBREC \in 0 .. 15
  BY DEF PUBACK, PUBREC
<1>2. Replied(o, PUBACK, id) \in Outs /\ Replied(o, PUBREC, id) \in Outs
  BY <1>1, RepliedTyped
<1>3. 1 # 2
  OBVIOUS
<1>4. CASE qos = 1
  BY <1>2, <1>3, <1>4 DEF Answer
<1>5. CASE qos = 2
  BY <1>2, <1>3, <1>5 DEF Answer
<1>6. CASE qos # 1 /\ qos # 2
  BY <1>6 DEF Answer
<1> QED
  BY <1>4, <1>5, <1>6

(* What is left of the segment behind a packet.                            *)
LEMMA BehindShorter ==
  ASSUME NEW s \in Seq(Byte), Tame(s), s # << >>, NEW length \in Nat, length > 0
  PROVE  /\ SubSeq(s, length + 1, Len(s)) \in Seq(Byte)
         /\ Tame(SubSeq(s, length + 1, Len(s)))
         /\ Len(SubSeq(s, length + 1, Len(s))) < Len(s)
<1>1. PICK n \in Nat : n = Len(s) /\ n > 0
  OBVIOUS
<1>2. PICK t : t = SubSeq(s, length + 1, n)
  OBVIOUS
<1>3. t \in Seq(Byte) /\ Tame(t) /\ Len(t) = IF length <= n THEN n - length ELSE 0
  BY <1>1, <1>2, TamePart
<1>4. Len(t) < n
  BY <1>1, <1>3
<1> QED
  BY <1>1, <1>2, <1>3, <1>4

LEMMA PublishStep ==
  ASSUME Typed, RecvPublish
  PROVE  /\ in_buffer' = Copied
         /\ connState' \in {"MQTT_DATA", "RESET"}
         /\ out' \in Outs
         /\ delivered' \in Seq(Delivery)
         /\ pdata' \in Seq(Byte) /\ Tame(pdata') /\ Len(pdata') < Len(pdata)
<1>0. Fits /\ pdata \in Seq(Byte) /\ Tame(pdata) /\ pdata # << >> /\ in_buffer' = Copied
  BY DEF RecvPublish, Typed, Fits
<1> DEFINE buf == Copied
           id == mqtt_get_id(buf, BufferLength)
           topic == mqtt_get_publish_topic(buf, Len(pdata))
           data == mqtt_get_publish_data(buf, Len(pdata))
           qos == mqtt_get_qos(buf)
           answered == Answer(out, qos, id)
           length == mqtt_get_total_length(buf, Len(pdata))
<1>1. /\ Begins(buf, pdata) /\ Len(buf) = BufferLength /\ buf \in Seq(Byte)
  BY <1>0, CopiedBegins
<1>2. /\ delivered' = Append(delivered, [topic |-> topic, data |-> data, whole |-> aligned])
      /\ out' = IF topic = Command THEN Published(answered, Status, data) ELSE answered
      /\ connState' \in IF topic = NULL THEN {"MQTT_DATA", "RESET"} ELSE {"MQTT_DATA"}
      /\ pdata' = IF connState' = "RESET" THEN << >> ELSE Behind(length)
  BY <1>0, Zenon DEF RecvPublish
<1>3. length \in Nat /\ length > 0
  BY <1>0, <1>1, TotalTame
<1>4. /\ data \in Seq(Byte)
      /\ [topic |-> topic, data |-> data, whole |-> aligned] \in Delivery
  <2>1. aligned \in BOOLEAN
    BY DEF Typed
  <2> QED
    BY <1>0, <1>1, <2>1, DeliveryTyped
<1>5. IsWord(id)
  <2>1. BufferLength \in 1 .. Len(buf)
    BY <1>1, Buffer
  <2> QED
    BY <1>1, <2>1, IdTyped
<1>6. answered \in Outs
  BY <1>5, AnswerTyped DEF Typed
<1>7. Behind(length) = SubSeq(pdata, length + 1, Len(pdata))
  BY Zenon DEF Behind
<1> HIDE DEF buf, id, topic, data, qos, answered, length
<1>8. out' \in Outs
  <2>1. Status \in Seq(Byte)
    BY ReceiveAssumption
  <2>2. Published(answered, Status, data) \in Outs
    BY <1>4, <1>6, <2>1, PublishedTyped
  <2> QED
    BY <1>2, <1>6, <2>2
<1>9. delivered' \in Seq(Delivery)
  <2>1. delivered \in Seq(Delivery)
    BY DEF Typed
  <2> QED
    BY <1>2, <1>4, <2>1
<1>10. connState' \in {"MQTT_DATA", "RESET"}
  BY <1>2
<1>11. /\ pdata' \in Seq(Byte) /\ Tame(pdata') /\ Len(pdata') < Len(pdata)
  <2>1. CASE connState' = "RESET"
    <3>1. pdata' = << >>
      BY <1>2, <2>1
    <3> QED
      BY <1>0, <3>1, EmptyIn DEF Tame
  <2>2. CASE connState' # "RESET"
    <3>1. pdata' = SubSeq(pdata, length + 1, Len(pdata))
      BY <1>2, <1>7, <2>2
    <3> QED
      BY <1>0, <1>3, <3>1, BehindShorter
  <2> QED
    BY <2>1, <2>2
<1> QED
  BY <1>0, <1>8, <1>9, <1>10, <1>11

LEMMA ConnectingStep ==
  ASSUME Typed, RecvConnecting
  PROVE  /\ in_buffer' = Copied /\ out' \in Outs
         /\ connState' \in {"MQTT_CONNECT_SENDING", "MQTT_DATA"}
         /\ pdata' = << >> /\ pdata # << >>
<1>1. /\ in_buffer' = Copied /\ pdata' = << >> /\ pdata # << >>
      /\ connState = "MQTT_CONNECT_SENDING"
      /\ \/ connState' = "MQTT_DATA" /\ out' = mqttConnectedCb(out)
         \/ connState' = connState /\ out' = out
  BY DEF RecvConnecting, Fits
<1>2. out \in Outs
  BY DEF Typed
<1> QED
  BY <1>1, <1>2, ConnectedTyped

LEMMA OtherStep ==
  ASSUME Typed, RecvOther
  PROVE  /\ in_buffer' = Copied /\ out' \in Outs
         /\ pdata' = << >> /\ pdata # << >>
<1>1. Fits /\ pdata # << >> /\ in_buffer' = Copied /\ pdata' = << >> /\ out \in Outs
  BY DEF RecvOther, Fits, Typed
<1> DEFINE type == mqtt_get_type(Copied)
           id == mqtt_get_id(Copied, BufferLength)
<1>2. out' = CASE type = PUBREC -> Replied(out, PUBREL, id)
               [] type = PUBREL -> Replied(out, PUBCOMP, id)
               [] type = PINGREQ -> [out EXCEPT !.offered = Append(@, mqtt_msg_pingresp)]
               [] OTHER -> out
  BY <1>1, Zenon DEF RecvOther
<1>3. IsWord(id)
  <2>1. BufferLength \in 1 .. Len(Copied) /\ Copied \in Seq(Byte)
    BY <1>1, CopiedBegins, Buffer
  <2> QED
    BY <2>1, IdTyped
<1> HIDE DEF type, id
<1>4. Replied(out, PUBREL, id) \in Outs /\ Replied(out, PUBCOMP, id) \in Outs
  <2>1. PUBREL \in 0 .. 15 /\ PUBCOMP \in 0 .. 15
    BY DEF PUBREL, PUBCOMP
  <2> QED
    BY <1>1, <1>3, <2>1, RepliedTyped
<1>5. [out EXCEPT !.offered = Append(@, mqtt_msg_pingresp)] \in Outs
  <2>1. PICK m : m = fini_message(PINGRESP, 0, 0, << >>)
    OBVIOUS
  <2>2. PINGRESP \in 0 .. 15 /\ 0 \in 0 .. 2 /\ << >> \in Seq(Byte) /\ Len(<< >>) <= 4
    BY EmptyIn DEF PINGRESP
  <2>3. m # << >> /\ m \in Seq(Byte) /\ Len(m) <= BufferLength
    BY <2>1, <2>2, ShortIs
  <2>4. mqtt_msg_pingresp \in Offer
    BY <2>1, <2>3 DEF mqtt_msg_pingresp, Offer
  <2>5. out.message_id \in 0 .. IdRange - 1
    BY <1>1 DEF Outs
  <2> QED
    BY <1>1, <2>4, <2>5, OfferMore
<1>6. out' \in Outs
  <2>1. PUBREC # PUBREL /\ PUBREC # PINGREQ /\ PUBREL # PINGREQ
    BY DEF PUBREC, PUBREL, PINGREQ
  <2>2. CASE type = PUBREC
    BY <1>2, <1>4, <2>1, <2>2
  <2>3. CASE type = PUBREL
    BY <1>2, <1>4, <2>1, <2>3
  <2>4. CASE type = PINGREQ
    BY <1>2, <1>5, <2>1, <2>4
  <2>5. CASE type # PUBREC /\ type # PUBREL /\ type # PINGREQ
    BY <1>1, <1>2, <2>5
  <2> QED
    BY <2>2, <2>3, <2>4, <2>5
<1> QED
  BY <1>1, <1>6

-----------------------------------------------------------------------------
(* What TCP brings.                                                        *)
LEMMA FlatTidy ==
  ASSUME NEW k \in Nat, NEW seqs \in [1 .. k -> Seq(Byte)],
         \A j \in 1 .. k : Tidy(seqs[j])
  PROVE  Tidy(FlattenSeq(seqs))
<1>1. PICK f \in [0 .. k -> Seq(Byte)] :
        Flattening(f, seqs, k) /\ FlattenSeq(seqs) = f[k]
  BY FlattenedIs DEF Flattened
<1> DEFINE S == {j \in 0 .. k : Tidy(f[j])}
<1>2. 0 \in S
  <2>1. f[0] = << >>
    BY <1>1 DEF Flattening
  <2> QED
    BY <2>1, EmptyIn DEF Tidy, Tame
<1>3. ASSUME NEW j \in 1 .. k, j - 1 \in S PROVE j \in S
  <2>1. f[j] = f[j - 1] \o seqs[j]
    BY <1>1 DEF Flattening
  <2>2. Tidy(seqs[j]) /\ seqs[j] \in Seq(Byte) /\ Tame(seqs[j]) /\ Tidy(f[j - 1])
    BY <1>3 DEF Tidy
  <2>3. Tidy(f[j - 1] \o seqs[j])
    BY <2>2, TidyJoin
  <2>4. Tidy(f[j])
    BY <2>1, <2>3, Zenon
  <2> QED
    BY <2>4
<1>4. \A j \in 0 .. k : j \in S
  <2> HIDE DEF S
  <2> QED
    BY <1>2, <1>3, InductionTo
<1>5. Tidy(f[k])
  BY <1>4
<1> QED
  BY <1>1, <1>5

LEMMA PieceIs ==
  ASSUME NEW r \in Piece
  PROVE  /\ r = [packet |-> r.packet, bytes |-> r.bytes, cut |-> r.cut]
         /\ r.packet \in Sendable /\ r.bytes \in Seq(Byte) /\ r.cut \in BOOLEAN
         /\ Tidy(r.bytes) /\ r.bytes # << >>
         /\ ~r.cut => r.bytes = Encode(r.packet)
BY DEF Piece

CutOff(r, m) == [r EXCEPT !.cut = TRUE, !.bytes = SubSeq(@, m + 1, Len(@))]

LEMMA CutPiece ==
  ASSUME NEW r \in Piece, NEW m \in 1 .. Len(r.bytes) - 1
  PROVE  /\ CutOff(r, m) \in Piece /\ CutOff(r, m).packet = r.packet
         /\ CutOff(r, m).bytes = SubSeq(r.bytes, m + 1, Len(r.bytes))
         /\ SubSeq(r.bytes, 1, m) \in Seq(Byte) /\ Tame(SubSeq(r.bytes, 1, m))
         /\ Len(SubSeq(r.bytes, 1, m)) = m
<1>1. PICK b \in Seq(Byte) : b = r.bytes /\ Tidy(b) /\ Tame(b)
  BY PieceIs DEF Tidy
<1>2. PICK n \in Nat : n = Len(b) /\ m \in 1 .. n - 1
  BY <1>1
<1>3. PICK t : t = SubSeq(b, m + 1, n)
  OBVIOUS
<1>4. t \in Seq(Byte) /\ Tidy(t) /\ Len(t) = n - m
  <2>1. m \in Nat /\ n <= Len(b) /\ m <= n
    BY <1>2
  <2> QED
    BY <1>1, <1>2, <1>3, <2>1, TamePart
<1>5. t # << >>
  BY <1>2, <1>4
<1>6. CutOff(r, m) = [packet |-> r.packet, bytes |-> t, cut |-> TRUE]
  <2>1. r = [packet |-> r.packet, bytes |-> b, cut |-> r.cut]
    BY <1>1, PieceIs
  <2>2. SubSeq(r.bytes, m + 1, Len(r.bytes)) = t
    BY <1>1, <1>2, <1>3, Zenon
  <2>3. CutOff(r, m) = [r EXCEPT !.cut = TRUE, !.bytes = t]
    BY <2>2 DEF CutOff
  <2> QED
    BY <2>1, <2>3
<1>7. [packet |-> r.packet, bytes |-> t, cut |-> TRUE] \in Piece
  BY <1>4, <1>5, PieceIs DEF Piece
<1>8. PICK h : h = SubSeq(b, 0 + 1, m)
  OBVIOUS
<1>9. h \in Seq(Byte) /\ Tame(h) /\ Len(h) = m
  <2>1. 0 \in Nat /\ m \in Nat /\ m <= Len(b) /\ 0 <= m /\ m - 0 = m
    BY <1>2
  <2> QED
    BY <1>1, <1>8, <2>1, TamePart
<1> QED
  <2>1. CutOff(r, m) \in Piece
    BY <1>6, <1>7, Zenon
  <2>2. CutOff(r, m).packet = r.packet /\ CutOff(r, m).bytes = t
    BY <1>6
  <2>3. SubSeq(r.bytes, m + 1, Len(r.bytes)) = t
    BY <1>1, <1>2, <1>3, Zenon
  <2>4. 0 + 1 = 1
    OBVIOUS
  <2>5. SubSeq(r.bytes, 1, m) = h
    BY <1>1, <1>8, <2>4, Zenon
  <2> QED
    BY <1>9, <2>1, <2>2, <2>3, <2>5, Zenon

(* The pieces that remain behind the first k.                              *)
LEMMA PiecesBehind ==
  ASSUME NEW w \in Seq(Piece), NEW k \in Nat
  PROVE  /\ SubSeq(w, k + 1, Len(w)) \in Seq(Piece)
         /\ Len(SubSeq(w, k + 1, Len(w))) = IF k <= Len(w) THEN Len(w) - k ELSE 0
         /\ \A i \in 1 .. Len(w) - k : SubSeq(w, k + 1, Len(w))[i] = w[k + i]
<1>1. Len(w) \in Nat
  OBVIOUS
<1> QED
  BY <1>1, SubSeqOf

LEMMA LeastAt ==
  ASSUME NEW n \in Nat, NEW T \in SUBSET (1 .. n)
  PROVE  /\ Min(T \cup {n}) \in 0 .. n /\ Min(T \cup {n}) \in T \cup {n}
         /\ \A j \in T : Min(T \cup {n}) <= j
<1>1. CASE n = 0
  <2>0. T = {}
    BY <1>1
  <2>1. T \cup {n} = {n, n}
    BY <2>0
  <2>2. Min({n, n}) = n
    BY MinOfTwo
  <2>3. Min(T \cup {n}) = n
    BY <2>1, <2>2, Zenon
  <2> QED
    BY <1>1, <2>0, <2>3
<1>2. CASE n > 0
  <2>1. T \cup {n} \in SUBSET (1 .. n) /\ T \cup {n} # {}
    BY <1>2
  <2>2. Min(T \cup {n}) \in T \cup {n} /\ \A j \in T \cup {n} : Min(T \cup {n}) <= j
    BY <2>1, LeastIn
  <2>3. \A j \in T \cup {n} : j \in 0 .. n
    OBVIOUS
  <2> QED
    BY <2>2, <2>3
<1> QED
  BY <1>1, <1>2

LEMMA ActsOnTyped ==
  ASSUME NEW packets \in Seq(Sendable), NEW length
  PROVE  ActsOn(packets, length) \in Seq(Sendable)
<1> DEFINE last == {j \in DOMAIN packets : packets[j].type # PUBLISH}
           e == Min(last \cup {Len(packets)})
<1>1. PICK n \in Nat : n = Len(packets) /\ DOMAIN packets = 1 .. n
  OBVIOUS
<1>2. e \in 0 .. n
  <2>1. last \in SUBSET (1 .. n) /\ last \cup {Len(packets)} = last \cup {n}
    BY <1>1
  <2> HIDE DEF last
  <2> QED
    BY <2>1, LeastAt
<1>3. ActsOn(packets, length) =
        IF length >= BufferLength THEN << >>
        ELSE IF connState = "MQTT_CONNECT_SENDING"
        THEN IF packets # << >> /\ packets[1].type = CONNACK THEN <<packets[1]>>
             ELSE << >>
        ELSE SubSeq(packets, 1, e)
  BY Zenon DEF ActsOn
<1> HIDE DEF e
<1>4. SubSeq(packets, 1, e) \in Seq(Sendable)
  <2>1. 0 \in Nat /\ e \in Nat /\ e <= Len(packets) /\ 0 + 1 = 1
    BY <1>1, <1>2
  <2>2. SubSeq(packets, 0 + 1, e) \in Seq(Sendable)
    BY <2>1, SubSeqOf
  <2> QED
    BY <2>1, <2>2
<1>5. packets # << >> => <<packets[1]>> \in Seq(Sendable)
  <2>1. packets # << >> => packets[1] \in Sendable
    BY <1>1
  <2> QED
    BY <2>1, OneIn
<1>6. << >> \in Seq(Sendable)
  BY EmptyIn
<1>7. \/ ActsOn(packets, length) = << >>
      \/ packets # << >> /\ ActsOn(packets, length) = <<packets[1]>>
      \/ ActsOn(packets, length) = SubSeq(packets, 1, e)
  BY <1>3
<1> QED
  BY <1>4, <1>5, <1>6, <1>7

(* The segment of k whole packets, cut after m bytes of the next one.      *)
Whole(k) == SubSeq(wire, 1, k)
BytesOf(k) == [j \in 1 .. k |-> Whole(k)[j].bytes]
PacketsOf(k) == [j \in 1 .. k |-> Whole(k)[j].packet]
PartOf(k, m) == IF m = 0 THEN << >> ELSE SubSeq(wire[k + 1].bytes, 1, m)

LEMMA WholeIs ==
  ASSUME Typed, NEW k \in 0 .. Len(wire)
  PROVE  /\ Whole(k) \in Seq(Piece)
         /\ \A j \in 1 .. k : Whole(k)[j] = wire[j] /\ wire[j] \in Piece
         /\ BytesOf(k) \in [1 .. k -> Seq(Byte)] /\ PacketsOf(k) \in Seq(Sendable)
         /\ Len(PacketsOf(k)) = k
         /\ \A j \in 1 .. k : /\ BytesOf(k)[j] = wire[j].bytes /\ Tidy(wire[j].bytes)
                              /\ PacketsOf(k)[j] = wire[j].packet
<1>1. wire \in Seq(Piece) /\ k \in Nat /\ k <= Len(wire)
  BY DEF Typed
<1>2. PICK w : w = SubSeq(wire, 0 + 1, k)
  OBVIOUS
<1>3. w \in Seq(Piece) /\ Len(w) = k /\ \A j \in 1 .. k - 0 : w[j] = wire[0 + j]
  BY <1>1, <1>2, SubSeqOf
<1>4. Whole(k) = w
  BY <1>2 DEF Whole
<1>5. \A j \in 1 .. k : w[j] = wire[j] /\ wire[j] \in Piece
  BY <1>1, <1>3
<1>6. \A j \in 1 .. k : /\ wire[j].packet \in Sendable /\ wire[j].bytes \in Seq(Byte)
                        /\ Tidy(wire[j].bytes)
  BY <1>5, PieceIs
<1>7. BytesOf(k) \in [1 .. k -> Seq(Byte)] /\ \A j \in 1 .. k : BytesOf(k)[j] = wire[j].bytes
  BY <1>4, <1>5, <1>6 DEF BytesOf
<1>8. /\ PacketsOf(k) \in Seq(Sendable) /\ Len(PacketsOf(k)) = k
      /\ \A j \in 1 .. k : PacketsOf(k)[j] = wire[j].packet
  <2>1. /\ PacketsOf(k) \in [1 .. k -> Sendable]
        /\ \A j \in 1 .. k : PacketsOf(k)[j] = wire[j].packet
    BY <1>4, <1>5, <1>6 DEF PacketsOf
  <2> QED
    BY <1>1, <2>1
<1> QED
  BY <1>3, <1>4, <1>5, <1>6, <1>7, <1>8

LEMMA SegmentStep ==
  ASSUME Typed, NEW k \in 0 .. Len(wire), NEW m \in Nat, Segment(k, m),
         m > 0 => k < Len(wire) /\ m \in 1 .. Len(wire[k + 1].bytes) - 1
  PROVE  Typed'
<1>1. /\ pdata = << >> /\ k + m > 0 /\ (m > 0 => cuts < MaxCuts)
      /\ pdata' = FlattenSeq(BytesOf(k)) \o PartOf(k, m)
      /\ wire' = IF m = 0 THEN SubSeq(wire, k + 1, Len(wire))
                 ELSE <<CutOff(wire[k + 1], m)>> \o SubSeq(wire, k + 2, Len(wire))
      /\ cuts' = (IF m = 0 THEN cuts ELSE cuts + 1)
      /\ aligned' = ~wire[1].cut
      /\ reached' = (IF cuts' > 0 THEN reached
                     ELSE reached \o ActsOn(PacketsOf(k), Len(pdata')))
      /\ UNCHANGED <<connState, in_buffer, out, delivered, sent>>
  BY Zenon DEF Segment, client, CutOff, BytesOf, PacketsOf, PartOf, Whole
<1>2. /\ wire \in Seq(Piece) /\ sent \in Seq(Sendable)
      /\ \A i \in 1 .. Len(wire) : wire[i].packet \in Range(sent)
      /\ \A i \in 2 .. Len(wire) : ~wire[i].cut
      /\ cuts \in 0 .. MaxCuts /\ reached \in Seq(Sendable)
  BY DEF Typed
<1>3. PICK l \in Nat : l = Len(wire) /\ k <= l /\ (m > 0 => k < l) /\ l >= 1
  BY <1>1, <1>2
<1>4. /\ PacketsOf(k) \in Seq(Sendable) /\ BytesOf(k) \in [1 .. k -> Seq(Byte)]
      /\ \A j \in 1 .. k : Tidy(BytesOf(k)[j])
  BY WholeIs
<1>5. /\ PartOf(k, m) \in Seq(Byte) /\ Tame(PartOf(k, m))
  <2>1. CASE m = 0
    BY <2>1, EmptyIn DEF PartOf, Tame
  <2>2. CASE m > 0
    <3>1. PICK r \in Piece : r = wire[k + 1] /\ m \in 1 .. Len(r.bytes) - 1
      <4>1. k + 1 \in 1 .. Len(wire)
        BY <1>3, <2>2
      <4> QED
        BY <1>2, <2>2, <4>1
    <3>2. PartOf(k, m) = SubSeq(r.bytes, 1, m)
      BY <2>2, <3>1 DEF PartOf
    <3> QED
      BY <3>1, <3>2, CutPiece
  <2> QED
    BY <2>1, <2>2
<1>6. pdata' \in Seq(Byte) /\ Tame(pdata')
  <2>1. Tidy(FlattenSeq(BytesOf(k)))
    <3>1. k \in Nat
      OBVIOUS
    <3> QED
      BY <1>4, <3>1, FlatTidy
  <2>2. PICK f : f = FlattenSeq(BytesOf(k)) /\ Tidy(f)
    BY <2>1
  <2>3. f \o PartOf(k, m) \in Seq(Byte) /\ Tame(f \o PartOf(k, m))
    BY <1>5, <2>2, TidyJoin
  <2> QED
    BY <1>1, <2>2, <2>3
<1>7. /\ wire' \in Seq(Piece)
      /\ \A i \in 1 .. Len(wire') : wire'[i].packet \in Range(sent)
      /\ \A i \in 2 .. Len(wire') : ~wire'[i].cut
  <2>1. CASE m = 0
    <3>1. wire' = SubSeq(wire, k + 1, Len(wire))
      BY <1>1, <2>1
    <3>0. k \in Nat
      OBVIOUS
    <3>2. /\ wire' \in Seq(Piece) /\ Len(wire') = l - k
          /\ \A i \in 1 .. l - k : wire'[i] = wire[k + i]
      BY <1>2, <1>3, <3>0, <3>1, PiecesBehind
    <3>3. \A i \in 1 .. l - k : k + i \in 1 .. Len(wire)
      BY <1>3
    <3>4. \A i \in 2 .. l - k : i \in 1 .. l - k /\ k + i \in 2 .. Len(wire)
      BY <1>3
    <3> QED
      BY <1>2, <3>2, <3>3, <3>4
  <2>2. CASE m > 0
    <3>0. k + 1 \in 1 .. Len(wire) /\ k + 1 \in Nat /\ k + 1 <= l
      BY <1>3, <2>2
    <3>1. PICK r \in Piece : r = wire[k + 1] /\ m \in 1 .. Len(r.bytes) - 1
      BY <1>2, <2>2, <3>0
    <3>2. PICK c \in Piece : c = CutOff(r, m) /\ c.packet = r.packet
      BY <3>1, CutPiece
    <3>3. PICK rest \in Seq(Piece) :
            /\ rest = SubSeq(wire, (k + 1) + 1, Len(wire)) /\ Len(rest) = l - (k + 1)
            /\ \A i \in 1 .. l - (k + 1) : rest[i] = wire[(k + 1) + i]
      BY <1>2, <1>3, <3>0, PiecesBehind
    <3>4. wire' = <<c>> \o rest
      <4>1. (k + 1) + 1 = k + 2 /\ m # 0
        BY <2>2
      <4>2. wire' = <<CutOff(wire[k + 1], m)>> \o SubSeq(wire, k + 2, Len(wire))
        BY <1>1, <4>1, Zenon
      <4> QED
        BY <3>1, <3>2, <3>3, <4>1, <4>2
    <3>5. <<c>> \in Seq(Piece) /\ Len(<<c>>) = 1
      BY OneIn
    <3>6. wire' \in Seq(Piece) /\ Join(wire', <<c>>, rest)
      BY <3>4, <3>5, JoinIs
    <3>7. /\ Len(wire') = 1 + (l - (k + 1)) /\ wire'[1] = c
          /\ \A i \in 1 .. l - (k + 1) : wire'[1 + i] = rest[i]
      <4>1. /\ Len(wire') = Len(<<c>>) + Len(rest)
            /\ \A i \in 1 .. Len(<<c>>) : wire'[i] = <<c>>[i]
            /\ \A i \in 1 .. Len(rest) : wire'[Len(<<c>>) + i] = rest[i]
        BY <3>6, Zenon DEF Join
      <4>2. <<c>>[1] = c /\ 1 \in 1 .. 1
        OBVIOUS
      <4> QED
        BY <3>3, <3>5, <4>1, <4>2
    <3>8. \A i \in 2 .. Len(wire') : /\ wire'[i] = wire[k + i]
                                     /\ k + i \in 1 .. Len(wire) /\ k + i \in 2 .. Len(wire)
      <4> SUFFICES ASSUME NEW i \in 2 .. Len(wire')
                   PROVE  /\ wire'[i] = wire[k + i]
                          /\ k + i \in 1 .. Len(wire) /\ k + i \in 2 .. Len(wire)
        OBVIOUS
      <4>1. /\ i - 1 \in 1 .. l - (k + 1) /\ 1 + (i - 1) = i
            /\ (k + 1) + (i - 1) = k + i /\ k + i \in 2 .. l
        BY <1>3, <3>0, <3>7
      <4>2. wire'[i] = rest[i - 1] /\ rest[i - 1] = wire[k + i]
        BY <3>3, <3>7, <4>1
      <4> QED
        BY <1>3, <4>1, <4>2, SMTT(60)
    <3>9. ASSUME NEW i \in 1 .. Len(wire') PROVE wire'[i].packet \in Range(sent)
      <4>1. CASE i = 1
        BY <1>2, <3>0, <3>1, <3>2, <3>7, <4>1
      <4>2. CASE i # 1
        <5>1. i \in 2 .. Len(wire')
          BY <3>7, <4>2
        <5> QED
          BY <1>2, <3>8, <5>1
      <4> QED
        BY <4>1, <4>2
    <3>10. \A i \in 2 .. Len(wire') : ~wire'[i].cut
      BY <1>2, <3>8
    <3> QED
      BY <3>6, <3>9, <3>10
  <2> QED
    BY <2>1, <2>2
<1>8. cuts' \in 0 .. MaxCuts
  BY <1>1, <1>2, ReceiveAssumption
<1>9. aligned' \in BOOLEAN
  BY <1>1
<1>10. reached' \in Seq(Sendable)
  <2>1. PICK a \in Seq(Sendable) : a = ActsOn(PacketsOf(k), Len(pdata'))
    BY <1>4, ActsOnTyped
  <2>2. reached \o a \in Seq(Sendable)
    BY <1>2
  <2> QED
    BY <1>1, <1>2, <2>1, <2>2
<1>11. sent' = sent
  BY <1>1
<1>12. /\ connState' = connState /\ in_buffer' = in_buffer /\ out' = out
       /\ delivered' = delivered
  BY <1>1
<1> QED
  BY <1>2, <1>6, <1>7, <1>8, <1>9, <1>10, <1>11, <1>12 DEF Typed

LEMMA BrokerStep ==
  ASSUME Typed, BrokerSends
  PROVE  Typed' /\ wire' # wire
<1>1. PICK p \in Packets : sent' = Append(sent, p) /\ wire' = Append(wire, OnWire(p))
  BY DEF BrokerSends
<1>2. /\ connState' = connState /\ in_buffer' = in_buffer /\ out' = out
      /\ delivered' = delivered /\ pdata' = pdata /\ cuts' = cuts
      /\ aligned' = aligned /\ reached' = reached
  BY DEF BrokerSends, client
<1>3. p \in Sendable /\ OnWire(p) \in Piece /\ OnWire(p).packet = p /\ ~OnWire(p).cut
  BY OnWirePiece DEF Sendable
<1>4. PICK w \in Seq(Piece) : w = wire
  BY DEF Typed
<1>5. PICK n \in Nat : n = Len(w)
  OBVIOUS
<1>6. /\ wire' \in Seq(Piece) /\ Len(wire') = n + 1 /\ wire'[n + 1] = OnWire(p)
      /\ \A i \in 1 .. n : wire'[i] = wire[i]
  BY <1>1, <1>3, <1>4, <1>5
<1>7. sent' \in Seq(Sendable) /\ Range(sent') = Range(sent) \cup {p}
  <2>1. PICK l \in Nat : sent \in Seq(Sendable) /\ l = Len(sent)
    BY DEF Typed
  <2>2. /\ sent' \in Seq(Sendable) /\ DOMAIN sent' = 1 .. l + 1 /\ DOMAIN sent = 1 .. l
        /\ sent'[l + 1] = p /\ \A i \in 1 .. l : sent'[i] = sent[i]
    BY <1>1, <1>3, <2>1
  <2>3. 1 .. l + 1 = (1 .. l) \cup {l + 1}
    BY <2>1
  <2> QED
    BY <2>2, <2>3 DEF Range
<1>8. ASSUME NEW i \in 1 .. Len(wire') PROVE wire'[i].packet \in Range(sent')
  <2>1. CASE i = n + 1
    BY <1>3, <1>6, <1>7, <2>1
  <2>2. CASE i \in 1 .. n
    BY <1>4, <1>5, <1>6, <1>7, <2>2 DEF Typed
  <2> QED
    BY <1>5, <1>6, <2>1, <2>2
<1>9. ASSUME NEW i \in 2 .. Len(wire') PROVE ~wire'[i].cut
  <2>1. CASE i = n + 1
    BY <1>3, <1>6, <2>1
  <2>2. CASE i \in 2 .. n
    BY <1>4, <1>5, <1>6, <2>2, SMTT(60) DEF Typed
  <2> QED
    BY <1>5, <1>6, <2>1, <2>2
<1>10. wire' # wire
  BY <1>4, <1>5, <1>6
<1> QED
  BY <1>2, <1>6, <1>7, <1>8, <1>9, <1>10 DEF Typed

(* What READPACKET leaves alone, and that it leaves less of the segment.   *)
LEMMA PassStep ==
  ASSUME Typed, READPACKET
  PROVE  /\ Typed' /\ Len(pdata') < Len(pdata)
         /\ UNCHANGED <<wire, sent, cuts, aligned, reached>>
<1>1. UNCHANGED <<wire, sent, cuts, aligned, reached>>
  BY DEF READPACKET, TooLong, RecvConnecting, RecvPublish, RecvOther
<1>2. /\ wire \in Seq(Piece)
      /\ sent \in Seq(Sendable)
      /\ \A i \in 1 .. Len(wire) : wire[i].packet \in Range(sent)
      /\ \A i \in 2 .. Len(wire) : ~wire[i].cut
      /\ cuts \in 0 .. MaxCuts
      /\ aligned \in BOOLEAN
      /\ reached \in Seq(Sendable)
  BY DEF Typed
<1>3. /\ wire' \in Seq(Piece)
      /\ sent' \in Seq(Sendable)
      /\ \A i \in 1 .. Len(wire') : wire'[i].packet \in Range(sent')
      /\ \A i \in 2 .. Len(wire') : ~wire'[i].cut
      /\ cuts' \in 0 .. MaxCuts
      /\ aligned' \in BOOLEAN
      /\ reached' \in Seq(Sendable)
  BY <1>1, <1>2
<1>4. Fits => Copied \in Seq(Byte) /\ Len(Copied) = BufferLength
  BY CopiedBegins
<1>5. pdata' = << >> /\ pdata # << >> =>
        pdata' \in Seq(Byte) /\ Tame(pdata') /\ Len(pdata') < Len(pdata)
  <2>1. pdata \in Seq(Byte)
    BY DEF Typed
  <2> QED
    BY <2>1, EmptyIn DEF Tame
<1>6. CASE TooLong
  <2>1. /\ connState' = connState /\ in_buffer' = in_buffer /\ out' = out
        /\ delivered' = delivered /\ pdata' = << >> /\ pdata # << >>
    BY <1>6 DEF TooLong, client
  <2> QED
    BY <1>1, <1>3, <1>5, <2>1 DEF Typed
<1>7. CASE RecvConnecting
  <2>1. /\ in_buffer' = Copied /\ out' \in Outs
        /\ connState' \in {"MQTT_CONNECT_SENDING", "MQTT_DATA"}
        /\ pdata' = << >> /\ pdata # << >>
    BY <1>7, ConnectingStep
  <2>2. Fits /\ delivered' = delivered
    BY <1>7 DEF RecvConnecting
  <2>3. in_buffer' \in Seq(Byte) /\ Len(in_buffer') = BufferLength
    BY <1>4, <2>1, <2>2
  <2> QED
    BY <1>1, <1>3, <1>5, <2>1, <2>2, <2>3 DEF Typed
<1>8. CASE RecvPublish
  <2>1. /\ in_buffer' = Copied
        /\ connState' \in {"MQTT_DATA", "RESET"}
        /\ out' \in Outs
        /\ delivered' \in Seq(Delivery)
        /\ pdata' \in Seq(Byte) /\ Tame(pdata') /\ Len(pdata') < Len(pdata)
    BY <1>8, PublishStep
  <2>2. Fits
    BY <1>8 DEF RecvPublish
  <2>3. in_buffer' \in Seq(Byte) /\ Len(in_buffer') = BufferLength
    BY <1>4, <2>1, <2>2
  <2> QED
    BY <1>1, <1>3, <2>1, <2>3 DEF Typed
<1>9. CASE RecvOther
  <2>1. /\ in_buffer' = Copied /\ out' \in Outs /\ pdata' = << >> /\ pdata # << >>
    BY <1>9, OtherStep
  <2>2. Fits /\ delivered' = delivered /\ connState' = connState
    BY <1>9 DEF RecvOther
  <2>3. in_buffer' \in Seq(Byte) /\ Len(in_buffer') = BufferLength
    BY <1>4, <2>1, <2>2
  <2> QED
    BY <1>1, <1>3, <1>5, <2>1, <2>2, <2>3 DEF Typed
<1> QED
  BY <1>6, <1>7, <1>8, <1>9 DEF READPACKET

(* A segment takes something off the wire: a packet or bytes of one.       *)
LEMMA SegmentTakes ==
  ASSUME Typed, NEW k \in 0 .. Len(wire), NEW m \in Nat, Segment(k, m),
         m > 0 => k < Len(wire) /\ m \in 1 .. Len(wire[k + 1].bytes) - 1
  PROVE  wire' # wire
<1>1. PICK w \in Seq(Piece) : w = wire
  BY DEF Typed
<1>2. PICK n \in Nat : n = Len(w)
  OBVIOUS
<1>3. /\ k + m > 0
      /\ wire' = IF m = 0 THEN SubSeq(wire, k + 1, Len(wire))
                 ELSE <<CutOff(wire[k + 1], m)>> \o SubSeq(wire, k + 2, Len(wire))
  BY Zenon DEF Segment, CutOff
<1>4. CASE m = 0
  <2>1. wire' = SubSeq(w, k + 1, Len(w)) /\ k \in Nat /\ k <= n /\ k > 0
    BY <1>1, <1>2, <1>3, <1>4
  <2>2. Len(wire') = n - k
    BY <1>2, <2>1, PiecesBehind
  <2> QED
    BY <1>1, <1>2, <2>1, <2>2
<1>5. CASE m > 0
  <2>1. k + 1 \in 1 .. n /\ k + 1 \in Nat /\ (k + 1) + 1 = k + 2 /\ m # 0
    BY <1>1, <1>2, <1>5
  <2>2. PICK r \in Piece : r = w[k + 1] /\ m \in 1 .. Len(r.bytes) - 1
    BY <1>1, <1>2, <1>5, <2>1
  <2>3. PICK c \in Piece : c = CutOff(r, m) /\ c.bytes = SubSeq(r.bytes, m + 1, Len(r.bytes))
    BY <2>2, CutPiece
  <2>4. Len(c.bytes) = Len(r.bytes) - m
    <3>1. r.bytes \in Seq(Byte)
      BY PieceIs
    <3>2. PICK b \in Seq(Byte) : b = r.bytes
      BY <3>1
    <3>3. c.bytes = SubSeq(b, m + 1, Len(b)) /\ m \in 1 .. Len(b) - 1 /\ Len(b) \in Nat
      BY <2>2, <2>3, <3>2, SMTT(60)
    <3> QED
      BY <3>2, <3>3
  <2>5. PICK rest \in Seq(Piece) : /\ rest = SubSeq(w, (k + 1) + 1, Len(w))
                                   /\ Len(rest) = n - (k + 1)
    <3>1. k + 1 <= Len(w)
      BY <1>2, <2>1
    <3> QED
      BY <1>2, <2>1, <3>1, PiecesBehind
  <2>6. wire' = <<c>> \o rest
    <3>1. wire' = <<CutOff(wire[k + 1], m)>> \o SubSeq(wire, k + 2, Len(wire))
      BY <1>3, <2>1, Zenon
    <3> QED
      BY <1>1, <2>1, <2>2, <2>3, <2>5, <3>1
  <2>7. Len(wire') = 1 + (n - (k + 1)) /\ wire'[1] = c
    BY <2>5, <2>6
  <2>8. CASE k = 0
    <3>1. c # r
      <4>1. Len(r.bytes) \in Nat
        BY PieceIs
      <4> QED
        BY <2>2, <2>4, <4>1
    <3>2. w[1] = r
      BY <2>2, <2>8
    <3> QED
      BY <1>1, <2>7, <3>1, <3>2
  <2>9. CASE k > 0
    BY <1>1, <1>2, <2>7, <2>9
  <2> QED
    BY <2>8, <2>9
<1> QED
  BY <1>4, <1>5

LEMMA ArrivesIs ==
  ASSUME Typed, Arrives
  PROVE  \E k \in 0 .. Len(wire), m \in Nat :
           /\ Segment(k, m)
           /\ m > 0 => k < Len(wire) /\ m \in 1 .. Len(wire[k + 1].bytes) - 1
<1>1. PICK k \in 0 .. Len(wire) :
        \/ Segment(k, 0)
        \/ k < Len(wire) /\ \E m \in 1 .. Len(wire[k + 1].bytes) - 1 : Segment(k, m)
  BY DEF Arrives
<1>2. CASE Segment(k, 0)
  <2>1. 0 \in Nat /\ ~(0 > 0)
    OBVIOUS
  <2> QED
    BY <1>2, <2>1
<1>3. CASE k < Len(wire) /\ \E m \in 1 .. Len(wire[k + 1].bytes) - 1 : Segment(k, m)
  <2>1. PICK m \in 1 .. Len(wire[k + 1].bytes) - 1 : Segment(k, m)
    BY <1>3
  <2>2. m \in Nat
    <3>1. Len(wire) \in Nat /\ wire \in Seq(Piece)
      BY DEF Typed
    <3>2. wire[k + 1] \in Piece
      BY <1>3, <3>1
    <3>3. Len(wire[k + 1].bytes) \in Nat
      BY <3>2, PieceIs
    <3> QED
      BY <3>3
  <2> QED
    BY <1>3, <2>1, <2>2
<1> QED
  BY <1>1, <1>2, <1>3

LEMMA ArrivesStep ==
  ASSUME Typed, Arrives
  PROVE  Typed' /\ wire' # wire
<1>1. PICK k \in 0 .. Len(wire), m \in Nat :
        /\ Segment(k, m)
        /\ m > 0 => k < Len(wire) /\ m \in 1 .. Len(wire[k + 1].bytes) - 1
  BY ArrivesIs
<1> QED
  BY <1>1, SegmentStep, SegmentTakes

LEMMA TypedStep ==
  ASSUME Typed, [Next]_vars
  PROVE  Typed'
<1>1. CASE Next
  BY <1>1, PassStep, BrokerStep, ArrivesStep DEF Next
<1>2. CASE UNCHANGED vars
  BY <1>2 DEF vars, client, Typed
<1> QED
  BY <1>1, <1>2

THEOREM TypedAlways == Spec => []Typed
<1>1. Init => Typed
  BY TypedInit
<1>2. Typed /\ [Next]_vars => Typed'
  BY TypedStep
<1> QED
  BY <1>1, <1>2, PTL DEF Spec

LEMMA TypedTypeOK == Typed => TypeOK
<1> SUFFICES ASSUME Typed PROVE TypeOK
  OBVIOUS
<1>1. /\ connState \in {"MQTT_CONNECT_SENDING", "MQTT_DATA", "RESET"}
      /\ in_buffer \in Seq(Byte) /\ Len(in_buffer) = BufferLength
      /\ pdata \in Seq(Byte)
      /\ cuts \in 0 .. MaxCuts
      /\ aligned \in BOOLEAN
      /\ out \in Outs
  BY DEF Typed
<1>2. out.message_id \in 0 .. IdRange - 1 /\ out.offered \in Seq(Offer)
  BY <1>1 DEF Outs
<1>3. \A m \in Offer : m \in Seq(Byte) /\ m # << >> /\ Len(m) <= BufferLength
  BY DEF Offer
<1>4. out.offered \in Seq(Seq(Byte)) /\ \A m \in Range(out.offered) : m \in Offer
  <2>1. PICK o \in Seq(Offer) : o = out.offered
    BY <1>2
  <2>2. o \in [1 .. Len(o) -> Offer] /\ Len(o) \in Nat
    BY <2>1
  <2>3. o \in [1 .. Len(o) -> Seq(Byte)]
    BY <1>3, <2>2
  <2>4. DOMAIN o = 1 .. Len(o)
    BY <2>2
  <2>5. o \in Seq(Seq(Byte))
    BY <2>2, <2>3
  <2> QED
    BY <2>1, <2>2, <2>4, <2>5 DEF Range
<1> QED
  BY <1>1, <1>2, <1>3, <1>4 DEF TypeOK

(* in_buffer is never written beyond its end, ids stay in range.           *)
THEOREM TypesHold == Spec => []TypeOK
BY TypedAlways, TypedTypeOK, PTL

(* Every pass over a segment leaves less of it.                            *)
THEOREM PassesGetShorter == Spec => PassesShorten
<1>1. Typed /\ [Next]_vars =>
        [UNCHANGED <<wire, sent>> => Len(pdata') < Len(pdata)]_vars
  <2> SUFFICES ASSUME Typed, Next
               PROVE  UNCHANGED <<wire, sent>> => Len(pdata') < Len(pdata)
    OBVIOUS
  <2>1. CASE READPACKET
    BY <2>1, PassStep
  <2>2. CASE BrokerSends
    BY <2>2, BrokerStep
  <2>3. CASE Arrives
    BY <2>3, ArrivesStep
  <2> QED
    BY <2>1, <2>2, <2>3 DEF Next
<1> QED
  BY <1>1, TypedAlways, PTL DEF Spec, PassesShorten

-----------------------------------------------------------------------------
(* What a sequence of packets amounts to, one packet after the other.      *)
LEMMA FlatIs ==
  ASSUME NEW S, NEW n \in Nat, NEW seqs \in [1 .. n -> Seq(S)],
         NEW f \in [0 .. n -> Seq(S)], Flattening(f, seqs, n)
  PROVE  FlattenSeq(seqs) = f[n]
<1>1. PICK g \in [0 .. n -> Seq(S)] : Flattening(g, seqs, n) /\ FlattenSeq(seqs) = g[n]
  BY FlattenedIs DEF Flattened
<1> DEFINE T == {j \in 0 .. n : f[j] = g[j]}
<1>2. 0 \in T
  BY <1>1 DEF Flattening
<1>3. ASSUME NEW j \in 1 .. n, j - 1 \in T PROVE j \in T
  <2>1. f[j] = f[j - 1] \o seqs[j] /\ g[j] = g[j - 1] \o seqs[j]
    BY <1>1 DEF Flattening
  <2>2. f[j - 1] = g[j - 1]
    BY <1>3
  <2>3. f[j] = g[j]
    BY <2>1, <2>2, Zenon
  <2>4. j \in 0 .. n
    OBVIOUS
  <2> QED
    BY <2>3, <2>4
<1>4. \A j \in 0 .. n : j \in T
  <2> HIDE DEF T
  <2> QED
    BY <1>2, <1>3, InductionTo
<1>5. f[n] = g[n]
  BY <1>4
<1> QED
  BY <1>1, <1>5

LEMMA AppendIs ==
  ASSUME NEW V, NEW n \in Nat, NEW seqs \in Seq(V), Len(seqs) = n, NEW t \in V
  PROVE  /\ Append(seqs, t) \in Seq(V) /\ Append(seqs, t) \in [1 .. n + 1 -> V]
         /\ Len(Append(seqs, t)) = n + 1
         /\ Append(seqs, t)[n + 1] = t
         /\ \A j \in 1 .. n : Append(seqs, t)[j] = seqs[j]
<1>1. PICK r : r = Append(seqs, t)
  OBVIOUS
<1>2. r \in Seq(V) /\ Len(r) = n + 1 /\ r[n + 1] = t
  BY <1>1
<1>3. \A j \in 1 .. n : r[j] = seqs[j]
  BY <1>1
<1>4. r \in [1 .. n + 1 -> V]
  BY <1>2, LenProperties
<1> QED
  BY <1>1, <1>2, <1>3, <1>4

LEMMA TailIs ==
  ASSUME NEW V, NEW n \in Nat, NEW seqs \in Seq(V), Len(seqs) = n + 1
  PROVE  /\ Tail(seqs) \in Seq(V) /\ Tail(seqs) \in [1 .. n -> V]
         /\ Len(Tail(seqs)) = n
         /\ \A j \in 1 .. n : Tail(seqs)[j] = seqs[j + 1]
<1>1. PICK r : r = Tail(seqs)
  OBVIOUS
<1>2. r \in Seq(V) /\ Len(r) = n
  BY <1>1
<1>3. \A j \in 1 .. n : r[j] = seqs[j + 1]
  BY <1>1
<1>4. r \in [1 .. n -> V]
  BY <1>2, LenProperties
<1> QED
  BY <1>1, <1>2, <1>3, <1>4

LEMMA FlatAppend ==
  ASSUME NEW S, NEW seqs \in Seq(Seq(S)), NEW t \in Seq(S)
  PROVE  /\ FlattenSeq(seqs) \in Seq(S)
         /\ FlattenSeq(Append(seqs, t)) = FlattenSeq(seqs) \o t
<1>0. PICK n \in Nat : n = Len(seqs)
  OBVIOUS
<1>1. n = Len(seqs) /\ seqs \in [1 .. n -> Seq(S)]
  BY <1>0
<1>2. PICK f \in [0 .. n -> Seq(S)] : Flattening(f, seqs, n) /\ FlattenSeq(seqs) = f[n]
  BY <1>1, FlattenedIs DEF Flattened
<1>3. PICK all : all = Append(seqs, t)
  OBVIOUS
<1>4. all \in [1 .. n + 1 -> Seq(S)] /\ all[n + 1] = t /\ \A j \in 1 .. n : all[j] = seqs[j]
  <2>1. PICK V : V = Seq(S)
    OBVIOUS
  <2>2. all \in [1 .. n + 1 -> V] /\ all[n + 1] = t /\ \A j \in 1 .. n : all[j] = seqs[j]
    BY <1>1, <1>3, <2>1, AppendIs
  <2> QED
    BY <2>1, <2>2
<1>5. PICK last \in Seq(S) : last = f[n] \o t
  <2>1. n \in 0 .. n
    BY <1>1
  <2>2. f[n] \in Seq(S)
    BY <1>2, <2>1
  <2>3. f[n] \o t \in Seq(S)
    BY <2>2, ConcatProperties
  <2> QED
    BY <2>3
<1> DEFINE g == [j \in 0 .. n + 1 |-> IF j = n + 1 THEN last ELSE f[j]]
<1>6. g \in [0 .. n + 1 -> Seq(S)] /\ g[n + 1] = last /\ \A j \in 0 .. n : g[j] = f[j]
  <2>1. \A j \in 0 .. n + 1 : j = n + 1 \/ j \in 0 .. n
    BY <1>1
  <2>2. n + 1 \in 0 .. n + 1 /\ \A j \in 0 .. n : j \in 0 .. n + 1 /\ j # n + 1
    BY <1>1
  <2> QED
    BY <1>2, <1>5, <2>1, <2>2
<1> HIDE DEF g
<1>7. Flattening(g, all, n + 1)
  <2>1. g[0] = << >>
    BY <1>1, <1>2, <1>6 DEF Flattening
  <2>2. ASSUME NEW j \in 1 .. n + 1 PROVE g[j] = g[j - 1] \o all[j]
    <3>1. CASE j = n + 1
      <4>1. g[j - 1] = f[n] /\ all[j] = t /\ g[j] = last
        <5>1. j - 1 = n /\ n \in 0 .. n
          BY <1>1, <3>1
        <5> QED
          BY <1>4, <1>6, <3>1, <5>1
      <4> QED
        BY <1>5, <4>1
    <3>2. CASE j \in 1 .. n
      <4>1. g[j] = f[j] /\ g[j - 1] = f[j - 1] /\ all[j] = seqs[j]
        <5>1. j \in 0 .. n /\ j - 1 \in 0 .. n
          BY <3>2
        <5> QED
          BY <1>4, <1>6, <3>2, <5>1
      <4>2. f[j] = f[j - 1] \o seqs[j]
        BY <1>2, <3>2 DEF Flattening
      <4> QED
        BY <4>1, <4>2, Zenon
    <3>3. j = n + 1 \/ j \in 1 .. n
      BY <1>1
    <3> QED
      BY <3>1, <3>2, <3>3, Zenon
  <2> QED
    BY <2>1, <2>2 DEF Flattening
<1>8. FlattenSeq(all) = g[n + 1]
  <2>1. n + 1 \in Nat
    BY <1>1
  <2> QED
    BY <1>4, <1>6, <1>7, <2>1, FlatIs, ZenonT(60)
<1>9. f[n] \in Seq(S)
  BY <1>1, <1>2, SMTT(60)
<1> QED
  BY <1>2, <1>3, <1>5, <1>6, <1>8, <1>9

Joined(x, y) == x \o y

LEMMA ThreeJoined ==
  ASSUME NEW V, NEW x \in Seq(V), NEW y \in Seq(V), NEW z \in Seq(V)
  PROVE  Joined(Joined(x, y), z) = Joined(x, Joined(y, z))
BY ConcatAssociative, SMTT(60) DEF Joined

LEMMA FlatFirst ==
  ASSUME NEW S, NEW seqs \in Seq(Seq(S)), seqs # << >>
  PROVE  FlattenSeq(seqs) = seqs[1] \o FlattenSeq(Tail(seqs))
<1>1. PICK n \in Nat : Len(seqs) = n + 1
  <2>1. Len(seqs) \in Nat /\ Len(seqs) > 0
    OBVIOUS
  <2>2. Len(seqs) - 1 \in Nat /\ Len(seqs) = (Len(seqs) - 1) + 1
    BY <2>1
  <2> QED
    BY <2>2
<1>2. PICK rest : rest = Tail(seqs)
  OBVIOUS
<1>3. /\ rest \in Seq(Seq(S)) /\ Len(rest) = n /\ \A j \in 1 .. n : rest[j] = seqs[j + 1]
      /\ seqs \in [1 .. n + 1 -> Seq(S)]
  BY <1>1, <1>2
<1>4. rest \in [1 .. n -> Seq(S)]
  BY <1>3
<1>5. PICK f \in [0 .. n -> Seq(S)] : Flattening(f, rest, n) /\ FlattenSeq(rest) = f[n]
  BY <1>4, FlattenedIs DEF Flattened
<1>6. PICK t \in Seq(S) : t = seqs[1]
  BY <1>1, <1>3
<1> DEFINE g == [j \in 0 .. n + 1 |-> IF j = 0 THEN << >> ELSE t \o f[j - 1]]
<1>7. g[0] = << >> /\ \A j \in 1 .. n + 1 : g[j] = t \o f[j - 1] /\ j - 1 \in 0 .. n
  BY <1>1, SMTT(60)
<1>8. g \in [0 .. n + 1 -> Seq(S)]
  <2>1. \A j \in 1 .. n + 1 : t \o f[j - 1] \in Seq(S)
    <3>1. \A j \in 1 .. n + 1 : j - 1 \in 0 .. n
      BY <1>1
    <3> QED
      BY <1>5, <1>6, <3>1
  <2>2. << >> \in Seq(S)
    BY EmptyIn
  <2>3. \A j \in 0 .. n + 1 : j = 0 \/ j \in 1 .. n + 1
    BY <1>1
  <2> QED
    BY <2>1, <2>2, <2>3
<1> HIDE DEF g
<1>9. Flattening(g, seqs, n + 1)
  <2>1. ASSUME NEW j \in 1 .. n + 1 PROVE g[j] = g[j - 1] \o seqs[j]
    <3>1. CASE j = 1
      <4>1. g[1] = t \o f[0] /\ f[0] = << >> /\ g[j - 1] = << >>
        <5>1. 1 - 1 = 0 /\ 1 \in 1 .. n + 1
          BY <1>1
        <5>2. g[1] = t \o f[1 - 1]
          BY <1>7, <5>1
        <5>3. g[j - 1] = << >>
          BY <1>7, <3>1, <5>1
        <5>4. f[0] = << >>
          BY <1>5 DEF Flattening
        <5> QED
          BY <5>1, <5>2, <5>3, <5>4
      <4>2. t \o << >> = t /\ << >> \o t = t
        BY <1>6, ConcatEmptySeq
      <4> QED
        BY <1>6, <3>1, <4>1, <4>2
    <3>2. CASE j # 1
      <4>0. j - 1 \in 1 .. n /\ j - 1 \in 1 .. n + 1 /\ (j - 1) + 1 = j
        BY <1>1, <3>2
      <4>1. PICK i \in 1 .. n : i = j - 1 /\ i + 1 = j /\ i \in 1 .. n + 1
        BY <4>0
      <4>2. f[i] = f[i - 1] \o rest[i]
        BY <1>5, <4>1 DEF Flattening
      <4>3. g[j] = t \o f[i] /\ g[j - 1] = t \o f[i - 1] /\ rest[i] = seqs[j]
        <5>1. j - 1 = i
          BY <4>1
        <5> QED
          BY <1>3, <1>7, <4>1, <5>1
      <4>4. f[i - 1] \in Seq(S) /\ rest[i] \in Seq(S)
        <5>1. i - 1 \in 0 .. n
          BY <4>1
        <5>2. f[i - 1] \in Seq(S)
          BY <1>5, <5>1
        <5> QED
          BY <1>4, <4>1, <5>2
      <4>5. (t \o f[i - 1]) \o rest[i] = t \o f[i]
        <5>1. t \in Seq(S)
          OBVIOUS
        <5>2. Joined(Joined(t, f[i - 1]), rest[i]) = Joined(t, Joined(f[i - 1], rest[i]))
          BY <4>4, <5>1, ThreeJoined
        <5> QED
          BY <4>2, <5>2, Zenon DEF Joined
      <4> QED
        BY <4>3, <4>5, Zenon
    <3> QED
      BY <3>1, <3>2
  <2> QED
    BY <1>7, <2>1 DEF Flattening
<1>10. FlattenSeq(seqs) = g[n + 1]
  <2>1. PICK l \in Nat : l = n + 1
    BY <1>1
  <2>2. /\ seqs \in [1 .. l -> Seq(S)] /\ g \in [0 .. l -> Seq(S)]
        /\ Flattening(g, seqs, l)
    BY <1>3, <1>8, <1>9, <2>1, Zenon
  <2>3. FlattenSeq(seqs) = g[l]
    BY <2>2, FlatIs
  <2> QED
    BY <2>1, <2>3, Zenon
<1>11. g[n + 1] = t \o f[n]
  <2>1. n + 1 \in 1 .. n + 1 /\ (n + 1) - 1 = n
    BY <1>1
  <2> QED
    BY <1>7, <2>1
<1> QED
  BY <1>2, <1>5, <1>6, <1>10, <1>11, SMTT(60)

Each(h, q) == FlattenSeq([j \in DOMAIN q |-> h[q[j]]])

LEMMA EachRow ==
  ASSUME NEW D, NEW S, NEW h \in [D -> Seq(S)], NEW q \in Seq(D)
  PROVE  /\ [j \in DOMAIN q |-> h[q[j]]] \in Seq(Seq(S))
         /\ Len([j \in DOMAIN q |-> h[q[j]]]) = Len(q)
         /\ Each(h, q) \in Seq(S)
<1>1. PICK n \in Nat : n = Len(q) /\ DOMAIN q = 1 .. n /\ \A j \in 1 .. n : q[j] \in D
  OBVIOUS
<1>2. PICK row : row = [j \in DOMAIN q |-> h[q[j]]]
  OBVIOUS
<1>3. row \in [1 .. n -> Seq(S)]
  <2>1. PICK V : V = Seq(S)
    OBVIOUS
  <2>2. \A j \in 1 .. n : h[q[j]] \in V
    BY <1>1, <2>1
  <2>3. row \in [1 .. n -> V]
    BY <1>1, <1>2, <2>2
  <2> QED
    BY <2>1, <2>3
<1>4. row \in Seq(Seq(S)) /\ Len(row) = n
  <2>1. PICK V : V = Seq(S)
    OBVIOUS
  <2>2. row \in [1 .. n -> V]
    BY <1>3, <2>1
  <2>3. row \in Seq(V) /\ Len(row) = n
    BY <1>1, <2>2, SMTT(60)
  <2> QED
    BY <2>1, <2>3
<1>5. FlattenSeq(row) \in Seq(S)
  BY <1>4, EmptyIn, FlatAppend
<1> QED
  BY <1>1, <1>2, <1>4, <1>5 DEF Each

LEMMA EachEmpty ==
  ASSUME NEW h
  PROVE  Each(h, << >>) = << >>
<1>1. PICK row : row = [j \in DOMAIN << >> |-> h[<< >>[j]]]
  OBVIOUS
<1>2. row \in [1 .. 0 -> Seq({})]
  BY <1>1
<1>3. PICK f \in [0 .. 0 -> Seq({})] : Flattening(f, row, 0) /\ FlattenSeq(row) = f[0]
  <2>1. 0 \in Nat
    OBVIOUS
  <2> QED
    BY <1>2, <2>1, FlattenedIs DEF Flattened
<1>4. FlattenSeq(row) = << >>
  BY <1>3 DEF Flattening
<1> QED
  BY <1>1, <1>4 DEF Each

LEMMA EachMore ==
  ASSUME NEW D, NEW S, NEW h \in [D -> Seq(S)], NEW q \in Seq(D), NEW p \in D
  PROVE  Each(h, Append(q, p)) = Each(h, q) \o h[p]
<1>1. PICK n \in Nat : n = Len(q)
  BY LenProperties
<1>2. PICK row \in Seq(Seq(S)) : row = [j \in DOMAIN q |-> h[q[j]]] /\ Len(row) = n
  <2>1. PICK x : x = [j \in DOMAIN q |-> h[q[j]]]
    OBVIOUS
  <2>2. x \in Seq(Seq(S)) /\ Len(x) = n
    BY <1>1, <2>1, EachRow
  <2> QED
    BY <2>1, <2>2
<1>3. PICK r : r = Append(q, p)
  OBVIOUS
<1>4. r \in Seq(D) /\ Len(r) = n + 1 /\ r[n + 1] = p /\ \A j \in 1 .. n : r[j] = q[j]
  BY <1>1, <1>3, AppendIs
<1>5. PICK more \in Seq(Seq(S)) : more = [j \in DOMAIN r |-> h[r[j]]] /\ Len(more) = n + 1
  <2>1. PICK x : x = [j \in DOMAIN r |-> h[r[j]]]
    OBVIOUS
  <2>2. x \in Seq(Seq(S)) /\ Len(x) = n + 1
    BY <1>4, <2>1, EachRow
  <2> QED
    BY <2>1, <2>2
<1>6. h[p] \in Seq(S)
  OBVIOUS
<1>7. more = Append(row, h[p])
  <2>1. PICK app : app = Append(row, h[p])
    OBVIOUS
  <2>2. app \in Seq(Seq(S)) /\ Len(app) = n + 1 /\ app[n + 1] = h[p]
        /\ \A j \in 1 .. n : app[j] = row[j]
    BY <1>2, <1>6, <2>1, AppendIs
  <2>3. ASSUME NEW j \in 1 .. Len(more) PROVE more[j] = app[j]
    <3>1. DOMAIN r = 1 .. n + 1 /\ DOMAIN q = 1 .. n /\ j \in 1 .. n + 1
      BY <1>1, <1>4, <1>5
    <3>2. more[j] = h[r[j]]
      BY <1>5, <3>1
    <3>3. CASE j = n + 1
      BY <1>4, <2>2, <3>2, <3>3
    <3>4. CASE j \in 1 .. n
      BY <1>2, <1>4, <2>2, <3>1, <3>2, <3>4
    <3> QED
      BY <1>1, <3>1, <3>3, <3>4
  <2>4. Len(more) = Len(app)
    BY <1>5, <2>2
  <2> QED
    BY <1>5, <2>1, <2>2, <2>3, <2>4, SeqEqual, SMTT(30)
<1>8. FlattenSeq(more) = FlattenSeq(row) \o h[p]
  BY <1>2, <1>6, <1>7, FlatAppend
<1> QED
  BY <1>2, <1>3, <1>5, <1>8, Zenon DEF Each

LEMMA EachFirst ==
  ASSUME NEW D, NEW S, NEW h \in [D -> Seq(S)], NEW q \in Seq(D), q # << >>
  PROVE  /\ q[1] \in D /\ Tail(q) \in Seq(D)
         /\ Each(h, q) = h[q[1]] \o Each(h, Tail(q))
<1>1. PICK n \in Nat : Len(q) = n + 1
  <2>1. Len(q) \in Nat /\ Len(q) > 0
    OBVIOUS
  <2>2. Len(q) - 1 \in Nat /\ Len(q) = (Len(q) - 1) + 1
    BY <2>1
  <2> QED
    BY <2>2
<1>2. PICK r : r = Tail(q)
  OBVIOUS
<1>3. r \in Seq(D) /\ Len(r) = n /\ \A j \in 1 .. n : r[j] = q[j + 1]
  BY <1>1, <1>2, TailIs
<1>4. PICK row \in Seq(Seq(S)) : row = [j \in DOMAIN q |-> h[q[j]]] /\ Len(row) = n + 1
  <2>1. PICK x : x = [j \in DOMAIN q |-> h[q[j]]]
    OBVIOUS
  <2>2. x \in Seq(Seq(S)) /\ Len(x) = n + 1
    BY <1>1, <2>1, EachRow
  <2> QED
    BY <2>1, <2>2
<1>5. PICK less \in Seq(Seq(S)) : less = [j \in DOMAIN r |-> h[r[j]]] /\ Len(less) = n
  <2>1. PICK x : x = [j \in DOMAIN r |-> h[r[j]]]
    OBVIOUS
  <2>2. x \in Seq(Seq(S)) /\ Len(x) = n
    BY <1>3, <2>1, EachRow
  <2> QED
    BY <2>1, <2>2
<1>6. less = Tail(row)
  <2>1. PICK t : t = Tail(row)
    OBVIOUS
  <2>2. t \in Seq(Seq(S)) /\ Len(t) = n /\ \A j \in 1 .. n : t[j] = row[j + 1]
    BY <1>4, <2>1, TailIs
  <2>3. ASSUME NEW j \in 1 .. Len(less) PROVE less[j] = t[j]
    <3>1. DOMAIN r = 1 .. n /\ DOMAIN q = 1 .. n + 1 /\ j \in 1 .. n /\ j + 1 \in 1 .. n + 1
      BY <1>1, <1>3, <1>5
    <3>2. less[j] = h[r[j]] /\ row[j + 1] = h[q[j + 1]]
      BY <1>4, <1>5, <3>1
    <3> QED
      BY <1>3, <2>2, <3>1, <3>2
  <2>4. Len(less) = Len(t)
    BY <1>5, <2>2
  <2>5. less \in Seq(Seq(S)) /\ t \in Seq(Seq(S))
    BY <1>5, <2>2, Zenon
  <2>6. less = t
    BY <2>3, <2>4, <2>5, SeqEqual, ZenonT(60)
  <2> QED
    BY <2>1, <2>6, Zenon
<1>7. row # << >> /\ row[1] = h[q[1]] /\ q[1] \in D
  <2>1. DOMAIN q = 1 .. n + 1 /\ 1 \in 1 .. n + 1
    BY <1>1
  <2>2. row[1] = h[q[1]]
    BY <1>4, <2>1
  <2>3. Len(row) # 0
    BY <1>1, <1>4
  <2>4. q[1] \in D
    BY <2>1
  <2> QED
    BY <2>2, <2>3, <2>4
<1>8. FlattenSeq(row) = row[1] \o FlattenSeq(less)
  BY <1>4, <1>6, <1>7, FlatFirst
<1> QED
  BY <1>2, <1>3, <1>4, <1>5, <1>7, <1>8, Zenon DEF Each

-----------------------------------------------------------------------------
(* The bytes of the packets q, and a segment s that begins with them.      *)
Encoded == [p \in Sendable |-> Encode(p)]
Bytes(q) == Each(Encoded, q)
Opens(s, q) == \E t \in Seq(Byte) : Bytes(q) = s \o t

LEMMA EncodedIs ==
  /\ Encoded \in [Sendable -> Seq(Byte)]
  /\ \A p \in Sendable : Encoded[p] = Encode(p)
<1>1. \A p \in Sendable : Encode(p) \in Seq(Byte)
  BY EncodeGood DEF Good
<1> QED
  BY <1>1 DEF Encoded

LEMMA BytesIs ==
  ASSUME NEW q \in Seq(Sendable)
  PROVE  /\ Bytes(q) \in Seq(Byte)
         /\ q # << >> => /\ q[1] \in Sendable /\ Tail(q) \in Seq(Sendable)
                         /\ Bytes(q) = Encode(q[1]) \o Bytes(Tail(q))
<1>1. Bytes(q) \in Seq(Byte)
  BY EncodedIs, EachRow DEF Bytes
<1>2. ASSUME q # << >>
      PROVE  /\ q[1] \in Sendable /\ Tail(q) \in Seq(Sendable)
             /\ Bytes(q) = Encode(q[1]) \o Bytes(Tail(q))
  <2>1. /\ q[1] \in Sendable /\ Tail(q) \in Seq(Sendable)
        /\ Each(Encoded, q) = Encoded[q[1]] \o Each(Encoded, Tail(q))
    BY <1>2, EncodedIs, EachFirst, ZenonT(60)
  <2>2. Encoded[q[1]] = Encode(q[1])
    BY <2>1, EncodedIs
  <2> QED
    BY <2>1, <2>2, Zenon DEF Bytes
<1> QED
  BY <1>1, <1>2

LEMMA BytesEmpty == Bytes(<< >>) = << >>
BY EachEmpty DEF Bytes

(* A segment that begins with packets shows the first of them.             *)
LEMMA OpensShows ==
  ASSUME NEW q \in Seq(Sendable), NEW s \in Seq(Byte), s # << >>, Opens(s, q),
         NEW buf, Begins(buf, s)
  PROVE  /\ q # << >> /\ q[1] \in Sendable /\ Tail(q) \in Seq(Sendable)
         /\ Shows(buf, Len(s), Encode(q[1]))
<1>1. PICK t \in Seq(Byte) : Bytes(q) = s \o t
  BY DEF Opens
<1>2. q # << >>
  <2>1. s \o t # << >>
    BY ConcatEqualIffEmpty
  <2> QED
    BY <1>1, <2>1, BytesEmpty
<1>3. /\ q[1] \in Sendable /\ Tail(q) \in Seq(Sendable)
      /\ Bytes(q) = Encode(q[1]) \o Bytes(Tail(q)) /\ Bytes(Tail(q)) \in Seq(Byte)
  BY <1>2, BytesIs
<1>4. PICK m \in Seq(Byte) : m = Encode(q[1])
  BY <1>3, EncodeGood DEF Good
<1>5. PICK r \in Seq(Byte) : r = Bytes(Tail(q))
  BY <1>3
<1>6. PICK all : all = s \o t /\ all = m \o r
  BY <1>1, <1>3, <1>4, <1>5
<1>7. Join(all, s, t) /\ Join(all, m, r)
  BY <1>6, JoinIs
<1>8. \A i \in 1 .. Len(s) : all[i] = s[i]
  BY <1>7 DEF Join
<1>9. \A i \in 1 .. Len(m) : all[i] = m[i]
  BY <1>7 DEF Join
<1>10. \A i \in 1 .. Len(s) : buf[i] = s[i]
  BY DEF Begins
<1>11. \A i \in 1 .. Len(s) : i <= Len(m) => buf[i] = m[i]
  <2>1. Len(m) \in Nat /\ Len(s) \in Nat
    OBVIOUS
  <2>2. \A i \in 1 .. Len(s) : i <= Len(m) => i \in 1 .. Len(m)
    BY <2>1
  <2> QED
    BY <1>8, <1>9, <1>10, <2>2
<1>12. buf \in Seq(Nat) /\ Len(s) \in 1 .. Len(buf)
  BY ByteIsNat DEF Begins
<1> QED
  BY <1>2, <1>3, <1>4, <1>11, <1>12 DEF Shows

(* Behind it comes the second, if the first is all there.                  *)
LEMMA OpensBehind ==
  ASSUME NEW q \in Seq(Sendable), NEW s \in Seq(Byte), q # << >>, Opens(s, q),
         NEW l, l = Len(Encode(q[1])), l <= Len(s)
  PROVE  /\ l \in Nat /\ l > 0
         /\ SubSeq(s, l + 1, Len(s)) \in Seq(Byte)
         /\ Opens(SubSeq(s, l + 1, Len(s)), Tail(q))
         /\ s = Bytes(q) => SubSeq(s, l + 1, Len(s)) = Bytes(Tail(q))
<1>1. PICK t \in Seq(Byte) : Bytes(q) = s \o t
  BY DEF Opens
<1>3. /\ q[1] \in Sendable /\ Tail(q) \in Seq(Sendable)
      /\ Bytes(q) = Encode(q[1]) \o Bytes(Tail(q)) /\ Bytes(Tail(q)) \in Seq(Byte)
  BY BytesIs
<1>4. PICK m \in Seq(Byte) : m = Encode(q[1]) /\ Len(m) > 0
  BY <1>3, EncodeGood DEF Good
<1>5. PICK r \in Seq(Byte) : r = Bytes(Tail(q))
  BY <1>3
<1>6. PICK all : all = s \o t /\ all = m \o r
  BY <1>1, <1>3, <1>4, <1>5
<1>7. Join(all, s, t) /\ Join(all, m, r)
  BY <1>6, JoinIs
<1>8. l \in Nat /\ l = Len(m) /\ l > 0
  BY <1>4
<1>9. PICK u : u = SubSeq(s, l + 1, Len(s))
  OBVIOUS
<1>10. PICK n \in Nat : n = Len(s)
  OBVIOUS
<1>11. u \in Seq(Byte) /\ Len(u) = n - l /\ \A i \in 1 .. n - l : u[i] = s[l + i]
  BY <1>8, <1>9, <1>10, SubSeqOf, SMTT(60)
<1>12. r = u \o t
  <2>1. PICK v : v = u \o t
    OBVIOUS
  <2>2. v \in Seq(Byte) /\ Join(v, u, t)
    BY <1>11, <2>1, JoinIs
  <2>3. /\ Len(all) = n + Len(t) /\ Len(all) = l + Len(r) /\ Len(v) = (n - l) + Len(t)
    BY <1>7, <1>8, <1>10, <1>11, <2>2 DEF Join
  <2>4. Len(t) \in Nat /\ Len(r) \in Nat /\ n - l \in Nat
    BY <1>1, <1>5, <1>8, <1>10
  <2>5. Len(r) = Len(v)
    <3>1. n + Len(t) = l + Len(r)
      BY <2>3, Zenon
    <3>2. Len(r) = (n - l) + Len(t)
      BY <1>8, <1>10, <2>4, <3>1
    <3> QED
      BY <2>3, <3>2
  <2>6. \A i \in 1 .. Len(r) : all[l + i] = r[i]
    BY <1>7, <1>8 DEF Join
  <2>7. \A i \in 1 .. n : all[i] = s[i]
    BY <1>7, <1>10 DEF Join
  <2>8. \A i \in 1 .. Len(t) : all[n + i] = t[i]
    BY <1>7, <1>10 DEF Join
  <2>9. \A i \in 1 .. n - l : v[i] = u[i]
    BY <1>11, <2>2 DEF Join
  <2>10. \A i \in 1 .. Len(t) : v[(n - l) + i] = t[i]
    BY <1>11, <2>2 DEF Join
  <2>11. ASSUME NEW i \in 1 .. Len(r) PROVE r[i] = v[i]
    <3>1. CASE i <= n - l
      <4>1. i \in 1 .. n - l /\ l + i \in 1 .. n
        BY <1>8, <2>4, <3>1
      <4> QED
        BY <1>11, <2>6, <2>7, <2>9, <4>1
    <3>2. CASE i > n - l
      <4>0. i <= (n - l) + Len(t)
        BY <2>3, <2>4, <2>5
      <4>a. i - (n - l) \in 1 .. Len(t)
        <5>1. PICK d \in Nat : d = n - l
          BY <2>4
        <5>2. PICK e \in Nat : e = Len(t)
          BY <2>4
        <5>3. i \in Nat /\ i > d /\ i <= d + e
          BY <2>4, <3>2, <4>0, <5>1, <5>2
        <5>4. i - d \in 1 .. e
          BY <5>3
        <5> QED
          BY <5>1, <5>2, <5>4
      <4>1. PICK k \in 1 .. Len(t) : k = i - (n - l)
        BY <4>a
      <4>2. (n - l) + k = i /\ n + k = l + i
        BY <1>8, <1>10, <2>4, <4>1
      <4>3. v[i] = t[k] /\ all[l + i] = t[k]
        BY <2>8, <2>10, <4>2
      <4> QED
        BY <2>6, <4>3
    <3> QED
      BY <1>8, <1>10, <2>4, <3>1, <3>2
  <2> QED
    BY <2>1, <2>2, <2>5, <2>11, SeqEqual
<1>13. s = Bytes(q) => u = r
  <2>1. ASSUME s = Bytes(q) PROVE u = r
    <3>1. s \o t = s
      BY <1>1, <2>1, Zenon
    <3>2. t = << >>
      BY <3>1, ConcatEqualIffEmpty
    <3> QED
      BY <1>11, <1>12, <3>2, ConcatEmptySeq
  <2> QED
    BY <2>1
<1> QED
  BY <1>5, <1>8, <1>9, <1>11, <1>12, <1>13 DEF Opens

(* Only a PUBLISH is taken for one.                                        *)
LEMMA TypeShown ==
  ASSUME NEW p \in Sendable, NEW buf, NEW length, Shows(buf, length, Encode(p))
  PROVE  mqtt_get_type(buf) = p.type
<1>1. Sound(p) /\ p.type \in 0 .. 15
  BY SendableSound, TypeSmall
<1>2. CASE p.type # PUBLISH
  <2>1. PICK qos, body : Short(p, qos, body)
    BY <1>1, <1>2, EncodeShort
  <2>2. /\ qos \in 0 .. 2 /\ body \in Seq(Byte) /\ Len(body) <= 4
        /\ Encode(p) = fini_message(p.type, qos, 0, body)
    BY <2>1, LetterIsByte DEF Short
  <2>3. PICK m : m = fini_message(p.type, qos, 0, body)
    OBVIOUS
  <2>4. Framed(m, First(p.type, qos, 0), body, 2)
    BY <1>1, <2>2, <2>3, ShortIs
  <2>5. 0 \in 0 .. 1 /\ Shows(buf, length, m)
    BY <2>2, <2>3
  <2> QED
    BY <1>1, <2>2, <2>4, <2>5, TypeRead
<1>3. CASE p.type = PUBLISH
  <2>1. PICK m : m = mqtt_msg_publish(p.topic, p.data, p.qos, 0, p.id)
    OBVIOUS
  <2>2. m = Encode(p) /\ m # << >> /\ p.topic # << >>
    BY <1>1, <1>3, <2>1, EncodePublish DEF Sound
  <2>3. /\ p.topic \in Seq(Nat) /\ p.data \in Seq(Nat) /\ p.qos \in 0 .. 2 /\ p.id \in Nat
        /\ 0 \in 0 .. 1
    BY <1>1, LetterIsByte, WordBytesLetters DEF Sound
  <2>4. PublishReads(buf, length, p.topic, p.qos, p.id, p.data, Len(m))
    <3>1. Shows(buf, length, m)
      BY <2>2
    <3> QED
      BY <2>1, <2>2, <2>3, <3>1, PublishIsRead
  <2> QED
    BY <1>3, <2>4 DEF PublishReads
<1> QED
  BY <1>2, <1>3

LEMMA PublishShown ==
  ASSUME NEW p \in Sendable, p.type = PUBLISH,
         NEW buf, NEW length, Shows(buf, length, Encode(p))
  PROVE  /\ PublishReads(buf, length, p.topic, p.qos, p.id, p.data, Len(Encode(p)))
         /\ p.topic \in Seq(Letter) /\ p.data \in Seq(Letter) /\ p.qos \in 0 .. 2
         /\ IsId(p.id)
<1>1. Sound(p)
  BY SendableSound
<1>2. PICK m : m = mqtt_msg_publish(p.topic, p.data, p.qos, 0, p.id)
  OBVIOUS
<1>3. m = Encode(p) /\ m # << >> /\ p.topic # << >>
  BY <1>1, <1>2, EncodePublish DEF Sound
<1>4. /\ p.topic \in Seq(Nat) /\ p.data \in Seq(Nat) /\ p.qos \in 0 .. 2 /\ p.id \in Nat
      /\ 0 \in 0 .. 1
  BY <1>1, LetterIsByte, WordBytesLetters DEF Sound
<1>5. Shows(buf, length, m)
  BY <1>3
<1>6. PublishReads(buf, length, p.topic, p.qos, p.id, p.data, Len(m))
  BY <1>2, <1>3, <1>4, <1>5, PublishIsRead
<1> QED
  BY <1>1, <1>3, <1>6 DEF Sound

-----------------------------------------------------------------------------
(* A segment brings the packets it takes off the wire.                     *)
LEMMA SegmentOpens ==
  ASSUME Typed, NEW k \in 0 .. Len(wire), NEW m \in Nat, Segment(k, m),
         m > 0 => k < Len(wire) /\ m \in 1 .. Len(wire[k + 1].bytes) - 1,
         ~wire[1].cut
  PROVE  /\ m = 0 => pdata' = Bytes(PacketsOf(k))
         /\ \E q \in Seq(Sendable) : Range(q) \subseteq Range(sent) /\ Opens(pdata', q)
<1>0. pdata' = FlattenSeq(BytesOf(k)) \o PartOf(k, m)
  BY Zenon DEF Segment, BytesOf, PartOf, Whole
<1>1. PICK l \in Nat : l = Len(wire) /\ k \in Nat /\ k <= l
  BY DEF Typed
<1>2. /\ \A i \in 1 .. l : wire[i].packet \in Range(sent) /\ wire[i] \in Piece
      /\ \A i \in 2 .. l : ~wire[i].cut
  BY <1>1 DEF Typed
<1>3. \A i \in 1 .. l : ~wire[i].cut
  <2>1. \A i \in 1 .. l : i = 1 \/ i \in 2 .. l
    BY <1>1
  <2> QED
    BY <1>2, <2>1
<1>4. \A i \in 1 .. l : /\ wire[i].packet \in Sendable
                        /\ wire[i].bytes = Encode(wire[i].packet)
                        /\ wire[i].bytes \in Seq(Byte)
  BY <1>2, <1>3, PieceIs
<1>5. PICK q \in Seq(Sendable) :
        /\ q = PacketsOf(k) /\ Len(q) = k
        /\ \A j \in 1 .. k : q[j] = wire[j].packet
        /\ BytesOf(k) \in [1 .. k -> Seq(Byte)]
        /\ \A j \in 1 .. k : BytesOf(k)[j] = wire[j].bytes
  BY WholeIs
<1>6. FlattenSeq(BytesOf(k)) = Bytes(q)
  <2>1. PICK row : row = [j \in DOMAIN q |-> Encoded[q[j]]]
    OBVIOUS
  <2>2. DOMAIN q = 1 .. k /\ \A j \in 1 .. k : j \in 1 .. l
    BY <1>1, <1>5
  <2>3. \A j \in 1 .. k : Encoded[q[j]] = wire[j].bytes
    BY <1>4, <1>5, <2>2, EncodedIs, ZenonT(60)
  <2>4. BytesOf(k) = row
    BY <1>5, <2>1, <2>2, <2>3, ZenonT(60)
  <2> QED
    BY <2>1, <2>4, Zenon DEF Bytes, Each
<1>7. Bytes(q) \in Seq(Byte) /\ Range(q) \subseteq Range(sent)
  <2>1. \A j \in 1 .. k : q[j] \in Range(sent)
    <3>1. \A j \in 1 .. k : j \in 1 .. l
      BY <1>1
    <3> QED
      BY <1>2, <1>5, <3>1
  <2>2. DOMAIN q = 1 .. k
    BY <1>5
  <2> QED
    BY <2>1, <2>2, BytesIs DEF Range
<1>8. CASE m = 0
  <2>1. pdata' = Bytes(q) \o << >>
    BY <1>0, <1>6, <1>8, Zenon DEF PartOf
  <2>2. Bytes(q) \o << >> = Bytes(q)
    BY <1>7, ConcatEmptySeq
  <2>3. pdata' = Bytes(q) /\ Bytes(q) = pdata' \o << >>
    BY <2>1, <2>2
  <2> QED
    BY <1>5, <1>7, <2>3, EmptyIn DEF Opens
<1>9. CASE m > 0
  <2>1. k + 1 \in 1 .. l /\ m # 0
    BY <1>1, <1>9
  <2>2. PICK p \in Sendable : p = wire[k + 1].packet /\ p \in Range(sent)
    BY <1>2, <1>4, <2>1
  <2>3. PICK b \in Seq(Byte) : b = wire[k + 1].bytes /\ b = Encode(p) /\ m \in 1 .. Len(b) - 1
    BY <1>4, <1>9, <2>1, <2>2
  <2>4. PICK r : r = Append(q, p)
    OBVIOUS
  <2>5. r \in Seq(Sendable) /\ Range(r) \subseteq Range(sent)
    <3>1. /\ r \in Seq(Sendable) /\ Len(r) = k + 1 /\ r[k + 1] = p
          /\ \A j \in 1 .. k : r[j] = q[j]
      BY <1>1, <1>5, <2>2, <2>4, AppendIs, SMTT(60)
    <3>2. \A j \in 1 .. k : q[j] \in Range(sent)
      <4>1. DOMAIN q = 1 .. k
        BY <1>5
      <4>2. \A j \in 1 .. k : q[j] \in Range(q)
        BY <4>1, Zenon DEF Range
      <4> QED
        BY <1>7, <4>2
    <3>3. DOMAIN r = 1 .. k + 1 /\ \A j \in 1 .. k + 1 : j = k + 1 \/ j \in 1 .. k
      BY <1>1, <3>1
    <3> QED
      BY <2>2, <3>1, <3>2, <3>3, SMTT(60) DEF Range
  <2>6. Bytes(r) = Bytes(q) \o b
    <3>1. Each(Encoded, r) = Each(Encoded, q) \o Encoded[p]
      BY <2>4, EncodedIs, EachMore, ZenonT(60)
    <3>2. Encoded[p] = b
      BY <2>3, EncodedIs
    <3> QED
      BY <3>1, <3>2, Zenon DEF Bytes
  <2>7. PICK n \in Nat : n = Len(b) /\ m <= n /\ m + 1 <= n
    BY <2>3
  <2>8. PICK x, y : x = SubSeq(b, 1, m) /\ y = SubSeq(b, m + 1, n)
    OBVIOUS
  <2>9. x \o y = b /\ x \in Seq(Byte) /\ y \in Seq(Byte)
    <3>1. 1 \in 1 .. Len(b) + 1 /\ m \in 1 - 1 .. Len(b) /\ n \in m .. Len(b)
      BY <2>7
    <3>2. x \o y = SubSeq(b, 1, n)
      BY <2>8, <3>1, ConcatAdjacentSubSeq
    <3>3. SubSeq(b, 1, n) = b
      BY <2>7, SubSeqFull
    <3>4. x \in Seq(Byte) /\ y \in Seq(Byte)
      <4>1. 0 \in Nat /\ m \in Nat /\ n \in Nat /\ m <= Len(b) /\ n <= Len(b) /\ 0 + 1 = 1
        BY <2>7
      <4>2. SubSeq(b, 0 + 1, m) \in Seq(Byte) /\ SubSeq(b, m + 1, n) \in Seq(Byte)
        BY <4>1, SubSeqOf
      <4> QED
        BY <2>8, <4>1, <4>2
    <3> QED
      BY <3>2, <3>3, <3>4
  <2>10. pdata' = Bytes(q) \o x
    BY <1>0, <1>6, <2>1, <2>3, <2>8, Zenon DEF PartOf
  <2>11. Bytes(r) = pdata' \o y
    <3>1. Joined(Joined(Bytes(q), x), y) = Joined(Bytes(q), Joined(x, y))
      BY <1>7, <2>9, ThreeJoined
    <3> QED
      BY <2>6, <2>9, <2>10, <3>1, Zenon DEF Joined
  <2> QED
    BY <2>1, <2>5, <2>9, <2>11 DEF Opens
<1> QED
  BY <1>8, <1>9

-----------------------------------------------------------------------------
(* What is still to be read of a segment that started with a packet starts *)
(* with one, too.                                                          *)
Unmixed ==
  /\ NeverMixes
  /\ aligned /\ pdata # << >> =>
       \E q \in Seq(Sendable) : Range(q) \subseteq Range(sent) /\ Opens(pdata, q)

SentFor(d, packets) ==
  d.whole /\ d.topic # NULL =>
    \E p \in packets : /\ p.type = PUBLISH
                       /\ d.topic = p.topic
                       /\ IsPrefix(d.data, p.data)

LEMMA NeverMixesIs ==
  NeverMixes <=> \A d \in Range(delivered) : SentFor(d, Range(sent))
BY DEF NeverMixes, SentFor

LEMMA UnmixedInit ==
  ASSUME Init
  PROVE  Unmixed
<1>1. delivered = << >> /\ pdata = << >>
  BY DEF Init
<1>2. Range(delivered) = {}
  BY <1>1 DEF Range
<1> QED
  BY <1>1, <1>2, NeverMixesIs DEF Unmixed

LEMMA PrefixOfItself ==
  ASSUME NEW S, NEW s \in Seq(S)
  PROVE  IsPrefix(s, s)
<1>1. Len(s) <= Len(s) /\ \A k \in 1 .. Len(s) : s[k] = s[k]
  OBVIOUS
<1> QED
  BY <1>1, PrefixIs

LEMMA UnmixedPublish ==
  ASSUME Typed, Unmixed, RecvPublish
  PROVE  Unmixed'
<1>0. /\ Fits /\ pdata \in Seq(Byte) /\ Tame(pdata) /\ pdata # << >> /\ in_buffer' = Copied
      /\ sent' = sent /\ aligned' = aligned /\ delivered \in Seq(Delivery)
      /\ aligned \in BOOLEAN
  BY DEF RecvPublish, Typed, Fits
<1> DEFINE buf == Copied
           topic == mqtt_get_publish_topic(buf, Len(pdata))
           data == mqtt_get_publish_data(buf, Len(pdata))
           length == mqtt_get_total_length(buf, Len(pdata))
           d == [topic |-> topic, data |-> data, whole |-> aligned]
<1>1. /\ Begins(buf, pdata) /\ Len(buf) = BufferLength /\ buf \in Seq(Byte)
  BY <1>0, CopiedBegins
<1>2. /\ delivered' = Append(delivered, d)
      /\ mqtt_get_type(buf) = PUBLISH
      /\ pdata' = IF connState' = "RESET" THEN << >>
                  ELSE SubSeq(pdata, length + 1, Len(pdata))
  BY <1>0, Zenon DEF RecvPublish, Behind
<1>3. length \in Nat /\ length > 0
  BY <1>0, <1>1, TotalTame
<1>4. d \in Delivery /\ d.whole = aligned
  BY <1>0, <1>1, DeliveryTyped
<1>5. ASSUME aligned
      PROVE  /\ SentFor(d, Range(sent))
             /\ pdata' # << >> => \E q \in Seq(Sendable) :
                                    Range(q) \subseteq Range(sent) /\ Opens(pdata', q)
  <2>1. PICK q \in Seq(Sendable) : Range(q) \subseteq Range(sent) /\ Opens(pdata, q)
    BY <1>0, <1>5 DEF Unmixed
  <2>2. /\ q # << >> /\ q[1] \in Sendable /\ Tail(q) \in Seq(Sendable)
        /\ Shows(buf, Len(pdata), Encode(q[1]))
    BY <1>0, <1>1, <2>1, OpensShows
  <2>3. PICK p \in Sendable : p = q[1]
    BY <2>2
  <2>4. p.type = PUBLISH
    BY <1>2, <2>2, <2>3, TypeShown
  <2>5. /\ PublishReads(buf, Len(pdata), p.topic, p.qos, p.id, p.data, Len(Encode(p)))
        /\ p.topic \in Seq(Letter) /\ p.data \in Seq(Letter)
    BY <2>2, <2>3, <2>4, PublishShown
  <2>6. PICK n \in Nat : n = Len(pdata)
    BY <1>0
  <2>7. PICK full \in Nat : full = Len(Encode(p))
    <3>1. Len(Encode(p)) \in Nat
      BY EncodeGood DEF Good
    <3> QED
      BY <3>1
  <2>8. /\ full <= n => topic = p.topic /\ data = p.data /\ length = full
        /\ n < full => /\ topic = NULL \/ (topic = p.topic /\ IsPrefix(data, p.data))
                       /\ length >= n
    BY <2>5, <2>6, <2>7, Zenon DEF PublishReads
  <2>9. p \in Range(sent) /\ Range(Tail(q)) \subseteq Range(sent)
    <3>1. PICK l \in Nat : Len(q) = l + 1
      <4>1. Len(q) \in Nat /\ Len(q) > 0
        BY <2>2
      <4>2. Len(q) - 1 \in Nat /\ Len(q) = (Len(q) - 1) + 1
        BY <4>1
      <4> QED
        BY <4>2
    <3>2. /\ Tail(q) \in Seq(Sendable) /\ Len(Tail(q)) = l
          /\ \A j \in 1 .. l : Tail(q)[j] = q[j + 1]
      BY <3>1, TailIs
    <3>3. /\ DOMAIN q = 1 .. l + 1 /\ DOMAIN Tail(q) = 1 .. l /\ 1 \in 1 .. l + 1
          /\ \A j \in 1 .. l : j + 1 \in 1 .. l + 1
      BY <3>1, <3>2
    <3>4. p \in Range(q)
      BY <2>3, <3>3 DEF Range
    <3>5. \A j \in 1 .. l : Tail(q)[j] \in Range(q)
      BY <3>2, <3>3 DEF Range
    <3>6. Range(Tail(q)) \subseteq Range(q)
      BY <3>3, <3>5 DEF Range
    <3> QED
      BY <2>1, <3>4, <3>6, SMTT(60)
  <2> HIDE DEF buf, topic, data, length
  <2>10. d.topic = topic /\ d.data = data
    OBVIOUS
  <2>11. SentFor(d, Range(sent))
    <3>1. topic = NULL \/ (topic = p.topic /\ IsPrefix(data, p.data))
      <4>1. IsPrefix(p.data, p.data)
        BY <2>5, PrefixOfItself
      <4>2. full <= n \/ n < full
        BY <2>6, <2>7
      <4> QED
        BY <2>8, <4>1, <4>2
    <3> HIDE DEF d
    <3> QED
      BY <2>4, <2>9, <2>10, <3>1 DEF SentFor
  <2>12. ASSUME pdata' # << >>
         PROVE  \E r \in Seq(Sendable) : Range(r) \subseteq Range(sent) /\ Opens(pdata', r)
    <3>1. pdata' = SubSeq(pdata, length + 1, Len(pdata))
      BY <1>2, <2>12
    <3>2. length < n
      <4>1. Len(SubSeq(pdata, length + 1, n)) = IF length <= n THEN n - length ELSE 0
        BY <1>0, <1>3, <2>6, SubSeqOf
      <4>2. SubSeq(pdata, length + 1, n) \in Seq(Byte)
        BY <1>0, <1>3, <2>6, SubSeqOf
      <4>3. Len(SubSeq(pdata, length + 1, n)) # 0
        BY <2>6, <2>12, <3>1, <4>2
      <4> QED
        BY <1>3, <2>6, <4>1, <4>3
    <3>3. full <= n /\ length = full
      BY <1>3, <2>6, <2>7, <2>8, <3>2
    <3>4. Opens(SubSeq(pdata, full + 1, Len(pdata)), Tail(q))
      BY <1>0, <2>1, <2>2, <2>3, <2>6, <2>7, <3>3, OpensBehind
    <3> QED
      BY <2>2, <2>9, <3>1, <3>3, <3>4
  <2> QED
    BY <2>11, <2>12
<1>6. SentFor(d, Range(sent))
  BY <1>4, <1>5 DEF SentFor
<1> HIDE DEF d, buf, topic, data, length
<1>7. Range(delivered') = Range(delivered) \cup {d}
  <2>1. PICK n \in Nat : n = Len(delivered)
    BY <1>0
  <2>2. /\ delivered' \in Seq(Delivery) /\ Len(delivered') = n + 1 /\ delivered'[n + 1] = d
        /\ \A j \in 1 .. n : delivered'[j] = delivered[j]
    BY <1>0, <1>2, <1>4, <2>1, AppendIs
  <2>3. DOMAIN delivered' = (1 .. n) \cup {n + 1} /\ DOMAIN delivered = 1 .. n
    BY <1>0, <2>1, <2>2
  <2> QED
    BY <2>2, <2>3 DEF Range
<1>8. \A e \in Range(delivered) : SentFor(e, Range(sent))
  BY NeverMixesIs DEF Unmixed
<1>9. NeverMixes'
  <2>1. \A e \in Range(delivered') : SentFor(e, Range(sent'))
    BY <1>0, <1>6, <1>7, <1>8
  <2> QED
    BY <2>1 DEF NeverMixes, SentFor
<1> QED
  BY <1>0, <1>5, <1>9 DEF Unmixed

LEMMA UnmixedStep ==
  ASSUME Typed, Unmixed, [Next]_vars
  PROVE  Unmixed'
<1>1. CASE RecvPublish
  BY <1>1, UnmixedPublish
<1>2. CASE TooLong \/ RecvConnecting \/ RecvOther
  <2>1. pdata' = << >> /\ delivered' = delivered /\ sent' = sent
    BY <1>2 DEF TooLong, RecvConnecting, RecvOther, client
  <2> QED
    BY <2>1 DEF Unmixed, NeverMixes
<1>3. CASE BrokerSends
  <2>1. /\ pdata' = pdata /\ aligned' = aligned /\ delivered' = delivered
        /\ \E p \in Packets : sent' = Append(sent, p)
    BY <1>3 DEF BrokerSends, client
  <2>2. Range(sent) \subseteq Range(sent')
    <3>1. PICK p \in Packets : sent' = Append(sent, p)
      BY <2>1
    <3>2. PICK n \in Nat : n = Len(sent) /\ sent \in Seq(Sendable) /\ p \in Sendable
      BY DEF Typed, Sendable
    <3>3. /\ sent' \in Seq(Sendable) /\ Len(sent') = n + 1
          /\ \A j \in 1 .. n : sent'[j] = sent[j]
      BY <3>1, <3>2, AppendIs
    <3>4. DOMAIN sent = 1 .. n /\ DOMAIN sent' = 1 .. n + 1 /\ 1 .. n \subseteq 1 .. n + 1
      BY <3>2, <3>3
    <3> QED
      BY <3>3, <3>4 DEF Range
  <2>3. \A d \in Range(delivered') : SentFor(d, Range(sent'))
    BY <2>1, <2>2, NeverMixesIs DEF Unmixed, SentFor
  <2>4. NeverMixes'
    BY <2>3 DEF NeverMixes, SentFor
  <2> QED
    BY <2>1, <2>2, <2>4 DEF Unmixed
<1>4. CASE Arrives
  <2>1. PICK k \in 0 .. Len(wire), m \in Nat :
          /\ Segment(k, m)
          /\ m > 0 => k < Len(wire) /\ m \in 1 .. Len(wire[k + 1].bytes) - 1
    BY <1>4, ArrivesIs
  <2>2. /\ aligned' = ~wire[1].cut /\ sent' = sent /\ delivered' = delivered
    BY <2>1 DEF Segment, client
  <2>3. aligned' => \E q \in Seq(Sendable) : Range(q) \subseteq Range(sent) /\ Opens(pdata', q)
    BY <2>1, <2>2, SegmentOpens
  <2> QED
    BY <2>2, <2>3 DEF Unmixed, NeverMixes
<1>5. CASE UNCHANGED vars
  BY <1>5 DEF vars, client, Unmixed, NeverMixes
<1> QED
  BY <1>1, <1>2, <1>3, <1>4, <1>5 DEF Next, READPACKET

(* Wherever a segment ends, a packet is never mixed with another.          *)
THEOREM PacketsNeverMix == Spec => []NeverMixes
<1>1. Init => Unmixed
  BY UnmixedInit
<1>2. Typed /\ Unmixed /\ [Next]_vars => Unmixed'
  BY UnmixedStep
<1>3. Unmixed => NeverMixes
  BY DEF Unmixed
<1> QED
  BY <1>1, <1>2, <1>3, TypedAlways, PTL DEF Spec

-----------------------------------------------------------------------------
(* The ids of the client's own messages.                                   *)
LEMMA Ids == IdRange \in Nat /\ IdRange >= 2
BY MsgAssumption, SMTT(60)

LEMMA RemainderIs ==
  ASSUME NEW M \in Nat, M > 0, NEW c \in Nat
  PROVE  c % M \in 0 .. M - 1 /\ c = M * (c \div M) + (c % M) /\ c \div M \in Int
OBVIOUS

LEMMA RemainderOf ==
  ASSUME NEW M \in Nat, M > 0, NEW d \in Int, NEW r \in 0 .. M - 1
  PROVE  (M * d + r) % M = r
OBVIOUS

LEMMA NextRemainder ==
  ASSUME NEW M \in Nat, M > 0, NEW c \in Nat
  PROVE  (c + 1) % M = IF c % M = M - 1 THEN 0 ELSE (c % M) + 1
<1>1. PICK r \in 0 .. M - 1 : r = c % M
  BY RemainderIs
<1>2. PICK d \in Int : d = c \div M
  BY RemainderIs
<1>3. c = M * d + r
  BY <1>1, <1>2, RemainderIs
<1>4. CASE r = M - 1
  <2>1. c + 1 = M * (d + 1) + 0
    BY <1>3, <1>4
  <2>2. 0 \in 0 .. M - 1 /\ d + 1 \in Int
    OBVIOUS
  <2>3. (M * (d + 1) + 0) % M = 0
    BY <2>2, RemainderOf
  <2>4. (c + 1) % M = 0
    BY <2>1, <2>3, Zenon
  <2> QED
    BY <1>1, <1>4, <2>4
<1>5. CASE r # M - 1
  <2>1. c + 1 = M * d + (r + 1) /\ r + 1 \in 0 .. M - 1
    BY <1>3, <1>5
  <2>3. (M * d + (r + 1)) % M = r + 1
    BY <2>1, RemainderOf
  <2>4. (c + 1) % M = r + 1
    BY <2>1, <2>3, Zenon
  <2> QED
    BY <1>1, <1>5, <2>4
<1> QED
  BY <1>4, <1>5

NumberOf(c) == IF c = 0 THEN 0 ELSE ((c - 1) % (IdRange - 1)) + 1

LEMMA NumberFresh ==
  ASSUME NEW c \in Nat
  PROVE  NumberOf(c) \in 0 .. IdRange - 1 /\ NumberOf(c + 1) = Fresh(NumberOf(c))
<1>1. PICK M \in Nat : M = IdRange - 1 /\ M > 0 /\ IdRange = M + 1
  <2>1. IdRange \in Nat /\ IdRange >= 2
    BY Ids
  <2>2. IdRange - 1 \in Nat /\ IdRange - 1 > 0 /\ IdRange = (IdRange - 1) + 1
    BY <2>1
  <2> QED
    BY <2>2
<1>2. CASE c = 0
  <2>1. 0 % M = 0 /\ 0 \in 0 .. M
    BY <1>1
  <2>2. NumberOf(c) = 0 /\ NumberOf(c + 1) = 1
    <3>1. NumberOf(c) = 0
      BY <1>2 DEF NumberOf
    <3>2. c + 1 # 0 /\ (c + 1) - 1 = 0
      BY <1>2
    <3>3. NumberOf(c + 1) = (0 % M) + 1
      BY <1>1, <3>2 DEF NumberOf
    <3> QED
      BY <2>1, <3>1, <3>3
  <2>3. Fresh(0) = 1
    <3>1. 0 \in 0 .. IdRange - 1
      BY <1>1
    <3>2. Fresh(0) = IF 0 = IdRange - 1 THEN 1 ELSE 0 + 1
      BY <3>1, FreshIs
    <3> QED
      BY <3>2
  <2> QED
    BY <1>1, <2>1, <2>2, <2>3
<1>3. CASE c # 0
  <2>1. PICK b \in Nat : c = b + 1 /\ c - 1 = b /\ (c + 1) - 1 = b + 1 /\ c + 1 # 0
    <3>1. c - 1 \in Nat /\ c = (c - 1) + 1 /\ (c + 1) - 1 = (c - 1) + 1 /\ c + 1 # 0
      BY <1>3
    <3> QED
      BY <3>1
  <2>2. PICK r \in 0 .. M - 1 : r = b % M
    BY <1>1, RemainderIs
  <2>3. (b + 1) % M = IF r = M - 1 THEN 0 ELSE r + 1
    BY <1>1, <2>2, NextRemainder
  <2>4. NumberOf(c) = r + 1 /\ NumberOf(c + 1) = ((b + 1) % M) + 1
    BY <1>1, <1>3, <2>1, <2>2 DEF NumberOf
  <2>5. r + 1 \in 0 .. IdRange - 1 /\ (r + 1 = IdRange - 1 <=> r = M - 1)
    BY <1>1
  <2>6. Fresh(r + 1) = IF r + 1 = IdRange - 1 THEN 1 ELSE (r + 1) + 1
    BY <2>5, FreshIs
  <2> QED
    BY <2>3, <2>4, <2>5, <2>6
<1> QED
  BY <1>2, <1>3

-----------------------------------------------------------------------------
(* What is owed, and that the messages queued so far are it.               *)
Debt == [type : 0 .. 15, id : {w \in Nat : w <= 65535}, data : Seq(Byte)]

Own(x) == x.id = 0 /\ x.type # PINGRESP
OwnTo(owed, j) == Cardinality({i \in 1 .. j : Own(owed[i])})

Fulfils(m, x, id) ==
  /\ mqtt_get_type(m) = x.type
  /\ mqtt_get_total_length(m, Len(m)) = Len(m)
  /\ mqtt_get_id(m, Len(m)) = id
  /\ x.type = PUBLISH => /\ mqtt_get_publish_topic(m, Len(m)) = Status
                         /\ mqtt_get_publish_data(m, Len(m)) = x.data

Met(m, x, count) == Fulfils(m, x, IF Own(x) THEN NumberOf(count) ELSE x.id)

Answers(o, owed) ==
  /\ o \in Outs /\ owed \in Seq(Debt)
  /\ Len(o.offered) = Len(owed)
  /\ \A j \in 1 .. Len(owed) : Met(o.offered[j], owed[j], OwnTo(owed, j))
  /\ o.message_id = NumberOf(OwnTo(owed, Len(owed)))

LEMMA OwnToNat ==
  ASSUME NEW owed, NEW j \in Nat
  PROVE  OwnTo(owed, j) \in Nat
<1>1. IsFiniteSet(1 .. j)
  BY FS_Interval
<1>2. IsFiniteSet({i \in 1 .. j : Own(owed[i])})
  BY <1>1, FS_Subset
<1> QED
  BY <1>2, FS_CardinalityType DEF OwnTo

LEMMA OwnToNext ==
  ASSUME NEW owed, NEW n \in Nat
  PROVE  OwnTo(owed, n + 1) = IF Own(owed[n + 1]) THEN OwnTo(owed, n) + 1 ELSE OwnTo(owed, n)
<1> DEFINE A == {i \in 1 .. n : Own(owed[i])}
           B == {i \in 1 .. n + 1 : Own(owed[i])}
<1>1. IsFiniteSet(1 .. n)
  BY FS_Interval
<1>2. IsFiniteSet(A)
  BY <1>1, FS_Subset
<1>3. n + 1 \notin A
  OBVIOUS
<1>4. \A i \in 1 .. n + 1 : i = n + 1 \/ i \in 1 .. n
  OBVIOUS
<1>5. n + 1 \in 1 .. n + 1 /\ \A i \in 1 .. n : i \in 1 .. n + 1
  OBVIOUS
<1>6. CASE Own(owed[n + 1])
  <2>1. B = A \cup {n + 1}
    BY <1>4, <1>5, <1>6
  <2> HIDE DEF A, B
  <2>2. Cardinality(A \cup {n + 1}) = Cardinality(A) + 1
    BY <1>2, <1>3, FS_AddElement
  <2>3. Cardinality(B) = Cardinality(A) + 1
    BY <2>1, <2>2
  <2> QED
    BY <1>6, <2>3 DEF OwnTo, A, B
<1>7. CASE ~Own(owed[n + 1])
  <2>1. B = A
    BY <1>4, <1>5, <1>7
  <2> QED
    BY <1>7, <2>1, Zenon DEF OwnTo
<1> QED
  BY <1>6, <1>7

LEMMA OwnToSame ==
  ASSUME NEW owed, NEW more, NEW j, \A i \in 1 .. j : more[i] = owed[i]
  PROVE  OwnTo(more, j) = OwnTo(owed, j)
<1>1. {i \in 1 .. j : Own(more[i])} = {i \in 1 .. j : Own(owed[i])}
  OBVIOUS
<1> QED
  BY <1>1, Zenon DEF OwnTo

LEMMA AnswersMore ==
  ASSUME NEW o, NEW owed, Answers(o, owed), NEW x \in Debt, NEW m \in Offer,
         Fulfils(m, x, IF Own(x) THEN Fresh(o.message_id) ELSE x.id), NEW p,
         p = [message_id |-> IF Own(x) THEN Fresh(o.message_id) ELSE o.message_id,
              offered |-> Append(o.offered, m)]
  PROVE  Answers(p, Append(owed, x))
<1>1. /\ o \in Outs /\ owed \in Seq(Debt)
      /\ Len(o.offered) = Len(owed)
      /\ \A j \in 1 .. Len(owed) : Met(o.offered[j], owed[j], OwnTo(owed, j))
      /\ o.message_id = NumberOf(OwnTo(owed, Len(owed)))
  BY DEF Answers
<1>2. PICK n \in Nat : n = Len(owed)
  BY <1>1
<1>3. PICK f \in Seq(Offer) : f = o.offered /\ Len(f) = n
  BY <1>1, <1>2 DEF Outs
<1>4. o.message_id \in 0 .. IdRange - 1
  BY <1>1 DEF Outs
<1>5. PICK id \in 0 .. IdRange - 1 :
        id = IF Own(x) THEN Fresh(o.message_id) ELSE o.message_id
  <2>1. Fresh(o.message_id) \in 0 .. IdRange - 1
    <3>1. Fresh(o.message_id) \in 1 .. IdRange - 1
      BY <1>4, FreshIs
    <3>2. IdRange \in Nat /\ IdRange >= 2
      BY Ids
    <3> QED
      BY <3>1, <3>2
  <2> QED
    BY <1>4, <2>1
<1>6. p = [message_id |-> id, offered |-> Append(o.offered, m)]
  BY <1>5
<1>7. p \in Outs /\ p.message_id = id
  <2>1. id \in 0 .. IdRange - 1
    BY <1>5
  <2>2. [message_id |-> id, offered |-> Append(o.offered, m)] \in Outs
    BY <1>1, <2>1, OfferMore, Zenon
  <2>3. p.message_id = id
    BY <1>6
  <2> QED
    BY <1>6, <2>2, <2>3, Zenon
<1>8. PICK g : g = Append(f, m)
  OBVIOUS
<1>9. /\ p.offered = g /\ Len(g) = n + 1 /\ g[n + 1] = m
      /\ \A j \in 1 .. n : g[j] = f[j]
  BY <1>3, <1>6, <1>8, AppendIs
<1>10. PICK more : more = Append(owed, x)
  OBVIOUS
<1>11. /\ more \in Seq(Debt) /\ Len(more) = n + 1 /\ more[n + 1] = x
       /\ \A j \in 1 .. n : more[j] = owed[j]
  BY <1>1, <1>2, <1>10, AppendIs
<1>12. PICK c \in Nat : c = OwnTo(owed, n) /\ OwnTo(more, n) = c
  BY <1>11, OwnToNat, OwnToSame
<1>13. OwnTo(more, n + 1) = IF Own(x) THEN c + 1 ELSE c
  BY <1>11, <1>12, OwnToNext
<1>14. o.message_id = NumberOf(c) /\ NumberOf(c + 1) = Fresh(NumberOf(c))
  BY <1>1, <1>2, <1>12, NumberFresh
<1>15. id = NumberOf(OwnTo(more, n + 1))
  BY <1>5, <1>13, <1>14
<1>16. ASSUME NEW j \in 1 .. n + 1 PROVE Met(g[j], more[j], OwnTo(more, j))
  <2>1. CASE j = n + 1
    <3>1. Own(x) => NumberOf(OwnTo(more, n + 1)) = Fresh(o.message_id)
      BY <1>5, <1>15
    <3>2. Fulfils(m, x, IF Own(x) THEN NumberOf(OwnTo(more, n + 1)) ELSE x.id)
      BY <3>1
    <3>3. Met(m, x, OwnTo(more, n + 1))
      BY <3>2, Zenon DEF Met
    <3> QED
      BY <1>9, <1>11, <2>1, <3>3
  <2>2. CASE j \in 1 .. n
    <3>1. g[j] = o.offered[j] /\ more[j] = owed[j]
      BY <1>3, <1>9, <1>11, <2>2
    <3>2. OwnTo(more, j) = OwnTo(owed, j)
      <4>1. \A i \in 1 .. j : i \in 1 .. n
        BY <1>2, <2>2
      <4>2. \A i \in 1 .. j : more[i] = owed[i]
        BY <1>11, <4>1
      <4> QED
        BY <4>2, OwnToSame
    <3>3. Met(o.offered[j], owed[j], OwnTo(owed, j))
      BY <1>1, <1>2, <2>2
    <3> QED
      BY <3>1, <3>2, <3>3, Zenon
  <2>3. j = n + 1 \/ j \in 1 .. n
    BY <1>2
  <2> QED
    BY <2>1, <2>2, <2>3
<1>17. Answers(p, more)
  BY <1>7, <1>9, <1>11, <1>15, <1>16 DEF Answers
<1> QED
  BY <1>10, <1>17

LEMMA AnswersNone ==
  Answers([message_id |-> 0, offered |-> << >>], << >>)
<1> DEFINE o == [message_id |-> 0, offered |-> << >>]
<1>1. o \in Outs
  <2>1. 0 \in 0 .. IdRange - 1
    BY MsgAssumption, SMTT(60)
  <2> QED
    BY <2>1, EmptyIn DEF Outs
<1>2. << >> \in Seq(Debt) /\ Len(<< >>) = 0 /\ 1 .. 0 = {}
  BY EmptyIn
<1>3. OwnTo(<< >>, 0) = 0
  BY <1>2, FS_EmptySet DEF OwnTo
<1>4. NumberOf(0) = 0
  BY DEF NumberOf
<1> QED
  BY <1>1, <1>2, <1>3, <1>4 DEF Answers

-----------------------------------------------------------------------------
(* The client's messages can be read by whoever receives them.             *)
LEMMA TwoHeader ==
  ASSUME NEW m, NEW n, HeaderBytes(m, 2, n)
  PROVE  n \in 0 .. 127 /\ m[2] = n
BY DEF HeaderBytes

LEMMA FramedRead ==
  ASSUME NEW type \in 0 .. 15, NEW qos \in 0 .. 2, NEW retain \in 0 .. 1,
         NEW m, NEW body \in Seq(Byte), Framed(m, First(type, qos, retain), body, 2),
         NEW buf, NEW length, Shows(buf, length, m), 4 <= length
  PROVE  /\ mqtt_get_type(buf) = type
         /\ mqtt_get_total_length(buf, length) = Len(m)
         /\ type \in Acks /\ 2 <= Len(body) => mqtt_get_id(buf, length) = WordAt(body, 0)
         /\ type \notin Acks /\ type # PUBLISH => mqtt_get_id(buf, length) = 0
<1>1. mqtt_get_type(buf) = type
  BY TypeRead
<1>2. length \in Nat /\ length >= 2 /\ length >= 4 /\ length \in 1 .. Len(buf)
  BY DEF Shows
<1>3. mqtt_get_total_length(buf, length) = Len(m)
  BY <1>2, HeaderRead
<1>4. ASSUME type \in Acks, 2 <= Len(body)
      PROVE  mqtt_get_id(buf, length) = WordAt(body, 0)
  <2>1. PICK n \in Nat : n = Len(body) /\ 2 <= n
    BY <1>4
  <2>2. /\ Len(m) = 2 + n /\ HeaderBytes(m, 2, n)
        /\ \A k \in 1 .. n : m[2 + k] = body[k]
    BY <2>1 DEF Framed
  <2>3. n \in 0 .. 127 /\ m[2] = n
    BY <2>2, TwoHeader
  <2>4. buf[2] = m[2] /\ buf[3] = m[3] /\ buf[4] = m[4]
    <3>1. 2 \in 1 .. length /\ 3 \in 1 .. length /\ 4 \in 1 .. length
      BY <1>2
    <3>2. 2 <= Len(m) /\ 3 <= Len(m) /\ 4 <= Len(m)
      BY <2>1, <2>2
    <3> QED
      BY <3>1, <3>2 DEF Shows
  <2>5. m[3] = body[1] /\ m[4] = body[2]
    <3>1. 1 \in 1 .. n /\ 2 \in 1 .. n /\ 2 + 1 = 3 /\ 2 + 2 = 4
      BY <2>1
    <3>2. m[2 + 1] = body[1] /\ m[2 + 2] = body[2]
      BY <2>2, <3>1
    <3> QED
      BY <3>1, <3>2
  <2>6. WordAt(buf, 2) = WordAt(body, 0)
    <3>1. 2 + 1 = 3 /\ 2 + 2 = 4 /\ 0 + 1 = 1 /\ 0 + 2 = 2
      OBVIOUS
    <3> QED
      BY <2>4, <2>5, <3>1 DEF WordAt
  <2>7. buf[2] < 128
    BY <2>3, <2>4
  <2>8. ~(mqtt_get_type(buf) = PUBLISH)
    BY <1>1, <1>4 DEF Acks, PUBLISH, PUBACK, PUBREC, PUBREL, PUBCOMP, SUBACK, UNSUBACK,
                      SUBSCRIBE
  <2> QED
    BY <1>1, <1>2, <1>4, <2>6, <2>7, <2>8, IdShort
<1>5. ASSUME type \notin Acks, type # PUBLISH PROVE mqtt_get_id(buf, length) = 0
  BY <1>1, <1>5, Zenon DEF mqtt_get_id, Acks
<1> QED
  BY <1>1, <1>3, <1>4, <1>5

LEMMA ShowsItself ==
  ASSUME NEW m \in Seq(Byte), m # << >>
  PROVE  Shows(m, Len(m), m)
<1>1. m \in Seq(Nat) /\ Len(m) \in 1 .. Len(m)
  BY ByteIsNat
<1> QED
  BY <1>1 DEF Shows

LEMMA AckFulfils ==
  ASSUME NEW type \in {PUBACK, PUBREC, PUBREL, PUBCOMP}, NEW id, IsWord(id),
         NEW x, x.type = type
  PROVE  Fulfils(mqtt_msg_ack(type, id), x, id)
<1> DEFINE qos == IF type = PUBREL THEN 1 ELSE 0
<1>1. type \in 0 .. 15 /\ type \in Acks /\ type # PUBLISH
  BY DEF Acks, PUBLISH, PUBACK, PUBREC, PUBREL, PUBCOMP
<1>2. qos \in 0 .. 2 /\ 0 \in 0 .. 1
  OBVIOUS
<1>3. PICK body : body = WordBytes(id)
  OBVIOUS
<1>4. body \in Seq(Byte) /\ Len(body) = 2 /\ WordAt(body, 0) = id
  <2>1. id \in Nat /\ body \in Seq(Byte)
    BY <1>3, WordBytesBytes
  <2>2. Len(body) = 2 /\ 256 * body[1] + body[2] = id
    BY <1>3, <2>1, WordBytesAre
  <2>3. 0 + 1 = 1 /\ 0 + 2 = 2
    OBVIOUS
  <2> QED
    BY <2>1, <2>2, <2>3 DEF WordAt
<1> HIDE DEF qos
<1>5. PICK m : m = fini_message(type, qos, 0, body)
  OBVIOUS
<1>6. m \in Seq(Byte) /\ m # << >> /\ Len(m) = 4 /\ Framed(m, First(type, qos, 0), body, 2)
  <2>1. Len(body) <= 4 /\ 2 + Len(body) = 4
    BY <1>4
  <2>2. m \in Seq(Byte) /\ m # << >>
    BY <1>1, <1>2, <1>4, <1>5, <2>1, ShortIs, ZenonT(60)
  <2>4. Framed(m, First(type, qos, 0), body, 2)
    BY <1>1, <1>2, <1>4, <1>5, <2>1, ShortIs
  <2>3. Len(m) = 2 + Len(body)
    BY <2>4, Zenon DEF Framed
  <2> QED
    BY <2>1, <2>2, <2>3, <2>4, Zenon
<1>7. Shows(m, Len(m), m) /\ 4 <= Len(m)
  <2>1. Shows(m, Len(m), m)
    BY <1>6, ShowsItself, Zenon
  <2> QED
    BY <1>6, <2>1
<1>8. /\ mqtt_get_type(m) = type /\ mqtt_get_total_length(m, Len(m)) = Len(m)
      /\ mqtt_get_id(m, Len(m)) = id
  <2>1. 2 <= Len(body)
    BY <1>4
  <2>2. PICK l : l = Len(m) /\ Shows(m, l, m) /\ 4 <= l
    BY <1>7
  <2>3. Framed(m, First(type, qos, 0), body, 2) /\ body \in Seq(Byte)
    BY <1>4, <1>6
  <2>4. mqtt_get_type(m) = type /\ mqtt_get_total_length(m, l) = Len(m)
    BY <1>1, <1>2, <2>2, <2>3, FramedRead, SMTT(60)
  <2>5. mqtt_get_id(m, l) = WordAt(body, 0)
    BY <1>1, <1>2, <2>1, <2>2, <2>3, FramedRead
  <2> QED
    BY <1>4, <2>2, <2>4, <2>5
<1>9. mqtt_msg_ack(type, id) = m
  BY <1>3, <1>5, Zenon DEF mqtt_msg_ack, qos
<1> QED
  BY <1>1, <1>8, <1>9 DEF Fulfils

LEMMA PingFulfils ==
  ASSUME NEW x, x.type = PINGRESP
  PROVE  mqtt_msg_pingresp \in Offer /\ Fulfils(mqtt_msg_pingresp, x, 0)
<1>0. PICK e \in Seq(Byte) : e = << >>
  BY EmptyIn
<1>a. Len(e) <= 4 /\ Len(e) = 0
  BY <1>0
<1>1. PICK m : m = fini_message(PINGRESP, 0, 0, e)
  OBVIOUS
<1>2. PINGRESP \in 0 .. 15 /\ 0 \in 0 .. 2 /\ 0 \in 0 .. 1
  BY DEF PINGRESP
<1>3. /\ m # << >> /\ m \in Seq(Byte) /\ Len(m) <= BufferLength
      /\ Framed(m, First(PINGRESP, 0, 0), e, 2)
  <2>1. Len(e) <= 4
    BY <1>a
  <2>2. m # << >> /\ m \in Seq(Byte) /\ Len(m) <= BufferLength
    BY <1>1, <1>2, <2>1, ShortIs
  <2>3. Framed(m, First(PINGRESP, 0, 0), e, 2)
    BY <1>1, <1>2, <2>1, ShortIs
  <2> QED
    BY <2>2, <2>3
<1>4. PICK l : l = Len(m) /\ Shows(m, l, m)
  BY <1>3, ShowsItself
<1>5. mqtt_get_type(m) = PINGRESP
  BY <1>2, <1>3, <1>4, TypeRead
<1>6. mqtt_get_total_length(m, Len(m)) = Len(m)
  <2>1. Len(m) = 2 + Len(e)
    BY <1>3, Zenon DEF Framed
  <2>2. l >= 2
    BY <1>4, <1>a, <2>1
  <2>3. mqtt_get_total_length(m, l) = Len(m)
    BY <1>3, <1>4, <2>2, HeaderRead
  <2> QED
    BY <1>4, <2>3
<1>7. PINGRESP # PUBLISH /\ PINGRESP \notin Acks
  BY DEF Acks, PINGRESP, PUBLISH, PUBACK, PUBREC, PUBREL, PUBCOMP, SUBACK, UNSUBACK,
         SUBSCRIBE
<1>8. mqtt_get_id(m, Len(m)) = 0
  BY <1>5, <1>7, Zenon DEF mqtt_get_id, Acks
<1>9. mqtt_msg_pingresp = m
  BY <1>0, <1>1, Zenon DEF mqtt_msg_pingresp
<1>10. m \in Offer
  BY <1>3 DEF Offer
<1> QED
  BY <1>5, <1>6, <1>7, <1>8, <1>9, <1>10 DEF Fulfils

LEMMA SubscribeFulfils ==
  ASSUME NEW topic \in Range(Subscriptions), NEW id, IsWord(id),
         NEW x, x.type = SUBSCRIBE
  PROVE  /\ mqtt_msg_subscribe(topic, 1, id) \in Offer
         /\ Fulfils(mqtt_msg_subscribe(topic, 1, id), x, id)
<1>1. PICK m : m = mqtt_msg_subscribe(topic, 1, id)
  OBVIOUS
<1>2. /\ topic \in Seq(Byte) /\ IsWord(Len(topic)) /\ m # << >>
      /\ m = fini_message(SUBSCRIBE, 1, 0, SubscribeBody(topic, id))
  BY <1>1, SubscribeIs
<1>3. PICK body \in Seq(Byte) : /\ body = SubscribeBody(topic, id)
                                /\ Len(body) = 5 + Len(topic) /\ WordAt(body, 0) = id
  BY <1>2, SubscribeBodyIs
<1>4. Len(topic) <= 122
  BY ReceiveAssumption
<1>5. /\ SUBSCRIBE \in 0 .. 15 /\ SUBSCRIBE \in Nat /\ 1 \in 0 .. 2 /\ 1 \in Nat
      /\ 0 \in 0 .. 1 /\ 0 \in Nat /\ SUBSCRIBE \in Acks /\ SUBSCRIBE # PUBLISH
  BY DEF SUBSCRIBE, Acks, PUBLISH
<1>6. m \in Offer
  BY <1>2, <1>3, <1>5, FiniOffer
<1>7. m \in Seq(Byte)
  BY <1>6 DEF Offer
<1>8. PICK h : Framed(m, First(SUBSCRIBE, 1, 0), body, h)
  <2>1. body \in Seq(Nat)
    BY <1>3, ByteIsNat
  <2> QED
    BY <1>2, <1>3, <1>5, <2>1, FiniIs
<1>9. PICK n \in Nat : n = Len(body) /\ n <= 127 /\ 2 <= n
  <2>1. Len(topic) \in Nat
    BY <1>2
  <2> QED
    BY <1>3, <1>4, <2>1
<1>10. h = 2 /\ Len(m) = h + n
  <2>1. HeaderBytes(m, h, n) /\ Len(m) = h + n
    BY <1>8, <1>9 DEF Framed
  <2> QED
    BY <1>9, <2>1, ShortHeader
<1>11. Shows(m, Len(m), m) /\ 4 <= Len(m)
  BY <1>2, <1>7, <1>9, <1>10, ShowsItself
<1>12. /\ mqtt_get_type(m) = SUBSCRIBE /\ mqtt_get_total_length(m, Len(m)) = Len(m)
       /\ mqtt_get_id(m, Len(m)) = id
  <2>1. Framed(m, First(SUBSCRIBE, 1, 0), body, 2) /\ 2 <= Len(body)
    BY <1>8, <1>9, <1>10
  <2> QED
    BY <1>3, <1>5, <1>11, <2>1, FramedRead
<1> QED
  BY <1>1, <1>5, <1>6, <1>12 DEF Fulfils

(* What the client publishes.                                              *)
Publishable(data) ==
  data \in Seq(Byte) /\ data # << >> /\ mqtt_msg_publish(Status, data, 1, 1, 1) # << >>

LEMMA PublishFits ==
  ASSUME NEW data, Publishable(data), NEW id, IsWord(id)
  PROVE  mqtt_msg_publish(Status, data, 1, 1, id) # << >>
<1>1. /\ Status \in Seq(Nat) /\ data \in Seq(Nat) /\ id \in Nat /\ 1 \in Nat
      /\ 1 \in 0 .. 2 /\ PUBLISH \in Nat
  <2>1. Status \in Seq(Byte)
    BY ReceiveAssumption
  <2> QED
    BY <2>1, ByteIsNat DEF Publishable, IsWord, PUBLISH
<1> DEFINE body(i) == append_string(Status)
                      \o (IF 1 > 0 THEN WordBytes(i) ELSE << >>) \o data
<1>2. PICK b : b = body(1)
  OBVIOUS
<1>3. PICK c : c = body(id)
  OBVIOUS
<1>4. /\ b \in Seq(Nat) /\ Parts(b, Status, Wide(1), 1, data)
  BY <1>1, <1>2, BodyIs
<1>5. /\ c \in Seq(Nat) /\ Parts(c, Status, Wide(1), id, data)
  BY <1>1, <1>3, BodyIs
<1>6. PICK n \in Nat : n = Len(b) /\ Len(c) = n
  BY <1>4, <1>5 DEF Parts
<1>7. ~(n + 3 > BufferLength)
  <2>1. fini_message(PUBLISH, 1, 1, b) # << >>
    BY <1>2, Zenon DEF Publishable, mqtt_msg_publish
  <2>2. ~(Len(b) + 3 > BufferLength)
    BY <2>1, Zenon DEF fini_message
  <2> QED
    BY <1>6, <2>2
<1>8. PICK f \in Nat : f = First(PUBLISH, 1, 1)
  BY <1>1 DEF First
<1>9. fini_message(PUBLISH, 1, 1, c) = <<f>> \o RemainingLength(n) \o c
  BY <1>6, <1>7, <1>8 DEF fini_message, First
<1>10. <<f>> \o RemainingLength(n) \o c # << >>
  <2>1. PICK m : m = <<f>> \o RemainingLength(n) \o c
    OBVIOUS
  <2>2. CASE n > 127
    <3>1. PICK a \in Nat : a = 128 + (n % 128)
      OBVIOUS
    <3>2. PICK e \in Nat : e = n \div 128
      OBVIOUS
    <3>3. m = <<f>> \o <<a, e>> \o c
      BY <2>1, <2>2, <3>1, <3>2 DEF RemainingLength
    <3>4. Len(m) = 3 + Len(c)
      BY <1>5, <3>3, Behind3
    <3>5. Len(m) # 0
      BY <1>6, <3>4
    <3> QED
      BY <2>1, <3>5
  <2>3. CASE ~(n > 127)
    <3>3. m = <<f>> \o <<n>> \o c
      BY <2>1, <2>3 DEF RemainingLength
    <3>4. Len(m) = 2 + Len(c)
      BY <1>5, <3>3, Behind2
    <3>5. Len(m) # 0
      BY <1>6, <3>4
    <3> QED
      BY <2>1, <3>5
  <2> QED
    BY <2>2, <2>3
<1> QED
  BY <1>3, <1>9, <1>10, Zenon DEF mqtt_msg_publish

LEMMA PublishFulfils ==
  ASSUME NEW data, Publishable(data), NEW id, IsWord(id),
         NEW x, x.type = PUBLISH, x.data = data
  PROVE  /\ mqtt_msg_publish(Status, data, 1, 1, id) \in Offer
         /\ Fulfils(mqtt_msg_publish(Status, data, 1, 1, id), x, id)
<1>1. PICK m : m = mqtt_msg_publish(Status, data, 1, 1, id)
  OBVIOUS
<1>2. m # << >>
  BY <1>1, PublishFits
<1>3. /\ Status \in Seq(Byte) /\ data \in Seq(Byte) /\ Status # << >> /\ data # << >>
      /\ Status \in Seq(Nat) /\ data \in Seq(Nat) /\ id \in Nat
      /\ 1 \in 0 .. 2 /\ 1 \in 0 .. 1 /\ 1 > 0
  <2>1. Status \in Seq(Byte) /\ Status # << >>
    BY ReceiveAssumption
  <2> QED
    BY <2>1, ByteIsNat DEF Publishable, IsWord
<1>4. m \in Seq(Byte) /\ Len(m) <= BufferLength
  BY <1>1, <1>2, <1>3, PublishBytes
<1>5. Shows(m, Len(m), m)
  BY <1>2, <1>4, ShowsItself
<1>6. PublishReads(m, Len(m), Status, 1, id, data, Len(m))
  BY <1>1, <1>2, <1>3, <1>5, PublishIsRead
<1>7. Len(m) <= Len(m)
  BY <1>4
<1>8. Fulfils(m, x, id)
  BY <1>3, <1>6, <1>7, Zenon DEF PublishReads, Fulfils
<1>9. m \in Offer
  BY <1>2, <1>4 DEF Offer
<1> QED
  BY <1>1, <1>8, <1>9

-----------------------------------------------------------------------------
(* Each handler queues what its packet makes it owe.                       *)
LEMMA ItemIs ==
  ASSUME NEW type \in 0 .. 15, NEW id, IsWord(id), NEW data \in Seq(Byte)
  PROVE  /\ Item(type, id, data) \in Debt
         /\ Item(type, id, data).type = type /\ Item(type, id, data).id = id
         /\ Item(type, id, data).data = data
         /\ Own(Item(type, id, data)) <=> (id = 0 /\ type # PINGRESP)
BY DEF Item, Debt, Own, IsWord

LEMMA ZeroWord == IsWord(0) /\ << >> \in Seq(Byte)
BY EmptyIn DEF IsWord

LEMMA AnswersFresh ==
  ASSUME NEW o, NEW owed, Answers(o, owed)
  PROVE  /\ o \in Outs /\ o.message_id \in 0 .. IdRange - 1 /\ owed \in Seq(Debt)
         /\ IsWord(Fresh(o.message_id))
<1>1. o \in Outs /\ owed \in Seq(Debt)
  BY DEF Answers
<1>2. o.message_id \in 0 .. IdRange - 1
  BY <1>1 DEF Outs
<1> QED
  BY <1>1, <1>2, FreshIs

LEMMA RepliedAnswers ==
  ASSUME NEW o, NEW owed, Answers(o, owed),
         NEW type \in {PUBACK, PUBREC, PUBREL, PUBCOMP}, NEW id, IsWord(id)
  PROVE  Answers(Replied(o, type, id), Append(owed, Item(type, id, << >>)))
<1>1. type \in 0 .. 15 /\ type # PINGRESP
  BY DEF PINGRESP, PUBACK, PUBREC, PUBREL, PUBCOMP
<1>2. PICK x \in Debt : /\ x = Item(type, id, << >>) /\ x.type = type /\ x.id = id
                        /\ (Own(x) <=> id = 0)
  <2>1. PICK e : e = << >> /\ e \in Seq(Byte)
    BY ZeroWord
  <2>2. PICK x : x = Item(type, id, e)
    OBVIOUS
  <2>3. /\ x \in Debt /\ x.type = type /\ x.id = id
        /\ (Own(x) <=> (id = 0 /\ type # PINGRESP))
    <3>1. PICK t \in 0 .. 15 : t = type
      BY <1>1
    <3>2. x = Item(t, id, e) /\ e \in Seq(Byte)
      BY <2>1, <2>2, <3>1
    <3>3. /\ x \in Debt /\ x.type = t /\ x.id = id
      BY <3>2, ItemIs, SMTT(60)
    <3>4. Own(x) <=> (id = 0 /\ t # PINGRESP)
      BY <3>2, ItemIs
    <3> QED
      BY <3>1, <3>3, <3>4, Zenon
  <2> QED
    BY <1>1, <2>1, <2>2, <2>3, Zenon
<1>3. PICK n : n = (IF id = 0 THEN Fresh(o.message_id) ELSE id) /\ IsWord(n)
  BY AnswersFresh
<1>4. PICK m : m = mqtt_msg_ack(type, n) /\ m \in Offer /\ Fulfils(m, x, n)
  BY <1>1, <1>2, <1>3, AckOffer, AckFulfils
<1>5. PICK p : p = Replied(o, type, id)
  OBVIOUS
<1>6. p = [message_id |-> IF id = 0 THEN n ELSE o.message_id,
           offered |-> Append(o.offered, m)]
  BY <1>3, <1>4, <1>5, Zenon DEF Replied
<1>7. p = [message_id |-> IF Own(x) THEN Fresh(o.message_id) ELSE o.message_id,
           offered |-> Append(o.offered, m)]
  <2>1. (IF id = 0 THEN n ELSE o.message_id)
          = IF Own(x) THEN Fresh(o.message_id) ELSE o.message_id
    BY <1>2, <1>3
  <2> QED
    BY <1>6, <2>1, Zenon
<1>8. Fulfils(m, x, IF Own(x) THEN Fresh(o.message_id) ELSE x.id)
  <2>1. n = IF Own(x) THEN Fresh(o.message_id) ELSE x.id
    BY <1>2, <1>3
  <2> QED
    BY <1>4, <2>1, Zenon
<1>9. Answers(p, Append(owed, x))
  BY <1>4, <1>7, <1>8, AnswersMore
<1> QED
  BY <1>2, <1>5, <1>9, Zenon

LEMMA OwnAnswers ==
  ASSUME NEW o, NEW owed, Answers(o, owed), NEW x \in Debt, Own(x), NEW m \in Offer,
         Fulfils(m, x, Fresh(o.message_id)), NEW p,
         p = [message_id |-> Fresh(o.message_id), offered |-> Append(o.offered, m)]
  PROVE  Answers(p, Append(owed, x))
<1>1. p = [message_id |-> IF Own(x) THEN Fresh(o.message_id) ELSE o.message_id,
           offered |-> Append(o.offered, m)]
  BY Zenon
<1>2. Fulfils(m, x, IF Own(x) THEN Fresh(o.message_id) ELSE x.id)
  BY Zenon
<1> QED
  BY <1>1, <1>2, AnswersMore

LEMMA PublishedAnswers ==
  ASSUME NEW o, NEW owed, Answers(o, owed), NEW data, Publishable(data)
  PROVE  Answers(Published(o, Status, data), Append(owed, Item(PUBLISH, 0, data)))
<1>1. PUBLISH \in 0 .. 15 /\ PUBLISH # PINGRESP /\ data \in Seq(Byte)
  BY DEF PINGRESP, PUBLISH, Publishable
<1>2. PICK x \in Debt : /\ x = Item(PUBLISH, 0, data) /\ x.type = PUBLISH
                        /\ x.data = data /\ Own(x)
  BY <1>1, ItemIs, ZeroWord, SMTT(60)
<1>3. PICK n : n = Fresh(o.message_id) /\ IsWord(n)
  BY AnswersFresh
<1>4. PICK m : m = mqtt_msg_publish(Status, data, 1, 1, n) /\ m \in Offer /\ Fulfils(m, x, n)
  BY <1>2, <1>3, PublishFulfils
<1>5. m # << >>
  BY <1>4 DEF Offer
<1>6. Published(o, Status, data) = [message_id |-> n, offered |-> Append(o.offered, m)]
  BY <1>3, <1>4, <1>5, Zenon DEF Published
<1>7. Answers(Published(o, Status, data), Append(owed, x))
  <2>1. /\ Fulfils(m, x, Fresh(o.message_id))
        /\ Published(o, Status, data)
             = [message_id |-> Fresh(o.message_id), offered |-> Append(o.offered, m)]
    BY <1>3, <1>4, <1>6, Zenon
  <2> QED
    BY <1>2, <1>4, <2>1, OwnAnswers
<1> QED
  BY <1>2, <1>7, Zenon

LEMMA SubscribedAnswers ==
  ASSUME NEW o, NEW owed, Answers(o, owed), NEW topic \in Range(Subscriptions)
  PROVE  Answers(Subscribed(o, topic), Append(owed, Item(SUBSCRIBE, 0, << >>)))
<1>1. SUBSCRIBE \in 0 .. 15 /\ SUBSCRIBE # PINGRESP
  BY DEF PINGRESP, SUBSCRIBE
<1>2. PICK x \in Debt : x = Item(SUBSCRIBE, 0, << >>) /\ x.type = SUBSCRIBE /\ Own(x)
  BY <1>1, ItemIs, ZeroWord, ZenonT(60)
<1>3. PICK n : n = Fresh(o.message_id) /\ IsWord(n)
  BY AnswersFresh
<1>4. PICK m : m = mqtt_msg_subscribe(topic, 1, n) /\ m \in Offer /\ Fulfils(m, x, n)
  BY <1>2, <1>3, SubscribeFulfils
<1>6. Subscribed(o, topic) = [message_id |-> n, offered |-> Append(o.offered, m)]
  BY <1>3, <1>4, Zenon DEF Subscribed
<1>7. Answers(Subscribed(o, topic), Append(owed, x))
  <2>1. /\ Fulfils(m, x, Fresh(o.message_id))
        /\ Subscribed(o, topic)
             = [message_id |-> Fresh(o.message_id), offered |-> Append(o.offered, m)]
    BY <1>3, <1>4, <1>6, Zenon
  <2> QED
    BY <1>2, <1>4, <2>1, OwnAnswers
<1> QED
  BY <1>2, <1>7, Zenon

LEMMA PingAnswers ==
  ASSUME NEW o, NEW owed, Answers(o, owed)
  PROVE  Answers([o EXCEPT !.offered = Append(@, mqtt_msg_pingresp)],
                 Append(owed, Item(PINGRESP, 0, << >>)))
<1>1. PINGRESP \in 0 .. 15
  BY DEF PINGRESP
<1>2. PICK x \in Debt : /\ x = Item(PINGRESP, 0, << >>) /\ x.type = PINGRESP
                        /\ x.id = 0 /\ ~Own(x)
  BY <1>1, ItemIs, ZeroWord
<1>3. PICK m : m = mqtt_msg_pingresp /\ m \in Offer /\ Fulfils(m, x, 0)
  BY <1>2, PingFulfils
<1>4. PICK p : p = [message_id |-> o.message_id, offered |-> Append(o.offered, m)]
  OBVIOUS
<1>5. [o EXCEPT !.offered = Append(@, mqtt_msg_pingresp)] = p
  <2>1. o \in Outs
    BY AnswersFresh
  <2>2. [o EXCEPT !.offered = Append(@, m)]
          = [message_id |-> o.message_id, offered |-> Append(o.offered, m)]
    BY <2>1, SMTT(60) DEF Outs
  <2> QED
    BY <1>3, <1>4, <2>2, Zenon
<1>6. p = [message_id |-> IF Own(x) THEN Fresh(o.message_id) ELSE o.message_id,
           offered |-> Append(o.offered, m)]
  BY <1>2, <1>4, Zenon
<1>7. Fulfils(m, x, IF Own(x) THEN Fresh(o.message_id) ELSE x.id)
  BY <1>2, <1>3, Zenon
<1>8. Answers(p, Append(owed, x))
  BY <1>3, <1>6, <1>7, AnswersMore
<1> QED
  BY <1>2, <1>5, <1>8, Zenon

LEMMA JoinOne ==
  ASSUME NEW S, NEW s \in Seq(S), NEW t \in Seq(S), NEW x \in S
  PROVE  s \o Append(t, x) = Append(s \o t, x) /\ s \o <<x>> = Append(s, x) /\ s \o << >> = s
OBVIOUS

LEMMA ConnectedAnswers ==
  ASSUME NEW o, NEW owed, Answers(o, owed), NEW p, p.type = CONNACK
  PROVE  Owed(p) \in Seq(Debt) /\ Answers(mqttConnectedCb(o), owed \o Owed(p))
<1>0. PICK sub \in Debt : sub = Item(SUBSCRIBE, 0, << >>)
  <2>1. SUBSCRIBE \in 0 .. 15
    BY DEF SUBSCRIBE
  <2> QED
    BY <2>1, ItemIs, ZeroWord
<1>1. PICK c : SubscribedInTurn(c, o)
  BY AnswersFresh, SubscribesInTurn
<1>2. PICK n \in Nat : n = Len(Subscriptions) /\ DOMAIN Subscriptions = 1 .. n
  <2>1. PICK S : S = Seq(Byte)
    OBVIOUS
  <2>2. Subscriptions \in Seq(S)
    BY <2>1, ReceiveAssumption, Zenon
  <2> QED
    BY <2>2
<1>3. /\ c[0] = o /\ FoldLeft(Subscribed, o, Subscriptions) = c[n]
      /\ \A k \in 1 .. n : c[k] = Subscribed(c[k - 1], Subscriptions[k])
  BY <1>1, <1>2, Zenon DEF SubscribedInTurn
<1> DEFINE subs(k) == [j \in 1 .. k |-> sub]
<1>4. \A k \in 0 .. n : subs(k) \in Seq(Debt)
  OBVIOUS
<1>5. subs(0) = << >> /\ \A k \in 1 .. n : subs(k) = Append(subs(k - 1), sub)
  OBVIOUS
<1> DEFINE T == {k \in 0 .. n : Answers(c[k], owed \o subs(k))}
<1>a. owed \in Seq(Debt)
  BY AnswersFresh
<1> HIDE DEF subs
<1>6. 0 \in T
  <2>1. owed \o << >> = owed
    BY <1>a, ConcatEmptySeq
  <2>2. Answers(c[0], owed \o subs(0))
    BY <1>3, <1>5, <2>1, Zenon
  <2>3. 0 \in 0 .. n
    OBVIOUS
  <2> QED
    BY <2>2, <2>3
<1>7. ASSUME NEW k \in 1 .. n, k - 1 \in T PROVE k \in T
  <2>0. k - 1 \in 0 .. n /\ k \in 0 .. n
    OBVIOUS
  <2>1. PICK before \in Seq(Debt) : before = subs(k - 1)
    BY <1>4, <2>0
  <2>2. Answers(c[k - 1], owed \o before)
    BY <1>7, <2>1
  <2>3. Subscriptions[k] \in Range(Subscriptions)
    BY <1>2 DEF Range
  <2>4. Answers(c[k], Append(owed \o before, sub))
    <3>1. PICK b : b = c[k - 1] /\ Answers(b, owed \o before)
      BY <2>2, Zenon
    <3>2. PICK t : t = Subscriptions[k] /\ t \in Range(Subscriptions)
      BY <2>3, Zenon
    <3>3. Answers(Subscribed(b, t), Append(owed \o before, Item(SUBSCRIBE, 0, << >>)))
      BY <3>1, <3>2, SubscribedAnswers, Zenon
    <3>4. PICK d : d = Subscribed(b, t) /\ Answers(d, Append(owed \o before, sub))
      BY <1>0, <3>3, Zenon
    <3>5. c[k] = Subscribed(c[k - 1], Subscriptions[k])
      BY <1>3
    <3>6. c[k] = d
      BY <3>1, <3>2, <3>4, <3>5, Zenon
    <3> QED
      BY <3>4, <3>6, Zenon
  <2>5. Append(owed \o before, sub) = owed \o Append(before, sub)
    <3>1. owed \in Seq(Debt) /\ before \in Seq(Debt) /\ sub \in Debt
      BY <1>a
    <3>2. owed \o Append(before, sub) = Append(owed \o before, sub)
      BY <3>1
    <3> QED
      BY <3>2, Zenon
  <2>6. subs(k) = Append(before, sub)
    BY <1>5, <2>1
  <2>7. Answers(c[k], owed \o subs(k))
    BY <2>4, <2>5, <2>6, Zenon
  <2> QED
    BY <2>0, <2>7
<1>8. \A k \in 0 .. n : k \in T
  <2> HIDE DEF T
  <2> QED
    BY <1>6, <1>7, InductionTo
<1>9. Answers(c[n], owed \o subs(n)) /\ subs(n) \in Seq(Debt)
  <2>1. n \in 0 .. n
    OBVIOUS
  <2> QED
    BY <1>4, <1>8, <2>1
<1>10. Publishable(Version)
  BY ReceiveAssumption DEF Publishable
<1>11. PICK pub \in Debt : pub = Item(PUBLISH, 0, Version)
  <2>1. PUBLISH \in 0 .. 15 /\ Version \in Seq(Byte)
    BY <1>10 DEF PUBLISH, Publishable
  <2> QED
    BY <2>1, ItemIs, ZeroWord
<1>12. Answers(mqttConnectedCb(o), Append(owed \o subs(n), pub))
  <2>1. Answers(Published(c[n], Status, Version), Append(owed \o subs(n), pub))
    BY <1>9, <1>10, <1>11, PublishedAnswers
  <2> QED
    BY <1>3, <2>1, Zenon DEF mqttConnectedCb
<1>13. Owed(p) = subs(n) \o <<pub>>
  <2>1. Owed(p) = [j \in DOMAIN Subscriptions |-> Item(SUBSCRIBE, 0, << >>)]
                  \o <<Item(PUBLISH, 0, Version)>>
    BY DEF Owed, CONNACK, PUBLISH, PUBREC, PUBREL, PINGREQ
  <2> QED
    BY <1>0, <1>2, <1>11, <2>1, Zenon DEF subs
<1>14. Owed(p) = Append(subs(n), pub)
  BY <1>9, <1>13, JoinOne
<1>15. owed \o Owed(p) = Append(owed \o subs(n), pub)
  BY <1>a, <1>9, <1>14, JoinOne
<1>16. Owed(p) \in Seq(Debt)
  BY <1>9, <1>14
<1> QED
  BY <1>12, <1>15, <1>16, Zenon

-----------------------------------------------------------------------------
AckOf(p) ==
  CASE p.qos = 1 -> <<Item(PUBACK, p.id, << >>)>>
    [] p.qos = 2 -> <<Item(PUBREC, p.id, << >>)>>
    [] OTHER -> << >>

EchoOf(p) == IF p.topic = Command THEN <<Item(PUBLISH, 0, p.data)>> ELSE << >>

LEMMA OwedPublish ==
  ASSUME NEW p, p.type = PUBLISH
  PROVE  Owed(p) = AckOf(p) \o EchoOf(p)
BY DEF Owed, AckOf, EchoOf, CONNACK, PUBLISH, PUBREC, PUBREL, PINGREQ

LEMMA OwedOther ==
  ASSUME NEW p, p.type # CONNACK, p.type # PUBLISH
  PROVE  Owed(p) = IF p.type = PUBREC THEN <<Item(PUBREL, p.id, << >>)>>
                   ELSE IF p.type = PUBREL THEN <<Item(PUBCOMP, p.id, << >>)>>
                   ELSE IF p.type = PINGREQ THEN <<Item(PINGRESP, 0, << >>)>>
                   ELSE << >>
BY DEF Owed, CONNACK, PUBLISH, PUBREC, PUBREL, PINGREQ

LEMMA AcksTyped ==
  /\ PUBACK \in 0 .. 15 /\ PUBREC \in 0 .. 15 /\ PUBREL \in 0 .. 15
  /\ PUBCOMP \in 0 .. 15 /\ PUBLISH \in 0 .. 15 /\ PINGRESP \in 0 .. 15
BY DEF PUBACK, PUBREC, PUBREL, PUBCOMP, PUBLISH, PINGRESP

LEMMA AnswersOne ==
  ASSUME NEW o, NEW owed \in Seq(Debt), NEW x \in Debt, Answers(o, Append(owed, x))
  PROVE  Answers(o, owed \o <<x>>)
<1>1. owed \o <<x>> = Append(owed, x)
  BY JoinOne
<1> QED
  BY <1>1, Zenon

LEMMA AnswersNothing ==
  ASSUME NEW o, NEW owed, Answers(o, owed), NEW e, e = << >>
  PROVE  Answers(o, owed \o e)
<1>1. owed \in Seq(Debt)
  BY AnswersFresh
<1>2. owed \o e = owed
  BY <1>1
<1> QED
  BY <1>2, Zenon

LEMMA AckTyped ==
  ASSUME NEW p \in Sendable
  PROVE  /\ AckOf(p) \in Seq(Debt)
         /\ p.type = PUBLISH => EchoOf(p) \in Seq(Debt)
<1>1. Sound(p)
  BY SendableSound
<1>2. IsWord(p.id)
  BY <1>1, WordBytesLetters DEF Sound
<1>3. Item(PUBACK, p.id, << >>) \in Debt /\ Item(PUBREC, p.id, << >>) \in Debt
  BY <1>2, AcksTyped, ItemIs, ZeroWord
<1>4. p.data \in Seq(Byte)
  BY <1>1, LetterIsByte DEF Sound
<1>5. Item(PUBLISH, 0, p.data) \in Debt
  BY <1>4, AcksTyped, ItemIs, ZeroWord
<1>6. << >> \in Seq(Debt)
  BY EmptyIn
<1>7. AckOf(p) \in Seq(Debt)
  <2>1. CASE p.qos = 1
    <3>1. AckOf(p) = <<Item(PUBACK, p.id, << >>)>>
      BY <2>1 DEF AckOf
    <3> QED
      BY <1>3, <3>1, OneIn
  <2>2. CASE p.qos = 2
    <3>1. AckOf(p) = <<Item(PUBREC, p.id, << >>)>>
      BY <2>2 DEF AckOf
    <3> QED
      BY <1>3, <3>1, OneIn
  <2>3. CASE p.qos # 1 /\ p.qos # 2
    <3>1. AckOf(p) = << >>
      BY <2>3 DEF AckOf
    <3> QED
      BY <1>6, <3>1
  <2> QED
    BY <2>1, <2>2, <2>3
<1>8. EchoOf(p) \in Seq(Debt)
  <2>1. CASE p.topic = Command
    <3>1. EchoOf(p) = <<Item(PUBLISH, 0, p.data)>>
      BY <2>1 DEF EchoOf
    <3> QED
      BY <1>5, <3>1, OneIn
  <2>2. CASE p.topic # Command
    <3>1. EchoOf(p) = << >>
      BY <2>2 DEF EchoOf
    <3> QED
      BY <1>6, <3>1
  <2> QED
    BY <2>1, <2>2
<1> QED
  BY <1>7, <1>8

LEMMA OwedTyped ==
  ASSUME NEW p \in Sendable
  PROVE  Owed(p) \in Seq(Debt)
<1>1. Sound(p)
  BY SendableSound
<1>2. CASE p.type = CONNACK
  <2>1. Answers([message_id |-> 0, offered |-> << >>], << >>)
    BY AnswersNone
  <2> QED
    BY <1>2, <2>1, ConnectedAnswers
<1>3. CASE p.type = PUBLISH
  <2>1. AckOf(p) \in Seq(Debt) /\ EchoOf(p) \in Seq(Debt)
    BY <1>3, AckTyped
  <2>2. AckOf(p) \o EchoOf(p) \in Seq(Debt)
    BY <2>1
  <2> QED
    BY <1>3, <2>2, OwedPublish
<1>4. CASE p.type # CONNACK /\ p.type # PUBLISH
  <2>1. IsWord(p.id)
    BY <1>1, WordBytesLetters DEF Sound
  <2>2. /\ Item(PUBREL, p.id, << >>) \in Debt /\ Item(PUBCOMP, p.id, << >>) \in Debt
        /\ Item(PINGRESP, 0, << >>) \in Debt
    BY <2>1, AcksTyped, ItemIs, ZeroWord
  <2>3. /\ <<Item(PUBREL, p.id, << >>)>> \in Seq(Debt)
        /\ <<Item(PUBCOMP, p.id, << >>)>> \in Seq(Debt)
        /\ <<Item(PINGRESP, 0, << >>)>> \in Seq(Debt) /\ << >> \in Seq(Debt)
    BY <2>2, OneIn, EmptyIn
  <2> QED
    BY <1>4, <2>3, OwedOther
<1> QED
  BY <1>2, <1>3, <1>4

LEMMA GivenTyped ==
  ASSUME NEW p \in Sendable
  PROVE  Given(p) \in Seq(Delivery)
<1>1. Sound(p)
  BY SendableSound
<1>2. p.topic \in Seq(Byte) /\ p.data \in Seq(Byte)
  BY <1>1, LetterIsByte DEF Sound
<1>3. [topic |-> p.topic, data |-> p.data, whole |-> TRUE] \in Delivery
  BY <1>2 DEF Delivery
<1> QED
  BY <1>3, OneIn, EmptyIn DEF Given

LEMMA AnswerAnswers ==
  ASSUME NEW o, NEW owed, Answers(o, owed), NEW p \in Sendable,
         NEW id, p.qos > 0 => id = p.id
  PROVE  Answers(Answer(o, p.qos, id), owed \o AckOf(p))
<1>1. Sound(p)
  BY SendableSound
<1>2. IsWord(p.id) /\ p.qos \in 0 .. 2
  BY <1>1, WordBytesLetters DEF Sound
<1>3. owed \in Seq(Debt)
  BY AnswersFresh
<1>4. /\ Item(PUBACK, p.id, << >>) \in Debt /\ Item(PUBREC, p.id, << >>) \in Debt
  BY <1>2, AcksTyped, ItemIs, ZeroWord
<1>5. CASE p.qos = 1
  <2>1. /\ AckOf(p) = <<Item(PUBACK, p.id, << >>)>>
        /\ Answer(o, p.qos, id) = Replied(o, PUBACK, id)
    BY <1>5 DEF AckOf, Answer
  <2>2. id = p.id
    BY <1>5
  <2>3. Answers(Replied(o, PUBACK, p.id), Append(owed, Item(PUBACK, p.id, << >>)))
    BY <1>2, RepliedAnswers
  <2>4. Answers(Replied(o, PUBACK, p.id), owed \o <<Item(PUBACK, p.id, << >>)>>)
    BY <1>3, <1>4, <2>3, AnswersOne
  <2> QED
    BY <2>1, <2>2, <2>4, Zenon
<1>6. CASE p.qos = 2
  <2>1. /\ AckOf(p) = <<Item(PUBREC, p.id, << >>)>>
        /\ Answer(o, p.qos, id) = Replied(o, PUBREC, id)
    BY <1>6 DEF AckOf, Answer
  <2>2. id = p.id
    BY <1>6
  <2>3. Answers(Replied(o, PUBREC, p.id), Append(owed, Item(PUBREC, p.id, << >>)))
    BY <1>2, RepliedAnswers
  <2>4. Answers(Replied(o, PUBREC, p.id), owed \o <<Item(PUBREC, p.id, << >>)>>)
    BY <1>3, <1>4, <2>3, AnswersOne
  <2> QED
    BY <2>1, <2>2, <2>4, Zenon
<1>7. CASE p.qos = 0
  <2>1. AckOf(p) = << >> /\ Answer(o, p.qos, id) = o
    BY <1>7 DEF AckOf, Answer
  <2>2. Answers(o, owed \o AckOf(p))
    BY <2>1, AnswersNothing
  <2> QED
    BY <2>1, <2>2, Zenon
<1> QED
  BY <1>2, <1>5, <1>6, <1>7

LEMMA CommandPublishable ==
  ASSUME NEW p \in Sendable, p.type = PUBLISH, p.topic = Command
  PROVE  Publishable(p.data)
<1>1. p # Accepted
  BY DEF Accepted, CONNACK, PUBLISH
<1>2. p \in Packets
  BY <1>1 DEF Sendable
<1>3. p.data \in {Version} \cup {x.data : x \in {q \in Packets : q.topic = Command}}
  BY <1>2
<1> QED
  BY <1>3, ReceiveAssumption DEF Publishable

(* What RecvPublish makes of out.                                          *)
LEMMA PublishHandled ==
  ASSUME NEW o, NEW owed, Answers(o, owed), NEW p \in Sendable, p.type = PUBLISH,
         NEW id, p.qos > 0 => id = p.id
  PROVE  Answers(IF p.topic = Command THEN Published(Answer(o, p.qos, id), Status, p.data)
                 ELSE Answer(o, p.qos, id),
                 owed \o Owed(p))
<1>1. PICK a : a = AckOf(p) /\ a \in Seq(Debt)
  BY AckTyped
<1>2. PICK e : e = EchoOf(p) /\ e \in Seq(Debt)
  BY AckTyped
<1>3. PICK r : r = Answer(o, p.qos, id) /\ Answers(r, owed \o a)
  <2>1. Answers(Answer(o, p.qos, id), owed \o AckOf(p))
    BY AnswerAnswers
  <2> QED
    BY <1>1, <2>1, Zenon
<1>4. owed \in Seq(Debt) /\ owed \o a \in Seq(Debt)
  BY <1>3, AnswersFresh
<1>5. (owed \o a) \o e = owed \o Owed(p)
  <2>1. Joined(Joined(owed, a), e) = Joined(owed, Joined(a, e))
    BY <1>1, <1>2, <1>4, ThreeJoined
  <2>2. Owed(p) = a \o e
    BY <1>1, <1>2, OwedPublish, Zenon
  <2> QED
    BY <2>1, <2>2, Zenon DEF Joined
<1>6. CASE p.topic = Command
  <2>1. Publishable(p.data)
    BY <1>6, CommandPublishable
  <2>2. PICK x : x = Item(PUBLISH, 0, p.data) /\ x \in Debt /\ e = <<x>>
    <3>1. p.data \in Seq(Byte)
      BY <2>1 DEF Publishable
    <3>2. Item(PUBLISH, 0, p.data) \in Debt
      BY <3>1, AcksTyped, ItemIs, ZeroWord
    <3>3. e = <<Item(PUBLISH, 0, p.data)>>
      BY <1>2, <1>6 DEF EchoOf
    <3> QED
      BY <3>2, <3>3
  <2>3. Answers(Published(r, Status, p.data), Append(owed \o a, x))
    <3>1. Answers(Published(r, Status, p.data), Append(owed \o a, Item(PUBLISH, 0, p.data)))
      BY <1>3, <2>1, PublishedAnswers
    <3> QED
      BY <2>2, <3>1, Zenon
  <2>4. Answers(Published(r, Status, p.data), (owed \o a) \o e)
    <3>1. Answers(Published(r, Status, p.data), (owed \o a) \o <<x>>)
      BY <1>4, <2>2, <2>3, AnswersOne
    <3> QED
      BY <2>2, <3>1, Zenon
  <2>5. Answers(Published(r, Status, p.data), owed \o Owed(p))
    BY <1>5, <2>4, Zenon
  <2> QED
    BY <1>3, <1>6, <2>5, Zenon
<1>7. CASE p.topic # Command
  <2>1. e = << >>
    BY <1>2, <1>7 DEF EchoOf
  <2>2. Answers(r, (owed \o a) \o e)
    BY <1>3, <2>1, AnswersNothing
  <2>3. Answers(r, owed \o Owed(p))
    BY <1>5, <2>2, Zenon
  <2> QED
    BY <1>3, <1>7, <2>3, Zenon
<1> QED
  BY <1>6, <1>7

(* What RecvOther makes of out.                                            *)
LEMMA OtherHandled ==
  ASSUME NEW o, NEW owed, Answers(o, owed), NEW p \in Sendable, p.type # PUBLISH,
         p.type # CONNACK, NEW id, p.type \in {PUBREC, PUBREL} => id = p.id
  PROVE  Answers(CASE p.type = PUBREC -> Replied(o, PUBREL, id)
                   [] p.type = PUBREL -> Replied(o, PUBCOMP, id)
                   [] p.type = PINGREQ ->
                        [o EXCEPT !.offered = Append(@, mqtt_msg_pingresp)]
                   [] OTHER -> o,
                 owed \o Owed(p))
<1>1. Sound(p)
  BY SendableSound
<1>2. IsWord(p.id)
  BY <1>1, WordBytesLetters DEF Sound
<1>3. owed \in Seq(Debt)
  BY AnswersFresh
<1>4. /\ Item(PUBREL, p.id, << >>) \in Debt /\ Item(PUBCOMP, p.id, << >>) \in Debt
      /\ Item(PINGRESP, 0, << >>) \in Debt
  BY <1>2, AcksTyped, ItemIs, ZeroWord
<1>5. PICK r : r = (CASE p.type = PUBREC -> Replied(o, PUBREL, id)
                   [] p.type = PUBREL -> Replied(o, PUBCOMP, id)
                   [] p.type = PINGREQ ->
                        [o EXCEPT !.offered = Append(@, mqtt_msg_pingresp)]
                   [] OTHER -> o)
  OBVIOUS
<1>6. CASE p.type = PUBREC
  <2>1. r = Replied(o, PUBREL, p.id)
    BY <1>5, <1>6 DEF PUBREC, PUBREL, PINGREQ
  <2>2. Owed(p) = <<Item(PUBREL, p.id, << >>)>>
    BY <1>6, OwedOther
  <2>3. Answers(Replied(o, PUBREL, p.id), Append(owed, Item(PUBREL, p.id, << >>)))
    BY <1>2, RepliedAnswers
  <2>4. Answers(Replied(o, PUBREL, p.id), owed \o <<Item(PUBREL, p.id, << >>)>>)
    BY <1>3, <1>4, <2>3, AnswersOne
  <2> QED
    BY <1>5, <2>1, <2>2, <2>4, Zenon
<1>7. CASE p.type = PUBREL
  <2>1. r = Replied(o, PUBCOMP, p.id)
    BY <1>5, <1>7 DEF PUBREC, PUBREL, PINGREQ
  <2>2. Owed(p) = <<Item(PUBCOMP, p.id, << >>)>>
    BY <1>7, OwedOther DEF PUBREC, PUBREL
  <2>3. Answers(Replied(o, PUBCOMP, p.id), Append(owed, Item(PUBCOMP, p.id, << >>)))
    BY <1>2, RepliedAnswers
  <2>4. Answers(Replied(o, PUBCOMP, p.id), owed \o <<Item(PUBCOMP, p.id, << >>)>>)
    BY <1>3, <1>4, <2>3, AnswersOne
  <2> QED
    BY <1>5, <2>1, <2>2, <2>4, Zenon
<1>8. CASE p.type = PINGREQ
  <2>1. r = [o EXCEPT !.offered = Append(@, mqtt_msg_pingresp)]
    BY <1>5, <1>8 DEF PUBREC, PUBREL, PINGREQ
  <2>2. Owed(p) = <<Item(PINGRESP, 0, << >>)>>
    BY <1>8, OwedOther DEF PUBREC, PUBREL, PINGREQ
  <2>3. Answers([o EXCEPT !.offered = Append(@, mqtt_msg_pingresp)],
                Append(owed, Item(PINGRESP, 0, << >>)))
    BY PingAnswers
  <2>4. Answers(r, Append(owed, Item(PINGRESP, 0, << >>)))
    BY <2>1, <2>3, Zenon
  <2>5. Answers(r, owed \o <<Item(PINGRESP, 0, << >>)>>)
    BY <1>3, <1>4, <2>4, AnswersOne
  <2> QED
    BY <1>5, <2>2, <2>5, Zenon
<1>9. CASE p.type # PUBREC /\ p.type # PUBREL /\ p.type # PINGREQ
  <2>1. r = o
    BY <1>5, <1>9
  <2>2. Owed(p) = << >>
    BY <1>9, OwedOther
  <2>3. Answers(o, owed \o Owed(p))
    BY <2>2, AnswersNothing
  <2> QED
    BY <1>5, <2>1, <2>3, Zenon
<1> QED
  BY <1>6, <1>7, <1>8, <1>9

-----------------------------------------------------------------------------
(* What the client is to act on, packet by packet.                         *)
Stop(packets) ==
  Min({j \in DOMAIN packets : packets[j].type # PUBLISH} \cup {Len(packets)})

Acts(state, packets, length) ==
  IF length >= BufferLength THEN << >>
  ELSE IF state = "MQTT_CONNECT_SENDING"
  THEN IF packets # << >> /\ packets[1].type = CONNACK THEN <<packets[1]>>
       ELSE << >>
  ELSE SubSeq(packets, 1, Stop(packets))

LEMMA ActsOnIs ==
  ASSUME NEW packets, NEW length
  PROVE  ActsOn(packets, length) = Acts(connState, packets, length)
BY DEF ActsOn, Acts, Stop

LEMMA ActsNone ==
  ASSUME NEW state, NEW packets, NEW length, length >= BufferLength
  PROVE  Acts(state, packets, length) = << >>
BY DEF Acts

LEMMA ActsConnecting ==
  ASSUME NEW packets, NEW length, ~(length >= BufferLength)
  PROVE  Acts("MQTT_CONNECT_SENDING", packets, length)
           = IF packets # << >> /\ packets[1].type = CONNACK THEN <<packets[1]>>
             ELSE << >>
BY DEF Acts

LEMMA ActsData ==
  ASSUME NEW state, state # "MQTT_CONNECT_SENDING", NEW packets, NEW length,
         ~(length >= BufferLength)
  PROVE  Acts(state, packets, length) = SubSeq(packets, 1, Stop(packets))
BY DEF Acts

LEMMA StopIs ==
  ASSUME NEW q \in Seq(Sendable), NEW n \in Nat, n = Len(q)
  PROVE  /\ Stop(q) \in 0 .. n
         /\ Stop(q) = n \/ (Stop(q) \in 1 .. n /\ q[Stop(q)].type # PUBLISH)
         /\ \A j \in 1 .. n : q[j].type # PUBLISH => Stop(q) <= j
<1> DEFINE T == {j \in 1 .. n : q[j].type # PUBLISH}
<1>1. DOMAIN q = 1 .. n
  OBVIOUS
<1>2. Stop(q) = Min(T \cup {n})
  BY <1>1, Zenon DEF Stop
<1>3. T \in SUBSET (1 .. n)
  OBVIOUS
<1>4. /\ Min(T \cup {n}) \in 0 .. n /\ Min(T \cup {n}) \in T \cup {n}
      /\ \A j \in T : Min(T \cup {n}) <= j
  <2> HIDE DEF T
  <2> QED
    BY <1>3, LeastAt
<1> QED
  BY <1>2, <1>4

LEMMA ActsEmpty ==
  ASSUME NEW state
  PROVE  Acts(state, << >>, 0) = << >>
<1>1. ~(0 >= BufferLength)
  BY Buffer
<1>2. CASE state = "MQTT_CONNECT_SENDING"
  BY <1>1, <1>2, ActsConnecting
<1>3. CASE state # "MQTT_CONNECT_SENDING"
  <2>1. PICK q \in Seq(Sendable) : q = << >>
    BY EmptyIn
  <2>2. PICK n \in Nat : n = Len(q) /\ n = 0
    BY <2>1
  <2>3. Stop(q) \in 0 .. n
    BY <2>2, StopIs
  <2>4. Stop(q) = 0
    BY <2>2, <2>3
  <2>5. Acts(state, q, 0) = SubSeq(q, 1, 0)
    BY <1>1, <1>3, <2>4, ActsData
  <2>6. SubSeq(q, 1, 0) = << >>
    BY <2>1
  <2> QED
    BY <2>1, <2>5, <2>6, Zenon
<1> QED
  BY <1>2, <1>3

(* The start of a sequence, taken apart.                                   *)
LEMMA FirstOf ==
  ASSUME NEW V, NEW n \in Nat, NEW q \in Seq(V), Len(q) = n + 1, NEW m \in 0 .. n
  PROVE  SubSeq(q, 1, m + 1) = <<q[1]>> \o SubSeq(Tail(q), 1, m)
<1>a. /\ Tail(q) \in Seq(V) /\ Len(Tail(q)) = n
      /\ \A j \in 1 .. n : Tail(q)[j] = q[j + 1]
  BY TailIs
<1>1. PICK t \in Seq(V) : /\ t = Tail(q) /\ Len(t) = n
                          /\ \A j \in 1 .. n : t[j] = q[j + 1]
  BY <1>a, Zenon
<1>2. PICK x \in V : x = q[1]
  OBVIOUS
<1>3. PICK s : s = SubSeq(t, 1, m)
  OBVIOUS
<1>4. s \in Seq(V) /\ Len(s) = m /\ \A j \in 1 .. m : s[j] = t[j]
  BY <1>1, <1>3
<1>5. PICK w : w = <<x>> \o s
  OBVIOUS
<1>6. /\ w \in Seq(V) /\ Len(w) = m + 1 /\ w[1] = x
      /\ \A j \in 1 .. m : w[j + 1] = s[j]
  BY <1>4, <1>5
<1>7. PICK u : u = SubSeq(q, 1, m + 1)
  OBVIOUS
<1>8. u \in Seq(V) /\ Len(u) = m + 1 /\ \A j \in 1 .. m + 1 : u[j] = q[j]
  BY <1>7, SMTT(60)
<1>9. ASSUME NEW j \in 1 .. m + 1 PROVE u[j] = w[j]
  <2>1. CASE j = 1
    BY <1>2, <1>6, <1>8, <2>1
  <2>2. CASE j # 1
    <3>1. PICK i \in 1 .. m : j = i + 1
      <4>1. j - 1 \in 1 .. m /\ j = (j - 1) + 1
        BY <2>2
      <4> QED
        BY <4>1
    <3>2. i \in 1 .. n
      OBVIOUS
    <3>3. w[i + 1] = q[i + 1]
      BY <1>1, <1>4, <1>6, <3>1, <3>2
    <3> QED
      BY <1>8, <3>1, <3>3
  <2> QED
    BY <2>1, <2>2
<1>10. u = w
  BY <1>6, <1>8, <1>9
<1> QED
  BY <1>1, <1>2, <1>3, <1>5, <1>7, <1>10, Zenon

LEMMA LongerBy ==
  ASSUME NEW V, NEW q \in Seq(V), q # << >>
  PROVE  \E n \in Nat : Len(q) = n + 1
<1>1. Len(q) - 1 \in Nat /\ Len(q) = (Len(q) - 1) + 1
  OBVIOUS
<1> QED
  BY <1>1

LEMMA ActsPublish ==
  ASSUME NEW state, state # "MQTT_CONNECT_SENDING",
         NEW q \in Seq(Sendable), q # << >>, q[1].type = PUBLISH,
         NEW length, ~(length >= BufferLength), NEW rest, ~(rest >= BufferLength)
  PROVE  /\ Acts(state, q, length) = <<q[1]>> \o Acts(state, Tail(q), rest)
         /\ Acts(state, Tail(q), rest) \in Seq(Sendable)
<1>1. PICK n \in Nat : Len(q) = n + 1
  BY LongerBy
<1>a. /\ Tail(q) \in Seq(Sendable) /\ Len(Tail(q)) = n
      /\ \A j \in 1 .. n : Tail(q)[j] = q[j + 1]
  BY <1>1, TailIs
<1>2. PICK t \in Seq(Sendable) : /\ t = Tail(q) /\ Len(t) = n
                                 /\ \A j \in 1 .. n : t[j] = q[j + 1]
  BY <1>a, Zenon
<1>3. PICK a : a = Stop(q)
  OBVIOUS
<1>4. PICK b : b = Stop(t)
  OBVIOUS
<1>5. /\ a \in 0 .. n + 1
      /\ a = n + 1 \/ (a \in 1 .. n + 1 /\ q[a].type # PUBLISH)
      /\ \A j \in 1 .. n + 1 : q[j].type # PUBLISH => a <= j
  <2>1. n + 1 \in Nat
    OBVIOUS
  <2> QED
    BY <1>1, <1>3, <2>1, StopIs
<1>6. /\ b \in 0 .. n
      /\ b = n \/ (b \in 1 .. n /\ t[b].type # PUBLISH)
      /\ \A j \in 1 .. n : t[j].type # PUBLISH => b <= j
  BY <1>2, <1>4, StopIs
<1>7. a <= b + 1
  <2>1. CASE b = n
    BY <1>5, <2>1
  <2>2. CASE b \in 1 .. n /\ t[b].type # PUBLISH
    <3>1. q[b + 1].type # PUBLISH /\ b + 1 \in 1 .. n + 1
      BY <1>2, <2>2
    <3> QED
      BY <1>5, <3>1
  <2> QED
    BY <1>6, <2>1, <2>2
<1>8. b + 1 <= a
  <2>1. CASE a = n + 1
    BY <1>6, <2>1
  <2>2. CASE a \in 1 .. n + 1 /\ q[a].type # PUBLISH
    <3>1. PICK c \in 1 .. n : a = c + 1
      <4>1. a # 1
        BY <2>2
      <4>2. a - 1 \in 1 .. n /\ a = (a - 1) + 1
        BY <2>2, <4>1
      <4> QED
        BY <4>2
    <3>2. t[c].type # PUBLISH
      BY <1>2, <2>2, <3>1
    <3> QED
      BY <1>6, <3>1, <3>2
  <2> QED
    BY <1>5, <2>1, <2>2
<1>9. a = b + 1 /\ b \in 0 .. n
  BY <1>5, <1>6, <1>7, <1>8
<1>10. SubSeq(q, 1, b + 1) = <<q[1]>> \o SubSeq(t, 1, b)
  <2>1. b \in 0 .. n
    BY <1>9
  <2>2. SubSeq(q, 1, b + 1) = <<q[1]>> \o SubSeq(Tail(q), 1, b)
    BY <1>1, <2>1, FirstOf
  <2> QED
    BY <1>2, <2>2, Zenon
<1>11. Acts(state, q, length) = SubSeq(q, 1, b + 1)
  BY <1>3, <1>9, ActsData, Zenon
<1>12. Acts(state, t, rest) = SubSeq(t, 1, b)
  BY <1>4, ActsData, Zenon
<1>13. SubSeq(t, 1, b) \in Seq(Sendable)
  BY <1>2, <1>9
<1> QED
  BY <1>2, <1>10, <1>11, <1>12, <1>13, Zenon

LEMMA ActsOther ==
  ASSUME NEW state, state # "MQTT_CONNECT_SENDING",
         NEW q \in Seq(Sendable), q # << >>, q[1].type # PUBLISH,
         NEW length, ~(length >= BufferLength)
  PROVE  Acts(state, q, length) = <<q[1]>>
<1>1. PICK n \in Nat : Len(q) = n + 1
  BY LongerBy
<1>2. PICK a : a = Stop(q)
  OBVIOUS
<1>3. /\ a \in 0 .. n + 1
      /\ a = n + 1 \/ (a \in 1 .. n + 1 /\ q[a].type # PUBLISH)
      /\ \A j \in 1 .. n + 1 : q[j].type # PUBLISH => a <= j
  <2>1. n + 1 \in Nat
    OBVIOUS
  <2> QED
    BY <1>1, <1>2, <2>1, StopIs
<1>4. a = 1
  <2>1. a <= 1
    <3>1. 1 \in 1 .. n + 1
      OBVIOUS
    <3> QED
      BY <1>3, <3>1
  <2>2. a >= 1
    BY <1>3
  <2> QED
    BY <1>3, <2>1, <2>2
<1>5. Acts(state, q, length) = SubSeq(q, 1, 1)
  <2>1. Stop(q) = 1
    BY <1>2, <1>4
  <2>2. Acts(state, q, length) = SubSeq(q, 1, Stop(q))
    BY ActsData, Zenon
  <2> QED
    BY <2>1, <2>2, Zenon
<1>6. SubSeq(q, 1, 1) = <<q[1]>>
  <2>1. PICK x : x = q[1]
    OBVIOUS
  <2>2. PICK s : s = SubSeq(q, 1, 1)
    OBVIOUS
  <2>3. s \in Seq(Sendable) /\ Len(s) = 1 /\ s[1] = x
    BY <1>1, <2>1, <2>2
  <2>4. s = <<x>>
    BY <2>3
  <2> QED
    BY <2>1, <2>2, <2>4, Zenon
<1> QED
  BY <1>5, <1>6, Zenon

-----------------------------------------------------------------------------
(* What has been handled, and what is still in pdata.                      *)
Gifts == [p \in Sendable |-> Given(p)]
Debts == [p \in Sendable |-> Owed(p)]

LEMMA GiftsAre ==
  /\ Gifts \in [Sendable -> Seq(Delivery)] /\ Debts \in [Sendable -> Seq(Debt)]
  /\ \A p \in Sendable : Gifts[p] = Given(p) /\ Debts[p] = Owed(p)
BY GivenTyped, OwedTyped DEF Gifts, Debts

Handled(d, o, done) ==
  /\ done \in Seq(Sendable) /\ d = Each(Gifts, done) /\ Answers(o, Each(Debts, done))

LEMMA HandledNone ==
  Handled(<< >>, [message_id |-> 0, offered |-> << >>], << >>)
<1>1. << >> \in Seq(Sendable)
  BY EmptyIn
<1>2. Each(Gifts, << >>) = << >> /\ Each(Debts, << >>) = << >>
  BY EachEmpty
<1> QED
  BY <1>1, <1>2, AnswersNone, Zenon DEF Handled

LEMMA HandledMore ==
  ASSUME NEW d, NEW o, NEW done, Handled(d, o, done), NEW p \in Sendable,
         NEW e, e = d \o Given(p), NEW r,
         Answers(r, Each(Debts, done) \o Owed(p))
  PROVE  Handled(e, r, Append(done, p))
<1>1. done \in Seq(Sendable) /\ d = Each(Gifts, done)
  BY DEF Handled
<1>2. Append(done, p) \in Seq(Sendable)
  BY <1>1
<1>3. Each(Gifts, Append(done, p)) = Each(Gifts, done) \o Gifts[p]
  BY <1>1, GiftsAre, EachMore, ZenonT(60)
<1>4. Each(Debts, Append(done, p)) = Each(Debts, done) \o Debts[p]
  BY <1>1, GiftsAre, EachMore, ZenonT(60)
<1>5. Gifts[p] = Given(p) /\ Debts[p] = Owed(p)
  BY GiftsAre
<1>6. e = Each(Gifts, Append(done, p))
  BY <1>1, <1>3, <1>5, Zenon
<1>7. Answers(r, Each(Debts, Append(done, p)))
  BY <1>4, <1>5, Zenon
<1> QED
  BY <1>2, <1>6, <1>7, Zenon DEF Handled

LEMMA HandledAnswers ==
  ASSUME NEW d, NEW o, NEW done, Handled(d, o, done)
  PROVE  /\ done \in Seq(Sendable) /\ Answers(o, Each(Debts, done))
         /\ d \in Seq(Delivery) /\ d = Each(Gifts, done)
<1>1. done \in Seq(Sendable) /\ Answers(o, Each(Debts, done)) /\ d = Each(Gifts, done)
  BY DEF Handled
<1>2. Each(Gifts, done) \in Seq(Delivery)
  BY <1>1, GiftsAre, EachRow
<1> QED
  BY <1>1, <1>2, Zenon

(* The packets still to be handled, q, and those handled so far, done.     *)
Story(state, s, r, d, o, q, done) ==
  /\ Handled(d, o, done)
  /\ q \in Seq(Sendable) /\ s = Bytes(q)
  /\ r = done \o Acts(state, q, Len(s))
  /\ state = "MQTT_DATA" => \A j \in 1 .. Len(q) : q[j].type # CONNACK

StoryIs(state, s, r, d, o) == \E q, done : Story(state, s, r, d, o, q, done)

(* Nothing is left: all that was to be acted on has been.                  *)
LEMMA StoryEnds ==
  ASSUME NEW state, NEW d, NEW o, NEW r, Handled(d, o, r)
  PROVE  StoryIs(state, << >>, r, d, o)
<1>1. PICK q : q = << >>
  OBVIOUS
<1>2. q \in Seq(Sendable) /\ 1 .. Len(q) = {} /\ Len(q) = 0
  BY <1>1
<1>3. Bytes(q) = << >>
  BY <1>1, BytesEmpty
<1>4. Acts(state, q, 0) = << >>
  BY <1>1, ActsEmpty
<1>5. r \in Seq(Sendable)
  BY HandledAnswers
<1>6. r = r \o << >>
  BY <1>5
<1>7. \A j \in 1 .. Len(q) : q[j].type # CONNACK
  BY <1>2
<1>8. r = r \o Acts(state, q, Len(<< >>))
  <2>1. Len(<< >>) = 0
    OBVIOUS
  <2> QED
    BY <1>4, <1>6, <2>1, Zenon
<1>9. Story(state, << >>, r, d, o, q, r)
  BY <1>2, <1>3, <1>7, <1>8, Zenon DEF Story
<1> QED
  BY <1>9, Zenon DEF StoryIs

LEMMA StoryOver ==
  ASSUME NEW state, NEW d, NEW o, NEW r, StoryIs(state, << >>, r, d, o)
  PROVE  Handled(d, o, r)
<1>1. PICK q, done : Story(state, << >>, r, d, o, q, done)
  BY Zenon DEF StoryIs
<1>2. /\ Handled(d, o, done) /\ q \in Seq(Sendable) /\ << >> = Bytes(q)
      /\ r = done \o Acts(state, q, Len(<< >>))
  BY <1>1, Zenon DEF Story
<1>3. q = << >>
  <2> SUFFICES ASSUME q # << >> PROVE FALSE
    OBVIOUS
  <2>1. /\ q[1] \in Sendable /\ Tail(q) \in Seq(Sendable)
        /\ Bytes(q) = Encode(q[1]) \o Bytes(Tail(q))
    BY <1>2, BytesIs
  <2>2. PICK a \in Seq(Byte) : a = Encode(q[1]) /\ Len(a) > 0
    BY <2>1, EncodeGood DEF Good
  <2>3. PICK b \in Seq(Byte) : b = Bytes(Tail(q))
    BY <2>1, BytesIs
  <2>4. a \o b # << >>
    BY <2>2, <2>3
  <2>5. << >> = a \o b
    BY <1>2, <2>1, <2>2, <2>3, Zenon
  <2> QED
    BY <2>4, <2>5, Zenon
<1>4. Len(<< >>) = 0
  OBVIOUS
<1>5. r = done \o << >>
  BY <1>2, <1>3, <1>4, ActsEmpty, Zenon
<1>6. done \in Seq(Sendable)
  BY <1>2, HandledAnswers
<1>7. r = done
  BY <1>5, <1>6
<1> QED
  BY <1>2, <1>7, Zenon

(* The first of the packets in s, as it lies in the buffer.                *)
LEMMA StoryFirst ==
  ASSUME NEW s \in Seq(Byte), s # << >>, NEW q \in Seq(Sendable), s = Bytes(q),
         NEW buf, Begins(buf, s), Len(buf) = BufferLength
  PROVE  /\ q # << >> /\ q[1] \in Sendable /\ Tail(q) \in Seq(Sendable)
         /\ Len(Encode(q[1])) \in Nat /\ Len(Encode(q[1])) <= Len(s)
         /\ Shows(buf, Len(s), Encode(q[1]))
         /\ Shows(buf, BufferLength, Encode(q[1]))
         /\ SubSeq(s, Len(Encode(q[1])) + 1, Len(s)) = Bytes(Tail(q))
<1>1. Opens(s, q)
  <2>1. s = s \o << >> /\ << >> \in Seq(Byte)
    OBVIOUS
  <2>2. Bytes(q) = s \o << >>
    BY <2>1, Zenon
  <2> QED
    BY <2>1, <2>2, Zenon DEF Opens
<1>2. /\ q # << >> /\ q[1] \in Sendable /\ Tail(q) \in Seq(Sendable)
      /\ Shows(buf, Len(s), Encode(q[1]))
  BY <1>1, OpensShows
<1>3. PICK e \in Seq(Byte) : e = Encode(q[1]) /\ Len(e) > 0
  BY <1>2, EncodeGood DEF Good
<1>4. PICK b \in Seq(Byte) : b = Bytes(Tail(q))
  BY <1>2, BytesIs
<1>5. s = e \o b
  BY <1>2, <1>3, <1>4, BytesIs
<1>6. PICK l \in Nat : l = Len(e) /\ l <= Len(s)
  BY <1>3, <1>4, <1>5
<1>7. SubSeq(s, l + 1, Len(s)) = Bytes(Tail(q))
  BY <1>1, <1>2, <1>3, <1>6, OpensBehind
<1>8. Shows(buf, BufferLength, e)
  <2>1. buf \in Seq(Nat) /\ BufferLength \in 1 .. Len(buf)
    <3>1. buf \in Seq(Byte)
      BY DEF Begins
    <3>2. buf \in Seq(Nat)
      BY <3>1, ByteIsNat
    <3> QED
      BY <3>2, Buffer
  <2>2. \A i \in 1 .. Len(s) : i <= l => buf[i] = e[i]
    BY <1>2, <1>3, <1>6 DEF Shows
  <2>3. ASSUME NEW i \in 1 .. BufferLength, i <= l PROVE buf[i] = e[i]
    <3>1. i \in 1 .. Len(s)
      BY <1>6, <2>3
    <3> QED
      BY <2>2, <2>3, <3>1
  <2> QED
    BY <1>6, <2>1, <2>3 DEF Shows
<1> QED
  BY <1>2, <1>3, <1>6, <1>7, <1>8, Zenon

-----------------------------------------------------------------------------
LEMMA GivenPublish ==
  ASSUME NEW p, p.type = PUBLISH
  PROVE  Given(p) = <<[topic |-> p.topic, data |-> p.data, whole |-> TRUE]>>
BY DEF Given

LEMMA GivenOther ==
  ASSUME NEW p, p.type # PUBLISH, NEW s \in Seq(Delivery)
  PROVE  s = s \o Given(p)
<1>1. Given(p) = << >>
  BY DEF Given
<1>2. s = s \o << >>
  OBVIOUS
<1> QED
  BY <1>1, <1>2, Zenon

LEMMA JoinedOne ==
  ASSUME NEW V, NEW s \in Seq(V), NEW x \in V, NEW t \in Seq(V)
  PROVE  s \o (<<x>> \o t) = Append(s, x) \o t
<1>1. PICK y \in Seq(V) : y = <<x>>
  BY OneIn
<1>2. Joined(Joined(s, y), t) = Joined(s, Joined(y, t))
  BY ThreeJoined
<1>3. s \o y = Append(s, x)
  BY <1>1, JoinOne
<1> QED
  BY <1>1, <1>2, <1>3, Zenon DEF Joined

LEMMA PublishStory ==
  ASSUME Typed, RecvPublish, aligned = TRUE,
         StoryIs(connState, pdata, reached, delivered, out)
  PROVE  /\ connState' = "MQTT_DATA"
         /\ StoryIs(connState', pdata', reached', delivered', out')
<1>0. /\ Fits /\ pdata \in Seq(Byte) /\ pdata # << >> /\ in_buffer' = Copied
      /\ connState = "MQTT_DATA" /\ reached' = reached /\ ~(Len(pdata) >= BufferLength)
  <2>1. Fits /\ pdata \in Seq(Byte) /\ pdata # << >> /\ in_buffer' = Copied
        /\ connState = "MQTT_DATA" /\ reached' = reached /\ Len(pdata) < BufferLength
    BY DEF RecvPublish, Typed, Fits
  <2>2. PICK n \in Nat : n = Len(pdata)
    BY <2>1
  <2>3. ~(Len(pdata) >= BufferLength)
    BY <2>1, <2>2, Buffer
  <2> QED
    BY <2>1, <2>3
<1>1. PICK buf : /\ buf = Copied /\ Begins(buf, pdata) /\ Len(buf) = BufferLength
                 /\ buf \in Seq(Byte)
  BY <1>0, CopiedBegins
<1>2. PICK q, done : Story(connState, pdata, reached, delivered, out, q, done)
  BY Zenon DEF StoryIs
<1>3. /\ Handled(delivered, out, done)
      /\ q \in Seq(Sendable) /\ pdata = Bytes(q)
      /\ reached = done \o Acts(connState, q, Len(pdata))
      /\ \A j \in 1 .. Len(q) : q[j].type # CONNACK
  BY <1>0, <1>2, Zenon DEF Story
<1>4. /\ q # << >> /\ q[1] \in Sendable /\ Tail(q) \in Seq(Sendable)
      /\ Len(Encode(q[1])) \in Nat /\ Len(Encode(q[1])) <= Len(pdata)
      /\ Shows(buf, Len(pdata), Encode(q[1]))
      /\ Shows(buf, BufferLength, Encode(q[1]))
      /\ SubSeq(pdata, Len(Encode(q[1])) + 1, Len(pdata)) = Bytes(Tail(q))
  BY <1>0, <1>1, <1>3, StoryFirst
<1>5. PICK p \in Sendable : p = q[1]
  BY <1>4
<1>6. PICK full \in Nat : full = Len(Encode(p)) /\ full <= Len(pdata)
  BY <1>4, <1>5
<1>7. /\ mqtt_get_type(buf) = PUBLISH
      /\ delivered' = Append(delivered, [topic |-> mqtt_get_publish_topic(buf, Len(pdata)),
                                         data |-> mqtt_get_publish_data(buf, Len(pdata)),
                                         whole |-> aligned])
      /\ out' = IF mqtt_get_publish_topic(buf, Len(pdata)) = Command
                THEN Published(Answer(out, mqtt_get_qos(buf), mqtt_get_id(buf, BufferLength)),
                               Status, mqtt_get_publish_data(buf, Len(pdata)))
                ELSE Answer(out, mqtt_get_qos(buf), mqtt_get_id(buf, BufferLength))
      /\ connState' \in IF mqtt_get_publish_topic(buf, Len(pdata)) = NULL
                        THEN {"MQTT_DATA", "RESET"} ELSE {"MQTT_DATA"}
      /\ pdata' = IF connState' = "RESET" THEN << >>
                  ELSE SubSeq(pdata, mqtt_get_total_length(buf, Len(pdata)) + 1, Len(pdata))
  BY <1>0, <1>1, Zenon DEF RecvPublish, Behind
<1>8. p.type = PUBLISH
  BY <1>4, <1>5, <1>7, TypeShown
<1>9. /\ PublishReads(buf, Len(pdata), p.topic, p.qos, p.id, p.data, full)
      /\ PublishReads(buf, BufferLength, p.topic, p.qos, p.id, p.data, full)
      /\ p.topic \in Seq(Letter) /\ p.data \in Seq(Letter) /\ p.qos \in 0 .. 2
  BY <1>4, <1>5, <1>6, <1>8, PublishShown
<1>10. /\ mqtt_get_publish_topic(buf, Len(pdata)) = p.topic
       /\ mqtt_get_publish_data(buf, Len(pdata)) = p.data
       /\ mqtt_get_total_length(buf, Len(pdata)) = full
       /\ mqtt_get_qos(buf) = p.qos
  BY <1>6, <1>9, Zenon DEF PublishReads
<1>11. PICK id : id = mqtt_get_id(buf, BufferLength) /\ (p.qos > 0 => id = p.id)
  <2>1. full < BufferLength /\ full <= BufferLength
    <3>1. PICK n \in Nat : n = Len(pdata)
      BY <1>0
    <3> QED
      BY <1>0, <1>6, <3>1, Buffer
  <2>2. p.qos > 0 => mqtt_get_id(buf, BufferLength) = p.id
    BY <1>9, <2>1, Zenon DEF PublishReads
  <2> QED
    BY <2>2, Zenon
<1>12. p.topic \in Seq(Byte) /\ p.topic # NULL
  <2>1. p.topic \in Seq(Byte)
    BY <1>9, LetterIsByte
  <2> QED
    BY <2>1, ReceiveAssumption
<1>13. connState' = "MQTT_DATA"
  BY <1>7, <1>10, <1>12
<1>14. pdata' = Bytes(Tail(q))
  <2>1. connState' # "RESET"
    BY <1>13
  <2>2. pdata' = SubSeq(pdata, full + 1, Len(pdata))
    BY <1>7, <1>10, <2>1, Zenon
  <2> QED
    BY <1>4, <1>5, <1>6, <2>2, Zenon
<1>15. delivered' = delivered \o Given(p)
  <2>1. PICK d : d = [topic |-> p.topic, data |-> p.data, whole |-> TRUE]
    OBVIOUS
  <2>2. d \in Delivery
    <3>1. p.data \in Seq(Byte)
      BY <1>9, LetterIsByte
    <3> QED
      BY <1>12, <2>1, <3>1 DEF Delivery
  <2>3. delivered' = Append(delivered, d)
    BY <1>7, <1>10, <2>1, Zenon
  <2>4. Given(p) = <<d>>
    BY <1>8, <2>1, GivenPublish, Zenon
  <2>5. delivered \in Seq(Delivery)
    BY <1>3, HandledAnswers
  <2>6. delivered \o <<d>> = Append(delivered, d)
    BY <2>2, <2>5, JoinOne
  <2> QED
    BY <2>3, <2>4, <2>6, Zenon
<1>16. Answers(out', Each(Debts, done) \o Owed(p))
  <2>1. Answers(out, Each(Debts, done))
    BY <1>3, HandledAnswers
  <2>2. Answers(IF p.topic = Command
                THEN Published(Answer(out, p.qos, id), Status, p.data)
                ELSE Answer(out, p.qos, id), Each(Debts, done) \o Owed(p))
    BY <1>8, <1>11, <2>1, PublishHandled
  <2>3. out' = IF p.topic = Command
               THEN Published(Answer(out, p.qos, id), Status, p.data)
               ELSE Answer(out, p.qos, id)
    BY <1>7, <1>10, <1>11, Zenon
  <2> QED
    BY <2>2, <2>3, Zenon
<1>17. Handled(delivered', out', Append(done, p))
  BY <1>3, <1>15, <1>16, HandledMore
<1>18. ~(Len(pdata') >= BufferLength)
  <2>1. PICK n \in Nat : n = Len(pdata)
    BY <1>0
  <2>2. full <= n /\ n - full \in Nat /\ n - full <= n
    BY <1>6, <2>1
  <2>6. Len(SubSeq(pdata, full + 1, n)) = n - full
    BY <1>0, <2>1, <2>2, SubSeqOf, SMTT(60)
  <2>3. PICK m \in Nat : m = Len(SubSeq(pdata, full + 1, n)) /\ m <= n
    BY <2>2, <2>6, Zenon
  <2>4. pdata' = SubSeq(pdata, full + 1, n)
    BY <1>4, <1>5, <1>6, <1>14, <2>1, Zenon
  <2>5. ~(m >= BufferLength)
    BY <1>0, <2>1, <2>3, Buffer
  <2> QED
    BY <2>3, <2>4, <2>5, Zenon
<1>19. reached' = Append(done, p) \o Acts("MQTT_DATA", Tail(q), Len(pdata'))
  <2>1. /\ Acts("MQTT_DATA", q, Len(pdata))
             = <<q[1]>> \o Acts("MQTT_DATA", Tail(q), Len(pdata'))
        /\ Acts("MQTT_DATA", Tail(q), Len(pdata')) \in Seq(Sendable)
    <3>1. PICK state : state = "MQTT_DATA" /\ state # "MQTT_CONNECT_SENDING"
      OBVIOUS
    <3>2. PICK length : length = Len(pdata) /\ ~(length >= BufferLength)
      BY <1>0, Buffer
    <3>3. PICK rest : rest = Len(pdata') /\ ~(rest >= BufferLength)
      BY <1>18
    <3>4. q \in Seq(Sendable) /\ q # << >> /\ q[1].type = PUBLISH
      BY <1>3, <1>4, <1>5, <1>8, Zenon
    <3>5. Acts(state, q, length) = <<q[1]>> \o Acts(state, Tail(q), rest)
      BY <3>1, <3>2, <3>3, <3>4, ActsPublish, ZenonT(60)
    <3>6. Acts(state, Tail(q), rest) \in Seq(Sendable)
      BY <3>1, <3>2, <3>3, <3>4, ActsPublish
    <3> QED
      BY <3>1, <3>2, <3>3, <3>5, <3>6, Zenon
  <2>2. PICK a : a = Acts("MQTT_DATA", Tail(q), Len(pdata')) /\ a \in Seq(Sendable)
    BY <2>1
  <2>3. done \in Seq(Sendable)
    BY <1>3, HandledAnswers
  <2>4. done \o (<<p>> \o a) = Append(done, p) \o a
    BY <2>2, <2>3, JoinedOne, SMTT(60)
  <2>5. reached = done \o (<<p>> \o a)
    BY <1>0, <1>3, <1>5, <2>1, <2>2, Zenon
  <2> QED
    BY <1>0, <2>2, <2>4, <2>5, Zenon
<1>20. \A j \in 1 .. Len(Tail(q)) : Tail(q)[j].type # CONNACK
  <2>1. PICK n \in Nat : Len(q) = n + 1
    BY <1>3, <1>4, LongerBy
  <2>2. Len(Tail(q)) = n /\ \A j \in 1 .. n : Tail(q)[j] = q[j + 1]
    BY <1>3, <2>1, TailIs
  <2>3. \A j \in 1 .. n : j + 1 \in 1 .. n + 1
    OBVIOUS
  <2> QED
    BY <1>3, <2>1, <2>2, <2>3
<1>21. Story(connState', pdata', reached', delivered', out', Tail(q), Append(done, p))
  BY <1>4, <1>13, <1>14, <1>17, <1>19, <1>20, Zenon DEF Story
<1> QED
  BY <1>13, <1>21, Zenon DEF StoryIs

-----------------------------------------------------------------------------
LEMMA FitsNot ==
  ASSUME Typed
  PROVE  /\ Fits => ~(Len(pdata) >= BufferLength)
         /\ pdata # << >> /\ ~Fits => Len(pdata) >= BufferLength
<1>1. PICK n \in Nat : n = Len(pdata)
  BY DEF Typed
<1> QED
  BY <1>1, Buffer DEF Fits

LEMMA TooLongStory ==
  ASSUME Typed, TooLong, StoryIs(connState, pdata, reached, delivered, out)
  PROVE  StoryIs(connState', pdata', reached', delivered', out')
<1>1. /\ Len(pdata) >= BufferLength /\ pdata' = << >> /\ connState' = connState
      /\ reached' = reached /\ delivered' = delivered /\ out' = out
  BY FitsNot DEF TooLong, client
<1>2. PICK q, done : Story(connState, pdata, reached, delivered, out, q, done)
  BY Zenon DEF StoryIs
<1>3. /\ Handled(delivered, out, done)
      /\ reached = done \o Acts(connState, q, Len(pdata))
  BY <1>2, Zenon DEF Story
<1>4. reached = done
  <2>1. Acts(connState, q, Len(pdata)) = << >>
    BY <1>1, ActsNone
  <2>2. done \in Seq(Sendable)
    BY <1>3, HandledAnswers
  <2>3. done \o << >> = done
    BY <2>2
  <2> QED
    BY <1>3, <2>1, <2>3, Zenon
<1>5. StoryIs(connState, << >>, reached, delivered, out)
  BY <1>3, <1>4, StoryEnds, Zenon
<1> QED
  BY <1>1, <1>5, Zenon

LEMMA ConnectingStory ==
  ASSUME Typed, RecvConnecting, StoryIs(connState, pdata, reached, delivered, out)
  PROVE  StoryIs(connState', pdata', reached', delivered', out')
<1>1. /\ Fits /\ pdata \in Seq(Byte) /\ pdata # << >> /\ ~(Len(pdata) >= BufferLength)
      /\ connState = "MQTT_CONNECT_SENDING" /\ reached' = reached /\ pdata' = << >>
      /\ delivered' = delivered
  BY FitsNot DEF RecvConnecting, Typed, Fits
<1>2. PICK buf : buf = Copied /\ Begins(buf, pdata) /\ Len(buf) = BufferLength
  BY <1>1, CopiedBegins
<1>3. PICK q, done : Story(connState, pdata, reached, delivered, out, q, done)
  BY Zenon DEF StoryIs
<1>4. /\ Handled(delivered, out, done) /\ q \in Seq(Sendable) /\ pdata = Bytes(q)
      /\ reached = done \o Acts("MQTT_CONNECT_SENDING", q, Len(pdata))
  BY <1>1, <1>3, Zenon DEF Story
<1>5. /\ q # << >> /\ q[1] \in Sendable /\ Shows(buf, Len(pdata), Encode(q[1]))
  BY <1>1, <1>2, <1>4, StoryFirst
<1>6. PICK p \in Sendable : p = q[1]
  BY <1>5
<1>7. mqtt_get_type(buf) = p.type
  BY <1>5, <1>6, TypeShown
<1>8. /\ p.type = CONNACK => connState' = "MQTT_DATA" /\ out' = mqttConnectedCb(out)
      /\ p.type # CONNACK => connState' = connState /\ out' = out
  BY <1>2, <1>7, Zenon DEF RecvConnecting
<1>9. reached = done \o (IF p.type = CONNACK THEN <<p>> ELSE << >>)
  <2>1. Acts("MQTT_CONNECT_SENDING", q, Len(pdata))
          = IF q # << >> /\ q[1].type = CONNACK THEN <<q[1]>> ELSE << >>
    BY <1>1, ActsConnecting, Zenon
  <2> QED
    BY <1>4, <1>5, <1>6, <2>1, Zenon
<1>10. /\ done \in Seq(Sendable) /\ Answers(out, Each(Debts, done))
       /\ delivered \in Seq(Delivery)
  BY <1>4, HandledAnswers
<1>11. CASE p.type = CONNACK
  <2>1. Answers(mqttConnectedCb(out), Each(Debts, done) \o Owed(p))
    BY <1>10, <1>11, ConnectedAnswers
  <2>2. delivered = delivered \o Given(p)
    <3>1. p.type # PUBLISH
      BY <1>11 DEF CONNACK, PUBLISH
    <3> QED
      BY <1>10, <3>1, GivenOther
  <2>3. Handled(delivered, out', Append(done, p))
    <3>1. Answers(out', Each(Debts, done) \o Owed(p))
      BY <1>8, <1>11, <2>1, Zenon
    <3> QED
      BY <1>4, <2>2, <3>1, HandledMore
  <2>4. reached = Append(done, p)
    <3>1. reached = done \o <<p>>
      BY <1>9, <1>11, Zenon
    <3>2. done \o <<p>> = Append(done, p)
      BY <1>10, JoinOne
    <3> QED
      BY <3>1, <3>2, Zenon
  <2>5. StoryIs(connState', << >>, reached, delivered, out')
    BY <2>3, <2>4, StoryEnds, Zenon
  <2> QED
    BY <1>1, <2>5, Zenon
<1>12. CASE p.type # CONNACK
  <2>1. reached = done
    <3>1. reached = done \o << >>
      BY <1>9, <1>12, Zenon
    <3>2. done \o << >> = done
      BY <1>10
    <3> QED
      BY <3>1, <3>2, Zenon
  <2>2. StoryIs(connState, << >>, reached, delivered, out)
    BY <1>4, <2>1, StoryEnds, Zenon
  <2> QED
    BY <1>1, <1>8, <1>12, <2>2, Zenon
<1> QED
  BY <1>11, <1>12

LEMMA OtherId ==
  ASSUME NEW p \in Sendable, p.type \in {PUBREC, PUBREL},
         NEW buf, Shows(buf, BufferLength, Encode(p))
  PROVE  mqtt_get_id(buf, BufferLength) = p.id
<1>1. Sound(p) /\ p.type # PUBLISH /\ p.type \in 0 .. 15 /\ p.type \in Acks
  <2>1. Sound(p)
    BY SendableSound
  <2>2. p.type # PUBLISH /\ p.type \in 0 .. 15 /\ p.type \in Acks
    BY DEF PUBREC, PUBREL, PUBLISH, Acks
  <2> QED
    BY <2>1, <2>2
<1>2. PICK qos, body : Short(p, qos, body)
  BY <1>1, EncodeShort
<1>3. /\ qos \in 0 .. 2 /\ body \in Seq(Letter) /\ Len(body) <= 4
      /\ Encode(p) = fini_message(p.type, qos, 0, body) /\ body = WordBytes(p.id)
  BY <1>2 DEF Short
<1>4. PICK type \in 0 .. 15 : type = p.type
  BY <1>1
<1>5. PICK m : m = Encode(p)
  OBVIOUS
<1>6. body \in Seq(Byte)
  BY <1>3, LetterIsByte
<1>7. Framed(m, First(type, qos, 0), body, 2)
  BY <1>3, <1>4, <1>5, <1>6, ShortIs
<1>8. p.id \in Nat
  BY <1>1, WordBytesLetters DEF Sound
<1>9. Len(body) = 2 /\ WordAt(body, 0) = p.id
  <2>1. Len(body) = 2 /\ 256 * body[1] + body[2] = p.id
    BY <1>3, <1>8, WordBytesAre, ZenonT(60)
  <2>2. 0 + 1 = 1 /\ 0 + 2 = 2
    OBVIOUS
  <2> QED
    BY <2>1, <2>2 DEF WordAt
<1>10. 2 <= Len(body) /\ 4 <= BufferLength /\ 0 \in 0 .. 1
  BY <1>9, Buffer
<1>11. mqtt_get_id(buf, BufferLength) = WordAt(body, 0)
  <2>1. type \in Acks
    BY <1>1, <1>4
  <2>2. Shows(buf, BufferLength, m)
    BY <1>5
  <2> QED
    BY <1>3, <1>6, <1>7, <1>10, <2>1, <2>2, FramedRead
<1> QED
  BY <1>9, <1>11

LEMMA OtherStory ==
  ASSUME Typed, RecvOther, StoryIs(connState, pdata, reached, delivered, out)
  PROVE  StoryIs(connState', pdata', reached', delivered', out')
<1>1. /\ Fits /\ pdata \in Seq(Byte) /\ pdata # << >> /\ ~(Len(pdata) >= BufferLength)
      /\ connState = "MQTT_DATA" /\ connState' = connState
      /\ reached' = reached /\ pdata' = << >> /\ delivered' = delivered
      /\ connState # "MQTT_CONNECT_SENDING"
  BY FitsNot DEF RecvOther, Typed, Fits
<1>2. PICK buf : buf = Copied /\ Begins(buf, pdata) /\ Len(buf) = BufferLength
  BY <1>1, CopiedBegins
<1>3. PICK q, done : Story(connState, pdata, reached, delivered, out, q, done)
  BY Zenon DEF StoryIs
<1>4. /\ Handled(delivered, out, done) /\ q \in Seq(Sendable) /\ pdata = Bytes(q)
      /\ reached = done \o Acts(connState, q, Len(pdata))
      /\ \A j \in 1 .. Len(q) : q[j].type # CONNACK
  BY <1>1, <1>3, Zenon DEF Story
<1>5. /\ q # << >> /\ q[1] \in Sendable /\ Shows(buf, Len(pdata), Encode(q[1]))
      /\ Shows(buf, BufferLength, Encode(q[1]))
  BY <1>1, <1>2, <1>4, StoryFirst
<1>6. PICK p \in Sendable : p = q[1]
  BY <1>5
<1>7. mqtt_get_type(buf) = p.type
  BY <1>5, <1>6, TypeShown
<1>8. PICK id : id = mqtt_get_id(buf, BufferLength)
  OBVIOUS
<1>9. /\ p.type # PUBLISH
      /\ out' = CASE p.type = PUBREC -> Replied(out, PUBREL, id)
                  [] p.type = PUBREL -> Replied(out, PUBCOMP, id)
                  [] p.type = PINGREQ -> [out EXCEPT !.offered = Append(@, mqtt_msg_pingresp)]
                  [] OTHER -> out
  <2>1. in_buffer' = buf /\ mqtt_get_type(buf) # PUBLISH
    BY <1>2, Zenon DEF RecvOther
  <2>2. out' = CASE mqtt_get_type(in_buffer') = PUBREC ->
                         Replied(out, PUBREL, mqtt_get_id(in_buffer', BufferLength))
                  [] mqtt_get_type(in_buffer') = PUBREL ->
                         Replied(out, PUBCOMP, mqtt_get_id(in_buffer', BufferLength))
                  [] mqtt_get_type(in_buffer') = PINGREQ ->
                         [out EXCEPT !.offered = Append(@, mqtt_msg_pingresp)]
                  [] OTHER -> out
    BY Zenon DEF RecvOther
  <2> QED
    BY <1>7, <1>8, <2>1, <2>2, Zenon
<1>10. p.type # CONNACK
  <2>1. 1 \in 1 .. Len(q)
    BY <1>4, <1>5
  <2> QED
    BY <1>4, <1>6, <2>1
<1>11. p.type \in {PUBREC, PUBREL} => id = p.id
  BY <1>5, <1>6, <1>8, OtherId
<1>12. /\ done \in Seq(Sendable) /\ Answers(out, Each(Debts, done))
       /\ delivered \in Seq(Delivery)
  BY <1>4, HandledAnswers
<1>13. Answers(out', Each(Debts, done) \o Owed(p))
  <2>1. Answers(CASE p.type = PUBREC -> Replied(out, PUBREL, id)
                  [] p.type = PUBREL -> Replied(out, PUBCOMP, id)
                  [] p.type = PINGREQ -> [out EXCEPT !.offered = Append(@, mqtt_msg_pingresp)]
                  [] OTHER -> out,
                Each(Debts, done) \o Owed(p))
    BY <1>9, <1>10, <1>11, <1>12, OtherHandled
  <2> QED
    BY <1>9, <2>1, Zenon
<1>14. delivered = delivered \o Given(p)
  BY <1>9, <1>12, GivenOther
<1>15. Handled(delivered, out', Append(done, p))
  BY <1>4, <1>13, <1>14, HandledMore
<1>16. reached = Append(done, p)
  <2>1. Acts(connState, q, Len(pdata)) = <<q[1]>>
    BY <1>1, <1>4, <1>5, <1>6, <1>9, ActsOther
  <2>2. reached = done \o <<p>>
    BY <1>4, <1>6, <2>1, Zenon
  <2>3. done \o <<p>> = Append(done, p)
    BY <1>12, JoinOne
  <2> QED
    BY <2>2, <2>3, Zenon
<1>17. StoryIs(connState', << >>, reached, delivered, out')
  BY <1>15, <1>16, StoryEnds, Zenon
<1> QED
  BY <1>1, <1>17, Zenon

-----------------------------------------------------------------------------
(* As long as no packet was cut.                                           *)
Clean(w) == \A i \in 1 .. Len(w) : w[i].packet.type # CONNACK

Uncut(w) ==
  /\ \A i \in 1 .. Len(w) : ~w[i].cut
  /\ \A i \in 2 .. Len(w) : w[i].packet.type # CONNACK

Kept ==
  cuts = 0 =>
    /\ connState # "RESET" /\ aligned = TRUE
    /\ Uncut(wire)
    /\ connState = "MQTT_DATA" \/ pdata # << >> => Clean(wire)
    /\ StoryIs(connState, pdata, reached, delivered, out)

LEMMA KeptInit ==
  ASSUME Init
  PROVE  Kept
<1>1. /\ connState = "MQTT_CONNECT_SENDING" /\ pdata = << >> /\ wire = <<OnWire(Accepted)>>
      /\ aligned = TRUE /\ reached = << >> /\ delivered = << >>
      /\ out = [message_id |-> 0, offered |-> << >>]
  BY DEF Init
<1>2. Uncut(wire)
  <2>1. PICK r : r = OnWire(Accepted) /\ ~r.cut
    <3>1. Accepted \in Sendable
      BY DEF Sendable
    <3>2. ~OnWire(Accepted).cut
      BY <3>1, OnWirePiece
    <3> QED
      BY <3>2
  <2>2. wire = <<r>>
    BY <1>1, <2>1
  <2>3. Len(wire) = 1 /\ wire[1] = r
    BY <2>2
  <2> QED
    BY <2>1, <2>3 DEF Uncut
<1>3. StoryIs(connState, << >>, reached, delivered, out)
  BY <1>1, HandledNone, StoryEnds, Zenon
<1>4. StoryIs(connState, pdata, reached, delivered, out)
  BY <1>1, <1>3, Zenon
<1> QED
  BY <1>1, <1>2, <1>4 DEF Kept

LEMMA KeptPass ==
  ASSUME Typed, Kept, READPACKET
  PROVE  Kept'
<1>1. UNCHANGED <<wire, sent, cuts, aligned, reached>>
  BY PassStep
<1> SUFFICES ASSUME cuts = 0 PROVE Kept'
  BY <1>1 DEF Kept
<1>2. /\ connState # "RESET" /\ aligned = TRUE /\ Uncut(wire)
      /\ connState = "MQTT_DATA" \/ pdata # << >> => Clean(wire)
      /\ StoryIs(connState, pdata, reached, delivered, out)
  BY DEF Kept
<1>3. pdata # << >> /\ Clean(wire)
  <2>1. pdata # << >>
    BY DEF READPACKET, TooLong, RecvConnecting, RecvPublish, RecvOther, Fits
  <2> QED
    BY <1>2, <2>1
<1>4. Uncut(wire') /\ Clean(wire') /\ aligned' = TRUE
  BY <1>1, <1>2, <1>3
<1>5. /\ connState' # "RESET"
      /\ StoryIs(connState', pdata', reached', delivered', out')
  <2>1. CASE TooLong
    <3>1. connState' = connState
      BY <2>1 DEF TooLong, client
    <3> QED
      BY <1>2, <2>1, <3>1, TooLongStory
  <2>2. CASE RecvConnecting
    <3>1. connState' \in {"MQTT_CONNECT_SENDING", "MQTT_DATA"}
      BY <2>2, ConnectingStep
    <3> QED
      BY <1>2, <2>2, <3>1, ConnectingStory
  <2>3. CASE RecvPublish
    <3>1. /\ connState' = "MQTT_DATA"
          /\ StoryIs(connState', pdata', reached', delivered', out')
      BY <1>2, <2>3, PublishStory
    <3> QED
      BY <3>1
  <2>4. CASE RecvOther
    <3>1. connState' = connState
      BY <2>4 DEF RecvOther
    <3> QED
      BY <1>2, <2>4, <3>1, OtherStory
  <2> QED
    BY <2>1, <2>2, <2>3, <2>4 DEF READPACKET
<1> QED
  BY <1>4, <1>5 DEF Kept

LEMMA KeptBroker ==
  ASSUME Typed, Kept, BrokerSends
  PROVE  Kept'
<1>1. PICK p \in Packets : wire' = Append(wire, OnWire(p))
  BY DEF BrokerSends
<1>2. /\ connState' = connState /\ out' = out
      /\ delivered' = delivered /\ pdata' = pdata /\ cuts' = cuts
      /\ aligned' = aligned /\ reached' = reached
  BY DEF BrokerSends, client
<1> SUFFICES ASSUME cuts = 0 PROVE Kept'
  BY <1>2 DEF Kept
<1>3. /\ connState # "RESET" /\ aligned = TRUE /\ Uncut(wire)
      /\ connState = "MQTT_DATA" \/ pdata # << >> => Clean(wire)
      /\ StoryIs(connState, pdata, reached, delivered, out)
  BY DEF Kept
<1>4. PICK r \in Piece : r = OnWire(p) /\ ~r.cut /\ r.packet = p
  BY OnWirePiece DEF Sendable
<1>5. p.type # CONNACK
  <2>1. p \in Packet
    BY ReceiveAssumption
  <2> QED
    BY <2>1 DEF Packet, CONNACK, PUBLISH, PUBREC, PUBREL, SUBACK, PINGREQ
<1>6. PICK n \in Nat : n = Len(wire) /\ wire \in Seq(Piece)
  BY DEF Typed
<1>7. /\ Len(wire') = n + 1 /\ wire'[n + 1] = r
      /\ \A i \in 1 .. n : wire'[i] = wire[i]
  BY <1>1, <1>4, <1>6, AppendIs
<1>8. \A i \in 1 .. n + 1 : i = n + 1 \/ i \in 1 .. n
  BY <1>6
<1>9. \A i \in 2 .. n + 1 : i = n + 1 \/ i \in 2 .. n
  BY <1>6
<1>10. Uncut(wire')
  BY <1>3, <1>4, <1>5, <1>6, <1>7, <1>8, <1>9 DEF Uncut
<1>11. Clean(wire) => Clean(wire')
  BY <1>4, <1>5, <1>6, <1>7, <1>8 DEF Clean
<1> QED
  BY <1>2, <1>3, <1>10, <1>11 DEF Kept

LEMMA KeptSegment ==
  ASSUME Typed, Kept, NEW k \in 0 .. Len(wire), NEW m \in Nat, Segment(k, m),
         m > 0 => k < Len(wire) /\ m \in 1 .. Len(wire[k + 1].bytes) - 1
  PROVE  Kept'
<1> SUFFICES ASSUME cuts' = 0 PROVE Kept'
  BY DEF Kept
<1>1. /\ pdata = << >> /\ k + m > 0
      /\ wire' = IF m = 0 THEN SubSeq(wire, k + 1, Len(wire))
                 ELSE <<CutOff(wire[k + 1], m)>> \o SubSeq(wire, k + 2, Len(wire))
      /\ cuts' = (IF m = 0 THEN cuts ELSE cuts + 1)
      /\ aligned' = ~wire[1].cut
      /\ reached' = (IF cuts' > 0 THEN reached
                     ELSE reached \o ActsOn(PacketsOf(k), Len(pdata')))
      /\ UNCHANGED <<connState, in_buffer, out, delivered, sent>>
  BY Zenon DEF Segment, client, CutOff, BytesOf, PacketsOf, PartOf, Whole
<1>2. cuts \in Nat
  BY DEF Typed
<1>3. m = 0 /\ cuts = 0
  <2>1. CASE m = 0
    BY <1>1, <2>1
  <2>2. CASE m # 0
    <3>1. cuts + 1 = 0
      BY <1>1, <2>2
    <3> QED
      BY <1>2, <3>1
  <2> QED
    BY <2>1, <2>2
<1>4. /\ connState # "RESET" /\ Uncut(wire)
      /\ connState = "MQTT_DATA" => Clean(wire)
      /\ StoryIs(connState, << >>, reached, delivered, out)
  BY <1>1, <1>3 DEF Kept
<1>5. PICK l \in Nat : l = Len(wire) /\ wire \in Seq(Piece) /\ k <= l /\ k \in Nat /\ k >= 1
  <2>1. PICK l \in Nat : l = Len(wire) /\ wire \in Seq(Piece)
    BY DEF Typed
  <2>2. k <= l /\ k \in Nat /\ k >= 1
    BY <1>1, <1>3, <2>1
  <2> QED
    BY <2>1, <2>2
<1>6. ~wire[1].cut
  BY <1>4, <1>5 DEF Uncut
<1>7. pdata' = Bytes(PacketsOf(k))
  BY <1>3, <1>6, SegmentOpens
<1>8. PICK q \in Seq(Sendable) :
        /\ q = PacketsOf(k) /\ Len(q) = k
        /\ \A j \in 1 .. k : q[j] = wire[j].packet
  BY WholeIs
<1>9. PICK w \in Seq(Piece) : /\ w = wire' /\ Len(w) = l - k
                              /\ \A i \in 1 .. l - k : w[i] = wire[k + i]
  <2>1. wire' = SubSeq(wire, k + 1, Len(wire))
    BY <1>1, <1>3
  <2> QED
    BY <1>5, <2>1, PiecesBehind
<1>10. /\ \A i \in 1 .. l - k : k + i \in 1 .. l /\ k + i \in 2 .. l
       /\ \A i \in 2 .. l - k : i \in 1 .. l - k
       /\ \A j \in 1 .. k : j \in 1 .. l
  BY <1>5
<1>11. Uncut(wire') /\ Clean(wire')
  <2>1. \A i \in 1 .. l - k : ~w[i].cut /\ w[i].packet.type # CONNACK
    BY <1>4, <1>5, <1>9, <1>10 DEF Uncut
  <2> QED
    BY <1>9, <1>10, <2>1 DEF Uncut, Clean
<1>12. Handled(delivered, out, reached)
  BY <1>4, StoryOver
<1>13. reached' = reached \o Acts(connState, q, Len(pdata'))
  <2>1. ~(cuts' > 0)
    OBVIOUS
  <2>2. reached' = reached \o ActsOn(q, Len(pdata'))
    BY <1>1, <1>8, <2>1, Zenon
  <2> QED
    BY <2>2, ActsOnIs, Zenon
<1>14. connState = "MQTT_DATA" => \A j \in 1 .. Len(q) : q[j].type # CONNACK
  BY <1>4, <1>5, <1>8, <1>10 DEF Clean
<1>15. Story(connState, pdata', reached', delivered, out, q, reached)
  BY <1>7, <1>8, <1>12, <1>13, <1>14, Zenon DEF Story
<1>16. StoryIs(connState', pdata', reached', delivered', out')
  BY <1>1, <1>15, Zenon DEF StoryIs
<1>17. connState' # "RESET" /\ aligned' = TRUE
  BY <1>1, <1>4, <1>6
<1> QED
  BY <1>11, <1>16, <1>17 DEF Kept

LEMMA KeptStep ==
  ASSUME Typed, Kept, [Next]_vars
  PROVE  Kept'
<1>1. CASE READPACKET
  BY <1>1, KeptPass
<1>2. CASE BrokerSends
  BY <1>2, KeptBroker
<1>3. CASE Arrives
  <2>1. PICK k \in 0 .. Len(wire), m \in Nat :
          /\ Segment(k, m)
          /\ m > 0 => k < Len(wire) /\ m \in 1 .. Len(wire[k + 1].bytes) - 1
    BY <1>3, ArrivesIs
  <2> QED
    BY <2>1, KeptSegment
<1>4. CASE UNCHANGED vars
  BY <1>4 DEF vars, client, Kept
<1> QED
  BY <1>1, <1>2, <1>3, <1>4 DEF Next

LEMMA KeptOver ==
  ASSUME Typed, Kept, cuts = 0, pdata = << >>
  PROVE  Handled(delivered, out, reached) /\ reached \in Seq(Sendable)
<1>1. StoryIs(connState, << >>, reached, delivered, out)
  BY DEF Kept
<1> QED
  BY <1>1, StoryOver, HandledAnswers

LEMMA KeptDelivers ==
  ASSUME Typed, Kept
  PROVE  DeliversReached
<1> SUFFICES ASSUME cuts = 0, pdata = << >>
             PROVE  delivered = FlattenSeq([j \in DOMAIN reached |-> Given(reached[j])])
  BY DEF DeliversReached
<1>1. Handled(delivered, out, reached) /\ reached \in Seq(Sendable)
  BY KeptOver
<1>2. delivered = FlattenSeq([j \in DOMAIN reached |-> Gifts[reached[j]]])
  BY <1>1, HandledAnswers, Zenon DEF Each
<1>3. \A j \in DOMAIN reached : reached[j] \in Sendable
  BY <1>1
<1>4. \A j \in DOMAIN reached : Gifts[reached[j]] = Given(reached[j])
  BY <1>3, GiftsAre
<1>5. [j \in DOMAIN reached |-> Gifts[reached[j]]]
        = [j \in DOMAIN reached |-> Given(reached[j])]
  BY <1>4
<1> QED
  BY <1>2, <1>5, Zenon

(* NumberOf counts the client's own ids as AnswersReached does.            *)
LEMMA KeptAnswers ==
  ASSUME Typed, Kept
  PROVE  AnswersReached
<1> SUFFICES ASSUME cuts = 0, pdata = << >>
             PROVE  AnswersReached
  BY DEF AnswersReached
<1>1. Handled(delivered, out, reached) /\ reached \in Seq(Sendable)
  BY KeptOver
<1>2. PICK owed : owed = FlattenSeq([j \in DOMAIN reached |-> Owed(reached[j])])
  OBVIOUS
<1>3. owed = Each(Debts, reached)
  <2>1. \A j \in DOMAIN reached : reached[j] \in Sendable
    BY <1>1
  <2>2. \A j \in DOMAIN reached : Debts[reached[j]] = Owed(reached[j])
    BY <2>1, GiftsAre
  <2>3. [j \in DOMAIN reached |-> Debts[reached[j]]]
          = [j \in DOMAIN reached |-> Owed(reached[j])]
    BY <2>2
  <2> QED
    BY <1>2, <2>3, Zenon DEF Each
<1>4. Answers(out, owed)
  BY <1>1, <1>3, HandledAnswers, Zenon
<1>5. /\ owed \in Seq(Debt) /\ Len(out.offered) = Len(owed)
      /\ \A j \in 1 .. Len(owed) : Met(out.offered[j], owed[j], OwnTo(owed, j))
  BY <1>4 DEF Answers
<1>6. DOMAIN owed = 1 .. Len(owed)
  BY <1>5
<1>7. ASSUME NEW j \in DOMAIN owed
      PROVE  /\ mqtt_get_type(out.offered[j]) = owed[j].type
             /\ mqtt_get_total_length(out.offered[j], Len(out.offered[j]))
                  = Len(out.offered[j])
             /\ mqtt_get_id(out.offered[j], Len(out.offered[j])) =
                  IF owed[j].id = 0 /\ owed[j].type # PINGRESP
                  THEN ((Cardinality({i \in 1 .. j : owed[i].id = 0
                                                     /\ owed[i].type # PINGRESP}) - 1)
                          % (IdRange - 1)) + 1
                  ELSE owed[j].id
             /\ owed[j].type = PUBLISH =>
                  /\ mqtt_get_publish_topic(out.offered[j], Len(out.offered[j])) = Status
                  /\ mqtt_get_publish_data(out.offered[j], Len(out.offered[j]))
                       = owed[j].data
  <2>1. PICK m, x : m = out.offered[j] /\ x = owed[j]
    OBVIOUS
  <2>2. PICK c : c = OwnTo(owed, j)
    OBVIOUS
  <2>3. Fulfils(m, x, IF Own(x) THEN NumberOf(c) ELSE x.id)
    BY <1>5, <1>6, <2>1, <2>2, Zenon DEF Met
  <2>4. c = Cardinality({i \in 1 .. j : owed[i].id = 0 /\ owed[i].type # PINGRESP})
    BY <2>2, Zenon DEF OwnTo, Own
  <2>5. Own(x) => c # 0
    <3>1. PICK n \in Nat : j = n + 1
      <4>1. j \in Nat /\ j # 0
        BY <1>5, <1>6
      <4>2. j - 1 \in Nat /\ j = (j - 1) + 1
        BY <4>1
      <4> QED
        BY <4>2
    <3>2. OwnTo(owed, n + 1) = IF Own(owed[n + 1]) THEN OwnTo(owed, n) + 1 ELSE OwnTo(owed, n)
      BY OwnToNext
    <3>3. OwnTo(owed, n) \in Nat
      BY OwnToNat
    <3> QED
      BY <2>1, <2>2, <3>1, <3>2, <3>3
  <2>6. Own(x) => NumberOf(c) = ((c - 1) % (IdRange - 1)) + 1
    BY <2>5 DEF NumberOf
  <2>7. Own(x) <=> (x.id = 0 /\ x.type # PINGRESP)
    BY DEF Own
  <2>8. /\ mqtt_get_type(m) = x.type
        /\ mqtt_get_total_length(m, Len(m)) = Len(m)
        /\ mqtt_get_id(m, Len(m)) = (IF Own(x) THEN NumberOf(c) ELSE x.id)
        /\ x.type = PUBLISH => /\ mqtt_get_publish_topic(m, Len(m)) = Status
                               /\ mqtt_get_publish_data(m, Len(m)) = x.data
    BY <2>3, Zenon DEF Fulfils
  <2>9. mqtt_get_id(m, Len(m)) = IF x.id = 0 /\ x.type # PINGRESP
                                 THEN ((c - 1) % (IdRange - 1)) + 1 ELSE x.id
    <3>1. CASE Own(x)
      BY <2>6, <2>7, <2>8, <3>1, Zenon
    <3>2. CASE ~Own(x)
      BY <2>7, <2>8, <3>2, Zenon
    <3> QED
      BY <3>1, <3>2
  <2> QED
    BY <2>1, <2>4, <2>8, <2>9, Zenon
<1> QED
  BY <1>2, <1>5, <1>7, Zenon DEF AnswersReached

(* Messages that share a segment are taken apart exactly.                  *)
THEOREM ReachedDelivered == Spec => []DeliversReached
<1>1. Init => Kept
  BY KeptInit
<1>2. Typed /\ Kept /\ [Next]_vars => Kept'
  BY KeptStep
<1>3. Typed /\ Kept => DeliversReached
  BY KeptDelivers
<1> QED
  BY <1>1, <1>2, <1>3, TypedAlways, PTL DEF Spec

(* Every packet acted on is answered once, in order, with its own id.      *)
THEOREM ReachedAnswered == Spec => []AnswersReached
<1>1. Init => Kept
  BY KeptInit
<1>2. Typed /\ Kept /\ [Next]_vars => Kept'
  BY KeptStep
<1>3. Typed /\ Kept => AnswersReached
  BY KeptAnswers
<1> QED
  BY <1>1, <1>2, <1>3, TypedAlways, PTL DEF Spec

=============================================================================
