--------------------------- MODULE WeekPlanProofs ---------------------------
(***************************************************************************)
(* A week's schedule is followed: for every width of the bars, all charts, *)
(* edits, cuts and times.  The parts, in the order of a schedule's way:    *)
(* the search (for schedules of any origin), base64 and the message, both  *)
(* ways; what getDataForESP tells of charts, and what the page makes of    *)
(* that; the invariant; and the properties of WeekPlan.                    *)
(***************************************************************************)
EXTENDS WeekPlan, FoldProofs, SequenceTheorems

-----------------------------------------------------------------------------
(* The search.                                                             *)

(* Quotient and remainder are the only numbers that do what they do.       *)
LEMMA QuotientIs ==
  ASSUME NEW t \in Nat, NEW n \in Nat \ {0}, NEW q \in Nat, NEW r \in 0 .. n - 1,
         t = n * q + r
  PROVE  t \div n = q /\ t % n = r
BY SMTT(60)

(* The fields of the clock, and what they add up to: each a fact of its    *)
(* own, so that no prover meets two of these divisions at once.            *)
Day(t) == t \div 86400
MinuteOfDay(t) == (t % 86400) \div 60
Hour(t) == (t % 86400) \div 3600
Minute(t) == (t % 3600) \div 60
DayRange == {u \in Nat : u <= 1439}
WeekMinute(d, u) == ((1440 * d + u) + 3 * 1440) % 10080

LEMMA HourInDay ==
  ASSUME NEW t \in Nat
  PROVE  t % 3600 = (t % 86400) % 3600
BY SMTT(60)

LEMMA DayInNat ==
  ASSUME NEW t \in Nat
  PROVE  Day(t) \in Nat
BY SMTT(60) DEF Day

LEMMA MinuteOfDayRange ==
  ASSUME NEW t \in Nat
  PROVE  MinuteOfDay(t) \in DayRange
BY SMTT(60) DEF MinuteOfDay, DayRange

LEMMA HourInNat ==
  ASSUME NEW t \in Nat
  PROVE  Hour(t) \in Nat
BY SMTT(60) DEF Hour

LEMMA MinuteInNat ==
  ASSUME NEW t \in Nat
  PROVE  Minute(t) \in Nat
BY SMTT(60) DEF Minute

LEMMA MinuteOfDayFields ==
  ASSUME NEW t \in Nat
  PROVE  MinuteOfDay(t) = 60 * Hour(t) + Minute(t)
<1>1. (t % 86400) \div 60
        = 60 * ((t % 86400) \div 3600) + (((t % 86400) % 3600) \div 60)
  BY SMTT(60)
<1> QED
  BY <1>1, HourInDay, SMTT(60) DEF MinuteOfDay, Hour, Minute

LEMMA MinutesAndDays ==
  ASSUME NEW t \in Nat
  PROVE  t \div 60 = 1440 * Day(t) + MinuteOfDay(t)
BY SMTT(60) DEF Day, MinuteOfDay

LEMMA ThursdayFirst ==
  ASSUME NEW d \in Nat
  PROVE  ((d % 7) + 3) % 7 = (d + 3) % 7
BY SMTT(60)

LEMMA WeekWraps ==
  ASSUME NEW d \in Nat, NEW u \in DayRange
  PROVE  WeekMinute(d, u) = ((d + 3) % 7) * 1440 + u
BY SMTT(60) DEF DayRange, WeekMinute

LEMMA WeekdayHourMinute ==
  ASSUME NEW w \in Nat, NEW h \in Nat, NEW m \in Nat
  PROVE  w * 24 * 60 + h * 60 + m = w * 1440 + (60 * h + m)
BY SMTT(60)

LEMMA WeekdayInNat ==
  ASSUME NEW d \in Nat
  PROVE  (d + 3) % 7 \in Nat
BY SMTT(60)

(* The clock's own arithmetic, by day, hour and minute, is the minute of   *)
(* the week counted from the epoch: no carry is lost.                      *)
THEOREM CurrentTimeIsMinuteOfWeek ==
  ASSUME NEW t \in Nat
  PROVE  CurrentTime(t) = MinuteOfWeek(t)
<1> DEFINE w == (Day(t) + 3) % 7
<1>1. Day(t) \in Nat
  BY DayInNat
<1>2. MinuteOfDay(t) \in DayRange
  BY MinuteOfDayRange
<1>3. DayOfWeek(t) = ((Day(t) % 7) + 3) % 7
  BY DEF DayOfWeek, Day
<1>4. DayOfWeek(t) = w
  BY <1>1, <1>3, ThursdayFirst
<1>5. CurrentTime(t) = DayOfWeek(t) * 24 * 60 + Hour(t) * 60 + Minute(t)
  BY DEF CurrentTime, Hour, Minute
<1>6. w \in Nat
  BY <1>1, WeekdayInNat
<1> HIDE DEF w
<1>7. w * 24 * 60 + Hour(t) * 60 + Minute(t)
        = w * 1440 + (60 * Hour(t) + Minute(t))
  BY <1>6, HourInNat, MinuteInNat, WeekdayHourMinute
<1>8. CurrentTime(t) = w * 1440 + MinuteOfDay(t)
  BY <1>4, <1>5, <1>7, MinuteOfDayFields
<1>9. MinuteOfWeek(t) = WeekMinute(Day(t), MinuteOfDay(t))
  BY MinutesAndDays DEF MinuteOfWeek, WeekMinute
<1>10. WeekMinute(Day(t), MinuteOfDay(t))
        = ((Day(t) + 3) % 7) * 1440 + MinuteOfDay(t)
  BY <1>1, <1>2, WeekWraps
<1> QED
  BY <1>8, <1>9, <1>10 DEF w

-----------------------------------------------------------------------------
(* No entry that the loop has passed is later than the present.            *)
Passed ==
  pc = "loop" => \A j \in 1 .. i : j <= Len(states) =>
                   states[j].time <= CurrentTime(unixTime)

SearchInv == SearchTypeOK /\ Passed /\ FindsCurrent

(* A pass of the loop ends with the entry in force, or has passed one.     *)
LEMMA LoopKeeps ==
  ASSUME SearchInv, Loop
  PROVE  SearchInv'
<1> USE SearchAssumption
<1> DEFINE now == CurrentTime(unixTime)
<1>1. /\ states \in Seq(Entry) /\ unixTime \in Nat /\ i \in 0 .. IndexRange - 1
      /\ \A j \in 1 .. Len(states) : states[j].time \in Nat
      /\ now \in Nat /\ now = MinuteOfWeek(unixTime)
      /\ pc = "loop" /\ Len(states) \in Nat
      /\ \A j \in 1 .. i : j <= Len(states) => states[j].time <= now
  <2>1. states \in Seq(Entry) /\ unixTime \in Nat /\ i \in 0 .. IndexRange - 1
    BY DEF SearchInv, SearchTypeOK
  <2>2. now = MinuteOfWeek(unixTime)
    BY <2>1, CurrentTimeIsMinuteOfWeek
  <2>3. MinuteOfWeek(unixTime) \in Nat
    BY <2>1, SMT DEF MinuteOfWeek
  <2>4. pc = "loop"
    BY DEF Loop, Earlier, NextEntry, LastEntry
  <2>5. \A j \in 1 .. Len(states) : states[j].time \in Nat
    <3>1. \A j \in 1 .. Len(states) : states[j] \in Entry
      BY <2>1
    <3> QED
      BY <3>1 DEF Entry
  <2>6. \A j \in 1 .. i : j <= Len(states) => states[j].time <= now
    BY <2>4 DEF SearchInv, Passed
  <2> QED
    BY <2>1, <2>2, <2>3, <2>4, <2>5, <2>6
<1>2. ASSUME NextEntry
      PROVE  SearchInv'
  <2> HIDE DEF now
  <2>1. /\ i < Len(states) /\ states[i + 1].time <= now
        /\ i' = (i + 1) % IndexRange
        /\ states' = states /\ unixTime' = unixTime /\ pc' = pc /\ found' = found
    BY <1>2 DEF NextEntry, now
  <2>2. i' \in 0 .. IndexRange - 1 /\ i' <= i + 1
    <3>1. CASE i + 1 < IndexRange
      <4>1. i + 1 \in Nat /\ i + 1 = IndexRange * 0 + (i + 1) /\ i + 1 \in 0 .. IndexRange - 1
        BY <1>1, <3>1, SMT
      <4>2. (i + 1) % IndexRange = i + 1
        BY <4>1, QuotientIs
      <4> QED
        BY <1>1, <2>1, <3>1, <4>2, SMTT(60)
    <3>2. CASE i + 1 = IndexRange
      <4>1. (i + 1) % IndexRange = 0
        BY <1>1, <3>2, QuotientIs, SMT
      <4> QED
        BY <1>1, <2>1, <3>2, <4>1
    <3> QED
      BY <1>1, <3>1, <3>2
  <2>3. SearchTypeOK'
    BY <2>1, <2>2 DEF SearchInv, SearchTypeOK
  <2>4. \A j \in 1 .. i' : j <= Len(states) => states[j].time <= now
    BY <1>1, <2>1, <2>2, SMTT(60)
  <2>5. Passed'
    BY <2>1, <2>4 DEF Passed, now
  <2>6. FindsCurrent'
    BY <1>1, <2>1 DEF FindsCurrent
  <2> QED
    BY <2>3, <2>5, <2>6 DEF SearchInv
<1>3. ASSUME Earlier \/ LastEntry
      PROVE  SearchInv'
  <2> HIDE DEF now
  <2> DEFINE n == Len(states)
  <2>1. /\ states' = states /\ unixTime' = unixTime /\ i' = i /\ pc' = "done"
    BY <1>3 DEF Earlier, LastEntry, Return
  <2>2. \/ i < n /\ states[i + 1].time > now /\ found' = IF i = 0 THEN n ELSE i
        \/ i >= n /\ found' = n
    BY <1>3 DEF Earlier, LastEntry, Return, now
  <2>3. found' \in 0 .. n
    BY <1>1, <2>2
  <2>4. SearchTypeOK'
    BY <2>1, <2>3 DEF SearchInv, SearchTypeOK
  <2>5. Passed'
    BY <2>1 DEF Passed
  <2>6. ASSUME Sorted(states), states # <<>>
        PROVE  InForce(states, found', now)
    <3>1. n >= 1
      BY <1>1, <2>6
    <3>2. \A j, k \in 1 .. n : j < k => states[j].time < states[k].time
      BY <2>6 DEF Sorted
    <3>3. CASE i >= n
      <4>1. found' = n /\ states[n].time <= now
        BY <1>1, <2>2, <3>1, <3>3
      <4> QED
        BY <4>1, <3>1, <1>1 DEF InForce
    <3>4. CASE i < n /\ i = 0
      <4>1. found' = n /\ states[1].time > now
        BY <1>1, <2>2, <3>4
      <4>2. \A j \in 1 .. n : states[j].time > now
        BY <4>1, <3>2, <3>1, <1>1
      <4> QED
        BY <4>1, <4>2, <3>1, <1>1 DEF InForce
    <3>5. CASE i < n /\ i > 0
      <4>1. found' = i /\ states[i + 1].time > now /\ states[i].time <= now
        BY <1>1, <2>2, <3>5
      <4>2. \A j \in i + 1 .. n : states[j].time > now
        BY <4>1, <3>2, <3>5, <1>1, SMTT(60)
      <4> QED
        BY <4>1, <4>2, <3>5, <1>1 DEF InForce
    <3> QED
      BY <1>1, <3>3, <3>4, <3>5
  <2>7. states = <<>> => found' = 0
    BY <1>1, <2>2
  <2>8. FindsCurrent'
    BY <2>1, <2>6, <2>7, <1>1 DEF FindsCurrent
  <2> QED
    BY <2>4, <2>5, <2>8 DEF SearchInv
<1> QED
  BY <1>2, <1>3 DEF Loop

LEMMA SearchInitInv == SearchInit => SearchInv
BY SearchAssumption DEF SearchInit, Idle, SearchInv, SearchTypeOK, Passed, FindsCurrent

LEMMA ScheduleKeeps ==
  ASSUME SearchInv, pc = "idle", states' \in Seq(Entry), UNCHANGED search
  PROVE  SearchInv'
<1>1. /\ pc = "idle" /\ found = 0
      /\ unixTime' = unixTime /\ i' = i /\ pc' = pc /\ found' = found
  BY DEF search, SearchInv, SearchTypeOK
<1> QED
  BY <1>1, SearchAssumption DEF SearchInv, SearchTypeOK, Passed, FindsCurrent

LEMMA StartKeeps ==
  ASSUME SearchInv, NEW t \in Times, StartSearch(t)
  PROVE  SearchInv'
BY SearchAssumption DEF StartSearch, SearchInv, SearchTypeOK, Passed, FindsCurrent

LEMMA EndKeeps ==
  ASSUME SearchInv, EndSearch
  PROVE  SearchInv'
BY SearchAssumption DEF EndSearch, SearchInv, SearchTypeOK, Passed, FindsCurrent

LEMMA SearchStutters ==
  ASSUME SearchInv, UNCHANGED searchVars
  PROVE  SearchInv'
BY DEF searchVars, search, SearchInv, SearchTypeOK, Passed, FindsCurrent

LEMMA SearchStep == SearchInv /\ [SearchNext]_searchVars => SearchInv'
<1> SUFFICES ASSUME SearchInv, [SearchNext]_searchVars
             PROVE  SearchInv'
  OBVIOUS
<1>1. ASSUME NEW s \in Schedules, NewSchedule(s)
      PROVE  SearchInv'
  <2>1. pc = "idle" /\ states' \in Seq(Entry) /\ UNCHANGED search
    BY <1>1, SearchAssumption DEF NewSchedule
  <2> QED
    BY <2>1, ScheduleKeeps
<1>2. ASSUME NEW t \in Times, StartSearch(t)
      PROVE  SearchInv'
  BY <1>2, StartKeeps
<1>3. ASSUME Loop
      PROVE  SearchInv'
  BY <1>3, LoopKeeps
<1>4. ASSUME EndSearch
      PROVE  SearchInv'
  BY <1>4, EndKeeps
<1>5. ASSUME UNCHANGED searchVars
      PROVE  SearchInv'
  BY <1>5, SearchStutters
<1> QED
  BY <1>1, <1>2, <1>3, <1>4, <1>5 DEF SearchNext

(* Whatever schedule of increasing times the device is given, and whatever *)
(* the time, the search of findCurrentState that ends has found the entry  *)
(* in force, and reads inside the schedule.                                *)
THEOREM SearchFindsCurrent == SearchSpec => []FindsCurrent
<1>1. SearchInv => FindsCurrent
  BY DEF SearchInv
<1> QED
  BY <1>1, SearchInitInv, SearchStep, PTL DEF SearchSpec

-----------------------------------------------------------------------------
(* base64: a quantum of three bytes and its four sextets.                  *)

(* Division with rest.                                                     *)
Made(t, n, q, r) == t = n * q + r /\ r < n

LEMMA DivModIs ==
  ASSUME NEW t \in Nat, NEW n \in Nat \ {0}, NEW q \in Nat, NEW r \in Nat, Made(t, n, q, r)
  PROVE  t \div n = q /\ t % n = r
BY SMTT(60) DEF Made

(* One digit of a number in base g: above it p, below it rest, less than e. *)
Digit(x, e, g, p, s, rest) == s < g /\ rest < e /\ x = e * (g * p + s) + rest

LEMMA DigitOf ==
  ASSUME NEW x \in Nat, NEW e \in Nat \ {0}, NEW g \in Nat \ {0}, NEW p \in Nat,
         NEW s \in Nat, NEW rest \in Nat, Digit(x, e, g, p, s, rest)
  PROVE  (x \div e) % g = s
<1>1. PICK y \in Nat : y = g * p + s
  BY SMTT(60)
<1>2. Made(y, g, p, s)
  BY <1>1, Zenon DEF Made, Digit
<1>3. Made(x, e, y, rest)
  BY <1>1, Zenon DEF Made, Digit
<1>4. x \div e = y
  BY <1>3, DivModIs, Zenon
<1>5. y % g = s
  BY <1>2, DivModIs, Zenon
<1> QED
  BY <1>4, <1>5, Zenon

Cut(a, n, q, r) == a = n * q + r /\ a \div n = q /\ a % n = r

LEMMA Divided ==
  ASSUME NEW a \in Nat, NEW n \in Nat \ {0}
  PROVE  \E q \in Nat, r \in Nat : r < n /\ Cut(a, n, q, r)
<1>1. a \div n \in Nat /\ a % n \in Nat /\ a % n < n /\ a = n * (a \div n) + (a % n)
  BY SMTT(60)
<1> QED
  BY <1>1, Zenon DEF Cut

Sextets(x) == <<SextetOf(x, 0), SextetOf(x, 1), SextetOf(x, 2), SextetOf(x, 3)>>
Octets(x) == <<ByteOf(x, 0), ByteOf(x, 1), ByteOf(x, 2)>>

LEMMA SextetIs ==
  ASSUME NEW x
  PROVE  /\ SextetOf(x, 0) = (x \div 262144) % 64
         /\ SextetOf(x, 1) = (x \div 4096) % 64
         /\ SextetOf(x, 2) = (x \div 64) % 64
         /\ SextetOf(x, 3) = (x \div 1) % 64
<1>1. PICK e : e = 64 ^ (3 - 0)
  OBVIOUS
<1>2. PICK f : f = 64 ^ (3 - 1)
  OBVIOUS
<1>3. PICK g : g = 64 ^ (3 - 2)
  OBVIOUS
<1>4. PICK h : h = 64 ^ (3 - 3)
  OBVIOUS
<1>5. e = 262144
  BY <1>1, SMTT(60)
<1>6. f = 4096
  BY <1>2, SMTT(60)
<1>7. g = 64 /\ h = 1
  BY <1>3, <1>4, SMTT(60)
<1>8. /\ SextetOf(x, 0) = (x \div e) % 64 /\ SextetOf(x, 1) = (x \div f) % 64
      /\ SextetOf(x, 2) = (x \div g) % 64 /\ SextetOf(x, 3) = (x \div h) % 64
  BY <1>1, <1>2, <1>3, <1>4, Zenon DEF SextetOf
<1> QED
  BY <1>5, <1>6, <1>7, <1>8, SMTT(60)

LEMMA OctetIs ==
  ASSUME NEW x
  PROVE  /\ ByteOf(x, 0) = (x \div 65536) % 256
         /\ ByteOf(x, 1) = (x \div 256) % 256
         /\ ByteOf(x, 2) = (x \div 1) % 256
<1>1. PICK e : e = 256 ^ (2 - 0)
  OBVIOUS
<1>2. PICK f : f = 256 ^ (2 - 1)
  OBVIOUS
<1>3. PICK g : g = 256 ^ (2 - 2)
  OBVIOUS
<1>4. e = 65536
  BY <1>1, SMTT(60)
<1>5. f = 256 /\ g = 1
  BY <1>2, <1>3, SMTT(60)
<1>6. /\ ByteOf(x, 0) = (x \div e) % 256 /\ ByteOf(x, 1) = (x \div f) % 256
      /\ ByteOf(x, 2) = (x \div g) % 256
  BY <1>1, <1>2, <1>3, Zenon DEF ByteOf
<1> QED
  BY <1>4, <1>5, <1>6, SMTT(60)

(* The sextets of three bytes, and the bytes of four sextets, as they are  *)
(* without the 24 bits between.                                            *)
Sextet1(a) == a \div 4
Sextet2(a, b) == (a % 4) * 16 + b \div 16
Sextet3(b, c) == (b % 16) * 4 + c \div 64
Sextet4(c) == c % 64
Octet1(s, t) == s * 4 + t \div 16
Octet2(t, u) == (t % 16) * 16 + u \div 4
Octet3(u, v) == (u % 4) * 64 + v
Sextet == 0 .. 63

LEMMA ByteBounds ==
  ASSUME NEW b
  PROVE  b \in Byte <=> (b \in Nat /\ b <= 255)
BY SMTT(60) DEF Byte

LEMMA SextetBounds ==
  ASSUME NEW s
  PROVE  s \in Sextet <=> (s \in Nat /\ s <= 63)
BY SMTT(60) DEF Sextet

LEMMA SextetsOf ==
  ASSUME NEW a \in Byte, NEW b \in Byte, NEW c \in Byte, NEW x, x = OfBytes(a, b, c)
  PROVE  /\ SextetOf(x, 0) = Sextet1(a)
         /\ SextetOf(x, 1) = Sextet2(a, b)
         /\ SextetOf(x, 2) = Sextet3(b, c)
         /\ SextetOf(x, 3) = Sextet4(c)
<1> /\ a \in Nat /\ a <= 255 /\ b \in Nat /\ b <= 255 /\ c \in Nat /\ c <= 255
    /\ 4 \in Nat \ {0} /\ 16 \in Nat \ {0} /\ 64 \in Nat \ {0}
  BY ByteBounds, SMTT(60)
<1>1. PICK s \in Nat, a0 \in Nat : a0 < 4 /\ Cut(a, 4, s, a0)
  BY Divided, Zenon
<1>2. PICK b1 \in Nat, b0 \in Nat : b0 < 16 /\ Cut(b, 16, b1, b0)
  BY Divided, Zenon
<1>3. PICK c1 \in Nat, v \in Nat : v < 64 /\ Cut(c, 64, c1, v)
  BY Divided, Zenon
<1>4. a = 4 * s + a0 /\ b = 16 * b1 + b0 /\ c = 64 * c1 + v
  BY <1>1, <1>2, <1>3, Zenon DEF Cut
<1>5. s < 64 /\ b1 < 16 /\ c1 < 4
  BY <1>4, SMTT(60)
<1>6. PICK t \in Nat, u \in Nat : t = a0 * 16 + b1 /\ u = b0 * 4 + c1
  <2>1. a0 * 16 + b1 \in Nat /\ b0 * 4 + c1 \in Nat
    BY SMTT(60)
  <2> QED
    BY <2>1
<1>7. t < 64 /\ u < 64
  BY <1>1, <1>2, <1>5, <1>6, SMTT(60)
<1>8. Sextet1(a) = s /\ Sextet2(a, b) = t /\ Sextet3(b, c) = u /\ Sextet4(c) = v
  <2>1. a \div 4 = s /\ a % 4 = a0 /\ b \div 16 = b1 /\ b % 16 = b0
        /\ c \div 64 = c1 /\ c % 64 = v
    BY <1>1, <1>2, <1>3, Zenon DEF Cut
  <2> QED
    BY <1>6, <2>1, Zenon DEF Sextet1, Sextet2, Sextet3, Sextet4
<1>9. x = a * 65536 + b * 256 + c
  BY SMTT(60) DEF OfBytes
<1> x \in Nat
  BY <1>9, SMTT(60)
<1>10. x = 262144 * s + 4096 * t + 64 * u + v
  BY <1>4, <1>6, <1>9, SMTT(60)
<1>11. (x \div 262144) % 64 = s
  <2>1. PICK rest \in Nat : rest = 4096 * t + 64 * u + v
    BY SMTT(60)
  <2>2. rest < 262144
    BY <1>3, <1>7, <2>1, SMTT(60)
  <2>3. PICK d \in Nat : d = 64 * 0 + s /\ d = s
    BY SMTT(60)
  <2>4. x = 262144 * d + rest
    BY <1>10, <2>1, <2>3, SMTT(60)
  <2>5. Made(x, 262144, d, rest)
    BY <2>2, <2>4, SMTT(60) DEF Made
  <2>6. x \div 262144 = d
    BY <2>5, DivModIs, SMTT(60)
  <2> QED
    BY <1>5, <2>3, <2>6, SMTT(60)
<1>12. (x \div 4096) % 64 = t
  <2>1. PICK rest \in Nat : rest = 64 * u + v
    BY SMTT(60)
  <2>2. Digit(x, 4096, 64, s, t, rest)
    BY <1>10, <1>3, <1>7, <2>1, SMTT(60) DEF Digit
  <2> QED
    BY <2>2, DigitOf, SMTT(60)
<1>13. (x \div 64) % 64 = u
  <2>1. PICK y \in Nat : y = 64 * s + t
    BY SMTT(60)
  <2>2. Digit(x, 64, 64, y, u, v)
    BY <1>3, <1>7, <1>10, <2>1, SMTT(60) DEF Digit
  <2> QED
    BY <2>2, DigitOf, SMTT(60)
<1>14. (x \div 1) % 64 = v
  <2>1. PICK y \in Nat : y = 4096 * s + 64 * t + u
    BY SMTT(60)
  <2>2. Digit(x, 1, 64, y, v, 0)
    BY <1>3, <1>10, <2>1, SMTT(60) DEF Digit
  <2> QED
    BY <2>2, DigitOf, SMTT(60)
<1> QED
  BY <1>8, <1>11, <1>12, <1>13, <1>14, SextetIs, SMTT(60)

LEMMA OctetsOf ==
  ASSUME NEW s \in Sextet, NEW t \in Sextet, NEW u \in Sextet, NEW v \in Sextet,
         NEW x, x = OfSextets(s, t, u, v)
  PROVE  /\ ByteOf(x, 0) = Octet1(s, t)
         /\ ByteOf(x, 1) = Octet2(t, u)
         /\ ByteOf(x, 2) = Octet3(u, v)
<1> /\ s \in Nat /\ s <= 63 /\ t \in Nat /\ t <= 63 /\ u \in Nat /\ u <= 63
    /\ v \in Nat /\ v <= 63 /\ 4 \in Nat \ {0} /\ 16 \in Nat \ {0}
  BY SextetBounds, SMTT(60)
<1>1. PICK t1 \in Nat, t0 \in Nat : t0 < 16 /\ Cut(t, 16, t1, t0)
  BY Divided, Zenon
<1>2. PICK u1 \in Nat, u0 \in Nat : u0 < 4 /\ Cut(u, 4, u1, u0)
  BY Divided, Zenon
<1>3. t = 16 * t1 + t0 /\ u = 4 * u1 + u0
  BY <1>1, <1>2, Zenon DEF Cut
<1>4. t1 < 4 /\ u1 < 16
  BY <1>3, SMTT(60)
<1>5. PICK a \in Nat, b \in Nat, c \in Nat :
        a = s * 4 + t1 /\ b = t0 * 16 + u1 /\ c = u0 * 64 + v
  <2>1. s * 4 + t1 \in Nat /\ t0 * 16 + u1 \in Nat /\ u0 * 64 + v \in Nat
    BY SMTT(60)
  <2> QED
    BY <2>1
<1>6. a < 256 /\ b < 256 /\ c < 256
  BY <1>1, <1>2, <1>4, <1>5, SMTT(60)
<1>7. Octet1(s, t) = a /\ Octet2(t, u) = b /\ Octet3(u, v) = c
  <2>1. t \div 16 = t1 /\ t % 16 = t0 /\ u \div 4 = u1 /\ u % 4 = u0
    BY <1>1, <1>2, Zenon DEF Cut
  <2> QED
    BY <1>5, <2>1, Zenon DEF Octet1, Octet2, Octet3
<1>8. x = s * 262144 + t * 4096 + u * 64 + v
  BY SMTT(60) DEF OfSextets
<1> x \in Nat
  BY <1>8, SMTT(60)
<1>9. x = 65536 * a + 256 * b + c
  BY <1>3, <1>5, <1>8, SMTT(60)
<1>10. (x \div 65536) % 256 = a
  <2>1. PICK rest \in Nat : rest = 256 * b + c
    BY SMTT(60)
  <2>2. Digit(x, 65536, 256, 0, a, rest)
    BY <1>6, <1>9, <2>1, SMTT(60) DEF Digit
  <2> QED
    BY <2>2, DigitOf, SMTT(60)
<1>11. (x \div 256) % 256 = b
  <2>1. Digit(x, 256, 256, a, b, c)
    BY <1>6, <1>9, SMTT(60) DEF Digit
  <2> QED
    BY <2>1, DigitOf, SMTT(60)
<1>12. (x \div 1) % 256 = c
  <2>1. PICK y \in Nat : y = 256 * a + b
    BY SMTT(60)
  <2>2. Digit(x, 1, 256, y, c, 0)
    BY <1>6, <1>9, <2>1, SMTT(60) DEF Digit
  <2> QED
    BY <2>2, DigitOf, SMTT(60)
<1> QED
  BY <1>7, <1>10, <1>11, <1>12, OctetIs, SMTT(60)

LEMMA SextetsTyped ==
  ASSUME NEW a \in Byte, NEW b \in Byte, NEW c \in Byte
  PROVE  /\ Sextet1(a) \in Sextet /\ Sextet2(a, b) \in Sextet
         /\ Sextet3(b, c) \in Sextet /\ Sextet4(c) \in Sextet
BY SMTT(60) DEF Byte, Sextet, Sextet1, Sextet2, Sextet3, Sextet4

(* From bytes to sextets and back.                                         *)
LEMMA OctetsBack ==
  ASSUME NEW a \in Byte, NEW b \in Byte, NEW c \in Byte
  PROVE  /\ Octet1(Sextet1(a), Sextet2(a, b)) = a
         /\ Octet2(Sextet2(a, b), Sextet3(b, c)) = b
         /\ Octet3(Sextet3(b, c), Sextet4(c)) = c
<1> USE DEF Byte, Octet1, Octet2, Octet3, Sextet1, Sextet2, Sextet3, Sextet4
<1>1. Octet1(Sextet1(a), Sextet2(a, b)) = a
  BY SMTT(60)
<1>2. Octet2(Sextet2(a, b), Sextet3(b, c)) = b
  BY SMTT(60)
<1>3. Octet3(Sextet3(b, c), Sextet4(c)) = c
  BY SMTT(60)
<1> QED
  BY <1>1, <1>2, <1>3

(* What the page writes for one byte that is left over, and for two.       *)
LEMMA RestOfOne ==
  ASSUME NEW d \in Byte
  PROVE  d \div 4 = Sextet1(d) /\ (d * 16) % 64 = Sextet2(d, 0)
BY SMTT(60) DEF Byte, Sextet1, Sextet2

LEMMA RestOfTwo ==
  ASSUME NEW d \in Byte, NEW e \in Byte, NEW two, two = d * 256 + e
  PROVE  /\ two \div 1024 = Sextet1(d)
         /\ (two \div 16) % 64 = Sextet2(d, e)
         /\ (two * 4) % 64 = Sextet3(e, 0)
<1> USE DEF Byte, Sextet1, Sextet2, Sextet3
<1>1. two \div 1024 = Sextet1(d)
  BY SMTT(60)
<1>2. (two \div 16) % 64 = Sextet2(d, e)
  BY SMTT(60)
<1>3. (two * 4) % 64 = Sextet3(e, 0)
  BY SMTT(60)
<1> QED
  BY <1>1, <1>2, <1>3

(* And what it reads.                                                      *)
LEMMA OneBack ==
  ASSUME NEW d \in Byte
  PROVE  (Sextet1(d) * 4 + Sextet2(d, 0) \div 16) % 256 = d
BY SMTT(60) DEF Byte, Sextet1, Sextet2

LEMMA TwoBack ==
  ASSUME NEW d \in Byte, NEW e \in Byte, NEW two,
         two = Sextet1(d) * 1024 + Sextet2(d, e) * 16 + Sextet3(e, 0) \div 4
  PROVE  (two \div 256) % 256 = d /\ two % 256 = e
<1> /\ d \in Nat /\ d <= 255 /\ e \in Nat /\ e <= 255
    /\ 4 \in Nat \ {0} /\ 16 \in Nat \ {0}
  BY ByteBounds, SMTT(60)
<1>1. PICK d1 \in Nat, d0 \in Nat : d0 < 4 /\ Cut(d, 4, d1, d0)
  BY Divided, Zenon
<1>2. PICK e1 \in Nat, e0 \in Nat : e0 < 16 /\ Cut(e, 16, e1, e0)
  BY Divided, Zenon
<1>3. d = 4 * d1 + d0 /\ e = 16 * e1 + e0
  BY <1>1, <1>2, Zenon DEF Cut
<1>4. Sextet1(d) = d1 /\ Sextet2(d, e) = d0 * 16 + e1 /\ Sextet3(e, 0) = e0 * 4
  <2>1. d \div 4 = d1 /\ d % 4 = d0 /\ e \div 16 = e1 /\ e % 16 = e0
    BY <1>1, <1>2, Zenon DEF Cut
  <2> QED
    BY <2>1, SMTT(60) DEF Sextet1, Sextet2, Sextet3
<1>5. (e0 * 4) \div 4 = e0
  BY SMTT(60)
<1>6. two \in Nat /\ two = 256 * d + e
  BY <1>3, <1>4, <1>5, SMTT(60)
<1>7. two \div 256 = d /\ two % 256 = e
  BY <1>6, SMTT(60)
<1> QED
  BY <1>7, SMTT(60)

-----------------------------------------------------------------------------
(* The two encoders, quantum by quantum.                                   *)

(* The byte at k, and zero behind the end.                                 *)
At(data, k) == IF k <= Len(data) THEN data[k] ELSE 0

(* The number of quanta, of three bytes or what is left of three each.     *)
Quanta(w, n) == n <= 3 * w /\ 3 * w <= n + 2

(* The four characters of the quantum that follows a others.               *)
Quantum(text, data, a) ==
  /\ text[4 * a + 1] = Sextet1(At(data, 3 * a + 1))
  /\ text[4 * a + 2] = Sextet2(At(data, 3 * a + 1), At(data, 3 * a + 2))
  /\ text[4 * a + 3] = IF 3 * a + 2 <= Len(data)
                       THEN Sextet3(At(data, 3 * a + 2), At(data, 3 * a + 3)) ELSE Pad
  /\ text[4 * a + 4] = IF 3 * a + 3 <= Len(data) THEN Sextet4(At(data, 3 * a + 3)) ELSE Pad

Listed(f, m) == f = [k \in 1 .. m |-> f[k]]

Coded(text, data, w) ==
  /\ Listed(text, 4 * w)
  /\ \A a \in Nat : a < w => Quantum(text, data, a)

LEMMA AtIsByte ==
  ASSUME NEW data \in Seq(Byte), NEW k \in Nat \ {0}
  PROVE  At(data, k) \in Byte
<1>1. 0 \in Byte
  BY SMTT(60) DEF Byte
<1>2. k <= Len(data) => data[k] \in Byte
  BY SMTT(60)
<1> QED
  BY <1>1, <1>2, Zenon DEF At

LEMMA QuantaOf ==
  ASSUME NEW n \in Nat
  PROVE  \E w \in Nat : Quanta(w, n) /\ (n + 2) \div 3 = w
<1>1. (n + 2) \div 3 \in Nat /\ n <= 3 * ((n + 2) \div 3)
      /\ 3 * ((n + 2) \div 3) <= n + 2
  BY SMTT(60)
<1> QED
  BY <1>1, Zenon DEF Quanta

LEMMA QuantaAre ==
  ASSUME NEW n \in Nat, NEW w \in Nat, Quanta(w, n)
  PROVE  /\ (n + 2) \div 3 = w
         /\ mod_table[(n % 3) + 1] = 3 * w - n
<1> n <= 3 * w /\ 3 * w <= n + 2
  BY Zenon DEF Quanta
<1>1. (n + 2) \div 3 = w
  BY SMTT(60)
<1>2. \/ n = 3 * w /\ n % 3 = 0
      \/ n = 3 * w - 1 /\ n % 3 = 2
      \/ n = 3 * w - 2 /\ n % 3 = 1
  BY SMTT(60)
<1>3. mod_table[1] = 0 /\ mod_table[2] = 2 /\ mod_table[3] = 1
  BY DEF mod_table
<1>4. mod_table[(n % 3) + 1] = 3 * w - n
  BY <1>2, <1>3, SMTT(60)
<1> QED
  BY <1>1, <1>4

LEMMA FourthsOf ==
  ASSUME NEW a \in Nat, NEW b \in 0 .. 3
  PROVE  ((4 * a + b + 1) - 1) \div 4 = a /\ ((4 * a + b + 1) - 1) % 4 = b
BY SMTT(60)

LEMMA ThirdsOf ==
  ASSUME NEW a \in Nat, NEW b \in 0 .. 2
  PROVE  ((3 * a + b + 1) - 1) \div 3 = a /\ ((3 * a + b + 1) - 1) % 3 = b
BY SMTT(60)

LEMMA FourthsIn ==
  ASSUME NEW w \in Nat, NEW k \in 1 .. 4 * w
  PROVE  \E a \in Nat, b \in 0 .. 3 : a < w /\ k = 4 * a + b + 1
<1>1. (k - 1) \div 4 \in Nat /\ (k - 1) % 4 \in 0 .. 3 /\ (k - 1) \div 4 < w
      /\ k = 4 * ((k - 1) \div 4) + ((k - 1) % 4) + 1
  BY SMTT(60)
<1> QED
  BY <1>1

LEMMA ThirdsIn ==
  ASSUME NEW k \in Nat \ {0}
  PROVE  \E a \in Nat, b \in 0 .. 2 : k = 3 * a + b + 1
<1>1. (k - 1) \div 3 \in Nat /\ (k - 1) % 3 \in 0 .. 2
      /\ k = 3 * ((k - 1) \div 3) + ((k - 1) % 3) + 1
  BY SMTT(60)
<1> QED
  BY <1>1

TripleOf(data, q) ==
  OfBytes(At(data, 3 * q + 1), At(data, 3 * q + 2), At(data, 3 * q + 3))

LEMMA EncodeForm ==
  ASSUME NEW data
  PROVE  base64_encode2(data) =
           [k \in 1 .. 4 * ((Len(data) + 2) \div 3) |->
              IF k > 4 * ((Len(data) + 2) \div 3) - mod_table[(Len(data) % 3) + 1]
              THEN Pad
              ELSE SextetOf(TripleOf(data, (k - 1) \div 4), (k - 1) % 4)]
BY Zenon DEF base64_encode2, TripleOf, At

(* The characters of a whole quantum.                                      *)
LEMMA SextetsAt ==
  ASSUME NEW data \in Seq(Byte), NEW a \in Nat
  PROVE  /\ SextetOf(TripleOf(data, a), 0) = Sextet1(At(data, 3 * a + 1))
         /\ SextetOf(TripleOf(data, a), 1)
              = Sextet2(At(data, 3 * a + 1), At(data, 3 * a + 2))
         /\ SextetOf(TripleOf(data, a), 2)
              = Sextet3(At(data, 3 * a + 2), At(data, 3 * a + 3))
         /\ SextetOf(TripleOf(data, a), 3) = Sextet4(At(data, 3 * a + 3))
<1>1. 3 * a + 1 \in Nat \ {0} /\ 3 * a + 2 \in Nat \ {0} /\ 3 * a + 3 \in Nat \ {0}
  BY SMTT(60)
<1>2. PICK d \in Byte, e \in Byte, f \in Byte :
        d = At(data, 3 * a + 1) /\ e = At(data, 3 * a + 2) /\ f = At(data, 3 * a + 3)
  BY <1>1, AtIsByte
<1>3. TripleOf(data, a) = OfBytes(d, e, f)
  BY <1>2, Zenon DEF TripleOf
<1>4. PICK x : x = OfBytes(d, e, f)
  OBVIOUS
<1>5. /\ SextetOf(x, 0) = Sextet1(d) /\ SextetOf(x, 1) = Sextet2(d, e)
      /\ SextetOf(x, 2) = Sextet3(e, f) /\ SextetOf(x, 3) = Sextet4(f)
  BY <1>4, SextetsOf, SMTT(60)
<1> QED
  BY <1>2, <1>3, <1>4, <1>5, Zenon

LEMMA EncodeIs ==
  ASSUME NEW data \in Seq(Byte), NEW w \in Nat, Quanta(w, Len(data))
  PROVE  Coded(base64_encode2(data), data, w)
<1> DEFINE n == Len(data)
<1>1. PICK text : text = base64_encode2(data)
  OBVIOUS
<1>2. n \in Nat /\ n <= 3 * w /\ 3 * w <= n + 2
  BY LenProperties, Zenon DEF Quanta
<1>3. (n + 2) \div 3 = w /\ mod_table[(n % 3) + 1] = 3 * w - n
  BY <1>2, QuantaAre, Zenon
<1>4. 4 * w - (3 * w - n) = w + n
  BY <1>2, SMTT(60)
<1>5. text = [k \in 1 .. 4 * w |-> IF k > 4 * w - (3 * w - n) THEN Pad
                ELSE SextetOf(TripleOf(data, (k - 1) \div 4), (k - 1) % 4)]
  BY <1>1, <1>3, EncodeForm, Zenon
<1>6. ASSUME NEW a \in Nat, a < w, NEW b \in 0 .. 3
      PROVE  text[4 * a + b + 1] = IF 4 * a + b + 1 > w + n THEN Pad
                                   ELSE SextetOf(TripleOf(data, a), b)
  <2>1. PICK k : k = 4 * a + b + 1
    OBVIOUS
  <2>2. k \in 1 .. 4 * w
    BY <1>6, <2>1, SMTT(60)
  <2>3. (k - 1) \div 4 = a /\ (k - 1) % 4 = b
    BY <2>1, FourthsOf, Zenon
  <2> QED
    BY <1>4, <1>5, <2>1, <2>2, <2>3, Zenon
<1>7. ASSUME NEW a \in Nat, a < w
      PROVE  Quantum(text, data, a)
  <2>1. /\ 0 \in 0 .. 3 /\ 1 \in 0 .. 3 /\ 2 \in 0 .. 3 /\ 3 \in 0 .. 3
        /\ 4 * a + 0 + 1 = 4 * a + 1 /\ 4 * a + 1 + 1 = 4 * a + 2
        /\ 4 * a + 2 + 1 = 4 * a + 3 /\ 4 * a + 3 + 1 = 4 * a + 4
    BY SMTT(60)
  <2>2. /\ ~(4 * a + 1 > w + n) /\ ~(4 * a + 2 > w + n)
        /\ 4 * a + 3 > w + n <=> ~(3 * a + 2 <= n)
        /\ 4 * a + 4 > w + n <=> ~(3 * a + 3 <= n)
    BY <1>2, <1>7, SMTT(60)
  <2>3. /\ text[4 * a + 1] = SextetOf(TripleOf(data, a), 0)
        /\ text[4 * a + 2] = SextetOf(TripleOf(data, a), 1)
        /\ text[4 * a + 3] = IF 3 * a + 2 <= n THEN SextetOf(TripleOf(data, a), 2) ELSE Pad
        /\ text[4 * a + 4] = IF 3 * a + 3 <= n THEN SextetOf(TripleOf(data, a), 3) ELSE Pad
    <3>1. /\ text[4 * a + 0 + 1] = IF 4 * a + 0 + 1 > w + n THEN Pad
                                   ELSE SextetOf(TripleOf(data, a), 0)
          /\ text[4 * a + 1 + 1] = IF 4 * a + 1 + 1 > w + n THEN Pad
                                   ELSE SextetOf(TripleOf(data, a), 1)
          /\ text[4 * a + 2 + 1] = IF 4 * a + 2 + 1 > w + n THEN Pad
                                   ELSE SextetOf(TripleOf(data, a), 2)
          /\ text[4 * a + 3 + 1] = IF 4 * a + 3 + 1 > w + n THEN Pad
                                   ELSE SextetOf(TripleOf(data, a), 3)
      BY <1>6, <1>7, <2>1, Zenon
    <3> QED
      BY <2>1, <2>2, <3>1, Zenon
  <2> QED
    BY <2>3, SextetsAt, Zenon DEF Quantum
<1>8. Listed(text, 4 * w)
  BY <1>5, SMTT(60) DEF Listed
<1> QED
  BY <1>1, <1>7, <1>8, Zenon DEF Coded

(* A text is determined by what it codes.                                  *)
LEMMA CodedOnce ==
  ASSUME NEW data, NEW w \in Nat, NEW s, NEW t, Coded(s, data, w), Coded(t, data, w)
  PROVE  s = t
<1>1. ASSUME NEW k \in 1 .. 4 * w
      PROVE  s[k] = t[k]
  <2>1. PICK a \in Nat, b \in 0 .. 3 : a < w /\ k = 4 * a + b + 1
    BY FourthsIn
  <2>2. Quantum(s, data, a) /\ Quantum(t, data, a)
    BY <2>1, Zenon DEF Coded
  <2>3. \/ k = 4 * a + 1 \/ k = 4 * a + 2 \/ k = 4 * a + 3 \/ k = 4 * a + 4
    BY <2>1, SMTT(60)
  <2> QED
    BY <2>2, <2>3, Zenon DEF Quantum
<1>2. s = [k \in 1 .. 4 * w |-> s[k]] /\ t = [k \in 1 .. 4 * w |-> t[k]]
  BY Zenon DEF Coded, Listed
<1>3. PICK K : K = 1 .. 4 * w
  OBVIOUS
<1>4. [k \in K |-> s[k]] = [k \in K |-> t[k]]
  BY <1>1, <1>3, Zenon
<1> QED
  BY <1>2, <1>3, <1>4, Zenon

LEMMA CharBounds ==
  ASSUME NEW c, c \in Sextet \/ c = Pad
  PROVE  c \in 0 .. Pad
BY SMTT(60) DEF Sextet, Pad

LEMMA CodedTyped ==
  ASSUME NEW data \in Seq(Byte), NEW w \in Nat, NEW text, Coded(text, data, w)
  PROVE  text \in Seq(0 .. Pad) /\ Len(text) = 4 * w
<1>1. ASSUME NEW k \in 1 .. 4 * w
      PROVE  text[k] \in 0 .. Pad
  <2>1. PICK a \in Nat, b \in 0 .. 3 : a < w /\ k = 4 * a + b + 1
    BY FourthsIn
  <2>2. Quantum(text, data, a)
    BY <2>1, Zenon DEF Coded
  <2>3. \/ k = 4 * a + 1 \/ k = 4 * a + 2 \/ k = 4 * a + 3 \/ k = 4 * a + 4
    BY <2>1, SMTT(60)
  <2>4. 3 * a + 1 \in Nat \ {0} /\ 3 * a + 2 \in Nat \ {0} /\ 3 * a + 3 \in Nat \ {0}
    BY SMTT(60)
  <2>5. PICK d \in Byte, e \in Byte, f \in Byte :
          d = At(data, 3 * a + 1) /\ e = At(data, 3 * a + 2) /\ f = At(data, 3 * a + 3)
    BY <2>4, AtIsByte
  <2>6. \/ text[k] = Sextet1(d) \/ text[k] = Sextet2(d, e)
        \/ text[k] = Sextet3(e, f) \/ text[k] = Sextet4(f) \/ text[k] = Pad
    BY <2>2, <2>3, <2>5, Zenon DEF Quantum
  <2>7. text[k] \in Sextet \/ text[k] = Pad
    BY <2>6, SextetsTyped, Zenon
  <2> QED
    BY <2>7, CharBounds, Zenon
<1>2. text = [k \in 1 .. 4 * w |-> text[k]] /\ 4 * w \in Nat
  BY SMTT(60) DEF Coded, Listed
<1>3. text \in [1 .. 4 * w -> 0 .. Pad]
  BY <1>1, <1>2, Zenon
<1> QED
  BY <1>2, <1>3, SMTT(60)

-----------------------------------------------------------------------------
(* What encoding any bytes gives.                                          *)

Joins(t, f, g, m, j) ==
  /\ Listed(t, m + j)
  /\ \A k \in 1 .. m : t[k] = f[k]
  /\ \A k \in 1 .. j : t[m + k] = g[k]

LEMMA ListedIs ==
  ASSUME NEW m \in Nat, NEW f, Listed(f, m)
  PROVE  \E S : f \in Seq(S) /\ Len(f) = m
<1>1. PICK S : S = {f[k] : k \in 1 .. m}
  OBVIOUS
<1>2. f \in [1 .. m -> S]
  BY <1>1, SMTT(60) DEF Listed
<1>3. f \in Seq(S) /\ Len(f) = m
  BY <1>2, SMTT(60)
<1> QED
  BY <1>3

LEMMA SeqListed ==
  ASSUME NEW S, NEW m \in Nat, NEW f \in Seq(S), Len(f) = m
  PROVE  Listed(f, m)
BY SMTT(60) DEF Listed

LEMMA WiderSeq ==
  ASSUME NEW S, NEW T, S \subseteq T, NEW f \in Seq(S)
  PROVE  f \in Seq(T)
OBVIOUS

LEMMA JoinedAt ==
  ASSUME NEW m \in Nat, NEW j \in Nat, NEW f, NEW g, Listed(f, m), Listed(g, j)
  PROVE  Joins(f \o g, f, g, m, j)
<1>1. PICK F : f \in Seq(F) /\ Len(f) = m
  BY ListedIs, Zenon
<1>2. PICK G : g \in Seq(G) /\ Len(g) = j
  BY ListedIs, Zenon
<1>3. PICK S : S = F \cup G
  OBVIOUS
<1>4. F \subseteq S /\ G \subseteq S
  BY <1>3
<1>5. f \in Seq(S) /\ g \in Seq(S)
  BY <1>1, <1>2, <1>4, WiderSeq, Zenon
<1>6. PICK t : t = f \o g
  OBVIOUS
<1>7. t \in Seq(S) /\ Len(t) = m + j
      /\ \A k \in 1 .. m + j : t[k] = IF k <= m THEN f[k] ELSE g[k - m]
  BY <1>1, <1>2, <1>5, <1>6, ConcatProperties, Zenon
<1>8. m + j \in Nat
  OBVIOUS
<1>9. Listed(t, m + j)
  BY <1>7, <1>8, SeqListed, Zenon
<1>10. ASSUME NEW k \in 1 .. m
       PROVE  t[k] = f[k]
  <2>1. k \in 1 .. m + j /\ k <= m
    BY SMTT(60)
  <2> QED
    BY <1>7, <2>1, Zenon
<1>11. ASSUME NEW k \in 1 .. j
       PROVE  t[m + k] = g[k]
  <2>1. PICK l : l = m + k
    OBVIOUS
  <2>2. l \in 1 .. m + j /\ ~(l <= m) /\ l - m = k
    BY <2>1, SMTT(60)
  <2>3. t[l] = g[l - m]
    BY <1>7, <2>2, Zenon
  <2> QED
    BY <2>1, <2>2, <2>3, Zenon
<1> QED
  BY <1>6, <1>9, <1>10, <1>11, Zenon DEF Joins

(* What is joined with nothing.                                            *)
LEMMA JoinedNothing ==
  ASSUME NEW m \in Nat, NEW f, Listed(f, m), NEW g, g = << >>
  PROVE  f \o g = f
<1>1. PICK F : f \in Seq(F)
  BY ListedIs, Zenon
<1> QED
  BY <1>1, ConcatEmptySeq, Zenon

WholeTriple(data, q) == OfBytes(data[3 * q + 1], data[3 * q + 2], data[3 * q + 3])

PageFirst(data, q) ==
  [k \in 1 .. q * 4 |-> SextetOf(WholeTriple(data, (k - 1) \div 4), (k - 1) % 4)]

RestOne(last) == <<last \div 4, (last * 16) % 64, Pad, Pad>>
RestTwo(two) == <<two \div 1024, (two \div 16) % 64, (two * 4) % 64, Pad>>

PageRest(data, r) ==
  CASE r = 0 -> <<>>
    [] r = 1 -> RestOne(data[Len(data)])
    [] r = 2 -> RestTwo(data[Len(data) - 1] * 256 + data[Len(data)])

LEMMA PageForm ==
  ASSUME NEW data
  PROVE  fromByteArray(data)
           = PageFirst(data, (Len(data) - (Len(data) % 3)) \div 3)
             \o PageRest(data, Len(data) % 3)
BY Zenon DEF fromByteArray, PageFirst, PageRest, RestOne, RestTwo, WholeTriple

LEMMA PageFirstAt ==
  ASSUME NEW data \in Seq(Byte), NEW q \in Nat, 3 * q <= Len(data), NEW f,
         f = PageFirst(data, q)
  PROVE  Coded(f, data, q)
<1>1. q * 4 = 4 * q
  BY SMTT(60)
<1>2. f = [k \in 1 .. 4 * q |-> SextetOf(WholeTriple(data, (k - 1) \div 4), (k - 1) % 4)]
  BY <1>1, Zenon DEF PageFirst
<1>3. ASSUME NEW a \in Nat, a < q
      PROVE  Quantum(f, data, a)
  <2>1. /\ 3 * a + 1 <= Len(data) /\ 3 * a + 2 <= Len(data) /\ 3 * a + 3 <= Len(data)
    BY <1>3, SMTT(60)
  <2>2. WholeTriple(data, a) = TripleOf(data, a)
    BY <2>1, Zenon DEF WholeTriple, TripleOf, At
  <2>3. ASSUME NEW b \in 0 .. 3
        PROVE  f[4 * a + b + 1] = SextetOf(TripleOf(data, a), b)
    <3>1. PICK k : k = 4 * a + b + 1
      OBVIOUS
    <3>2. k \in 1 .. 4 * q
      BY <1>3, <3>1, SMTT(60)
    <3>3. (k - 1) \div 4 = a /\ (k - 1) % 4 = b
      BY <3>1, FourthsOf, Zenon
    <3> QED
      BY <1>2, <2>2, <3>1, <3>2, <3>3, Zenon
  <2>4. /\ 0 \in 0 .. 3 /\ 1 \in 0 .. 3 /\ 2 \in 0 .. 3 /\ 3 \in 0 .. 3
        /\ 4 * a + 0 + 1 = 4 * a + 1 /\ 4 * a + 1 + 1 = 4 * a + 2
        /\ 4 * a + 2 + 1 = 4 * a + 3 /\ 4 * a + 3 + 1 = 4 * a + 4
    BY SMTT(60)
  <2>5. /\ f[4 * a + 0 + 1] = SextetOf(TripleOf(data, a), 0)
        /\ f[4 * a + 1 + 1] = SextetOf(TripleOf(data, a), 1)
        /\ f[4 * a + 2 + 1] = SextetOf(TripleOf(data, a), 2)
        /\ f[4 * a + 3 + 1] = SextetOf(TripleOf(data, a), 3)
    BY <2>3, <2>4, Zenon
  <2>6. /\ f[4 * a + 1] = SextetOf(TripleOf(data, a), 0)
        /\ f[4 * a + 2] = SextetOf(TripleOf(data, a), 1)
        /\ f[4 * a + 3] = SextetOf(TripleOf(data, a), 2)
        /\ f[4 * a + 4] = SextetOf(TripleOf(data, a), 3)
    BY <2>4, <2>5, Zenon
  <2> QED
    BY <2>1, <2>6, SextetsAt, Zenon DEF Quantum
<1>4. Listed(f, 4 * q)
  BY <1>2, SMTT(60) DEF Listed
<1> QED
  BY <1>3, <1>4, Zenon DEF Coded

FourOf(g, c1, c2, c3, c4) == g = <<c1, c2, c3, c4>>

LEMMA FourAt ==
  ASSUME NEW g, NEW c1, NEW c2, NEW c3, NEW c4, FourOf(g, c1, c2, c3, c4)
  PROVE  Listed(g, 4) /\ g[1] = c1 /\ g[2] = c2 /\ g[3] = c3 /\ g[4] = c4
BY SMTT(60) DEF FourOf, Listed

(* The rest, of one byte or two.                                           *)
LEMMA PageRestIs ==
  ASSUME NEW data \in Seq(Byte), NEW q \in Nat, NEW r \in 1 .. 2, Len(data) = 3 * q + r
  PROVE  LET d == At(data, 3 * q + 1)
             e == At(data, 3 * q + 2)
         IN  FourOf(PageRest(data, r), Sextet1(d), Sextet2(d, e),
                    IF r = 2 THEN Sextet3(e, 0) ELSE Pad, Pad)
<1>1. 3 * q + 1 \in Nat \ {0} /\ 3 * q + 2 \in Nat \ {0}
  BY SMTT(60)
<1>2. PICK d \in Byte, e \in Byte : d = At(data, 3 * q + 1) /\ e = At(data, 3 * q + 2)
  BY <1>1, AtIsByte
<1>3. CASE r = 1
  <2>1. Len(data) = 3 * q + 1 /\ ~(3 * q + 2 <= Len(data)) /\ 3 * q + 1 <= Len(data)
    BY <1>3, SMTT(60)
  <2>2. d = data[Len(data)] /\ e = 0
    BY <1>2, <2>1, Zenon DEF At
  <2>3. ~(r = 0) /\ ~(r = 2)
    BY <1>3, SMTT(60)
  <2>4. PageRest(data, r) = RestOne(d)
    BY <1>3, <2>2, <2>3, Zenon DEF PageRest
  <2>5. d \div 4 = Sextet1(d) /\ (d * 16) % 64 = Sextet2(d, 0)
    BY RestOfOne, SMTT(60)
  <2>6. RestOne(d) = <<Sextet1(d), Sextet2(d, 0), Pad, Pad>>
    BY <2>5, SMTT(60) DEF RestOne
  <2> QED
    BY <1>2, <2>2, <2>3, <2>4, <2>6, Zenon DEF FourOf
<1>4. CASE r = 2
  <2>1. Len(data) = 3 * q + 2 /\ Len(data) - 1 = 3 * q + 1 /\ 3 * q + 1 <= Len(data)
        /\ 3 * q + 2 <= Len(data)
    BY <1>4, SMTT(60)
  <2>2. e = data[Len(data)] /\ d = data[Len(data) - 1]
    BY <1>2, <2>1, Zenon DEF At
  <2>3. ~(r = 0) /\ ~(r = 1)
    BY <1>4, SMTT(60)
  <2>4. PICK two : two = d * 256 + e
    OBVIOUS
  <2>5. PageRest(data, r) = RestTwo(two)
    BY <1>4, <2>2, <2>3, <2>4, Zenon DEF PageRest
  <2>6. /\ two \div 1024 = Sextet1(d) /\ (two \div 16) % 64 = Sextet2(d, e)
        /\ (two * 4) % 64 = Sextet3(e, 0)
    BY <2>4, RestOfTwo, SMTT(60)
  <2>7. RestTwo(two) = <<Sextet1(d), Sextet2(d, e), Sextet3(e, 0), Pad>>
    BY <2>6, SMTT(60) DEF RestTwo
  <2> QED
    BY <1>2, <1>4, <2>5, <2>7, Zenon DEF FourOf
<1> QED
  BY <1>3, <1>4, SMTT(60)

LEMMA FromIs ==
  ASSUME NEW data \in Seq(Byte), NEW w \in Nat, Quanta(w, Len(data))
  PROVE  Coded(fromByteArray(data), data, w)
<1>1. PICK n \in Nat : n = Len(data)
  BY LenProperties
<1>2. n <= 3 * w /\ 3 * w <= n + 2
  BY <1>1, Zenon DEF Quanta
<1>3. PICK q \in Nat, r \in 0 .. 2 : n = 3 * q + r /\ n % 3 = r /\ (n - r) \div 3 = q
  <2>1. n \div 3 \in Nat /\ n % 3 \in 0 .. 2 /\ n = 3 * (n \div 3) + (n % 3)
        /\ (n - (n % 3)) \div 3 = n \div 3
    BY SMTT(60)
  <2> QED
    BY <2>1
<1>4. PICK f, g : f = PageFirst(data, q) /\ g = PageRest(data, r)
                  /\ fromByteArray(data) = f \o g
  BY <1>1, <1>3, PageForm, Zenon
<1>5. 3 * q <= Len(data)
  BY <1>1, <1>3, SMTT(60)
<1>6. Coded(f, data, q) /\ Listed(f, 4 * q)
  BY <1>4, <1>5, PageFirstAt, Zenon DEF Coded
<1>7. CASE r = 0
  <2>1. w = q
    BY <1>2, <1>3, <1>7, SMTT(60)
  <2>2. g = << >>
    BY <1>4, <1>7 DEF PageRest
  <2>3. 4 * q \in Nat
    BY SMTT(60)
  <2>4. f \o g = f
    BY <1>6, <2>2, <2>3, JoinedNothing, Zenon
  <2> QED
    BY <1>4, <1>6, <2>1, <2>4, Zenon
<1>8. CASE r # 0
  <2>1. r \in 1 .. 2 /\ w = q + 1 /\ 4 * q \in Nat /\ 4 \in Nat /\ 4 * w = 4 * q + 4
    BY <1>2, <1>3, <1>8, SMTT(60)
  <2>2. PICK d, e : d = At(data, 3 * q + 1) /\ e = At(data, 3 * q + 2)
    OBVIOUS
  <2>3. FourOf(g, Sextet1(d), Sextet2(d, e), IF r = 2 THEN Sextet3(e, 0) ELSE Pad, Pad)
    BY <1>1, <1>3, <1>4, <2>1, <2>2, PageRestIs, Zenon
  <2>4. /\ Listed(g, 4)
        /\ g[1] = Sextet1(d) /\ g[2] = Sextet2(d, e)
        /\ g[3] = IF r = 2 THEN Sextet3(e, 0) ELSE Pad
        /\ g[4] = Pad
    BY <2>3, FourAt, Zenon
  <2>5. PICK text : text = f \o g /\ Joins(text, f, g, 4 * q, 4)
    BY <1>6, <2>1, <2>4, JoinedAt, Zenon
  <2>6. /\ Listed(text, 4 * w)
        /\ \A k \in 1 .. 4 * q : text[k] = f[k]
        /\ \A k \in 1 .. 4 : text[4 * q + k] = g[k]
    BY <2>1, <2>5, Zenon DEF Joins
  <2>7. ASSUME NEW a \in Nat, a < q
        PROVE  Quantum(text, data, a)
    <3>1. /\ 4 * a + 1 \in 1 .. 4 * q /\ 4 * a + 2 \in 1 .. 4 * q
          /\ 4 * a + 3 \in 1 .. 4 * q /\ 4 * a + 4 \in 1 .. 4 * q
      BY <2>7, SMTT(60)
    <3>2. /\ text[4 * a + 1] = f[4 * a + 1] /\ text[4 * a + 2] = f[4 * a + 2]
          /\ text[4 * a + 3] = f[4 * a + 3] /\ text[4 * a + 4] = f[4 * a + 4]
      BY <2>6, <3>1, Zenon
    <3>3. Quantum(f, data, a)
      BY <1>6, <2>7, Zenon DEF Coded
    <3> QED
      BY <3>2, <3>3, Zenon DEF Quantum
  <2>8. Quantum(text, data, q)
    <3>1. 1 \in 1 .. 4 /\ 2 \in 1 .. 4 /\ 3 \in 1 .. 4 /\ 4 \in 1 .. 4
      BY SMTT(60)
    <3>2. /\ text[4 * q + 1] = g[1] /\ text[4 * q + 2] = g[2]
          /\ text[4 * q + 3] = g[3] /\ text[4 * q + 4] = g[4]
      BY <2>6, <3>1, Zenon
    <3>3. ~(3 * q + 3 <= Len(data)) /\ (3 * q + 2 <= Len(data) <=> r = 2)
      BY <1>1, <1>3, <2>1, SMTT(60)
    <3>4. At(data, 3 * q + 3) = 0
      BY <3>3, Zenon DEF At
    <3> QED
      BY <2>2, <2>4, <3>2, <3>3, <3>4, Zenon DEF Quantum
  <2>9. ASSUME NEW a \in Nat, a < w
        PROVE  Quantum(text, data, a)
    <3>1. a < q \/ a = q
      BY <2>1, <2>9, SMTT(60)
    <3> QED
      BY <2>7, <2>8, <3>1, Zenon
  <2> QED
    BY <1>4, <2>1, <2>5, <2>6, <2>9, Zenon DEF Coded
<1> QED
  BY <1>7, <1>8, Zenon

-----------------------------------------------------------------------------
(* The decoders undo it.                                                   *)

(* The sextet that a character stands for.                                 *)
Clear(text, k) == IF text[k] = Pad THEN 0 ELSE text[k]

ClearTriple(text, q) ==
  OfSextets(Clear(text, 4 * q + 1), Clear(text, 4 * q + 2),
            Clear(text, 4 * q + 3), Clear(text, 4 * q + 4))

LEMMA UnpackedForm ==
  ASSUME NEW text, NEW length
  PROVE  Unpacked(text, length) =
           [k \in 1 .. length |-> ByteOf(ClearTriple(text, (k - 1) \div 3), (k - 1) % 3)]
BY Zenon DEF Unpacked, ClearTriple, Clear

LEMMA SextetNoPad ==
  ASSUME NEW s \in Sextet
  PROVE  s # Pad
BY SMTT(60) DEF Sextet, Pad

(* What is behind the data counts as zero.                                 *)
LEMMA Behind == Sextet3(0, 0) = 0 /\ Sextet4(0) = 0
BY SMTT(60) DEF Sextet3, Sextet4

(* Four sextets of a quantum, and the bytes they came from.                *)
LEMMA BytesOfSextets ==
  ASSUME NEW d \in Byte, NEW e \in Byte, NEW f \in Byte, NEW x,
         x = OfSextets(Sextet1(d), Sextet2(d, e), Sextet3(e, f), Sextet4(f))
  PROVE  ByteOf(x, 0) = d /\ ByteOf(x, 1) = e /\ ByteOf(x, 2) = f
<1>1. PICK s \in Sextet, t \in Sextet, u \in Sextet, v \in Sextet :
        s = Sextet1(d) /\ t = Sextet2(d, e) /\ u = Sextet3(e, f) /\ v = Sextet4(f)
  BY SextetsTyped
<1>2. x = OfSextets(s, t, u, v)
  BY <1>1, Zenon
<1>3. ByteOf(x, 0) = Octet1(s, t) /\ ByteOf(x, 1) = Octet2(t, u) /\ ByteOf(x, 2) = Octet3(u, v)
  BY <1>2, OctetsOf, SMTT(60)
<1>4. Octet1(s, t) = d /\ Octet2(t, u) = e /\ Octet3(u, v) = f
  BY <1>1, OctetsBack, SMTT(60)
<1> QED
  BY <1>3, <1>4, Zenon

OctetsAre(x, data, a) ==
  /\ ByteOf(x, 0) = At(data, 3 * a + 1)
  /\ ByteOf(x, 1) = At(data, 3 * a + 2)
  /\ ByteOf(x, 2) = At(data, 3 * a + 3)

LEMMA QuantumCleared ==
  ASSUME NEW data \in Seq(Byte), NEW text, NEW a \in Nat, Quantum(text, data, a)
  PROVE  OctetsAre(ClearTriple(text, a), data, a)
<1>1. 3 * a + 1 \in Nat \ {0} /\ 3 * a + 2 \in Nat \ {0} /\ 3 * a + 3 \in Nat \ {0}
  BY SMTT(60)
<1>2. PICK d \in Byte, e \in Byte, f \in Byte :
        d = At(data, 3 * a + 1) /\ e = At(data, 3 * a + 2) /\ f = At(data, 3 * a + 3)
  BY <1>1, AtIsByte
<1>3. /\ Sextet1(d) # Pad /\ Sextet2(d, e) # Pad
      /\ Sextet3(e, f) # Pad /\ Sextet4(f) # Pad
  BY SextetsTyped, SextetNoPad, Zenon
<1>4. Clear(text, 4 * a + 1) = Sextet1(d) /\ Clear(text, 4 * a + 2) = Sextet2(d, e)
  BY <1>2, <1>3, Zenon DEF Quantum, Clear
<1>5. Clear(text, 4 * a + 3) = Sextet3(e, f)
  <2>1. CASE 3 * a + 2 <= Len(data)
    BY <1>2, <1>3, <2>1, Zenon DEF Quantum, Clear
  <2>2. CASE ~(3 * a + 2 <= Len(data))
    <3>1. ~(3 * a + 3 <= Len(data))
      BY <2>2, SMTT(60)
    <3>2. e = 0 /\ f = 0
      BY <1>2, <2>2, <3>1, Zenon DEF At
    <3> QED
      BY <2>2, <3>2, Behind, Zenon DEF Quantum, Clear
  <2> QED
    BY <2>1, <2>2, Zenon
<1>6. Clear(text, 4 * a + 4) = Sextet4(f)
  <2>1. CASE 3 * a + 3 <= Len(data)
    BY <1>2, <1>3, <2>1, Zenon DEF Quantum, Clear
  <2>2. CASE ~(3 * a + 3 <= Len(data))
    <3>1. f = 0
      BY <1>2, <2>2, Zenon DEF At
    <3> QED
      BY <2>2, <3>1, Behind, Zenon DEF Quantum, Clear
  <2> QED
    BY <2>1, <2>2, Zenon
<1>7. ClearTriple(text, a) = OfSextets(Sextet1(d), Sextet2(d, e), Sextet3(e, f), Sextet4(f))
  BY <1>4, <1>5, <1>6, Zenon DEF ClearTriple
<1>8. PICK x : x = ClearTriple(text, a)
  OBVIOUS
<1>9. x = OfSextets(Sextet1(d), Sextet2(d, e), Sextet3(e, f), Sextet4(f))
  BY <1>7, <1>8, Zenon
<1>10. ByteOf(x, 0) = d /\ ByteOf(x, 1) = e /\ ByteOf(x, 2) = f
  BY <1>9, BytesOfSextets, SMTT(60)
<1> QED
  BY <1>2, <1>8, <1>10, Zenon DEF OctetsAre

(* Taken for each place, that is the data.                                 *)
TriplesHold(triple, data, n) ==
  \A a \in Nat : 3 * a + 1 <= n => OctetsAre(triple[a], data, a)
OctetsIn(bytes, triple, n) ==
  \A k \in 1 .. n : bytes[k] = ByteOf(triple[(k - 1) \div 3], (k - 1) % 3)

LEMMA OctetsGive ==
  ASSUME NEW data \in Seq(Byte), NEW n \in Nat, n <= Len(data), NEW triple, NEW bytes,
         TriplesHold(triple, data, n), OctetsIn(bytes, triple, n), NEW k \in 1 .. n
  PROVE  bytes[k] = data[k]
<1>1. k \in Nat \ {0} /\ k <= n /\ k <= Len(data)
  BY SMTT(60)
<1>2. PICK a \in Nat, b \in 0 .. 2 : k = 3 * a + b + 1
  BY <1>1, ThirdsIn, Zenon
<1>3. (k - 1) \div 3 = a /\ (k - 1) % 3 = b
  BY <1>2, ThirdsOf, Zenon
<1>4. bytes[k] = ByteOf(triple[a], b)
  BY <1>3, Zenon DEF OctetsIn
<1>5. 3 * a + 1 <= n
  BY <1>1, <1>2, SMTT(60)
<1>6. OctetsAre(triple[a], data, a)
  BY <1>5, Zenon DEF TriplesHold
<1>7. \/ b = 0 /\ k = 3 * a + 1
      \/ b = 1 /\ k = 3 * a + 2
      \/ b = 2 /\ k = 3 * a + 3
  BY <1>2, SMTT(60)
<1>8. bytes[k] = At(data, k)
  BY <1>4, <1>6, <1>7, Zenon DEF OctetsAre
<1> QED
  BY <1>1, <1>8, Zenon DEF At

LEMMA SameListed ==
  ASSUME NEW n \in Nat, NEW f, NEW g, Listed(f, n), Listed(g, n),
         \A k \in 1 .. n : f[k] = g[k]
  PROVE  f = g
<1>1. PICK K : K = 1 .. n
  OBVIOUS
<1>2. [k \in K |-> f[k]] = [k \in K |-> g[k]]
  BY <1>1, Zenon
<1> QED
  BY <1>1, <1>2, Zenon DEF Listed

(* The last two characters tell what is missing.                           *)
LEMMA LastOf ==
  ASSUME NEW data \in Seq(Byte), NEW w \in Nat, w # 0, Quanta(w, Len(data)), NEW text,
         Coded(text, data, w)
  PROVE  /\ Len(text) = 4 * w
         /\ text[Len(text)] = Pad <=> Len(data) < 3 * w
         /\ text[Len(text) - 1] = Pad <=> Len(data) < 3 * w - 1
         /\ Pads(text) = 3 * w - Len(data)
<1>1. Len(text) = 4 * w
  BY CodedTyped, Zenon
<1>2. PICK a \in Nat : w = a + 1
  BY SMTT(60)
<1>3. a < w /\ 4 * w = 4 * a + 4 /\ 4 * w - 1 = 4 * a + 3
  BY <1>2, SMTT(60)
<1>4. Quantum(text, data, a)
  BY <1>3, Zenon DEF Coded
<1>5. 3 * a + 1 \in Nat \ {0} /\ 3 * a + 2 \in Nat \ {0} /\ 3 * a + 3 \in Nat \ {0}
  BY SMTT(60)
<1>6. PICK d \in Byte, e \in Byte, f \in Byte :
        d = At(data, 3 * a + 1) /\ e = At(data, 3 * a + 2) /\ f = At(data, 3 * a + 3)
  BY <1>5, AtIsByte
<1>7. Sextet3(e, f) # Pad /\ Sextet4(f) # Pad
  BY SextetsTyped, SextetNoPad, Zenon
<1>8. text[4 * a + 3] = Pad <=> ~(3 * a + 2 <= Len(data))
  BY <1>4, <1>6, <1>7, Zenon DEF Quantum
<1>9. text[4 * a + 4] = Pad <=> ~(3 * a + 3 <= Len(data))
  BY <1>4, <1>6, <1>7, Zenon DEF Quantum
<1>10. PICK n \in Nat : n = Len(data)
  BY LenProperties
<1>11. n <= 3 * w /\ 3 * w <= n + 2
  BY <1>10, Zenon DEF Quanta
<1>12. text[Len(text)] = Pad <=> Len(data) < 3 * w
  BY <1>1, <1>2, <1>3, <1>9, <1>10, SMTT(60)
<1>13. text[Len(text) - 1] = Pad <=> Len(data) < 3 * w - 1
  BY <1>1, <1>2, <1>3, <1>8, <1>10, SMTT(60)
<1>14. Pads(text) = (IF n < 3 * w THEN 1 ELSE 0) + (IF n < 3 * w - 1 THEN 1 ELSE 0)
  BY <1>10, <1>12, <1>13, Zenon DEF Pads
<1>15. Pads(text) = 3 * w - n
  BY <1>11, <1>14, SMTT(60)
<1> QED
  BY <1>1, <1>10, <1>12, <1>13, <1>15, Zenon

(* What the firmware decodes is what was encoded.                          *)
LEMMA DecodeIs ==
  ASSUME NEW data \in Seq(Byte), NEW w \in Nat, w # 0, Quanta(w, Len(data)), NEW text,
         Coded(text, data, w)
  PROVE  base64_decode2(text) = data
<1>1. PICK n \in Nat : n = Len(data)
  BY LenProperties
<1>2. Len(text) = 4 * w /\ Pads(text) = 3 * w - n
  BY <1>1, LastOf, Zenon
<1>3. (4 * w) \div 4 = w /\ w * 3 - (3 * w - n) = n
  BY SMTT(60)
<1>4. base64_decode2(text) = Unpacked(text, n)
  BY <1>2, <1>3, Zenon DEF base64_decode2
<1>5. PICK bytes : bytes = Unpacked(text, n)
  OBVIOUS
<1>6. PICK triple : triple = [a \in Nat |-> ClearTriple(text, a)]
  OBVIOUS
<1>7. bytes = [k \in 1 .. n |-> ByteOf(ClearTriple(text, (k - 1) \div 3), (k - 1) % 3)]
  BY <1>5, UnpackedForm, Zenon
<1>8. ASSUME NEW k \in 1 .. n
      PROVE  bytes[k] = ByteOf(triple[(k - 1) \div 3], (k - 1) % 3)
  <2>1. (k - 1) \div 3 \in Nat
    BY SMTT(60)
  <2> QED
    BY <1>6, <1>7, <2>1, Zenon
<1>9. ASSUME NEW a \in Nat, 3 * a + 1 <= n
      PROVE  OctetsAre(triple[a], data, a)
  <2>1. n <= 3 * w
    BY <1>1, Zenon DEF Quanta
  <2>2. a < w
    BY <1>9, <2>1, SMTT(60)
  <2>3. Quantum(text, data, a)
    BY <2>2, Zenon DEF Coded
  <2> QED
    BY <1>6, <2>3, QuantumCleared, Zenon
<1>10. n <= Len(data)
  BY <1>1, SMTT(60)
<1>11. TriplesHold(triple, data, n) /\ OctetsIn(bytes, triple, n)
  BY <1>8, <1>9, Zenon DEF TriplesHold, OctetsIn
<1>14. \A k \in 1 .. n : bytes[k] = data[k]
  BY <1>10, <1>11, OctetsGive, SMTT(60)
<1>12. Listed(bytes, n)
  BY <1>7, SMTT(60) DEF Listed
<1>13. Listed(data, n)
  BY <1>1, SeqListed, Zenon
<1> QED
  BY <1>4, <1>5, <1>12, <1>13, <1>14, SameListed, Zenon

Begins(g, f, m, S) ==
  g \in Seq(S) /\ Len(g) = m /\ \A k \in 1 .. m : g[k] = f[k]

LEMMA FirstOf ==
  ASSUME NEW S, NEW f \in Seq(S), NEW m \in Nat, m <= Len(f)
  PROVE  Begins(SubSeq(f, 1, m), f, m, S)
<1>1. PICK g : g = SubSeq(f, 1, m)
  OBVIOUS
<1>2. g \in Seq(S) /\ Len(g) = m
  BY <1>1, SMTT(60)
<1>3. ASSUME NEW k \in 1 .. m
      PROVE  g[k] = f[k]
  BY <1>1, SMTT(60)
<1> QED
  BY <1>1, <1>2, <1>3, Zenon DEF Begins

(* A text cut after whole quanta codes what these hold.                    *)
LEMMA CutIs ==
  ASSUME NEW data \in Seq(Byte), NEW w \in Nat, Quanta(w, Len(data)), NEW text,
         Coded(text, data, w), NEW j \in Nat, j < w
  PROVE  /\ SubSeq(data, 1, 3 * j) \in Seq(Byte)
         /\ Len(SubSeq(data, 1, 3 * j)) = 3 * j
         /\ 3 * j < Len(data)
         /\ \A k \in 1 .. 3 * j : SubSeq(data, 1, 3 * j)[k] = data[k]
         /\ Coded(SubSeq(text, 1, 4 * j), SubSeq(data, 1, 3 * j), j)
<1>1. PICK n \in Nat : n = Len(data)
  BY LenProperties
<1>2. n <= 3 * w /\ 3 * w <= n + 2
  BY <1>1, Zenon DEF Quanta
<1>3. 3 * j < n /\ 3 * j \in Nat /\ 4 * j \in Nat /\ 4 * j <= 4 * w
  BY <1>2, SMTT(60)
<1>4. PICK first : first = SubSeq(data, 1, 3 * j)
  OBVIOUS
<1>5. /\ first \in Seq(Byte) /\ Len(first) = 3 * j
      /\ \A k \in 1 .. 3 * j : first[k] = data[k]
  BY <1>1, <1>3, <1>4, SMTT(60)
<1>6. PICK cut : cut = SubSeq(text, 1, 4 * j)
  OBVIOUS
<1>7. text \in Seq(0 .. Pad) /\ Len(text) = 4 * w
  BY CodedTyped, Zenon
<1>8. /\ cut \in Seq(0 .. Pad) /\ Len(cut) = 4 * j
      /\ \A k \in 1 .. 4 * j : cut[k] = text[k]
  <2>1. PICK m \in Nat : m = 4 * j
    BY <1>3
  <2>2. m <= Len(text) /\ cut = SubSeq(text, 1, m)
    BY <1>3, <1>6, <1>7, <2>1, Zenon
  <2>3. Begins(cut, text, m, 0 .. Pad)
    BY <1>7, <2>2, FirstOf, Zenon
  <2> QED
    BY <2>1, <2>3, Zenon DEF Begins
<1>9. Listed(cut, 4 * j)
  BY <1>3, <1>8, SeqListed, Zenon
<1>10. ASSUME NEW a \in Nat, a < j
       PROVE  Quantum(cut, first, a)
  <2>1. a < w
    BY <1>10, SMTT(60)
  <2>2. Quantum(text, data, a)
    BY <2>1, Zenon DEF Coded
  <2>3. /\ 4 * a + 1 \in 1 .. 4 * j /\ 4 * a + 2 \in 1 .. 4 * j
        /\ 4 * a + 3 \in 1 .. 4 * j /\ 4 * a + 4 \in 1 .. 4 * j
    BY <1>10, SMTT(60)
  <2>4. /\ cut[4 * a + 1] = text[4 * a + 1] /\ cut[4 * a + 2] = text[4 * a + 2]
        /\ cut[4 * a + 3] = text[4 * a + 3] /\ cut[4 * a + 4] = text[4 * a + 4]
    BY <1>8, <2>3, Zenon
  <2>5. /\ 3 * a + 1 \in 1 .. 3 * j /\ 3 * a + 2 \in 1 .. 3 * j /\ 3 * a + 3 \in 1 .. 3 * j
    BY <1>10, SMTT(60)
  <2>6. /\ 3 * a + 1 <= n /\ 3 * a + 2 <= n /\ 3 * a + 3 <= n
        /\ 3 * a + 1 <= 3 * j /\ 3 * a + 2 <= 3 * j /\ 3 * a + 3 <= 3 * j
    BY <1>3, <1>10, SMTT(60)
  <2>7. /\ At(first, 3 * a + 1) = At(data, 3 * a + 1)
        /\ At(first, 3 * a + 2) = At(data, 3 * a + 2)
        /\ At(first, 3 * a + 3) = At(data, 3 * a + 3)
    BY <1>1, <1>5, <2>5, <2>6, Zenon DEF At
  <2>8. /\ 3 * a + 2 <= Len(first) /\ 3 * a + 3 <= Len(first)
        /\ 3 * a + 2 <= Len(data) /\ 3 * a + 3 <= Len(data)
    BY <1>1, <1>5, <2>6, Zenon
  <2> QED
    BY <2>2, <2>4, <2>7, <2>8, Zenon DEF Quantum
<1>11. Coded(cut, first, j)
  BY <1>9, <1>10, Zenon DEF Coded
<1> QED
  BY <1>1, <1>3, <1>4, <1>5, <1>6, <1>11, Zenon

RawTriple(text, q) ==
  OfSextets(text[4 * q + 1], text[4 * q + 2], text[4 * q + 3], text[4 * q + 4])

ReadFirst(text, q) ==
  [k \in 1 .. q * 3 |-> ByteOf(RawTriple(text, (k - 1) \div 3), (k - 1) % 3)]

Lacks(text) ==
  IF text[Len(text) - 1] = Pad THEN 2 ELSE IF text[Len(text)] = Pad THEN 1 ELSE 0
Wholes(text) == IF Lacks(text) > 0 THEN Len(text) - 4 ELSE Len(text)

TwoBytes(two) == <<(two \div 256) % 256, two % 256>>
OneByte(s, t) == <<(s * 4 + t \div 16) % 256>>

ReadRest(text, lacks, whole) ==
  CASE lacks = 0 -> <<>>
    [] lacks = 1 -> TwoBytes(text[whole + 1] * 1024 + text[whole + 2] * 16
                               + text[whole + 3] \div 4)
    [] lacks = 2 -> OneByte(text[whole + 1], text[whole + 2])

LEMMA ReadForm ==
  ASSUME NEW text
  PROVE  toByteArray(text) = ReadFirst(text, Wholes(text) \div 4)
                             \o ReadRest(text, Lacks(text), Wholes(text))
BY Zenon DEF toByteArray, ReadFirst, ReadRest, Lacks, Wholes, TwoBytes, OneByte, RawTriple

LEMMA ReadFirstIs ==
  ASSUME NEW data \in Seq(Byte), NEW q \in Nat, 3 * q <= Len(data), NEW w \in Nat,
         q <= w, NEW text, Coded(text, data, w), NEW bytes, bytes = ReadFirst(text, q)
  PROVE  Listed(bytes, 3 * q) /\ \A k \in 1 .. 3 * q : bytes[k] = data[k]
<1>1. PICK n \in Nat : n = 3 * q
  OBVIOUS
<1>2. q * 3 = n /\ n <= Len(data)
  BY <1>1, SMTT(60)
<1>3. PICK triple : triple = [a \in Nat |-> RawTriple(text, a)]
  OBVIOUS
<1>4. bytes = [k \in 1 .. n |-> ByteOf(RawTriple(text, (k - 1) \div 3), (k - 1) % 3)]
  BY <1>2, Zenon DEF ReadFirst
<1>5. ASSUME NEW k \in 1 .. n
      PROVE  bytes[k] = ByteOf(triple[(k - 1) \div 3], (k - 1) % 3)
  <2>1. (k - 1) \div 3 \in Nat
    BY SMTT(60)
  <2> QED
    BY <1>3, <1>4, <2>1, Zenon
<1>6. ASSUME NEW a \in Nat, 3 * a + 1 <= n
      PROVE  OctetsAre(triple[a], data, a)
  <2>1. a < w /\ 3 * a + 1 <= Len(data) /\ 3 * a + 2 <= Len(data) /\ 3 * a + 3 <= Len(data)
    BY <1>1, <1>2, <1>6, SMTT(60)
  <2>2. Quantum(text, data, a)
    BY <2>1, Zenon DEF Coded
  <2>3. 3 * a + 1 \in Nat \ {0} /\ 3 * a + 2 \in Nat \ {0} /\ 3 * a + 3 \in Nat \ {0}
    BY SMTT(60)
  <2>4. PICK d \in Byte, e \in Byte, f \in Byte :
          d = At(data, 3 * a + 1) /\ e = At(data, 3 * a + 2) /\ f = At(data, 3 * a + 3)
    BY <2>3, AtIsByte
  <2>5. /\ text[4 * a + 1] = Sextet1(d) /\ text[4 * a + 2] = Sextet2(d, e)
        /\ text[4 * a + 3] = Sextet3(e, f) /\ text[4 * a + 4] = Sextet4(f)
    BY <2>1, <2>2, <2>4, Zenon DEF Quantum
  <2>6. PICK x : x = RawTriple(text, a)
    OBVIOUS
  <2>7. x = OfSextets(Sextet1(d), Sextet2(d, e), Sextet3(e, f), Sextet4(f))
    BY <2>5, <2>6, Zenon DEF RawTriple
  <2>8. ByteOf(x, 0) = d /\ ByteOf(x, 1) = e /\ ByteOf(x, 2) = f
    BY <2>7, BytesOfSextets, SMTT(60)
  <2> QED
    BY <1>3, <2>4, <2>6, <2>8, Zenon DEF OctetsAre
<1>7. TriplesHold(triple, data, n) /\ OctetsIn(bytes, triple, n)
  BY <1>5, <1>6, Zenon DEF TriplesHold, OctetsIn
<1>8. ASSUME NEW k \in 1 .. n
      PROVE  bytes[k] = data[k]
  BY <1>2, <1>7, OctetsGive, SMTT(60)
<1>9. Listed(bytes, n)
  BY <1>4, SMTT(60) DEF Listed
<1> QED
  BY <1>1, <1>8, <1>9, Zenon

OneOf(g, d) == g = <<d>>
TwoOf(g, d, e) == g = <<d, e>>

LEMMA OneAt ==
  ASSUME NEW g, NEW d, OneOf(g, d)
  PROVE  Listed(g, 1) /\ g[1] = d
BY SMTT(60) DEF OneOf, Listed

LEMMA TwoAt ==
  ASSUME NEW g, NEW d, NEW e, TwoOf(g, d, e)
  PROVE  Listed(g, 2) /\ g[1] = d /\ g[2] = e
BY SMTT(60) DEF TwoOf, Listed

(* What the page decodes is what was encoded.                              *)
LEMMA ToIs ==
  ASSUME NEW data \in Seq(Byte), NEW w \in Nat, w # 0, Quanta(w, Len(data)), NEW text,
         Coded(text, data, w)
  PROVE  toByteArray(text) = data
<1>1. PICK n \in Nat : n = Len(data)
  BY LenProperties
<1>2. n <= 3 * w /\ 3 * w <= n + 2
  BY <1>1, Zenon DEF Quanta
<1>3. /\ Len(text) = 4 * w
      /\ text[Len(text)] = Pad <=> n < 3 * w
      /\ text[Len(text) - 1] = Pad <=> n < 3 * w - 1
  BY <1>1, LastOf, Zenon
<1>4. Lacks(text) = 3 * w - n
  <2>1. Lacks(text) = IF n < 3 * w - 1 THEN 2 ELSE IF n < 3 * w THEN 1 ELSE 0
    BY <1>3, Zenon DEF Lacks
  <2> QED
    BY <1>2, <2>1, SMTT(60)
<1>5. Listed(data, n)
  BY <1>1, SeqListed, Zenon
<1>6. CASE n = 3 * w
  <2>1. Lacks(text) = 0 /\ ~(0 > 0) /\ (4 * w) \div 4 = w /\ 3 * w \in Nat
    BY <1>4, <1>6, SMTT(60)
  <2>2. Wholes(text) = 4 * w
    BY <1>3, <2>1, Zenon DEF Wholes
  <2>3. PICK f, g : f = ReadFirst(text, w) /\ g = ReadRest(text, 0, 4 * w)
                    /\ toByteArray(text) = f \o g
    BY <2>1, <2>2, ReadForm, Zenon
  <2>4. g = << >>
    BY <2>3 DEF ReadRest
  <2>5. w <= w /\ 3 * w <= Len(data)
    BY <1>1, <1>6, SMTT(60)
  <2>6. Listed(f, 3 * w) /\ \A k \in 1 .. 3 * w : f[k] = data[k]
    BY <2>3, <2>5, ReadFirstIs, SMTT(60)
  <2>7. f \o g = f
    BY <2>1, <2>4, <2>6, JoinedNothing, Zenon
  <2>8. f = data
    BY <1>5, <1>6, <2>6, SameListed, Zenon
  <2> QED
    BY <2>3, <2>7, <2>8, Zenon
<1>7. CASE n # 3 * w
  <2>1. PICK q \in Nat : w = q + 1
    BY SMTT(60)
  <2>2. /\ 4 * w - 4 = 4 * q /\ (4 * q) \div 4 = q /\ 3 * q \in Nat /\ q <= w
        /\ 3 * q <= Len(data) /\ q < w /\ Lacks(text) > 0
    BY <1>1, <1>2, <1>4, <1>7, <2>1, SMTT(60)
  <2>3. Wholes(text) = 4 * q
    BY <1>3, <2>2, Zenon DEF Wholes
  <2>4. PICK f, g : f = ReadFirst(text, q) /\ g = ReadRest(text, 3 * w - n, 4 * q)
                    /\ toByteArray(text) = f \o g
    BY <1>4, <2>2, <2>3, ReadForm, Zenon
  <2>5. Listed(f, 3 * q) /\ \A k \in 1 .. 3 * q : f[k] = data[k]
    BY <2>2, <2>4, ReadFirstIs, SMTT(60)
  <2>6. Quantum(text, data, q)
    BY <2>2, Zenon DEF Coded
  <2>7. 3 * q + 1 \in Nat \ {0} /\ 3 * q + 2 \in Nat \ {0}
    BY SMTT(60)
  <2>8. PICK d \in Byte, e \in Byte : d = At(data, 3 * q + 1) /\ e = At(data, 3 * q + 2)
    BY <2>7, AtIsByte
  <2>9. CASE n = 3 * w - 1
    <3>1. /\ 3 * w - n = 1 /\ n = 3 * q + 2 /\ 1 # 0 /\ 1 # 2
          /\ 3 * q + 1 <= Len(data) /\ 3 * q + 2 <= Len(data) /\ ~(3 * q + 3 <= Len(data))
      BY <1>1, <2>1, <2>9, SMTT(60)
    <3>2. At(data, 3 * q + 3) = 0
      BY <3>1, Zenon DEF At
    <3>3. /\ text[4 * q + 1] = Sextet1(d) /\ text[4 * q + 2] = Sextet2(d, e)
          /\ text[4 * q + 3] = Sextet3(e, 0)
      BY <2>6, <2>8, <3>1, <3>2, Zenon DEF Quantum
    <3>4. PICK two : two = Sextet1(d) * 1024 + Sextet2(d, e) * 16 + Sextet3(e, 0) \div 4
      OBVIOUS
    <3>5. g = TwoBytes(two)
      BY <2>4, <3>1, <3>3, <3>4 DEF ReadRest
    <3>6. (two \div 256) % 256 = d /\ two % 256 = e
      BY <3>4, TwoBack, SMTT(60)
    <3>7. TwoOf(g, d, e)
      BY <3>5, <3>6, Zenon DEF TwoBytes, TwoOf
    <3>8. Listed(g, 2) /\ g[1] = d /\ g[2] = e
      BY <3>7, TwoAt, Zenon
    <3>9. d = data[3 * q + 1] /\ e = data[3 * q + 2]
      BY <2>8, <3>1, Zenon DEF At
    <3>10. 2 \in Nat
      OBVIOUS
    <3>11. PICK t : t = f \o g /\ Joins(t, f, g, 3 * q, 2)
      BY <2>2, <2>5, <3>8, <3>10, JoinedAt, Zenon
    <3>12. ASSUME NEW k \in 1 .. n
           PROVE  t[k] = data[k]
      <4>1. k \in 1 .. 3 * q \/ k = 3 * q + 1 \/ k = 3 * q + 2
        BY <3>1, SMTT(60)
      <4>2. CASE k \in 1 .. 3 * q
        BY <2>5, <3>11, <4>2, Zenon DEF Joins
      <4>3. 1 \in 1 .. 2 /\ 2 \in 1 .. 2
        BY SMTT(60)
      <4>4. t[3 * q + 1] = g[1] /\ t[3 * q + 2] = g[2]
        BY <3>11, <4>3, Zenon DEF Joins
      <4> QED
        BY <3>8, <3>9, <4>1, <4>2, <4>4, Zenon
    <3>13. Listed(t, n)
      BY <3>1, <3>11, Zenon DEF Joins
    <3>14. t = data
      BY <1>5, <3>12, <3>13, SameListed, Zenon
    <3> QED
      BY <2>4, <3>11, <3>14, Zenon
  <2>10. CASE n = 3 * w - 2
    <3>1. /\ 3 * w - n = 2 /\ n = 3 * q + 1 /\ 2 # 0 /\ 2 # 1
          /\ 3 * q + 1 <= Len(data) /\ ~(3 * q + 2 <= Len(data))
      BY <1>1, <2>1, <2>10, SMTT(60)
    <3>2. e = 0
      BY <2>8, <3>1, Zenon DEF At
    <3>3. /\ text[4 * q + 1] = Sextet1(d) /\ text[4 * q + 2] = Sextet2(d, 0)
      BY <2>6, <2>8, <3>2, Zenon DEF Quantum
    <3>4. g = OneByte(Sextet1(d), Sextet2(d, 0))
      BY <2>4, <3>1, <3>3 DEF ReadRest
    <3>5. (Sextet1(d) * 4 + Sextet2(d, 0) \div 16) % 256 = d
      BY OneBack, Zenon
    <3>6. OneOf(g, d)
      BY <3>4, <3>5, Zenon DEF OneByte, OneOf
    <3>7. Listed(g, 1) /\ g[1] = d
      BY <3>6, OneAt, Zenon
    <3>8. d = data[3 * q + 1]
      BY <2>8, <3>1, Zenon DEF At
    <3>9. 1 \in Nat
      OBVIOUS
    <3>10. PICK t : t = f \o g /\ Joins(t, f, g, 3 * q, 1)
      BY <2>2, <2>5, <3>7, <3>9, JoinedAt, Zenon
    <3>11. ASSUME NEW k \in 1 .. n
           PROVE  t[k] = data[k]
      <4>1. k \in 1 .. 3 * q \/ k = 3 * q + 1
        BY <3>1, SMTT(60)
      <4>2. CASE k \in 1 .. 3 * q
        BY <2>5, <3>10, <4>2, Zenon DEF Joins
      <4>3. 1 \in 1 .. 1
        BY SMTT(60)
      <4>4. t[3 * q + 1] = g[1]
        BY <3>10, <4>3, Zenon DEF Joins
      <4> QED
        BY <3>7, <3>8, <4>1, <4>2, <4>4, Zenon
    <3>12. Listed(t, n)
      BY <3>1, <3>10, Zenon DEF Joins
    <3>13. t = data
      BY <1>5, <3>11, <3>12, SameListed, Zenon
    <3> QED
      BY <2>4, <3>10, <3>13, Zenon
  <2>11. n = 3 * w - 1 \/ n = 3 * w - 2
    BY <1>2, <1>7, SMTT(60)
  <2> QED
    BY <2>9, <2>10, <2>11, Zenon
<1> QED
  BY <1>6, <1>7, Zenon

(* Firmware and page encode to the same text, and both decode it to the    *)
(* bytes that were encoded.                                                *)
THEOREM CodecsInverse ==
  ASSUME NEW data \in Seq(Byte), data # << >>
  PROVE  /\ fromByteArray(data) = base64_encode2(data)
         /\ base64_decode2(base64_encode2(data)) = data
         /\ toByteArray(base64_encode2(data)) = data
<1>1. PICK n \in Nat : n = Len(data)
  BY LenProperties
<1>2. n # 0
  BY <1>1, EmptySeq, Zenon
<1>3. PICK w \in Nat : Quanta(w, n)
  BY QuantaOf
<1>4. w # 0
  BY <1>2, <1>3, SMTT(60) DEF Quanta
<1>5. Coded(base64_encode2(data), data, w)
  BY <1>1, <1>3, EncodeIs, Zenon
<1>6. Coded(fromByteArray(data), data, w)
  BY <1>1, <1>3, FromIs, Zenon
<1>7. fromByteArray(data) = base64_encode2(data)
  BY <1>5, <1>6, CodedOnce, Zenon
<1>8. base64_decode2(base64_encode2(data)) = data
  BY <1>1, <1>3, <1>4, <1>5, DecodeIs, Zenon
<1>9. toByteArray(base64_encode2(data)) = data
  BY <1>1, <1>3, <1>4, <1>5, ToIs, Zenon
<1> QED
  BY <1>7, <1>8, <1>9, Zenon

-----------------------------------------------------------------------------
(* The message: counts, times and temperatures as two bytes each.          *)

Word16 == {n \in Nat : n <= 65535}
WordEntry == [time : Word16, temp : Word16]

High(n) == n \div 256
Low(n) == n % 256

LEMMA WordInNat ==
  ASSUME NEW n \in Word16
  PROVE  n \in Nat
BY SMTT(60) DEF Word16

LEMMA HighLow ==
  ASSUME NEW n \in Word16
  PROVE  High(n) \in Byte /\ Low(n) \in Byte /\ Word(High(n), Low(n)) = n
<1>1. n \in Nat /\ n <= 65535 /\ 256 \in Nat \ {0}
  BY SMTT(60) DEF Word16
<1>2. PICK q \in Nat, r \in Nat : r < 256 /\ Cut(n, 256, q, r)
  BY <1>1, Divided, SMTT(60)
<1>3. n = 256 * q + r /\ High(n) = q /\ Low(n) = r
  BY <1>2, SMTT(60) DEF Cut, High, Low
<1>4. q <= 255 /\ r <= 255
  <2>1. 256 * q + r <= 65535
    BY <1>1, <1>3, SMTT(60)
  <2> HIDE <1>1, <1>3
  <2> QED
    BY <1>2, <2>1, SMTT(60)
<1>5. q \in Byte /\ r \in Byte
  BY <1>4, ByteBounds, SMTT(60)
<1>6. Word(q, r) = n
  BY <1>3, SMTT(60) DEF Word
<1> QED
  BY <1>3, <1>5, <1>6, SMTT(60)

(* The bytes of a schedule, two for its length and four for each entry.    *)
HoldsEntry(data, k, e) ==
  /\ data[4 * k - 1] = High(e.time) /\ data[4 * k] = Low(e.time)
  /\ data[4 * k + 1] = High(e.temp) /\ data[4 * k + 2] = Low(e.temp)

HoldsSchedule(data, entries) ==
  /\ Listed(data, 4 * Len(entries) + 2)
  /\ data[1] = High(Len(entries)) /\ data[2] = Low(Len(entries))
  /\ \A k \in 1 .. Len(entries) : HoldsEntry(data, k, entries[k])

EntryBytes(entries) ==
  [k \in 1 .. 4 * Len(entries) |->
     CASE (k - 1) % 4 = 0 -> High(entries[((k - 1) \div 4) + 1].time)
       [] (k - 1) % 4 = 1 -> Low(entries[((k - 1) \div 4) + 1].time)
       [] (k - 1) % 4 = 2 -> High(entries[((k - 1) \div 4) + 1].temp)
       [] (k - 1) % 4 = 3 -> Low(entries[((k - 1) \div 4) + 1].temp)]
CountBytes(entries) == <<High(Len(entries)), Low(Len(entries))>>

LEMMA BytesForm ==
  ASSUME NEW entries
  PROVE  Bytes(entries) = CountBytes(entries) \o EntryBytes(entries)
BY Zenon DEF Bytes, CountBytes, EntryBytes, High, Low

PartOfEntry(e, b) ==
  IF b = 0 THEN High(e.time) ELSE IF b = 1 THEN Low(e.time)
  ELSE IF b = 2 THEN High(e.temp) ELSE Low(e.temp)

LEMMA EntryBytesAt ==
  ASSUME NEW entries, NEW n \in Nat, n = Len(entries), NEW a \in Nat, a < n, NEW b \in 0 .. 3
  PROVE  EntryBytes(entries)[4 * a + b + 1] = PartOfEntry(entries[a + 1], b)
<1>1. PICK k : k = 4 * a + b + 1
  OBVIOUS
<1>2. k \in 1 .. 4 * n
  BY <1>1, SMTT(60)
<1>3. (k - 1) \div 4 = a /\ (k - 1) % 4 = b
  BY <1>1, FourthsOf, Zenon
<1>4. PICK e : e = entries[a + 1]
  OBVIOUS
<1>5. EntryBytes(entries)[k] =
        CASE b = 0 -> High(e.time)
          [] b = 1 -> Low(e.time)
          [] b = 2 -> High(e.temp)
          [] b = 3 -> Low(e.temp)
  BY <1>2, <1>3, <1>4, Zenon DEF EntryBytes
<1>6. b = 0 \/ b = 1 \/ b = 2 \/ b = 3
  BY SMTT(60)
<1>7. EntryBytes(entries)[k] = PartOfEntry(e, b)
  BY <1>5, <1>6, SMTT(60) DEF PartOfEntry
<1> QED
  BY <1>1, <1>4, <1>7, Zenon

LEMMA BytesHold ==
  ASSUME NEW entries, Len(entries) \in Nat
  PROVE  HoldsSchedule(Bytes(entries), entries)
<1>1. PICK n \in Nat : n = Len(entries)
  OBVIOUS
<1>2. PICK f, g, data : f = CountBytes(entries) /\ g = EntryBytes(entries) /\ data = f \o g
                        /\ data = Bytes(entries)
  BY BytesForm, Zenon
<1>3. TwoOf(f, High(n), Low(n))
  BY <1>1, <1>2, Zenon DEF CountBytes, TwoOf
<1>4. Listed(f, 2) /\ f[1] = High(n) /\ f[2] = Low(n)
  BY <1>3, TwoAt, Zenon
<1>5. Listed(g, 4 * n)
  BY <1>1, <1>2, SMTT(60) DEF EntryBytes, Listed
<1>6. 2 \in Nat /\ 4 * n \in Nat /\ 2 + 4 * n = 4 * n + 2
  BY SMTT(60)
<1>7. Joins(data, f, g, 2, 4 * n)
  BY <1>2, <1>4, <1>5, <1>6, JoinedAt, Zenon
<1>8. Listed(data, 4 * n + 2)
  BY <1>6, <1>7, Zenon DEF Joins
<1>9. data[1] = High(n) /\ data[2] = Low(n)
  <2>1. 1 \in 1 .. 2 /\ 2 \in 1 .. 2
    BY SMTT(60)
  <2> QED
    BY <1>4, <1>7, <2>1, Zenon DEF Joins
<1>10. ASSUME NEW k \in 1 .. n
       PROVE  HoldsEntry(data, k, entries[k])
  <2>1. PICK a \in Nat : k = a + 1
    <3>1. k - 1 \in Nat /\ k = (k - 1) + 1
      BY SMTT(60)
    <3> QED
      BY <3>1, Zenon
  <2>2. a < n
    BY <2>1, SMTT(60)
  <2>3. /\ 2 + (4 * a + 0 + 1) = 4 * k - 1 /\ 2 + (4 * a + 1 + 1) = 4 * k
        /\ 2 + (4 * a + 2 + 1) = 4 * k + 1 /\ 2 + (4 * a + 3 + 1) = 4 * k + 2
    BY <2>1, SMTT(60)
  <2>4. ASSUME NEW b \in 0 .. 3
        PROVE  data[2 + (4 * a + b + 1)] = PartOfEntry(entries[k], b)
    <3>1. PICK l : l = 4 * a + b + 1
      OBVIOUS
    <3>2. l \in 1 .. 4 * n
      BY <2>2, <3>1, SMTT(60)
    <3>3. data[2 + l] = g[l]
      BY <1>7, <3>2, Zenon DEF Joins
    <3>4. g[l] = PartOfEntry(entries[k], b)
      BY <1>1, <1>2, <2>1, <2>2, <3>1, EntryBytesAt, Zenon
    <3> QED
      BY <3>1, <3>3, <3>4, Zenon
  <2>5. 0 \in 0 .. 3 /\ 1 \in 0 .. 3 /\ 2 \in 0 .. 3 /\ 3 \in 0 .. 3
    BY SMTT(60)
  <2>6. /\ data[4 * k - 1] = PartOfEntry(entries[k], 0)
        /\ data[4 * k] = PartOfEntry(entries[k], 1)
        /\ data[4 * k + 1] = PartOfEntry(entries[k], 2)
        /\ data[4 * k + 2] = PartOfEntry(entries[k], 3)
    BY <2>3, <2>4, <2>5, SMTT(60)
  <2>7. 1 # 0 /\ 2 # 0 /\ 2 # 1 /\ 3 # 0 /\ 3 # 1 /\ 3 # 2
    BY SMTT(60)
  <2> QED
    BY <2>6, <2>7, Zenon DEF HoldsEntry, PartOfEntry
<1> QED
  BY <1>1, <1>2, <1>8, <1>9, <1>10, Zenon DEF HoldsSchedule

(* Bytes they are, of entries of 16 bits each.                             *)
LEMMA WordEntryIs ==
  ASSUME NEW e \in WordEntry
  PROVE  /\ High(e.time) \in Byte /\ Low(e.time) \in Byte
         /\ High(e.temp) \in Byte /\ Low(e.temp) \in Byte
         /\ Word(High(e.time), Low(e.time)) = e.time
         /\ Word(High(e.temp), Low(e.temp)) = e.temp
         /\ e = [time |-> e.time, temp |-> e.temp]
<1>1. e.time \in Word16 /\ e.temp \in Word16 /\ e = [time |-> e.time, temp |-> e.temp]
  BY Zenon DEF WordEntry
<1> QED
  BY <1>1, HighLow, Zenon

LEMMA BytesTyped ==
  ASSUME NEW entries \in Seq(WordEntry), Len(entries) \in Word16, NEW data,
         data = Bytes(entries)
  PROVE  data \in Seq(Byte) /\ Len(data) = 4 * Len(entries) + 2 /\ data # << >>
<1>1. PICK n \in Nat : n = Len(entries) /\ n \in Word16
  BY LenProperties, Zenon
<1>2. HoldsSchedule(data, entries)
  BY <1>1, BytesHold, Zenon
<1>3. High(n) \in Byte /\ Low(n) \in Byte
  BY <1>1, HighLow, Zenon
<1>4. ASSUME NEW l \in 1 .. 4 * n + 2
      PROVE  data[l] \in Byte
  <2>1. CASE l = 1
    BY <1>1, <1>2, <1>3, <2>1, Zenon DEF HoldsSchedule
  <2>2. CASE l = 2
    BY <1>1, <1>2, <1>3, <2>2, Zenon DEF HoldsSchedule
  <2>3. CASE l > 2
    <3>1. PICK m \in 1 .. 4 * n : l = m + 2
      <4>1. l - 2 \in 1 .. 4 * n /\ l = (l - 2) + 2
        BY <2>3, SMTT(60)
      <4> QED
        BY <4>1, Zenon
    <3>2. PICK a \in Nat, b \in 0 .. 3 : a < n /\ m = 4 * a + b + 1
      BY FourthsIn
    <3>3. PICK k \in 1 .. n : k = a + 1
      BY <3>2, SMTT(60)
    <3>4. HoldsEntry(data, k, entries[k])
      BY <1>1, <1>2, Zenon DEF HoldsSchedule
    <3>5. entries[k] \in WordEntry
      BY <1>1, SMTT(60)
    <3>6. l = 4 * k - 1 \/ l = 4 * k \/ l = 4 * k + 1 \/ l = 4 * k + 2
      BY <3>1, <3>2, <3>3, SMTT(60)
    <3>7. PICK e \in WordEntry : e = entries[k]
      BY <3>5, Zenon
    <3>8. /\ High(e.time) \in Byte /\ Low(e.time) \in Byte
          /\ High(e.temp) \in Byte /\ Low(e.temp) \in Byte
      BY WordEntryIs, Zenon
    <3> QED
      BY <3>4, <3>6, <3>7, <3>8, Zenon DEF HoldsEntry
  <2> QED
    BY <2>1, <2>2, <2>3, SMTT(60)
<1>5. PICK m \in Nat : m = 4 * n + 2 /\ m # 0
  BY SMTT(60)
<1>6. Listed(data, m)
  BY <1>1, <1>2, <1>5, Zenon DEF HoldsSchedule
<1>7. data \in [1 .. m -> Byte]
  BY <1>4, <1>5, <1>6, Zenon DEF Listed
<1>8. data \in Seq(Byte) /\ Len(data) = m
  BY <1>7, SMTT(60) DEF Byte
<1> QED
  BY <1>1, <1>5, <1>8, EmptySeq, Zenon

LEMMA EntryBack ==
  ASSUME NEW data, NEW k \in Nat, NEW e \in WordEntry, HoldsEntry(data, k, e)
  PROVE  EntryAt(data, k) = e
<1>1. /\ Word(High(e.time), Low(e.time)) = e.time
      /\ Word(High(e.temp), Low(e.temp)) = e.temp
      /\ e = [time |-> e.time, temp |-> e.temp]
  BY WordEntryIs, Zenon
<1>2. EntryAt(data, k) = [time |-> Word(High(e.time), Low(e.time)),
                          temp |-> Word(High(e.temp), Low(e.temp))]
  BY Zenon DEF EntryAt, HoldsEntry
<1> QED
  BY <1>1, <1>2, Zenon

-----------------------------------------------------------------------------
(* Decoding a message, whole or cut.                                       *)

FirstEntries(entries, m) == [k \in 1 .. m |-> entries[k]]

(* The count that is read where n was written.                             *)
CountOf(n, order) ==
  IF order = "left" THEN n
  ELSE IF order = "right" THEN Word(Low(n), High(n))
  ELSE Word(High(n), High(n))

Refuses(c, length) == c > MaxEntries \/ (c # 0 /\ 4 * c + 2 > length)

(* data begins as the bytes of the schedule do.                            *)
BeginsSchedule(data, entries) ==
  /\ Len(data) \in Nat /\ 2 <= Len(data) /\ Len(data) <= 4 * Len(entries) + 2
  /\ \A k \in 1 .. Len(data) : data[k] = Bytes(entries)[k]

LEMMA MaxEntriesInNat == MaxEntries \in Nat /\ MaxEntries <= 7 * 1440
<1>1. SlotMinutes \in Nat \ {0}
  BY SlotAssumption
<1>2. PICK m \in Nat \ {0} : m = SlotMinutes
  BY <1>1
<1>3. PICK q \in Nat, r \in Nat : r < m /\ Cut(1440, m, q, r)
  BY Divided, SMTT(60)
<1>4. 1440 \div SlotMinutes = q /\ 1440 = m * q + r
  BY <1>2, <1>3, SMTT(60) DEF Cut
<1>5. q <= 1440
  <2>1. m * q >= q
    BY SMTT(60)
  <2>2. PICK p \in Nat : p = m * q
    BY SMTT(60)
  <2> QED
    BY <1>4, <2>1, <2>2, SMTT(60)
<1> QED
  BY <1>4, <1>5, SMTT(60) DEF MaxEntries, DayMinutes

LEMMA CountInNat ==
  ASSUME NEW n \in Word16, NEW order \in Orders
  PROVE  CountOf(n, order) \in Nat
<1>1. n \in Nat /\ High(n) \in Byte /\ Low(n) \in Byte
  BY HighLow, WordInNat, Zenon
<1>2. High(n) \in Nat /\ Low(n) \in Nat
  BY <1>1, ByteBounds, Zenon
<1>3. Word(Low(n), High(n)) \in Nat /\ Word(High(n), High(n)) \in Nat
  BY <1>2, SMTT(60) DEF Word
<1> QED
  BY <1>1, <1>3, Zenon DEF CountOf

LEMMA CountIs ==
  ASSUME NEW entries \in Seq(WordEntry), Len(entries) \in Word16, NEW data,
         BeginsSchedule(data, entries), NEW order \in Orders
  PROVE  Count(data, order) = CountOf(Len(entries), order)
<1>1. PICK n \in Word16 : n = Len(entries)
  BY Zenon
<1>2. HoldsSchedule(Bytes(entries), entries)
  BY <1>1, WordInNat, BytesHold, Zenon
<1>3. 1 \in 1 .. Len(data) /\ 2 \in 1 .. Len(data)
  BY SMTT(60) DEF BeginsSchedule
<1>4. data[1] = High(n) /\ data[2] = Low(n)
  BY <1>1, <1>2, <1>3, Zenon DEF BeginsSchedule, HoldsSchedule
<1>5. Word(High(n), Low(n)) = n
  BY HighLow, Zenon
<1>6. order = "left" \/ order = "right" \/ order = "after"
  BY Zenon DEF Orders
<1>7. "left" # "right" /\ "left" # "after" /\ "right" # "after"
  OBVIOUS
<1>8. CASE order = "left"
  BY <1>1, <1>4, <1>5, <1>7, <1>8 DEF Count, CountOf
<1>9. CASE order = "right"
  BY <1>1, <1>4, <1>7, <1>9 DEF Count, CountOf
<1>10. CASE order = "after"
  BY <1>1, <1>4, <1>7, <1>10 DEF Count, CountOf
<1> QED
  BY <1>6, <1>8, <1>9, <1>10, Zenon

(* What is decoded is refused, or is as many entries as were counted.      *)
LEMMA DecodedIs ==
  ASSUME NEW entries \in Seq(WordEntry), Len(entries) \in Word16, NEW text,
         BeginsSchedule(base64_decode2(text), entries), NEW order \in Orders,
         NEW c, c = CountOf(Len(entries), order), NEW length,
         length = Len(base64_decode2(text))
  PROVE  autoTempDecode(text, order) =
           IF Refuses(c, length) THEN NULL ELSE FirstEntries(entries, c)
<1>1. PICK data : data = base64_decode2(text)
  OBVIOUS
<1>2. BeginsSchedule(data, entries) /\ length = Len(data)
  BY <1>1, Zenon
<1>3. Count(data, order) = c
  BY <1>2, CountIs, Zenon
<1>4. c \in Nat
  BY CountInNat, Zenon
<1>5. PICK n \in Nat : n = Len(entries)
  BY LenProperties
<1>6. length \in Nat /\ length <= 4 * n + 2
  BY <1>2, <1>5, Zenon DEF BeginsSchedule
<1>7. (\E k \in 1 .. c : 2 + 4 * (k - 1) + 4 > length) <=> (c # 0 /\ 4 * c + 2 > length)
  <2>1. ASSUME NEW k \in 1 .. c, 2 + 4 * (k - 1) + 4 > length
        PROVE  c # 0 /\ 4 * c + 2 > length
    BY <1>4, <1>6, <2>1, SMTT(60)
  <2>2. ASSUME c # 0, 4 * c + 2 > length
        PROVE  \E k \in 1 .. c : 2 + 4 * (k - 1) + 4 > length
    <3>1. c \in 1 .. c /\ 2 + 4 * (c - 1) + 4 > length
      BY <1>4, <1>6, <2>2, SMTT(60)
    <3> QED
      BY <3>1, Zenon
  <2> QED
    BY <2>1, <2>2, Zenon
<1>8. autoTempDecode(text, order) =
        IF Refuses(c, length) THEN NULL ELSE [k \in 1 .. c |-> EntryAt(data, k)]
  BY <1>1, <1>2, <1>3, <1>7, Zenon DEF autoTempDecode, Refuses
<1>9. ASSUME ~Refuses(c, length)
      PROVE  \A k \in 1 .. c : EntryAt(data, k) = entries[k]
  <2> SUFFICES ASSUME NEW k \in 1 .. c
               PROVE  EntryAt(data, k) = entries[k]
    OBVIOUS
  <2>1. c # 0
    BY <1>4, SMTT(60)
  <2>2. ~(4 * c + 2 > length)
    BY <1>9, <2>1, Zenon DEF Refuses
  <2>3. /\ k \in 1 .. n /\ k \in Nat
        /\ 4 * k - 1 \in 1 .. length /\ 4 * k \in 1 .. length
        /\ 4 * k + 1 \in 1 .. length /\ 4 * k + 2 \in 1 .. length
    BY <1>4, <1>6, <2>2, SMTT(60)
  <2>4. HoldsSchedule(Bytes(entries), entries)
    BY BytesHold, <1>5, Zenon
  <2>5. HoldsEntry(Bytes(entries), k, entries[k])
    BY <1>5, <2>3, <2>4, Zenon DEF HoldsSchedule
  <2>6. HoldsEntry(data, k, entries[k])
    BY <1>2, <2>3, <2>5, Zenon DEF HoldsEntry, BeginsSchedule
  <2>7. entries[k] \in WordEntry
    BY <1>5, <2>3, ElementOfSeq, Zenon
  <2> QED
    BY <2>3, <2>6, <2>7, EntryBack, Zenon
<1>10. CASE Refuses(c, length)
  BY <1>8, <1>10, Zenon
<1>11. CASE ~Refuses(c, length)
  <2>1. [k \in 1 .. c |-> EntryAt(data, k)] = [k \in 1 .. c |-> entries[k]]
    BY <1>9, <1>11, Zenon
  <2> QED
    BY <1>8, <1>11, <2>1, Zenon DEF FirstEntries
<1> QED
  BY <1>10, <1>11, Zenon

(* A schedule whose entries and length fit the message.                    *)
Sendable(entries) == entries \in Seq(WordEntry) /\ Len(entries) \in Word16

LEMMA MessageIs ==
  ASSUME NEW entries, Sendable(entries), NEW text, text = autoTempEncode(entries)
  PROVE  /\ generateResponse(entries) = text
         /\ base64_decode2(text) = Bytes(entries)
         /\ toByteArray(text) = Bytes(entries)
         /\ base64_encode2(Bytes(entries)) = text
         /\ Bytes(entries) \in Seq(Byte)
         /\ Len(Bytes(entries)) = 4 * Len(entries) + 2
<1>1. PICK data : data = Bytes(entries)
  OBVIOUS
<1>2. data \in Seq(Byte) /\ data # << >> /\ Len(data) = 4 * Len(entries) + 2
  BY <1>1, BytesTyped, Zenon DEF Sendable
<1>3. text = base64_encode2(data)
  BY <1>1, Zenon DEF autoTempEncode
<1>4. /\ fromByteArray(data) = text
      /\ base64_decode2(text) = data
      /\ toByteArray(text) = data
  BY <1>2, <1>3, CodecsInverse, Zenon
<1> QED
  BY <1>1, <1>2, <1>3, <1>4, Zenon DEF generateResponse

(* Its quanta.                                                             *)
LEMMA MessageCoded ==
  ASSUME NEW entries, Sendable(entries), NEW text, text = autoTempEncode(entries)
  PROVE  \E w \in Nat : /\ w # 0 /\ Quanta(w, Len(Bytes(entries)))
                        /\ Coded(text, Bytes(entries), w)
                        /\ text \in Seq(0 .. Pad) /\ Len(text) = 4 * w
<1>1. PICK data : data = Bytes(entries)
  OBVIOUS
<1>2. data \in Seq(Byte) /\ Len(data) = 4 * Len(entries) + 2 /\ Len(entries) \in Nat
  BY <1>1, BytesTyped, WordInNat, Zenon DEF Sendable
<1>3. PICK n \in Nat : n = Len(data) /\ n # 0
  BY <1>2, SMTT(60)
<1>4. PICK w \in Nat : Quanta(w, n)
  BY QuantaOf
<1>5. w # 0
  BY <1>3, <1>4, SMTT(60) DEF Quanta
<1>6. Coded(text, data, w)
  BY <1>1, <1>2, <1>3, <1>4, EncodeIs, Zenon DEF autoTempEncode
<1>7. text \in Seq(0 .. Pad) /\ Len(text) = 4 * w
  BY <1>2, <1>6, CodedTyped, Zenon
<1> QED
  BY <1>1, <1>3, <1>4, <1>5, <1>6, <1>7, Zenon

LEMMA WholeBegins ==
  ASSUME NEW entries, Sendable(entries)
  PROVE  BeginsSchedule(Bytes(entries), entries)
<1>1. PICK data : data = Bytes(entries)
  OBVIOUS
<1>2. Len(data) = 4 * Len(entries) + 2 /\ Len(entries) \in Nat
  BY <1>1, BytesTyped, WordInNat, Zenon DEF Sendable
<1>3. Len(data) \in Nat /\ 2 <= Len(data) /\ Len(data) <= 4 * Len(entries) + 2
  BY <1>2, SMTT(60)
<1> QED
  BY <1>1, <1>3, Zenon DEF BeginsSchedule

(* A first segment with whole quanta and not all of them.                  *)
LEMMA CutBegins ==
  ASSUME NEW entries, Sendable(entries), NEW text, text = autoTempEncode(entries),
         NEW n \in Nat \ {0}, n < Len(text), NEW cut, cut = SubSeq(text, 1, n), Decodes(cut)
  PROVE  /\ BeginsSchedule(base64_decode2(cut), entries)
         /\ Len(base64_decode2(cut)) < 4 * Len(entries) + 2
         /\ 2 < Len(base64_decode2(cut))
<1>1. PICK data : data = Bytes(entries)
  OBVIOUS
<1>2. data \in Seq(Byte) /\ Len(data) = 4 * Len(entries) + 2 /\ Len(entries) \in Nat
  BY <1>1, BytesTyped, WordInNat, Zenon DEF Sendable
<1>3. PICK w \in Nat : /\ w # 0 /\ Quanta(w, Len(data)) /\ Coded(text, data, w)
                       /\ text \in Seq(0 .. Pad) /\ Len(text) = 4 * w
  BY <1>1, MessageCoded, Zenon
<1>4. n <= Len(text)
  BY <1>3, SMTT(60)
<1>5. Len(cut) = n
  BY <1>3, <1>4, FirstOf, Zenon DEF Begins
<1>6. n % 4 = 0
  BY <1>5, Zenon DEF Decodes
<1>7. PICK j \in Nat : n = 4 * j
  <2>1. n \div 4 \in Nat /\ n = 4 * (n \div 4)
    BY <1>6, SMTT(60)
  <2> QED
    BY <2>1, Zenon
<1>8. j < w /\ j # 0
  BY <1>3, <1>7, SMTT(60)
<1>9. PICK first : first = SubSeq(data, 1, 3 * j)
  OBVIOUS
<1>10. /\ first \in Seq(Byte) /\ Len(first) = 3 * j /\ 3 * j < Len(data)
       /\ \A k \in 1 .. 3 * j : first[k] = data[k]
       /\ Coded(cut, first, j)
  BY <1>2, <1>3, <1>7, <1>8, <1>9, CutIs, ZenonT(40)
<1>11. Quanta(j, 3 * j)
  BY SMTT(60) DEF Quanta
<1>12. base64_decode2(cut) = first
  BY <1>8, <1>10, <1>11, DecodeIs, Zenon
<1>13. Len(first) \in Nat /\ 2 < Len(first) /\ Len(first) < 4 * Len(entries) + 2
       /\ 2 <= Len(first) /\ Len(first) <= 4 * Len(entries) + 2
  BY <1>2, <1>8, <1>10, SMTT(60)
<1>14. \A k \in 1 .. Len(first) : first[k] = data[k]
  BY <1>10, Zenon
<1> QED
  BY <1>1, <1>12, <1>13, <1>14, Zenon DEF BeginsSchedule

(* What the counts of the two other orders are worth.                      *)
LEMMA WrongCounts ==
  ASSUME NEW n \in Nat, n < 256
  PROVE  CountOf(n, "after") = 0 /\ CountOf(n, "right") = 256 * n
<1>1. High(n) = 0 /\ Low(n) = n
  BY SMTT(60) DEF High, Low
<1>2. "left" # "right" /\ "left" # "after" /\ "right" # "after"
  OBVIOUS
<1>3. Word(0, 0) = 0 /\ Word(n, 0) = 256 * n
  BY SMTT(60) DEF Word
<1> QED
  BY <1>1, <1>2, <1>3, Zenon DEF CountOf

(* What can come of a text that begins as a message does: nothing, or a    *)
(* schedule that begins as the one that was sent.                          *)
DecodesTo(decoded, entries) ==
  decoded # NULL => \E m \in 0 .. Len(entries) : decoded = FirstEntries(entries, m)

LEMMA DecodedBegins ==
  ASSUME NEW entries, Sendable(entries), NEW text,
         BeginsSchedule(base64_decode2(text), entries), NEW order \in Orders
  PROVE  DecodesTo(autoTempDecode(text, order), entries)
<1>1. PICK c, length : c = CountOf(Len(entries), order) /\ length = Len(base64_decode2(text))
  OBVIOUS
<1>2. autoTempDecode(text, order) =
        IF Refuses(c, length) THEN NULL ELSE FirstEntries(entries, c)
  BY <1>1, DecodedIs, Zenon DEF Sendable
<1>3. c \in Nat /\ Len(entries) \in Nat
  BY <1>1, CountInNat, WordInNat, Zenon DEF Sendable
<1>4. length \in Nat /\ length <= 4 * Len(entries) + 2
  BY <1>1, Zenon DEF BeginsSchedule
<1>5. ~Refuses(c, length) => c \in 0 .. Len(entries)
  BY <1>3, <1>4, SMTT(60) DEF Refuses
<1> QED
  BY <1>2, <1>5, Zenon DEF DecodesTo

LEMMA NotLeft ==
  ASSUME NEW entries, Sendable(entries), Len(entries) < 256, NEW text,
         BeginsSchedule(base64_decode2(text), entries), NEW order \in Orders, order # "left"
  PROVE  autoTempDecode(text, order) \in {NULL, << >>}
<1>1. PICK c, length : c = CountOf(Len(entries), order) /\ length = Len(base64_decode2(text))
  OBVIOUS
<1>2. autoTempDecode(text, order) =
        IF Refuses(c, length) THEN NULL ELSE FirstEntries(entries, c)
  BY <1>1, DecodedIs, Zenon DEF Sendable
<1>3. PICK n \in Nat : n = Len(entries) /\ n < 256
  BY WordInNat, Zenon DEF Sendable
<1>4. length \in Nat /\ length <= 4 * n + 2
  BY <1>1, <1>3, Zenon DEF BeginsSchedule
<1>5. order = "right" \/ order = "after"
  BY Zenon DEF Orders
<1>6. c = 256 * n \/ c = 0
  BY <1>1, <1>3, <1>5, WrongCounts, ZenonT(40)
<1>7. c = 0 \/ Refuses(c, length)
  BY <1>3, <1>4, <1>6, SMTT(60) DEF Refuses
<1>8. FirstEntries(entries, 0) = << >>
  BY SMTT(60) DEF FirstEntries
<1> QED
  BY <1>2, <1>7, <1>8, Zenon

LEMMA LeftWhole ==
  ASSUME NEW entries, Sendable(entries), Len(entries) <= MaxEntries, NEW text,
         text = autoTempEncode(entries)
  PROVE  autoTempDecode(text, "left") = entries
<1>1. PICK n \in Nat : n = Len(entries) /\ n <= MaxEntries
  BY WordInNat, Zenon DEF Sendable
<1>2. PICK length : length = Len(base64_decode2(text))
  OBVIOUS
<1>3. base64_decode2(text) = Bytes(entries) /\ length = 4 * n + 2
  BY <1>1, <1>2, MessageIs, Zenon
<1>4. BeginsSchedule(base64_decode2(text), entries)
  BY <1>3, WholeBegins, Zenon
<1>5. CountOf(Len(entries), "left") = n /\ "left" \in Orders
  BY <1>1, Zenon DEF CountOf, Orders
<1>6. autoTempDecode(text, "left") =
        IF Refuses(n, length) THEN NULL ELSE FirstEntries(entries, n)
  BY <1>2, <1>4, <1>5, DecodedIs, Zenon DEF Sendable
<1>7. ~Refuses(n, length)
  BY <1>1, <1>3, MaxEntriesInNat, SMTT(60) DEF Refuses
<1>8. Listed(entries, n)
  BY <1>1, SeqListed, Zenon DEF Sendable
<1> QED
  BY <1>6, <1>7, <1>8, Zenon DEF FirstEntries, Listed

LEMMA LeftCut ==
  ASSUME NEW entries, Sendable(entries), NEW text,
         BeginsSchedule(base64_decode2(text), entries),
         Len(base64_decode2(text)) < 4 * Len(entries) + 2,
         2 < Len(base64_decode2(text))
  PROVE  autoTempDecode(text, "left") = NULL
<1>1. PICK n \in Nat : n = Len(entries)
  BY WordInNat, Zenon DEF Sendable
<1>2. PICK length : length = Len(base64_decode2(text))
  OBVIOUS
<1>3. length \in Nat /\ length < 4 * n + 2 /\ 2 < length
  BY <1>1, <1>2, Zenon DEF BeginsSchedule
<1>4. CountOf(Len(entries), "left") = n /\ "left" \in Orders
  BY <1>1, Zenon DEF CountOf, Orders
<1>5. autoTempDecode(text, "left") =
        IF Refuses(n, length) THEN NULL ELSE FirstEntries(entries, n)
  BY <1>2, <1>4, DecodedIs, Zenon DEF Sendable
<1>6. Refuses(n, length)
  BY <1>1, <1>3, SMTT(60) DEF Refuses
<1> QED
  BY <1>5, <1>6, Zenon

(* The page takes its own message for what it was, and the firmware's too. *)
LEMMA PointsAre ==
  ASSUME NEW entries, Sendable(entries), NEW text, text = autoTempEncode(entries)
  PROVE  convertBase64ToPoints(text) = entries
<1>1. PICK n \in Nat : n = Len(entries) /\ n \in Word16
  BY WordInNat, Zenon DEF Sendable
<1>2. PICK data : data = toByteArray(text) /\ data = Bytes(entries)
  BY MessageIs, Zenon
<1>3. HoldsSchedule(data, entries)
  BY <1>1, <1>2, BytesHold, Zenon
<1>4. Word(data[1], data[2]) = n
  BY <1>1, <1>3, HighLow, Zenon DEF HoldsSchedule
<1>5. convertBase64ToPoints(text) = [k \in 1 .. n |-> EntryAt(data, k)]
  BY <1>2, <1>4, Zenon DEF convertBase64ToPoints
<1>6. ASSUME NEW k \in 1 .. n
      PROVE  EntryAt(data, k) = entries[k]
  <2>1. HoldsEntry(data, k, entries[k])
    BY <1>1, <1>3, Zenon DEF HoldsSchedule
  <2>2. entries[k] \in WordEntry
    BY <1>1, ElementOfSeq, Zenon DEF Sendable
  <2>3. k \in Nat
    BY SMTT(60)
  <2> QED
    BY <2>1, <2>2, <2>3, EntryBack, Zenon
<1>7. Listed(entries, n)
  BY <1>1, SeqListed, Zenon DEF Sendable
<1>8. [k \in 1 .. n |-> EntryAt(data, k)] = [k \in 1 .. n |-> entries[k]]
  BY <1>6, Zenon
<1> QED
  BY <1>5, <1>7, <1>8, Zenon DEF Listed

-----------------------------------------------------------------------------
(* Some of the numbers up to n, in order.                                  *)

(* p lists the numbers of S up to n, in order.                             *)
Ordered(p, S, n) ==
  /\ p \in Seq(1 .. n) /\ Len(p) <= n
  /\ \A j, k \in 1 .. Len(p) : j < k => p[j] < p[k]
  /\ \A k \in 1 .. Len(p) : p[k] \in S
  /\ \A s \in S : s \in 1 .. n => \E k \in 1 .. Len(p) : p[k] = s

LEMMA OrderedNothing ==
  ASSUME NEW S
  PROVE  Ordered(<<>>, S, 0)
BY SMTT(60) DEF Ordered

LEMMA OrderedSkips ==
  ASSUME NEW S, NEW n \in Nat \ {0}, NEW p, Ordered(p, S, n - 1), n \notin S
  PROVE  Ordered(p \o <<>>, S, n)
<1>1. p \in Seq(1 .. n - 1) /\ Len(p) \in Nat
  BY SMTT(60) DEF Ordered
<1>2. p \o <<>> = p
  BY <1>1, SMTT(60)
<1>3. p \in Seq(1 .. n) /\ Len(p) <= n
  <2>1. 1 .. n - 1 \subseteq 1 .. n
    BY SMTT(60)
  <2>2. Len(p) <= n - 1
    BY Zenon DEF Ordered
  <2> QED
    BY <1>1, <2>1, <2>2, SMTT(60)
<1>4. \A s \in S : s \in 1 .. n => s \in 1 .. n - 1
  BY SMTT(60)
<1>5. \A s \in S : s \in 1 .. n => \E k \in 1 .. Len(p) : p[k] = s
  BY <1>4, Zenon DEF Ordered
<1>6. Ordered(p, S, n)
  BY <1>3, <1>5, Zenon DEF Ordered
<1> QED
  BY <1>2, <1>6, Zenon

LEMMA OrderedTakes ==
  ASSUME NEW S, NEW n \in Nat \ {0}, NEW p, Ordered(p, S, n - 1), n \in S
  PROVE  Ordered(p \o <<n>>, S, n)
<1>1. p \in Seq(1 .. n - 1) /\ Len(p) <= n - 1
  BY Zenon DEF Ordered
<1>2. PICK m \in Nat : m = Len(p)
  BY <1>1, LenProperties, Zenon
<1>3. PICK q : q = p \o <<n>>
  OBVIOUS
<1>4. p \in Seq(1 .. n) /\ <<n>> \in Seq(1 .. n)
  <2>1. 1 .. n - 1 \subseteq 1 .. n /\ n \in 1 .. n
    BY SMTT(60)
  <2> QED
    BY <1>1, <2>1, SMTT(60)
<1>5. /\ q \in Seq(1 .. n) /\ Len(q) = m + 1
      /\ \A k \in 1 .. m : q[k] = p[k]
      /\ q[m + 1] = n
  BY <1>2, <1>3, <1>4, SMTT(60)
<1>6. \A k \in 1 .. m : p[k] \in 1 .. n - 1 /\ p[k] \in S
  BY <1>1, <1>2, ElementOfSeq, Zenon DEF Ordered
<1>7. Len(q) <= n
  BY <1>1, <1>2, <1>5, SMTT(60)
<1>8. ASSUME NEW j \in 1 .. m + 1, NEW k \in 1 .. m + 1, j < k
      PROVE  q[j] < q[k]
  <2>1. j \in 1 .. m
    BY <1>8, SMTT(60)
  <2>2. CASE k = m + 1
    <3>1. q[j] \in 1 .. n - 1 /\ q[k] = n
      BY <1>5, <1>6, <2>1, <2>2, Zenon
    <3> QED
      BY <3>1, SMTT(60)
  <2>3. CASE k # m + 1
    <3>1. k \in 1 .. m
      BY <2>3, SMTT(60)
    <3>2. p[j] < p[k]
      BY <1>2, <1>8, <2>1, <3>1, Zenon DEF Ordered
    <3> QED
      BY <1>5, <2>1, <3>1, <3>2, Zenon
  <2> QED
    BY <2>2, <2>3, Zenon
<1>9. \A k \in 1 .. m + 1 : k \in 1 .. m \/ k = m + 1
  BY SMTT(60)
<1>10. \A k \in 1 .. m + 1 : q[k] \in S
  BY <1>5, <1>6, <1>9, Zenon
<1>11. ASSUME NEW s \in S, s \in 1 .. n
       PROVE  \E k \in 1 .. m + 1 : q[k] = s
  <2>1. CASE s = n
    <3>1. m + 1 \in 1 .. m + 1
      BY SMTT(60)
    <3> QED
      BY <1>5, <2>1, <3>1, Zenon
  <2>2. CASE s # n
    <3>1. s \in 1 .. n - 1
      BY <1>11, <2>2, SMTT(60)
    <3>2. PICK k \in 1 .. m : p[k] = s
      BY <1>2, <3>1, Zenon DEF Ordered
    <3>3. k \in 1 .. m + 1
      BY SMTT(60)
    <3> QED
      BY <1>5, <3>2, <3>3, Zenon
  <2> QED
    BY <2>1, <2>2, Zenon
<1>12. Ordered(q, S, n)
  BY <1>5, <1>7, <1>8, <1>10, <1>11, Zenon DEF Ordered
<1> QED
  BY <1>3, <1>12, Zenon

LEMMA InOrderIs ==
  ASSUME NEW S, NEW n \in Nat
  PROVE  Ordered(InOrder(S, n), S, n)
<1> DEFINE seqs == [k \in 1 .. n |-> IF k \in S THEN <<k>> ELSE <<>>]
<1>a. <<>> \in Seq(1 .. n) /\ \A k \in 1 .. n : <<k>> \in Seq(1 .. n)
  <2>1. PICK K : K = 1 .. n
    OBVIOUS
  <2>2. <<>> \in Seq(K) /\ \A k \in K : <<k>> \in Seq(K)
    BY SMTT(60)
  <2> QED
    BY <2>1, <2>2, Zenon
<1>1. seqs \in [1 .. n -> Seq(1 .. n)]
  BY <1>a, Zenon
<1>2. \A k \in 1 .. n : seqs[k] = IF k \in S THEN <<k>> ELSE <<>>
  BY Zenon
<1>3. InOrder(S, n) = FlattenSeq(seqs)
  BY Zenon DEF InOrder
<1> HIDE DEF seqs
<1>4. PICK f \in [0 .. n -> Seq(1 .. n)] :
        Flattening(f, seqs, n) /\ FlattenSeq(seqs) = f[n]
  BY <1>1, FlattenedIs, Zenon DEF Flattened
<1> DEFINE Good == {k \in 0 .. n : Ordered(f[k], S, k)}
<1>5. 0 \in Good
  <2>1. f[0] = <<>> /\ 0 \in 0 .. n
    BY <1>4, SMTT(60) DEF Flattening
  <2> QED
    BY <2>1, OrderedNothing, Zenon
<1>6. ASSUME NEW k \in 1 .. n, k - 1 \in Good
      PROVE  k \in Good
  <2>1. Ordered(f[k - 1], S, k - 1) /\ f[k] = f[k - 1] \o seqs[k]
    BY <1>4, <1>6, Zenon DEF Flattening
  <2>2. k \in Nat \ {0} /\ k \in 0 .. n
    BY SMTT(60)
  <2>3. CASE k \in S
    <3>1. f[k] = f[k - 1] \o <<k>>
      BY <1>2, <2>1, <2>3, Zenon
    <3> QED
      BY <2>1, <2>2, <2>3, <3>1, OrderedTakes, Zenon
  <2>4. CASE k \notin S
    <3>1. f[k] = f[k - 1] \o <<>>
      BY <1>2, <2>1, <2>4, Zenon
    <3> QED
      BY <2>1, <2>2, <2>4, <3>1, OrderedSkips, Zenon
  <2> QED
    BY <2>3, <2>4, Zenon
<1> HIDE DEF Good
<1>7. n \in Good
  <2>1. \A k \in 0 .. n : k \in Good
    BY <1>5, <1>6, InductionTo, Zenon
  <2> QED
    BY <2>1, SMTT(60)
<1> QED
  BY <1>3, <1>4, <1>7, Zenon DEF Good

Picks(r, seq, p) == r = [k \in 1 .. Len(p) |-> seq[p[k]]]

LEMMA PickedIs ==
  ASSUME NEW seq, Len(seq) \in Nat, NEW S
  PROVE  \E p : Ordered(p, S, Len(seq)) /\ Picks(Picked(seq, S), seq, p)
<1>1. PICK p : p = InOrder(S, Len(seq))
  OBVIOUS
<1>2. Ordered(p, S, Len(seq))
  BY <1>1, InOrderIs, Zenon
<1>3. Picks(Picked(seq, S), seq, p)
  BY <1>1, Zenon DEF Picked, Picks
<1> QED
  BY <1>2, <1>3, Zenon

-----------------------------------------------------------------------------
(* The bars of the week.                                                   *)

(* The bars of a day, and their width.                                     *)
PerDay == DayMinutes \div SlotMinutes
Width(w, q) == w \in Nat \ {0} /\ q \in Nat \ {0} /\ w * q = DayMinutes

LEMMA PerDayIs ==
  /\ Width(SlotMinutes, PerDay)
  /\ SlotMinutes \in Nat \ {0} /\ PerDay \in Nat \ {0}
  /\ MaxEntries = 7 * PerDay
  /\ Slots = 0 .. PerDay - 1
<1>1. PICK m \in Nat \ {0} : m = SlotMinutes /\ 1440 % m = 0
  BY SlotAssumption, SMTT(60)
<1>2. PICK u \in Nat : u = 1440
  OBVIOUS
<1>3. u % m = 0
  BY <1>1, <1>2, SMTT(60)
<1>4. DayMinutes = u
  BY <1>2, SMTT(60) DEF DayMinutes
<1>u. u > 0
  BY <1>2
<1>5. m \in Nat \ {0} /\ m = SlotMinutes
  BY <1>1
<1> HIDE <1>1, <1>2
<1>6. PICK q \in Nat, r \in Nat : r < m /\ Cut(u, m, q, r)
  BY <1>5, Divided, Zenon
<1>7. u = m * q + r /\ u \div m = q /\ r = 0
  BY <1>3, <1>6, Zenon DEF Cut
<1>8. m * q = u
  <2>1. PICK p \in Nat : p = m * q
    BY SMTT(60)
  <2>2. p = u
    BY <1>7, <2>1, SMTT(60)
  <2> QED
    BY <2>1, <2>2
<1>9. q # 0
  BY <1>8, <1>u, SMTT(60)
<1>10. PerDay = q
  BY <1>4, <1>5, <1>7, Zenon DEF PerDay
<1>11. Width(m, q)
  BY <1>4, <1>8, <1>9, <1>5, Zenon DEF Width
<1> QED
  BY <1>5, <1>9, <1>10, <1>11, Zenon DEF MaxEntries, Slots, PerDay

(* The s-th bar of the week is the t-th one of day d.                      *)
Bar(s, q, d, t) == s = q * d + t

LEMMA BarOfWeek ==
  ASSUME NEW q \in Nat \ {0}, NEW d \in Nat, NEW t \in Nat, t < q, NEW s \in Nat,
         Bar(s, q, d, t)
  PROVE  s < 7 * q <=> d < 7
<1>1. CASE d < 7
  <2>1. PICK e \in Nat : 7 = d + 1 + e
    BY <1>1, SMTT(60)
  <2>2. PICK x \in Nat, y \in Nat : x = q * d /\ y = q * e
    BY SMTT(60)
  <2>3. 7 * q = x + q + y
    BY <2>1, <2>2, SMTT(60)
  <2>4. s = x + t
    BY <2>2, Zenon DEF Bar
  <2> QED
    BY <1>1, <2>2, <2>3, <2>4, SMTT(60)
<1>2. CASE ~(d < 7)
  <2>1. PICK e \in Nat : d = 7 + e
    BY <1>2, SMTT(60)
  <2>2. PICK x \in Nat, y \in Nat : x = q * d /\ y = q * e
    BY SMTT(60)
  <2>3. x = 7 * q + y
    BY <2>1, <2>2, SMTT(60)
  <2>4. s = x + t
    BY <2>2, Zenon DEF Bar
  <2> QED
    BY <1>2, <2>2, <2>3, <2>4, SMTT(60)
<1> QED
  BY <1>1, <1>2

LEMMA BarFields ==
  ASSUME NEW d \in Nat, NEW t \in Nat, t < PerDay, NEW s \in Nat, Bar(s, PerDay, d, t)
  PROVE  DayOfSlot(s) = d /\ SlotOfDay(s) = t
<1>1. PerDay \in Nat \ {0}
  BY PerDayIs, Zenon
<1>2. Made(s, PerDay, d, t)
  BY Zenon DEF Made, Bar
<1>3. s \div PerDay = d /\ s % PerDay = t
  BY <1>1, <1>2, DivModIs, Zenon
<1> QED
  BY <1>3, Zenon DEF DayOfSlot, SlotOfDay, PerDay

LEMMA BarOf ==
  ASSUME NEW s \in Nat
  PROVE  \E d \in Nat, t \in Slots :
           /\ t \in Nat /\ t < PerDay /\ Bar(s, PerDay, d, t)
           /\ DayOfSlot(s) = d /\ SlotOfDay(s) = t
           /\ s < MaxEntries <=> d \in Days
<1>1. PICK q \in Nat \ {0} : q = PerDay
  BY PerDayIs, Zenon
<1>2. PICK d \in Nat, t \in Nat : t < q /\ Cut(s, q, d, t)
  BY Divided, Zenon
<1>3. Bar(s, q, d, t)
  BY <1>2, Zenon DEF Cut, Bar
<1>4. DayOfSlot(s) = d /\ SlotOfDay(s) = t
  BY <1>1, <1>2, <1>3, BarFields, Zenon
<1>5. s < 7 * q <=> d < 7
  BY <1>2, <1>3, BarOfWeek, Zenon
<1>6. d < 7 <=> d \in Days
  BY SMTT(60) DEF Days
<1>7. t \in 0 .. q - 1
  BY <1>2, SMTT(60)
<1>8. t \in Slots /\ MaxEntries = 7 * q
  BY <1>1, <1>7, PerDayIs, Zenon
<1> QED
  BY <1>1, <1>2, <1>3, <1>4, <1>5, <1>6, <1>8, Zenon

-----------------------------------------------------------------------------
Used(charts) == {s \in Nat : s < MaxEntries /\ DayOfSlot(s) \in EnabledDays(charts)}

(* What the page's entries can be.                                         *)
WeekMinutes == {m \in Nat : m < 7 * DayMinutes}
TempEntry == [time : WeekMinutes, temp : Temps]

LEMMA ChartIs ==
  ASSUME NEW charts \in Seq(ChartType), NEW c \in 1 .. Len(charts)
  PROVE  /\ charts[c].enabledDays \in SUBSET Days
         /\ charts[c].values \in [Slots -> Temps]
         /\ charts[c] = [enabledDays |-> charts[c].enabledDays, values |-> charts[c].values]
<1>1. charts[c] \in ChartType
  BY ElementOfSeq, Zenon
<1> QED
  BY <1>1, Zenon DEF ChartType

LEMMA EnabledInDays ==
  ASSUME NEW charts \in Seq(ChartType)
  PROVE  EnabledDays(charts) \subseteq Days
<1> SUFFICES ASSUME NEW d \in EnabledDays(charts) PROVE d \in Days
  OBVIOUS
<1>1. PICK c \in 1 .. Len(charts) : d \in charts[c].enabledDays
  BY Zenon DEF EnabledDays
<1> QED
  BY <1>1, ChartIs, Zenon

ShownBy(charts, day, c) ==
  /\ c \in 1 .. Len(charts)
  /\ day \in charts[c].enabledDays
  /\ \A d \in c + 1 .. Len(charts) : day \notin charts[d].enabledDays

LEMMA BarsAre ==
  ASSUME NEW charts \in Seq(ChartType), NEW day \in EnabledDays(charts)
  PROVE  \E c : ShownBy(charts, day, c) /\ BarsOf(charts, day) = charts[c].values
<1>1. PICK n \in Nat : n = Len(charts)
  BY LenProperties, Zenon
<1> DEFINE T == {c \in 1 .. n : day \in charts[c].enabledDays}
<1>2. T \in SUBSET (1 .. n) /\ T # {}
  <2>1. PICK c \in 1 .. n : day \in charts[c].enabledDays
    BY <1>1, Zenon DEF EnabledDays
  <2> QED
    BY <2>1, Zenon
<1>3. PICK m \in T : \A k \in T : k <= m
  BY <1>2, LargestIn, Zenon
<1>4. ASSUME NEW d \in m + 1 .. n PROVE day \notin charts[d].enabledDays
  <2>1. d \in 1 .. n /\ ~(d <= m)
    BY SMTT(60)
  <2> QED
    BY <1>3, <2>1, Zenon
<1>5. \E c \in 1 .. n : /\ day \in charts[c].enabledDays
                        /\ \A d \in c + 1 .. n : ~(day \in charts[d].enabledDays)
  BY <1>4, Zenon
<1>6. PICK c : /\ c = CHOOSE e \in 1 .. n : /\ day \in charts[e].enabledDays
                                            /\ \A d \in e + 1 .. n : ~(day \in charts[d].enabledDays)
  OBVIOUS
<1>7. c \in 1 .. n /\ day \in charts[c].enabledDays
      /\ \A d \in c + 1 .. n : ~(day \in charts[d].enabledDays)
  BY <1>5, <1>6, Zenon
<1>8. BarsOf(charts, day) = charts[c].values
  BY <1>1, <1>6, Zenon DEF BarsOf
<1> QED
  BY <1>1, <1>7, <1>8, Zenon DEF ShownBy

LEMMA BarsTyped ==
  ASSUME NEW charts \in Seq(ChartType), NEW day \in EnabledDays(charts)
  PROVE  BarsOf(charts, day) \in [Slots -> Temps]
<1>1. PICK c : ShownBy(charts, day, c) /\ BarsOf(charts, day) = charts[c].values
  BY BarsAre, Zenon
<1>2. c \in 1 .. Len(charts)
  BY <1>1, Zenon DEF ShownBy
<1>3. charts[c].values \in [Slots -> Temps]
  BY <1>2, ChartIs, Zenon
<1> QED
  BY <1>1, <1>3, Zenon

(* When a bar begins.                                                      *)
Begin(s) == s * SlotMinutes

LEMMA BeginIs ==
  ASSUME NEW s \in Nat, NEW r \in Nat
  PROVE  /\ Begin(s) \in Nat
         /\ s < r => Begin(s) + SlotMinutes <= Begin(r)
         /\ s <= r <=> Begin(s) <= Begin(r)
         /\ s < MaxEntries => Begin(s) \in WeekMinutes
<1>1. PICK w \in Nat \ {0} : w = SlotMinutes
  BY PerDayIs, Zenon
<1>2. PICK q \in Nat \ {0} : q = PerDay /\ w * q = DayMinutes
  BY <1>1, PerDayIs, Zenon DEF Width
<1>3. PICK x \in Nat, y \in Nat : x = s * w /\ y = r * w
  BY SMTT(60)
<1>4. Begin(s) = x /\ Begin(r) = y
  BY <1>1, <1>3, Zenon DEF Begin
<1>5. s < r => x + w <= y
  <2> SUFFICES ASSUME s < r PROVE x + w <= y
    OBVIOUS
  <2>1. PICK e \in Nat : r = s + 1 + e
    BY SMTT(60)
  <2>2. PICK z \in Nat : z = e * w
    BY SMTT(60)
  <2>3. y = x + w + z
    BY <1>3, <2>1, <2>2, SMTT(60)
  <2> QED
    BY <2>3, SMTT(60)
<1>6. r < s => y + w <= x
  <2> SUFFICES ASSUME r < s PROVE y + w <= x
    OBVIOUS
  <2>1. PICK e \in Nat : s = r + 1 + e
    BY SMTT(60)
  <2>2. PICK z \in Nat : z = e * w
    BY SMTT(60)
  <2>3. x = y + w + z
    BY <1>3, <2>1, <2>2, SMTT(60)
  <2> QED
    BY <2>3, SMTT(60)
<1>7. s = r => x = y
  BY <1>3
<1>8. s <= r <=> x <= y
  BY <1>5, <1>6, <1>7, SMTT(60)
<1>d. PICK u \in Nat : u = DayMinutes
  BY SMTT(60) DEF DayMinutes
<1>9. s < MaxEntries => x < 7 * u
  <2>0. MaxEntries = 7 * q
    BY <1>2, PerDayIs, Zenon
  <2> SUFFICES ASSUME s < 7 * q PROVE x < 7 * u
    BY <2>0, Zenon
  <2>3. PICK v \in Nat : v = 7 * q /\ s < v
    BY SMTT(60)
  <2>5. v - (s + 1) \in Nat /\ v = s + 1 + (v - (s + 1))
    BY <2>3, SMTT(60)
  <2>1. PICK e \in Nat : 7 * q = s + 1 + e
    BY <2>3, <2>5, Zenon
  <2>2. PICK z \in Nat : z = e * w
    BY SMTT(60)
  <2>4. 7 * u = x + w + z
    <3>1. w * q = u
      BY <1>2, <1>d, Zenon
    <3>2. 7 * u = (7 * q) * w
      BY <3>1, SMTT(60)
    <3> QED
      BY <3>2, <1>3, <2>1, <2>2, SMTT(60)
  <2> QED
    BY <2>4, SMTT(60)
<1>10. s < MaxEntries => x \in WeekMinutes
  BY <1>9, <1>d, Zenon DEF WeekMinutes
<1> QED
  BY <1>1, <1>3, <1>4, <1>5, <1>8, <1>10, Zenon

LEMMA BarAtIs ==
  ASSUME NEW charts \in Seq(ChartType), NEW s \in Used(charts)
  PROVE  /\ BarAt(charts, s) \in TempEntry
         /\ BarAt(charts, s).time = Begin(s)
         /\ BarAt(charts, s).temp = BarsOf(charts, DayOfSlot(s))[SlotOfDay(s)]
<1>1. s \in Nat /\ s < MaxEntries /\ DayOfSlot(s) \in EnabledDays(charts)
  BY Zenon DEF Used
<1>2. SlotOfDay(s) \in Slots
  BY <1>1, BarOf, Zenon
<1>3. Begin(s) \in WeekMinutes
  BY <1>1, BeginIs, Zenon
<1>4. BarsOf(charts, DayOfSlot(s))[SlotOfDay(s)] \in Temps
  BY <1>1, <1>2, BarsTyped, Zenon
<1> QED
  BY <1>3, <1>4, Zenon DEF BarAt, Begin, TempEntry

-----------------------------------------------------------------------------
(* What charts tell the device.                                            *)

(* The schedule r of charts: its k-th entry is the bar at[k], and up to    *)
(* the next entry every bar shows the same.                                *)
Until(r, charts, at, u, k) ==
  /\ k \in 1 .. Len(r)
  /\ at[k] <= u /\ r[k].temp = BarAt(charts, u).temp
  /\ \A j \in k + 1 .. Len(r) : u < at[j]

Tells(r, charts, at) ==
  /\ r \in Seq(TempEntry) /\ Len(r) <= MaxEntries
  /\ \A k \in 1 .. Len(r) : at[k] \in Used(charts) /\ r[k] = BarAt(charts, at[k])
  /\ \A j, k \in 1 .. Len(r) : j < k => at[j] < at[k]
  /\ \A u \in Used(charts) : \E k : Until(r, charts, at, u, k)

LEMMA MaxInNat == MaxEntries \in Nat
BY MaxEntriesInNat, SMTT(60)

UsedFrom1(charts) == {k \in 1 .. MaxEntries : DayOfSlot(k - 1) \in EnabledDays(charts)}

(* Of the bars, taken at e, p are those that change.                       *)
Changes(bars) == {k \in 1 .. Len(bars) : k = 1 \/ bars[k].temp # bars[k - 1].temp}

LEMMA ScheduleForm ==
  ASSUME NEW charts, NEW e, e = EnabledSlots(charts),
         NEW bars, bars = [k \in 1 .. Len(e) |-> BarAt(charts, e[k] - 1)]
  PROVE  getDataForESP(charts) = Picked(bars, Changes(bars))
BY Zenon DEF getDataForESP, getDataFromBars, EnabledBars, Changes

LEMMA EnabledForm ==
  ASSUME NEW charts
  PROVE  Ordered(EnabledSlots(charts), UsedFrom1(charts), MaxEntries)
<1>1. MaxEntries \in Nat
  BY MaxInNat, Zenon
<1>2. EnabledSlots(charts) = InOrder(UsedFrom1(charts), MaxEntries)
  BY Zenon DEF EnabledSlots, UsedFrom1
<1> QED
  BY <1>1, <1>2, InOrderIs, Zenon

LEMMA UsedIs ==
  ASSUME NEW charts, NEW k
  PROVE  /\ k \in UsedFrom1(charts) => k \in 1 .. MaxEntries /\ k - 1 \in Used(charts)
         /\ k \in Used(charts) => k \in Nat /\ k + 1 \in UsedFrom1(charts)
                                  /\ k + 1 \in 1 .. MaxEntries /\ (k + 1) - 1 = k
<1>1. MaxEntries \in Nat
  BY MaxInNat, Zenon
<1>2. ASSUME k \in UsedFrom1(charts)
      PROVE  k \in 1 .. MaxEntries /\ k - 1 \in Used(charts)
  <2>1. k \in 1 .. MaxEntries /\ DayOfSlot(k - 1) \in EnabledDays(charts)
    BY <1>2, Zenon DEF UsedFrom1
  <2>2. k - 1 \in Nat /\ k - 1 < MaxEntries
    BY <1>1, <2>1, SMTT(60)
  <2> QED
    BY <2>1, <2>2, Zenon DEF Used
<1>3. ASSUME k \in Used(charts)
      PROVE  k \in Nat /\ k + 1 \in UsedFrom1(charts)
             /\ k + 1 \in 1 .. MaxEntries /\ (k + 1) - 1 = k
  <2>1. k \in Nat /\ k < MaxEntries /\ DayOfSlot(k) \in EnabledDays(charts)
    BY <1>3, Zenon DEF Used
  <2>2. k + 1 \in 1 .. MaxEntries /\ (k + 1) - 1 = k
    BY <1>1, <2>1, SMTT(60)
  <2> QED
    BY <2>1, <2>2, Zenon DEF UsedFrom1
<1> QED
  BY <1>2, <1>3, Zenon

(* From one change to the next the bars are the same.                      *)
SameSince(bars, p, q, k) ==
  /\ k \in 1 .. Len(p) /\ p[k] <= q /\ bars[q].temp = bars[p[k]].temp
  /\ \A j \in k + 1 .. Len(p) : q < p[j]

LEMMA ChangesTell ==
  ASSUME NEW bars, NEW n \in Nat, n = Len(bars), NEW p, Ordered(p, Changes(bars), n),
         NEW q \in 1 .. n
  PROVE  \E k : SameSince(bars, p, q, k)
<1>1. PICK l \in Nat : l = Len(p)
  BY LenProperties, Zenon DEF Ordered
<1>2. \A k \in 1 .. l : p[k] \in 1 .. n /\ p[k] \in Changes(bars)
  BY <1>1, ElementOfSeq, Zenon DEF Ordered
<1>3. \A j, k \in 1 .. l : j < k => p[j] < p[k]
  BY <1>1, Zenon DEF Ordered
<1>4. \A s \in Changes(bars) : \E k \in 1 .. l : p[k] = s
  <2>1. \A s \in Changes(bars) : s \in 1 .. n
    BY Zenon DEF Changes
  <2> QED
    BY <1>1, <2>1, Zenon DEF Ordered
<1>5. ASSUME NEW k \in 1 .. l PROVE SameSince(bars, p, p[k], k)
  <2>1. \A j \in k + 1 .. l : j \in 1 .. l /\ k < j
    BY SMTT(60)
  <2>2. p[k] <= p[k]
    BY <1>2, SMTT(60)
  <2> QED
    BY <1>1, <1>3, <2>1, <2>2, Zenon DEF SameSince
<1> DEFINE Good == {m \in 0 .. n : m # 0 => \E k : SameSince(bars, p, m, k)}
<1>6. 0 \in Good
  BY SMTT(60)
<1>7. ASSUME NEW m \in 1 .. n, m - 1 \in Good PROVE m \in Good
  <2>0. m \in 0 .. n /\ m \in Nat
    BY SMTT(60)
  <2>1. CASE m \in Changes(bars)
    <3>1. PICK k \in 1 .. l : p[k] = m
      BY <1>4, <2>1, Zenon
    <3>2. SameSince(bars, p, m, k)
      BY <1>5, <3>1, Zenon
    <3> QED
      BY <2>0, <3>2, Zenon
  <2>2. CASE m \notin Changes(bars)
    <3>1. m # 1 /\ bars[m].temp = bars[m - 1].temp
      BY <2>2, Zenon DEF Changes
    <3>2. m - 1 # 0
      BY <3>1, <2>0, SMTT(60)
    <3>3. PICK k : SameSince(bars, p, m - 1, k)
      BY <1>7, <3>2, Zenon
    <3>4. k \in 1 .. l /\ p[k] <= m - 1 /\ bars[m].temp = bars[p[k]].temp
      BY <1>1, <3>1, <3>3, Zenon DEF SameSince
    <3>5. p[k] <= m
      <4>1. p[k] \in 1 .. n
        BY <1>2, <3>4, Zenon
      <4> QED
        BY <3>4, <4>1, SMTT(60)
    <3>6. ASSUME NEW j \in k + 1 .. l PROVE m < p[j]
      <4>1. m - 1 < p[j]
        BY <1>1, <3>3, Zenon DEF SameSince
      <4>2. j \in 1 .. l
        BY <3>4, SMTT(60)
      <4>3. p[j] \in 1 .. n /\ p[j] # m
        BY <1>2, <2>2, <4>2, Zenon
      <4> QED
        BY <4>1, <4>3, SMTT(60)
    <3>7. SameSince(bars, p, m, k)
      BY <1>1, <3>4, <3>5, <3>6, Zenon DEF SameSince
    <3> QED
      BY <2>0, <3>7, Zenon
  <2> QED
    BY <2>1, <2>2, Zenon
<1> HIDE DEF Good
<1>8. \A m \in 0 .. n : m \in Good
  BY <1>6, <1>7, InductionTo, Zenon
<1>9. q \in 0 .. n /\ q # 0
  BY SMTT(60)
<1> QED
  BY <1>8, <1>9, Zenon DEF Good

LEMMA ScheduleTells ==
  ASSUME NEW charts \in Seq(ChartType)
  PROVE  \E at : Tells(getDataForESP(charts), charts, at)
<1>1. PICK e : e = EnabledSlots(charts)
  OBVIOUS
<1>2. Ordered(e, UsedFrom1(charts), MaxEntries)
  BY <1>1, EnabledForm, Zenon
<1>3. PICK n \in Nat : n = Len(e) /\ n <= MaxEntries
  BY <1>2, LenProperties, Zenon DEF Ordered
<1>4. PICK bars : bars = [k \in 1 .. n |-> BarAt(charts, e[k] - 1)]
  OBVIOUS
<1>5. Len(bars) = n
  BY <1>4, SMTT(60)
<1>6. PICK p : Ordered(p, Changes(bars), n)
               /\ Picks(Picked(bars, Changes(bars)), bars, p)
  BY <1>5, PickedIs, Zenon
<1>7. PICK l \in Nat : l = Len(p) /\ l <= n
  BY <1>6, LenProperties, Zenon DEF Ordered
<1>8. PICK at : at = [k \in 1 .. l |-> e[p[k]] - 1]
  OBVIOUS
<1>9. PICK r : r = getDataForESP(charts)
  OBVIOUS
<1>10. r = [k \in 1 .. l |-> bars[p[k]]]
  <2>1. bars = [k \in 1 .. Len(e) |-> BarAt(charts, e[k] - 1)]
    BY <1>3, <1>4, Zenon
  <2>2. r = Picked(bars, Changes(bars))
    BY <1>1, <1>9, <2>1, ScheduleForm, Zenon
  <2>3. Picked(bars, Changes(bars)) = [k \in 1 .. Len(p) |-> bars[p[k]]]
    BY <1>6, Zenon DEF Picks
  <2> QED
    BY <1>7, <2>2, <2>3, Zenon
<1>11. \A k \in 1 .. l : p[k] \in 1 .. n
  BY <1>6, <1>7, ElementOfSeq, Zenon DEF Ordered
<1>12. ASSUME NEW q \in 1 .. n
       PROVE  e[q] \in 1 .. MaxEntries /\ e[q] - 1 \in Used(charts)
              /\ bars[q] = BarAt(charts, e[q] - 1)
  <2>1. e[q] \in UsedFrom1(charts)
    BY <1>2, <1>3, Zenon DEF Ordered
  <2> QED
    BY <1>4, <2>1, UsedIs, Zenon
<1>13. ASSUME NEW k \in 1 .. l
       PROVE  at[k] \in Used(charts) /\ r[k] = BarAt(charts, at[k])
  <2>1. at[k] = e[p[k]] - 1 /\ r[k] = bars[p[k]]
    BY <1>8, <1>10, Zenon
  <2> QED
    BY <1>11, <1>12, <2>1, Zenon
<1>14. ASSUME NEW q \in 1 .. n, NEW m \in 1 .. n
       PROVE  /\ q < m => e[q] - 1 < e[m] - 1
              /\ q <= m => e[q] - 1 <= e[m] - 1
  <2>1. q < m => e[q] < e[m]
    BY <1>2, <1>3, Zenon DEF Ordered
  <2>2. e[q] \in 1 .. MaxEntries /\ e[m] \in 1 .. MaxEntries
    BY <1>12, Zenon
  <2> QED
    BY <2>1, <2>2, SMTT(60)
<1>15. ASSUME NEW j \in 1 .. l, NEW k \in 1 .. l, j < k
       PROVE  at[j] < at[k]
  <2>1. p[j] < p[k]
    BY <1>6, <1>7, <1>15, Zenon DEF Ordered
  <2>2. at[j] = e[p[j]] - 1 /\ at[k] = e[p[k]] - 1
    BY <1>8, Zenon
  <2> QED
    BY <1>11, <1>14, <2>1, <2>2, Zenon
<1>16. r \in Seq(TempEntry) /\ Len(r) = l
  <2>1. \A k \in 1 .. l : r[k] \in TempEntry
    BY <1>13, BarAtIs, Zenon
  <2>2. r \in [1 .. l -> TempEntry]
    BY <1>10, <2>1, Zenon
  <2> QED
    BY <2>2, SMTT(60)
<1>17. l <= MaxEntries
  BY <1>3, <1>7, MaxInNat, SMTT(60)
<1>18. ASSUME NEW u \in Used(charts)
       PROVE  \E k : Until(r, charts, at, u, k)
  <2>1. u + 1 \in UsedFrom1(charts) /\ u + 1 \in 1 .. MaxEntries /\ (u + 1) - 1 = u
    BY UsedIs, Zenon
  <2>2. PICK q \in 1 .. n : e[q] = u + 1
    BY <1>2, <1>3, <2>1, Zenon DEF Ordered
  <2>3. PICK k : SameSince(bars, p, q, k)
    BY <1>5, <1>6, ChangesTell, Zenon
  <2>4. k \in 1 .. l /\ p[k] <= q /\ bars[q].temp = bars[p[k]].temp
    BY <1>7, <2>3, Zenon DEF SameSince
  <2>5. e[q] - 1 = u /\ bars[q] = BarAt(charts, u)
    BY <1>12, <2>1, <2>2, Zenon
  <2>6. at[k] <= u
    <3>1. at[k] = e[p[k]] - 1
      BY <1>8, <2>4, Zenon
    <3> QED
      BY <1>11, <1>14, <2>4, <2>5, <3>1, Zenon
  <2>7. r[k].temp = BarAt(charts, u).temp
    BY <1>10, <2>4, <2>5, Zenon
  <2>8. ASSUME NEW j \in k + 1 .. l PROVE u < at[j]
    <3>1. j \in 1 .. l
      BY <2>4, SMTT(60)
    <3>2. q < p[j]
      BY <1>7, <2>3, Zenon DEF SameSince
    <3>3. at[j] = e[p[j]] - 1
      BY <1>8, <3>1, Zenon
    <3> QED
      BY <1>11, <1>14, <2>5, <3>1, <3>2, <3>3, Zenon
  <2> QED
    BY <1>16, <2>4, <2>6, <2>7, <2>8, Zenon DEF Until
<1>19. Tells(r, charts, at)
  BY <1>13, <1>15, <1>16, <1>17, <1>18, Zenon DEF Tells
<1> QED
  BY <1>9, <1>19, Zenon

(* Entries, and what fits the message.                                     *)
LEMMA TempEntries ==
  ASSUME NEW r \in Seq(TempEntry)
  PROVE  r \in Seq(WordEntry) /\ r \in Seq(Entry)
<1>1. WeekMinutes \subseteq Word16 /\ WeekMinutes \subseteq Nat
  BY SMTT(60) DEF WeekMinutes, Word16, DayMinutes
<1>2. Temps \subseteq Word16 /\ Temps \subseteq Int
  BY SMTT(60) DEF Temps, Word16
<1>3. TempEntry \subseteq WordEntry /\ TempEntry \subseteq Entry
  BY <1>1, <1>2, Zenon DEF TempEntry, WordEntry, Entry
<1> QED
  BY <1>3, WiderSeq, Zenon

LEMMA MaxInWord ==
  ASSUME NEW n \in Nat, n <= MaxEntries
  PROVE  n \in Word16
BY MaxEntriesInNat, SMTT(60) DEF Word16

LEMMA ScheduleTyped ==
  ASSUME NEW charts \in Seq(ChartType), NEW r, r = getDataForESP(charts)
  PROVE  r \in Seq(TempEntry) /\ Sendable(r) /\ Len(r) <= MaxEntries
<1>1. PICK at : Tells(r, charts, at)
  BY ScheduleTells, Zenon
<1>2. r \in Seq(TempEntry) /\ Len(r) <= MaxEntries
  BY <1>1, Zenon DEF Tells
<1>3. Len(r) \in Word16
  BY <1>2, LenProperties, MaxInWord, Zenon
<1> QED
  BY <1>2, <1>3, TempEntries, Zenon DEF Sendable

(* No day is enabled: no schedule.                                         *)
EmptyTogether(r, charts) == r = <<>> <=> EnabledDays(charts) = {}

LEMMA EmptySchedule ==
  ASSUME NEW charts \in Seq(ChartType)
  PROVE  EmptyTogether(getDataForESP(charts), charts)
<1>r. PICK r : r = getDataForESP(charts)
  OBVIOUS
<1>1. PICK at : Tells(r, charts, at)
  BY <1>r, ScheduleTells, Zenon
<1>2. PICK n \in Nat : n = Len(r) /\ r \in Seq(TempEntry)
  BY <1>1, LenProperties, Zenon DEF Tells
<1>3. r = <<>> <=> n = 0
  BY <1>2, EmptySeq, SMTT(60)
<1>4. ASSUME n # 0 PROVE EnabledDays(charts) # {}
  <2>1. 1 \in 1 .. n
    BY <1>4, SMTT(60)
  <2>2. at[1] \in Used(charts)
    BY <1>1, <1>2, <2>1, Zenon DEF Tells
  <2> QED
    BY <2>2, Zenon DEF Used
<1>5. ASSUME NEW d \in EnabledDays(charts) PROVE n # 0
  <2>1. d \in Days /\ d \in Nat
    BY EnabledInDays, SMTT(60) DEF Days
  <2>2. PerDay \in Nat /\ 0 < PerDay
    BY PerDayIs, SMTT(60)
  <2>3. PICK s \in Nat : s = PerDay * d + 0
    BY <2>1, <2>2, SMTT(60)
  <2>4. DayOfSlot(s) = d
    BY <2>1, <2>2, <2>3, BarFields, Zenon DEF Bar
  <2>5. s < MaxEntries
    BY <2>1, <2>4, BarOf, Zenon
  <2>6. s \in Used(charts)
    BY <2>4, <2>5, Zenon DEF Used
  <2>7. PICK k : Until(r, charts, at, s, k)
    BY <1>1, <2>6, Zenon DEF Tells
  <2>8. k \in 1 .. n
    BY <1>2, <2>7, Zenon DEF Until
  <2> QED
    BY <2>8, SMTT(60)
<1> QED
  BY <1>r, <1>3, <1>4, <1>5, Zenon DEF EmptyTogether

LEMMA ScheduleSorted ==
  ASSUME NEW charts \in Seq(ChartType), NEW r, r = getDataForESP(charts)
  PROVE  Sorted(r)
<1>1. PICK at : Tells(r, charts, at)
  BY ScheduleTells, Zenon
<1>2. ASSUME NEW j \in 1 .. Len(r), NEW k \in 1 .. Len(r), j < k
      PROVE  r[j].time < r[k].time
  <2>1. at[j] < at[k] /\ at[j] \in Used(charts) /\ at[k] \in Used(charts)
    BY <1>1, <1>2, Zenon DEF Tells
  <2>2. r[j].time = Begin(at[j]) /\ r[k].time = Begin(at[k])
    BY <1>1, <2>1, BarAtIs, Zenon DEF Tells
  <2>3. at[j] \in Nat /\ at[k] \in Nat
    BY <2>1, Zenon DEF Used
  <2>4. Begin(at[j]) + SlotMinutes <= Begin(at[k])
        /\ Begin(at[j]) \in Nat /\ Begin(at[k]) \in Nat /\ SlotMinutes \in Nat \ {0}
    BY <2>1, <2>3, BeginIs, PerDayIs, Zenon
  <2> QED
    BY <2>2, <2>4, SMTT(60)
<1> QED
  BY <1>2, Zenon DEF Sorted

-----------------------------------------------------------------------------
(* Back to the page: bars from entries, days from the week.                *)

(* The page's index moves on by one at most.                               *)
Moved(entries, last, s) ==
  IF last < Len(entries) /\ entries[last + 1].time <= s * SlotMinutes
  THEN last + 1 ELSE last

Before(f, s) == IF s = 0 THEN 1 ELSE f[s - 1]

Indexes(f, entries) == f = [s \in Slots |-> Moved(entries, Before(f, s), s)]

LEMMA IndexForm ==
  ASSUME NEW entries
  PROVE  IndexAt(entries) = CHOOSE f : Indexes(f, entries)
BY Zenon DEF IndexAt, Indexes, Moved, Before

LEMMA MovedInside ==
  ASSUME NEW entries, NEW n \in Nat, n = Len(entries), NEW last \in 1 .. n, NEW s
  PROVE  Moved(entries, last, s) \in 1 .. n
BY SMTT(60) DEF Moved

LEMMA IndexExists ==
  ASSUME NEW entries, NEW n \in Nat \ {0}, n = Len(entries)
  PROVE  \E f : Indexes(f, entries)
<1>1. PICK q \in Nat \ {0} : q = PerDay /\ Slots = 0 .. q - 1
  BY PerDayIs, Zenon
<1>2. PICK V : V = 1 .. n
  OBVIOUS
<1>v. 1 \in V /\ \A v \in V : \A s : Moved(entries, v, s) \in V
  <2>1. n \in Nat /\ 1 \in 1 .. n
    BY SMTT(60)
  <2> QED
    BY <1>2, <2>1, MovedInside, Zenon
<1> DEFINE step == [x \in V \X (1 .. q) |-> Moved(entries, x[1], x[2] - 1)]
<1>3. step \in [V \X (1 .. q) -> V]
  BY <1>v, SMTT(60)
<1>4. \A v \in V, k \in 1 .. q : step[<<v, k>>] = Moved(entries, v, k - 1)
  BY SMTT(60)
<1> HIDE DEF step
<1>5. PICK c \in [0 .. q -> V] : LeftTrace(c, 1, step, q)
  <2>1. HasLeftTrace(q, V, 1, step)
    BY <1>1, <1>v, <1>3, LeftTraceExists, Zenon
  <2> QED
    BY <2>1, Zenon DEF HasLeftTrace
<1>6. PICK f : f = [s \in Slots |-> c[s + 1]]
  OBVIOUS
<1>7. ASSUME NEW s \in Slots
      PROVE  f[s] = Moved(entries, Before(f, s), s)
  <2>1. s + 1 \in 1 .. q /\ (s + 1) - 1 = s /\ s \in 0 .. q /\ s \in Nat
    BY <1>1, SMTT(60)
  <2>2. c[s + 1] = step[<<c[s], s + 1>>] /\ c[s] \in V
    BY <1>5, <2>1, Zenon DEF LeftTrace
  <2>3. f[s] = Moved(entries, c[s], s)
    BY <1>4, <1>6, <2>1, <2>2, Zenon
  <2>4. CASE s = 0
    <3>1. c[s] = 1 /\ Before(f, s) = 1
      BY <1>5, <2>4, Zenon DEF LeftTrace, Before
    <3> QED
      BY <2>3, <3>1, Zenon
  <2>5. CASE s # 0
    <3>1. s - 1 \in Slots /\ (s - 1) + 1 = s
      BY <1>1, <2>1, <2>5, SMTT(60)
    <3>2. Before(f, s) = c[s]
      BY <1>6, <2>5, <3>1, Zenon DEF Before
    <3> QED
      BY <2>3, <3>2, Zenon
  <2> QED
    BY <2>4, <2>5, Zenon
<1>8. f = [s \in Slots |-> f[s]]
  BY <1>6, Zenon
<1>9. Indexes(f, entries)
  BY <1>7, <1>8, Zenon DEF Indexes
<1> QED
  BY <1>9, Zenon

LEMMA IndexIs ==
  ASSUME NEW entries, NEW n \in Nat \ {0}, n = Len(entries), NEW f, f = IndexAt(entries)
  PROVE  \A s \in Slots : /\ f[s] = Moved(entries, Before(f, s), s)
                          /\ Before(f, s) \in 1 .. n /\ f[s] \in 1 .. n
<1>1. Indexes(f, entries)
  BY IndexExists, IndexForm, Zenon
<1>2. \A s \in Slots : f[s] = Moved(entries, Before(f, s), s)
  BY <1>1, Zenon DEF Indexes
<1>3. PICK q \in Nat : q = PerDay - 1 /\ Slots = 0 .. q
  BY PerDayIs, SMTT(60)
<1>4. 1 \in 1 .. n /\ n \in Nat
  BY SMTT(60)
<1> DEFINE Good == {s \in 0 .. q : Before(f, s) \in 1 .. n /\ f[s] \in 1 .. n}
<1>5. 0 \in Good
  <2>1. Before(f, 0) \in 1 .. n
    BY <1>4, Zenon DEF Before
  <2>2. 0 \in 0 .. q
    BY SMTT(60)
  <2>3. f[0] \in 1 .. n
    <3>1. Moved(entries, Before(f, 0), 0) \in 1 .. n
      BY <1>4, <2>1, MovedInside, Zenon
    <3> QED
      BY <1>2, <1>3, <2>2, <3>1, Zenon
  <2> QED
    BY <2>1, <2>2, <2>3, Zenon
<1>6. ASSUME NEW s \in 1 .. q, s - 1 \in Good PROVE s \in Good
  <2>1. s \in 0 .. q /\ s # 0
    BY SMTT(60)
  <2>2. Before(f, s) \in 1 .. n
    BY <1>6, <2>1, Zenon DEF Before
  <2>3. f[s] \in 1 .. n
    <3>1. Moved(entries, Before(f, s), s) \in 1 .. n
      BY <1>4, <2>2, MovedInside, Zenon
    <3> QED
      BY <1>2, <1>3, <2>1, <3>1, Zenon
  <2> QED
    BY <2>1, <2>2, <2>3, Zenon
<1> HIDE DEF Good
<1>7. \A s \in 0 .. q : s \in Good
  BY <1>5, <1>6, InductionTo, Zenon
<1> QED
  BY <1>2, <1>3, <1>7, Zenon DEF Good

LEMMA BarsPrepared ==
  ASSUME NEW entries \in Seq(TempEntry), entries # <<>>
  PROVE  prepareDataForBars(entries) \in [Slots -> Temps]
<1>1. PICK n \in Nat \ {0} : n = Len(entries)
  BY EmptySeq, SMTT(60)
<1>2. PICK f : f = IndexAt(entries)
  OBVIOUS
<1>3. prepareDataForBars(entries) = [s \in Slots |-> entries[f[s]].temp]
  BY <1>2, Zenon DEF prepareDataForBars
<1>4. ASSUME NEW s \in Slots PROVE entries[f[s]].temp \in Temps
  <2>1. f[s] \in 1 .. n
    BY <1>1, <1>2, IndexIs, Zenon
  <2>2. entries[f[s]] \in TempEntry
    BY <1>1, <2>1, ElementOfSeq, Zenon
  <2> QED
    BY <2>2, Zenon DEF TempEntry
<1> QED
  BY <1>3, <1>4, Zenon

-----------------------------------------------------------------------------
(* The entries of a day.                                                   *)
DayPlaces(data, day) == {k \in 1 .. Len(data) : data[k].time \div DayMinutes = day}

FromStart(e, day) == [time |-> e.time - day * DayMinutes, temp |-> e.temp]

DayFrom(data, day, p) ==
  /\ Ordered(p, DayPlaces(data, day), Len(data))
  /\ OfDay(data, day) = [k \in 1 .. Len(p) |-> FromStart(data[p[k]], day)]

Shifted(e, day) == [e EXCEPT !.time = @ - day * DayMinutes]

ShiftedAll(f, group, day) == f = [k \in 1 .. Len(group) |-> Shifted(group[k], day)]

LEMMA OfDayForm ==
  ASSUME NEW data, NEW day, NEW group, group = Picked(data, DayPlaces(data, day))
  PROVE  ShiftedAll(OfDay(data, day), group, day)
BY Zenon DEF OfDay, DayPlaces, Shifted, ShiftedAll

LEMMA OfDayIs ==
  ASSUME NEW data \in Seq(TempEntry), NEW day
  PROVE  \E p : DayFrom(data, day, p)
<1>1. PICK n \in Nat : n = Len(data)
  BY LenProperties, Zenon
<1>2. PICK group : group = Picked(data, DayPlaces(data, day))
  OBVIOUS
<1>3. PICK p : Ordered(p, DayPlaces(data, day), n) /\ Picks(group, data, p)
  BY <1>1, <1>2, PickedIs, Zenon
<1>4. PICK l \in Nat : l = Len(p)
  BY <1>3, LenProperties, Zenon DEF Ordered
<1>5. group = [k \in 1 .. l |-> data[p[k]]]
  BY <1>3, <1>4, Zenon DEF Picks
<1>6. Len(group) = l
  BY <1>5, SMTT(60)
<1>7. ASSUME NEW k \in 1 .. l
      PROVE  Shifted(group[k], day) = FromStart(data[p[k]], day)
  <2>1. p[k] \in 1 .. n
    BY <1>3, <1>4, ElementOfSeq, Zenon DEF Ordered
  <2>2. PICK e \in TempEntry : e = group[k] /\ e = data[p[k]]
    BY <1>1, <1>5, <2>1, ElementOfSeq, Zenon
  <2>3. Shifted(e, day) = [time |-> e.time - day * DayMinutes, temp |-> e.temp]
    BY SMTT(60) DEF TempEntry, Shifted
  <2> QED
    BY <2>2, <2>3, Zenon DEF FromStart
<1>8. OfDay(data, day) = [k \in 1 .. l |-> FromStart(data[p[k]], day)]
  <2>1. ShiftedAll(OfDay(data, day), group, day)
    BY <1>2, OfDayForm, Zenon
  <2> QED
    BY <1>6, <1>7, <2>1, Zenon DEF ShiftedAll
<1> QED
  BY <1>1, <1>3, <1>4, <1>8, Zenon DEF DayFrom

LEMMA DayMinutesIs == DayMinutes \in Nat /\ 0 < DayMinutes
BY SMTT(60) DEF DayMinutes

LEMMA FromStartTyped ==
  ASSUME NEW e \in TempEntry, NEW day \in Nat, e.time \div DayMinutes = day
  PROVE  /\ FromStart(e, day) \in TempEntry
         /\ FromStart(e, day).time = e.time - day * DayMinutes
         /\ FromStart(e, day).time < DayMinutes
         /\ FromStart(e, day).temp = e.temp
<1>1. e.time \in WeekMinutes /\ e.temp \in Temps
  BY Zenon DEF TempEntry
<1>2. PICK u \in Nat \ {0} : u = DayMinutes
  BY DayMinutesIs, SMTT(60)
<1>3. PICK t \in Nat : t = e.time /\ t < 7 * u
  BY <1>1, <1>2, Zenon DEF WeekMinutes
<1>4. PICK d \in Nat, r \in Nat : r < u /\ Cut(t, u, d, r)
  BY <1>2, Divided, Zenon
<1>5. t = u * d + r /\ d = day
  BY <1>2, <1>3, <1>4, Zenon DEF Cut
<1>6. t - day * u = r
  <2>1. PICK x \in Nat : x = u * d
    BY SMTT(60)
  <2>2. day * u = x
    BY <1>5, <2>1, SMTT(60)
  <2> QED
    BY <1>5, <2>1, <2>2, SMTT(60)
<1>7. r < 7 * u
  BY <1>2, <1>4, SMTT(60)
<1>8. r \in WeekMinutes
  BY <1>2, <1>7, Zenon DEF WeekMinutes
<1>9. FromStart(e, day) = [time |-> r, temp |-> e.temp]
  BY <1>2, <1>3, <1>6, Zenon DEF FromStart
<1>10. /\ FromStart(e, day) \in TempEntry
       /\ FromStart(e, day).time = r /\ FromStart(e, day).temp = e.temp
  <2>1. PICK g, t2 : g = FromStart(e, day) /\ t2 = e.temp
    OBVIOUS
  <2>2. g = [time |-> r, temp |-> t2]
    BY <1>9, <2>1, Zenon
  <2>3. g \in TempEntry /\ g.time = r /\ g.temp = t2
    BY <1>1, <1>8, <2>1, <2>2, SMTT(60) DEF TempEntry
  <2> QED
    BY <2>1, <2>3, Zenon
<1> QED
  BY <1>2, <1>3, <1>4, <1>6, <1>10, Zenon

LEMMA OfDayTyped ==
  ASSUME NEW data \in Seq(TempEntry), NEW day \in Nat
  PROVE  OfDay(data, day) \in Seq(TempEntry)
<1>1. PICK p : DayFrom(data, day, p)
  BY OfDayIs, Zenon
<1>2. PICK l \in Nat : l = Len(p)
  BY <1>1, LenProperties, Zenon DEF DayFrom, Ordered
<1>3. ASSUME NEW k \in 1 .. l PROVE FromStart(data[p[k]], day) \in TempEntry
  <2>1. p[k] \in DayPlaces(data, day)
    BY <1>1, <1>2, Zenon DEF DayFrom, Ordered
  <2>2. p[k] \in 1 .. Len(data) /\ data[p[k]].time \div DayMinutes = day
    BY <2>1, Zenon DEF DayPlaces
  <2> QED
    BY <2>2, ElementOfSeq, FromStartTyped, Zenon
<1>4. PICK f : f = OfDay(data, day)
  OBVIOUS
<1>5. f \in [1 .. l -> TempEntry]
  BY <1>1, <1>2, <1>3, <1>4, Zenon DEF DayFrom
<1>6. f \in Seq(TempEntry)
  BY <1>5, SMTT(60)
<1> QED
  BY <1>4, <1>6, Zenon

LEMMA LastOfSeq ==
  ASSUME NEW S, NEW f \in Seq(S), f # <<>>
  PROVE  Len(f) \in Nat \ {0} /\ Len(f) \in 1 .. Len(f) /\ Last(f) = f[Len(f)] /\ Last(f) \in S
<1>1. Len(f) \in Nat /\ Len(f) # 0
  BY EmptySeq, SMTT(60)
<1>2. Len(f) \in Nat \ {0} /\ Len(f) \in 1 .. Len(f)
  BY <1>1, SMTT(60)
<1> QED
  BY <1>2, ElementOfSeq, Zenon DEF Last

-----------------------------------------------------------------------------
(* The temperature after a day.                                            *)
After(data, n, before) ==
  IF OfDay(data, n - 1) = <<>> THEN before ELSE Last(OfDay(data, n - 1)).temp

Carried(f, data) ==
  f = [n \in 0 .. 7 |-> IF n = 0 THEN Last(data).temp ELSE After(data, n, f[n - 1])]

LEMMA CarriedForm ==
  ASSUME NEW data
  PROVE  LastTemps(data) = CHOOSE f : Carried(f, data)
BY Zenon DEF LastTemps, Carried, After

LEMMA AfterTyped ==
  ASSUME NEW data \in Seq(TempEntry), NEW n \in 1 .. 7, NEW t \in Temps
  PROVE  After(data, n, t) \in Temps
<1>1. n - 1 \in Nat
  BY SMTT(60)
<1>2. PICK f \in Seq(TempEntry) : f = OfDay(data, n - 1)
  BY <1>1, OfDayTyped, Zenon
<1>3. f # <<>> => Last(f) \in TempEntry
  BY LastOfSeq, Zenon
<1>4. \A e \in TempEntry : e.temp \in Temps
  BY Zenon DEF TempEntry
<1> QED
  BY <1>2, <1>3, <1>4, Zenon DEF After

LEMMA CarriedIs ==
  ASSUME NEW data \in Seq(TempEntry), data # <<>>, NEW f, f = LastTemps(data)
  PROVE  /\ f[0] = Last(data).temp
         /\ \A n \in 1 .. 7 : f[n] = After(data, n, f[n - 1])
         /\ \A n \in 0 .. 7 : f[n] \in Temps
<1>a. Last(data) \in TempEntry
  BY LastOfSeq, Zenon
<1>1. PICK first \in Temps : first = Last(data).temp
  BY <1>a, Zenon DEF TempEntry
<1>m. PICK m \in Nat : m = 7
  OBVIOUS
<1>b. \A t \in Temps, n \in 1 .. m : After(data, n, t) \in Temps
  BY <1>m, AfterTyped, Zenon
<1> DEFINE step == [x \in Temps \X (1 .. m) |-> After(data, x[2], x[1])]
<1>2. step \in [Temps \X (1 .. m) -> Temps]
  BY <1>b, SMTT(60)
<1>3. \A t \in Temps, n \in 1 .. m : step[<<t, n>>] = After(data, n, t)
  BY SMTT(60)
<1> HIDE DEF step
<1>4. PICK c \in [0 .. m -> Temps] : LeftTrace(c, first, step, m)
  <2>1. HasLeftTrace(m, Temps, first, step)
    BY <1>2, LeftTraceExists, Zenon
  <2> QED
    BY <2>1, Zenon DEF HasLeftTrace
<1>5. ASSUME NEW n \in 0 .. 7
      PROVE  c[n] = IF n = 0 THEN Last(data).temp ELSE After(data, n, c[n - 1])
  <2>1. CASE n = 0
    BY <1>1, <1>4, <2>1, Zenon DEF LeftTrace
  <2>2. CASE n # 0
    <3>1. n \in 1 .. 7 /\ n - 1 \in 0 .. 7
      BY <2>2, SMTT(60)
    <3> QED
      BY <1>m, <1>3, <1>4, <2>2, <3>1, Zenon DEF LeftTrace
  <2> QED
    BY <2>1, <2>2, Zenon
<1>6. Carried(c, data)
  BY <1>4, <1>5, <1>m, Zenon DEF Carried
<1>7. Carried(f, data)
  BY <1>6, CarriedForm, Zenon
<1>8. \A n \in 0 .. 7 : f[n] = IF n = 0 THEN Last(data).temp ELSE After(data, n, f[n - 1])
  BY <1>7, Zenon DEF Carried
<1>9. 0 \in 0 .. 7 /\ \A n \in 1 .. 7 : n \in 0 .. 7 /\ n # 0
  BY SMTT(60)
<1>10. f[0] = Last(data).temp /\ \A n \in 1 .. 7 : f[n] = After(data, n, f[n - 1])
  BY <1>8, <1>9, Zenon
<1> DEFINE Good == {n \in 0 .. 7 : f[n] \in Temps}
<1>11. 0 \in Good
  BY <1>1, <1>9, <1>10, Zenon
<1>12. ASSUME NEW n \in 1 .. 7, n - 1 \in Good PROVE n \in Good
  BY <1>9, <1>10, <1>12, AfterTyped, Zenon
<1> HIDE DEF Good
<1>13. \A n \in 0 .. 7 : n \in Good
  <2>1. 7 \in Nat
    OBVIOUS
  <2> QED
    BY <1>11, <1>12, <2>1, InductionTo, Zenon
<1> QED
  BY <1>10, <1>13, Zenon DEF Good

OneChart(charts) ==
  \A c, d \in 1 .. Len(charts) :
    c # d => charts[c].enabledDays \cap charts[d].enabledDays = {}

LEMMA DayIs ==
  ASSUME NEW day \in Days
  PROVE  day \in Nat /\ day \in 0 .. 7 /\ day + 1 \in 1 .. 7 /\ (day + 1) - 1 = day
BY SMTT(60) DEF Days

(* A day on the page begins at its start.                                  *)
StartsAt(entries, t) == entries = <<[time |-> 0, temp |-> t]>>

FormsDay(w, entries, start) ==
  w = IF entries = <<>> THEN start
      ELSE IF entries[1].time # 0 THEN start \o entries ELSE entries

LEMMA WholeDayForm ==
  ASSUME NEW data, NEW day, NEW entries, entries = OfDay(data, day),
         NEW start, StartsAt(start, LastTemps(data)[day])
  PROVE  FormsDay(WholeDay(data, day), entries, start)
BY Zenon DEF WholeDay, StartsAt, FormsDay

LEMMA StartTyped ==
  ASSUME NEW t \in Temps, NEW start, StartsAt(start, t)
  PROVE  /\ start \in Seq(TempEntry) /\ Len(start) = 1 /\ start # <<>>
         /\ start[1].time = 0 /\ start[1].temp = t
<1>1. 0 \in WeekMinutes
  BY DayMinutesIs, SMTT(60) DEF WeekMinutes
<1>2. PICK e : e = [time |-> 0, temp |-> t]
  OBVIOUS
<1>3. e \in TempEntry /\ e.time = 0 /\ e.temp = t
  BY <1>1, <1>2, SMTT(60) DEF TempEntry
<1>4. start = <<e>>
  BY <1>2, Zenon DEF StartsAt
<1> QED
  BY <1>3, <1>4, SMTT(60)

LEMMA WholeDayTyped ==
  ASSUME NEW data \in Seq(TempEntry), data # <<>>, NEW day \in Days
  PROVE  WholeDay(data, day) \in Seq(TempEntry) /\ WholeDay(data, day) # <<>>
<1>1. PICK entries \in Seq(TempEntry) : entries = OfDay(data, day)
  BY DayIs, OfDayTyped, Zenon
<1>2. PICK t \in Temps : t = LastTemps(data)[day]
  BY DayIs, CarriedIs, Zenon
<1>3. PICK start : StartsAt(start, t)
  BY Zenon DEF StartsAt
<1>4. start \in Seq(TempEntry) /\ start # <<>> /\ Len(start) = 1
  BY <1>3, StartTyped, Zenon
<1>5. start \o entries \in Seq(TempEntry) /\ start \o entries # <<>>
  BY <1>4, SMTT(60)
<1>6. FormsDay(WholeDay(data, day), entries, start)
  BY <1>1, <1>2, <1>3, WholeDayForm, Zenon
<1> QED
  BY <1>4, <1>5, <1>6, Zenon DEF FormsDay

LEMMA DayBarsTyped ==
  ASSUME NEW data \in Seq(TempEntry), data # <<>>
  PROVE  DayBars(data) \in [Days -> [Slots -> Temps]]
<1>1. \A day \in Days : prepareDataForBars(WholeDay(data, day)) \in [Slots -> Temps]
  BY WholeDayTyped, BarsPrepared, Zenon
<1> QED
  BY <1>1, Zenon DEF DayBars

-----------------------------------------------------------------------------
(* The charts of the days' bars.                                           *)
DaysLike(bars, day) == {d \in Days : bars[d] = bars[day]}
FirstDays(bars) == {k \in 1 .. 7 : \A d \in DaysLike(bars, k - 1) : k - 1 <= d}

ChartsWith(r, bars, firsts) ==
  r = [c \in 1 .. Len(firsts) |->
         Chart(DaysLike(bars, firsts[c] - 1), bars[firsts[c] - 1])]
ChartsOf(r, bars) ==
  \E firsts : Ordered(firsts, FirstDays(bars), 7) /\ ChartsWith(r, bars, firsts)

LEMMA StatesForm ==
  ASSUME NEW points, NEW default, NEW data, data = (IF points = <<>> THEN default ELSE points),
         NEW bars, bars = DayBars(data), NEW firsts, firsts = InOrder(FirstDays(bars), 7)
  PROVE  ChartsWith(getStatesByDay(points, default), bars, firsts)
BY ZenonT(40) DEF getStatesByDay, DaysLike, FirstDays, ChartsWith

LEMMA StatesCharts ==
  ASSUME NEW points, NEW default, NEW data, data = (IF points = <<>> THEN default ELSE points)
  PROVE  ChartsOf(getStatesByDay(points, default), DayBars(data))
<1>1. PICK bars, firsts : bars = DayBars(data) /\ firsts = InOrder(FirstDays(bars), 7)
  OBVIOUS
<1>2. Ordered(firsts, FirstDays(bars), 7)
  <2>1. 7 \in Nat
    OBVIOUS
  <2> QED
    BY <1>1, <2>1, InOrderIs, Zenon
<1>3. ChartsWith(getStatesByDay(points, default), bars, firsts)
  BY <1>1, StatesForm, Zenon
<1> QED
  BY <1>1, <1>2, <1>3, Zenon DEF ChartsOf

(* Seven charts at most: every day is on one, with its bars.               *)
ShowsDays(r, bars) ==
  /\ r \in Seq(ChartType) /\ OneChart(r) /\ r # <<>>
  /\ EnabledDays(r) = Days
  /\ \A day \in Days : BarsOf(r, day) = bars[day]

LEMMA ChartsShow ==
  ASSUME NEW bars \in [Days -> [Slots -> Temps]], NEW r, ChartsOf(r, bars)
  PROVE  ShowsDays(r, bars)
<1>1. PICK firsts : /\ Ordered(firsts, FirstDays(bars), 7)
                    /\ r = [c \in 1 .. Len(firsts) |->
                              Chart(DaysLike(bars, firsts[c] - 1), bars[firsts[c] - 1])]
  BY Zenon DEF ChartsOf, ChartsWith
<1>2. PICK l \in Nat : l = Len(firsts)
  BY <1>1, LenProperties, Zenon DEF Ordered
<1>3. PICK first : first = [c \in 1 .. l |-> firsts[c] - 1]
  OBVIOUS
<1>4. ASSUME NEW c \in 1 .. l
      PROVE  /\ first[c] \in Days /\ firsts[c] = first[c] + 1
             /\ \A d \in DaysLike(bars, first[c]) : first[c] <= d
  <2>1. firsts[c] \in FirstDays(bars) /\ first[c] = firsts[c] - 1
    BY <1>1, <1>2, <1>3, Zenon DEF Ordered
  <2>2. PICK f \in 1 .. 7 : f = firsts[c] /\ \A d \in DaysLike(bars, f - 1) : f - 1 <= d
    BY <2>1, Zenon DEF FirstDays
  <2>3. f - 1 \in Days /\ f = (f - 1) + 1
    BY SMTT(60) DEF Days
  <2> QED
    BY <2>1, <2>2, <2>3, Zenon
<1>5. ASSUME NEW c \in 1 .. l
      PROVE  /\ r[c].enabledDays = DaysLike(bars, first[c])
             /\ r[c].values = bars[first[c]]
             /\ r[c] \in ChartType
  <2>1. r[c] = Chart(DaysLike(bars, first[c]), bars[first[c]])
    BY <1>1, <1>2, <1>3, Zenon
  <2>2. PICK D, v : D = DaysLike(bars, first[c]) /\ v = bars[first[c]]
    OBVIOUS
  <2>3. r[c] = [enabledDays |-> D, values |-> v]
    BY <2>1, <2>2, Zenon DEF Chart
  <2>4. D \in SUBSET Days /\ v \in [Slots -> Temps]
    BY <1>4, <2>2, Zenon DEF DaysLike
  <2>5. r[c].enabledDays = D /\ r[c].values = v
    BY <2>3, SMTT(60)
  <2>6. r[c] \in ChartType
    <3>1. [enabledDays |-> D, values |-> v] \in ChartType
      BY <2>4, Zenon DEF ChartType
    <3> QED
      BY <2>3, <3>1, Zenon
  <2> QED
    BY <2>2, <2>5, <2>6, Zenon
<1>6. r \in Seq(ChartType) /\ Len(r) = l
  <2>1. r \in [1 .. l -> ChartType]
    BY <1>1, <1>2, <1>5, Zenon
  <2> QED
    BY <2>1, SMTT(60)
<1>7. ASSUME NEW c \in 1 .. l, NEW d \in 1 .. l, c < d
      PROVE  first[c] < first[d]
  <2>1. firsts[c] < firsts[d]
    BY <1>1, <1>2, <1>7, Zenon DEF Ordered
  <2>2. first[c] \in Nat /\ first[d] \in Nat
    BY <1>4, DayIs, Zenon
  <2>3. firsts[c] = first[c] + 1 /\ firsts[d] = first[d] + 1
    BY <1>4, Zenon
  <2> QED
    BY <2>1, <2>2, <2>3, SMTT(60)
<1>8. ASSUME NEW c \in 1 .. l, NEW d \in 1 .. l, NEW day,
             day \in r[c].enabledDays, day \in r[d].enabledDays
      PROVE  ~(c < d)
  <2>1. day \in DaysLike(bars, first[c]) /\ day \in DaysLike(bars, first[d])
    BY <1>5, <1>8, Zenon
  <2>2. bars[first[c]] = bars[first[d]]
    BY <2>1, Zenon DEF DaysLike
  <2>3. first[c] \in DaysLike(bars, first[d]) /\ first[d] \in DaysLike(bars, first[c])
    BY <1>4, <2>2, Zenon DEF DaysLike
  <2>4. first[c] <= first[d] /\ first[d] <= first[c]
    BY <1>4, <2>3, Zenon
  <2>5. first[c] \in Nat /\ first[d] \in Nat
    BY <1>4, DayIs, Zenon
  <2>6. ~(first[c] < first[d])
    BY <2>4, <2>5, SMTT(60)
  <2> QED
    BY <1>7, <2>6, Zenon
<1>9. OneChart(r)
  <2> SUFFICES ASSUME NEW c \in 1 .. l, NEW d \in 1 .. l, c # d,
                      NEW day \in r[c].enabledDays, day \in r[d].enabledDays
               PROVE  FALSE
    BY <1>6, Zenon DEF OneChart
  <2>1. ~(c < d) /\ ~(d < c)
    BY <1>8, Zenon
  <2> QED
    BY <2>1, SMTT(60)
<1>10. ASSUME NEW day \in Days
       PROVE  \E c \in 1 .. l : day \in r[c].enabledDays
  <2>1. DaysLike(bars, day) \in SUBSET Nat /\ day \in DaysLike(bars, day)
    BY DayIs, Zenon DEF DaysLike
  <2>2. PICK m \in DaysLike(bars, day) : \A d \in DaysLike(bars, day) : m <= d
    BY <2>1, SmallestOf, Zenon
  <2>3. m \in Days /\ bars[m] = bars[day]
    BY Zenon DEF DaysLike
  <2>4. DaysLike(bars, m) = DaysLike(bars, day)
    BY <2>3, Zenon DEF DaysLike
  <2>5. PICK k : k = m + 1 /\ k \in 1 .. 7 /\ k - 1 = m
    BY <2>3, DayIs, Zenon
  <2>6. k \in FirstDays(bars)
    BY <2>2, <2>4, <2>5, Zenon DEF FirstDays
  <2>7. PICK c \in 1 .. l : firsts[c] = k
    BY <1>1, <1>2, <2>5, <2>6, Zenon DEF Ordered
  <2>8. first[c] = m
    BY <1>3, <2>5, <2>7, Zenon
  <2> QED
    BY <1>5, <2>1, <2>4, <2>8, Zenon
<1>11. EnabledDays(r) = Days
  <2>1. Days \subseteq EnabledDays(r)
    BY <1>6, <1>10, Zenon DEF EnabledDays
  <2>2. EnabledDays(r) \subseteq Days
    BY <1>6, EnabledInDays, Zenon
  <2> QED
    BY <2>1, <2>2, Zenon
<1>12. ASSUME NEW day \in Days PROVE BarsOf(r, day) = bars[day]
  <2>1. PICK c : ShownBy(r, day, c) /\ BarsOf(r, day) = r[c].values
    BY <1>6, <1>11, BarsAre, Zenon
  <2>2. c \in 1 .. l /\ day \in r[c].enabledDays
    BY <1>6, <2>1, Zenon DEF ShownBy
  <2>3. day \in DaysLike(bars, first[c]) /\ r[c].values = bars[first[c]]
    BY <1>5, <2>2, Zenon
  <2> QED
    BY <2>1, <2>3, Zenon DEF DaysLike
<1>13. r # <<>>
  <2>1. 0 \in Days
    BY SMTT(60) DEF Days
  <2>2. PICK c : c \in 1 .. l
    BY <1>10, <2>1, Zenon
  <2> QED
    BY <1>6, <2>2, SMTT(60)
<1> QED
  BY <1>6, <1>9, <1>11, <1>12, <1>13, Zenon DEF ShowsDays

LEMMA StatesShow ==
  ASSUME NEW points, NEW default, NEW data, data = (IF points = <<>> THEN default ELSE points),
         data \in Seq(TempEntry), data # <<>>
  PROVE  ShowsDays(getStatesByDay(points, default), DayBars(data))
BY StatesCharts, DayBarsTyped, ChartsShow, Zenon

-----------------------------------------------------------------------------
(* The page's other operations.                                            *)
LEMMA DefaultTyped ==
  ASSUME NEW points, NEW default \in Seq(TempEntry), default # <<>>
  PROVE  DefaultAfter(points, default) \in Seq(TempEntry) /\ DefaultAfter(points, default) # <<>>
<1>1. PICK n \in Nat \ {0} : n = Len(default)
  BY EmptySeq, SMTT(60)
<1>2. CASE points # <<>>
  BY <1>2, Zenon DEF DefaultAfter
<1>3. CASE points = <<>>
  <2>1. PICK f : f = DefaultAfter(points, default)
    OBVIOUS
  <2>2. f = [k \in 1 .. n |-> [default[k] EXCEPT !.time = @ % DayMinutes]]
    BY <1>1, <1>3, <2>1, Zenon DEF DefaultAfter
  <2>3. ASSUME NEW e \in TempEntry
        PROVE  [e EXCEPT !.time = @ % DayMinutes] \in TempEntry
    <3>1. \A m \in WeekMinutes : m % DayMinutes \in WeekMinutes
      BY SMTT(60) DEF WeekMinutes, DayMinutes
    <3> QED
      BY <3>1, SMTT(60) DEF TempEntry
  <2>4. \A k \in 1 .. n : default[k] \in TempEntry
    BY <1>1, ElementOfSeq, Zenon
  <2>5. f \in [1 .. n -> TempEntry]
    BY <2>2, <2>3, <2>4, Zenon
  <2>6. f \in Seq(TempEntry) /\ f # <<>>
    BY <2>5, SMTT(60)
  <2> QED
    BY <2>1, <2>6, Zenon
<1> QED
  BY <1>2, <1>3, Zenon

LEMMA OriginalTyped ==
  OriginalDefault \in Seq(TempEntry) /\ OriginalDefault # <<>>
<1>1. 0 \in WeekMinutes /\ 50 * 60 \in WeekMinutes
  BY SMTT(60) DEF WeekMinutes, DayMinutes
<1>2. 1800 \in Temps /\ 2000 \in Temps
  BY SMTT(60) DEF Temps
<1> DEFINE d == [time |-> 0, temp |-> 1800]
           e == [time |-> 50 * 60, temp |-> 2000]
<1>3. d \in TempEntry /\ e \in TempEntry
  BY <1>1, <1>2, SMTT(60) DEF TempEntry
<1>4. OriginalDefault = <<d, e>>
  BY SMTT(60) DEF OriginalDefault
<1> HIDE DEF d, e
<1> QED
  BY <1>3, <1>4, SMTT(60)

LEMMA Bars18Typed == Bars18 \in [Slots -> Temps]
<1>1. PICK t : t = 1800
  OBVIOUS
<1>2. t \in Temps
  BY <1>1, SMTT(60) DEF Temps
<1>3. PICK start : StartsAt(start, t)
  BY Zenon DEF StartsAt
<1>4. start = <<[time |-> 0, temp |-> 1800]>>
  BY <1>1, <1>3, SMTT(60) DEF StartsAt
<1>5. Bars18 = prepareDataForBars(start)
  BY <1>4, SMTT(60) DEF Bars18
<1> QED
  BY <1>2, <1>3, <1>5, StartTyped, BarsPrepared, Zenon

-----------------------------------------------------------------------------
(* The page's charts, under every edit.                                    *)

(* What the page shows: charts, no two of them for the same day.           *)
GoodPage(charts) == charts \in Seq(ChartType) /\ OneChart(charts)

LEMMA ShownIsGood ==
  ASSUME NEW r, NEW bars, ShowsDays(r, bars)
  PROVE  GoodPage(r)
BY Zenon DEF ShowsDays, GoodPage

Apart(charts, n) ==
  /\ Listed(charts, n)
  /\ \A c \in 1 .. n : charts[c] \in ChartType
  /\ \A c, d \in 1 .. n : c # d => charts[c].enabledDays \cap charts[d].enabledDays = {}

LEMMA PageIs ==
  ASSUME NEW charts, GoodPage(charts)
  PROVE  Len(charts) \in Nat /\ charts \in Seq(ChartType) /\ Apart(charts, Len(charts))
<1>1. charts \in Seq(ChartType) /\ OneChart(charts)
  BY Zenon DEF GoodPage
<1>2. PICK n \in Nat : n = Len(charts)
  BY <1>1, LenProperties, Zenon
<1>3. Listed(charts, n)
  BY <1>1, <1>2, SeqListed, Zenon
<1>4. \A c \in 1 .. n : charts[c] \in ChartType
  BY <1>1, <1>2, ElementOfSeq, Zenon
<1>5. Apart(charts, n)
  BY <1>1, <1>2, <1>3, <1>4, Zenon DEF OneChart, Apart
<1> QED
  BY <1>1, <1>2, <1>5, Zenon

(* A page that differs from a good one, chart by chart.                    *)
LEMMA PageOf ==
  ASSUME NEW n \in Nat, NEW r, Apart(r, n)
  PROVE  GoodPage(r)
<1>1. r \in [1 .. n -> ChartType]
  BY Zenon DEF Listed, Apart
<1>2. r \in Seq(ChartType) /\ Len(r) = n
  BY <1>1, SMTT(60)
<1> QED
  BY <1>2, Zenon DEF GoodPage, OneChart, Apart

Fields(x, days, bars) == x = [enabledDays |-> days, values |-> bars]

LEMMA ChartFields ==
  ASSUME NEW x \in ChartType
  PROVE  \E days \in SUBSET Days, bars \in [Slots -> Temps] :
           x.enabledDays = days /\ x.values = bars /\ Fields(x, days, bars)
BY Zenon DEF ChartType, Fields

LEMMA ChartTyped ==
  ASSUME NEW days \in SUBSET Days, NEW bars \in [Slots -> Temps], NEW x, Fields(x, days, bars)
  PROVE  x \in ChartType /\ x.enabledDays = days /\ x.values = bars
<1>1. x = [enabledDays |-> days, values |-> bars]
  BY Zenon DEF Fields
<1>2. [enabledDays |-> days, values |-> bars] \in ChartType
  BY Zenon DEF ChartType
<1>3. x.enabledDays = days /\ x.values = bars
  BY <1>1, SMTT(60)
<1> QED
  BY <1>1, <1>2, <1>3, Zenon

LEMMA ChartIsFields ==
  ASSUME NEW days, NEW bars
  PROVE  Fields(Chart(days, bars), days, bars)
BY Zenon DEF Chart, Fields

BarMoved(x, slot, temp) == [x EXCEPT !.values[slot] = temp]

LEMMA BarMovedIs ==
  ASSUME NEW x, NEW days, NEW bars \in [Slots -> Temps], Fields(x, days, bars),
         NEW slot \in Slots, NEW temp \in Temps
  PROVE  \E moved \in [Slots -> Temps] : Fields(BarMoved(x, slot, temp), days, moved)
<1>1. PICK moved : moved = [bars EXCEPT ![slot] = temp]
  OBVIOUS
<1>2. moved \in [Slots -> Temps]
  BY <1>1, Zenon
<1>3. BarMoved(x, slot, temp) = [enabledDays |-> days, values |-> moved]
  BY <1>1, SMTT(60) DEF BarMoved, Fields
<1> QED
  BY <1>2, <1>3, Zenon DEF Fields

BarChanged(charts, c, slot, temp) == [charts EXCEPT ![c].values[slot] = temp]

LEMMA BarChangedGood ==
  ASSUME NEW charts, GoodPage(charts), NEW c \in 1 .. Len(charts), NEW slot \in Slots,
         NEW temp \in Temps
  PROVE  GoodPage(BarChanged(charts, c, slot, temp))
<1>1. PICK n \in Nat : n = Len(charts) /\ Apart(charts, n) /\ charts \in Seq(ChartType)
  BY PageIs, Zenon
<1>2. c \in 1 .. n /\ charts[c] \in ChartType
  BY <1>1, Zenon DEF Apart
<1>3. PICK x \in ChartType : x = charts[c]
  BY <1>2, Zenon
<1>4. PICK days \in SUBSET Days, bars \in [Slots -> Temps] :
        x.enabledDays = days /\ x.values = bars /\ Fields(x, days, bars)
  BY ChartFields, Zenon
<1>5. PICK y : y = BarMoved(x, slot, temp)
  OBVIOUS
<1>6. PICK moved \in [Slots -> Temps] : Fields(y, days, moved)
  BY <1>4, <1>5, BarMovedIs, Zenon
<1>7. y \in ChartType /\ y.enabledDays = x.enabledDays
  <2>1. y \in ChartType /\ y.enabledDays = days
    BY <1>6, ChartTyped, Zenon
  <2> QED
    BY <1>4, <2>1, Zenon
<1>8. PICK r : r = [charts EXCEPT ![c] = y]
  OBVIOUS
<1>9. r = BarChanged(charts, c, slot, temp)
  BY <1>3, <1>5, <1>8, Zenon DEF BarChanged, BarMoved
<1>10. charts \in [1 .. n -> ChartType]
  BY <1>1, Zenon DEF Apart, Listed
<1>11. r \in [1 .. n -> ChartType]
  BY <1>7, <1>8, <1>10, Zenon
<1>12. ASSUME NEW d \in 1 .. n PROVE r[d].enabledDays = charts[d].enabledDays
  <2>1. r[d] = IF d = c THEN y ELSE charts[d]
    BY <1>8, <1>10, Zenon
  <2> QED
    BY <1>3, <1>7, <2>1, Zenon
<1>13. Listed(r, n)
  BY <1>11, Zenon DEF Listed
<1>14. \A d, e \in 1 .. n : d # e => r[d].enabledDays \cap r[e].enabledDays = {}
  BY <1>1, <1>12, Zenon DEF Apart
<1>15. Apart(r, n)
  BY <1>11, <1>13, <1>14, Zenon DEF Apart
<1> QED
  BY <1>9, <1>15, PageOf, Zenon

DayMoved(x, d, c, day) ==
  [x EXCEPT !.enabledDays = IF d = c THEN @ \cup {day} ELSE @ \ {day}]

DayToggled(charts, c, day) ==
  [d \in 1 .. Len(charts) |->
     [charts[d] EXCEPT !.enabledDays = IF d = c THEN @ \cup {day} ELSE @ \ {day}]]

(* The days of a chart when day is given to chart c.                       *)
Owns(D, days, d, c, day) == D = IF d = c THEN days \cup {day} ELSE days \ {day}

LEMMA DayMovedIs ==
  ASSUME NEW x, NEW days, NEW bars, Fields(x, days, bars), NEW d, NEW c, NEW day
  PROVE  \E D : Owns(D, days, d, c, day) /\ Fields(DayMoved(x, d, c, day), D, bars)
<1>1. PICK D : D = IF d = c THEN days \cup {day} ELSE days \ {day}
  OBVIOUS
<1>2. DayMoved(x, d, c, day) = [enabledDays |-> D, values |-> bars]
  <2>1. CASE d = c
    <3>1. DayMoved(x, d, c, day) = [x EXCEPT !.enabledDays = @ \cup {day}]
      BY <2>1, Zenon DEF DayMoved
    <3>2. D = days \cup {day}
      BY <1>1, <2>1, Zenon
    <3> QED
      BY <3>1, <3>2, SMTT(60) DEF Fields
  <2>2. CASE d # c
    <3>1. DayMoved(x, d, c, day) = [x EXCEPT !.enabledDays = @ \ {day}]
      BY <2>2, Zenon DEF DayMoved
    <3>2. D = days \ {day}
      BY <1>1, <2>2, Zenon
    <3> QED
      BY <3>1, <3>2, SMTT(60) DEF Fields
  <2> QED
    BY <2>1, <2>2, Zenon
<1> QED
  BY <1>1, <1>2, Zenon DEF Fields, Owns

LEMMA OwnsApart ==
  ASSUME NEW days, NEW others, days \cap others = {}, NEW d, NEW e, NEW c, d # e, NEW day,
         NEW D, NEW E, Owns(D, days, d, c, day), Owns(E, others, e, c, day)
  PROVE  D \cap E = {}
<1>1. CASE d = c
  <2>1. D = days \cup {day} /\ E = others \ {day}
    BY <1>1, Zenon DEF Owns
  <2> QED
    BY <2>1, Zenon
<1>2. CASE d # c
  <2>1. D = days \ {day}
    BY <1>2, Zenon DEF Owns
  <2>2. E = others \cup {day} \/ E = others \ {day}
    BY Zenon DEF Owns
  <2> QED
    BY <2>1, <2>2, Zenon
<1> QED
  BY <1>1, <1>2, Zenon

LEMMA DayToggledGood ==
  ASSUME NEW charts, GoodPage(charts), NEW c \in 1 .. Len(charts), NEW day \in Days
  PROVE  GoodPage(DayToggled(charts, c, day))
<1>1. PICK n \in Nat : n = Len(charts) /\ Apart(charts, n)
  BY PageIs, Zenon
<1>2. PICK r : r = DayToggled(charts, c, day)
  OBVIOUS
<1>3. r = [d \in 1 .. n |-> DayMoved(charts[d], d, c, day)]
  BY <1>1, <1>2, Zenon DEF DayToggled, DayMoved
<1>4. ASSUME NEW d \in 1 .. n
      PROVE  r[d] \in ChartType /\ Owns(r[d].enabledDays, charts[d].enabledDays, d, c, day)
  <2>1. PICK x \in ChartType : x = charts[d]
    BY <1>1, Zenon DEF Apart
  <2>2. PICK days \in SUBSET Days, bars \in [Slots -> Temps] :
          x.enabledDays = days /\ x.values = bars /\ Fields(x, days, bars)
    BY ChartFields, Zenon
  <2>3. PICK D : Owns(D, days, d, c, day) /\ Fields(DayMoved(x, d, c, day), D, bars)
    BY <2>2, DayMovedIs, Zenon
  <2>4. D \in SUBSET Days
    BY <2>3, Zenon DEF Owns
  <2>5. r[d] = DayMoved(x, d, c, day)
    BY <1>3, <2>1, Zenon
  <2>6. r[d] \in ChartType /\ r[d].enabledDays = D
    <3>1. PICK z : z = r[d]
      OBVIOUS
    <3>2. Fields(z, D, bars)
      BY <2>3, <2>5, <3>1, Zenon
    <3>3. z \in ChartType /\ z.enabledDays = D
      BY <2>4, <3>2, ChartTyped, Zenon
    <3> QED
      BY <3>1, <3>3, Zenon
  <2> QED
    BY <2>1, <2>2, <2>3, <2>6, Zenon
<1>5. ASSUME NEW d \in 1 .. n, NEW e \in 1 .. n, d # e
      PROVE  r[d].enabledDays \cap r[e].enabledDays = {}
  <2>1. charts[d].enabledDays \cap charts[e].enabledDays = {}
    BY <1>1, <1>5, Zenon DEF Apart
  <2>2. PICK D, E, days, others :
          /\ D = r[d].enabledDays /\ E = r[e].enabledDays
          /\ days = charts[d].enabledDays /\ others = charts[e].enabledDays
    OBVIOUS
  <2>3. Owns(D, days, d, c, day) /\ Owns(E, others, e, c, day)
    BY <1>4, <2>2, Zenon
  <2>4. days \cap others = {}
    BY <2>1, <2>2, Zenon
  <2>5. D \cap E = {}
    BY <1>5, <2>3, <2>4, OwnsApart, ZenonT(40)
  <2> QED
    BY <2>2, <2>5, Zenon
<1>6. r \in [1 .. n -> ChartType]
  BY <1>3, <1>4, Zenon
<1>7. Listed(r, n)
  BY <1>6, Zenon DEF Listed
<1>8. Apart(r, n)
  BY <1>4, <1>5, <1>7, Zenon DEF Apart
<1> QED
  BY <1>2, <1>8, PageOf, Zenon

LEMMA ChartAddedGood ==
  ASSUME NEW charts, GoodPage(charts)
  PROVE  GoodPage(Append(charts, Chart({}, Bars18)))
<1>1. PICK n \in Nat : n = Len(charts) /\ Apart(charts, n) /\ charts \in Seq(ChartType)
  BY PageIs, Zenon
<1>2. PICK x \in ChartType : x = Chart({}, Bars18) /\ x.enabledDays = {}
  <2>1. {} \in SUBSET Days
    OBVIOUS
  <2> QED
    BY <2>1, Bars18Typed, ChartTyped, ChartIsFields, Zenon
<1>3. charts \in Seq(ChartType)
  BY Zenon DEF GoodPage
<1>4. PICK r : r = Append(charts, x)
  OBVIOUS
<1>5. /\ r \in Seq(ChartType) /\ Len(r) = n + 1 /\ r[n + 1] = x
      /\ \A d \in 1 .. n : r[d] = charts[d]
  BY <1>1, <1>3, <1>4, SMTT(60)
<1>6. n + 1 \in Nat /\ \A d \in 1 .. n + 1 : d \in 1 .. n \/ d = n + 1
  BY SMTT(60)
<1>7. \A d \in 1 .. n + 1 : r[d] \in ChartType
  BY <1>5, <1>6, ElementOfSeq, Zenon
<1>8. ASSUME NEW d \in 1 .. n + 1, NEW e \in 1 .. n + 1, d # e
      PROVE  r[d].enabledDays \cap r[e].enabledDays = {}
  <2>1. CASE d = n + 1 \/ e = n + 1
    <3>1. r[d].enabledDays = {} \/ r[e].enabledDays = {}
      BY <1>2, <1>5, <2>1, Zenon
    <3> QED
      BY <3>1, Zenon
  <2>2. CASE d # n + 1 /\ e # n + 1
    <3>1. d \in 1 .. n /\ e \in 1 .. n
      BY <1>6, <2>2, Zenon
    <3> QED
      BY <1>1, <1>5, <1>8, <3>1, Zenon DEF Apart
  <2> QED
    BY <2>1, <2>2, Zenon
<1>9. Listed(r, n + 1)
  BY <1>5, <1>6, SeqListed, Zenon
<1>10. Apart(r, n + 1)
  BY <1>7, <1>8, <1>9, Zenon DEF Apart
<1> QED
  BY <1>2, <1>4, <1>6, <1>10, PageOf, Zenon

LEMMA WeekChartGood == GoodPage(<<Chart(Days, Bars18)>>)
<1>1. PICK x \in ChartType : x = Chart(Days, Bars18)
  <2>1. Days \in SUBSET Days
    OBVIOUS
  <2> QED
    BY <2>1, Bars18Typed, ChartTyped, ChartIsFields, Zenon
<1>2. PICK r : r = <<x>>
  OBVIOUS
<1>3. r \in Seq(ChartType) /\ Len(r) = 1
  BY <1>2, SMTT(60)
<1>4. \A c, d \in 1 .. 1 : c = d
  BY SMTT(60)
<1>5. OneChart(r)
  BY <1>3, <1>4, Zenon DEF OneChart
<1> QED
  BY <1>1, <1>2, <1>3, <1>5, Zenon DEF GoodPage

LEMMA ChartRemovedGood ==
  ASSUME NEW charts, GoodPage(charts), NEW c \in 1 .. Len(charts)
  PROVE  GoodPage(SubSeq(charts, 1, c - 1) \o SubSeq(charts, c + 1, Len(charts)))
<1>1. PICK n \in Nat : n = Len(charts) /\ Apart(charts, n) /\ charts \in Seq(ChartType)
  BY PageIs, Zenon
<1>2. charts \in Seq(ChartType)
  BY Zenon DEF GoodPage
<1>3. PICK f, g : f = SubSeq(charts, 1, c - 1) /\ g = SubSeq(charts, c + 1, n)
  OBVIOUS
<1>c. c \in 1 .. n
  BY <1>1, Zenon
<1>a. c - 1 \in Nat /\ n - c \in Nat /\ n = (c - 1) + 1 + (n - c)
  BY <1>c, SMTT(60)
<1>4. PICK m \in Nat, j \in Nat : m = c - 1 /\ j = n - c /\ n = m + 1 + j
  BY <1>a, Zenon
<1>5. f \in Seq(ChartType) /\ Len(f) = m /\ \A d \in 1 .. m : f[d] = charts[d]
  BY <1>1, <1>2, <1>3, <1>4, SMTT(60)
<1>6. g \in Seq(ChartType) /\ Len(g) = j /\ \A d \in 1 .. j : g[d] = charts[d + c]
  BY <1>1, <1>2, <1>3, <1>4, SMTT(60)
<1>7. PICK r : r = f \o g
  OBVIOUS
<1>8. r \in Seq(ChartType) /\ Len(r) = m + j
      /\ \A d \in 1 .. m + j : r[d] = IF d <= m THEN f[d] ELSE g[d - m]
  BY <1>5, <1>6, <1>7, ConcatProperties, ZenonT(40)
<1>9. PICK at : at = [d \in 1 .. m + j |-> IF d <= m THEN d ELSE d + 1]
  OBVIOUS
<1>10. ASSUME NEW d \in 1 .. m + j PROVE at[d] \in 1 .. n /\ r[d] = charts[at[d]]
  <2>1. CASE d <= m
    <3>1. d \in 1 .. m /\ d \in 1 .. n
      BY <1>4, <2>1, SMTT(60)
    <3> QED
      BY <1>5, <1>8, <1>9, <2>1, <3>1, Zenon
  <2>2. CASE ~(d <= m)
    <3>1. d - m \in 1 .. j /\ (d - m) + c = d + 1 /\ d + 1 \in 1 .. n
      BY <1>4, <2>2, SMTT(60)
    <3> QED
      BY <1>6, <1>8, <1>9, <2>2, <3>1, Zenon
  <2> QED
    BY <2>1, <2>2, Zenon
<1>11. ASSUME NEW d \in 1 .. m + j, NEW e \in 1 .. m + j, d # e PROVE at[d] # at[e]
  BY <1>9, <1>11, SMTT(60)
<1>12. \A d \in 1 .. m + j : r[d] \in ChartType
  BY <1>1, <1>10, Zenon DEF Apart
<1>13. ASSUME NEW d \in 1 .. m + j, NEW e \in 1 .. m + j, d # e
       PROVE  r[d].enabledDays \cap r[e].enabledDays = {}
  <2>1. at[d] \in 1 .. n /\ at[e] \in 1 .. n /\ at[d] # at[e]
    BY <1>10, <1>11, <1>13, Zenon
  <2>2. charts[at[d]].enabledDays \cap charts[at[e]].enabledDays = {}
    BY <1>1, <2>1, Zenon DEF Apart
  <2>3. r[d] = charts[at[d]] /\ r[e] = charts[at[e]]
    BY <1>10, Zenon
  <2> QED
    BY <2>2, <2>3, Zenon
<1>14. m + j \in Nat /\ Listed(r, m + j)
  <2>1. m + j \in Nat
    BY SMTT(60)
  <2> QED
    BY <1>8, <2>1, SeqListed, Zenon
<1>15. GoodPage(r)
  <2>1. Apart(r, m + j)
    BY <1>12, <1>13, <1>14, Zenon DEF Apart
  <2> QED
    BY <1>14, <2>1, PageOf, Zenon
<1> QED
  BY <1>1, <1>3, <1>7, <1>15, Zenon

-----------------------------------------------------------------------------
(* What the device can have: a beginning of what charts tell.              *)

(* What charts tell, or no charts.                                         *)
Sched(charts) == IF charts = NULL THEN <<>> ELSE getDataForESP(charts)

(* The beginning of what some charts tell.                                 *)
Begun(s) ==
  \E charts \in Seq(ChartType), m \in Nat :
    m <= Len(getDataForESP(charts)) /\ s = FirstEntries(getDataForESP(charts), m)

FromDevice(s) == s = <<>> \/ \E charts \in FirstCharts \ {NULL} : s = getDataForESP(charts)

FirstBegun(s, r, m) == m <= Len(r) /\ s = FirstEntries(r, m)

LEMMA BegunTyped ==
  ASSUME NEW s, Begun(s)
  PROVE  s \in Seq(TempEntry) /\ s \in Seq(Entry) /\ Sendable(s) /\ Sorted(s)
<1>1. PICK charts \in Seq(ChartType), m \in Nat : FirstBegun(s, getDataForESP(charts), m)
  BY Zenon DEF Begun, FirstBegun
<1>2. PICK r : r = getDataForESP(charts)
  OBVIOUS
<1>3. r \in Seq(TempEntry) /\ Sorted(r) /\ Len(r) <= MaxEntries
  BY <1>2, ScheduleTyped, ScheduleSorted, Zenon
<1>4. PICK n \in Nat : n = Len(r) /\ n <= MaxEntries
  BY <1>3, LenProperties, Zenon
<1>5. m <= n /\ s = [k \in 1 .. m |-> r[k]]
  BY <1>1, <1>2, <1>4, Zenon DEF FirstBegun, FirstEntries
<1>6. ASSUME NEW k \in 1 .. m PROVE k \in 1 .. n
  BY <1>5, SMTT(60)
<1>7. s \in [1 .. m -> TempEntry]
  BY <1>3, <1>4, <1>5, <1>6, ElementOfSeq, Zenon
<1>8. s \in Seq(TempEntry) /\ Len(s) = m
  BY <1>7, SMTT(60)
<1>9. Sorted(s)
  BY <1>3, <1>4, <1>5, <1>6, <1>8, Zenon DEF Sorted
<1>10. m <= MaxEntries
  BY <1>4, <1>5, MaxInNat, SMTT(60)
<1>11. Sendable(s)
  BY <1>8, <1>10, MaxInWord, TempEntries, Zenon DEF Sendable
<1> QED
  BY <1>8, <1>9, <1>11, TempEntries, Zenon

LEMMA FirstAll ==
  ASSUME NEW S, NEW r \in Seq(S), NEW n, n = Len(r)
  PROVE  FirstEntries(r, n) = r
BY SMTT(60) DEF FirstEntries

LEMMA BegunWhole ==
  ASSUME NEW charts \in Seq(ChartType), NEW s, s = getDataForESP(charts)
  PROVE  Begun(s)
<1>1. PICK n \in Nat : n = Len(s) /\ s \in Seq(TempEntry)
  BY ScheduleTyped, LenProperties, Zenon
<1>2. FirstEntries(s, n) = s
  BY <1>1, FirstAll, Zenon
<1>3. n <= n
  BY SMTT(60)
<1> QED
  BY <1>1, <1>2, <1>3, Zenon DEF Begun

LEMMA BegunNothing == Begun(<<>>)
<1>1. PICK charts : charts = <<>>
  OBVIOUS
<1>2. charts \in Seq(ChartType) /\ Len(charts) = 0
  BY <1>1, SMTT(60)
<1>3. EnabledDays(charts) = {}
  <2> SUFFICES ASSUME NEW d \in EnabledDays(charts) PROVE FALSE
    OBVIOUS
  <2>1. PICK c \in 1 .. Len(charts) : d \in charts[c].enabledDays
    BY Zenon DEF EnabledDays
  <2>2. c \in 1 .. 0
    BY <1>2, <2>1, Zenon
  <2> QED
    BY <2>2, SMTT(60)
<1>4. PICK r : r = getDataForESP(charts)
  OBVIOUS
<1>5. r = <<>>
  BY <1>2, <1>3, <1>4, EmptySchedule, Zenon DEF EmptyTogether
<1>6. Begun(r)
  BY <1>2, <1>4, BegunWhole, Zenon
<1> QED
  BY <1>5, <1>6, Zenon

LEMMA BegunSched ==
  ASSUME NEW charts \in Seq(ChartType) \cup {NULL}
  PROVE  Begun(Sched(charts))
BY BegunWhole, BegunNothing, Zenon DEF Sched

LEMMA MessageText ==
  ASSUME NEW charts \in Seq(ChartType), NEW r, r = getDataForESP(charts),
         NEW text, text = generateResponse(r)
  PROVE  Sendable(r) /\ text = autoTempEncode(r) /\ text \in Seq(0 .. Pad)
<1>1. Sendable(r)
  BY ScheduleTyped, Zenon
<1>2. text = autoTempEncode(r)
  BY <1>1, MessageIs, Zenon
<1>3. text \in Seq(0 .. Pad)
  BY <1>1, <1>2, MessageCoded, Zenon
<1> QED
  BY <1>1, <1>2, <1>3, Zenon

LEMMA WholeText ==
  ASSUME NEW charts \in Seq(ChartType), NEW r, r = getDataForESP(charts),
         NEW text, text = generateResponse(r)
  PROVE  BeginsSchedule(base64_decode2(text), r) /\ autoTempDecode(text, "left") = r
<1>1. Sendable(r) /\ text = autoTempEncode(r) /\ Len(r) <= MaxEntries
  BY MessageText, ScheduleTyped, Zenon
<1>2. base64_decode2(text) = Bytes(r)
  BY <1>1, MessageIs, Zenon
<1> QED
  BY <1>1, <1>2, WholeBegins, LeftWhole, Zenon

LEMMA CutText ==
  ASSUME NEW charts \in Seq(ChartType), NEW r, r = getDataForESP(charts),
         NEW text, text = generateResponse(r), NEW n \in Nat \ {0}, n < Len(text),
         NEW cut, cut = SubSeq(text, 1, n), Decodes(cut)
  PROVE  BeginsSchedule(base64_decode2(cut), r) /\ autoTempDecode(cut, "left") = NULL
<1>1. Sendable(r) /\ text = autoTempEncode(r)
  BY MessageText, Zenon
<1>2. /\ BeginsSchedule(base64_decode2(cut), r)
      /\ Len(base64_decode2(cut)) < 4 * Len(r) + 2 /\ 2 < Len(base64_decode2(cut))
  BY <1>1, CutBegins, Zenon
<1> QED
  BY <1>1, <1>2, LeftCut, Zenon

(* What a text can be decoded to that begins as the schedule r.            *)
Decoded(d, r, order) ==
  d # NULL => /\ Begun(d)
              /\ order # "left" /\ MaxEntries < 256 => d = <<>>

LEMMA DecodedFrom ==
  ASSUME NEW charts \in Seq(ChartType), NEW r, r = getDataForESP(charts), NEW text,
         BeginsSchedule(base64_decode2(text), r), NEW order \in Orders
  PROVE  Decoded(autoTempDecode(text, order), r, order)
<1>1. Sendable(r) /\ Len(r) <= MaxEntries /\ Len(r) \in Nat
  BY ScheduleTyped, LenProperties, Zenon
<1>2. PICK d : d = autoTempDecode(text, order)
  OBVIOUS
<1>3. DecodesTo(d, r)
  BY <1>1, <1>2, DecodedBegins, Zenon
<1>4. ASSUME d # NULL PROVE Begun(d)
  <2>1. PICK m \in 0 .. Len(r) : d = FirstEntries(r, m)
    BY <1>3, <1>4, Zenon DEF DecodesTo
  <2>2. m \in Nat /\ m <= Len(r)
    BY <1>1, SMTT(60)
  <2> QED
    BY <2>1, <2>2, Zenon DEF Begun
<1>5. ASSUME order # "left", MaxEntries < 256 PROVE d \in {NULL, <<>>}
  <2>1. Len(r) < 256
    BY <1>1, <1>5, MaxInNat, SMTT(60)
  <2> QED
    BY <1>1, <1>2, <1>5, <2>1, NotLeft, Zenon
<1> QED
  BY <1>2, <1>4, <1>5, Zenon DEF Decoded

-----------------------------------------------------------------------------
(* The inductive invariant: the search's, the page's, the message's and    *)
(* the device's part.                                                      *)

PageInv == GoodPage(dayData) /\ defaultData \in Seq(TempEntry) /\ defaultData # <<>>

WireInv ==
  wire # NULL => /\ wire \in [text : Seq(0 .. Pad), charts : Seq(ChartType)]
                 /\ wire.text = generateResponse(getDataForESP(wire.charts))

(* Told in order, the schedules are those of the charts; told otherwise,   *)
(* they are those the device had, if all are short.                        *)
InStep ==
  /\ evalOrder = "left" => /\ states = Sched(asked) /\ stored = Sched(kept)
                           /\ states = <<>> \/ asked = kept
  /\ evalOrder # "left" /\ MaxEntries < 256 => FromDevice(states) /\ FromDevice(stored)

DeviceInv ==
  /\ asked \in Seq(ChartType) \cup {NULL} /\ kept \in Seq(ChartType) \cup {NULL}
  /\ evalOrder \in Orders
  /\ Begun(states) /\ Begun(stored)
  /\ InStep

PlanInv == SearchInv /\ PageInv /\ WireInv /\ DeviceInv

-----------------------------------------------------------------------------
LEMMA PageStays ==
  ASSUME PageInv, dayData' = dayData, defaultData' = defaultData
  PROVE  PageInv'
BY Zenon DEF PageInv, GoodPage, OneChart

LEMMA WireStays ==
  ASSUME WireInv, wire' = wire
  PROVE  WireInv'
BY Zenon DEF WireInv

LEMMA WireGone ==
  ASSUME wire' = NULL
  PROVE  WireInv'
BY Zenon DEF WireInv

LEMMA DeviceStays ==
  ASSUME DeviceInv, states' = states, stored' = stored, asked' = asked, kept' = kept,
         evalOrder' = evalOrder
  PROVE  DeviceInv'
BY Zenon DEF DeviceInv, InStep, Begun, FromDevice, Sched

LEMMA SearchVarsAre ==
  ASSUME UNCHANGED searchVars
  PROVE  states' = states /\ UNCHANGED search
BY Zenon DEF searchVars

LEMMA InitPlan ==
  ASSUME Init
  PROVE  PlanInv
<1>1. PICK charts \in FirstCharts :
        states = Sched(charts) /\ stored = states /\ asked = charts /\ kept = charts
  BY Zenon DEF Init, Sched
<1>2. charts \in Seq(ChartType) \cup {NULL}
  BY PlanAssumption, Zenon
<1>3. Begun(states)
  BY <1>1, <1>2, BegunSched, Zenon
<1>4. states \in Seq(Entry)
  BY <1>3, BegunTyped, Zenon
<1>5. SearchInv
  BY <1>4, SearchAssumption, SMTT(60)
     DEF Init, Idle, SearchInv, SearchTypeOK, Passed, FindsCurrent
<1>6. GoodPage(<<>>)
  <2>1. PICK none : none = <<>>
    OBVIOUS
  <2>2. none \in Seq(ChartType) /\ Len(none) = 0
    BY <2>1, SMTT(60)
  <2>3. OneChart(none)
    <3> SUFFICES ASSUME NEW c \in 1 .. Len(none) PROVE FALSE
      BY Zenon DEF OneChart
    <3>1. c \in 1 .. 0
      BY <2>2, Zenon
    <3> QED
      BY <3>1, SMTT(60)
  <2> QED
    BY <2>1, <2>2, <2>3, Zenon DEF GoodPage
<1>7. PageInv
  BY <1>6, OriginalTyped, Zenon DEF Init, PageInv
<1>8. WireInv
  BY Zenon DEF Init, WireInv
<1>9. FromDevice(states)
  BY <1>1, Zenon DEF FromDevice, Sched
<1>10. DeviceInv
  BY <1>1, <1>2, <1>3, <1>9, Zenon DEF Init, DeviceInv, InStep
<1> QED
  BY <1>5, <1>7, <1>8, <1>10, Zenon DEF PlanInv

-----------------------------------------------------------------------------
(* The page.                                                               *)
LEMMA EditKeeps ==
  ASSUME PlanInv, NEW charts, Edit(charts), GoodPage(charts)
  PROVE  PlanInv'
<1>1. dayData' = charts /\ UNCHANGED <<searchVars, defaultData, wire, device>>
  BY Zenon DEF Edit
<1>2. PageInv'
  <2>1. GoodPage(dayData')
    BY <1>1, Zenon
  <2>2. defaultData' = defaultData
    BY <1>1, Zenon
  <2> QED
    BY <2>1, <2>2, Zenon DEF PlanInv, PageInv, GoodPage, OneChart
<1>3. SearchInv'
  BY <1>1, SearchStutters, Zenon DEF PlanInv
<1>4. WireInv'
  BY <1>1, WireStays, Zenon DEF PlanInv
<1>5. DeviceInv'
  BY <1>1, SearchVarsAre, DeviceStays, Zenon DEF PlanInv, device
<1> QED
  BY <1>2, <1>3, <1>4, <1>5, Zenon DEF PlanInv

LEMMA ChangeBarKeeps ==
  ASSUME PlanInv, NEW c \in 1 .. Len(dayData), NEW slot \in BarsDrawn, NEW temp \in BarTemps,
         changeBar(c, slot, temp)
  PROVE  PlanInv'
<1>1. slot \in Slots /\ temp \in Temps
  BY PlanAssumption, Zenon
<1>2. GoodPage(BarChanged(dayData, c, slot, temp))
  BY <1>1, BarChangedGood, Zenon DEF PlanInv, PageInv
<1>3. Edit(BarChanged(dayData, c, slot, temp))
  BY Zenon DEF changeBar, BarChanged
<1> QED
  BY <1>2, <1>3, EditKeeps, Zenon

LEMMA ToggleDayKeeps ==
  ASSUME PlanInv, NEW c \in 1 .. Len(dayData), NEW day \in DaysToggled, toggleDay(c, day)
  PROVE  PlanInv'
<1>1. day \in Days
  BY PlanAssumption, Zenon
<1>2. GoodPage(DayToggled(dayData, c, day))
  BY <1>1, DayToggledGood, Zenon DEF PlanInv, PageInv
<1>3. Edit(DayToggled(dayData, c, day))
  BY Zenon DEF toggleDay, DayToggled
<1> QED
  BY <1>2, <1>3, EditKeeps, Zenon

LEMMA AddChartKeeps ==
  ASSUME PlanInv, addChart
  PROVE  PlanInv'
<1>1. GoodPage(Append(dayData, Chart({}, Bars18)))
  BY ChartAddedGood, Zenon DEF PlanInv, PageInv
<1> QED
  BY <1>1, EditKeeps, Zenon DEF addChart

LEMMA RemoveChartKeeps ==
  ASSUME PlanInv, NEW c \in 1 .. Len(dayData), removeChart(c)
  PROVE  PlanInv'
<1>1. GoodPage(Without(c))
  BY ChartRemovedGood, Zenon DEF PlanInv, PageInv, Without
<1>2. PICK charts : charts = (IF Len(dayData) = 1 THEN <<Chart(Days, Bars18)>> ELSE Without(c))
  OBVIOUS
<1>3. GoodPage(charts)
  BY <1>1, <1>2, WeekChartGood, Zenon
<1>4. Edit(charts)
  BY <1>2, Zenon DEF removeChart
<1> QED
  BY <1>3, <1>4, EditKeeps, Zenon

LEMMA SaveKeeps ==
  ASSUME PlanInv, save
  PROVE  PlanInv'
<1>1. /\ wire' = [text |-> generateResponse(getDataForESP(dayData)), charts |-> dayData]
      /\ UNCHANGED <<searchVars, page, device>>
  BY Zenon DEF save
<1>2. dayData \in Seq(ChartType)
  BY Zenon DEF PlanInv, PageInv, GoodPage
<1>3. PICK text : text = generateResponse(getDataForESP(dayData))
  OBVIOUS
<1>4. text \in Seq(0 .. Pad)
  BY <1>2, <1>3, MessageText, Zenon
<1>5. PICK message : message = [text |-> text, charts |-> dayData] /\ message = wire'
  BY <1>1, <1>3, Zenon
<1>6. message.text = text /\ message.charts = dayData
  BY <1>5, SMTT(60)
<1>7. message \in [text : Seq(0 .. Pad), charts : Seq(ChartType)]
  <2>1. [text |-> text, charts |-> dayData] \in [text : Seq(0 .. Pad), charts : Seq(ChartType)]
    BY <1>2, <1>4, Zenon
  <2> QED
    BY <1>5, <2>1, Zenon
<1>8. WireInv'
  BY <1>3, <1>5, <1>6, <1>7, Zenon DEF WireInv
<1>9. SearchInv'
  BY <1>1, SearchStutters, Zenon DEF PlanInv
<1>10. PageInv'
  BY <1>1, PageStays, Zenon DEF PlanInv, page
<1>11. DeviceInv'
  BY <1>1, SearchVarsAre, DeviceStays, Zenon DEF PlanInv, device
<1> QED
  BY <1>8, <1>9, <1>10, <1>11, Zenon DEF PlanInv

(* What the page shows after a refresh.                                    *)
RefreshData == IF states = <<>> THEN defaultData ELSE states

LEMMA RefreshShows ==
  ASSUME PlanInv, refresh
  PROVE  /\ ShowsDays(dayData', DayBars(RefreshData))
         /\ RefreshData \in Seq(TempEntry) /\ RefreshData # <<>>
         /\ defaultData' = DefaultAfter(states, defaultData)
<1>1. PICK text : text = autoTempEncode(states)
  OBVIOUS
<1>2. states \in Seq(TempEntry) /\ Sendable(states)
  BY BegunTyped, Zenon DEF PlanInv, DeviceInv
<1>3. convertBase64ToPoints(text) = states
  BY <1>1, <1>2, PointsAre, Zenon
<1>4. /\ dayData' = getStatesByDay(states, defaultData)
      /\ defaultData' = DefaultAfter(states, defaultData)
  BY <1>1, <1>3, Zenon DEF refresh, parseResponse
<1>5. RefreshData \in Seq(TempEntry) /\ RefreshData # <<>>
  BY <1>2, Zenon DEF RefreshData, PlanInv, PageInv
<1>6. ShowsDays(getStatesByDay(states, defaultData), DayBars(RefreshData))
  BY <1>5, StatesShow, Zenon DEF RefreshData
<1> QED
  BY <1>4, <1>5, <1>6, Zenon

LEMMA RefreshKeeps ==
  ASSUME PlanInv, refresh
  PROVE  PlanInv'
<1>1. UNCHANGED <<searchVars, wire, device>>
  BY Zenon DEF refresh
<1>2. PageInv'
  <2>1. ShowsDays(dayData', DayBars(RefreshData))
        /\ defaultData' = DefaultAfter(states, defaultData)
    BY RefreshShows, Zenon
  <2>2. GoodPage(dayData')
    BY <2>1, ShownIsGood, Zenon
  <2>3. defaultData' \in Seq(TempEntry) /\ defaultData' # <<>>
    BY <2>1, DefaultTyped, Zenon DEF PlanInv, PageInv
  <2> QED
    BY <2>2, <2>3, Zenon DEF PageInv, GoodPage, OneChart
<1>3. SearchInv'
  BY <1>1, SearchStutters, Zenon DEF PlanInv
<1>4. WireInv'
  BY <1>1, WireStays, Zenon DEF PlanInv
<1>5. DeviceInv'
  BY <1>1, SearchVarsAre, DeviceStays, Zenon DEF PlanInv, device
<1> QED
  BY <1>2, <1>3, <1>4, <1>5, Zenon DEF PlanInv

-----------------------------------------------------------------------------
(* The device.                                                             *)
LEMMA HandleKeeps ==
  ASSUME PlanInv, pc = "idle", NEW text, Handle(text),
         NEW d, d = autoTempDecode(text, evalOrder), d # NULL => Begun(d)
  PROVE  /\ SearchInv'
         /\ d = NULL => states' = states /\ stored' = stored
         /\ d # NULL => states' = d /\ stored' = IF d = <<>> THEN stored ELSE d
<1>1. CASE d = NULL
  <2>1. UNCHANGED <<searchVars, stored>>
    BY <1>1, Zenon DEF Handle
  <2> QED
    BY <1>1, <2>1, SearchStutters, SearchVarsAre, Zenon DEF PlanInv
<1>2. CASE d # NULL
  <2>1. NewSchedule(d) /\ stored' = IF d = <<>> THEN stored ELSE d
    BY <1>2, Zenon DEF Handle
  <2>2. states' = d /\ UNCHANGED search
    BY <2>1, Zenon DEF NewSchedule
  <2>3. d \in Seq(Entry)
    BY <1>2, BegunTyped, Zenon
  <2>4. SearchInv'
    BY <2>2, <2>3, ScheduleKeeps, Zenon DEF PlanInv
  <2> QED
    BY <1>2, <2>1, <2>2, <2>4, Zenon
<1> QED
  BY <1>1, <1>2, Zenon

LEMMA BegunNotNull ==
  ASSUME NEW s, Begun(s)
  PROVE  s # NULL
BY BegunTyped, PlanAssumption, Zenon

LEMMA WireIs ==
  ASSUME PlanInv, wire # NULL
  PROVE  /\ wire.charts \in Seq(ChartType) /\ wire.charts # NULL
         /\ wire.text = generateResponse(getDataForESP(wire.charts))
<1>1. wire.charts \in Seq(ChartType)
  BY Zenon DEF PlanInv, WireInv
<1>2. wire.charts # NULL
  BY <1>1, PlanAssumption, Zenon
<1> QED
  BY <1>1, <1>2, Zenon DEF PlanInv, WireInv

BegunAgain ==
  Begun(states') /\ Begun(stored')

LEMMA DeviceGets ==
  ASSUME DeviceInv, evalOrder' = evalOrder, BegunAgain,
         asked' \in Seq(ChartType) \cup {NULL}, kept' \in Seq(ChartType) \cup {NULL}, InStep'
  PROVE  DeviceInv'
<1>1. Begun(states)' /\ Begun(stored)'
  BY Zenon DEF BegunAgain, Begun
<1> QED
  BY <1>1, Zenon DEF DeviceInv

LEMMA ReceiveKeeps ==
  ASSUME PlanInv, Receive
  PROVE  PlanInv'
<1>1. /\ pc = "idle" /\ wire # NULL /\ Handle(wire.text) /\ wire' = NULL
      /\ asked' = wire.charts
      /\ kept' = (IF EnabledDays(wire.charts) = {} THEN kept ELSE wire.charts)
      /\ UNCHANGED <<page, evalOrder, done>>
  BY Zenon DEF Receive
<1>2. PICK charts, text : charts = wire.charts /\ text = wire.text
  OBVIOUS
<1>3. PICK r : r = getDataForESP(charts)
  OBVIOUS
<1>4. charts \in Seq(ChartType) /\ charts # NULL /\ text = generateResponse(r)
  BY <1>1, <1>2, <1>3, WireIs, Zenon
<1>5. PICK d : d = autoTempDecode(text, evalOrder)
  OBVIOUS
<1>6. evalOrder \in Orders /\ InStep /\ Begun(states) /\ Begun(stored)
      /\ kept \in Seq(ChartType) \cup {NULL}
  BY Zenon DEF PlanInv, DeviceInv
<1>7. Decoded(d, r, evalOrder)
  BY <1>3, <1>4, <1>5, <1>6, WholeText, DecodedFrom, Zenon
<1>8. d # NULL => Begun(d)
  BY <1>7, Zenon DEF Decoded
<1>9. /\ SearchInv'
      /\ d = NULL => states' = states /\ stored' = stored
      /\ d # NULL => states' = d /\ stored' = IF d = <<>> THEN stored ELSE d
  BY <1>1, <1>2, <1>5, <1>8, HandleKeeps, Zenon
<1>10. BegunAgain
  BY <1>6, <1>8, <1>9, Zenon DEF BegunAgain
<1>11. evalOrder' = evalOrder /\ asked' = charts
       /\ kept' = IF EnabledDays(charts) = {} THEN kept ELSE charts
  BY <1>1, <1>2, Zenon
<1>12. ASSUME evalOrder = "left"
       PROVE  states' = Sched(charts) /\ stored' = Sched(kept')
              /\ (states' = <<>> \/ charts = kept')
  <2>1. d = r /\ Begun(r)
    BY <1>3, <1>4, <1>5, <1>12, WholeText, BegunWhole, Zenon
  <2>2. d # NULL
    BY <2>1, BegunNotNull, Zenon
  <2>3. r = Sched(charts)
    BY <1>3, <1>4, Zenon DEF Sched
  <2>4. r = <<>> <=> EnabledDays(charts) = {}
    BY <1>3, <1>4, EmptySchedule, Zenon DEF EmptyTogether
  <2>5. stored = Sched(kept)
    BY <1>6, <1>12, Zenon DEF InStep
  <2> QED
    BY <1>9, <1>11, <2>1, <2>2, <2>3, <2>4, <2>5, Zenon
<1>13. ASSUME evalOrder # "left", MaxEntries < 256
       PROVE  FromDevice(states') /\ FromDevice(stored')
  <2>1. d = NULL \/ d = <<>>
    BY <1>7, <1>13, Zenon DEF Decoded
  <2>2. FromDevice(states) /\ FromDevice(stored) /\ FromDevice(<<>>)
    BY <1>6, <1>13, Zenon DEF InStep, FromDevice
  <2> QED
    BY <1>9, <2>1, <2>2, Zenon
<1>14. InStep'
  BY <1>11, <1>12, <1>13, Zenon DEF InStep, Sched, FromDevice
<1>15. DeviceInv'
  BY <1>4, <1>6, <1>10, <1>11, <1>14, DeviceGets, Zenon DEF PlanInv
<1>16. PageInv'
  BY <1>1, PageStays, Zenon DEF PlanInv, page
<1> QED
  BY <1>1, <1>9, <1>15, <1>16, WireGone, Zenon DEF PlanInv

LEMMA CutHandled ==
  ASSUME PlanInv, pc = "idle", wire # NULL, NEW n \in Cuts, n < Len(wire.text),
         NEW text, text = SubSeq(wire.text, 1, n), Decodes(text), Handle(text),
         asked' = asked, kept' = kept, evalOrder' = evalOrder
  PROVE  SearchInv' /\ DeviceInv'
<1>2. PICK charts, whole : charts = wire.charts /\ whole = wire.text
  OBVIOUS
<1>3. PICK r : r = getDataForESP(charts)
  OBVIOUS
<1>4. charts \in Seq(ChartType) /\ whole = generateResponse(r)
  BY <1>2, <1>3, WireIs, Zenon
<1>5. PICK d : d = autoTempDecode(text, evalOrder)
  OBVIOUS
<1>6. evalOrder \in Orders /\ InStep /\ Begun(states) /\ Begun(stored)
      /\ kept \in Seq(ChartType) \cup {NULL} /\ asked \in Seq(ChartType) \cup {NULL}
  BY Zenon DEF PlanInv, DeviceInv
<1>n. n \in Nat \ {0}
  BY PlanAssumption, Zenon
<1>7. BeginsSchedule(base64_decode2(text), r) /\ autoTempDecode(text, "left") = NULL
  BY <1>2, <1>3, <1>4, <1>n, CutText, Zenon
<1>8. Decoded(d, r, evalOrder)
  BY <1>3, <1>4, <1>5, <1>6, <1>7, DecodedFrom, Zenon
<1>9. d # NULL => Begun(d)
  BY <1>8, Zenon DEF Decoded
<1>10. /\ SearchInv'
       /\ d = NULL => states' = states /\ stored' = stored
       /\ d # NULL => states' = d /\ stored' = IF d = <<>> THEN stored ELSE d
  BY <1>5, <1>9, HandleKeeps, Zenon
<1>11. BegunAgain
  BY <1>6, <1>9, <1>10, Zenon DEF BegunAgain
<1>12. evalOrder = "left" => d = NULL
  BY <1>5, <1>7, Zenon
<1>13. ASSUME evalOrder # "left", MaxEntries < 256
       PROVE  FromDevice(states') /\ FromDevice(stored')
  <2>1. d = NULL \/ d = <<>>
    BY <1>8, <1>13, Zenon DEF Decoded
  <2>2. FromDevice(states) /\ FromDevice(stored) /\ FromDevice(<<>>)
    BY <1>6, <1>13, Zenon DEF InStep, FromDevice
  <2> QED
    BY <1>10, <2>1, <2>2, Zenon
<1>14. InStep'
  <2>1. ASSUME evalOrder = "left"
        PROVE  states' = Sched(asked') /\ stored' = Sched(kept')
               /\ (states' = <<>> \/ asked' = kept')
    BY <1>6, <1>10, <1>12, <2>1, Zenon DEF InStep
  <2> QED
    BY <1>13, <2>1, Zenon DEF InStep, Sched, FromDevice
<1>15. DeviceInv'
  BY <1>6, <1>11, <1>14, DeviceGets, Zenon DEF PlanInv
<1> QED
  BY <1>10, <1>15, Zenon

LEMMA AgainKeeps ==
  ASSUME PlanInv, pc = "idle", StartAgain, kept' = kept, evalOrder' = evalOrder
  PROVE  SearchInv' /\ DeviceInv'
<1>1. /\ states' \in {states, stored} /\ asked' = (IF states' = states THEN asked ELSE kept)
      /\ UNCHANGED search /\ stored' = stored
  BY Zenon DEF StartAgain
<1>2. InStep /\ Begun(states) /\ Begun(stored)
      /\ kept \in Seq(ChartType) \cup {NULL} /\ asked \in Seq(ChartType) \cup {NULL}
  BY Zenon DEF PlanInv, DeviceInv
<1>3. BegunAgain
  BY <1>1, <1>2, Zenon DEF BegunAgain
<1>4. states' \in Seq(Entry)
  BY <1>3, BegunTyped, Zenon DEF BegunAgain
<1>5. SearchInv'
  BY <1>1, <1>4, ScheduleKeeps, Zenon DEF PlanInv
<1>6. ASSUME evalOrder = "left"
      PROVE  states' = Sched(asked') /\ stored' = Sched(kept')
             /\ (states' = <<>> \/ asked' = kept')
  BY <1>1, <1>2, <1>6, Zenon DEF InStep
<1>7. ASSUME evalOrder # "left", MaxEntries < 256
      PROVE  FromDevice(states') /\ FromDevice(stored')
  BY <1>1, <1>2, <1>7, Zenon DEF InStep
<1>8. InStep'
  BY <1>6, <1>7, Zenon DEF InStep, Sched, FromDevice
<1>9. asked' \in Seq(ChartType) \cup {NULL} /\ kept' \in Seq(ChartType) \cup {NULL}
  BY <1>1, <1>2, Zenon
<1>10. DeviceInv'
  BY <1>3, <1>8, <1>9, DeviceGets, Zenon DEF PlanInv
<1> QED
  BY <1>5, <1>10, Zenon

LEMMA ReceiveCutKeeps ==
  ASSUME PlanInv, NEW n \in Cuts, ReceiveCut(n)
  PROVE  PlanInv'
<1>1. /\ pc = "idle" /\ wire # NULL /\ n < Len(wire.text) /\ wire' = NULL
      /\ UNCHANGED <<page, kept, evalOrder, done>>
  BY Zenon DEF ReceiveCut
<1>2. PICK text : text = SubSeq(wire.text, 1, n)
  OBVIOUS
<1>3. IF Decodes(text) THEN Handle(text) /\ asked' = asked ELSE StartAgain
  BY <1>2, Zenon DEF ReceiveCut
<1>4. kept' = kept /\ evalOrder' = evalOrder
  BY <1>1, Zenon
<1>5. SearchInv' /\ DeviceInv'
  <2>1. CASE Decodes(text)
    BY <1>1, <1>2, <1>3, <1>4, <2>1, CutHandled, Zenon
  <2>2. CASE ~Decodes(text)
    BY <1>1, <1>3, <1>4, <2>2, AgainKeeps, Zenon
  <2> QED
    BY <2>1, <2>2, Zenon
<1>6. PageInv'
  BY <1>1, PageStays, Zenon DEF PlanInv, page
<1> QED
  BY <1>1, <1>5, <1>6, WireGone, Zenon DEF PlanInv

LEMMA EngineKeeps ==
  ASSUME PlanInv, Engine
  PROVE  PlanInv'
<1>1. (\E t \in Times : StartSearch(t)) \/ Loop \/ EndSearch
  BY Zenon DEF Engine
<1>2. UNCHANGED <<page, wire, device, done>>
  BY Zenon DEF Engine
<1>3. SearchInv'
  BY <1>1, StartKeeps, LoopKeeps, EndKeeps, Zenon DEF PlanInv
<1>4. states' = states
  BY <1>1, Zenon DEF StartSearch, Loop, Earlier, NextEntry, LastEntry, Return, EndSearch
<1>5. PageInv'
  BY <1>2, PageStays, Zenon DEF PlanInv, page
<1>6. WireInv'
  BY <1>2, WireStays, Zenon DEF PlanInv
<1>7. DeviceInv'
  BY <1>2, <1>4, DeviceStays, Zenon DEF PlanInv, device
<1> QED
  BY <1>3, <1>5, <1>6, <1>7, Zenon DEF PlanInv

LEMMA PlanStep == PlanInv /\ [Next]_planVars => PlanInv'
<1> SUFFICES ASSUME PlanInv, [Next]_planVars
             PROVE  PlanInv'
  OBVIOUS
<1>1. ASSUME UNCHANGED planVars PROVE PlanInv'
  <2>1. UNCHANGED searchVars /\ UNCHANGED page /\ wire' = wire /\ UNCHANGED device
    BY <1>1, Zenon DEF planVars
  <2>2. SearchInv'
    BY <2>1, SearchStutters, Zenon DEF PlanInv
  <2>3. PageInv'
    BY <2>1, PageStays, Zenon DEF PlanInv, page
  <2>4. WireInv'
    BY <2>1, WireStays, Zenon DEF PlanInv
  <2>5. DeviceInv'
    BY <2>1, SearchVarsAre, DeviceStays, Zenon DEF PlanInv, device
  <2> QED
    BY <2>2, <2>3, <2>4, <2>5, Zenon DEF PlanInv
<1> QED
  BY <1>1, ChangeBarKeeps, ToggleDayKeeps, RemoveChartKeeps, AddChartKeeps, SaveKeeps,
     RefreshKeeps, ReceiveKeeps, ReceiveCutKeeps, EngineKeeps, Zenon DEF Next

LEMMA PlanAlways == Spec => []PlanInv
<1>1. Init => PlanInv
  BY InitPlan
<1> QED
  BY <1>1, PlanStep, PTL DEF Spec

-----------------------------------------------------------------------------
(* What follows from it.                                                   *)

(* Every variable keeps its type: schedules are stored and sent, the charts *)
(* show temperatures that the page can show, and no two of them are for the *)
(* same day, after whatever edits (getDataForESP relies on it).            *)
THEOREM PlanTypeOK == Spec => []TypeOK
<1>1. ASSUME PlanInv PROVE TypeOK
  <2>1. SearchTypeOK
    BY <1>1, Zenon DEF PlanInv, SearchInv
  <2>2. stored \in Seq(Entry)
    <3>1. Begun(stored)
      BY <1>1, Zenon DEF PlanInv, DeviceInv
    <3> QED
      BY <3>1, BegunTyped, Zenon
  <2>3. dayData \in Seq(ChartType) /\ OneChartPerDay
    BY <1>1, Zenon DEF PlanInv, PageInv, GoodPage, OneChart, OneChartPerDay
  <2>4. defaultData \in Seq(Entry) \ {<<>>}
    BY <1>1, TempEntries, Zenon DEF PlanInv, PageInv
  <2>5. wire # NULL => wire \in [text : Seq(0 .. Pad), charts : Seq(ChartType)]
    BY <1>1, Zenon DEF PlanInv, WireInv
  <2>6. {asked, kept} \subseteq Seq(ChartType) \cup {NULL} /\ evalOrder \in Orders
    BY <1>1, Zenon DEF PlanInv, DeviceInv
  <2> QED
    BY <2>1, <2>2, <2>3, <2>4, <2>5, <2>6, Zenon DEF TypeOK
<1> QED
  BY <1>1, PlanAlways, PTL

(* The schedules are in order, so that the search always finds its entry.  *)
FoundInForce ==
  pc = "done" =>
    IF states = <<>> THEN found = 0
    ELSE InForce(states, found, MinuteOfWeek(unixTime))

LEMMA PlanSorted ==
  ASSUME PlanInv
  PROVE  Sorted(states)
BY BegunTyped, Zenon DEF PlanInv, DeviceInv

LEMMA FoundIsInForce ==
  ASSUME PlanInv
  PROVE  FindsCurrent /\ FoundInForce
<1>1. FindsCurrent
  BY Zenon DEF PlanInv, SearchInv
<1> QED
  BY <1>1, PlanSorted, Zenon DEF FindsCurrent, FoundInForce

(* The schedules that charts give are in order, so that findCurrentState   *)
(* always finds the entry in force.                                        *)
THEOREM PlanFindsCurrent == Spec => [](FindsCurrent /\ FoundInForce)
BY FoundIsInForce, PlanAlways, PTL

(* Whatever is sent or stored, base64.c and b64.js encode to the same text *)
(* and decode to the bytes that were encoded.                              *)
THEOREM PlanCodecsAgree == Spec => []CodecsAgree
<1>1. ASSUME PlanInv PROVE CodecsAgree
  <2>1. ASSUME wire # NULL
        PROVE  /\ base64_decode2(wire.text) = Bytes(getDataForESP(wire.charts))
               /\ base64_encode2(base64_decode2(wire.text)) = wire.text
    <3>1. PICK text, charts : text = wire.text /\ charts = wire.charts
      OBVIOUS
    <3>2. PICK r : r = getDataForESP(charts)
      OBVIOUS
    <3>3. charts \in Seq(ChartType) /\ text = generateResponse(r)
      BY <1>1, <2>1, <3>1, <3>2, WireIs, Zenon
    <3>4. Sendable(r) /\ text = autoTempEncode(r)
      BY <3>2, <3>3, MessageText, Zenon
    <3>5. base64_decode2(text) = Bytes(r) /\ base64_encode2(Bytes(r)) = text
      BY <3>4, MessageIs, Zenon
    <3> QED
      BY <3>1, <3>2, <3>5, Zenon
  <2>2. /\ autoTempEncode(states) = fromByteArray(Bytes(states))
        /\ toByteArray(autoTempEncode(states)) = Bytes(states)
    <3>1. Sendable(states)
      BY <1>1, BegunTyped, Zenon DEF PlanInv, DeviceInv
    <3>2. PICK text : text = autoTempEncode(states)
      OBVIOUS
    <3>3. generateResponse(states) = text /\ toByteArray(text) = Bytes(states)
      BY <3>1, <3>2, MessageIs, Zenon
    <3> QED
      BY <3>2, <3>3, Zenon DEF generateResponse
  <2> QED
    BY <2>1, <2>2, Zenon DEF CodecsAgree
<1> QED
  BY <1>1, PlanAlways, PTL

(* Wherever a message is cut, handleAutoTemp keeps nothing but whole       *)
(* schedules that some charts give: if the compiler reads the two bytes of *)
(* the count in order or, for any compiler, if schedules are below 256.    *)
THEOREM PlanNeverInvents ==
  Spec => [](evalOrder = "left" \/ MaxEntries < 256 => NeverInvents)
<1>1. ASSUME PlanInv, evalOrder = "left" \/ MaxEntries < 256 PROVE NeverInvents
  <2>1. InStep
    BY <1>1, Zenon DEF PlanInv, DeviceInv
  <2>2. CASE evalOrder = "left"
    <3>1. /\ states = Sched(asked) /\ stored = Sched(kept)
          /\ states = <<>> \/ asked = kept
      BY <2>1, <2>2, Zenon DEF InStep
    <3>2. ASSUME NEW schedule \in {states, stored} \ {<<>>}
          PROVE  schedule = Sched(kept) /\ kept # NULL
      BY <3>1, Zenon DEF Sched
    <3>3. ASSUME NEW schedule \in {states, stored} \ {<<>>}
          PROVE  kept \in (FirstCharts \cup {kept}) \ {NULL} /\ schedule = getDataForESP(kept)
      BY <3>2, Zenon DEF Sched
    <3> QED
      BY <3>3, Zenon DEF NeverInvents
  <2>3. CASE evalOrder # "left" /\ MaxEntries < 256
    <3>1. FromDevice(states) /\ FromDevice(stored)
      BY <2>1, <2>3, Zenon DEF InStep
    <3> QED
      BY <3>1, Zenon DEF FromDevice, NeverInvents
  <2> QED
    BY <1>1, <2>2, <2>3, Zenon
<1> QED
  BY <1>1, PlanAlways, PTL

-----------------------------------------------------------------------------
(* The bars of the week, in the order of their days.                       *)
AsDays(s, v, d, e, t, x) ==
  /\ s \in Nat /\ v \in Nat
  /\ d < e => s < v
  /\ d = e => (s < v <=> t < x)

LEMMA BarsInOrder ==
  ASSUME NEW q \in Nat \ {0}, NEW d \in Nat, NEW e \in Nat, NEW t \in Nat, NEW x \in Nat,
         t < q, x < q, NEW s, NEW v, Bar(s, q, d, t), Bar(v, q, e, x)
  PROVE  AsDays(s, v, d, e, t, x)
<1>1. PICK y \in Nat, z \in Nat : y = q * d /\ z = q * e
  BY SMTT(60)
<1>2. s = y + t /\ v = z + x
  BY <1>1, Zenon DEF Bar
<1>3. ASSUME d < e PROVE s < v
  <2>1. e - (d + 1) \in Nat /\ e = d + 1 + (e - (d + 1))
    BY <1>3, SMTT(60)
  <2>2. PICK g \in Nat : e = d + 1 + g
    BY <2>1, Zenon
  <2>3. PICK h \in Nat : h = q * g
    BY SMTT(60)
  <2>4. z = y + q + h
    BY <1>1, <2>2, <2>3, SMTT(60)
  <2> QED
    BY <1>2, <2>4, SMTT(60)
<1>4. ASSUME d = e PROVE s < v <=> t < x
  <2>1. y = z
    BY <1>1, <1>4
  <2> QED
    BY <1>2, <2>1, SMTT(60)
<1>5. s \in Nat /\ v \in Nat
  BY <1>2, SMTT(60)
<1> QED
  BY <1>3, <1>4, <1>5, Zenon DEF AsDays

(* The last bar of a day.                                                  *)
LEMMA DayEnds ==
  ASSUME NEW d \in Days
  PROVE  \E u \in Nat : /\ Bar(u, PerDay, d, PerDay - 1)
                        /\ DayOfSlot(u) = d /\ SlotOfDay(u) = PerDay - 1 /\ u < MaxEntries
<1>1. PICK q \in Nat \ {0} : q = PerDay
  BY PerDayIs, Zenon
<1>2. PICK u \in Nat : u = q * d + (q - 1)
  BY SMTT(60) DEF Days
<1>3. q - 1 \in Nat /\ q - 1 < q /\ d \in Nat /\ d < 7
  BY SMTT(60) DEF Days
<1>4. Bar(u, q, d, q - 1)
  BY <1>2, Zenon DEF Bar
<1>5. DayOfSlot(u) = d /\ SlotOfDay(u) = q - 1
  BY <1>1, <1>3, <1>4, BarFields, Zenon
<1>6. u < 7 * q
  BY <1>3, <1>4, BarOfWeek, Zenon
<1> QED
  BY <1>1, <1>4, <1>5, <1>6, PerDayIs, Zenon

(* A bar that is not after the last one of day d is of that day or before. *)
LEMMA AgainstDay ==
  ASSUME NEW d \in Nat, NEW u \in Nat, Bar(u, PerDay, d, PerDay - 1), NEW v \in Nat
  PROVE  /\ v <= u <=> DayOfSlot(v) <= d
         /\ DayOfSlot(v) \in Nat
<1>1. PICK q \in Nat \ {0} : q = PerDay
  BY PerDayIs, Zenon
<1>2. PICK e \in Nat, x \in Nat : x < q /\ Bar(v, q, e, x) /\ DayOfSlot(v) = e
  BY <1>1, BarOf, Zenon
<1>3. q - 1 \in Nat /\ q - 1 < q
  BY SMTT(60)
<1>4. Bar(u, q, d, q - 1)
  BY <1>1, Zenon
<1>p. PICK p \in Nat : p = q - 1 /\ p < q
  BY <1>3, Zenon
<1>5. AsDays(u, v, d, e, p, x)
  BY <1>2, <1>p, <1>4, BarsInOrder, SMTT(60)
<1>6. AsDays(v, u, e, d, x, p)
  BY <1>2, <1>p, <1>4, BarsInOrder, SMTT(60)
<1> QED
  BY <1>2, <1>p, <1>5, <1>6, SMTT(60) DEF AsDays

LEMMA DaysInOrder ==
  ASSUME NEW s \in Nat, NEW v \in Nat
  PROVE  /\ DayOfSlot(s) \in Nat /\ DayOfSlot(v) \in Nat
         /\ DayOfSlot(s) < DayOfSlot(v) => s < v
         /\ s <= v => DayOfSlot(s) <= DayOfSlot(v)
<1>1. PICK q \in Nat \ {0} : q = PerDay
  BY PerDayIs, Zenon
<1>2. PICK e \in Nat, x \in Nat : x < q /\ Bar(v, q, e, x) /\ DayOfSlot(v) = e
  BY <1>1, BarOf, Zenon
<1>3. PICK d \in Nat, t \in Nat : t < q /\ Bar(s, q, d, t) /\ DayOfSlot(s) = d
  BY <1>1, BarOf, Zenon
<1>4. AsDays(s, v, d, e, t, x) /\ AsDays(v, s, e, d, x, t)
  BY <1>2, <1>3, BarsInOrder, SMTT(60)
<1> QED
  BY <1>2, <1>3, <1>4, SMTT(60) DEF AsDays

-----------------------------------------------------------------------------
(* Bar u is the one that a schedule of charts has for bar s: the last not  *)
(* later than s or, if there is none, the last of the week.                *)
InPlace(charts, s, u) ==
  /\ u \in Used(charts)
  /\ \/ u <= s /\ \A v \in Used(charts) : ~(u < v /\ v <= s)
     \/ \A v \in Used(charts) : s < v /\ v <= u

(* The days from today backwards.                                          *)
LEMMA DaysBefore ==
  ASSUME NEW today \in Days, NEW n \in 0 .. 6
  PROVE  /\ DayBefore(today, n) \in Days
         /\ n <= today => DayBefore(today, n) = today - n
         /\ n > today => DayBefore(today, n) = today - n + 7
BY SMTT(60) DEF DayBefore, Days

LEMMA AllDaysBefore ==
  ASSUME NEW today \in Days, NEW e \in Days
  PROVE  \E n \in 0 .. 6 : DayBefore(today, n) = e
<1>1. CASE e <= today
  <2>1. today - e \in 0 .. 6 /\ DayBefore(today, today - e) = e
    BY <1>1, SMTT(60) DEF DayBefore, Days
  <2> QED
    BY <2>1, Zenon
<1>2. CASE e > today
  <2>1. today - e + 7 \in 0 .. 6 /\ DayBefore(today, today - e + 7) = e
    BY <1>2, SMTT(60) DEF DayBefore, Days
  <2> QED
    BY <2>1, Zenon
<1> QED
  BY <1>1, <1>2, SMTT(60) DEF Days

(* How long ago the last day was that charts are enabled for.              *)
Ago(charts, today, n) ==
  /\ n \in 0 .. 6 /\ DayBefore(today, n) \in EnabledDays(charts)
  /\ \A m \in 0 .. n - 1 : DayBefore(today, m) \notin EnabledDays(charts)

FirstAgo(charts, today) ==
  CHOOSE n \in 0 .. 6 :
    /\ DayBefore(today, n) \in EnabledDays(charts)
    /\ \A m \in 0 .. n - 1 : ~ DayBefore(today, m) \in EnabledDays(charts)

ShownAt(charts, s, today, ago) ==
  IF ago = 0 THEN BarsOf(charts, DayBefore(today, ago))[SlotOfDay(s)]
  ELSE BarsOf(charts, DayBefore(today, ago))[PerDay - 1]

LEMMA PlannedForm ==
  ASSUME NEW charts, NEW minute
  PROVE  Planned(charts, minute) =
           ShownAt(charts, minute \div SlotMinutes, DayOfSlot(minute \div SlotMinutes),
                   FirstAgo(charts, DayOfSlot(minute \div SlotMinutes)))
BY Zenon DEF Planned, PerDay, ShownAt, FirstAgo

LEMMA AgoExists ==
  ASSUME NEW charts \in Seq(ChartType), EnabledDays(charts) # {}, NEW today \in Days
  PROVE  Ago(charts, today, FirstAgo(charts, today))
<1> DEFINE T == {n \in 0 .. 6 : DayBefore(today, n) \in EnabledDays(charts)}
<1>1. PICK e \in Days : e \in EnabledDays(charts)
  BY EnabledInDays, Zenon
<1>2. T # {}
  BY <1>1, AllDaysBefore, Zenon
<1>3. T \in SUBSET Nat
  BY SMTT(60)
<1>4. PICK n \in T : \A k \in T : n <= k
  BY <1>2, <1>3, SmallestOf, Zenon
<1>5. n \in 0 .. 6 /\ DayBefore(today, n) \in EnabledDays(charts)
  BY <1>4, Zenon
<1>6. ASSUME NEW m \in 0 .. n - 1, DayBefore(today, m) \in EnabledDays(charts)
      PROVE  FALSE
  <2>1. m \in 0 .. 6 /\ ~(n <= m)
    BY <1>5, SMTT(60)
  <2> QED
    BY <1>4, <1>6, <2>1, Zenon
<1>7. \A m \in 0 .. n - 1 : ~ DayBefore(today, m) \in EnabledDays(charts)
  BY <1>6, Zenon
<1> QED
  BY <1>5, <1>7, Zenon DEF Ago, FirstAgo

LEMMA PlannedInPlace ==
  ASSUME NEW charts \in Seq(ChartType), EnabledDays(charts) # {},
         NEW s \in Nat, s < MaxEntries, NEW minute, s = minute \div SlotMinutes
  PROVE  \E u : InPlace(charts, s, u) /\ Planned(charts, minute) = BarAt(charts, u).temp
<1>1. PICK today : today = DayOfSlot(s)
  OBVIOUS
<1>2. today \in Days
  BY <1>1, BarOf, Zenon
<1>3. PICK ago : ago = FirstAgo(charts, today)
  OBVIOUS
<1>4. Ago(charts, today, ago)
  BY <1>2, <1>3, AgoExists, Zenon
<1>5. /\ ago \in 0 .. 6 /\ DayBefore(today, ago) \in EnabledDays(charts)
      /\ \A m \in 0 .. ago - 1 : DayBefore(today, m) \notin EnabledDays(charts)
  BY <1>4, Zenon DEF Ago
<1>6. PICK d \in Days : d = DayBefore(today, ago)
  BY <1>2, <1>5, DaysBefore, Zenon
<1>7. Planned(charts, minute) =
        IF ago = 0 THEN BarsOf(charts, d)[SlotOfDay(s)]
        ELSE BarsOf(charts, d)[PerDay - 1]
  <2>1. Planned(charts, minute) = ShownAt(charts, s, today, ago)
    BY <1>1, <1>3, PlannedForm, Zenon
  <2> QED
    BY <1>6, <2>1, Zenon DEF ShownAt
<1>t. today \in Nat /\ today \in 0 .. 6 /\ ago \in Nat
  BY <1>2, <1>5, SMTT(60) DEF Days
<1>8. CASE ago = 0
  <2>1. d = today
    BY <1>2, <1>6, <1>8, SMTT(60) DEF DayBefore, Days
  <2>2. s \in Used(charts)
    BY <1>1, <1>5, <1>6, <2>1, Zenon DEF Used
  <2>3. \A v \in Used(charts) : v \in Nat
    BY Zenon DEF Used
  <2>4. s <= s /\ \A v \in Used(charts) : ~(s < v /\ v <= s)
    BY <2>3, SMTT(60)
  <2>5. BarAt(charts, s).temp = BarsOf(charts, d)[SlotOfDay(s)]
    BY <1>1, <2>1, <2>2, BarAtIs, Zenon
  <2> QED
    BY <1>7, <1>8, <2>2, <2>4, <2>5, Zenon DEF InPlace
<1>9. CASE ago # 0
  <2>1. PICK u \in Nat : /\ Bar(u, PerDay, d, PerDay - 1)
                         /\ DayOfSlot(u) = d /\ SlotOfDay(u) = PerDay - 1 /\ u < MaxEntries
    BY DayEnds, Zenon
  <2>2. u \in Used(charts)
    BY <1>5, <1>6, <2>1, Zenon DEF Used
  <2>3. BarAt(charts, u).temp = BarsOf(charts, d)[PerDay - 1]
    BY <2>1, <2>2, BarAtIs, Zenon
  <2>4. d \in Nat /\ today \in Nat
    BY <1>2, SMTT(60) DEF Days
  <2>5. ASSUME NEW v \in Used(charts)
        PROVE  /\ v \in Nat /\ DayOfSlot(v) \in Nat
               /\ v <= u <=> DayOfSlot(v) <= d
               /\ DayOfSlot(v) \in EnabledDays(charts) /\ DayOfSlot(v) \in Days
    <3>1. v \in Nat /\ DayOfSlot(v) \in EnabledDays(charts)
      BY Zenon DEF Used
    <3>2. DayOfSlot(v) \in Days
      BY <3>1, EnabledInDays, Zenon
    <3> QED
      BY <2>1, <2>4, <3>1, <3>2, AgainstDay, Zenon
  (* No day between is enabled.                                            *)
  <2>6. ASSUME NEW e \in Days, e \in EnabledDays(charts)
        PROVE  \E n \in 0 .. 6 : DayBefore(today, n) = e /\ ago <= n
    <3>1. PICK n \in 0 .. 6 : DayBefore(today, n) = e
      BY <1>2, AllDaysBefore, Zenon
    <3>2. n \notin 0 .. ago - 1
      BY <1>5, <2>6, <3>1, Zenon
    <3>3. ago <= n
      BY <1>5, <3>2, SMTT(60)
    <3> QED
      BY <3>1, <3>3, Zenon
  <2>7. CASE ago <= today
    <3>0. d = today - ago
      BY <1>2, <1>5, <1>6, <2>7, DaysBefore, Zenon
    <3>1. d = today - ago /\ d < today
      BY <1>t, <1>9, <3>0, SMTT(60)
    <3>2. u <= s
      <4>1. u < s \/ u = s \/ s < u
        BY <2>1, SMTT(60)
      <4>2. d < today => u < s
        BY <1>1, <2>1, DaysInOrder, Zenon
      <4> QED
        BY <2>1, <3>1, <4>2, SMTT(60)
    <3>3. ASSUME NEW v \in Used(charts), u < v, v <= s PROVE FALSE
      <4>1. PICK e \in Days : e = DayOfSlot(v) /\ e \in EnabledDays(charts)
        BY <2>5, Zenon
      <4>2. v \in Nat /\ (v <= u <=> e <= d)
        BY <2>5, <4>1, Zenon
      <4>3. e <= today
        BY <1>1, <3>3, <4>1, <4>2, DaysInOrder, Zenon
      <4>4. d < e
        BY <2>1, <2>4, <3>3, <4>2, SMTT(60) DEF Days
      <4>5. PICK n \in 0 .. 6 : DayBefore(today, n) = e /\ ago <= n
        BY <2>6, <4>1, Zenon
      <4> QED
        <5>1. n <= today => e = today - n
          BY <1>2, <4>5, DaysBefore, Zenon
        <5>2. n > today => e = today - n + 7
          BY <1>2, <4>5, DaysBefore, Zenon
        <5>3. e \in Nat
          BY <4>1, SMTT(60) DEF Days
        <5> QED
          BY <1>t, <3>1, <4>3, <4>4, <4>5, <5>1, <5>2, <5>3, SMTT(60)
    <3> QED
      BY <1>7, <1>9, <2>2, <2>3, <3>2, <3>3, Zenon DEF InPlace
  <2>8. CASE ago > today
    <3>1. d = today - ago + 7
      BY <1>2, <1>5, <1>6, <2>8, DaysBefore, Zenon
    <3>2. ASSUME NEW v \in Used(charts) PROVE s < v /\ v <= u
      <4>1. PICK e \in Days : e = DayOfSlot(v) /\ e \in EnabledDays(charts)
        BY <2>5, Zenon
      <4>2. v \in Nat /\ (v <= u <=> e <= d)
        BY <2>5, <4>1, Zenon
      <4>3. PICK n \in 0 .. 6 : DayBefore(today, n) = e /\ ago <= n
        BY <2>6, <4>1, Zenon
      <4>4. today < e /\ e <= d
        <5>1. n > today
          BY <1>t, <2>8, <4>3, SMTT(60)
        <5>2. e = today - n + 7
          BY <1>2, <4>3, <5>1, DaysBefore, Zenon
        <5> QED
          BY <1>t, <3>1, <4>3, <5>2, SMTT(60)
      <4>5. s < v
        BY <1>1, <4>1, <4>2, <4>4, DaysInOrder, Zenon
      <4> QED
        BY <4>2, <4>4, <4>5, Zenon
    <3> QED
      BY <1>7, <1>9, <2>2, <2>3, <3>2, Zenon DEF InPlace
  <2>9. ago <= today \/ ago > today
    BY <1>5, <2>4, SMTT(60)
  <2> QED
    BY <2>7, <2>8, <2>9, Zenon
<1> QED
  BY <1>8, <1>9, Zenon

-----------------------------------------------------------------------------
(* The bar of a minute: those begun by then are the ones up to it.         *)
SlotIs(minute, s) ==
  /\ s = minute \div SlotMinutes /\ s \in Nat /\ s < MaxEntries
  /\ \A v \in Nat : Begin(v) <= minute <=> v <= s

LEMMA SlotOfMinute ==
  ASSUME NEW minute \in WeekMinutes
  PROVE  \E s : SlotIs(minute, s)
<1>1. PICK w \in Nat \ {0} : w = SlotMinutes
  BY PerDayIs, Zenon
<1>2. PICK q \in Nat \ {0} : q = PerDay /\ w * q = DayMinutes
  BY <1>1, PerDayIs, Zenon DEF Width
<1>3. minute \in Nat
  BY Zenon DEF WeekMinutes
<1>4. PICK s \in Nat, r \in Nat : r < w /\ Cut(minute, w, s, r)
  BY <1>3, Divided, Zenon
<1>5. minute = w * s + r /\ s = minute \div SlotMinutes
  BY <1>1, <1>4, Zenon DEF Cut
<1>6. ASSUME NEW v \in Nat PROVE Begin(v) <= minute <=> v <= s
  <2>1. PICK x \in Nat, y \in Nat : x = w * s /\ y = v * w
    BY SMTT(60)
  <2>2. Begin(v) = y /\ minute = x + r
    BY <1>1, <1>5, <2>1, Zenon DEF Begin
  <2>3. CASE v <= s
    <3>1. s - v \in Nat /\ s = v + (s - v)
      BY <2>3, SMTT(60)
    <3>2. PICK e \in Nat : s = v + e
      BY <3>1, Zenon
    <3>3. PICK z \in Nat : z = e * w
      BY SMTT(60)
    <3>4. x = y + z
      BY <2>1, <3>2, <3>3, SMTT(60)
    <3> QED
      BY <2>2, <2>3, <3>4, SMTT(60)
  <2>4. CASE ~(v <= s)
    <3>1. v - (s + 1) \in Nat /\ v = s + 1 + (v - (s + 1))
      BY <2>4, SMTT(60)
    <3>2. PICK e \in Nat : v = s + 1 + e
      BY <3>1, Zenon
    <3>3. PICK z \in Nat : z = e * w
      BY SMTT(60)
    <3>4. y = x + w + z
      BY <2>1, <3>2, <3>3, SMTT(60)
    <3> QED
      BY <1>4, <2>2, <2>4, <3>4, SMTT(60)
  <2> QED
    BY <2>3, <2>4
<1>7. s < MaxEntries
  <2>1. PICK m \in Nat : m = MaxEntries /\ m = 7 * q
    BY <1>2, PerDayIs, MaxInNat, Zenon
  <2>2. PICK u \in Nat : u = DayMinutes
    BY DayMinutesIs, Zenon
  <2>3. Begin(m) = 7 * u
    <3>1. Begin(m) = (7 * q) * w /\ w * q = u
      BY <1>1, <1>2, <2>1, <2>2, Zenon DEF Begin
    <3>2. (7 * q) * w = 7 * (w * q)
      BY SMTT(60)
    <3> QED
      BY <3>1, <3>2, Zenon
  <2>4. minute < 7 * u
    BY <2>2, Zenon DEF WeekMinutes
  <2>5. ~(7 * u <= minute)
    BY <1>3, <2>4, SMTT(60)
  <2>6. ~(m <= s)
    BY <1>6, <2>1, <2>3, <2>5, Zenon
  <2> QED
    BY <2>1, <2>6, SMTT(60)
<1> QED
  BY <1>5, <1>6, <1>7, Zenon DEF SlotIs

(* The entry in force shows the bar in place.                              *)
LEMMA InForceInPlace ==
  ASSUME NEW charts \in Seq(ChartType), NEW r, NEW at, Tells(r, charts, at),
         NEW minute \in WeekMinutes, NEW s, SlotIs(minute, s),
         NEW u, InPlace(charts, s, u), NEW k, InForce(r, k, minute)
  PROVE  r[k].temp = BarAt(charts, u).temp
<1>1. PICK n \in Nat : n = Len(r)
  BY LenProperties, Zenon DEF Tells
<1>2. ASSUME NEW j \in 1 .. n
      PROVE  /\ at[j] \in Used(charts) /\ at[j] \in Nat
             /\ r[j].time \in Nat /\ (r[j].time <= minute <=> at[j] <= s)
  <2>1. at[j] \in Used(charts) /\ r[j] = BarAt(charts, at[j])
    BY <1>1, Zenon DEF Tells
  <2>2. at[j] \in Nat
    BY <2>1, Zenon DEF Used
  <2>3. r[j].time = Begin(at[j])
    BY <2>1, BarAtIs, Zenon
  <2>4. Begin(at[j]) \in Nat
    BY <2>2, BeginIs, Zenon
  <2>5. Begin(at[j]) <= minute <=> at[j] <= s
    BY <2>2, Zenon DEF SlotIs
  <2> QED
    BY <2>1, <2>2, <2>3, <2>4, <2>5, Zenon
<1>3. minute \in Nat /\ s \in Nat
  BY Zenon DEF WeekMinutes, SlotIs
<1>4. u \in Used(charts) /\ u \in Nat
  BY Zenon DEF InPlace, Used
<1>5. PICK h : Until(r, charts, at, u, h)
  BY <1>4, Zenon DEF Tells
<1>6. /\ h \in 1 .. n /\ at[h] <= u /\ r[h].temp = BarAt(charts, u).temp
      /\ \A j \in h + 1 .. n : u < at[j]
  BY <1>1, <1>5, Zenon DEF Until
<1>7. /\ k \in 1 .. n /\ \A j \in k + 1 .. n : r[j].time > minute
      /\ \/ r[k].time <= minute
         \/ k = n /\ \A j \in 1 .. n : r[j].time > minute
  BY <1>1, Zenon DEF InForce
<1>8. k < h => h \in k + 1 .. n
  BY <1>6, <1>7, SMTT(60)
<1>9. h < k => k \in h + 1 .. n
  BY <1>6, <1>7, SMTT(60)
<1>10. CASE u <= s /\ \A v \in Used(charts) : ~(u < v /\ v <= s)
  <2>1. r[h].time <= minute /\ ~(r[h].time > minute)
    <3>1. at[h] <= s
      BY <1>2, <1>3, <1>4, <1>6, <1>10, SMTT(60)
    <3>2. r[h].time <= minute /\ r[h].time \in Nat
      BY <1>2, <1>6, <3>1, Zenon
    <3> QED
      BY <1>3, <3>2, SMTT(60)
  <2>2. ~(k < h)
    BY <1>7, <1>8, <2>1, Zenon
  <2>3. r[k].time <= minute
    BY <1>6, <1>7, <2>1, Zenon
  <2>4. at[k] <= s /\ at[k] \in Used(charts)
    BY <1>2, <1>7, <2>3, Zenon
  <2>5. ~(u < at[k])
    BY <1>10, <2>4, Zenon
  <2>6. ~(h < k)
    BY <1>6, <1>9, <2>5, Zenon
  <2>7. k = h
    BY <1>6, <1>7, <2>2, <2>6, SMTT(60)
  <2> QED
    BY <1>6, <2>7, Zenon
<1>11. CASE \A v \in Used(charts) : s < v /\ v <= u
  <2>1. /\ at[k] \in Nat /\ at[k] \in Used(charts)
        /\ r[k].time <= minute <=> at[k] <= s
    BY <1>2, <1>7, Zenon
  <2>x. s < at[k] /\ at[k] <= u
    BY <1>11, <2>1, Zenon
  <2>2. ~(r[k].time <= minute)
    BY <1>3, <2>1, <2>x, SMTT(60)
  <2>3. k = n
    BY <1>7, <2>2, Zenon
  <2>4. at[k] <= u /\ ~(u < at[k])
    BY <1>4, <2>1, <2>x, SMTT(60)
  <2>5. ~(h < k)
    BY <1>6, <1>9, <2>4, Zenon
  <2>6. k = h
    BY <1>6, <2>3, <2>5, SMTT(60)
  <2> QED
    BY <1>6, <2>6, Zenon
<1> QED
  BY <1>10, <1>11, Zenon DEF InPlace

LEMMA MinuteInWeek ==
  ASSUME NEW t \in Nat
  PROVE  MinuteOfWeek(t) \in WeekMinutes
BY SMTT(60) DEF MinuteOfWeek, WeekMinutes, DayMinutes

(* The engine heats to the temperature that the charts of the last whole   *)
(* message show for the present minute, through encoder, cut messages,     *)
(* decoder, restarts and search.                                           *)
THEOREM PlanIsFollowed == Spec => []PlanFollowed
<1>1. ASSUME PlanInv, pc = "done", evalOrder = "left", asked # NULL
      PROVE  IF EnabledDays(asked) = {} THEN found = 0
             ELSE /\ found \in 1 .. Len(states)
                  /\ states[found].temp = Planned(asked, MinuteOfWeek(unixTime))
  <2>1. states = getDataForESP(asked) /\ asked \in Seq(ChartType)
    BY <1>1, Zenon DEF PlanInv, DeviceInv, InStep, Sched
  <2>2. FoundInForce
    BY <1>1, FoundIsInForce, Zenon
  <2>3. PICK r : r = states
    OBVIOUS
  <2>4. r = <<>> <=> EnabledDays(asked) = {}
    BY <2>1, <2>3, EmptySchedule, Zenon DEF EmptyTogether
  <2>5. PICK minute : minute = MinuteOfWeek(unixTime)
    OBVIOUS
  <2>6. IF r = <<>> THEN found = 0 ELSE InForce(r, found, minute)
    BY <1>1, <2>2, <2>3, <2>5, Zenon DEF FoundInForce
  <2>7. unixTime \in Nat
    BY <1>1, SearchAssumption, SMTT(60) DEF PlanInv, SearchInv, SearchTypeOK
  <2>8. minute \in WeekMinutes
    BY <2>5, <2>7, MinuteInWeek, Zenon
  <2>9. ASSUME EnabledDays(asked) # {}
        PROVE  found \in 1 .. Len(r) /\ r[found].temp = Planned(asked, minute)
    <3>1. InForce(r, found, minute)
      BY <2>4, <2>6, <2>9, Zenon
    <3>2. PICK at : Tells(r, asked, at)
      BY <2>1, <2>3, ScheduleTells, Zenon
    <3>3. PICK s : SlotIs(minute, s)
      BY <2>8, SlotOfMinute, Zenon
    <3>4. PICK u : InPlace(asked, s, u) /\ Planned(asked, minute) = BarAt(asked, u).temp
      BY <2>1, <2>9, <3>3, PlannedInPlace, Zenon DEF SlotIs
    <3>x. InPlace(asked, s, u) /\ asked \in Seq(ChartType)
      BY <2>1, <3>4, Zenon
    <3>5. r[found].temp = BarAt(asked, u).temp
      BY <2>8, <3>1, <3>2, <3>3, <3>x, InForceInPlace
    <3> QED
      BY <3>1, <3>4, <3>5, Zenon DEF InForce
  <2> QED
    BY <2>3, <2>4, <2>5, <2>6, <2>9, Zenon
<1>2. PlanInv => PlanFollowed
  BY <1>1, Zenon DEF PlanFollowed
<1> QED
  BY <1>2, PlanAlways, PTL

-----------------------------------------------------------------------------
(* The page after a refresh.                                               *)

(* What counts the edits, saves and refreshes.                             *)
Counters == {"edits", "saves", "refreshes"}
DoneTyped == done \in [Counters -> Nat]

LEMMA DoneInit ==
  ASSUME Init
  PROVE  DoneTyped
<1>1. done = [edits |-> 0, saves |-> 0, refreshes |-> 0]
  BY Zenon DEF Init
<1> QED
  BY <1>1, SMTT(60) DEF DoneTyped, Counters

LEMMA DidCounts ==
  ASSUME DoneTyped, NEW what \in Counters, NEW most, Did(what, most)
  PROVE  DoneTyped' /\ (what # "refreshes" => done'.refreshes = done.refreshes)
BY SMTT(60) DEF DoneTyped, Counters, Did

LEMMA EditCounts ==
  ASSUME DoneTyped, NEW charts, Edit(charts)
  PROVE  DoneTyped' /\ done'.refreshes = done.refreshes
<1>1. Did("edits", MaxEdits) /\ "edits" \in Counters /\ "edits" # "refreshes"
  BY SMTT(60) DEF Edit, Counters
<1> QED
  BY <1>1, DidCounts, Zenon

LEMMA SaveCounts ==
  ASSUME DoneTyped, save
  PROVE  DoneTyped' /\ done'.refreshes = done.refreshes
<1>1. Did("saves", MaxSaves) /\ "saves" \in Counters /\ "saves" # "refreshes"
  BY SMTT(60) DEF save, Counters
<1> QED
  BY <1>1, DidCounts, Zenon

LEMMA RefreshCounts ==
  ASSUME DoneTyped, refresh
  PROVE  DoneTyped'
<1>1. Did("refreshes", MaxRefreshes) /\ "refreshes" \in Counters
  BY SMTT(60) DEF refresh, Counters
<1> QED
  BY <1>1, DidCounts, Zenon

LEMMA DoneStays ==
  ASSUME DoneTyped, done' = done
  PROVE  DoneTyped' /\ done'.refreshes = done.refreshes
BY Zenon DEF DoneTyped

(* Nothing but a refresh counts as one.                                    *)
LEMMA DoneStep ==
  ASSUME DoneTyped, [Next]_planVars
  PROVE  DoneTyped' /\ (refresh \/ done'.refreshes = done.refreshes)
<1>1. ASSUME NEW c, NEW slot, NEW temp, changeBar(c, slot, temp)
      PROVE  DoneTyped' /\ done'.refreshes = done.refreshes
  BY <1>1, EditCounts, Zenon DEF changeBar
<1>2. ASSUME NEW c, NEW day, toggleDay(c, day)
      PROVE  DoneTyped' /\ done'.refreshes = done.refreshes
  BY <1>2, EditCounts, Zenon DEF toggleDay
<1>3. ASSUME NEW c, removeChart(c)
      PROVE  DoneTyped' /\ done'.refreshes = done.refreshes
  BY <1>3, EditCounts, Zenon DEF removeChart
<1>4. ASSUME addChart
      PROVE  DoneTyped' /\ done'.refreshes = done.refreshes
  BY <1>4, EditCounts, Zenon DEF addChart
<1>5. ASSUME Receive \/ (\E n \in Cuts : ReceiveCut(n)) \/ Engine \/ UNCHANGED planVars
      PROVE  DoneTyped' /\ done'.refreshes = done.refreshes
  <2>1. done' = done
    BY <1>5, Zenon DEF Receive, ReceiveCut, Engine, planVars
  <2> QED
    BY <2>1, DoneStays, Zenon
<1> QED
  BY <1>1, <1>2, <1>3, <1>4, <1>5, SaveCounts, RefreshCounts, Zenon DEF Next

-----------------------------------------------------------------------------
(* The n entries of r begin with the bars at[1], at[2], ...                *)
Steps(r, at, n) ==
  /\ n \in Nat \ {0} /\ n = Len(r) /\ r \in Seq(TempEntry)
  /\ \A k \in 1 .. n : at[k] \in Nat /\ r[k].time = Begin(at[k])
  /\ \A j, k \in 1 .. n : j < k => at[j] < at[k]

(* The k-th is the latest at bar s, the last of the week if there is none. *)
Latest(at, n, s, k) ==
  /\ k \in 1 .. n /\ \A j \in k + 1 .. n : s < at[j]
  /\ \/ at[k] <= s
     \/ k = n /\ \A j \in 1 .. n : s < at[j]

LEMMA TellsSteps ==
  ASSUME NEW charts \in Seq(ChartType), NEW r, r # <<>>, NEW at, Tells(r, charts, at),
         NEW n, n = Len(r)
  PROVE  Steps(r, at, n)
<1>1. r \in Seq(TempEntry)
  BY Zenon DEF Tells
<1>2. n \in Nat \ {0}
  BY <1>1, EmptySeq, SMTT(60)
<1>3. ASSUME NEW k \in 1 .. n PROVE at[k] \in Nat /\ r[k].time = Begin(at[k])
  <2>1. at[k] \in Used(charts) /\ r[k] = BarAt(charts, at[k])
    BY Zenon DEF Tells
  <2>2. at[k] \in Nat
    BY <2>1, Zenon DEF Used
  <2> QED
    BY <2>1, <2>2, BarAtIs, Zenon
<1> QED
  BY <1>1, <1>2, <1>3, Zenon DEF Steps, Tells

LEMMA LatestInForce ==
  ASSUME NEW r, NEW at, NEW n, Steps(r, at, n), NEW s \in Nat, NEW k, Latest(at, n, s, k)
  PROVE  InForce(r, k, Begin(s))
<1>1. ASSUME NEW j \in 1 .. n
      PROVE  (at[j] <= s => r[j].time <= Begin(s)) /\ (s < at[j] => r[j].time > Begin(s))
  <2>1. at[j] \in Nat /\ r[j].time = Begin(at[j])
    BY Zenon DEF Steps
  <2>2. PICK a \in Nat : a = at[j]
    BY <2>1, Zenon
  <2>3. a <= s <=> Begin(a) <= Begin(s)
    BY BeginIs, Zenon
  <2>4. Begin(a) \in Nat /\ Begin(s) \in Nat
    BY BeginIs, Zenon
  <2>5. s < a => ~(a <= s)
    BY SMTT(60)
  <2>6. ~(Begin(a) <= Begin(s)) => Begin(a) > Begin(s)
    BY <2>4, SMTT(60)
  <2> QED
    BY <2>1, <2>2, <2>3, <2>5, <2>6, Zenon
<1>2. n = Len(r) /\ n \in Nat
  BY SMTT(60) DEF Steps
<1>3. k \in 1 .. n /\ \A j \in k + 1 .. n : s < at[j]
  BY Zenon DEF Latest
<1>4. \A j \in k + 1 .. n : j \in 1 .. n
  BY <1>2, <1>3, SMTT(60)
<1>5. \A j \in k + 1 .. n : r[j].time > Begin(s)
  BY <1>1, <1>3, <1>4, Zenon
<1>6. \/ r[k].time <= Begin(s)
      \/ k = n /\ \A j \in 1 .. n : r[j].time > Begin(s)
  BY <1>1, <1>3, Zenon DEF Latest
<1> QED
  BY <1>2, <1>3, <1>5, <1>6, Zenon DEF InForce

(* The m entries of a day on the page begin with its bars g[1], g[2], ...; *)
(* the first is the one at midnight.                                       *)
Told(e, g, m) ==
  /\ m \in Nat \ {0} /\ m = Len(e) /\ g[1] = 0
  /\ \A k \in 1 .. m : g[k] \in Nat /\ e[k].time = Begin(g[k])
  /\ \A j, k \in 1 .. m : j < k => g[j] < g[k]

(* At bar t the k-th is the present one.                                   *)
UpTo(g, m, t, k) ==
  k \in 1 .. m /\ g[k] <= t /\ \A j \in k + 1 .. m : t < g[j]

(* One entry each bar at most is enough: no two begin with the same bar.   *)
LEMMA MovedUpTo ==
  ASSUME NEW e, NEW g, NEW m, Told(e, g, m), NEW t \in Nat, NEW last \in 1 .. m,
         g[last] <= t, \A j \in last + 1 .. m : t <= g[j]
  PROVE  UpTo(g, m, t, Moved(e, last, t))
<1>1. m \in Nat /\ m = Len(e) /\ last \in Nat /\ last <= m
  BY SMTT(60) DEF Told
<1>2. \A j, k \in 1 .. m : j < k => g[j] < g[k]
  BY Zenon DEF Told
<1>3. \A k \in 1 .. m : g[k] \in Nat /\ e[k].time = Begin(g[k])
  BY Zenon DEF Told
<1>4. CASE last < m
  <2>1. PICK l \in 1 .. m : l = last + 1
    BY <1>1, <1>4, SMTT(60)
  <2>2. l \in last + 1 .. m
    BY <1>1, <2>1, SMTT(60)
  <2>3. g[l] \in Nat /\ e[l].time = Begin(g[l]) /\ t <= g[l]
    BY <1>3, <2>1, <2>2, Zenon
  <2>4. e[l].time <= t * SlotMinutes <=> g[l] <= t
    BY <2>3, BeginIs, Zenon DEF Begin
  <2>5. CASE g[l] <= t
    <3>1. Moved(e, last, t) = l
      BY <1>1, <1>4, <2>1, <2>4, <2>5, Zenon DEF Moved
    <3>2. ASSUME NEW j \in l + 1 .. m PROVE t < g[j]
      <4>1. j \in 1 .. m /\ l < j
        BY <1>1, <2>1, SMTT(60)
      <4>2. g[l] < g[j] /\ g[j] \in Nat
        BY <1>2, <1>3, <2>1, <4>1, Zenon
      <4> QED
        BY <2>3, <4>2, SMTT(60)
    <3> QED
      BY <2>5, <3>1, <3>2, <2>1, Zenon DEF UpTo
  <2>6. CASE ~(g[l] <= t)
    <3>1. Moved(e, last, t) = last
      BY <2>1, <2>4, <2>6, Zenon DEF Moved
    <3>2. ASSUME NEW j \in last + 1 .. m PROVE t < g[j]
      <4>1. j \in 1 .. m /\ (j = l \/ l < j)
        BY <1>1, <2>1, SMTT(60)
      <4>2. g[j] = g[l] \/ g[l] < g[j]
        BY <1>2, <2>1, <4>1, Zenon
      <4>3. g[j] \in Nat
        BY <1>3, <4>1, Zenon
      <4> QED
        BY <2>3, <2>6, <4>2, <4>3, SMTT(60)
    <3> QED
      BY <3>1, <3>2, Zenon DEF UpTo
  <2> QED
    BY <2>5, <2>6
<1>5. CASE ~(last < m)
  <2>1. Moved(e, last, t) = last
    BY <1>1, <1>5, Zenon DEF Moved
  <2>2. \A j \in last + 1 .. m : FALSE
    BY <1>1, <1>5, SMTT(60)
  <2> QED
    BY <2>1, <2>2, Zenon DEF UpTo
<1> QED
  BY <1>4, <1>5

LEMMA IndexUpTo ==
  ASSUME NEW e, NEW g, NEW m, Told(e, g, m), NEW f, f = IndexAt(e), NEW t \in Slots
  PROVE  UpTo(g, m, t, f[t])
<1>1. PICK q \in Nat : q = PerDay - 1 /\ Slots = 0 .. q
  BY PerDayIs, SMTT(60)
<1>2. m \in Nat \ {0} /\ m = Len(e) /\ g[1] = 0 /\ 1 \in 1 .. m
  BY SMTT(60) DEF Told
<1>3. \A s \in Slots : f[s] = Moved(e, Before(f, s), s)
  BY <1>2, IndexIs, ZenonT(40)
<1> DEFINE S == {s \in Slots : UpTo(g, m, s, f[s])}
<1>4. 0 \in S
  <2>1. 0 \in Slots
    BY <1>1, SMTT(60)
  <2>2. Before(f, 0) = 1
    BY Zenon DEF Before
  <2>3. g[1] <= 0
    BY <1>2, SMTT(60)
  <2>4. ASSUME NEW j \in 1 + 1 .. m PROVE 0 <= g[j]
    <3>1. j \in 1 .. m
      BY <1>2, SMTT(60)
    <3>2. g[j] \in Nat
      BY <3>1, Zenon DEF Told
    <3> QED
      BY <3>2, SMTT(60)
  <2>5. UpTo(g, m, 0, Moved(e, 1, 0))
    <3>1. 0 \in Nat
      OBVIOUS
    <3> QED
      BY <1>2, <2>3, <2>4, <3>1, MovedUpTo, Zenon
  <2> QED
    BY <1>3, <2>1, <2>2, <2>5, Zenon
<1>5. ASSUME NEW s \in 1 .. q, s - 1 \in S PROVE s \in S
  <2>1. s \in Slots /\ s \in Nat /\ s # 0 /\ s - 1 \in Nat
    BY <1>1, SMTT(60)
  <2>2. PICK last : last = f[s - 1]
    OBVIOUS
  <2>3. UpTo(g, m, s - 1, last)
    BY <1>5, <2>2, Zenon
  <2>4. last \in 1 .. m /\ g[last] <= s - 1 /\ \A j \in last + 1 .. m : s - 1 < g[j]
    BY <2>3, Zenon DEF UpTo
  <2>5. \A k \in 1 .. m : g[k] \in Nat
    BY Zenon DEF Told
  <2>6. g[last] <= s
    <3>1. g[last] \in Nat
      BY <2>4, <2>5, Zenon
    <3> QED
      BY <2>1, <2>4, <3>1, SMTT(60)
  <2>7. ASSUME NEW j \in last + 1 .. m PROVE s <= g[j]
    <3>1. j \in 1 .. m
      BY <1>2, <2>4, SMTT(60)
    <3>2. s - 1 < g[j] /\ g[j] \in Nat
      BY <2>4, <2>5, <3>1, Zenon
    <3> QED
      BY <2>1, <3>2, SMTT(60)
  <2>8. UpTo(g, m, s, Moved(e, last, s))
    BY <2>1, <2>4, <2>6, <2>7, MovedUpTo, Zenon
  <2>9. f[s] = Moved(e, last, s)
    BY <1>3, <2>1, <2>2, Zenon DEF Before
  <2> QED
    BY <2>1, <2>8, <2>9, Zenon
<1> HIDE DEF S
<1>6. \A s \in 0 .. q : s \in S
  BY <1>4, <1>5, InductionTo, Zenon
<1>7. t \in S
  BY <1>1, <1>6, Zenon
<1> QED
  BY <1>7, Zenon DEF S

-----------------------------------------------------------------------------
(* A time by its bar: the day, and the time within the day.                *)
LEMMA BeginOfDay ==
  ASSUME NEW v \in Nat
  PROVE  /\ Begin(v) \div DayMinutes = DayOfSlot(v)
         /\ Begin(v) - DayOfSlot(v) * DayMinutes = Begin(SlotOfDay(v))
<1>1. PICK w \in Nat \ {0} : w = SlotMinutes
  BY PerDayIs, Zenon
<1>2. PICK q \in Nat \ {0} : q = PerDay /\ w * q = DayMinutes
  BY <1>1, PerDayIs, Zenon DEF Width
<1>3. PICK u \in Nat \ {0} : u = DayMinutes
  BY DayMinutesIs, SMTT(60)
<1>4. PICK d \in Nat, t \in Nat : /\ t < q /\ Bar(v, q, d, t)
                                  /\ DayOfSlot(v) = d /\ SlotOfDay(v) = t
  BY <1>2, BarOf, Zenon
<1>5. v = q * d + t
  BY <1>4, Zenon DEF Bar
<1>6. PICK x \in Nat : x = t * w
  BY SMTT(60)
<1>7. v * w = u * d + x
  <2>1. v * w = (w * q) * d + t * w
    BY <1>5, SMTT(60)
  <2> QED
    BY <1>2, <1>3, <1>6, <2>1, Zenon
<1>8. x < u
  <2>1. q - (t + 1) \in Nat /\ q = t + 1 + (q - (t + 1))
    BY <1>4, SMTT(60)
  <2>2. PICK e \in Nat : q = t + 1 + e
    BY <2>1, Zenon
  <2>3. PICK z \in Nat : z = w * e
    BY SMTT(60)
  <2>4. w * q = x + w + z
    BY <1>6, <2>2, <2>3, SMTT(60)
  <2> QED
    BY <1>2, <1>3, <2>4, SMTT(60)
<1>9. PICK y \in Nat : y = u * d
  BY SMTT(60)
<1>10. Begin(v) = y + x /\ Begin(t) = x
  BY <1>1, <1>6, <1>7, <1>9, Zenon DEF Begin
<1>a. PICK a \in Nat : a = y + x
  BY SMTT(60)
<1>11. Made(a, u, d, x)
  BY <1>8, <1>9, <1>a, Zenon DEF Made
<1>12. (y + x) \div u = d
  BY <1>a, <1>11, DivModIs, Zenon
<1>13. (y + x) - d * u = x
  <2>1. d * u = y
    BY <1>9, SMTT(60)
  <2> QED
    BY <2>1, SMTT(60)
<1> QED
  BY <1>3, <1>4, <1>10, <1>12, <1>13, Zenon

(* Of the n entries of the week, day d has e: those numbered p[1], ...,    *)
(* p[l].                                                                   *)
DayOf(r, at, n, d, p, l, e) ==
  /\ l \in Nat /\ l = Len(e) /\ e \in Seq(TempEntry)
  /\ \A k \in 1 .. l : /\ p[k] \in 1 .. n /\ DayOfSlot(at[p[k]]) = d
                       /\ e[k].time = Begin(SlotOfDay(at[p[k]]))
                       /\ e[k].temp = r[p[k]].temp
  /\ \A j, k \in 1 .. l : j < k => p[j] < p[k]
  /\ \A k \in 1 .. n : DayOfSlot(at[k]) = d => \E y \in 1 .. l : p[y] = k

LEMMA DayOfIs ==
  ASSUME NEW r, NEW at, NEW n, Steps(r, at, n), NEW d \in Nat, NEW e, e = OfDay(r, d)
  PROVE  \E p, l : DayOf(r, at, n, d, p, l, e)
<1>1. r \in Seq(TempEntry) /\ n = Len(r)
  BY Zenon DEF Steps
<1>2. PICK p : DayFrom(r, d, p)
  BY <1>1, OfDayIs, Zenon
<1>3. /\ Ordered(p, DayPlaces(r, d), n)
      /\ e = [k \in 1 .. Len(p) |-> FromStart(r[p[k]], d)]
  BY <1>1, <1>2, Zenon DEF DayFrom
<1>4. PICK l \in Nat : l = Len(p)
  BY <1>3, LenProperties, Zenon DEF Ordered
<1>5. ASSUME NEW k \in 1 .. n
      PROVE  /\ r[k] \in TempEntry /\ at[k] \in Nat
             /\ r[k].time \div DayMinutes = DayOfSlot(at[k])
             /\ r[k].time - DayOfSlot(at[k]) * DayMinutes = Begin(SlotOfDay(at[k]))
  <2>1. at[k] \in Nat /\ r[k].time = Begin(at[k])
    BY Zenon DEF Steps
  <2>2. PICK v \in Nat : v = at[k]
    BY <2>1, Zenon
  <2>3. Begin(v) \div DayMinutes = DayOfSlot(v)
        /\ Begin(v) - DayOfSlot(v) * DayMinutes = Begin(SlotOfDay(v))
    BY BeginOfDay, Zenon
  <2>4. r[k] \in TempEntry
    BY <1>1, ElementOfSeq, Zenon
  <2> QED
    BY <2>1, <2>2, <2>3, <2>4, Zenon
<1>6. e \in Seq(TempEntry)
  BY <1>1, OfDayTyped, Zenon
<1>7. l = Len(e)
  <2>1. e = [k \in 1 .. l |-> FromStart(r[p[k]], d)]
    BY <1>3, <1>4, Zenon
  <2> QED
    BY <2>1, <1>4, SMTT(60)
<1>8. ASSUME NEW k \in 1 .. l
      PROVE  /\ p[k] \in 1 .. n /\ DayOfSlot(at[p[k]]) = d
             /\ e[k].time = Begin(SlotOfDay(at[p[k]]))
             /\ e[k].temp = r[p[k]].temp
  <2>1. PICK h : h = p[k]
    OBVIOUS
  <2>2. h \in DayPlaces(r, d)
    BY <1>3, <1>4, <2>1, Zenon DEF Ordered
  <2>3. h \in 1 .. n /\ r[h].time \div DayMinutes = d
    BY <1>1, <2>2, Zenon DEF DayPlaces
  <2>4. DayOfSlot(at[h]) = d
    BY <1>5, <2>3, Zenon
  <2>5. e[k] = FromStart(r[h], d)
    BY <1>3, <1>4, <2>1, Zenon
  <2>6. FromStart(r[h], d).time = r[h].time - d * DayMinutes
        /\ FromStart(r[h], d).temp = r[h].temp
    BY <1>5, <2>3, FromStartTyped, Zenon
  <2>7. r[h].time - d * DayMinutes = Begin(SlotOfDay(at[h]))
    BY <1>5, <2>3, <2>4, Zenon
  <2> QED
    BY <2>1, <2>3, <2>4, <2>5, <2>6, <2>7, Zenon
<1>9. \A j, k \in 1 .. l : j < k => p[j] < p[k]
  BY <1>3, <1>4, Zenon DEF Ordered
<1>10. ASSUME NEW k \in 1 .. n, DayOfSlot(at[k]) = d
       PROVE  \E y \in 1 .. l : p[y] = k
  <2>1. k \in DayPlaces(r, d)
    BY <1>1, <1>5, <1>10, Zenon DEF DayPlaces
  <2> QED
    BY <1>3, <1>4, <2>1, Zenon DEF Ordered
<1>11. \A k \in 1 .. n : DayOfSlot(at[k]) = d => \E y \in 1 .. l : p[y] = k
  BY <1>10, Zenon
<1>12. \A k \in 1 .. l : /\ p[k] \in 1 .. n /\ DayOfSlot(at[p[k]]) = d
                         /\ e[k].time = Begin(SlotOfDay(at[p[k]]))
                         /\ e[k].temp = r[p[k]].temp
  BY <1>8, Zenon
<1>13. DayOf(r, at, n, d, p, l, e)
  BY <1>4, <1>6, <1>7, <1>9, <1>11, <1>12, Zenon DEF DayOf
<1> QED
  BY <1>13, Zenon

-----------------------------------------------------------------------------
(* The k-th entry is the last before day d, or the last of the week.       *)
Ended(at, n, d, k) ==
  /\ k \in 1 .. n /\ \A j \in k + 1 .. n : d <= DayOfSlot(at[j])
  /\ \/ DayOfSlot(at[k]) < d
     \/ k = n /\ \A j \in 1 .. n : d <= DayOfSlot(at[j])

LEMMA StepDays ==
  ASSUME NEW r, NEW at, NEW n, Steps(r, at, n), NEW j \in 1 .. n, NEW k \in 1 .. n
  PROVE  /\ DayOfSlot(at[j]) \in Nat /\ at[j] \in Nat
         /\ j < k => at[j] < at[k] /\ DayOfSlot(at[j]) <= DayOfSlot(at[k])
<1>1. PICK a \in Nat, b \in Nat : a = at[j] /\ b = at[k]
  BY Zenon DEF Steps
<1>2. j < k => a < b
  BY <1>1, Zenon DEF Steps
<1>3. a < b => a <= b
  BY SMTT(60)
<1> QED
  BY <1>1, <1>2, <1>3, DaysInOrder, Zenon

LEMMA EndedFirst ==
  ASSUME NEW r, NEW at, NEW n, Steps(r, at, n)
  PROVE  Ended(at, n, 0, n)
<1>1. n \in 1 .. n /\ n \in Nat
  BY SMTT(60) DEF Steps
<1>2. \A j \in n + 1 .. n : FALSE
  BY <1>1, SMTT(60)
<1>3. \A j \in 1 .. n : 0 <= DayOfSlot(at[j])
  <2>1. \A j \in 1 .. n : DayOfSlot(at[j]) \in Nat
    BY StepDays, Zenon
  <2> QED
    BY <2>1, SMTT(60)
<1> QED
  BY <1>1, <1>2, <1>3, Zenon DEF Ended

(* A day without entries.                                                  *)
LEMMA EndedStill ==
  ASSUME NEW r, NEW at, NEW n, Steps(r, at, n), NEW d \in Nat, NEW k, Ended(at, n, d, k),
         \A j \in 1 .. n : DayOfSlot(at[j]) # d
  PROVE  Ended(at, n, d + 1, k)
<1>1. n \in Nat /\ k \in 1 .. n /\ \A j \in k + 1 .. n : j \in 1 .. n
  BY SMTT(60) DEF Ended, Steps
<1>2. ASSUME NEW j \in 1 .. n
      PROVE  /\ d <= DayOfSlot(at[j]) => d + 1 <= DayOfSlot(at[j])
             /\ DayOfSlot(at[j]) < d => DayOfSlot(at[j]) < d + 1
  <2>1. DayOfSlot(at[j]) \in Nat /\ DayOfSlot(at[j]) # d
    BY StepDays, Zenon
  <2> QED
    BY <2>1, SMTT(60)
<1> QED
  BY <1>1, <1>2, Zenon DEF Ended

(* A day with entries ends with its last one.                              *)
LEMMA EndedNow ==
  ASSUME NEW r, NEW at, NEW n, Steps(r, at, n), NEW d \in Nat,
         NEW p, NEW l, NEW e, DayOf(r, at, n, d, p, l, e), l # 0
  PROVE  Ended(at, n, d + 1, p[l])
<1>1. l \in Nat /\ l \in 1 .. l /\ n \in Nat
  BY SMTT(60) DEF DayOf, Steps
<1>2. PICK h \in 1 .. n : h = p[l] /\ DayOfSlot(at[h]) = d
  BY <1>1, Zenon DEF DayOf
<1>3. ASSUME NEW j \in h + 1 .. n
      PROVE  d + 1 <= DayOfSlot(at[j])
  <2>1. j \in 1 .. n /\ h < j /\ ~(j < h) /\ j # h
    BY <1>2, <1>1, SMTT(60)
  <2>2. d <= DayOfSlot(at[j]) /\ DayOfSlot(at[j]) \in Nat
    BY <1>2, <2>1, StepDays, Zenon
  <2>3. ASSUME DayOfSlot(at[j]) = d PROVE FALSE
    <3>1. PICK y \in 1 .. l : p[y] = j
      BY <2>1, <2>3, Zenon DEF DayOf
    <3>2. y = l \/ y < l
      BY <1>1, SMTT(60)
    <3>3. j = h \/ j < h
      BY <1>1, <1>2, <3>1, <3>2, Zenon DEF DayOf
    <3> QED
      BY <2>1, <3>3, Zenon
  <2> QED
    BY <2>2, <2>3, SMTT(60)
<1>4. DayOfSlot(at[h]) < d + 1
  BY <1>2, SMTT(60)
<1> QED
  BY <1>2, <1>3, <1>4, Zenon DEF Ended

EndedWith(r, at, n, d, temp) == \E k : Ended(at, n, d, k) /\ temp = r[k].temp

LEMMA CarriedEnds ==
  ASSUME NEW r, NEW at, NEW n, Steps(r, at, n), NEW f, f = LastTemps(r), NEW d \in 0 .. 7
  PROVE  EndedWith(r, at, n, d, f[d])
<1> DEFINE S == {c \in 0 .. 7 : \E k : Ended(at, n, c, k) /\ f[c] = r[k].temp}
<1>1. r \in Seq(TempEntry) /\ n = Len(r) /\ r # <<>>
  <2>1. r \in Seq(TempEntry) /\ n = Len(r) /\ n # 0
    BY SMTT(60) DEF Steps
  <2> QED
    BY <2>1, EmptySeq, Zenon
<1>2. PICK m \in Nat : m = 7
  OBVIOUS
<1>3. f[0] = Last(r).temp /\ \A c \in 1 .. m : f[c] = After(r, c, f[c - 1])
  BY <1>1, <1>2, CarriedIs, Zenon
<1>4. 0 \in S
  <2>1. f[0] = r[n].temp
    BY <1>1, <1>3, LastOfSeq, Zenon
  <2>2. 0 \in 0 .. 7
    OBVIOUS
  <2> QED
    BY <2>1, <2>2, EndedFirst, Zenon
<1>5. ASSUME NEW c \in 1 .. m, c - 1 \in S PROVE c \in S
  <2>1. PICK b \in Nat : b = c - 1 /\ b + 1 = c
    <3>1. c - 1 \in Nat /\ (c - 1) + 1 = c
      BY SMTT(60)
    <3> QED
      BY <3>1, Zenon
  <2>c. c \in 0 .. 7
    BY <1>2, SMTT(60)
  <2>2. PICK e : e = OfDay(r, b)
    OBVIOUS
  <2>3. PICK p, l : DayOf(r, at, n, b, p, l, e)
    BY <2>2, DayOfIs, Zenon
  <2>4. f[c] = IF e = <<>> THEN f[b] ELSE Last(e).temp
    BY <1>3, <2>1, <2>2, Zenon DEF After
  <2>5. l \in Nat /\ l = Len(e) /\ e \in Seq(TempEntry)
    BY <2>3, Zenon DEF DayOf
  <2>6. CASE e = <<>>
    <3>1. PICK k : Ended(at, n, b, k) /\ f[b] = r[k].temp
      BY <1>5, <2>1, Zenon
    <3>2. \A y \in 1 .. l : FALSE
      BY <2>5, <2>6, SMTT(60)
    <3>3. \A j \in 1 .. n : DayOfSlot(at[j]) # b
      BY <2>3, <3>2, Zenon DEF DayOf
    <3>4. Ended(at, n, c, k)
      BY <2>1, <3>1, <3>3, EndedStill, Zenon
    <3> QED
      BY <2>4, <2>6, <2>c, <3>1, <3>4, Zenon
  <2>7. CASE e # <<>>
    <3>1. l # 0 /\ l \in 1 .. l
      BY <2>5, <2>7, LastOfSeq, SMTT(60)
    <3>2. Last(e).temp = r[p[l]].temp
      <4>1. Last(e) = e[l]
        BY <2>5, <2>7, LastOfSeq, Zenon
      <4>2. e[l].temp = r[p[l]].temp
        BY <2>3, <3>1, Zenon DEF DayOf
      <4> QED
        BY <4>1, <4>2, Zenon
    <3>3. Ended(at, n, c, p[l])
      BY <2>1, <2>3, <3>1, EndedNow, Zenon
    <3> QED
      BY <2>4, <2>7, <2>c, <3>2, <3>3, Zenon
  <2> QED
    BY <2>6, <2>7
<1> HIDE DEF S
<1>6. \A c \in 0 .. m : c \in S
  BY <1>4, <1>5, InductionTo, Zenon
<1>7. d \in S
  BY <1>2, <1>6, Zenon
<1>8. \E k : Ended(at, n, d, k) /\ f[d] = r[k].temp
  BY <1>7, Zenon DEF S
<1> QED
  BY <1>8, Zenon DEF EndedWith

(* Within a day the bars are in the order of their numbers.                *)
LEMMA SameDay ==
  ASSUME NEW s \in Nat, NEW v \in Nat, DayOfSlot(s) = DayOfSlot(v)
  PROVE  /\ SlotOfDay(s) \in Nat /\ SlotOfDay(v) \in Nat
         /\ s < v <=> SlotOfDay(s) < SlotOfDay(v)
<1>1. PICK q \in Nat \ {0} : q = PerDay
  BY PerDayIs, Zenon
<1>2. PICK e \in Nat, x \in Nat : /\ x < q /\ Bar(v, q, e, x)
                                  /\ DayOfSlot(v) = e /\ SlotOfDay(v) = x
  BY <1>1, BarOf, Zenon
<1>3. PICK d \in Nat, t \in Nat : /\ t < q /\ Bar(s, q, d, t)
                                  /\ DayOfSlot(s) = d /\ SlotOfDay(s) = t
  BY <1>1, BarOf, Zenon
<1>4. AsDays(s, v, d, e, t, x)
  BY <1>2, <1>3, BarsInOrder, SMTT(60)
<1>5. d = e
  BY <1>2, <1>3, Zenon
<1>6. s < v <=> t < x
  BY <1>4, <1>5, Zenon DEF AsDays
<1> QED
  BY <1>2, <1>3, <1>6, Zenon

(* The entry of the day whose time has come last is the present one.       *)
LEMMA DayEntryLatest ==
  ASSUME NEW r, NEW at, NEW n, Steps(r, at, n), NEW s \in Nat, NEW t, t = SlotOfDay(s),
         NEW p, NEW l, NEW e, DayOf(r, at, n, DayOfSlot(s), p, l, e),
         NEW y \in 1 .. l, SlotOfDay(at[p[y]]) <= t,
         \A j \in y + 1 .. l : t < SlotOfDay(at[p[j]])
  PROVE  Latest(at, n, s, p[y])
<1>1. n \in Nat /\ l \in Nat
  BY SMTT(60) DEF Steps, DayOf
<1>2. PICK h \in 1 .. n : h = p[y] /\ DayOfSlot(at[h]) = DayOfSlot(s)
  BY Zenon DEF DayOf
<1>3. at[h] \in Nat
  BY Zenon DEF Steps
<1>4. at[h] <= s
  <2>1. s < at[h] <=> t < SlotOfDay(at[h])
    BY <1>2, <1>3, SameDay, Zenon
  <2>2. SlotOfDay(at[h]) \in Nat /\ t \in Nat
    BY <1>2, <1>3, SameDay, Zenon
  <2>3. SlotOfDay(at[h]) <= t
    BY <1>2, Zenon
  <2> QED
    BY <1>3, <2>1, <2>2, <2>3, SMTT(60)
<1>5. ASSUME NEW j \in h + 1 .. n PROVE s < at[j]
  <2>1. j \in 1 .. n /\ h < j /\ j # h /\ ~(j < h)
    BY <1>1, SMTT(60)
  <2>2. at[j] \in Nat /\ DayOfSlot(at[j]) \in Nat /\ DayOfSlot(s) <= DayOfSlot(at[j])
    BY <1>2, <2>1, StepDays, Zenon
  <2>3. CASE DayOfSlot(at[j]) = DayOfSlot(s)
    <3>1. PICK k \in 1 .. l : p[k] = j
      BY <2>1, <2>3, Zenon DEF DayOf
    <3>2. k < y \/ k = y \/ k \in y + 1 .. l
      BY <1>1, SMTT(60)
    <3>3. k < y => j < h
      BY <1>2, <3>1, Zenon DEF DayOf
    <3>4. k \in y + 1 .. l
      BY <1>2, <2>1, <3>1, <3>2, <3>3, Zenon
    <3>5. t < SlotOfDay(at[j])
      BY <3>1, <3>4, Zenon
    <3> QED
      BY <2>2, <2>3, <3>5, SameDay, Zenon
  <2>4. CASE DayOfSlot(at[j]) # DayOfSlot(s)
    <3>1. DayOfSlot(s) \in Nat
      BY DaysInOrder, Zenon
    <3>2. DayOfSlot(s) < DayOfSlot(at[j])
      BY <2>2, <2>4, <3>1, SMTT(60)
    <3> QED
      BY <2>2, <3>2, DaysInOrder, Zenon
  <2> QED
    BY <2>3, <2>4
<1>6. Latest(at, n, s, h)
  BY <1>4, <1>5, Zenon DEF Latest
<1> QED
  BY <1>2, <1>6, Zenon

(* Before the first entry of a day it is the one the day before ended with. *)
LEMMA DayNoneLatest ==
  ASSUME NEW r, NEW at, NEW n, Steps(r, at, n), NEW s \in Nat, NEW t, t = SlotOfDay(s),
         NEW p, NEW l, NEW e, DayOf(r, at, n, DayOfSlot(s), p, l, e),
         \A j \in 1 .. l : t < SlotOfDay(at[p[j]]),
         NEW k, Ended(at, n, DayOfSlot(s), k)
  PROVE  Latest(at, n, s, k)
<1>1. n \in Nat /\ k \in 1 .. n
  BY Zenon DEF Steps, Ended
<1>2. \A j \in k + 1 .. n : j \in 1 .. n
  BY <1>1, SMTT(60)
<1>3. ASSUME NEW j \in 1 .. n, DayOfSlot(s) <= DayOfSlot(at[j])
      PROVE  s < at[j]
  <2>1. at[j] \in Nat /\ DayOfSlot(at[j]) \in Nat
    BY StepDays, Zenon
  <2>2. CASE DayOfSlot(at[j]) = DayOfSlot(s)
    <3>1. PICK y \in 1 .. l : p[y] = j
      BY <2>2, Zenon DEF DayOf
    <3>2. t < SlotOfDay(at[j])
      BY <3>1, Zenon
    <3> QED
      BY <2>1, <2>2, <3>2, SameDay, Zenon
  <2>3. CASE DayOfSlot(at[j]) # DayOfSlot(s)
    <3>1. DayOfSlot(s) \in Nat
      BY DaysInOrder, Zenon
    <3>2. DayOfSlot(s) < DayOfSlot(at[j])
      BY <1>3, <2>1, <2>3, <3>1, SMTT(60)
    <3> QED
      BY <2>1, <3>2, DaysInOrder, Zenon
  <2> QED
    BY <2>2, <2>3
<1>4. DayOfSlot(at[k]) < DayOfSlot(s) => at[k] <= s
  <2>1. at[k] \in Nat
    BY <1>1, StepDays, Zenon
  <2>2. DayOfSlot(at[k]) < DayOfSlot(s) => at[k] < s
    BY <2>1, DaysInOrder, Zenon
  <2> QED
    BY <2>1, <2>2, SMTT(60)
<1> QED
  BY <1>1, <1>2, <1>3, <1>4, Zenon DEF Ended, Latest

-----------------------------------------------------------------------------
BarsOfDay(at, p, l) == [y \in 1 .. l |-> SlotOfDay(at[p[y]])]
FromMidnight(g, l) == [y \in 1 .. l + 1 |-> IF y = 1 THEN 0 ELSE g[y - 1]]

LEMMA BeginZero ==
  ASSUME NEW v \in Nat
  PROVE  Begin(v) = 0 <=> v = 0
<1>1. PICK w \in Nat \ {0} : w = SlotMinutes
  BY PerDayIs, Zenon
<1>2. v * w = 0 <=> v = 0
  BY SMTT(60)
<1> QED
  BY <1>1, <1>2, Zenon DEF Begin

GoesUp(g, e, l) ==
  /\ \A y \in 1 .. l : g[y] \in Nat /\ e[y].time = Begin(g[y])
  /\ \A y, j \in 1 .. l : y < j => g[y] < g[j]

LEMMA DayInOrder ==
  ASSUME NEW r, NEW at, NEW n, Steps(r, at, n), NEW d, NEW p, NEW l, NEW e,
         DayOf(r, at, n, d, p, l, e), NEW g, g = BarsOfDay(at, p, l)
  PROVE  GoesUp(g, e, l) /\ \A y \in 1 .. l : g[y] = SlotOfDay(at[p[y]])
<1>1. ASSUME NEW y \in 1 .. l
      PROVE  /\ g[y] = SlotOfDay(at[p[y]]) /\ p[y] \in 1 .. n /\ at[p[y]] \in Nat
             /\ DayOfSlot(at[p[y]]) = d /\ g[y] \in Nat /\ e[y].time = Begin(g[y])
  <2>1. g[y] = SlotOfDay(at[p[y]])
    BY Zenon DEF BarsOfDay
  <2>2. p[y] \in 1 .. n /\ DayOfSlot(at[p[y]]) = d /\ e[y].time = Begin(SlotOfDay(at[p[y]]))
    BY Zenon DEF DayOf
  <2>3. at[p[y]] \in Nat
    BY <2>2, Zenon DEF Steps
  <2>4. SlotOfDay(at[p[y]]) \in Nat
    BY <2>3, SameDay, Zenon
  <2> QED
    BY <2>1, <2>2, <2>3, <2>4, Zenon
<1>2. ASSUME NEW y \in 1 .. l, NEW j \in 1 .. l, y < j
      PROVE  g[y] < g[j]
  <2>1. p[y] < p[j]
    BY <1>2, Zenon DEF DayOf
  <2>2. at[p[y]] < at[p[j]]
    BY <1>1, <2>1, Zenon DEF Steps
  <2>3. PICK a \in Nat, b \in Nat : a = at[p[y]] /\ b = at[p[j]]
    BY <1>1, Zenon
  <2>4. DayOfSlot(a) = DayOfSlot(b) /\ a < b
    BY <1>1, <2>2, <2>3, Zenon
  <2>5. SlotOfDay(a) < SlotOfDay(b)
    BY <2>4, SameDay, Zenon
  <2> QED
    BY <1>1, <2>3, <2>5, Zenon
<1>3. GoesUp(g, e, l)
  BY <1>1, <1>2, Zenon DEF GoesUp
<1> QED
  BY <1>1, <1>3, Zenon

Prefixed(w, a, b, l) ==
  Len(w) = l + 1 /\ w[1] = a[1] /\ \A y \in 1 .. l : w[y + 1] = b[y]

LEMMA Prepended ==
  ASSUME NEW S, NEW a \in Seq(S), Len(a) = 1, NEW b \in Seq(S), NEW l \in Nat, l = Len(b),
         NEW w, w = a \o b
  PROVE  Prefixed(w, a, b, l)
<1>1. /\ Len(w) = 1 + l
      /\ \A y \in 1 .. 1 + l : w[y] = IF y <= 1 THEN a[y] ELSE b[y - 1]
  <2>1. /\ Len(a \o b) = Len(a) + Len(b)
        /\ \A y \in 1 .. Len(a) + Len(b) :
             (a \o b)[y] = IF y <= Len(a) THEN a[y] ELSE b[y - Len(a)]
    BY ConcatProperties, Zenon
  <2>2. PICK c, m : c = Len(a) + Len(b) /\ m = Len(a)
    OBVIOUS
  <2>3. Len(w) = c /\ \A y \in 1 .. c : w[y] = IF y <= m THEN a[y] ELSE b[y - m]
    BY <2>1, <2>2, Zenon
  <2>4. c = 1 + l /\ m = 1
    BY <2>2, Zenon
  <2> QED
    BY <2>3, <2>4, Zenon
<1>2. Len(w) = l + 1
  BY <1>1, SMTT(60)
<1>3. w[1] = a[1]
  <2>1. 1 \in 1 .. 1 + l /\ 1 <= 1
    BY SMTT(60)
  <2> QED
    BY <1>1, <2>1, Zenon
<1>4. ASSUME NEW y \in 1 .. l PROVE w[y + 1] = b[y]
  <2>1. y + 1 \in 1 .. 1 + l /\ ~(y + 1 <= 1) /\ (y + 1) - 1 = y
    BY SMTT(60)
  <2> QED
    BY <1>1, <2>1, Zenon
<1> QED
  BY <1>2, <1>3, <1>4, Zenon DEF Prefixed

MidnightTold(w, h, e, g, l, t) ==
  /\ Told(w, h, l + 1) /\ w[1].temp = t
  /\ \A y \in 1 .. l : w[y + 1] = e[y] /\ h[y + 1] = g[y]

LEMMA FromMidnightTold ==
  ASSUME NEW l \in Nat, NEW e \in Seq(TempEntry), l = Len(e), NEW g, GoesUp(g, e, l),
         l = 0 \/ e[1].time # 0,
         NEW t \in Temps, NEW start, StartsAt(start, t), NEW w, w = start \o e,
         NEW h, h = FromMidnight(g, l)
  PROVE  MidnightTold(w, h, e, g, l, t)
<1>g. /\ \A y \in 1 .. l : g[y] \in Nat /\ e[y].time = Begin(g[y])
      /\ \A y, j \in 1 .. l : y < j => g[y] < g[j]
  BY Zenon DEF GoesUp
<1>1. start \in Seq(TempEntry) /\ Len(start) = 1 /\ start[1].time = 0 /\ start[1].temp = t
  BY StartTyped, Zenon
<1>2. Len(w) = l + 1 /\ w[1] = start[1] /\ \A y \in 1 .. l : w[y + 1] = e[y]
  <2>1. Prefixed(w, start, e, l)
    BY <1>1, Prepended, Zenon
  <2> QED
    BY <2>1, Zenon DEF Prefixed
<1>4. h[1] = 0 /\ \A y \in 1 .. l : h[y + 1] = g[y]
  BY SMTT(60) DEF FromMidnight
<1>5. ASSUME NEW k \in 1 .. l + 1, k # 1
      PROVE  \E y \in 1 .. l : k = y + 1
  <2>1. k - 1 \in 1 .. l /\ k = (k - 1) + 1
    BY <1>5, SMTT(60)
  <2> QED
    BY <2>1, Zenon
<1>6. ASSUME NEW y \in 1 .. l PROVE 0 < g[y]
  <2>1. 1 \in 1 .. l /\ e[1].time # 0 /\ (y = 1 \/ 1 < y)
    BY SMTT(60)
  <2>2. g[1] \in Nat /\ g[1] # 0
    BY <1>g, <2>1, BeginZero, Zenon
  <2>3. y = 1 \/ g[1] < g[y]
    BY <1>g, <2>1, Zenon
  <2>4. g[y] \in Nat
    BY <1>g, Zenon
  <2> QED
    BY <2>2, <2>3, <2>4, SMTT(60)
<1>7. ASSUME NEW k \in 1 .. l + 1 PROVE h[k] \in Nat /\ w[k].time = Begin(h[k])
  <2>1. Begin(0) = 0 /\ 0 \in Nat
    BY BeginZero
  <2>2. CASE k = 1
    BY <1>1, <1>2, <1>4, <2>1, <2>2, Zenon
  <2>3. CASE k # 1
    <3>1. PICK y \in 1 .. l : k = y + 1
      BY <1>5, <2>3, Zenon
    <3>2. w[k] = e[y] /\ h[k] = g[y]
      BY <1>2, <1>4, <3>1, Zenon
    <3> QED
      BY <1>g, <3>2, Zenon
  <2> QED
    BY <2>2, <2>3
<1>8. ASSUME NEW j \in 1 .. l + 1, NEW k \in 1 .. l + 1, j < k PROVE h[j] < h[k]
  <2>1. k # 1
    BY <1>8, SMTT(60)
  <2>2. PICK b \in 1 .. l : k = b + 1
    BY <1>5, <2>1, Zenon
  <2>3. CASE j = 1
    BY <1>4, <1>6, <2>2, <2>3, Zenon
  <2>4. CASE j # 1
    <3>1. PICK a \in 1 .. l : j = a + 1
      BY <1>5, <2>4, Zenon
    <3>2. a < b
      BY <1>8, <2>2, <3>1, SMTT(60)
    <3> QED
      BY <1>g, <1>4, <2>2, <3>1, <3>2, Zenon
  <2> QED
    BY <2>3, <2>4
<1>9. l + 1 \in Nat \ {0}
  BY SMTT(60)
<1>10. Told(w, h, l + 1)
  BY <1>2, <1>4, <1>7, <1>8, <1>9, Zenon DEF Told
<1> QED
  BY <1>1, <1>2, <1>4, <1>10, Zenon DEF MidnightTold

(* The page shows at bar s the entry that is present then.                 *)
Shown(r, at, n, s, temp) == \E k : Latest(at, n, s, k) /\ temp = r[k].temp

LEMMA OwnEntryShown ==
  ASSUME NEW r, NEW at, NEW n, Steps(r, at, n), NEW s \in Nat, NEW t \in Slots, t = SlotOfDay(s),
         NEW p, NEW l, NEW e, DayOf(r, at, n, DayOfSlot(s), p, l, e),
         NEW g, g = BarsOfDay(at, p, l), NEW y \in 1 .. l, UpTo(g, l, t, y)
  PROVE  Shown(r, at, n, s, e[y].temp)
<1>1. \A j \in 1 .. l : g[j] = SlotOfDay(at[p[j]])
  BY Zenon DEF BarsOfDay
<1>2. l \in Nat
  BY Zenon DEF DayOf
<1>3. g[y] <= t /\ \A j \in y + 1 .. l : t < g[j]
  BY Zenon DEF UpTo
<1>4. SlotOfDay(at[p[y]]) <= t
  BY <1>1, <1>3, Zenon
<1>5. ASSUME NEW j \in y + 1 .. l PROVE t < SlotOfDay(at[p[j]])
  <2>1. j \in 1 .. l
    BY <1>2, SMTT(60)
  <2> QED
    BY <1>1, <1>3, <2>1, Zenon
<1>6. Latest(at, n, s, p[y])
  BY <1>4, <1>5, DayEntryLatest, Zenon
<1>7. e[y].temp = r[p[y]].temp
  BY Zenon DEF DayOf
<1> QED
  BY <1>6, <1>7, Zenon DEF Shown

LEMMA EarlierEntryShown ==
  ASSUME NEW r, NEW at, NEW n, Steps(r, at, n), NEW s \in Nat, NEW t \in Slots, t = SlotOfDay(s),
         DayOfSlot(s) \in Days,
         NEW p, NEW l, NEW e, DayOf(r, at, n, DayOfSlot(s), p, l, e),
         NEW g, g = BarsOfDay(at, p, l), \A j \in 1 .. l : t < g[j]
  PROVE  Shown(r, at, n, s, LastTemps(r)[DayOfSlot(s)])
<1>1. \A j \in 1 .. l : t < SlotOfDay(at[p[j]])
  BY Zenon DEF BarsOfDay
<1>2. PICK d : d = DayOfSlot(s)
  OBVIOUS
<1>3. d \in 0 .. 7
  BY <1>2, DayIs, Zenon
<1>f. PICK f : f = LastTemps(r)
  OBVIOUS
<1>e. EndedWith(r, at, n, d, f[d])
  BY <1>3, <1>f, CarriedEnds, Zenon
<1>4. PICK k : Ended(at, n, d, k) /\ LastTemps(r)[d] = r[k].temp
  BY <1>e, <1>f, Zenon DEF EndedWith
<1>5. Latest(at, n, s, k)
  BY <1>1, <1>2, <1>4, DayNoneLatest, Zenon
<1> QED
  BY <1>2, <1>4, <1>5, Zenon DEF Shown

BarFrom(w, g, m, t, temp) == \E y : UpTo(g, m, t, y) /\ temp = w[y].temp

LEMMA BarShown ==
  ASSUME NEW r, NEW w, NEW d \in Days, w = WholeDay(r, d), NEW t \in Slots,
         NEW g, NEW m, Told(w, g, m)
  PROVE  BarFrom(w, g, m, t, DayBars(r)[d][t])
<1>1. PICK f : f = IndexAt(w)
  OBVIOUS
<1>2. UpTo(g, m, t, f[t])
  BY <1>1, IndexUpTo, Zenon
<1>3. DayBars(r)[d] = prepareDataForBars(w)
  BY Zenon DEF DayBars
<1>4. prepareDataForBars(w)[t] = w[f[t]].temp
  BY <1>1, Zenon DEF prepareDataForBars
<1> QED
  BY <1>2, <1>3, <1>4, Zenon DEF BarFrom

LEMMA WholeDayShown ==
  ASSUME NEW r, NEW at, NEW n, Steps(r, at, n), NEW s \in Nat, NEW d \in Days, d = DayOfSlot(s),
         NEW t \in Slots, t = SlotOfDay(s)
  PROVE  Shown(r, at, n, s, DayBars(r)[d][t])
<1>1. r \in Seq(TempEntry) /\ r # <<>>
  <2>1. r \in Seq(TempEntry) /\ n = Len(r) /\ n # 0
    BY SMTT(60) DEF Steps
  <2> QED
    BY <2>1, EmptySeq, Zenon
<1>2. PICK e : e = OfDay(r, d)
  OBVIOUS
<1>3. d \in Nat /\ d \in 0 .. 7
  BY DayIs, Zenon
<1>4. PICK p, l : DayOf(r, at, n, d, p, l, e)
  BY <1>2, <1>3, DayOfIs, Zenon
<1>5. l \in Nat /\ l = Len(e) /\ e \in Seq(TempEntry)
  BY <1>4, Zenon DEF DayOf
<1>6. PICK g : g = BarsOfDay(at, p, l)
  OBVIOUS
<1>7. GoesUp(g, e, l)
  BY <1>4, <1>6, DayInOrder, Zenon
<1>8. PICK c \in Temps : c = LastTemps(r)[d]
  BY <1>1, <1>3, CarriedIs, Zenon
<1>9. PICK start : StartsAt(start, c)
  BY Zenon DEF StartsAt
<1>10. PICK w : w = WholeDay(r, d)
  OBVIOUS
<1>11. w = IF e = <<>> THEN start
           ELSE IF e[1].time # 0 THEN start \o e ELSE e
  <2>1. StartsAt(start, LastTemps(r)[d])
    BY <1>8, <1>9, Zenon
  <2>2. FormsDay(WholeDay(r, d), e, start)
    BY <1>2, <2>1, WholeDayForm, Zenon
  <2> QED
    BY <1>10, <2>2, Zenon DEF FormsDay
<1>12. e = <<>> <=> l = 0
  BY <1>5, EmptySeq, Zenon
<1>13. CASE l = 0 \/ e[1].time # 0
  <2>1. w = start \o e
    <3>1. start \in Seq(TempEntry)
      BY <1>9, StartTyped, Zenon
    <3>2. e = <<>> => start \o e = start
      BY <3>1, ConcatEmptySeq, Zenon
    <3> QED
      BY <1>11, <1>12, <1>13, <3>2, Zenon
  <2>2. PICK h : h = FromMidnight(g, l)
    OBVIOUS
  <2>3. /\ Told(w, h, l + 1) /\ w[1].temp = c
        /\ \A y \in 1 .. l : w[y + 1] = e[y] /\ h[y + 1] = g[y]
    <3>1. MidnightTold(w, h, e, g, l, c)
      BY <1>5, <1>7, <1>9, <1>13, <2>1, <2>2, FromMidnightTold, ZenonT(40)
    <3> QED
      BY <3>1, Zenon DEF MidnightTold
  <2>4. PICK k : UpTo(h, l + 1, t, k) /\ DayBars(r)[d][t] = w[k].temp
    <3>1. BarFrom(w, h, l + 1, t, DayBars(r)[d][t])
      BY <1>10, <2>3, BarShown, Zenon
    <3> QED
      BY <3>1, Zenon DEF BarFrom
  <2>5. k \in 1 .. l + 1 /\ h[k] <= t /\ \A j \in k + 1 .. l + 1 : t < h[j]
    BY <2>4, Zenon DEF UpTo
  <2>6. CASE k = 1
    <3>1. ASSUME NEW j \in 1 .. l PROVE t < g[j]
      <4>1. j + 1 \in k + 1 .. l + 1
        BY <1>5, <2>6, SMTT(60)
      <4> QED
        BY <2>3, <2>5, <4>1, Zenon
    <3>2. Shown(r, at, n, s, c)
      BY <1>4, <1>6, <1>8, <3>1, EarlierEntryShown, Zenon
    <3> QED
      BY <2>3, <2>4, <2>6, <3>2, Zenon
  <2>7. CASE k # 1
    <3>1. k - 1 \in 1 .. l /\ k = (k - 1) + 1
      BY <1>5, <2>5, <2>7, SMTT(60)
    <3>2. PICK y \in 1 .. l : k = y + 1
      BY <3>1, Zenon
    <3>3. g[y] <= t /\ w[k] = e[y]
      BY <2>3, <2>5, <3>2, Zenon
    <3>4. ASSUME NEW j \in y + 1 .. l PROVE t < g[j]
      <4>1. j + 1 \in k + 1 .. l + 1 /\ j \in 1 .. l
        BY <1>5, <3>2, SMTT(60)
      <4> QED
        BY <2>3, <2>5, <4>1, Zenon
    <3>5. UpTo(g, l, t, y)
      BY <3>3, <3>4, Zenon DEF UpTo
    <3>6. Shown(r, at, n, s, e[y].temp)
      BY <1>4, <1>6, <3>5, OwnEntryShown, Zenon
    <3> QED
      BY <2>4, <3>3, <3>6, Zenon
  <2> QED
    BY <2>6, <2>7
<1>14. CASE l # 0 /\ e[1].time = 0
  <2>1. w = e
    BY <1>11, <1>12, <1>14, Zenon
  <2>2. 1 \in 1 .. l /\ l \in Nat \ {0}
    BY <1>5, <1>14, SMTT(60)
  <2>3. g[1] = 0
    BY <1>7, <1>14, <2>2, BeginZero, Zenon DEF GoesUp
  <2>4. Told(w, g, l)
    BY <1>5, <1>7, <2>1, <2>2, <2>3, Zenon DEF Told, GoesUp
  <2>5. PICK y : UpTo(g, l, t, y) /\ DayBars(r)[d][t] = w[y].temp
    <3>1. BarFrom(w, g, l, t, DayBars(r)[d][t])
      BY <1>10, <2>4, BarShown, Zenon
    <3> QED
      BY <3>1, Zenon DEF BarFrom
  <2>6. y \in 1 .. l
    BY <2>5, Zenon DEF UpTo
  <2>7. Shown(r, at, n, s, e[y].temp)
    BY <1>4, <1>6, <2>5, <2>6, OwnEntryShown, Zenon
  <2> QED
    BY <2>1, <2>5, <2>7, Zenon
<1> QED
  BY <1>13, <1>14, Zenon

-----------------------------------------------------------------------------
(* So it shows what the charts plan for that bar.                          *)
ShownAsPlanned(r, charts, s) ==
  DayOfSlot(s) \in Days /\ DayBars(r)[DayOfSlot(s)][SlotOfDay(s)] = Planned(charts, Begin(s))

LEMMA PlannedShown ==
  ASSUME NEW charts \in Seq(ChartType), NEW r, r = getDataForESP(charts), r # <<>>,
         NEW s \in Nat, s < MaxEntries
  PROVE  ShownAsPlanned(r, charts, s)
<1>1. PICK at : Tells(r, charts, at)
  BY ScheduleTells, Zenon
<1>2. PICK n : n = Len(r)
  OBVIOUS
<1>3. Steps(r, at, n)
  BY <1>1, <1>2, TellsSteps, Zenon
<1>4. PICK d \in Days, t \in Slots : d = DayOfSlot(s) /\ t = SlotOfDay(s)
  BY BarOf, Zenon
<1>x. Shown(r, at, n, s, DayBars(r)[d][t])
  BY <1>3, <1>4, WholeDayShown, Zenon
<1>5. PICK k : Latest(at, n, s, k) /\ DayBars(r)[d][t] = r[k].temp
  BY <1>x, Zenon DEF Shown
<1>6. PICK minute \in WeekMinutes : minute = Begin(s)
  BY BeginIs, Zenon
<1>7. InForce(r, k, minute)
  BY <1>3, <1>5, <1>6, LatestInForce, Zenon
<1>8. SlotIs(minute, s)
  <2>1. PICK x : SlotIs(minute, x)
    BY SlotOfMinute, Zenon
  <2>2. x \in Nat /\ \A v \in Nat : Begin(v) <= minute <=> v <= x
    BY <2>1, Zenon DEF SlotIs
  <2>3. minute \in Nat
    BY Zenon DEF WeekMinutes
  <2>4. s <= x
    <3>1. Begin(s) <= minute
      BY <1>6, <2>3, SMTT(60)
    <3> QED
      BY <2>2, <3>1, Zenon
  <2>5. x <= s
    <3>1. x <= x
      BY <2>2, SMTT(60)
    <3>2. Begin(x) <= Begin(s)
      BY <1>6, <2>2, <3>1, Zenon
    <3> QED
      BY <2>2, <3>2, BeginIs, Zenon
  <2>6. x = s
    BY <2>2, <2>4, <2>5, SMTT(60)
  <2> QED
    BY <2>1, <2>6, Zenon
<1>9. EnabledDays(charts) # {}
  BY EmptySchedule, Zenon DEF EmptyTogether
<1>10. s = minute \div SlotMinutes
  BY <1>8, Zenon DEF SlotIs
<1>11. PICK u : InPlace(charts, s, u) /\ Planned(charts, minute) = BarAt(charts, u).temp
  BY <1>9, <1>10, PlannedInPlace, Zenon
<1>12. InPlace(charts, s, u)
  BY <1>11, Zenon
<1>13. r[k].temp = BarAt(charts, u).temp
  BY <1>1, <1>7, <1>8, <1>12, InForceInPlace
<1> QED
  BY <1>4, <1>5, <1>6, <1>11, <1>13, Zenon DEF ShownAsPlanned

LEMMA SlotsOfWeek ==
  ASSUME NEW s \in AllSlots
  PROVE  s \in Nat /\ s < MaxEntries
<1>1. PICK q \in Nat \ {0} : q = PerDay /\ MaxEntries = 7 * q
  BY PerDayIs, Zenon
<1>2. PICK w \in Nat \ {0} : w = SlotMinutes
  BY PerDayIs, Zenon
<1>3. PICK u \in Nat \ {0} : u = DayMinutes /\ w * q = u
  BY <1>1, <1>2, PerDayIs, DayMinutesIs, SMTT(60) DEF Width
<1>4. PICK a \in Nat : a = 7 * u
  BY SMTT(60)
<1>5. PICK c \in Nat : c = 7 * q
  BY SMTT(60)
<1>6. a = w * c + 0
  BY <1>3, <1>4, <1>5, SMTT(60)
<1>7. 0 \in Nat /\ 0 < w
  BY SMTT(60)
<1>8. Made(a, w, c, 0)
  BY <1>6, <1>7, Zenon DEF Made
<1>9. a \div w = c
  BY <1>7, <1>8, DivModIs, Zenon
<1>10. AllSlots = 0 .. c - 1
  <2>1. (7 * DayMinutes) \div SlotMinutes = c
    BY <1>2, <1>3, <1>4, <1>9, Zenon
  <2> QED
    BY <2>1, Zenon DEF AllSlots
<1>11. s \in Nat /\ s < c
  BY <1>10, SMTT(60)
<1> QED
  BY <1>1, <1>5, <1>11, Zenon

(* Stored and read back, a schedule shows on every bar of the page what    *)
(* the engine follows there.                                               *)
THEOREM PlanSurvivesRefresh == Spec => SurvivesRefresh
<1>1. ASSUME PlanInv, DoneTyped, [Next]_planVars, Refreshed, evalOrder = "left", states # <<>>,
             NEW s \in AllSlots
      PROVE  BarsOf(dayData', DayOfSlot(s))[SlotOfDay(s)] = Planned(kept, s * SlotMinutes)
  <2>1. refresh
    BY <1>1, DoneStep, Zenon DEF Refreshed
  <2>2. ShowsDays(dayData', DayBars(states))
    BY <1>1, <2>1, RefreshShows, Zenon DEF RefreshData
  <2>3. states = Sched(kept) /\ kept \in Seq(ChartType) \cup {NULL}
    BY <1>1, Zenon DEF PlanInv, DeviceInv, InStep
  <2>4. kept \in Seq(ChartType) /\ states = getDataForESP(kept)
    BY <1>1, <2>3, Zenon DEF Sched
  <2>5. s \in Nat /\ s < MaxEntries
    BY <1>1, SlotsOfWeek, Zenon
  <2>6. /\ DayOfSlot(s) \in Days
        /\ DayBars(states)[DayOfSlot(s)][SlotOfDay(s)] = Planned(kept, Begin(s))
    <3>1. PICK charts, r : charts \in Seq(ChartType) /\ charts = kept /\ r = states
      BY <2>4, Zenon
    <3>2. r = getDataForESP(charts) /\ r # <<>>
      BY <1>1, <2>4, <3>1, Zenon
    <3>3. ShownAsPlanned(r, charts, s)
      BY <2>5, <3>1, <3>2, PlannedShown, Zenon
    <3> QED
      BY <3>1, <3>3, Zenon DEF ShownAsPlanned
  <2>7. BarsOf(dayData', DayOfSlot(s)) = DayBars(states)[DayOfSlot(s)]
    BY <2>2, <2>6, Zenon DEF ShowsDays
  <2> QED
    BY <2>6, <2>7, Zenon DEF Begin
<1>2. Init => DoneTyped
  BY DoneInit, Zenon
<1>3. DoneTyped /\ [Next]_planVars => DoneTyped'
  BY DoneStep, Zenon
<1>4. PlanInv /\ DoneTyped /\ [Next]_planVars =>
        [(Refreshed /\ evalOrder = "left" /\ states # <<>>) =>
           \A s \in AllSlots :
             BarsOf(dayData', DayOfSlot(s))[SlotOfDay(s)] = Planned(kept, s * SlotMinutes)
        ]_planVars
  BY <1>1, Zenon
<1> QED
  BY <1>2, <1>3, <1>4, PlanAlways, PTL DEF Spec, SurvivesRefresh
=============================================================================
