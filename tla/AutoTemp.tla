------------------------------ MODULE AutoTemp ------------------------------
(***************************************************************************)
(* Schedules as the device and the web page exchange them: auto_temp.c,    *)
(* and web/js/dataFunctions.js with its charts.                            *)
(*                                                                         *)
(* Times are in minutes and temperatures in hundredths of a degree.  The   *)
(* page has hours and degrees, halves and whole ones only (its bars are    *)
(* half an hour wide, and changeBar rounds), so that its products with 60  *)
(* and 100 are exact.                                                      *)
(***************************************************************************)
EXTENDS Base64, SequencesExt

CONSTANTS
  SlotMinutes,   (* what a bar of the chart stands for: 30                 *)
  NULL           (* no value                                               *)

ASSUME SlotAssumption == SlotMinutes \in Nat \ {0} /\ 1440 % SlotMinutes = 0

DayMinutes == 24 * 60
Days == 0 .. 6
Slots == 0 .. (DayMinutes \div SlotMinutes) - 1
AllSlots == 0 .. (7 * DayMinutes) \div SlotMinutes - 1

DayOfSlot(s) == s \div (DayMinutes \div SlotMinutes)
SlotOfDay(s) == s % (DayMinutes \div SlotMinutes)

(* The numbers of a set up to n, in order, and what a sequence has there.  *)
InOrder(S, n) == FlattenSeq([k \in 1 .. n |-> IF k \in S THEN <<k>> ELSE <<>>])
Picked(seq, S) ==
  LET places == InOrder(S, Len(seq))
  IN  [k \in 1 .. Len(places) |-> seq[places[k]]]

(* A chart: the days it is for, and the bars of such a day.                *)
Chart(days, bars) == [enabledDays |-> days, values |-> bars]

-----------------------------------------------------------------------------
(* The message: a 16-bit count, then a 16-bit time and temperature each.   *)

Word(high, low) == high * 256 + low

Bytes(entries) ==
  LET At(k) == entries[((k - 1) \div 4) + 1]
  IN  <<Len(entries) \div 256, Len(entries) % 256>>
      \o [k \in 1 .. 4 * Len(entries) |->
            CASE (k - 1) % 4 = 0 -> At(k).time \div 256
              [] (k - 1) % 4 = 1 -> At(k).time % 256
              [] (k - 1) % 4 = 2 -> At(k).temp \div 256
              [] (k - 1) % 4 = 3 -> At(k).temp % 256]

EntryAt(data, k) == [time |-> Word(data[4 * k - 1], data[4 * k]),
                     temp |-> Word(data[4 * k + 1], data[4 * k + 2])]

autoTempEncode(entries) == base64_encode2(Bytes(entries))

(* The limit of autoTempDecode: one entry for each bar of the week.        *)
MaxEntries == 7 * (DayMinutes \div SlotMinutes)

(* Line 31 increments data_pos twice in one expression, in no defined      *)
(* order: a compiler takes the left operand first, or the right one, or    *)
(* increments after both are read.                                         *)
Orders == {"left", "right", "after"}

Count(data, order) ==
  CASE order = "left"  -> Word(data[1], data[2])
    [] order = "right" -> Word(data[2], data[1])
    [] order = "after" -> Word(data[1], data[1])

(* The test before each entry is that all of it is there.  A slip is that  *)
(* it is missing (what lies behind is zero).                               *)
Zeroed(data, length) ==
  [k \in 1 .. length |-> IF k <= Len(data) THEN data[k] ELSE 0]

DecodeUnchecked(text, order) ==
  LET data == base64_decode2(text)
      count == Count(data, order)
  IN  IF count > MaxEntries THEN NULL
      ELSE [k \in 1 .. count |-> EntryAt(Zeroed(data, 4 * count + 2), k)]

autoTempDecode(text, order) ==
  LET data == base64_decode2(text)
      count == Count(data, order)
  IN  IF \/ count > MaxEntries
         \/ \E k \in 1 .. count : 2 + 4 * (k - 1) + 4 > Len(data)
      THEN NULL
      ELSE [k \in 1 .. count |-> EntryAt(data, k)]

-----------------------------------------------------------------------------
(* From the charts to the message.                                         *)

(* dataByDay: the bars of each day that some chart is enabled for; of      *)
(* several charts the last one counts.                                     *)
EnabledDays(charts) == UNION {charts[c].enabledDays : c \in 1 .. Len(charts)}

BarsOf(charts, day) ==
  LET For(c) == day \in charts[c].enabledDays
  IN  charts[CHOOSE c \in 1 .. Len(charts) :
               For(c) /\ \A d \in c + 1 .. Len(charts) : ~For(d)].values

(* Only the changes of temperature are kept; a slip overlooks those at     *)
(* midnight.                                                               *)
ChangesWithinDays(bars) ==
  Picked(bars, {k \in 1 .. Len(bars) :
                  \/ k = 1
                  \/ /\ bars[k].temp # bars[k - 1].temp
                     /\ bars[k].time % DayMinutes # 0})

getDataFromBars(bars) ==
  Picked(bars, {k \in 1 .. Len(bars) : k = 1 \/ bars[k].temp # bars[k - 1].temp})

(* The slots, from 1, of the days that are enabled, and their bars.        *)
EnabledSlots(charts) ==
  InOrder({k \in 1 .. MaxEntries : DayOfSlot(k - 1) \in EnabledDays(charts)}, MaxEntries)

BarAt(charts, s) ==
  [time |-> s * SlotMinutes, temp |-> BarsOf(charts, DayOfSlot(s))[SlotOfDay(s)]]

EnabledBars(charts) ==
  LET slots == EnabledSlots(charts)
  IN  [k \in 1 .. Len(slots) |-> BarAt(charts, slots[k] - 1)]

getDataForESP(charts) == getDataFromBars(EnabledBars(charts))

generateResponse(entries) == fromByteArray(Bytes(entries))

-----------------------------------------------------------------------------
(* From the message to the charts.                                         *)

convertBase64ToPoints(text) ==
  LET data == toByteArray(text)
  IN  [k \in 1 .. Word(data[1], data[2]) |-> EntryAt(data, k)]

(* The bars of a day, from entries that begin with the start of the day:   *)
(* at each bar the index moves by one at most.  A slip is a bar late.      *)
BarsLate(entries) ==
  LET Index[s \in Slots] ==
        LET last == IF s = 0 THEN 1 ELSE Index[s - 1]
        IN  IF last < Len(entries) /\ entries[last + 1].time < s * SlotMinutes
            THEN last + 1
            ELSE last
  IN  [s \in Slots |-> entries[Index[s]].temp]

IndexAt(entries) ==
  LET Index[s \in Slots] ==
        LET last == IF s = 0 THEN 1 ELSE Index[s - 1]
        IN  IF last < Len(entries) /\ entries[last + 1].time <= s * SlotMinutes
            THEN last + 1
            ELSE last
  IN  Index

prepareDataForBars(entries) == [s \in Slots |-> entries[IndexAt(entries)[s]].temp]

(* The entries of a day, their times counted from its start.               *)
OfDay(data, day) ==
  LET group == Picked(data, {k \in 1 .. Len(data) : data[k].time \div DayMinutes = day})
  IN  [k \in 1 .. Len(group) |-> [group[k] EXCEPT !.time = @ - day * DayMinutes]]

(* The temperature each day ends with; before the first one, the last's.   *)
LastTemps(data) ==
  LET LastTemp[n \in 0 .. 7] ==
        IF n = 0 THEN Last(data).temp
        ELSE IF OfDay(data, n - 1) = <<>> THEN LastTemp[n - 1]
        ELSE Last(OfDay(data, n - 1)).temp
  IN  LastTemp

(* A day without entries, or that does not begin with one, continues the   *)
(* day before.                                                             *)
WholeDay(data, day) ==
  LET entries == OfDay(data, day)
      start == <<[time |-> 0, temp |-> LastTemps(data)[day]]>>
  IN  IF entries = <<>> THEN start
      ELSE IF entries[1].time # 0 THEN start \o entries
      ELSE entries

DayBars(data) == [day \in Days |-> prepareDataForBars(WholeDay(data, day))]

(* Days with the same bars share a chart.                                  *)
getStatesByDay(points, default) ==
  LET bars == DayBars(IF points = <<>> THEN default ELSE points)
      Same(day) == {d \in Days : bars[d] = bars[day]}
      firsts == InOrder({k \in 1 .. 7 : \A d \in Same(k - 1) : k - 1 <= d}, 7)
  IN  [c \in 1 .. Len(firsts) |-> Chart(Same(firsts[c] - 1), bars[firsts[c] - 1])]

(* Its grouping moves the points themselves to the start of their day: if  *)
(* the default was used, it is changed.                                    *)
DefaultAfter(points, default) ==
  IF points # <<>> THEN default
  ELSE [k \in 1 .. Len(default) |->
          [default[k] EXCEPT !.time = @ % DayMinutes]]

parseResponse(text, default) ==
  getStatesByDay(convertBase64ToPoints(text), default)
=============================================================================
