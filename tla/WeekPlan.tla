------------------------------ MODULE WeekPlan ------------------------------
(***************************************************************************)
(* A week's schedule on its way: edited as charts on the web page          *)
(* (main-controller.js, script.js), sent as one text, decoded by           *)
(* handleAutoTemp, and looked up by the engine every second.               *)
(*                                                                         *)
(* The page posts its text to the device and the firmware takes the same   *)
(* text from the topic autoTemp/command; what carries it from one to the   *)
(* other is not in the repository.  The page's GET of the schedule is      *)
(* answered by autoTempEncode, for which it was written, though this       *)
(* firmware has lost the handler.  Of flash only the schedule is kept here *)
(* (Thermostat has the rest, and saves that are cut short).                *)
(***************************************************************************)
EXTENDS ScheduleSearch, AutoTemp

CONSTANTS
  FirstCharts,   (* the charts of a schedule the device has from before;   *)
                 (* NULL for none                                          *)
  BarTemps,      (* temperatures that bars are drawn to                    *)
  BarsDrawn,     (* the bars that are drawn                                *)
  DaysToggled,   (* the days that are toggled                              *)
  MaxCharts,     (* charts on the page                                     *)
  Cuts,          (* where TCP may end the first segment of a message       *)
  MaxEdits, MaxSaves, MaxRefreshes

(* What the page's bars can show, and its charts.                          *)
Temps == {t \in Nat : 1500 <= t /\ t <= 3000}
ChartType == [enabledDays : SUBSET Days, values : [Slots -> Temps]]

ASSUME PlanAssumption ==
  /\ FirstCharts \subseteq Seq(ChartType) \cup {NULL}
  /\ BarTemps \subseteq Temps /\ BarsDrawn \subseteq Slots /\ DaysToggled \subseteq Days
  /\ Cuts \subseteq Nat \ {0}
  /\ NULL \notin Seq(ChartType) /\ NULL \notin Seq(Entry)

VARIABLES
  dayData,       (* the page's charts; none before it has loaded           *)
  defaultData,   (* the page's global                                      *)
  wire,          (* a message under way, with the charts it was made from  *)
  stored,        (* the schedule in flash                                  *)
  asked,         (* the charts of the last message that came whole, or of  *)
                 (* the schedule in flash after a restart                  *)
  kept,          (* the charts of the schedule in flash                    *)
  evalOrder,     (* how the firmware was compiled                          *)
  done           (* the numbers of edits, saves and refreshes              *)

page == <<dayData, defaultData>>
device == <<stored, asked, kept, evalOrder>>
planVars == <<searchVars, page, wire, device, done>>

(* The bars of a new chart: 18 degrees all day.                            *)
Bars18 == prepareDataForBars(<<[time |-> 0, temp |-> 1800]>>)

OriginalDefault == <<[time |-> 0, temp |-> 1800], [time |-> 50 * 60, temp |-> 2000]>>

Did(what, most) == done[what] < most /\ done' = [done EXCEPT ![what] = @ + 1]

Edit(charts) ==
  /\ dayData # <<>>
  /\ Did("edits", MaxEdits)
  /\ dayData' = charts
  /\ UNCHANGED <<searchVars, defaultData, wire, device>>

-----------------------------------------------------------------------------
(* The page.                                                               *)

changeBar(c, slot, temp) ==
  Edit([dayData EXCEPT ![c].values[slot] = temp])

(* A slip: the day is enabled here and left enabled elsewhere.             *)
ToggleHere(c, day) ==
  Edit([dayData EXCEPT ![c].enabledDays = @ \cup {day}])

(* toggleDay enables a day for this chart and no other.                    *)
toggleDay(c, day) ==
  Edit([d \in 1 .. Len(dayData) |->
          [dayData[d] EXCEPT !.enabledDays =
             IF d = c THEN @ \cup {day} ELSE @ \ {day}]])

addChart ==
  /\ Len(dayData) < MaxCharts
  /\ Edit(Append(dayData, Chart({}, Bars18)))

(* The last chart is replaced by one for the whole week.                   *)
Without(c) == SubSeq(dayData, 1, c - 1) \o SubSeq(dayData, c + 1, Len(dayData))

removeChart(c) ==
  Edit(IF Len(dayData) = 1 THEN <<Chart(Days, Bars18)>> ELSE Without(c))

(* One message is under way at a time.                                     *)
save ==
  /\ dayData # <<>>
  /\ wire = NULL
  /\ Did("saves", MaxSaves)
  /\ wire' = [text |-> generateResponse(getDataForESP(dayData)), charts |-> dayData]
  /\ UNCHANGED <<searchVars, page, device>>

(* Loading the page is a refresh.                                          *)
refresh ==
  /\ pc = "idle"
  /\ Did("refreshes", MaxRefreshes)
  /\ LET text == autoTempEncode(states)
     IN  /\ dayData' = parseResponse(text, defaultData)
         /\ defaultData' = DefaultAfter(convertBase64ToPoints(text), defaultData)
  /\ UNCHANGED <<searchVars, wire, device>>

-----------------------------------------------------------------------------
(* The device.                                                             *)

(* handleAutoTemp of what came.  For an empty schedule the allocator       *)
(* returns NULL: its length is taken, but nothing is saved.                *)
Handle(text) ==
  LET decoded == autoTempDecode(text, evalOrder)
  IN  IF decoded = NULL THEN UNCHANGED <<searchVars, stored>>
      ELSE /\ NewSchedule(decoded)
           /\ stored' = IF decoded = <<>> THEN stored ELSE decoded

Receive ==
  /\ pc = "idle" /\ wire # NULL
  /\ Handle(wire.text)
  /\ wire' = NULL
  /\ asked' = wire.charts
  /\ kept' = IF EnabledDays(wire.charts) = {} THEN kept ELSE wire.charts
  /\ UNCHANGED <<page, evalOrder, done>>

(* The device starts again with the schedule in flash; the length with it  *)
(* is the one of this schedule, or zero if another command saved it since. *)
StartAgain ==
  /\ states' \in {states, stored}
  /\ asked' = IF states' = states THEN asked ELSE kept
  /\ UNCHANGED <<search, stored>>

(* The message was cut: deliver_publish delivers what the first segment    *)
(* holds.  For a length that is not one of base64 the decoder returns      *)
(* NULL, which autoTempDecode reads through: the device starts again.      *)
ReceiveCut(n) ==
  /\ pc = "idle" /\ wire # NULL
  /\ n < Len(wire.text)
  /\ LET text == SubSeq(wire.text, 1, n)
     IN  IF Decodes(text) THEN Handle(text) /\ asked' = asked ELSE StartAgain
  /\ wire' = NULL
  /\ UNCHANGED <<page, kept, evalOrder, done>>

(* The engine.                                                             *)
Engine ==
  /\ (\E t \in Times : StartSearch(t)) \/ Loop \/ EndSearch
  /\ UNCHANGED <<page, wire, device, done>>

Init ==
  /\ \E charts \in FirstCharts :
       /\ states = IF charts = NULL THEN <<>> ELSE getDataForESP(charts)
       /\ stored = states /\ asked = charts /\ kept = charts
  /\ Idle
  /\ dayData = <<>>
  /\ defaultData = OriginalDefault
  /\ wire = NULL
  /\ evalOrder \in Orders
  /\ done = [edits |-> 0, saves |-> 0, refreshes |-> 0]

Next ==
  \/ \E c \in 1 .. Len(dayData) :
       \/ \E slot \in BarsDrawn, temp \in BarTemps : changeBar(c, slot, temp)
       \/ \E day \in DaysToggled : toggleDay(c, day)
       \/ removeChart(c)
  \/ addChart
  \/ save
  \/ refresh
  \/ Receive
  \/ \E n \in Cuts : ReceiveCut(n)
  \/ Engine

Spec == Init /\ [][Next]_planVars

-----------------------------------------------------------------------------
(* getDataForESP would silently take the last of two charts of a day.      *)
OneChartPerDay ==
  \A c, d \in 1 .. Len(dayData) :
    c # d => dayData[c].enabledDays \cap dayData[d].enabledDays = {}

TypeOK ==
  /\ SearchTypeOK
  /\ stored \in Seq(Entry)
  /\ dayData \in Seq(ChartType)
  /\ OneChartPerDay
  /\ defaultData \in Seq(Entry) \ {<<>>}
  /\ wire # NULL => wire \in [text : Seq(0 .. Pad), charts : Seq(ChartType)]
  /\ {asked, kept} \subseteq Seq(ChartType) \cup {NULL}
  /\ evalOrder \in Orders

(* Whatever is sent or stored, firmware and page encode to the same text   *)
(* and decode to the same bytes, those that were encoded.                  *)
CodecsAgree ==
  /\ wire # NULL =>
       /\ base64_decode2(wire.text) = Bytes(getDataForESP(wire.charts))
       /\ base64_encode2(base64_decode2(wire.text)) = wire.text
  /\ pc = "idle" =>
       /\ autoTempEncode(states) = fromByteArray(Bytes(states))
       /\ toByteArray(autoTempEncode(states)) = Bytes(states)

(* What charts say for a minute of the week.  On a day without a chart the *)
(* temperature stays what it was when the last day with one ended.         *)
DayBefore(day, n) == (day - n) % 7

Planned(charts, minute) ==
  LET slot == minute \div SlotMinutes
      today == DayOfSlot(slot)
      Enabled(n) == DayBefore(today, n) \in EnabledDays(charts)
      ago == CHOOSE n \in 0 .. 6 : Enabled(n) /\ \A m \in 0 .. n - 1 : ~Enabled(m)
      bars == BarsOf(charts, DayBefore(today, ago))
  IN  IF ago = 0 THEN bars[SlotOfDay(slot)]
      ELSE bars[(DayMinutes \div SlotMinutes) - 1]

(* From the charts of the last message that came whole, through both       *)
(* base64s, the decoder and the search, the engine gets the temperature    *)
(* that those charts show for the present time: no message of the page is  *)
(* rejected, a cut one changes nothing, and merging equal bars does not    *)
(* lose a change over midnight or the end of the week.  Charts without a   *)
(* day end the schedule, until a restart finds the old one in flash.       *)
(* It is a firmware whose compiler reads the count's two bytes in order.   *)
PlanFollowed ==
  (pc = "done" /\ evalOrder = "left" /\ asked # NULL) =>
    IF EnabledDays(asked) = {} THEN found = 0
    ELSE /\ found \in 1 .. Len(states)
         /\ states[found].temp = Planned(asked, MinuteOfWeek(unixTime))

(* Read back by the page, a schedule shows on every day the bars that the  *)
(* engine follows, also on the days that no chart was enabled for.         *)
Refreshed == done.refreshes # done'.refreshes

SurvivesRefresh ==
  [][(Refreshed /\ evalOrder = "left" /\ states # <<>>) =>
       \A s \in AllSlots :
         BarsOf(dayData', DayOfSlot(s))[SlotOfDay(s)] = Planned(kept, s * SlotMinutes)
    ]_planVars

(* However it is compiled, and wherever a message is cut, the firmware     *)
(* never takes a part of a schedule, or what lies behind it, for one (the  *)
(* schedules being shorter than 256, whose count has a high byte of zero). *)
NeverInvents ==
  \A schedule \in {states, stored} \ {<<>>} :
    \E charts \in (FirstCharts \cup {kept}) \ {NULL} :
      schedule = getDataForESP(charts)

(* A device without a schedule shows the page's default week (the comment  *)
(* in dataFunctions.js, line 106): each time it is loaded or refreshed.    *)
DefaultShown ==
  [][(Refreshed /\ states = <<>>) =>
       dayData' = getStatesByDay(<<>>, OriginalDefault)]_planVars
=============================================================================
