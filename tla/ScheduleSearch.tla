--------------------------- MODULE ScheduleSearch ---------------------------
(***************************************************************************)
(* findCurrentState of user_main.c: which entry of the schedule is the     *)
(* present one.  It computes the minute of the week from the clock of      *)
(* ntp.c and looks for the first entry after it.  The loop's index is a    *)
(* uint8_t, its bound states_len a uint16_t.  The loop is a step per pass, *)
(* so that its end can be stated; nothing else of the program runs         *)
(* meanwhile.                                                              *)
(***************************************************************************)
EXTENDS Integers, Sequences

CONSTANTS
  Schedules,   (* the schedules autoTempDecode may deliver                 *)
  Times,       (* what ntp_get_current_time may return, in seconds         *)
  IndexRange   (* the values of the loop's index                           *)

Entry == [time : Nat, temp : Int]

ASSUME SearchAssumption ==
  /\ Schedules \subseteq Seq(Entry)
  /\ Times \subseteq Nat
  /\ IndexRange \in Nat \ {0}

VARIABLES
  states,      (* the schedule; empty also stands for the NULL pointer     *)
  unixTime,    (* the time the search is made for                          *)
  i,           (* the loop's index                                         *)
  pc,          (* "idle", "loop", or "done": the engine uses the result    *)
  found        (* the entry found, from 1, or 0 for NULL                   *)

search == <<unixTime, i, pc, found>>
searchVars == <<states, search>>

-----------------------------------------------------------------------------
(* ntp_get_day_of_week.                                                    *)
DayOfWeek(t) == (((t \div 86400) % 7) + 3) % 7

(* currentTime of findCurrentState.                                        *)
CurrentTime(t) ==
  LET weekday == DayOfWeek(t)
      hour == (t % 86400) \div 3600
      min == (t % 3600) \div 60
  IN  weekday * 24 * 60 + hour * 60 + min

-----------------------------------------------------------------------------
Idle ==
  /\ unixTime = 0
  /\ i = 0
  /\ pc = "idle"
  /\ found = 0

SearchInit == states = <<>> /\ Idle

(* handleAutoTemp replaces the schedule.                                   *)
NewSchedule(s) ==
  /\ pc = "idle"
  /\ states' = s
  /\ UNCHANGED search

(* The engine asks; there may be no schedule.                              *)
StartSearch(t) ==
  /\ pc = "idle"
  /\ unixTime' = t
  /\ i' = 0
  /\ found' = 0
  /\ pc' = IF states = <<>> THEN "done" ELSE "loop"
  /\ UNCHANGED states

Return(k) ==
  /\ found' = k
  /\ pc' = "done"
  /\ UNCHANGED <<states, unixTime, i>>

(* A slip: the first entry's predecessor is taken for the first entry.     *)
EarlierOrFirst ==
  /\ pc = "loop" /\ i < Len(states)
  /\ states[i + 1].time > CurrentTime(unixTime)
  /\ Return(IF i = 0 THEN 1 ELSE i)

(* The entry before the first later one; the last one of the week if the   *)
(* first is later already.                                                 *)
Earlier ==
  /\ pc = "loop" /\ i < Len(states)
  /\ states[i + 1].time > CurrentTime(unixTime)
  /\ Return(IF i = 0 THEN Len(states) ELSE i)

NextEntry ==
  /\ pc = "loop" /\ i < Len(states)
  /\ states[i + 1].time <= CurrentTime(unixTime)
  /\ i' = (i + 1) % IndexRange
  /\ UNCHANGED <<states, unixTime, pc, found>>

LastEntry ==
  /\ pc = "loop" /\ i >= Len(states)
  /\ Return(Len(states))

(* The engine has used the result; the search's locals are gone.           *)
EndSearch ==
  /\ pc = "done"
  /\ pc' = "idle"
  /\ unixTime' = 0 /\ i' = 0 /\ found' = 0
  /\ UNCHANGED states

Loop == Earlier \/ NextEntry \/ LastEntry

SearchNext ==
  \/ \E s \in Schedules : NewSchedule(s)
  \/ \E t \in Times : StartSearch(t)
  \/ Loop
  \/ EndSearch

SearchSpec == SearchInit /\ [][SearchNext]_searchVars

(* A loop that is entered goes on: nothing pre-empts it.                   *)
FairSearchSpec == SearchSpec /\ WF_searchVars(Loop)

-----------------------------------------------------------------------------
SearchTypeOK ==
  /\ states \in Seq(Entry)
  /\ unixTime \in Nat
  /\ i \in 0 .. IndexRange - 1
  /\ pc \in {"idle", "loop", "done"}
  /\ found \in 0 .. Len(states)
  /\ pc = "idle" => found = 0

(* The minute of a week that starts on Monday (as the web page has it);    *)
(* the epoch was a Thursday.                                               *)
MinuteOfWeek(t) == ((t \div 60) + 3 * 1440) % 10080

Sorted(s) == \A j, k \in 1 .. Len(s) : j < k => s[j].time < s[k].time

(* The k-th entry is in force: it is the last one whose time has come, or, *)
(* before the first one of the week, the last one of the week before.      *)
InForce(s, k, minute) ==
  /\ k \in 1 .. Len(s)
  /\ \A j \in k + 1 .. Len(s) : s[j].time > minute
  /\ \/ s[k].time <= minute
     \/ k = Len(s) /\ \A j \in 1 .. Len(s) : s[j].time > minute

(* The search of findCurrentState ends with the entry that is in force     *)
(* (none only if there is none), across the ends of day and week.          *)
FindsCurrent ==
  pc = "done" /\ Sorted(states) =>
    IF states = <<>> THEN found = 0
    ELSE InForce(states, found, MinuteOfWeek(unixTime))

(* The loop of findCurrentState ends for every schedule that               *)
(* autoTempDecode does not refuse as "too many states" (auto_temp.c, line  *)
(* 34), so that the engine sets the heater and the watchdog stays quiet.   *)
SearchEnds == pc = "loop" ~> pc = "done"

=============================================================================
