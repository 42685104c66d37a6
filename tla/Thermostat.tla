----------------------------- MODULE Thermostat -----------------------------
(***************************************************************************)
(* The control loop of the thermostat and what it keeps in flash:          *)
(* user_main.c (the engine, run every second and on a manual temperature), *)
(* the command handlers of mqttMain.c, the settings of myFlashState.c in   *)
(* two flash sectors, and a restart at any point.                          *)
(*                                                                         *)
(* Every handler runs to completion, unless the power fails: a save is a   *)
(* sequence of erasures and writes, and a restart may come between any two *)
(* of them.  Temperatures are in hundredths of a degree, as in the code.   *)
(* Which entry of a schedule is the present one (a search that does not    *)
(* end is a Restart, by the watchdog), and what the screen draws and the   *)
(* device publishes besides the heater, is left out.                       *)
(***************************************************************************)
EXTENDS Integers, Sequences

CONSTANTS
  Temps,       (* what the sensor reads                                    *)
  Targets,     (* manual temperatures commanded over MQTT                  *)
  TempDelta,   (* tempDelta, half the band of the heater                   *)
  Schedules,   (* schedules commanded over MQTT: sequences of targets      *)
  SavedModes,  (* modes an earlier firmware may have left in flash         *)
  NULL,        (* no schedule in memory                                    *)
  Erased       (* a flash sector without its header                        *)

MANUAL == "MANUAL"
AUTOMATIC == "AUTOMATIC"
Neither == "neither"         (* any other value of the enumeration         *)
Modes == {MANUAL, AUTOMATIC, Neither}

(* A word of erased flash, and the temperature drawingInit sets.           *)
Blank == 65535
DefaultTemp == 1800

(* What the memory behind a schedule may hold.                             *)
Garbage == {0, Blank} \cup UNION {{s[i] : i \in 1 .. Len(s)} : s \in Schedules}

Lengths == 0 .. Blank
Statuses == [len : Lengths, mode : Modes, manual : 0 .. Blank]

(* autoTempDecode takes no schedule of more than 7 * 48 entries.           *)
ASSUME ConstantsAssumption ==
  /\ Temps \subseteq Int /\ 0 \in Temps
  /\ Targets \subseteq Int
  /\ TempDelta \in Nat
  /\ \A s \in Schedules : s \in Seq(Nat) /\ Len(s) <= 7 * 48
  /\ SavedModes \subseteq {MANUAL, AUTOMATIC}
  /\ Erased \notin Schedules /\ Erased \notin Statuses

VARIABLES
  temperatureMode,
  shownMode,        (* drawingState.temperatureMode                        *)
  manualTemp,       (* drawingState.manualTemp                             *)
  states, states_len,
  shownState,       (* drawingState.automaticTempCurrentState: none, or in *)
                    (* live or in freed memory                             *)
  temp,             (* temperature_currentTemperature                      *)
  heaterEnabled,    (* drawingState.heaterEnabled, and the relay           *)
  lastHeaterState,
  told,             (* the heater/status last handed to MQTT_Publish       *)
  status,           (* flash: SECTOR_STATUS                                *)
  sector,           (* flash: SECTOR_STATES                                *)
  torn              (* history: the power has failed within a save         *)

settings == <<temperatureMode, states, states_len>>
screen == <<shownMode, shownState>>
heater == <<heaterEnabled, lastHeaterState, told>>
flash == <<status, sector>>
vars == <<settings, screen, manualTemp, temp, heater, flash, torn>>

-----------------------------------------------------------------------------
(* The heater.                                                             *)

(* Slips the checks must notice stand before what they are slips of.  Here *)
(* a heater that goes on unreported.                                       *)
PublishOffOnly(isEnabled) ==
  /\ told' = IF lastHeaterState /\ ~isEnabled THEN FALSE ELSE told
  /\ lastHeaterState' = isEnabled

(* mqttPublishHeater publishes a change of what it was last told.          *)
mqttPublishHeater(isEnabled) ==
  /\ told' = IF isEnabled # lastHeaterState THEN isEnabled ELSE told
  /\ lastHeaterState' = isEnabled

(* set_heater compares unsigned 16-bit temperatures.                       *)
U16(t) == t % 65536
TooCold(target) == U16(temp) < U16(target) - TempDelta
(* A slip: the edge of the band is not yet too warm.                       *)
TooWarmLate(target) == U16(temp) > U16(target) + TempDelta
TooWarm(target) == U16(temp) >= U16(target) + TempDelta

set_heater(target) ==
  \/ /\ TooCold(target)
     /\ heaterEnabled' = TRUE
     /\ mqttPublishHeater(TRUE)
  \/ /\ ~TooCold(target) /\ TooWarm(target)
     /\ heaterEnabled' = FALSE
     /\ mqttPublishHeater(FALSE)
  \/ /\ ~TooCold(target) /\ ~TooWarm(target)
     /\ UNCHANGED heater

(* findCurrentState: one of the entries that states_len counts.  One that  *)
(* is not in the schedule is whatever the memory behind it holds.          *)
Found == states # NULL /\ states_len > 0

CurrentTargets ==
  {states[i] : i \in {j \in 1 .. Len(states) : j <= states_len}}
    \cup IF states_len > Len(states) THEN Garbage ELSE {}

(* Slips: the engine only waits for a schedule, or leaves the screen's     *)
(* pointer alone.                                                          *)
EngineWaits ==
  \/ /\ temperatureMode = MANUAL
     /\ set_heater(manualTemp)
     /\ UNCHANGED <<temperatureMode, screen>>
  \/ /\ temperatureMode = AUTOMATIC /\ Found
     /\ \E target \in CurrentTargets : set_heater(target)
     /\ shownState' = "live"
     /\ UNCHANGED <<temperatureMode, shownMode>>
  \/ /\ temperatureMode # MANUAL /\ ~(temperatureMode = AUTOMATIC /\ Found)
     /\ UNCHANGED <<temperatureMode, screen, heater>>

EngineShowsNothing ==
  \/ /\ temperatureMode = MANUAL
     /\ set_heater(manualTemp)
     /\ UNCHANGED <<temperatureMode, screen>>
  \/ /\ temperatureMode = AUTOMATIC /\ ~Found
     /\ temperatureMode' = MANUAL
     /\ shownMode' = MANUAL
     /\ UNCHANGED <<shownState, heater>>
  \/ /\ temperatureMode = AUTOMATIC /\ Found
     /\ \E target \in CurrentTargets : set_heater(target)
     /\ shownState' = IF shownState = "none" THEN "live" ELSE shownState
     /\ UNCHANGED <<temperatureMode, shownMode>>
  \/ /\ temperatureMode = Neither
     /\ UNCHANGED <<temperatureMode, screen, heater>>

temperatureEngine ==
  \/ /\ temperatureMode = MANUAL
     /\ set_heater(manualTemp)
     /\ UNCHANGED <<temperatureMode, screen>>
  \/ /\ temperatureMode = AUTOMATIC /\ ~Found
     /\ temperatureMode' = MANUAL
     /\ shownMode' = MANUAL
     /\ UNCHANGED <<shownState, heater>>
  \/ /\ temperatureMode = AUTOMATIC /\ Found
     /\ \E target \in CurrentTargets : set_heater(target)
     /\ shownState' = "live"
     /\ UNCHANGED <<temperatureMode, shownMode>>
  \/ /\ temperatureMode = Neither
     /\ UNCHANGED <<temperatureMode, screen, heater>>

-----------------------------------------------------------------------------
(* Flash.                                                                  *)

Status(len, mode, manual) == [len |-> len, mode |-> mode, manual |-> manual]

(* What SECTOR_STATUS holds in the course of a save of st, word by word:   *)
(* erased, without data, with its first word, complete.                    *)
StatusImages(st) == {Erased, Status(Blank, Neither, Blank),
                     Status(st.len, Neither, Blank), st}

(* The same for SECTOR_STATES: an entry is a word.                         *)
StatesImages(s) ==
  {Erased} \cup {[i \in 1 .. Len(s) |-> IF i <= k THEN s[i] ELSE Blank]
                   : k \in 0 .. Len(s)}

(* read_states.  The allocator may return NULL for an empty schedule.      *)
read_states(se) ==
  IF se = Erased THEN {NULL} ELSE {se} \cup {x \in {NULL} : se = << >>}

(* app_init after a reset with st and se in flash.  drawingInit comes last *)
(* and undoes what read_status did to the screen's manual temperature.     *)
app_init(st, se) ==
  /\ status' = st /\ sector' = se
  /\ temperatureMode' = IF st = Erased THEN MANUAL ELSE st.mode
  /\ states_len' = IF st = Erased THEN 0 ELSE st.len
  /\ states' \in read_states(se)
  /\ shownMode' = MANUAL /\ shownState' = "none"
  /\ manualTemp' = DefaultTemp
  /\ temp' = 0
  /\ heaterEnabled' = FALSE /\ lastHeaterState' = FALSE
  /\ UNCHANGED told

-----------------------------------------------------------------------------
(* ds_read_temp                                                            *)
ReadTemperature ==
  /\ temp' \in Temps
  /\ UNCHANGED <<settings, screen, manualTemp, heater, flash, torn>>

second_counter ==
  /\ temperatureEngine
  /\ UNCHANGED <<states, states_len, manualTemp, temp, flash, torn>>

(* handleManualTemp runs the engine and saves before it takes the new      *)
(* temperature.                                                            *)
handleManualTemp ==
  /\ temperatureEngine
  /\ status' = Status(states_len, temperatureMode', U16(manualTemp))
  /\ manualTemp' \in Targets
  /\ UNCHANGED <<states, states_len, temp, sector, torn>>

(* A slip: the mode saved is the commanded one, which the engine never     *)
(* takes.                                                                  *)
ModeSavedOnly ==
  /\ shownMode' \in Modes
  /\ status' = Status(states_len, shownMode', U16(manualTemp))
  /\ UNCHANGED <<settings, shownState, manualTemp, temp, heater, sector, torn>>

(* handleMode assigns a local variable named temperatureMode, and leaves   *)
(* it undefined on a payload with neither letter.                          *)
handleMode ==
  /\ shownMode' \in Modes
  /\ status' = Status(states_len, temperatureMode, U16(manualTemp))
  /\ UNCHANGED <<settings, shownState, manualTemp, temp, heater, sector, torn>>

(* autoTempDecode stores the length of a schedule as a size_t through a    *)
(* pointer to a uint16_t: where the build puts lastHeaterState behind      *)
(* states_len it clears it.                                                *)
StoreLength(n) ==
  /\ states_len' = n
  /\ lastHeaterState' \in {lastHeaterState, FALSE}
  /\ UNCHANGED <<heaterEnabled, told>>

handleAutoTemp ==
  \E s \in Schedules :
    /\ StoreLength(Len(s))
    /\ states' = s
    /\ shownState' = IF shownState = "none" THEN "none" ELSE "freed"
    /\ status' = Status(Len(s), temperatureMode, U16(manualTemp))
    /\ sector' = s
    /\ UNCHANGED <<temperatureMode, shownMode, manualTemp, temp, torn>>

(* An empty schedule, for which the allocator returns NULL, is a failure   *)
(* to the handler, after its length is stored.                             *)
handleAutoTempEmpty ==
  /\ << >> \in Schedules
  /\ StoreLength(0)
  /\ UNCHANGED <<temperatureMode, states, screen, manualTemp, temp, flash, torn>>

-----------------------------------------------------------------------------
(* A restart between two handlers: power, an upgrade, the watchdog.        *)
Restart == app_init(status, sector) /\ UNCHANGED torn

(* A power failure within the save of handleMode, handleManualTemp (after  *)
(* its engine, which may have gone back to MANUAL) or handleAutoTemp.      *)
FallBack == temperatureMode = AUTOMATIC /\ ~Found

PowerFails ==
  /\ torn' = TRUE
  /\ \/ \E mode \in {temperatureMode} \cup IF FallBack THEN {MANUAL} ELSE {} :
          \E image \in StatusImages(Status(states_len, mode, U16(manualTemp))) :
            app_init(image, sector)
     \/ \E s \in Schedules :
          LET st == Status(Len(s), temperatureMode, U16(manualTemp))
          IN  \/ \E image \in StatusImages(st) : app_init(image, sector)
              \/ \E image \in StatesImages(s) : app_init(st, image)

(* The first start of this firmware, on new flash or on an earlier one's.  *)
Init ==
  /\ \/ status = Erased /\ sector = Erased
     \/ \E mode \in SavedModes, s \in Schedules :
          status = Status(Len(s), mode, DefaultTemp) /\ sector = s
  /\ temperatureMode = IF status = Erased THEN MANUAL ELSE status.mode
  /\ states_len = IF status = Erased THEN 0 ELSE status.len
  /\ states \in read_states(sector)
  /\ shownMode = MANUAL /\ shownState = "none"
  /\ manualTemp = DefaultTemp
  /\ temp = 0
  /\ heaterEnabled = FALSE /\ lastHeaterState = FALSE
  /\ told = FALSE
  /\ torn = FALSE

Next == \/ ReadTemperature
        \/ second_counter
        \/ handleManualTemp \/ handleMode
        \/ handleAutoTemp \/ handleAutoTempEmpty
        \/ Restart \/ PowerFails

Spec == Init /\ [][Next]_vars

(* The one-second timer is never disarmed.                                 *)
FairSpec == Spec /\ WF_vars(second_counter)

-----------------------------------------------------------------------------
(* Every variable keeps its range; a restart on a torn sector brings the   *)
(* words of erased flash into it.                                          *)
TypeOK ==
  /\ temperatureMode \in Modes /\ shownMode \in Modes
  /\ manualTemp \in Targets \cup {DefaultTemp}
  /\ states = NULL \/ states \in Seq(Nat)
  /\ states_len \in Lengths
  /\ shownState \in {"none", "live", "freed"}
  /\ temp \in Temps
  /\ {heaterEnabled, lastHeaterState, told, torn} \subseteq BOOLEAN
  /\ status = Erased \/ status \in Statuses
  /\ sector = Erased \/ sector \in Seq(Nat)

(* While the heater heats, the last status published says so, whatever     *)
(* restarts and schedules arrive in between (mqttMain.c lines 257-266,     *)
(* user_main.c 34-45).  The converse does not hold: see the README.        *)
HeatIsReported == heaterEnabled => told

(* What HeatIsReported rests on.                                           *)
HeatInv == HeatIsReported /\ (lastHeaterState => heaterEnabled)

(* Until the power fails within a save, a device that runs on its schedule *)
(* finds the mode and the schedule again after a restart (myFlashState.c,  *)
(* and the engine's own change of mode in user_main.c lines 77-82, which   *)
(* is not saved).                                                          *)
SettingsSurvive ==
  ~torn =>
    /\ temperatureMode = AUTOMATIC => status # Erased /\ status.mode = AUTOMATIC
    /\ Found => sector = states /\ status # Erased /\ status.len = states_len

(* The engine reads entries that are there: the comment in myFlashState.c  *)
(* line 49 says that the length of the schedule is in the status sector.   *)
ScheduleInBounds ==
  temperatureMode = AUTOMATIC /\ Found => states_len <= Len(states)

(* In manual mode a room that stays too cold is heated and one that stays  *)
(* too warm is not, though handleManualTemp runs the engine on the old     *)
(* target (mqttMain.c lines 130-138).                                      *)
Manual == temperatureMode = MANUAL /\ temp >= 0 /\ manualTemp >= 0
Cold == Manual /\ temp < manualTemp - TempDelta
Hot == Manual /\ temp >= manualTemp + TempDelta
HeaterFollows == /\ Cold ~> (heaterEnabled \/ ~Cold)
                 /\ Hot ~> (~heaterEnabled \/ ~Hot)

(* Automatic mode without a schedule does not last (user_main.c line 76:   *)
(* "no state found, switch back to manual").                               *)
FallsBack == FallBack ~> ~FallBack

(* The screen follows its pointer when the mode it shows is automatic      *)
(* (drawing.c lines 214-220).  While the engine is automatic too, one into *)
(* a schedule that a new one replaced, and freed, is soon followed no more *)
(* (mqttMain.c line 144, user_main.c 77-84).  Once the engine has gone     *)
(* back to MANUAL nothing promises that: see the README.                   *)
Dangling == shownMode = AUTOMATIC /\ shownState = "freed"
DanglingHeals == (Dangling /\ temperatureMode = AUTOMATIC) ~> ~Dangling

=============================================================================
