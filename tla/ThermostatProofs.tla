-------------------------- MODULE ThermostatProofs --------------------------
(***************************************************************************)
(* The thermostat's invariants for every set of temperatures, targets and  *)
(* schedules, and every width of the heater's band.                        *)
(***************************************************************************)
EXTENDS Thermostat, SequenceTheorems, TLAPS

(* A temperature becomes an unsigned word.                                 *)
LEMMA RemainderRange ==
  ASSUME NEW t \in Int, NEW n \in Nat \ {0} PROVE t % n \in 0 .. n - 1
BY SMTT(60)

LEMMA U16Range == ASSUME NEW t \in Int PROVE U16(t) \in 0 .. Blank
<1> DEFINE n == 65536
<1>1. n \in Nat \ {0} /\ n - 1 = Blank
  BY SMTT(60) DEF Blank
<1>2. U16(t) = t % n
  BY DEF U16
<1> HIDE DEF n
<1> QED
  BY <1>1, <1>2, RemainderRange

(* What is saved is a status, and never an erased sector.                  *)
LEMMA StatusShape ==
  ASSUME NEW len \in Lengths, NEW mode \in Modes, NEW manual \in 0 .. Blank
  PROVE  /\ Status(len, mode, manual) \in Statuses
         /\ Status(len, mode, manual) # Erased
         /\ Status(len, mode, manual).len = len
         /\ Status(len, mode, manual).mode = mode
BY ConstantsAssumption DEF Status, Statuses

LEMMA ShortIsLength ==
  ASSUME NEW n \in Nat, n <= 336
  PROVE  n \in Lengths
<1>1. Blank \in Nat /\ 336 <= Blank
  BY DEF Blank
<1>2. n <= Blank
  BY <1>1
<1> QED
  BY <1>1, <1>2 DEF Lengths

LEMMA ScheduleLength ==
  ASSUME NEW s \in Schedules
  PROVE  s \in Seq(Nat) /\ Len(s) \in Lengths /\ Len(s) \in Nat
<1>1. s \in Seq(Nat) /\ Len(s) <= 7 * 48
  BY ConstantsAssumption
<1>2. Len(s) \in Nat /\ 7 * 48 = 336
  BY <1>1
<1>3. Len(s) <= 336
  BY <1>1, <1>2
<1> QED
  BY <1>1, <1>2, <1>3, ShortIsLength

(* What a restart takes from a well-formed sector is well-formed.          *)
LEMMA StatusFields ==
  ASSUME NEW st \in Statuses
  PROVE  st.mode \in Modes /\ st.len \in Lengths
BY DEF Statuses

LEMMA ReadStates ==
  ASSUME NEW se, NEW loaded \in read_states(se)
  PROVE  loaded = NULL \/ (loaded = se /\ se # Erased)
BY DEF read_states

LEMMA BlankIsNat == Blank \in Nat
BY DEF Blank

LEMMA BlankIsLength == 0 \in Lengths /\ Blank \in Lengths
BY DEF Lengths, Blank

(* set_heater moves the heater and its report together.                    *)
LEMMA SetHeaterKeeps ==
  ASSUME NEW target, set_heater(target), HeatInv,
         heaterEnabled \in BOOLEAN, lastHeaterState \in BOOLEAN, told \in BOOLEAN
  PROVE  /\ HeatInv'
         /\ heaterEnabled' \in BOOLEAN /\ lastHeaterState' \in BOOLEAN
         /\ told' \in BOOLEAN
<1>1. CASE heaterEnabled' = TRUE /\ mqttPublishHeater(TRUE)
  BY <1>1 DEF HeatInv, HeatIsReported, mqttPublishHeater
<1>2. CASE heaterEnabled' = FALSE /\ mqttPublishHeater(FALSE)
  BY <1>2 DEF HeatInv, HeatIsReported, mqttPublishHeater
<1>3. CASE UNCHANGED heater
  BY <1>3 DEF HeatInv, HeatIsReported, heater
<1> QED
  BY <1>1, <1>2, <1>3 DEF set_heater

(* Every step keeps what HeatIsReported rests on: a restart switches the   *)
(* heater off, and a schedule clears only what was last reported.          *)
Bools == heaterEnabled \in BOOLEAN /\ lastHeaterState \in BOOLEAN /\ told \in BOOLEAN

LEMMA EngineKeepsHeat ==
  ASSUME temperatureEngine, HeatInv, Bools
  PROVE  HeatInv' /\ Bools'
<1>1. CASE \E target : set_heater(target)
  BY <1>1, SetHeaterKeeps DEF Bools
<1>2. CASE UNCHANGED heater
  BY <1>2 DEF heater, HeatInv, HeatIsReported, Bools
<1> QED
  BY <1>1, <1>2 DEF temperatureEngine

LEMMA RestartKeepsHeat ==
  ASSUME NEW st, NEW se, app_init(st, se), Bools
  PROVE  HeatInv' /\ Bools'
BY DEF app_init, HeatInv, HeatIsReported, Bools

LEMMA PowerFailsRestarts ==
  ASSUME PowerFails
  PROVE  \E st, se : app_init(st, se)
BY DEF PowerFails

LEMMA StoreLengthKeepsHeat ==
  ASSUME NEW n, StoreLength(n), HeatInv, Bools
  PROVE  HeatInv' /\ Bools'
<1>1. CASE UNCHANGED heater
  BY <1>1 DEF heater, HeatInv, HeatIsReported, Bools
<1>2. CASE lastHeaterState' = FALSE /\ UNCHANGED <<heaterEnabled, told>>
  BY <1>2 DEF HeatInv, HeatIsReported, Bools
<1> QED
  BY <1>1, <1>2 DEF StoreLength, heater

(* While the heater heats, the last status published says so.              *)
THEOREM HeatAlwaysReported == Spec => []HeatIsReported
<1>1. Init => HeatInv /\ Bools
  BY DEF Init, HeatInv, HeatIsReported, Bools
<1>2. HeatInv /\ Bools /\ [Next]_vars => HeatInv' /\ Bools'
  <2> SUFFICES ASSUME HeatInv, Bools, [Next]_vars PROVE HeatInv' /\ Bools'
    OBVIOUS
  <2>1. CASE UNCHANGED heater
    BY <2>1 DEF heater, HeatInv, HeatIsReported, Bools
  <2>2. CASE second_counter \/ handleManualTemp
    BY <2>2, EngineKeepsHeat DEF second_counter, handleManualTemp
  <2>3. CASE handleAutoTemp \/ handleAutoTempEmpty
    BY <2>3, StoreLengthKeepsHeat DEF handleAutoTemp, handleAutoTempEmpty
  <2>4. CASE Restart
    BY <2>4, RestartKeepsHeat DEF Restart
  <2>5. CASE PowerFails
    BY <2>5, PowerFailsRestarts, RestartKeepsHeat
  <2>6. ReadTemperature \/ handleMode \/ UNCHANGED vars => UNCHANGED heater
    BY DEF ReadTemperature, handleMode, vars
  <2> QED
    BY <2>1, <2>2, <2>3, <2>4, <2>5, <2>6 DEF Next
<1>3. HeatInv => HeatIsReported
  BY DEF HeatInv
<1> QED
  BY <1>1, <1>2, <1>3, PTL DEF Spec

(* Types.                                                                  *)

(* What a save leaves in SECTOR_STATUS is a status or erased.              *)
LEMMA StatusImagesShape ==
  ASSUME NEW len \in Lengths, NEW mode \in Modes, NEW manual \in 0 .. Blank,
         NEW image \in StatusImages(Status(len, mode, manual))
  PROVE  image = Erased \/ image \in Statuses
<1> DEFINE st == Status(len, mode, manual)
<1>1. Blank \in Lengths /\ Blank \in 0 .. Blank /\ Neither \in Modes
  <2>1. Blank \in Nat /\ Blank \in 0 .. Blank
    BY BlankIsNat
  <2> QED
    BY <2>1, Zenon DEF Lengths, Modes
<1>2. st \in Statuses /\ st.len = len
  BY StatusShape
<1>3. Status(Blank, Neither, Blank) \in Statuses
  BY <1>1, StatusShape
<1>4. Status(len, Neither, Blank) \in Statuses
  BY <1>1, StatusShape
<1>5. image \in {Erased, Status(Blank, Neither, Blank), Status(len, Neither, Blank), st}
  BY <1>2 DEF StatusImages
<1> QED
  BY <1>2, <1>3, <1>4, <1>5

(* What it leaves in SECTOR_STATES is a sequence of words or erased.       *)
LEMMA StatesImagesShape ==
  ASSUME NEW s \in Schedules, NEW image \in StatesImages(s)
  PROVE  image = Erased \/ image \in Seq(Nat)
<1>1. s \in Seq(Nat) /\ Len(s) \in Nat
  BY ScheduleLength
<1>2. SUFFICES ASSUME NEW k \in 0 .. Len(s),
                      image = [i \in 1 .. Len(s) |-> IF i <= k THEN s[i] ELSE Blank]
               PROVE  image \in Seq(Nat)
  BY DEF StatesImages
<1>3. \A i \in 1 .. Len(s) : s[i] \in Nat
  BY <1>1
<1>4. image \in [1 .. Len(s) -> Nat]
  BY <1>2, <1>3 DEF Blank
<1> QED
  BY <1>1, <1>4, SeqDef, SMTT(60)

(* A restart on well-formed sectors gives a well-formed state.             *)
LEMMA RestartTypes ==
  ASSUME NEW st, NEW se, app_init(st, se),
         st = Erased \/ st \in Statuses, se = Erased \/ se \in Seq(Nat),
         told \in BOOLEAN, torn' \in BOOLEAN
  PROVE  TypeOK'
<1> USE ConstantsAssumption DEF app_init
<1>1. temperatureMode' \in Modes /\ states_len' \in Lengths
  <2>1. CASE st = Erased
    BY <2>1, BlankIsLength DEF Modes
  <2>2. CASE st # Erased
    BY <2>2, StatusFields
  <2> QED
    BY <2>1, <2>2
<1>2. states' = NULL \/ states' \in Seq(Nat)
  BY ReadStates
<1>3. heaterEnabled' \in BOOLEAN /\ lastHeaterState' \in BOOLEAN /\ told' \in BOOLEAN
  OBVIOUS
<1>4. shownMode' \in Modes /\ shownState' \in {"none", "live", "freed"}
  BY DEF Modes
<1>5. manualTemp' \in Targets \cup {DefaultTemp} /\ temp' \in Temps
  OBVIOUS
<1>6. (status' = Erased \/ status' \in Statuses) /\ (sector' = Erased \/ sector' \in Seq(Nat))
  OBVIOUS
<1> QED
  BY <1>1, <1>2, <1>3, <1>4, <1>5, <1>6 DEF TypeOK

(* The engine keeps the types of what it touches.                          *)
LEMMA EngineTypes ==
  ASSUME temperatureEngine, TypeOK
  PROVE  /\ temperatureMode' \in Modes /\ shownMode' \in Modes
         /\ shownState' \in {"none", "live", "freed"}
         /\ heaterEnabled' \in BOOLEAN /\ lastHeaterState' \in BOOLEAN
         /\ told' \in BOOLEAN
<1>0. /\ temperatureMode \in Modes /\ shownMode \in Modes
      /\ shownState \in {"none", "live", "freed"}
      /\ heaterEnabled \in BOOLEAN /\ lastHeaterState \in BOOLEAN
      /\ told \in BOOLEAN
  BY DEF TypeOK
<1>1. /\ temperatureMode' \in Modes /\ shownMode' \in Modes
      /\ shownState' \in {"none", "live", "freed"}
  BY <1>0 DEF temperatureEngine, screen, Modes
<1>2. (\E target : set_heater(target)) \/ UNCHANGED heater
  BY DEF temperatureEngine
<1>3. ASSUME NEW target, set_heater(target)
      PROVE  heaterEnabled' \in BOOLEAN /\ lastHeaterState' \in BOOLEAN /\ told' \in BOOLEAN
  <2>1. CASE heaterEnabled' = TRUE /\ mqttPublishHeater(TRUE)
    BY <1>0, <2>1 DEF mqttPublishHeater
  <2>2. CASE heaterEnabled' = FALSE /\ mqttPublishHeater(FALSE)
    BY <1>0, <2>2 DEF mqttPublishHeater
  <2>3. CASE UNCHANGED heater
    BY <1>0, <2>3 DEF heater
  <2> QED
    BY <1>3, <2>1, <2>2, <2>3 DEF set_heater
<1>4. UNCHANGED heater =>
        heaterEnabled' \in BOOLEAN /\ lastHeaterState' \in BOOLEAN /\ told' \in BOOLEAN
  BY <1>0 DEF heater
<1> QED
  BY <1>1, <1>2, <1>3, <1>4

(* The initial state is a first start on sectors a restart could find.     *)
LEMMA InitTypes == Init => TypeOK
<1> SUFFICES ASSUME Init PROVE TypeOK
  OBVIOUS
<1> USE ConstantsAssumption
<1>1. (status = Erased \/ status \in Statuses) /\ (sector = Erased \/ sector \in Seq(Nat))
  <2>1. CASE status = Erased /\ sector = Erased
    BY <2>1
  <2>2. ASSUME NEW mode \in SavedModes, NEW s \in Schedules,
               status = Status(Len(s), mode, DefaultTemp), sector = s
        PROVE  status \in Statuses /\ sector \in Seq(Nat)
    <3>1. mode \in Modes /\ DefaultTemp \in 0 .. Blank
      BY DEF Modes, MANUAL, AUTOMATIC, DefaultTemp, Blank
    <3>2. s \in Seq(Nat) /\ Len(s) \in Lengths
      BY ScheduleLength
    <3> QED
      BY <2>2, <3>1, <3>2, StatusShape
  <2> QED
    BY <2>1, <2>2 DEF Init
<1>2. temperatureMode \in Modes /\ states_len \in Lengths
  <2>1. CASE status = Erased
    BY <2>1, BlankIsLength DEF Init, Modes
  <2>2. CASE status # Erased
    BY <1>1, <2>2, StatusFields DEF Init
  <2> QED
    BY <2>1, <2>2
<1>3. states = NULL \/ states \in Seq(Nat)
  BY <1>1, ReadStates DEF Init
<1>4. /\ heaterEnabled \in BOOLEAN /\ lastHeaterState \in BOOLEAN
      /\ told \in BOOLEAN /\ torn \in BOOLEAN
  BY DEF Init
<1>5. shownMode \in Modes /\ shownState \in {"none", "live", "freed"}
  BY DEF Init, Modes
<1>6. manualTemp \in Targets \cup {DefaultTemp} /\ temp \in Temps
  BY DEF Init
<1> QED
  BY <1>1, <1>2, <1>3, <1>4, <1>5, <1>6 DEF TypeOK

(* A manual temperature is saved as an unsigned word.                      *)
LEMMA ManualRange == ASSUME TypeOK PROVE U16(manualTemp) \in 0 .. Blank
BY U16Range, ConstantsAssumption DEF TypeOK, DefaultTemp

LEMMA PowerFailsTypes ==
  ASSUME PowerFails, TypeOK
  PROVE  TypeOK'
<1>0. /\ U16(manualTemp) \in 0 .. Blank
      /\ states_len \in Lengths /\ temperatureMode \in Modes /\ MANUAL \in Modes
      /\ told \in BOOLEAN /\ torn' \in BOOLEAN
      /\ sector = Erased \/ sector \in Seq(Nat)
  BY ManualRange DEF PowerFails, TypeOK, Modes
<1>1. ASSUME NEW mode \in {temperatureMode, MANUAL},
             NEW image \in StatusImages(Status(states_len, mode, U16(manualTemp))),
             app_init(image, sector)
      PROVE  TypeOK'
  <2>1. image = Erased \/ image \in Statuses
    BY <1>0, StatusImagesShape
  <2> QED
    BY <1>0, <1>1, <2>1, RestartTypes
<1>2. ASSUME NEW s \in Schedules,
             NEW image \in StatusImages(Status(Len(s), temperatureMode, U16(manualTemp))),
             app_init(image, sector)
      PROVE  TypeOK'
  <2>1. image = Erased \/ image \in Statuses
    BY <1>0, ScheduleLength, StatusImagesShape
  <2> QED
    BY <1>0, <1>2, <2>1, RestartTypes
<1>3. ASSUME NEW s \in Schedules, NEW image \in StatesImages(s),
             app_init(Status(Len(s), temperatureMode, U16(manualTemp)), image)
      PROVE  TypeOK'
  <2>1. Status(Len(s), temperatureMode, U16(manualTemp)) \in Statuses
    BY <1>0, ScheduleLength, StatusShape
  <2>2. image = Erased \/ image \in Seq(Nat)
    BY StatesImagesShape
  <2> QED
    BY <1>0, <1>3, <2>1, <2>2, RestartTypes
<1> QED
  BY <1>1, <1>2, <1>3 DEF PowerFails

(* Every variable keeps its range, torn saves included.                    *)
LEMMA NextTypes == ASSUME TypeOK, [Next]_vars PROVE TypeOK'
<1>0. /\ temperatureMode \in Modes /\ states_len \in Lengths
      /\ U16(manualTemp) \in 0 .. Blank
      /\ told \in BOOLEAN /\ heaterEnabled \in BOOLEAN /\ lastHeaterState \in BOOLEAN
  BY ManualRange DEF TypeOK
<1>1. CASE ReadTemperature
  BY <1>1 DEF ReadTemperature, TypeOK, settings, screen, heater, flash
<1>2. CASE second_counter
  <2>1. /\ temperatureMode' \in Modes /\ shownMode' \in Modes
        /\ shownState' \in {"none", "live", "freed"}
        /\ heaterEnabled' \in BOOLEAN /\ lastHeaterState' \in BOOLEAN
        /\ told' \in BOOLEAN
    BY <1>2, EngineTypes DEF second_counter
  <2> QED
    BY <1>2, <2>1 DEF second_counter, TypeOK, flash
<1>3. CASE handleManualTemp
  <2>1. /\ temperatureMode' \in Modes /\ shownMode' \in Modes
        /\ shownState' \in {"none", "live", "freed"}
        /\ heaterEnabled' \in BOOLEAN /\ lastHeaterState' \in BOOLEAN
        /\ told' \in BOOLEAN
    BY <1>3, EngineTypes DEF handleManualTemp
  <2>2. status' \in Statuses
    BY <1>0, <1>3, <2>1, StatusShape DEF handleManualTemp
  <2> QED
    BY <1>3, <2>1, <2>2 DEF handleManualTemp, TypeOK
<1>4. CASE handleMode
  <2>1. status' \in Statuses
    BY <1>0, <1>4, StatusShape DEF handleMode
  <2> QED
    BY <1>4, <2>1 DEF handleMode, TypeOK, settings, heater
<1>5. CASE handleAutoTemp
  <2>1. PICK s \in Schedules :
          /\ StoreLength(Len(s)) /\ states' = s /\ sector' = s
          /\ shownState' = IF shownState = "none" THEN "none" ELSE "freed"
          /\ status' = Status(Len(s), temperatureMode, U16(manualTemp))
          /\ UNCHANGED <<temperatureMode, shownMode, manualTemp, temp, torn>>
    BY <1>5 DEF handleAutoTemp
  <2>2. s \in Seq(Nat) /\ Len(s) \in Lengths
    BY ScheduleLength
  <2>3. status' \in Statuses
    BY <1>0, <2>1, <2>2, StatusShape
  <2>4. heaterEnabled' \in BOOLEAN /\ lastHeaterState' \in BOOLEAN /\ told' \in BOOLEAN
    BY <1>0, <2>1 DEF StoreLength
  <2>5. states_len' \in Lengths
    BY <2>1, <2>2 DEF StoreLength
  <2> QED
    BY <2>1, <2>2, <2>3, <2>4, <2>5 DEF TypeOK
<1>6. CASE handleAutoTempEmpty
  <2>1. heaterEnabled' \in BOOLEAN /\ lastHeaterState' \in BOOLEAN /\ told' \in BOOLEAN
    BY <1>0, <1>6 DEF handleAutoTempEmpty, StoreLength
  <2>2. states_len' \in Lengths
    BY <1>6, BlankIsLength DEF handleAutoTempEmpty, StoreLength
  <2> QED
    BY <1>6, <2>1, <2>2 DEF handleAutoTempEmpty, TypeOK, screen, flash
<1>7. CASE Restart
  BY <1>0, <1>7, RestartTypes DEF Restart, TypeOK
<1>8. CASE PowerFails
  BY <1>8, PowerFailsTypes
<1>9. CASE UNCHANGED vars
  BY <1>9 DEF vars, TypeOK, settings, screen, heater, flash
<1> QED
  BY <1>1, <1>2, <1>3, <1>4, <1>5, <1>6, <1>7, <1>8, <1>9 DEF Next

THEOREM ThermostatTypes == Spec => []TypeOK
BY InitTypes, NextTypes, PTL DEF Spec

(* Until the power fails within a save, mode and schedule survive a        *)
(* restart: what the engine uses is what the two sectors hold.             *)
LEMMA RestartSurvives ==
  ASSUME app_init(status, sector)
  PROVE  SettingsSurvive'
<1> USE DEF app_init
<1>1. temperatureMode' = AUTOMATIC => status' # Erased /\ status'.mode = AUTOMATIC
  BY DEF MANUAL, AUTOMATIC
<1>2. Found' => states' = sector'
  BY ReadStates DEF Found
<1>3. Found' => status' # Erased /\ status'.len = states_len'
  BY DEF Found
<1> QED
  BY <1>1, <1>2, <1>3 DEF SettingsSurvive

LEMMA InitSurvives == Init => SettingsSurvive
<1> SUFFICES ASSUME Init PROVE SettingsSurvive
  OBVIOUS
<1>1. temperatureMode = AUTOMATIC => status # Erased /\ status.mode = AUTOMATIC
  BY DEF Init, MANUAL, AUTOMATIC
<1>2. Found => states = sector
  BY ReadStates DEF Init, Found
<1>3. Found => status # Erased /\ status.len = states_len
  BY DEF Init, Found
<1> QED
  BY <1>1, <1>2, <1>3 DEF SettingsSurvive

LEMMA NextSurvives ==
  ASSUME TypeOK, SettingsSurvive, [Next]_vars
  PROVE  SettingsSurvive'
<1>0. /\ temperatureMode \in Modes /\ temperatureMode' \in Modes
      /\ states_len \in Lengths /\ U16(manualTemp) \in 0 .. Blank
  BY NextTypes, ManualRange DEF TypeOK
<1>1. CASE UNCHANGED <<settings, flash, torn>>
  BY <1>1 DEF settings, flash, SettingsSurvive, Found
<1>2. temperatureEngine =>
        (temperatureMode' = AUTOMATIC => temperatureMode = AUTOMATIC)
  BY DEF temperatureEngine, MANUAL, AUTOMATIC
<1>3. CASE second_counter
  BY <1>2, <1>3 DEF second_counter, flash, SettingsSurvive, Found
<1>4. CASE handleManualTemp \/ handleMode
  <2>1. /\ status' = Status(states_len, temperatureMode', U16(manualTemp))
        /\ UNCHANGED <<states, states_len, sector, torn>>
    BY <1>4 DEF handleManualTemp, handleMode, settings
  <2>2. status' # Erased /\ status'.len = states_len /\ status'.mode = temperatureMode'
    BY <1>0, <2>1, StatusShape
  <2> QED
    BY <2>1, <2>2 DEF SettingsSurvive, Found
<1>5. CASE handleAutoTemp
  <2>1. PICK s \in Schedules :
          /\ states_len' = Len(s) /\ states' = s /\ sector' = s
          /\ status' = Status(Len(s), temperatureMode, U16(manualTemp))
          /\ temperatureMode' = temperatureMode
    BY <1>5 DEF handleAutoTemp, StoreLength
  <2>2. status' # Erased /\ status'.len = Len(s) /\ status'.mode = temperatureMode
    BY <1>0, <2>1, StatusShape, ScheduleLength
  <2> QED
    BY <2>1, <2>2 DEF SettingsSurvive
<1>6. CASE handleAutoTempEmpty
  BY <1>6 DEF handleAutoTempEmpty, StoreLength, flash, SettingsSurvive, Found
<1>7. CASE Restart
  BY <1>7, RestartSurvives DEF Restart
<1>8. ReadTemperature \/ UNCHANGED vars => UNCHANGED <<settings, flash, torn>>
  BY DEF ReadTemperature, vars
<1>9. CASE PowerFails
  BY <1>9 DEF PowerFails, SettingsSurvive
<1> QED
  BY <1>1, <1>3, <1>4, <1>5, <1>6, <1>7, <1>8, <1>9 DEF Next

THEOREM SettingsAlwaysSurvive == Spec => []SettingsSurvive
<1>1. TypeOK /\ SettingsSurvive /\ [Next]_vars => SettingsSurvive'
  BY NextSurvives
<1> QED
  BY <1>1, InitSurvives, ThermostatTypes, PTL DEF Spec

=============================================================================
