------------------------------- MODULE Device -------------------------------
(***************************************************************************)
(* What surrounds the control loop in one device: the clock, the sensor    *)
(* and the firmware upgrade, which share the Wi-Fi handler and the restart *)
(* (esp/src/user/user_main.c).  A restart is an upgrade's end or a loss of *)
(* power; nothing of these three survives it.                              *)
(***************************************************************************)
EXTENDS Clock, Sensor, Upgrade

CONSTANTS
  MaxDrops,      (* bound: times Wi-Fi is lost or gets another address     *)
  MaxRestarts    (* bound: restarts                                        *)

ASSUME DeviceAssumption == MaxDrops \in Nat /\ MaxRestarts \in Nat

VARIABLES drops, restarts

vars == <<clock, sensor, upgrade, drops, restarts>>

(* EVENT_STAMODE_GOT_IP                                                    *)
WifiGotIp ==
  /\ ~wifi /\ wifi' = TRUE
  /\ ntp_init
  /\ UNCHANGED <<sensor, upgrade, drops, restarts>>

(* The same event, with another address and no loss of Wi-Fi before.       *)
WifiRenewed ==
  /\ wifi /\ UNCHANGED wifi
  /\ drops < MaxDrops /\ drops' = drops + 1
  /\ ntp_init
  /\ UNCHANGED <<sensor, upgrade, restarts>>

(* EVENT_STAMODE_DISCONNECTED; nobody tells the clock.                     *)
WifiDisconnected ==
  /\ wifi /\ wifi' = FALSE
  /\ drops < MaxDrops /\ drops' = drops + 1
  /\ UNCHANGED <<ntp_timer, esp_conn, refused, unixSeconds, underWay, lost,
                 sensor, upgrade, restarts>>

(* app_init.  It starts the reading of the sensor, found or not.           *)
Restart ==
  /\ restarts < MaxRestarts /\ restarts' = restarts + 1
  /\ ClockStarts /\ temperature_init /\ UpgradeStarts
  /\ UNCHANGED <<bus, drops>>

ClockStep == ClockNext /\ UNCHANGED <<sensor, upgrade, drops, restarts>>

SensorStep == SensorNext /\ UNCHANGED <<clock, upgrade, drops, restarts>>

UpgradeStep ==
  ota_finished_callback /\ UNCHANGED <<clock, sensor, drops, restarts>>

(* mqttDataCb: a command comes over Wi-Fi.                                 *)
Command ==
  /\ wifi
  /\ \/ handleTempCalibration /\ UNCHANGED upgrade
     \/ handleUpgradeMessage /\ UNCHANGED sensor
  /\ UNCHANGED <<clock, drops, restarts>>

Init == /\ ClockInit /\ SensorInit /\ UpgradeInit
        /\ drops = 0 /\ restarts = 0

Next == \/ WifiGotIp \/ WifiRenewed \/ WifiDisconnected \/ Restart
        \/ ClockStep \/ SensorStep \/ UpgradeStep \/ Command

Spec == Init /\ [][Next]_vars

(* Timers fire, Wi-Fi comes back, and an answer that is not lost arrives.  *)
Fairness ==
  /\ WF_vars(WifiGotIp)
  /\ WF_vars(ntp_connect /\ UNCHANGED <<sensor, upgrade, drops, restarts>>)
  /\ WF_vars(ntp_timeout_handler /\ UNCHANGED <<sensor, upgrade, drops, restarts>>)
  /\ WF_vars(ntp_receive /\ UNCHANGED <<sensor, upgrade, drops, restarts>>)

FairSpec == Spec /\ Fairness

-----------------------------------------------------------------------------
(* In particular a reading fits 16 bits, whatever bits were read wrong     *)
(* (ds1820.c lines 76-96).                                                 *)
TypeOK == /\ ClockTypeOK /\ SensorTypeOK /\ UpgradeTypeOK
          /\ drops \in 0 .. MaxDrops /\ restarts \in 0 .. MaxRestarts

(* The repeat timer never asks through a connection that was deleted, only *)
(* through one that espconn refused to create, and with Wi-Fi the clock    *)
(* has the time or a timer that will ask for it, however losses of Wi-Fi,  *)
(* late answers and restarts fall together (ntp.c lines 66-126: one timer  *)
(* serves two waits).                                                      *)
RetryHasConnection == ntp_timer = "retry" => esp_conn \/ refused
StillAsking == wifi /\ unixSeconds # "ntp" => ntp_timer # "off"
ClockKept == RetryHasConnection /\ StillAsking

(* After finitely many losses and restarts the clock has the time for good, *)
(* unless the last of its connections was refused (ntp.c lines 66-126).    *)
TimeSet == []<>~refused => <>[](unixSeconds = "ntp")

(* The memory of upgrades is that of the running one: a command refused    *)
(* beside it and a failure leave nothing behind and free nothing else      *)
(* (fota.c lines 16-28, 53-82).                                            *)
UpdatesHeld == held = {upgrading} \ {NoUpdate}

(* A temperature that was not reported as an error is what the addressed   *)
(* sensor measured, to the hundredth, unless the bus is shorted; below     *)
(* zero if it is not calibrated (ds1820.c lines 53-99, 404-435).           *)
Near(family, n, t) ==
  LET error == 100 * n - Unit(family) * t
  IN  IF n < 0 THEN -Unit(family) < error /\ error <= 0
      ELSE 0 <= error /\ error < Unit(family)

ReportedOrTrue ==
  taken.from = "sensor" /\ ~taken.reported
      /\ (taken.register >= 0 \/ taken.calibration = 0) =>
    Near(Family(temperature_deviceId), taken.register,
         temperature_currentTemperature - taken.calibration)

(* A sensor that is gone, or was never found, is reported and read as just *)
(* below zero, which the control loop, comparing without sign, takes for   *)
(* very warm: the heater is not left on, if calibration is at least -0.05  *)
(* (ds1820.c lines 53-99, 404-435, user_main.c lines 34-45).               *)
GoneReadsWarm ==
  taken.from = "nobody" /\ taken.calibration > -6 =>
    taken.reported /\ temperature_currentTemperature < 0

ReadingsUsable == ReportedOrTrue /\ GoneReadsWarm

=============================================================================
