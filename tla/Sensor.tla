------------------------------- MODULE Sensor -------------------------------
(***************************************************************************)
(* The temperature sensor on its one-wire bus (esp/src/driver/ds1820.c and *)
(* esp/src/user/my_temperature.c): the search for a sensor when the device *)
(* starts, the conversion asked for every five seconds, and the reading a  *)
(* second later.  What is on the bus is a sequence of bits, first bit      *)
(* first; a sensor's address is one, shorter than the 64 bits of a real    *)
(* one, whose first bit tells the family.                                  *)
(***************************************************************************)
EXTENDS Integers, SequencesExt

CONSTANTS
  RomBits,       (* bits of an address                                     *)
  Roms,          (* the sensors there are                                  *)
  Registers,     (* what a conversion may measure: halves or sixteenths of *)
                 (* a degree, as the family counts                         *)
  Calibrations,  (* what tempCalibration/command may set                   *)
  Disturbances,  (* sets of bits of a scratchpad that are read wrong       *)
  MaxBusChanges  (* bound: sensors plugged in and out, shorts              *)

(* The zeros that temperature_deviceId holds if no sensor was found.       *)
NoRom == [k \in 1 .. RomBits |-> 0]

ASSUME SensorAssumption ==
  /\ RomBits \in Nat \ {0}
  /\ Roms \subseteq [1 .. RomBits -> {0, 1}] /\ NoRom \notin Roms
  /\ Registers \subseteq Int
  /\ \A c \in Calibrations : c \in Int /\ -10000 <= c /\ c <= 10000
  /\ \A d \in Disturbances : d \subseteq 1 .. 72 /\ d # {}
  /\ MaxBusChanges \in Nat

VARIABLES
  present, shorted,              (* the bus: its sensors, a short circuit  *)
  busChanges,
  temperature_deviceId,
  tempReady,                     (* timer_tempReady is armed               *)
  register,                      (* what the sensor holds, also unplugged  *)
  tempCalibration,
  temperature_currentTemperature,
  taken                          (* history: about the last reading        *)

bus == <<present, shorted, busChanges>>
driver == <<temperature_deviceId, tempReady, register, tempCalibration,
            temperature_currentTemperature, taken>>
sensor == <<bus, driver>>

-----------------------------------------------------------------------------
(* The conversion of a reading: 16 bits in two's complement.               *)
Unsigned(n) == n % 65536

Int16(n) == ((n + 32768) % 65536) - 32768
Temperatures == -32768 .. 32767

Family(rom) == IF rom # NoRom /\ rom[1] = 0 THEN "DS18S20" ELSE "DS18B20"

Unit(family) == IF family = "DS18S20" THEN 2 ELSE 16

Hundredths(family, tVal) ==
  (tVal \div Unit(family)) * 100 + ((tVal % Unit(family)) * 100) \div Unit(family)

(* A slip: the fraction is taken before the two's complement is.           *)
ReadingOfWord(family, word, calibration) ==
  LET tVal == IF word >= 32768 THEN 65536 - word ELSE word
      fraction == ((word % Unit(family)) * 100) \div Unit(family)
      t == Int16(Int16((tVal \div Unit(family)) * 100 + fraction) + calibration)
  IN  IF word >= 32768 THEN Int16(-t) ELSE t

(* A slip: the sum is kept in more than 16 bits.                           *)
ReadingWide(family, word, calibration) ==
  LET tVal == IF word >= 32768 THEN 65536 - word ELSE word
      t == Hundredths(family, tVal) + calibration
  IN  IF word >= 32768 THEN -t ELSE t

(* The sign is applied last: below zero calibration works backwards.       *)
Reading(family, word, calibration) ==
  LET tVal == IF word >= 32768 THEN 65536 - word ELSE word
      t == Int16(Int16(Hundredths(family, tVal)) + calibration)
  IN  IF word >= 32768 THEN Int16(-t) ELSE t

(* A sensor measures from -55 to 125 degrees.                              *)
InRange(family, n) == -55 * Unit(family) <= n /\ n <= 125 * Unit(family)

-----------------------------------------------------------------------------
(* The bus.                                                                *)
Bits(n, count) == [k \in 1 .. count |-> (n \div 2^(k - 1)) % 2]

Word(bits) == LET Up(b, sum) == 2 * sum + b IN FoldRight(Up, SubSeq(bits, 1, 16), 0)

(* crc8, bit by bit.  To exclusive-or 0x8C into n < 128 sets bit 7 and     *)
(* turns bits 3 and 2 over.                                                *)
CrcBit(crc, bit) ==
  LET n == crc \div 2
  IN  IF (crc + bit) % 2 = 1 THEN n + 128 + 4 * (3 - 2 * ((n \div 4) % 4)) ELSE n

crc8(bits) == FoldLeft(CrcBit, 0, bits)

(* The other six bytes of the scratchpad: alarms, configuration, reserved. *)
Others == Bits(75, 8) \o Bits(70, 8) \o Bits(127, 8) \o Bits(255, 8)
            \o Bits(12, 8) \o Bits(16, 8)

Scratchpad(n) == LET data == Bits(Unsigned(n), 16) \o Others
                 IN  data \o Bits(crc8(data), 8)

Disturbed(bits, d) == [k \in 1 .. 72 |-> IF k \in d THEN 1 - bits[k] ELSE bits[k]]

(* What the code makes of the nine bytes.                                  *)
Heard(from, bits) ==
  [from |-> from, word |-> Word(bits),
   reported |-> Bits(crc8(SubSeq(bits, 1, 64)), 8) # SubSeq(bits, 65, 72)]

(* A bus nobody drives is held up and reads as ones.                       *)
FromNobody == Heard("nobody", [k \in 1 .. 72 |-> 1])
FromShort == Heard("short", [k \in 1 .. 72 |-> 0])
FromSensor ==
  [n \in Registers \cup {0} |->
     {Heard("sensor", Scratchpad(n))} \cup
     {Heard("sensor", Disturbed(Scratchpad(n), d)) : d \in Disturbances}]

AllHeard == CASE shorted -> {FromShort}
              [] ~shorted /\ temperature_deviceId \notin present -> {FromNobody}
              [] OTHER -> FromSensor[register]

(* The first pass of ds_search after ds_reset_search: at every bit, if the *)
(* sensors still addressed differ, those with a 0 go on.                   *)
ds_search ==
  LET Zeros(left, k) == IF \E rom \in left : rom[k] = 0
                        THEN {rom \in left : rom[k] = 0} ELSE left
  IN  IF present = {} \/ shorted THEN NoRom
      ELSE CHOOSE rom \in FoldLeft(Zeros, present, [k \in 1 .. RomBits |-> k]) : TRUE

-----------------------------------------------------------------------------
NoneTaken == [from |-> "none", register |-> 0, calibration |-> 0,
              reported |-> FALSE]

temperature_init ==
  /\ temperature_deviceId' = ds_search
  /\ tempReady' = FALSE /\ register' = 0
  /\ tempCalibration' = 0 /\ temperature_currentTemperature' = 0
  /\ taken' = NoneTaken

(* temperature_readTimer calls it every five seconds, found or not; the    *)
(* sensor measures before timer_tempReady, armed for a second, fires.      *)
ds_request_temp ==
  /\ IF temperature_deviceId \in present /\ ~shorted
     THEN register' \in {n \in Registers : InRange(Family(temperature_deviceId), n)}
     ELSE UNCHANGED register
  /\ tempReady' = TRUE
  /\ UNCHANGED <<bus, temperature_deviceId, tempCalibration,
                 temperature_currentTemperature, taken>>

(* A reading whose CRC does not match is published as an error, and used.  *)
ds_read_temp ==
  /\ tempReady /\ tempReady' = FALSE
  /\ \E heard \in AllHeard :
       /\ temperature_currentTemperature' =
            Reading(Family(temperature_deviceId), heard.word, tempCalibration)
       /\ taken' = [from |-> heard.from, register |-> register,
                    calibration |-> tempCalibration, reported |-> heard.reported]
  /\ UNCHANGED <<bus, temperature_deviceId, register, tempCalibration>>

handleTempCalibration ==
  /\ tempCalibration' \in Calibrations
  /\ UNCHANGED <<bus, temperature_deviceId, tempReady, register,
                 temperature_currentTemperature, taken>>

BusChanges ==
  /\ busChanges < MaxBusChanges /\ busChanges' = busChanges + 1
  /\ \/ \E rom \in Roms :
          /\ present' = IF rom \in present THEN present \ {rom} ELSE present \cup {rom}
          /\ UNCHANGED shorted
     \/ shorted' = ~shorted /\ UNCHANGED present
  /\ UNCHANGED driver

SensorInit ==
  /\ present \in SUBSET Roms /\ shorted = FALSE /\ busChanges = 0
  /\ temperature_deviceId = ds_search
  /\ tempReady = FALSE /\ register = 0
  /\ tempCalibration = 0 /\ temperature_currentTemperature = 0
  /\ taken = NoneTaken

SensorNext ==
  ds_request_temp \/ ds_read_temp \/ BusChanges

SensorTypeOK ==
  /\ present \subseteq Roms /\ shorted \in BOOLEAN
  /\ busChanges \in 0 .. MaxBusChanges
  /\ temperature_deviceId \in Roms \cup {NoRom}
  /\ tempReady \in BOOLEAN
  /\ register \in Registers \cup {0}
  /\ tempCalibration \in Calibrations \cup {0}
  /\ temperature_currentTemperature \in Temperatures
  /\ taken.from \in {"none", "sensor", "nobody", "short"}
  /\ taken.register \in Registers \cup {0}
  /\ taken.calibration \in Calibrations \cup {0} /\ taken.reported \in BOOLEAN

=============================================================================
