---------------------------- MODULE DeviceProofs ----------------------------
(***************************************************************************)
(* What Device keeps for every choice of its constants: the clock goes on  *)
(* asking, upgrades hold no memory but the running one's, the arithmetic   *)
(* of a reading is right for every temperature a sensor measures, CRC-8    *)
(* finds every burst of wrong bits, a search ends at a sensor that is      *)
(* there, and so a reading that is not reported is the measured one.       *)
(***************************************************************************)
EXTENDS Device, FoldProofs, SequenceTheorems

(* Only the Wi-Fi handler, a restart and the clock's own steps touch it.   *)
LEMMA ClockKeptStep ==
  ASSUME ClockKept, [Next]_vars
  PROVE  ClockKept'
<1> USE DEF ClockKept, RetryHasConnection, StillAsking
<1>1. CASE UNCHANGED vars
  BY <1>1 DEF vars, clock
<1>2. CASE WifiGotIp
  BY <1>2 DEF WifiGotIp, ntp_init
<1>3. CASE WifiRenewed
  BY <1>3 DEF WifiRenewed, ntp_init
<1>4. CASE WifiDisconnected
  BY <1>4 DEF WifiDisconnected
<1>5. CASE Restart
  BY <1>5 DEF Restart, ClockStarts
<1>6. CASE ClockStep
  <2>1. CASE ntp_timeout_handler
    BY <2>1 DEF ntp_timeout_handler
  <2>2. CASE ntp_connect
    BY <2>2 DEF ntp_connect
  <2>3. CASE ntp_receive
    BY <2>3 DEF ntp_receive
  <2>4. CASE Unheard
    BY <2>4 DEF Unheard
  <2>5. CASE Lose
    BY <2>5 DEF Lose
  <2> QED
    BY <1>6, <2>1, <2>2, <2>3, <2>4, <2>5 DEF ClockStep, ClockNext
<1>7. CASE SensorStep
  BY <1>7 DEF SensorStep, clock
<1>8. CASE UpgradeStep
  BY <1>8 DEF UpgradeStep, clock
<1>9. CASE Command
  BY <1>9 DEF Command, clock
<1> QED
  BY <1>1, <1>2, <1>3, <1>4, <1>5, <1>6, <1>7, <1>8, <1>9 DEF Next

(* Whatever is lost, late or restarted, the repeat timer has a connection, *)
(* and with Wi-Fi and no time yet a timer is armed.                        *)
THEOREM ClockAlwaysKept == Spec => []ClockKept
<1>1. Init => ClockKept
  BY DEF Init, ClockInit, ClockKept, RetryHasConnection, StillAsking
<1>2. ClockKept /\ [Next]_vars => ClockKept'
  BY ClockKeptStep
<1> QED
  BY <1>1, <1>2, PTL DEF Spec

-----------------------------------------------------------------------------
UpdatesInv == UpgradeTypeOK /\ UpdatesHeld

LEMMA UpdatesInvStep ==
  ASSUME UpdatesInv, [Next]_vars
  PROVE  UpdatesInv'
<1> USE DEF UpdatesInv, UpgradeTypeOK, UpdatesHeld
<1>1. CASE UNCHANGED upgrade
  BY <1>1 DEF upgrade
<1>2. CASE Restart
  BY <1>2 DEF Restart, UpgradeStarts
<1>3. CASE UpgradeStep
  BY <1>3 DEF UpgradeStep, ota_finished_callback
<1>4. CASE handleUpgradeMessage
  <2>1. PICK update \in Updates \ held :
          \/ /\ upgrading = NoUpdate
             /\ upgrading' = update /\ held' = held \cup {update}
          \/ held' = Refused(update) /\ UNCHANGED upgrading
    BY <1>4 DEF handleUpgradeMessage
  <2>2. update # NoUpdate
    BY <2>1, UpgradeAssumption
  <2> QED
    BY <1>4, <2>1, <2>2 DEF Refused, handleUpgradeMessage
<1>5. Next => \/ UNCHANGED upgrade \/ Restart \/ UpgradeStep
              \/ handleUpgradeMessage
  BY DEF Next, WifiGotIp, WifiRenewed, WifiDisconnected, ClockStep, SensorStep,
         Command
<1> QED
  BY <1>1, <1>2, <1>3, <1>4, <1>5 DEF vars

(* Any number of commands, refusals, failures and restarts holds exactly   *)
(* the memory of the running upgrade.                                      *)
THEOREM UpdatesAlwaysHeld == Spec => []UpdatesHeld
<1>1. Init => UpdatesInv
  BY UpgradeAssumption
     DEF Init, UpgradeInit, UpdatesInv, UpgradeTypeOK, UpdatesHeld
<1>2. UpdatesInv /\ [Next]_vars => UpdatesInv'
  BY UpdatesInvStep
<1>3. UpdatesInv => UpdatesHeld
  BY DEF UpdatesInv
<1> QED
  BY <1>1, <1>2, <1>3, PTL DEF Spec

-----------------------------------------------------------------------------
(* Sixteen bits hold every temperature a sensor measures, calibrated.      *)
LEMMA Int16Id ==
  ASSUME NEW x \in Int, -32768 <= x, x < 32768
  PROVE  Int16(x) = x
BY SMTT(60) DEF Int16

(* A temperature of at most 125 degrees, and h hundredths standing for it. *)
Moderate(family, m) == m \in Nat /\ m <= 125 * Unit(family)
StandsFor(h, family, m) ==
  /\ h \in Nat /\ h <= 12500
  /\ 0 <= 100 * m - Unit(family) * h
  /\ 100 * m - Unit(family) * h < Unit(family)

LEMMA HundredthsNear ==
  ASSUME NEW family, NEW m, Moderate(family, m)
  PROVE  StandsFor(Hundredths(family, m), family, m)
<1>1. CASE Unit(family) = 2
  <2>1. Hundredths(family, m) = (m \div 2) * 100 + ((m % 2) * 100) \div 2
    BY <1>1 DEF Hundredths
  <2>2. m \in Nat /\ m <= 250
    BY <1>1 DEF Moderate
  <2>3. Hundredths(family, m) \in Nat /\ 100 * m = 2 * Hundredths(family, m)
    BY <2>1, <2>2, SMTT(60)
  <2> QED
    BY <1>1, <2>2, <2>3, SMTT(60) DEF StandsFor
<1>2. CASE Unit(family) = 16
  <2>1. Hundredths(family, m) = (m \div 16) * 100 + ((m % 16) * 100) \div 16
    BY <1>2 DEF Hundredths
  <2>2. PICK q \in Nat, r \in 0 .. 15 :
          m = 16 * q + r /\ m \div 16 = q /\ m % 16 = r
    BY SMTT(60) DEF Moderate
  <2>3. PICK f \in 0 .. 99 : f = (r * 100) \div 16 /\ 16 * f <= 100 * r
                                /\ 100 * r < 16 * f + 16
    BY SMTT(60)
  <2>4. Hundredths(family, m) = 100 * q + f
    BY <2>1, <2>2, <2>3
  <2>5. PICK h \in Nat : h = Hundredths(family, m) /\ h = 100 * q + f
    BY <2>2, <2>3, <2>4
  <2>6. m \in Nat /\ m <= 2000
    BY <1>2, SMTT(60) DEF Moderate
  <2>7. 100 * m - 16 * h = 100 * r - 16 * f
    BY <2>2, <2>3, <2>5, SMTT(60)
  <2>8. 0 <= 100 * m - 16 * h /\ 100 * m - 16 * h < 16
    BY <2>2, <2>3, <2>7, SMTT(60)
  <2>9. h <= 12500
    BY <2>5, <2>6, <2>8, SMTT(60)
  <2> QED
    BY <1>2, <2>5, <2>8, <2>9, SMTT(60) DEF StandsFor
<1> QED
  BY <1>1, <1>2 DEF Unit

(* What a sensor's sixteen bits stand for in two's complement.             *)
Measured == {n \in Int : -880 <= n /\ n <= 2000}
Complements(n, word) ==
  /\ n >= 0 => word = n /\ word < 32768
  /\ n < 0 => word >= 32768 /\ 65536 - word = -n

LEMMA WordOf ==
  ASSUME NEW n \in Measured
  PROVE  Complements(n, Unsigned(n)) /\ Unsigned(n) \in Nat
BY SMTT(60) DEF Unsigned, Measured, Complements

(* The ranges of a reading and of a calibration, in hundredths.            *)
Magnitudes == {h \in Nat : h <= 12500}
Offsets == {c \in Int : -10000 <= c /\ c <= 10000}

LEMMA SumsFit ==
  ASSUME NEW h \in Magnitudes, NEW c \in Offsets
  PROVE  Int16(h) = h /\ Int16(h + c) = h + c /\ Int16(-h) = -h
<1>1. h \in Int /\ -32768 <= h /\ h < 32768
  BY SMTT(60) DEF Magnitudes, Offsets
<1>2. h + c \in Int /\ -32768 <= h + c /\ h + c < 32768
  BY SMTT(60) DEF Magnitudes, Offsets
<1>3. -h \in Int /\ -32768 <= -h /\ -h < 32768
  BY SMTT(60) DEF Magnitudes, Offsets
<1> QED
  BY <1>1, <1>2, <1>3, Int16Id

(* For every temperature of the sensors' range, either family, and every   *)
(* calibration (none, below zero), the reading is right to the hundredth.  *)
THEOREM ReadingIsNear ==
  ASSUME NEW family, NEW n \in Int, InRange(family, n),
         NEW c \in Offsets, n >= 0 \/ c = 0
  PROVE  Near(family, n, Reading(family, Unsigned(n), c) - c)
<1> DEFINE m == IF n >= 0 THEN n ELSE -n
           h == Hundredths(family, m)
<1>1. n \in Measured /\ Moderate(family, m)
  BY SMTT(60) DEF InRange, Unit, Measured, Moderate
<1>2. StandsFor(h, family, m)
  BY <1>1, HundredthsNear, Zenon
<1>3. /\ Unit(family) \in {2, 16}
      /\ n >= 0 => m = n
      /\ n < 0 => m = -n
      /\ h = Hundredths(family, m)
  BY DEF Unit
<1> HIDE DEF m, h
<1>4. h \in Magnitudes
  BY <1>2 DEF Magnitudes, StandsFor
<1>5. h \in Int
  BY <1>4 DEF Magnitudes
<1>6. Int16(h) = h /\ Int16(h + c) = h + c /\ Int16(-h) = -h
  BY <1>4, SumsFit, Zenon
<1>7. Complements(n, Unsigned(n)) /\ Unsigned(n) \in Nat
  BY <1>1, WordOf, Zenon
<1>8. CASE n >= 0
  <2>1. Unsigned(n) = n /\ ~(Unsigned(n) >= 32768)
    <3>1. Unsigned(n) = n /\ Unsigned(n) < 32768
      BY <1>8, <1>7 DEF Complements
    <3> QED
      BY <3>1, <1>7
  <2>2. Reading(family, Unsigned(n), c) = h + c
    <3>1. Hundredths(family, Unsigned(n)) = h
      BY <1>8, <1>3, <2>1
    <3> QED
      BY <1>6, <2>1, <3>1 DEF Reading
  <2>3. (h + c) - c = h
    BY <1>5, SMTT(60) DEF Offsets
  <2> QED
    BY <1>2, <1>8, <1>3, <2>2, <2>3, SMTT(60) DEF Near, StandsFor
<1>9. CASE n < 0
  <2>1. Unsigned(n) >= 32768 /\ 65536 - Unsigned(n) = m /\ c = 0
    BY <1>9, <1>3, <1>7 DEF Complements
  <2>2. Reading(family, Unsigned(n), c) = -h
    <3>1. h + c = h
      BY <1>5, <2>1
    <3>2. Hundredths(family, 65536 - Unsigned(n)) = h
      BY <1>3, <2>1
    <3> QED
      BY <1>6, <2>1, <3>1, <3>2 DEF Reading
  <2>3. -h - c = -h
    BY <1>5, <2>1
  <2> QED
    BY <1>2, <1>9, <1>3, <2>2, <2>3, SMTT(60) DEF Near, StandsFor
<1> QED
  BY <1>8, <1>9

(* What a bus nobody drives reads as is below zero, and so very warm to    *)
(* the control loop, for either family and any calibration above -0.06.    *)
THEOREM NobodyReadsBelowZero ==
  ASSUME NEW family, NEW c \in Offsets, c > -6
  PROVE  Reading(family, 65535, c) < 0
<1> DEFINE h == Hundredths(family, 1)
<1>1. h \in {6, 50}
  BY SMTT(60) DEF Hundredths, Unit
<1>2. h = Hundredths(family, 1)
  OBVIOUS
<1> HIDE DEF h
<1>3. h \in Magnitudes
  BY <1>1 DEF Magnitudes
<1>4. Int16(h) = h /\ Int16(h + c) = h + c
  BY <1>3, SumsFit, Zenon
<1>5. Int16(-(h + c)) = -(h + c)
  <2>1. -(h + c) \in Int /\ -32768 <= -(h + c) /\ -(h + c) < 32768
    BY <1>1, SMTT(60) DEF Offsets
  <2> QED
    BY <2>1, Int16Id
<1>6. 65535 >= 32768 /\ 65536 - 65535 = 1
  OBVIOUS
<1>7. Reading(family, 65535, c) = -(h + c)
  BY <1>2, <1>4, <1>5, <1>6 DEF Reading
<1> QED
  BY <1>1, <1>7, SMTT(60) DEF Offsets

-----------------------------------------------------------------------------
Byte == 0 .. 255
BitsOf(n) == [1 .. n -> {0, 1}]

LEMMA CrcBitByte ==
  ASSUME NEW c \in Byte, NEW b \in {0, 1}
  PROVE  CrcBit(c, b) \in Byte
BY SMTT(60) DEF CrcBit, Byte

CrcTrace(c, bits, n) ==
  c \in [0 .. n -> Byte] /\ c[0] = 0
  /\ \A k \in 1 .. n : c[k] = CrcBit(c[k - 1], bits[k])

LEMMA CrcTraceOf ==
  ASSUME NEW n \in Nat, NEW bits \in BitsOf(n)
  PROVE  \E c : CrcTrace(c, bits, n) /\ crc8(bits) = c[n]
<1> DEFINE step == [x \in Byte \X (1 .. n) |-> CrcBit(x[1], bits[x[2]])]
           Obeys(iter) == iter = [T \in SUBSET (1 .. n) |->
              IF T = {} THEN 0 ELSE CrcBit(iter[T \ {Max(T)}], bits[Max(T)])]
           found == CHOOSE iter : Obeys(iter)
<1>1. step \in [Byte \X (1 .. n) -> Byte]
  BY CrcBitByte DEF BitsOf
<1>2. 0 \in Byte
  BY DEF Byte
<1>3. DOMAIN bits = 1 .. n
  BY DEF BitsOf
<1>4. crc8(bits) = found[1 .. n]
  BY <1>3, Zenon DEF crc8, FoldLeft, MapThenFoldSet
<1>5. \A v \in Byte, k \in 1 .. n : step[<<v, k>>] = CrcBit(v, bits[k])
  OBVIOUS
<1> HIDE DEF step
<1>6. PICK it \in [SUBSET (1 .. n) -> Byte] :
        it = [T \in SUBSET (1 .. n) |->
               IF T = {} THEN 0 ELSE step[<<it[T \ {Max(T)}], Max(T)>>]]
  <2>1. HasLeftFold(n, Byte, 0, step)
    BY <1>1, <1>2, FoldLeftExists
  <2> QED
    BY <2>1 DEF HasLeftFold
<1>7. Obeys(it)
  <2>1. ASSUME NEW T \in SUBSET (1 .. n), T # {}
        PROVE  step[<<it[T \ {Max(T)}], Max(T)>>]
                 = CrcBit(it[T \ {Max(T)}], bits[Max(T)])
    <3>1. Max(T) \in 1 .. n /\ it[T \ {Max(T)}] \in Byte
      BY <2>1, LargestIn
    <3> QED
      BY <1>5, <3>1
  <2>2. \A T \in SUBSET (1 .. n) :
          (IF T = {} THEN 0 ELSE step[<<it[T \ {Max(T)}], Max(T)>>])
            = IF T = {} THEN 0 ELSE CrcBit(it[T \ {Max(T)}], bits[Max(T)])
    BY <2>1, Zenon
  <2> QED
    BY <1>6, <2>2, Zenon
<1>8. Obeys(found)
  BY <1>7, Zenon
<1> HIDE DEF found
<1>9. found[{}] = 0
  BY <1>8, Ends
<1>10. ASSUME NEW T \in SUBSET (1 .. n), T # {}, found[T \ {Max(T)}] \in Byte
       PROVE  found[T] = step[<<found[T \ {Max(T)}], Max(T)>>]
  <2>1. Max(T) \in 1 .. n
    BY <1>10, LargestIn
  <2>2. found[T] = CrcBit(found[T \ {Max(T)}], bits[Max(T)])
    BY <1>8, <1>10
  <2> QED
    BY <1>5, <1>10, <2>1, <2>2
<1>11. PICK c \in [0 .. n -> Byte] : LeftTrace(c, 0, step, n) /\ found[1 .. n] = c[n]
  <2>1. FoldsLeft(found, n, Byte, 0, step)
    BY <1>9, <1>10 DEF FoldsLeft
  <2>2. TracedLeft(found, n, Byte, 0, step)
    BY <1>1, <1>2, <2>1, LeftTraceOf
  <2> QED
    BY <2>2 DEF TracedLeft
<1>12. \A k \in 1 .. n : c[k] = CrcBit(c[k - 1], bits[k])
  <2> SUFFICES ASSUME NEW k \in 1 .. n PROVE c[k] = CrcBit(c[k - 1], bits[k])
    OBVIOUS
  <2>1. c[k - 1] \in Byte
    OBVIOUS
  <2> QED
    BY <1>5, <1>11, <2>1 DEF LeftTrace
<1> QED
  BY <1>4, <1>11, <1>12 DEF CrcTrace, LeftTrace

Differ(x, y, level) == x \div 2^level # y \div 2^level

(* The seven bits that remain, and those the polynomial turns over in them. *)
Sevens == 0 .. 127
Turned(n) == n + 128 + 4 * (3 - 2 * ((n \div 4) % 4))

LEMMA TurnedIs ==
  ASSUME NEW n \in Sevens
  PROVE  \E a \in 0 .. 7, q \in 0 .. 3, r \in 0 .. 3 :
           n = 16 * a + 4 * q + r /\ Turned(n) = 128 + 16 * a + 4 * (3 - q) + r
<1>1. PICK a \in 0 .. 7, q \in 0 .. 3, r \in 0 .. 3 : n = 16 * a + 4 * q + r
  <2>1. /\ n \div 16 \in 0 .. 7 /\ (n % 16) \div 4 \in 0 .. 3 /\ n % 4 \in 0 .. 3
        /\ n = 16 * (n \div 16) + 4 * ((n % 16) \div 4) + (n % 4)
    BY SMTT(60) DEF Sevens
  <2> QED
    BY <2>1
<1>2. n \div 4 = 4 * a + q
  BY <1>1, SMTT(60)
<1>3. (4 * a + q) % 4 = q
  BY SMTT(60)
<1> QED
  BY <1>1, <1>2, <1>3 DEF Turned

LEMMA TurnedDiffer ==
  ASSUME NEW n \in Sevens, NEW k \in Sevens, NEW l \in 0 .. 6, Differ(n, k, l)
  PROVE  Differ(Turned(n), Turned(k), l)
<1>1. PICK a \in 0 .. 7, q \in 0 .. 3, r \in 0 .. 3 :
        n = 16 * a + 4 * q + r /\ Turned(n) = 128 + 16 * a + 4 * (3 - q) + r
  BY TurnedIs
<1>2. PICK b \in 0 .. 7, s \in 0 .. 3, t \in 0 .. 3 :
        k = 16 * b + 4 * s + t /\ Turned(k) = 128 + 16 * b + 4 * (3 - s) + t
  BY TurnedIs
<1>4. CASE l = 0
  BY <1>1, <1>2, <1>4, SMTT(60) DEF Differ
<1>5. CASE l = 1
  BY <1>1, <1>2, <1>5, SMTT(60) DEF Differ
<1>6. CASE l = 2
  BY <1>1, <1>2, <1>6, SMTT(60) DEF Differ
<1>7. CASE l = 3
  BY <1>1, <1>2, <1>7, SMTT(60) DEF Differ
<1>8. CASE l = 4
  BY <1>1, <1>2, <1>8, SMTT(60) DEF Differ
<1>9. CASE l = 5
  BY <1>1, <1>2, <1>9, SMTT(60) DEF Differ
<1>10. CASE l = 6
  BY <1>1, <1>2, <1>10, SMTT(60) DEF Differ
<1> QED
  BY <1>4, <1>5, <1>6, <1>7, <1>8, <1>9, <1>10

(* One of the two is turned over: bit 7 tells them apart.                  *)
LEMMA TurnedApart ==
  ASSUME NEW n \in Sevens, NEW k \in Sevens, NEW l \in 0 .. 6
  PROVE  Differ(Turned(n), k, l) /\ Differ(k, Turned(n), l)
<1>1. PICK p \in Nat : p = Turned(n) /\ p >= 128
  <2>1. PICK a \in 0 .. 7, q \in 0 .. 3, r \in 0 .. 3 :
          n = 16 * a + 4 * q + r /\ Turned(n) = 128 + 16 * a + 4 * (3 - q) + r
    BY TurnedIs
  <2>2. 128 + 16 * a + 4 * (3 - q) + r \in Nat /\ 128 + 16 * a + 4 * (3 - q) + r >= 128
    OBVIOUS
  <2> QED
    BY <2>1, <2>2
<1> USE DEF Differ, Sevens
<1>4. CASE l = 0
  BY <1>1, <1>4, SMTT(60)
<1>5. CASE l = 1
  BY <1>1, <1>5, SMTT(60)
<1>6. CASE l = 2
  BY <1>1, <1>6, SMTT(60)
<1>7. CASE l = 3
  BY <1>1, <1>7, SMTT(60)
<1>8. CASE l = 4
  BY <1>1, <1>8, SMTT(60)
<1>9. CASE l = 5
  BY <1>1, <1>9, SMTT(60)
<1>10. CASE l = 6
  BY <1>1, <1>10, SMTT(60)
<1> QED
  BY <1>4, <1>5, <1>6, <1>7, <1>8, <1>9, <1>10

LEMMA HalvedFirst ==
  ASSUME NEW x \in Byte, NEW level \in 1 .. 7
  PROVE  x \div 2^level = (x \div 2) \div 2^(level - 1)
<1> USE DEF Byte
<1>1. CASE level = 1
  BY <1>1, SMTT(60)
<1>2. CASE level = 2
  BY <1>2, SMTT(60)
<1>3. CASE level = 3
  BY <1>3, SMTT(60)
<1>4. CASE level = 4
  BY <1>4, SMTT(60)
<1>5. CASE level = 5
  BY <1>5, SMTT(60)
<1>6. CASE level = 6
  BY <1>6, SMTT(60)
<1>7. CASE level = 7
  BY <1>7, SMTT(60)
<1> QED
  BY <1>1, <1>2, <1>3, <1>4, <1>5, <1>6, <1>7

LEMMA CrcBitIs ==
  ASSUME NEW x \in Byte, NEW b \in {0, 1}
  PROVE  x \div 2 \in Sevens /\ CrcBit(x, b) \in {x \div 2, Turned(x \div 2)}
<1>1. x \div 2 \in Sevens
  BY SMTT(60) DEF Byte, Sevens
<1> QED
  BY <1>1 DEF CrcBit, Turned

LEMMA DifferStep ==
  ASSUME NEW x \in Byte, NEW y \in Byte, NEW b \in {0, 1}, NEW e \in {0, 1},
         NEW level \in 1 .. 7, Differ(x, y, level)
  PROVE  Differ(CrcBit(x, b), CrcBit(y, e), level - 1)
<1>1. PICK n \in Sevens : n = x \div 2 /\ CrcBit(x, b) \in {n, Turned(n)}
  BY CrcBitIs
<1>2. PICK k \in Sevens : k = y \div 2 /\ CrcBit(y, e) \in {k, Turned(k)}
  BY CrcBitIs
<1>3. PICK l \in 0 .. 6 : l = level - 1
  OBVIOUS
<1>4. Differ(n, k, l)
  BY <1>1, <1>2, <1>3, HalvedFirst DEF Differ
<1>5. /\ Differ(Turned(n), Turned(k), l)
      /\ Differ(Turned(n), k, l) /\ Differ(n, Turned(k), l)
  BY <1>4, TurnedDiffer, TurnedApart
<1> QED
  BY <1>1, <1>2, <1>3, <1>4, <1>5

LEMMA DifferStays ==
  ASSUME NEW x \in Byte, NEW y \in Byte, NEW b \in {0, 1}, Differ(x, y, 0)
  PROVE  Differ(CrcBit(x, b), CrcBit(y, b), 0)
BY SMTT(60) DEF Differ, CrcBit, Byte

LEMMA DifferFirst ==
  ASSUME NEW x \in Byte, NEW b \in {0, 1}
  PROVE  Differ(CrcBit(x, b), CrcBit(x, 1 - b), 7)
BY SMTT(60) DEF Differ, CrcBit, Byte

BitOf(x, j) == (x \div 2^j) % 2

(* Bits that differ from one on differ there or higher up.                 *)
LEMMA DifferUp ==
  ASSUME NEW x \in Byte, NEW y \in Byte, NEW level \in 0 .. 7, Differ(x, y, level)
  PROVE  BitOf(x, level) # BitOf(y, level) \/ (level < 7 /\ Differ(x, y, level + 1))
<1> USE DEF Differ, BitOf, Byte
<1>0. CASE level = 0
  BY <1>0, SMTT(60)
<1>1. CASE level = 1
  BY <1>1, SMTT(60)
<1>2. CASE level = 2
  BY <1>2, SMTT(60)
<1>3. CASE level = 3
  BY <1>3, SMTT(60)
<1>4. CASE level = 4
  BY <1>4, SMTT(60)
<1>5. CASE level = 5
  BY <1>5, SMTT(60)
<1>6. CASE level = 6
  BY <1>6, SMTT(60)
<1>7. CASE level = 7
  BY <1>7, SMTT(60)
<1> QED
  BY <1>0, <1>1, <1>2, <1>3, <1>4, <1>5, <1>6, <1>7

LEMMA DifferBits ==
  ASSUME NEW x \in Byte, NEW y \in Byte, NEW level \in 0 .. 7,
         Differ(x, y, level)
  PROVE  \E j \in level .. 7 : BitOf(x, j) # BitOf(y, j)
<1> DEFINE D(l) == Differ(x, y, l)
           B(l) == BitOf(x, l) # BitOf(y, l)
           S == {k \in 0 .. 7 : D(7 - k) => \E j \in (7 - k) .. 7 : B(j)}
<1>1. \A l \in 0 .. 7 : D(l) => B(l) \/ (l < 7 /\ D(l + 1))
  BY DifferUp
<1> HIDE DEF D, B
<1>2. 0 \in S
  BY <1>1
<1>3. ASSUME NEW k \in 1 .. 7, k - 1 \in S
      PROVE  k \in S
  <2>1. 7 - k \in 0 .. 6 /\ (7 - k) + 1 = 7 - (k - 1)
    OBVIOUS
  <2>2. D(7 - k) => B(7 - k) \/ D(7 - (k - 1))
    BY <1>1, <2>1
  <2>3. D(7 - (k - 1)) => \E j \in (7 - (k - 1)) .. 7 : B(j)
    BY <1>3
  <2> QED
    BY <2>1, <2>2, <2>3
<1> HIDE DEF S
<1>4. \A k \in 0 .. 7 : k \in S
  BY <1>2, <1>3, InductionTo
<1>5. 7 - level \in S /\ 7 - (7 - level) = level
  BY <1>4
<1> QED
  BY <1>5 DEF S, D, B

Words == {x \in Nat : x <= 65535}

LEMMA Powers ==
  ASSUME NEW j \in 0 .. 15
  PROVE  2^j \in Nat \ {0}
<1>1. CASE j = 0
  BY <1>1, SMT
<1>2. CASE j = 1
  BY <1>2, SMT
<1>3. CASE j = 2
  BY <1>3, SMT
<1>4. CASE j = 3
  BY <1>4, SMT
<1>5. CASE j = 4
  BY <1>5, SMT
<1>6. CASE j = 5
  BY <1>6, SMT
<1>7. CASE j = 6
  BY <1>7, SMT
<1>8. CASE j = 7
  BY <1>8, SMT
<1>9. CASE j = 8
  BY <1>9, SMT
<1>10. CASE j = 9
  BY <1>10, SMT
<1>11. CASE j = 10
  BY <1>11, SMT
<1>12. CASE j = 11
  BY <1>12, SMT
<1>13. CASE j = 12
  BY <1>13, SMT
<1>14. CASE j = 13
  BY <1>14, SMT
<1>15. CASE j = 14
  BY <1>15, SMT
<1>16. CASE j = 15
  BY <1>16, SMT
<1> QED
  BY <1>1, <1>2, <1>3, <1>4, <1>5, <1>6, <1>7, <1>8, <1>9, <1>10, <1>11, <1>12, <1>13, <1>14, <1>15, <1>16, SMT

LEMMA BitTyped ==
  ASSUME NEW x \in Words, NEW j \in 0 .. 15
  PROVE  BitOf(x, j) \in {0, 1}
<1>1. ASSUME NEW q \in Nat \ {0} PROVE (x \div q) % 2 \in {0, 1}
  BY SMTT(60) DEF Words
<1> QED
  BY <1>1, Powers, ZenonT(60) DEF BitOf

LEMMA BitsTyped ==
  ASSUME NEW x \in Words, NEW count \in 0 .. 16
  PROVE  /\ Bits(x, count) \in BitsOf(count)
         /\ \A k \in 1 .. count : Bits(x, count)[k] = BitOf(x, k - 1)
<1>1. ASSUME NEW k \in 1 .. count PROVE BitOf(x, k - 1) \in {0, 1}
  <2>1. k - 1 \in 0 .. 15
    OBVIOUS
  <2> QED
    BY <2>1, BitTyped
<1>2. Bits(x, count) = [k \in 1 .. count |-> BitOf(x, k - 1)]
  BY DEF Bits, BitOf
<1> QED
  BY <1>1, <1>2 DEF BitsOf

Data(n) == Bits(Unsigned(n), 16) \o Others

LEMMA Joining ==
  ASSUME NEW m \in Nat, NEW n \in Nat, NEW s \in BitsOf(m), NEW t \in BitsOf(n)
  PROVE  /\ s \o t \in BitsOf(m + n)
         /\ \A k \in 1 .. m : (s \o t)[k] = s[k]
         /\ \A k \in 1 .. n : (s \o t)[m + k] = t[k]
<1>1. s \in Seq({0, 1}) /\ t \in Seq({0, 1}) /\ Len(s) = m /\ Len(t) = n
  BY DEF BitsOf
<1>2. s \o t \in Seq({0, 1}) /\ Len(s \o t) = m + n
  BY <1>1
<1>3. \A k \in 1 .. m : (s \o t)[k] = s[k]
  BY <1>1
<1>4. \A k \in 1 .. n : (s \o t)[m + k] = t[k]
  BY <1>1, SMTT(60)
<1>5. s \o t \in BitsOf(m + n)
  <2>1. s \o t \in [1 .. Len(s \o t) -> {0, 1}]
    BY <1>2, LenProperties
  <2> QED
    BY <1>2, <2>1, Zenon DEF BitsOf
<1> QED
  BY <1>3, <1>4, <1>5

LEMMA OthersTyped == Others \in BitsOf(48)
<1>1. /\ 75 \in Words /\ 70 \in Words /\ 127 \in Words
      /\ 255 \in Words /\ 12 \in Words /\ 16 \in Words /\ 8 \in 0 .. 16
  BY SMT DEF Words
<1>2. /\ Bits(75, 8) \in BitsOf(8) /\ Bits(70, 8) \in BitsOf(8)
      /\ Bits(127, 8) \in BitsOf(8) /\ Bits(255, 8) \in BitsOf(8)
      /\ Bits(12, 8) \in BitsOf(8) /\ Bits(16, 8) \in BitsOf(8)
  BY <1>1, BitsTyped
<1>3. Bits(75, 8) \o Bits(70, 8) \in BitsOf(16)
  BY <1>2, Joining
<1>4. Bits(75, 8) \o Bits(70, 8) \o Bits(127, 8) \in BitsOf(24)
  BY <1>2, <1>3, Joining
<1>5. Bits(75, 8) \o Bits(70, 8) \o Bits(127, 8) \o Bits(255, 8) \in BitsOf(32)
  BY <1>2, <1>4, Joining
<1>6. Bits(75, 8) \o Bits(70, 8) \o Bits(127, 8) \o Bits(255, 8) \o Bits(12, 8)
        \in BitsOf(40)
  BY <1>2, <1>5, Joining
<1> QED
  BY <1>2, <1>6, Joining, SMTT(60) DEF Others

LEMMA DataTyped ==
  ASSUME NEW n \in Int
  PROVE  Data(n) \in BitsOf(64)
<1>1. Unsigned(n) \in Words /\ 16 \in 0 .. 16
  BY SMTT(60) DEF Unsigned, Words
<1>2. Bits(Unsigned(n), 16) \in BitsOf(16)
  BY <1>1, BitsTyped
<1> QED
  BY <1>2, OthersTyped, Joining, SMTT(60) DEF Data

LEMMA ScratchpadBits ==
  ASSUME NEW n \in Int
  PROVE  /\ Scratchpad(n) \in BitsOf(72)
         /\ \A k \in 1 .. 64 : Scratchpad(n)[k] = Data(n)[k]
         /\ \A j \in 0 .. 7 : Scratchpad(n)[65 + j] = BitOf(crc8(Data(n)), j)
         /\ crc8(Data(n)) \in Byte
<1>1. Data(n) \in BitsOf(64)
  BY DataTyped
<1>2. PICK c : CrcTrace(c, Data(n), 64) /\ crc8(Data(n)) = c[64]
  BY <1>1, CrcTraceOf
<1>3. crc8(Data(n)) \in Byte
  BY <1>2 DEF CrcTrace
<1> DEFINE tail == Bits(crc8(Data(n)), 8)
<1>4. /\ tail \in BitsOf(8)
      /\ \A k \in 1 .. 8 : tail[k] = BitOf(crc8(Data(n)), k - 1)
  <2>1. crc8(Data(n)) \in Words /\ 8 \in 0 .. 16
    <3>1. PICK crc \in Byte : crc = crc8(Data(n))
      BY <1>3
    <3>2. crc \in Words /\ 8 \in 0 .. 16
      BY SMTT(60) DEF Byte, Words
    <3> QED
      BY <3>1, <3>2, Zenon
  <2> QED
    BY <2>1, BitsTyped
<1>5. Scratchpad(n) = Data(n) \o tail
  BY DEF Scratchpad, Data
<1> HIDE DEF tail
<1>6. /\ Scratchpad(n) \in BitsOf(72)
      /\ \A k \in 1 .. 64 : Scratchpad(n)[k] = Data(n)[k]
      /\ \A k \in 1 .. 8 : Scratchpad(n)[64 + k] = tail[k]
  <2>1. /\ 64 \in Nat /\ 8 \in Nat
        /\ Data(n) \o tail \in BitsOf(64 + 8) => Data(n) \o tail \in BitsOf(72)
    BY SMT
  <2>2. Data(n) \o tail \in BitsOf(64 + 8)
    BY <1>1, <1>4, <2>1, Joining
  <2>3. \A k \in 1 .. 64 : (Data(n) \o tail)[k] = Data(n)[k]
    BY <1>1, <1>4, <2>1, Joining, ZenonT(60)
  <2>4. \A k \in 1 .. 8 : (Data(n) \o tail)[64 + k] = tail[k]
    BY <1>1, <1>4, <2>1, Joining, ZenonT(60)
  <2> QED
    BY <1>5, <2>1, <2>2, <2>3, <2>4
<1>7. ASSUME NEW j \in 0 .. 7
      PROVE  Scratchpad(n)[65 + j] = BitOf(crc8(Data(n)), j)
  <2>1. j + 1 \in 1 .. 8 /\ 64 + (j + 1) = 65 + j /\ (j + 1) - 1 = j
    OBVIOUS
  <2> QED
    BY <1>4, <1>6, <2>1
<1> QED
  BY <1>3, <1>6, <1>7

LEMMA Slice ==
  ASSUME NEW n \in Nat, NEW t \in BitsOf(n), NEW i \in 1 .. n, NEW j \in i .. n,
         NEW l \in Nat, i + l = j + 1
  PROVE  /\ SubSeq(t, i, j) \in BitsOf(l)
         /\ \A k \in 1 .. l : SubSeq(t, i, j)[k] = t[i + k - 1]
<1>1. t \in Seq({0, 1}) /\ Len(t) = n
  BY DEF BitsOf
<1> DEFINE r == SubSeq(t, i, j)
<1>2. r \in Seq({0, 1}) /\ Len(r) = l
  BY <1>1
<1>3. \A k \in 1 .. l : r[k] = t[i + k - 1]
  BY <1>1
<1>4. r \in [1 .. Len(r) -> {0, 1}]
  BY <1>2, LenProperties
<1> HIDE DEF r
<1>5. r \in BitsOf(l)
  BY <1>2, <1>4, Zenon DEF BitsOf
<1> QED
  BY <1>3, <1>5 DEF r

(* Wrong bits no more than eight apart, the first to the last.             *)
Burst(d) == d \in SUBSET (1 .. 72) /\ d # {} /\ \A i, j \in d : j - i < 8

Level(a, k) == IF k - a >= 7 THEN 0 ELSE 7 - (k - a)

LEMMA CrcsDiffer ==
  ASSUME NEW s \in BitsOf(64), NEW t \in BitsOf(64), NEW a \in 1 .. 64,
         \A k \in 1 .. 64 : k < a => t[k] = s[k],
         t[a] = 1 - s[a],
         \A k \in 1 .. 64 : k > a + 7 => t[k] = s[k]
  PROVE  Differ(crc8(s), crc8(t), Level(a, 64))
<1>1. PICK c : CrcTrace(c, s, 64) /\ crc8(s) = c[64]
  BY CrcTraceOf
<1>2. PICK e : CrcTrace(e, t, 64) /\ crc8(t) = e[64]
  BY CrcTraceOf
<1>3. \A k \in 0 .. 64 : c[k] \in Byte /\ e[k] \in Byte
  BY <1>1, <1>2 DEF CrcTrace
<1>4. \A k \in 1 .. 64 : s[k] \in {0, 1} /\ t[k] \in {0, 1}
  BY SMTT(60) DEF BitsOf
<1>5. /\ c[0] = 0 /\ e[0] = 0
      /\ \A k \in 1 .. 64 : c[k] = CrcBit(c[k - 1], s[k]) /\ e[k] = CrcBit(e[k - 1], t[k])
  BY <1>1, <1>2 DEF CrcTrace
<1> DEFINE S == {k \in 0 .. 64 : IF k < a THEN c[k] = e[k]
                                 ELSE Differ(c[k], e[k], Level(a, k))}
<1>6. 0 \in S
  BY <1>5
<1>7. ASSUME NEW k \in 1 .. 64, k - 1 \in S PROVE k \in S
  <2>1. k - 1 \in 0 .. 64 /\ k \in 0 .. 64
    OBVIOUS
  <2>2. /\ c[k - 1] \in Byte /\ e[k - 1] \in Byte
        /\ s[k] \in {0, 1} /\ t[k] \in {0, 1}
        /\ c[k] = CrcBit(c[k - 1], s[k]) /\ e[k] = CrcBit(e[k - 1], t[k])
    BY <1>3, <1>4, <1>5, <2>1
  <2>3. CASE k < a
    <3>1. c[k - 1] = e[k - 1] /\ s[k] = t[k]
      BY <1>7, <2>3
    <3> QED
      BY <2>1, <2>2, <2>3, <3>1
  <2>4. CASE k = a
    <3>1. c[k - 1] = e[k - 1] /\ Level(a, k) = 7
      BY <1>7, <2>4 DEF Level
    <3>2. Differ(c[k], e[k], 7)
      BY <2>2, <2>4, <3>1, DifferFirst
    <3> QED
      BY <2>1, <2>4, <3>1, <3>2
  <2>5. CASE k > a
    <3>1. Differ(c[k - 1], e[k - 1], Level(a, k - 1))
      BY <1>7, <2>5, SMTT(60)
    <3>2. CASE k - 1 - a < 7
      <4>1. /\ Level(a, k - 1) \in 1 .. 7
            /\ Level(a, k) = Level(a, k - 1) - 1
        BY <2>5, <3>2 DEF Level
      <4>2. Differ(c[k], e[k], Level(a, k - 1) - 1)
        BY <2>2, <3>1, <4>1, DifferStep
      <4> QED
        BY <2>1, <2>5, <4>1, <4>2
    <3>3. CASE k - 1 - a >= 7
      <4>1. Level(a, k - 1) = 0 /\ Level(a, k) = 0 /\ t[k] = s[k]
        BY <3>3 DEF Level
      <4>2. Differ(c[k], e[k], 0)
        BY <2>2, <3>1, <4>1, DifferStays
      <4> QED
        BY <2>1, <2>5, <4>1, <4>2
    <3> QED
      BY <3>2, <3>3
  <2> QED
    BY <2>3, <2>4, <2>5
<1> HIDE DEF S
<1>8. \A k \in 0 .. 64 : k \in S
  BY <1>6, <1>7, InductionTo
<1>9. Differ(c[64], e[64], Level(a, 64))
  BY <1>8 DEF S
<1> QED
  BY <1>1, <1>2, <1>9

(* Up to eight bits in a row read wrong do not pass for a reading: the CRC *)
(* tells every such burst, wherever it is and whatever was measured.       *)
THEOREM BurstsAreReported ==
  ASSUME NEW n \in Int, NEW d, Burst(d)
  PROVE  Heard("sensor", Disturbed(Scratchpad(n), d)).reported
<1> DEFINE s == Scratchpad(n)
           t == Disturbed(s, d)
           a == Min(d)
           data == SubSeq(t, 1, 64)
           crc == SubSeq(t, 65, 72)
<1>1. /\ s \in BitsOf(72)
      /\ \A k \in 1 .. 64 : s[k] = Data(n)[k]
      /\ \A j \in 0 .. 7 : s[65 + j] = BitOf(crc8(Data(n)), j)
      /\ crc8(Data(n)) \in Byte
  BY ScratchpadBits
<1>2. Data(n) \in BitsOf(64)
  BY DataTyped
<1> HIDE DEF s
<1>3. t \in BitsOf(72) /\ \A k \in 1 .. 72 : t[k] = IF k \in d THEN 1 - s[k] ELSE s[k]
  BY <1>1 DEF Disturbed, BitsOf
<1> HIDE DEF t
<1>4. data \in BitsOf(64) /\ \A k \in 1 .. 64 : data[k] = t[k]
  <2>1. data \in BitsOf(64) /\ \A k \in 1 .. 64 : data[k] = t[1 + k - 1]
    BY <1>3, Slice
  <2>2. \A k \in 1 .. 64 : 1 + k - 1 = k
    OBVIOUS
  <2> QED
    BY <2>1, <2>2
<1>5. \A j \in 0 .. 7 : crc[j + 1] = t[65 + j]
  <2>1. \A k \in 1 .. 8 : crc[k] = t[65 + k - 1]
    BY <1>3, Slice
  <2>2. \A j \in 0 .. 7 : j + 1 \in 1 .. 8 /\ 65 + (j + 1) - 1 = 65 + j
    OBVIOUS
  <2> QED
    BY <2>1, <2>2
<1>6. a \in d /\ \A k \in d : a <= k
  BY LeastIn DEF Burst
<1> HIDE DEF a, data, crc
<1>7. a \in 1 .. 72 /\ \A k \in d : k \in 1 .. 72 /\ k <= a + 7
  BY <1>6 DEF Burst
<1>8. crc8(data) \in Byte
  <2>1. PICK c : CrcTrace(c, data, 64) /\ crc8(data) = c[64]
    BY <1>4, CrcTraceOf
  <2> QED
    BY <2>1 DEF CrcTrace
<1>9. \E j \in 0 .. 7 : BitOf(crc8(data), j) # t[65 + j]
  <2>1. CASE a >= 65
    <3>1. \A k \in 1 .. 64 : data[k] = Data(n)[k]
      <4> SUFFICES ASSUME NEW k \in 1 .. 64 PROVE data[k] = Data(n)[k]
        OBVIOUS
      <4>1. k \notin d /\ k \in 1 .. 72
        BY <1>6, <1>7, <2>1
      <4> QED
        BY <1>1, <1>3, <1>4, <4>1
    <3>2. data = Data(n)
      BY <3>1, <1>2, <1>4 DEF BitsOf
    <3>3. a - 65 \in 0 .. 7 /\ 65 + (a - 65) = a
      BY <1>7, <2>1
    <3>4. t[a] = 1 - s[a] /\ s[a] \in {0, 1}
      BY <1>1, <1>3, <1>6, <1>7 DEF BitsOf
    <3>5. t[a] # s[a]
      BY <3>4
    <3> QED
      BY <1>1, <3>2, <3>3, <3>5
  <2>2. CASE a <= 64
    <3>1. a \in 1 .. 64
      BY <1>7, <2>2, SMTT(60)
    <3>2. /\ \A k \in 1 .. 64 : k < a => data[k] = Data(n)[k]
          /\ data[a] = 1 - Data(n)[a]
          /\ \A k \in 1 .. 64 : k > a + 7 => data[k] = Data(n)[k]
      BY <1>1, <1>3, <1>4, <1>6, <1>7, <3>1, SMTT(60)
    <3>3. Differ(crc8(Data(n)), crc8(data), Level(a, 64))
      BY <1>2, <1>4, <3>1, <3>2, CrcsDiffer, ZenonT(60)
    <3>4. Level(a, 64) \in 0 .. 7 /\ 65 + Level(a, 64) > a + 7
      BY <3>1 DEF Level
    <3>5. PICK j \in Level(a, 64) .. 7 :
            BitOf(crc8(Data(n)), j) # BitOf(crc8(data), j)
      BY <1>1, <1>8, <3>3, <3>4, DifferBits
    <3>6. j \in 0 .. 7 /\ 65 + j \in 1 .. 72 /\ 65 + j > a + 7
      <4>1. PICK l \in 0 .. 7 : l = Level(a, 64) /\ 65 + l > a + 7
        BY <3>4
      <4>2. j \in l .. 7
        BY <3>5, <4>1, Zenon
      <4> QED
        BY <3>1, <4>1, <4>2
    <3>7. t[65 + j] = s[65 + j]
      <4>1. 65 + j \notin d
        BY <1>7, <3>6
      <4> QED
        BY <1>3, <3>6, <4>1
    <3> QED
      BY <1>1, <3>5, <3>6, <3>7
  <2> QED
    BY <1>7, <2>1, <2>2
<1>10. Bits(crc8(data), 8) # crc
  <2>1. PICK j \in 0 .. 7 : BitOf(crc8(data), j) # t[65 + j]
    BY <1>9, SMTT(60)
  <2>2. crc8(data) \in Words /\ 8 \in 0 .. 16
    BY <1>8, SMTT(60) DEF Byte, Words
  <2>3. j + 1 \in 1 .. 8 /\ (j + 1) - 1 = j
    OBVIOUS
  <2>4. Bits(crc8(data), 8)[j + 1] = BitOf(crc8(data), j)
    BY <2>2, <2>3, BitsTyped
  <2> QED
    BY <1>5, <2>1, <2>4
<1> QED
  BY <1>10 DEF Heard, data, crc, t, s

-----------------------------------------------------------------------------
WordTrace(w, bits) ==
  w \in [0 .. 16 -> Nat] /\ w[16] = 0
  /\ \A k \in 1 .. 16 : w[k - 1] = 2 * w[k] + bits[k]

LEMMA WordTraceOf ==
  ASSUME NEW bits \in BitsOf(72)
  PROVE  \E w : WordTrace(w, bits) /\ Word(bits) = w[0]
<1> DEFINE low == SubSeq(bits, 1, 16)
           n == 16
           step == [x \in (1 .. n) \X Nat |-> 2 * x[2] + low[x[1]]]
           Obeys(iter) == iter = [T \in SUBSET (1 .. n) |->
              IF T = {} THEN 0 ELSE 2 * iter[T \ {Min(T)}] + low[Min(T)]]
           found == CHOOSE iter : Obeys(iter)
<1>0. n \in Nat
  OBVIOUS
<1>1. low \in BitsOf(n) /\ \A k \in 1 .. 16 : low[k] = bits[k]
  <2>1. low \in BitsOf(16) /\ \A k \in 1 .. 16 : low[k] = bits[1 + k - 1]
    BY Slice
  <2>2. \A k \in 1 .. 16 : 1 + k - 1 = k
    OBVIOUS
  <2> QED
    BY <2>1, <2>2
<1> HIDE DEF low
<1>2. step \in [(1 .. n) \X Nat -> Nat]
  BY <1>1 DEF BitsOf
<1>3. DOMAIN low = 1 .. n
  BY <1>1 DEF BitsOf
<1>4. Word(bits) = found[1 .. n]
  <2>1. Word(bits) = (LET Up(b, sum) == 2 * sum + b IN FoldRight(Up, low, 0))
    BY Zenon DEF Word, low
  <2> QED
    BY <2>1, <1>3, Zenon DEF FoldRight, MapThenFoldSet
<1>5. \A v \in Nat, k \in 1 .. n : step[<<k, v>>] = 2 * v + low[k]
  OBVIOUS
<1> HIDE DEF step, n
<1>6. PICK it \in [SUBSET (1 .. n) -> Nat] :
        it = [T \in SUBSET (1 .. n) |->
               IF T = {} THEN 0 ELSE step[<<Min(T), it[T \ {Min(T)}]>>]]
  <2>1. HasRightFold(n, Nat, 0, step)
    BY <1>0, <1>2, FoldRightExists
  <2> QED
    BY <2>1 DEF HasRightFold
<1>7. Obeys(it)
  <2>1. ASSUME NEW T \in SUBSET (1 .. n), T # {}
        PROVE  step[<<Min(T), it[T \ {Min(T)}]>>]
                 = 2 * it[T \ {Min(T)}] + low[Min(T)]
    <3>1. Min(T) \in 1 .. n /\ it[T \ {Min(T)}] \in Nat
      BY <1>0, <2>1, LeastIn
    <3> QED
      BY <1>5, <3>1
  <2>2. \A T \in SUBSET (1 .. n) :
          (IF T = {} THEN 0 ELSE step[<<Min(T), it[T \ {Min(T)}]>>])
            = IF T = {} THEN 0 ELSE 2 * it[T \ {Min(T)}] + low[Min(T)]
    BY <2>1, Zenon
  <2> QED
    BY <1>6, <2>2, Zenon
<1>8. Obeys(found)
  BY <1>7, Zenon
<1> HIDE DEF found
<1>9. found[{}] = 0
  BY <1>0, <1>8, Ends
<1>10. ASSUME NEW T \in SUBSET (1 .. n), T # {}, found[T \ {Min(T)}] \in Nat
       PROVE  found[T] = step[<<Min(T), found[T \ {Min(T)}]>>]
  <2>1. Min(T) \in 1 .. n
    BY <1>0, <1>10, LeastIn
  <2>2. found[T] = 2 * found[T \ {Min(T)}] + low[Min(T)]
    BY <1>8, <1>10
  <2> QED
    BY <1>5, <1>10, <2>1, <2>2
<1>11. PICK c \in [0 .. n -> Nat] : RightTrace(c, 0, step, n) /\ found[1 .. n] = c[0]
  <2>1. FoldsRight(found, n, Nat, 0, step)
    BY <1>9, <1>10 DEF FoldsRight
  <2>2. TracedRight(found, n, Nat, 0, step)
    BY <1>0, <1>2, <2>1, RightTraceOf
  <2> QED
    BY <2>2 DEF TracedRight
<1>12. \A k \in 1 .. n : c[k - 1] = 2 * c[k] + low[k]
  <2> SUFFICES ASSUME NEW k \in 1 .. n PROVE c[k - 1] = 2 * c[k] + low[k]
    OBVIOUS
  <2>1. c[k] \in Nat
    BY <1>0
  <2> QED
    BY <1>5, <1>11, <2>1 DEF RightTrace
<1>13. c[n] = 0
  BY <1>11 DEF RightTrace
<1>14. WordTrace(c, bits)
  BY <1>1, <1>12, <1>13 DEF WordTrace, n
<1> QED
  BY <1>4, <1>11, <1>14

LEMMA Halved ==
  ASSUME NEW u \in Words, NEW k \in 1 .. 16
  PROVE  u \div 2^(k - 1) = 2 * (u \div 2^k) + BitOf(u, k - 1)
<1>1. CASE k = 1
  BY <1>1, SMTT(60) DEF Words, BitOf
<1>2. CASE k = 2
  BY <1>2, SMTT(60) DEF Words, BitOf
<1>3. CASE k = 3
  BY <1>3, SMTT(60) DEF Words, BitOf
<1>4. CASE k = 4
  BY <1>4, SMTT(60) DEF Words, BitOf
<1>5. CASE k = 5
  BY <1>5, SMTT(60) DEF Words, BitOf
<1>6. CASE k = 6
  BY <1>6, SMTT(60) DEF Words, BitOf
<1>7. CASE k = 7
  BY <1>7, SMTT(60) DEF Words, BitOf
<1>8. CASE k = 8
  BY <1>8, SMTT(60) DEF Words, BitOf
<1>9. CASE k = 9
  BY <1>9, SMTT(60) DEF Words, BitOf
<1>10. CASE k = 10
  BY <1>10, SMTT(60) DEF Words, BitOf
<1>11. CASE k = 11
  BY <1>11, SMTT(60) DEF Words, BitOf
<1>12. CASE k = 12
  BY <1>12, SMTT(60) DEF Words, BitOf
<1>13. CASE k = 13
  BY <1>13, SMTT(60) DEF Words, BitOf
<1>14. CASE k = 14
  BY <1>14, SMTT(60) DEF Words, BitOf
<1>15. CASE k = 15
  BY <1>15, SMTT(60) DEF Words, BitOf
<1>16. CASE k = 16
  BY <1>16, SMTT(60) DEF Words, BitOf
<1> QED
  BY <1>1, <1>2, <1>3, <1>4, <1>5, <1>6, <1>7, <1>8, <1>9, <1>10, <1>11, <1>12, <1>13, <1>14, <1>15, <1>16, SMTT(60)

(* The two's complement of a reading is read as it was written.            *)
LEMMA WordOfScratchpad ==
  ASSUME NEW n \in Int
  PROVE  Word(Scratchpad(n)) = Unsigned(n)
<1> DEFINE u == Unsigned(n)
<1>1. u \in Words /\ 16 \in 0 .. 16
  BY SMTT(60) DEF Unsigned, Words
<1> HIDE DEF u
<1>2. /\ Scratchpad(n) \in BitsOf(72)
      /\ \A k \in 1 .. 64 : Scratchpad(n)[k] = Data(n)[k]
  BY ScratchpadBits
<1>3. \A k \in 1 .. 16 : Scratchpad(n)[k] = BitOf(u, k - 1)
  <2>1. Bits(u, 16) \in BitsOf(16)
    BY <1>1, BitsTyped
  <2>2. \A k \in 1 .. 16 : Data(n)[k] = Bits(u, 16)[k]
    <3>1. Data(n) = Bits(u, 16) \o Others
      BY DEF Data, u
    <3>2. 16 \in Nat /\ 48 \in Nat
      OBVIOUS
    <3>3. \A k \in 1 .. 16 : (Bits(u, 16) \o Others)[k] = Bits(u, 16)[k]
      BY <2>1, <3>2, OthersTyped, Joining, ZenonT(60)
    <3> QED
      BY <3>1, <3>3, Zenon
  <2>3. \A k \in 1 .. 16 : Bits(u, 16)[k] = BitOf(u, k - 1)
    BY <1>1, BitsTyped
  <2> QED
    BY <1>2, <2>2, <2>3
<1>4. PICK w : WordTrace(w, Scratchpad(n)) /\ Word(Scratchpad(n)) = w[0]
  BY <1>2, WordTraceOf
<1> DEFINE S == {k \in 0 .. 16 : w[k] = u \div 2^k}
<1>5. 16 \in S
  <2>1. u \div 2^16 = 0
    BY <1>1, SMTT(60) DEF Words
  <2> QED
    BY <1>4, <2>1, SMTT(60) DEF WordTrace
<1>6. ASSUME NEW k \in 1 .. 16, k \in S PROVE k - 1 \in S
  <2>1. w[k] = u \div 2^k /\ k - 1 \in 0 .. 16
    BY <1>6
  <2>2. w[k - 1] = 2 * w[k] + BitOf(u, k - 1)
    BY <1>3, <1>4 DEF WordTrace
  <2>3. u \div 2^(k - 1) = 2 * (u \div 2^k) + BitOf(u, k - 1)
    BY <1>1, Halved
  <2>4. w[k - 1] = u \div 2^(k - 1)
    BY <2>1, <2>2, <2>3, Zenon
  <2> QED
    BY <2>1, <2>4
<1> HIDE DEF S
<1>7. \A k \in 0 .. 16 : k \in S
  BY <1>5, <1>6, InductionDown
<1>8. w[0] = u \div 2^0
  BY <1>7 DEF S
<1>9. u \div 2^0 = u
  BY <1>1, SMT DEF Words
<1> QED
  BY <1>4, <1>8, <1>9 DEF u

Constantly(b) == [k \in 1 .. 72 |-> b]
Ones == 65535

LEMMA WordOfOnes == Word(Constantly(1)) = Ones
<1> DEFINE ones == Constantly(1)
<1>1. ones \in BitsOf(72) /\ \A k \in 1 .. 16 : ones[k] = 1
  BY DEF BitsOf, Constantly
<1> HIDE DEF ones
<1>2. PICK w : WordTrace(w, ones) /\ Word(ones) = w[0]
  BY <1>1, WordTraceOf
<1>3. w[16] = 0 /\ \A k \in 1 .. 16 : w[k - 1] = 2 * w[k] + 1
  BY <1>1, <1>2 DEF WordTrace
<1>4. /\ w[15] = 2 * w[16] + 1 /\ w[14] = 2 * w[15] + 1 /\ w[13] = 2 * w[14] + 1
      /\ w[12] = 2 * w[13] + 1 /\ w[11] = 2 * w[12] + 1 /\ w[10] = 2 * w[11] + 1
      /\ w[9] = 2 * w[10] + 1 /\ w[8] = 2 * w[9] + 1 /\ w[7] = 2 * w[8] + 1
      /\ w[6] = 2 * w[7] + 1 /\ w[5] = 2 * w[6] + 1 /\ w[4] = 2 * w[5] + 1
      /\ w[3] = 2 * w[4] + 1 /\ w[2] = 2 * w[3] + 1 /\ w[1] = 2 * w[2] + 1
      /\ w[0] = 2 * w[1] + 1
  BY <1>3, SMTT(60)
<1>5. w[0] = Ones
  BY <1>3, <1>4, SMT DEF Ones
<1> QED
  BY <1>2, <1>5 DEF ones

(* A bus nobody drives fails the CRC.                                      *)
LEMMA CrcOfOnes ==
  ASSUME NEW bits \in BitsOf(64), \A k \in 1 .. 64 : bits[k] = 1
  PROVE  crc8(bits) = 201
<1>1. PICK c : CrcTrace(c, bits, 64) /\ crc8(bits) = c[64]
  BY CrcTraceOf
<1>2. c[0] = 0 /\ \A k \in 1 .. 64 : c[k] = CrcBit(c[k - 1], 1)
  BY <1>1 DEF CrcTrace
<1>3. c[1] = 140 /\ c[2] = 202 /\ c[3] = 233 /\ c[4] = 116
      /\ c[5] = 182 /\ c[6] = 215 /\ c[7] = 107 /\ c[8] = 53
  BY <1>2, SMTT(60) DEF CrcBit
<1>4. c[9] = 26 /\ c[10] = 129 /\ c[11] = 64 /\ c[12] = 172
      /\ c[13] = 218 /\ c[14] = 225 /\ c[15] = 112 /\ c[16] = 180
  BY <1>2, <1>3, SMTT(60) DEF CrcBit
<1>5. c[17] = 214 /\ c[18] = 231 /\ c[19] = 115 /\ c[20] = 57
      /\ c[21] = 28 /\ c[22] = 130 /\ c[23] = 205 /\ c[24] = 102
  BY <1>2, <1>4, SMTT(60) DEF CrcBit
<1>6. c[25] = 191 /\ c[26] = 95 /\ c[27] = 47 /\ c[28] = 23
      /\ c[29] = 11 /\ c[30] = 5 /\ c[31] = 2 /\ c[32] = 141
  BY <1>2, <1>5, SMTT(60) DEF CrcBit
<1>7. c[33] = 70 /\ c[34] = 175 /\ c[35] = 87 /\ c[36] = 43
      /\ c[37] = 21 /\ c[38] = 10 /\ c[39] = 137 /\ c[40] = 68
  BY <1>2, <1>6, SMTT(60) DEF CrcBit
<1>8. c[41] = 174 /\ c[42] = 219 /\ c[43] = 109 /\ c[44] = 54
      /\ c[45] = 151 /\ c[46] = 75 /\ c[47] = 37 /\ c[48] = 18
  BY <1>2, <1>7, SMTT(60) DEF CrcBit
<1>9. c[49] = 133 /\ c[50] = 66 /\ c[51] = 173 /\ c[52] = 86
      /\ c[53] = 167 /\ c[54] = 83 /\ c[55] = 41 /\ c[56] = 20
  BY <1>2, <1>8, SMTT(60) DEF CrcBit
<1>10. c[57] = 134 /\ c[58] = 207 /\ c[59] = 103 /\ c[60] = 51
      /\ c[61] = 25 /\ c[62] = 12 /\ c[63] = 138 /\ c[64] = 201
  BY <1>2, <1>9, SMTT(60) DEF CrcBit
<1> QED
  BY <1>1, <1>10

-----------------------------------------------------------------------------
(* The search ends at a sensor of the bus.                                 *)
Zeros(left, k) ==
  IF \E rom \in left : rom[k] = 0 THEN {rom \in left : rom[k] = 0} ELSE left

LEMMA SearchNarrows ==
  ASSUME NEW P, P # {}, NEW n \in Nat
  PROVE  FoldLeft(Zeros, P, [k \in 1 .. n |-> k]) \in (SUBSET P) \ {{}}
<1> DEFINE V == (SUBSET P) \ {{}}
           seq == [k \in 1 .. n |-> k]
           step == [x \in V \X (1 .. n) |-> Zeros(x[1], x[2])]
           Obeys(iter) == iter = [T \in SUBSET (1 .. n) |->
              IF T = {} THEN P ELSE Zeros(iter[T \ {Max(T)}], seq[Max(T)])]
           found == CHOOSE iter : Obeys(iter)
<1>1. \A v \in V, k \in 1 .. n : Zeros(v, k) \in V
  BY DEF Zeros
<1>2. step \in [V \X (1 .. n) -> V] /\ P \in V
  BY <1>1
<1>3. DOMAIN seq = 1 .. n /\ \A k \in 1 .. n : seq[k] = k
  OBVIOUS
<1> HIDE DEF seq, V
<1>4. FoldLeft(Zeros, P, seq) = found[1 .. n]
  BY <1>3, Zenon DEF FoldLeft, MapThenFoldSet
<1>5. \A v \in V, k \in 1 .. n : step[<<v, k>>] = Zeros(v, seq[k])
  BY <1>3
<1> HIDE DEF step
<1>6. PICK it \in [SUBSET (1 .. n) -> V] :
        it = [T \in SUBSET (1 .. n) |->
               IF T = {} THEN P ELSE step[<<it[T \ {Max(T)}], Max(T)>>]]
  <2>1. HasLeftFold(n, V, P, step)
    BY <1>2, FoldLeftExists
  <2> QED
    BY <2>1 DEF HasLeftFold
<1>7. Obeys(it)
  <2>1. ASSUME NEW T \in SUBSET (1 .. n), T # {}
        PROVE  step[<<it[T \ {Max(T)}], Max(T)>>]
                 = Zeros(it[T \ {Max(T)}], seq[Max(T)])
    <3>1. Max(T) \in 1 .. n /\ it[T \ {Max(T)}] \in V
      BY <2>1, LargestIn
    <3> QED
      BY <1>5, <3>1
  <2>2. \A T \in SUBSET (1 .. n) :
          (IF T = {} THEN P ELSE step[<<it[T \ {Max(T)}], Max(T)>>])
            = IF T = {} THEN P ELSE Zeros(it[T \ {Max(T)}], seq[Max(T)])
    BY <2>1, Zenon
  <2> QED
    BY <1>6, <2>2, Zenon
<1>8. Obeys(found)
  BY <1>7, Zenon
<1> HIDE DEF found
<1>9. found[{}] = P
  BY <1>8, Ends
<1>10. ASSUME NEW T \in SUBSET (1 .. n), T # {}, found[T \ {Max(T)}] \in V
       PROVE  found[T] = step[<<found[T \ {Max(T)}], Max(T)>>]
  <2>1. Max(T) \in 1 .. n
    BY <1>10, LargestIn
  <2>2. found[T] = Zeros(found[T \ {Max(T)}], seq[Max(T)])
    BY <1>8, <1>10
  <2> QED
    BY <1>5, <1>10, <2>1, <2>2
<1>11. PICK c \in [0 .. n -> V] : found[1 .. n] = c[n]
  <2>1. FoldsLeft(found, n, V, P, step)
    BY <1>9, <1>10 DEF FoldsLeft
  <2>2. TracedLeft(found, n, V, P, step)
    BY <1>2, <2>1, LeftTraceOf
  <2> QED
    BY <2>2 DEF TracedLeft
<1> QED
  BY <1>4, <1>11 DEF seq, V

(* If there is a sensor and no short circuit, the search finds one that is *)
(* on the bus, however many there are and however long addresses are.      *)
THEOREM SearchFindsPresent ==
  ASSUME present # {}, ~shorted
  PROVE  ds_search \in present
<1>1. RomBits \in Nat
  BY SensorAssumption
<1> DEFINE left == FoldLeft(Zeros, present, [k \in 1 .. RomBits |-> k])
<1>2. left \in (SUBSET present) \ {{}}
  BY <1>1, SearchNarrows
<1>3. ds_search = CHOOSE rom \in left : TRUE
  BY Zenon DEF ds_search, Zeros
<1> HIDE DEF left
<1> QED
  BY <1>2, <1>3

LEMMA SearchTyped ==
  ASSUME present \subseteq Roms
  PROVE  ds_search \in Roms \cup {NoRom}
<1>1. CASE present = {} \/ shorted
  BY <1>1 DEF ds_search
<1>2. CASE present # {} /\ ~shorted
  BY <1>2, SearchFindsPresent
<1> QED
  BY <1>1, <1>2

-----------------------------------------------------------------------------
Lowest == -32768
Highest == 32767

LEMMA Int16Typed ==
  ASSUME NEW x \in Int
  PROVE  Int16(x) \in Temperatures /\ Int16(x) \in Int
<1>1. Int16(x) \in Int /\ Lowest <= Int16(x) /\ Int16(x) <= Highest
  BY SMT DEF Int16, Lowest, Highest
<1>2. Lowest \in Int /\ Highest \in Int
  BY SMT DEF Lowest, Highest
<1>3. Int16(x) \in Lowest .. Highest
  BY <1>1, <1>2, SMT
<1>4. Temperatures = Lowest .. Highest
  BY SMT DEF Lowest, Highest, Temperatures
<1> QED
  BY <1>1, <1>3, <1>4, SMT

LEMMA ReadingTyped ==
  ASSUME NEW family, NEW word \in Nat, NEW c \in Offsets
  PROVE  Reading(family, word, c) \in Temperatures
<1> DEFINE tVal == IF word >= 32768 THEN 65536 - word ELSE word
           h == Hundredths(family, tVal)
           t == Int16(Int16(h) + c)
<1>1. tVal \in Int
  BY SMT
<1>2. Reading(family, word, c) = IF word >= 32768 THEN Int16(-t) ELSE t
  BY SMT DEF Reading
<1> HIDE DEF tVal
<1>3. h \in Int
  <2>1. CASE Unit(family) = 2
    BY <1>1, <2>1, SMT DEF Hundredths
  <2>2. CASE Unit(family) = 16
    BY <1>1, <2>2, SMTT(60) DEF Hundredths
  <2> QED
    BY <2>1, <2>2, SMT DEF Unit
<1> HIDE DEF h
<1>4. Int16(h) + c \in Int
  BY <1>3, Int16Typed, SMTT(60) DEF Offsets
<1>5. t \in Temperatures /\ Int16(-t) \in Temperatures
  BY <1>4, Int16Typed, SMT
<1> HIDE DEF t
<1> QED
  BY <1>2, <1>5, SMT

(* What a reading makes of the bits is typed, whatever they are.           *)
LEMMA HeardTyped ==
  ASSUME NEW bits \in BitsOf(72), NEW from
  PROVE  /\ Heard(from, bits).from = from
         /\ Heard(from, bits).word \in Nat
         /\ Heard(from, bits).reported \in BOOLEAN
<1>1. Word(bits) \in Nat
  <2>1. PICK w : WordTrace(w, bits) /\ Word(bits) = w[0]
    BY WordTraceOf
  <2> QED
    BY <2>1 DEF WordTrace
<1> QED
  BY <1>1, Zenon DEF Heard

LEMMA DisturbedTyped ==
  ASSUME NEW bits \in BitsOf(72), NEW d
  PROVE  Disturbed(bits, d) \in BitsOf(72)
BY DEF Disturbed, BitsOf

LEMMA ConstantlyTyped ==
  ASSUME NEW b \in {0, 1}
  PROVE  Constantly(b) \in BitsOf(72)
BY DEF Constantly, BitsOf

Sources == {"sensor", "nobody", "short"}

LEMMA AllHeardTyped ==
  ASSUME NEW heard \in AllHeard, register \in Registers \cup {0}
  PROVE  heard.from \in Sources /\ heard.word \in Nat /\ heard.reported \in BOOLEAN
<1>1. CASE shorted
  <2>1. heard = Heard("short", Constantly(0))
    BY <1>1, Zenon DEF AllHeard, FromShort, Constantly
  <2> QED
    BY <2>1, ConstantlyTyped, HeardTyped DEF Sources
<1>2. CASE ~shorted /\ temperature_deviceId \notin present
  <2>1. heard = Heard("nobody", Constantly(1))
    BY <1>2, Zenon DEF AllHeard, FromNobody, Constantly
  <2> QED
    BY <2>1, ConstantlyTyped, HeardTyped DEF Sources
<1>3. CASE ~shorted /\ temperature_deviceId \in present
  <2>1. AllHeard = FromSensor[register]
    BY <1>3, Zenon DEF AllHeard
  <2>2. \/ heard = Heard("sensor", Scratchpad(register))
        \/ \E d \in Disturbances :
             heard = Heard("sensor", Disturbed(Scratchpad(register), d))
    BY <2>1, SMTT(60) DEF FromSensor
  <2>3. Scratchpad(register) \in BitsOf(72)
    BY ScratchpadBits, SensorAssumption, SMTT(60)
  <2> QED
    BY <2>2, <2>3, DisturbedTyped, HeardTyped DEF Sources
<1> QED
  BY <1>1, <1>2, <1>3

(* A reading of the addressed sensor that is not reported is undisturbed.  *)
LEMMA FromSensorTrue ==
  ASSUME \A d \in Disturbances : Burst(d),
         NEW heard \in AllHeard, register \in Registers \cup {0},
         heard.from = "sensor", ~heard.reported
  PROVE  heard.word = Unsigned(register)
<1>1. ~shorted /\ temperature_deviceId \in present
  <2>1. \A bits : Heard("short", bits).from = "short" /\ Heard("nobody", bits).from = "nobody"
    BY DEF Heard
  <2>2. shorted => heard = FromShort
    BY DEF AllHeard
  <2>3. ~shorted /\ temperature_deviceId \notin present => heard = FromNobody
    BY DEF AllHeard
  <2> QED
    BY <2>1, <2>2, <2>3 DEF FromShort, FromNobody
<1>2. AllHeard = FromSensor[register]
  BY <1>1, Zenon DEF AllHeard
<1>3. \/ heard = Heard("sensor", Scratchpad(register))
      \/ \E d \in Disturbances :
           heard = Heard("sensor", Disturbed(Scratchpad(register), d))
  BY <1>2 DEF FromSensor
<1>4. register \in Int
  BY SensorAssumption
<1>5. heard = Heard("sensor", Scratchpad(register))
  BY <1>3, <1>4, BurstsAreReported
<1>6. heard.word = Word(Scratchpad(register))
  BY <1>5 DEF Heard
<1> QED
  BY <1>4, <1>6, WordOfScratchpad

LEMMA FromNobodyReported ==
  ASSUME NEW heard \in AllHeard, register \in Registers \cup {0},
         heard.from = "nobody"
  PROVE  heard.reported /\ heard.word = Ones
<1>1. heard = FromNobody
  <2>1. \A bits : Heard("short", bits).from = "short" /\ Heard("sensor", bits).from = "sensor"
    BY DEF Heard
  <2>2. shorted => heard = FromShort
    BY DEF AllHeard
  <2>3. ~shorted /\ temperature_deviceId \notin present => heard = FromNobody
    BY DEF AllHeard
  <2>4. ~shorted /\ temperature_deviceId \in present => heard \in FromSensor[register]
    BY DEF AllHeard
  <2>5. heard \in FromSensor[register] => heard.from = "sensor"
    BY <2>1 DEF FromSensor
  <2> QED
    BY <2>1, <2>2, <2>3, <2>4, <2>5 DEF FromShort
<1> DEFINE ones == Constantly(1)
           data == SubSeq(ones, 1, 64)
           crc == SubSeq(ones, 65, 72)
<1>2. ones \in BitsOf(72) /\ \A k \in 1 .. 72 : ones[k] = 1
  BY ConstantlyTyped DEF Constantly
<1>3. heard = Heard("nobody", ones)
  BY <1>1 DEF FromNobody, Constantly
<1>4. heard.word = Ones
  BY <1>3, WordOfOnes, Zenon DEF Heard, Constantly
<1> HIDE DEF ones
<1>5. data \in BitsOf(64) /\ \A k \in 1 .. 64 : data[k] = 1
  <2>1. data \in BitsOf(64) /\ \A k \in 1 .. 64 : data[k] = ones[1 + k - 1]
    BY <1>2, Slice
  <2>2. \A k \in 1 .. 64 : 1 + k - 1 \in 1 .. 72
    OBVIOUS
  <2> QED
    BY <1>2, <2>1, <2>2
<1>6. crc[2] = 1
  <2>1. \A k \in 1 .. 8 : crc[k] = ones[65 + k - 1]
    BY <1>2, Slice
  <2>2. crc[2] = ones[66]
    BY <2>1
  <2> QED
    BY <1>2, <2>2
<1>7. heard.reported = (Bits(crc8(data), 8) # crc)
  BY <1>3, Zenon DEF Heard
<1> HIDE DEF data, crc
<1>8. crc8(data) = 201
  BY <1>5, CrcOfOnes
<1>9. Bits(crc8(data), 8)[2] = 0
  BY <1>8, SMT DEF Bits
<1>10. Bits(crc8(data), 8) # crc
  BY <1>6, <1>9, SMT
<1> QED
  BY <1>4, <1>7, <1>10, Zenon

-----------------------------------------------------------------------------
LEMMA ClockTypeStep ==
  ASSUME ClockTypeOK, [Next]_vars
  PROVE  ClockTypeOK'
<1> USE ClockAssumption DEF ClockTypeOK
<1>1. CASE UNCHANGED clock
  BY <1>1 DEF clock
<1>2. CASE WifiGotIp
  BY <1>2 DEF WifiGotIp, ntp_init
<1>3. CASE WifiRenewed
  BY <1>3 DEF WifiRenewed, ntp_init
<1>4. CASE WifiDisconnected
  BY <1>4 DEF WifiDisconnected
<1>5. CASE Restart
  BY <1>5 DEF Restart, ClockStarts
<1>6. CASE ClockStep
  <2>6. ASSUME NEW connection
        PROVE  Asked(connection) \in 0 .. MaxUnderWay
    <3>1. underWay \in 0 .. MaxUnderWay
      BY Zenon
    <3>2. underWay < MaxUnderWay => underWay + 1 \in 0 .. MaxUnderWay
      BY <3>1
    <3> QED
      BY <3>1, <3>2, Zenon DEF Asked
  <2>7. underWay > 0 => underWay - 1 \in 0 .. MaxUnderWay
    <3>1. underWay \in 0 .. MaxUnderWay
      BY Zenon
    <3> QED
      BY <3>1
  <2>1. CASE ntp_timeout_handler
    BY <2>1, <2>6, Zenon DEF ntp_timeout_handler
  <2>2. CASE ntp_connect
    BY <2>2, <2>6, Zenon DEF ntp_connect
  <2>3. CASE ntp_receive
    BY <2>3, <2>7, Zenon DEF ntp_receive
  <2>4. CASE Unheard
    BY <2>4, <2>7, Zenon DEF Unheard
  <2>5. CASE Lose
    BY <2>5 DEF Lose
  <2> QED
    BY <1>6, <2>1, <2>2, <2>3, <2>4, <2>5 DEF ClockStep, ClockNext
<1>7. Next => \/ UNCHANGED clock \/ WifiGotIp \/ WifiRenewed
              \/ WifiDisconnected \/ Restart \/ ClockStep
  BY SMTT(60) DEF Next, SensorStep, UpgradeStep, Command
<1> QED
  BY <1>1, <1>2, <1>3, <1>4, <1>5, <1>6, <1>7 DEF vars

LEMMA SensorConstants ==
  /\ Registers \cup {0} \subseteq Int
  /\ Calibrations \cup {0} \subseteq Offsets
  /\ MaxBusChanges \in Nat
BY SensorAssumption, SMTT(60) DEF Offsets

LEMMA ZeroTemperature == 0 \in Temperatures
<1>1. 0 = Int16(0)
  BY SMT DEF Int16
<1> QED
  BY <1>1, Int16Typed

(* A sensor's register holds what that kind of sensor measures, or zero.   *)
RegisterFits == InRange(Family(temperature_deviceId), register)
SensorInv == SensorTypeOK /\ RegisterFits

LEMMA ZeroInRange ==
  ASSUME NEW family
  PROVE  InRange(family, 0)
BY SMT DEF InRange, Unit

LEMMA SensorNextCases ==
  ASSUME [Next]_vars
  PROVE  \/ UNCHANGED sensor
         \/ temperature_init /\ UNCHANGED bus
         \/ ds_request_temp \/ ds_read_temp \/ BusChanges \/ handleTempCalibration
BY DEF Next, vars, WifiGotIp, WifiRenewed, WifiDisconnected, Restart, ClockStep,
       SensorStep, SensorNext, UpgradeStep, Command

LEMMA SensorInvStep ==
  ASSUME SensorInv, [Next]_vars
  PROVE  SensorInv'
<1> USE DEF SensorInv, SensorTypeOK, RegisterFits
<1>1. CASE UNCHANGED sensor
  BY <1>1, ZenonT(60) DEF sensor, bus, driver
<1>2. CASE temperature_init /\ UNCHANGED bus
  <2>1. temperature_deviceId' \in Roms \cup {NoRom}
    BY <1>2, SearchTyped DEF temperature_init
  <2>2. register' = 0 /\ InRange(Family(temperature_deviceId'), 0)
    BY <1>2, ZeroInRange, Zenon DEF temperature_init
  <2>3. temperature_currentTemperature' \in Temperatures
    BY <1>2, ZeroTemperature DEF temperature_init
  <2>4. taken' = NoneTaken /\ tempReady' = FALSE /\ tempCalibration' = 0
    BY <1>2 DEF temperature_init
  <2> QED
    BY <1>2, <2>1, <2>2, <2>3, <2>4, Zenon DEF bus, NoneTaken
<1>3. CASE ds_request_temp
  <2>1. register' \in Registers \cup {0} /\ RegisterFits'
    BY <1>3 DEF ds_request_temp
  <2> QED
    BY <1>3, <2>1, Zenon DEF ds_request_temp, bus
<1>4. CASE ds_read_temp
  <2>1. PICK heard \in AllHeard :
          /\ temperature_currentTemperature' =
               Reading(Family(temperature_deviceId), heard.word, tempCalibration)
          /\ taken' = [from |-> heard.from, register |-> register,
                       calibration |-> tempCalibration, reported |-> heard.reported]
    BY <1>4 DEF ds_read_temp
  <2>2. heard.from \in Sources /\ heard.word \in Nat /\ heard.reported \in BOOLEAN
    BY AllHeardTyped
  <2>3. tempCalibration \in Offsets
    BY SensorConstants
  <2>4. temperature_currentTemperature' \in Temperatures
    BY <2>1, <2>2, <2>3, ReadingTyped, Zenon
  <2>5. /\ taken'.from = heard.from /\ taken'.register = register
        /\ taken'.calibration = tempCalibration
        /\ taken'.reported = heard.reported
    BY <2>1, Zenon
  <2>6. taken'.from \in {"none", "sensor", "nobody", "short"}
    BY <2>2, <2>5 DEF Sources
  <2> QED
    BY <1>4, <2>2, <2>4, <2>5, <2>6, Zenon DEF ds_read_temp, bus
<1>5. CASE BusChanges
  <2>1. present' \subseteq Roms /\ shorted' \in BOOLEAN
    <3>1. CASE shorted' = ~shorted /\ UNCHANGED present
      BY <3>1, Zenon
    <3>2. CASE UNCHANGED shorted /\ \E rom \in Roms :
            present' = IF rom \in present THEN present \ {rom} ELSE present \cup {rom}
      BY <3>2
    <3> QED
      BY <1>5, <3>1, <3>2, Zenon DEF BusChanges
  <2>2. busChanges' \in 0 .. MaxBusChanges
    BY <1>5, SensorConstants DEF BusChanges
  <2> QED
    BY <1>5, <2>1, <2>2, Zenon DEF BusChanges, driver
<1>6. CASE handleTempCalibration
  BY <1>6, Zenon DEF handleTempCalibration, bus
<1> QED
  BY <1>1, <1>2, <1>3, <1>4, <1>5, <1>6, SensorNextCases

LEMMA SensorInvInit ==
  ASSUME Init
  PROVE  SensorInv
<1> USE DEF SensorInv, SensorTypeOK, RegisterFits, Init, SensorInit
<1>1. temperature_deviceId \in Roms \cup {NoRom}
  BY SearchTyped
<1>2. InRange(Family(temperature_deviceId), register)
  BY ZeroInRange
<1>3. temperature_currentTemperature \in Temperatures
  BY ZeroTemperature
<1>4. busChanges \in 0 .. MaxBusChanges
  BY SensorConstants
<1> QED
  BY <1>1, <1>2, <1>3, <1>4, Zenon DEF NoneTaken

Inv == /\ ClockTypeOK /\ SensorInv /\ UpdatesInv
       /\ drops \in 0 .. MaxDrops /\ restarts \in 0 .. MaxRestarts

LEMMA InvInit == Init => Inv
<1> SUFFICES ASSUME Init PROVE Inv
  OBVIOUS
<1>1. ClockTypeOK
  <2>1. 0 \in 0 .. MaxUnderWay /\ 0 \in 0 .. MaxLost
    BY ClockAssumption
  <2> QED
    BY <2>1, Zenon DEF Init, ClockInit, ClockTypeOK
<1>2. UpdatesInv
  BY UpgradeAssumption
     DEF Init, UpgradeInit, UpdatesInv, UpgradeTypeOK, UpdatesHeld
<1>3. drops \in 0 .. MaxDrops /\ restarts \in 0 .. MaxRestarts
  BY DeviceAssumption DEF Init
<1> QED
  BY <1>1, <1>2, <1>3, SensorInvInit DEF Inv

LEMMA InvStep == Inv /\ [Next]_vars => Inv'
<1> SUFFICES ASSUME Inv, [Next]_vars PROVE Inv'
  OBVIOUS
<1>1. ClockTypeOK' /\ SensorInv' /\ UpdatesInv'
  BY ClockTypeStep, SensorInvStep, UpdatesInvStep DEF Inv
<1>2. drops' \in 0 .. MaxDrops /\ restarts' \in 0 .. MaxRestarts
  BY DeviceAssumption
     DEF Inv, Next, vars, WifiGotIp, WifiRenewed, WifiDisconnected, Restart,
         ClockStep, SensorStep, UpgradeStep, Command
<1> QED
  BY <1>1, <1>2 DEF Inv

(* Every reading fits 16 bits, whatever bits were read wrong and however   *)
(* sensors come and go.                                                    *)
THEOREM DeviceTyped == Spec => []TypeOK
<1>1. Inv => TypeOK
  BY DEF Inv, SensorInv, UpdatesInv, TypeOK
<1> QED
  BY <1>1, InvInit, InvStep, PTL DEF Spec

LEMMA ReadingsUsableStep ==
  ASSUME \A d \in Disturbances : Burst(d),
         Inv, ReadingsUsable, [Next]_vars
  PROVE  ReadingsUsable'
<1> USE DEF ReadingsUsable, ReportedOrTrue, GoneReadsWarm
<1>1. CASE UNCHANGED <<taken, temperature_deviceId, temperature_currentTemperature>>
  BY <1>1, Zenon
<1>2. CASE temperature_init
  <2>1. taken'.from = "none"
    BY <1>2 DEF temperature_init, NoneTaken
  <2> QED
    BY <2>1
<1>3. CASE ds_read_temp
  <2> DEFINE family == Family(temperature_deviceId)
  <2>1. PICK heard \in AllHeard :
          /\ temperature_currentTemperature' =
               Reading(family, heard.word, tempCalibration)
          /\ taken' = [from |-> heard.from, register |-> register,
                       calibration |-> tempCalibration, reported |-> heard.reported]
    BY <1>3 DEF ds_read_temp
  <2>2. /\ taken'.from = heard.from /\ taken'.register = register
        /\ taken'.calibration = tempCalibration
        /\ taken'.reported = heard.reported
        /\ temperature_deviceId' = temperature_deviceId
    BY <1>3, <2>1, Zenon DEF ds_read_temp
  <2>3. /\ tempCalibration \in Offsets /\ register \in Registers \cup {0}
        /\ register \in Int /\ InRange(family, register)
    <3>1. tempCalibration \in Calibrations \cup {0}
          /\ register \in Registers \cup {0} /\ InRange(family, register)
      BY Zenon DEF Inv, SensorInv, SensorTypeOK, RegisterFits
    <3> QED
      BY <3>1, SensorConstants
  <2>4. ReportedOrTrue'
    <3> SUFFICES ASSUME heard.from = "sensor", ~heard.reported,
                        register >= 0 \/ tempCalibration = 0
                 PROVE  Near(family, register,
                             Reading(family, heard.word, tempCalibration)
                               - tempCalibration)
      BY <2>1, <2>2, Zenon
    <3>1. heard.word = Unsigned(register)
      BY <2>3, FromSensorTrue
    <3> QED
      BY <2>3, <3>1, ReadingIsNear
  <2>5. GoneReadsWarm'
    <3> SUFFICES ASSUME heard.from = "nobody", tempCalibration > -6
                 PROVE  heard.reported
                        /\ Reading(family, heard.word, tempCalibration) < 0
      BY <2>1, <2>2, Zenon
    <3>1. heard.reported /\ heard.word = Ones
      BY <2>3, FromNobodyReported
    <3>2. Reading(family, Ones, tempCalibration) < 0
      BY <2>3, NobodyReadsBelowZero DEF Ones
    <3> QED
      BY <3>1, <3>2, Zenon
  <2> QED
    BY <2>4, <2>5
<1> QED
  BY <1>1, <1>2, <1>3, SensorNextCases
     DEF sensor, driver, bus, ds_request_temp, BusChanges, handleTempCalibration

(* If no more than eight bits in a row are read wrong, a reading that is   *)
(* not reported is right, and a sensor that is gone is reported and warm,  *)
(* whatever is plugged in or out, calibrated or restarted.                 *)
THEOREM ReadingsAlwaysUsable ==
  ASSUME \A d \in Disturbances : Burst(d)
  PROVE  Spec => []ReadingsUsable
<1>1. Init => ReadingsUsable
  BY DEF Init, SensorInit, NoneTaken, ReadingsUsable, ReportedOrTrue, GoneReadsWarm
<1>2. Inv /\ ReadingsUsable /\ [Next]_vars => ReadingsUsable'
  BY ReadingsUsableStep
<1> QED
  BY <1>1, <1>2, InvInit, InvStep, PTL DEF Spec

=============================================================================
