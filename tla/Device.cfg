CONSTANTS
  MaxUnderWay = 2
  MaxLost = 2
  MaxDrops = 1
  MaxRestarts = 1
  RomBits = 3
  Roms <- MCRoms
  Registers <- MCRegisters
  Calibrations = {0, 150}
  Disturbances <- MCDisturbances
  MaxBusChanges = 1
  Updates = {u1, u2}
  NoUpdate = NoUpdate
SPECIFICATION FairSpec
INVARIANTS TypeOK ClockKept UpdatesHeld ReadingsUsable
PROPERTIES TimeSet
