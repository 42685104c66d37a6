SPECIFICATION Spec
INVARIANT ScheduleInBounds
CONSTANTS
  Temps <- MCTemps
  Targets <- MCTargets
  TempDelta = 63
  Schedules <- MCSchedules
  SavedModes = {"MANUAL", "AUTOMATIC"}
  NULL = NULL
  Erased = Erased
