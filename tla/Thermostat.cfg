SPECIFICATION FairSpec
INVARIANTS HeatIsReported SettingsSurvive
PROPERTIES HeaterFollows FallsBack DanglingHeals
CONSTANTS
  Temps <- MCTemps
  Targets <- MCTargets
  TempDelta = 63
  Schedules <- MCSchedules
  SavedModes = {"MANUAL", "AUTOMATIC"}
  NULL = NULL
  Erased = Erased
