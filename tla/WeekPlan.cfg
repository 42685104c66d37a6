SPECIFICATION Spec
INVARIANTS TypeOK FindsCurrent CodecsAgree PlanFollowed NeverInvents
PROPERTY SurvivesRefresh
CONSTANTS
  Schedules <- MCSchedules
  Times <- MCTimes
  IndexRange = 256
  SlotMinutes = 360
  NULL = NULL
  FirstCharts <- MCFirstCharts
  BarTemps = {2200}
  BarsDrawn = {0, 3}
  DaysToggled = {1, 6}
  MaxCharts = 4
  Cuts = {3, 8}
  MaxEdits = 2
  MaxSaves = 2
  MaxRefreshes = 2
