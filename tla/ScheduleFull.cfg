SPECIFICATION FairSearchSpec
PROPERTY SearchEnds
CONSTANTS
  Schedules <- MCSchedules
  Times <- MCTimes
  IndexRange = 256
