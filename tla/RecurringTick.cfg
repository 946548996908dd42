SPECIFICATION FairSpec
CONSTANTS
  hourly = hourly
  odd = odd
  Workers = {w1, w2}
  Schedules <- MCSchedules
  Fires <- MCFires
  Dialects <- MCDialects
  MaxTime = 2
  MaxFaults = 1
  MaxEdits = 2
INVARIANTS
  EachOccurrenceOnce
PROPERTIES
  FiresOnlyWhenDue
  BrokenRowStopsTick
  ImplementsSchedule
  DueIsEnqueued
