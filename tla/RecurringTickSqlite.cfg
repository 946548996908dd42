SPECIFICATION Spec
CONSTANTS
  hourly = hourly
  odd = odd
  Workers = {w1, w2}
  Schedules <- MCSchedules
  Fires <- MCFires
  Dialects <- MCSqlite
  MaxTime = 2
  MaxFaults = 0
  MaxEdits = 0
INVARIANTS
  NoTwoTicksSeeTheSameRow
