SPECIFICATION FairSpec
CONSTANTS
  Workers = {w1, w2}
  Tasks <- MCTasks
  MaxAttempts = 3
  Dialects <- MCDialects
  MaxTime = 1
  MaxFaults = 1
INVARIANTS
  IInv
  SingleExecutor
  MarkHitsOwnAttempt
  SuccessIsFinal
  AttemptsAccountForRuns
  RunningIsAccountedFor
PROPERTIES
  ParkedStaysParked
  ImplementsLifecycle
  EveryTaskSettles
CHECK_DEADLOCK FALSE
