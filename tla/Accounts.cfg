CONSTANTS
  t1 = t1
  t2 = t2
  t3 = t3
  Tabs = {t1, t2, t3}
  Scenes <- MCScenes

SPECIFICATION Spec
CHECK_DEADLOCK FALSE

INVARIANTS
  LockoutStands
  AnswersFor
  RevokeIsFinal
