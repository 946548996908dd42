CONSTANTS
  dev = dev
  deploy = deploy
  Clients = {dev, deploy}
  Scenes <- MCScenes

SPECIFICATION Spec
CHECK_DEADLOCK FALSE

INVARIANTS
  TypeOK
  SchemaMatchesRecord
  PlanReachesTarget
