SPECIFICATION Spec
CONSTANTS
  ann = ann
  bob = bob
  Clients = {c1, c2}
  Users <- MCUsers
  Callers <- MCCallers
  Pks <- MCPks
  Keys <- MCKeys
  Endpoints <- MCEndpoints
  InitialRows <- MCInitialRows
  Bodies <- MCBodies
  FieldSets <- MCFieldSets
  Columns <- MCColumns
  Booleans <- MCBooleans
  Relations <- MCRelations
  Nullable <- MCNullable
  NullValue = null
  FalseValue = "false"
  Gone = Gone
  NoEntry = NoEntry
  FlagRank <- MCFlagRank
  MaxAttempts = 1
  Window = 2
  PageSize = 2
  MaxPageSize = 2
  Walks <- MCWalks
  MaxNow = 3
  MaxRequests <- MCMaxRequests
  MaxFaults <- MCMaxFaults
INVARIANTS
  IInv
  NamedColumnsOnly
  RefusedMeansUntouched
  WindowBudget
  WalkIsComplete
PROPERTIES
  ScopedWritesStayInScope
SYMMETRY MCSymmetry
CHECK_DEADLOCK FALSE
