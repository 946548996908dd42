CONSTANTS
  boss = boss
  clerk = clerk
  Null = Null
  Dash = Dash
  Empty = Empty
  Bad = Bad
  NoTenant = NoTenant
  NoDate <- MCNoDate
  Staff = {boss, clerk}
  Pks = {1, 2, 3, 4, 5}
  PerPage = 2
  ListFilter = {"flag", "note"}
  Choices = {"note"}
  ReadOnly = {"seen"}
  Nullable = {"note", "due", "seen", "vip", "team"}
  Editable = {"note", "count"}
  Access <- MCAccess
  Kind <- MCKind
  MonthDays <- MCMonthDays
  Scenes <- MCScenes

SPECIFICATION Spec
CHECK_DEADLOCK FALSE

INVARIANTS
  TypeOK
  FormsKeepTheRest
  AuditTrail
  LinksKeepTheList
