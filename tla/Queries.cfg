CONSTANTS
  c1 = c1
  c2 = c2
  Null = Null
  NoColumn = NoColumn
  Clients = {c1, c2}
  Pks = {1, 2, 3, 4}
  MaxFilters = 2
  Fields <- MCFields
  Lookups <- MCLookups
  Containing <- MCContaining
  Scenes <- MCScenes
  MaxWrites <- MCMaxWrites
  Tag <- MCTag

SPECIFICATION QuerySpec
CHECK_DEADLOCK FALSE

INVARIANTS
  StatementsMeanFilters
  RelatedRowsMatch
  CreatedOnce
  IncrementsSurvive
