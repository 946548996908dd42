SPECIFICATION FairSpec
CONSTANTS
  author = author
  book = book
  Clients = {c1, c2}
  Tables <- MCTables
  Queries = {q1}
  Capacities <- MCCapacities
  WriteKinds <- MCAllKinds
  MaxWrites = 2
  MaxFaults = 1
INVARIANTS
  FreshUnlessRaced
  WithinCapacity
PROPERTIES
  EventuallyFresh
