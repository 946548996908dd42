SPECIFICATION Spec
CONSTANTS
  author = author
  book = book
  Clients = {c1}
  Tables <- MCTables
  Queries = {q1}
  Capacities <- MCCapacities
  WriteKinds <- MCBulk
  MaxWrites = 2
  MaxFaults = 0
INVARIANTS
  NeverStaleAfterMutation
