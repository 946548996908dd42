SPECIFICATION Spec
CONSTANTS
  author = author
  book = book
  Clients = {c1, c2}
  Tables <- MCTables
  Queries = {q1}
  Capacities <- MCCapacities
  WriteKinds <- MCTracked
  MaxWrites = 2
  MaxFaults = 0
INVARIANTS
  NeverStaleAfterMutation
