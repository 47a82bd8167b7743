CONSTANTS
  p1 = p1
  p2 = p2
  r1 = r1
  r2 = r2
  r3 = r3
  i1 = i1
  i2 = i2
  l1 = l1
  t1 = t1
  t2 = t2
  Procs <- MCProcs
  Records <- MCRecords
  Ids <- MCIds
  Labels <- MCLabels
  Tickets <- MCTickets
  Unknown = Unknown
  None = None
SPECIFICATION Spec
INVARIANTS NamesUnique IsolatedIsListed
PROPERTIES KeepsLifecycle
CHECK_DEADLOCK FALSE
SYMMETRY Symmetric
