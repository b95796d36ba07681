SPECIFICATION Spec
CONSTANTS
  None = None
  Gone = Gone
  NoName = NoName
  h1 = h1
  h2 = h2
  v1 = v1
  v2 = v2
  i1 = i1
  i2 = i2
  b1 = b1
  b2 = b2
  Households = {h1, h2}
  Inventories = {v1, v2}
  Items = {i1, i2}
  Batches = {b1, b2}
  Names = {"rice", "oats"}
  Targets = {2}
  Amounts <- Quantities
  Requests = {"r1", "r2"}
  Starts <- OneShelf
INVARIANTS
  TypeOK
  Integrity
  ScopeHolds
  CreateLeftovers
PROPERTIES
  EmptiedStaysEmptied
  StockSpec
\* Every request was answered: nothing is left to happen.
CHECK_DEADLOCK FALSE
