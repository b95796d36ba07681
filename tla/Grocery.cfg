SPECIFICATION Spec
CONSTANTS
  None = None
  Gone = Gone
  IntHalf = 4
  NoName = NoName
  Spaces = Spaces
  BadId = BadId
  Owner = Owner
  Other = Other
  i1 = i1
  i2 = i2
  l1 = l1
  l2 = l2
  e1 = e1
  e2 = e2
  e3 = e3
  Items = {i1, i2}
  Lists = {l1, l2}
  Entries = {e1, e2, e3}
  Names = {"week"}
  AutoName = "auto"
  Targets = {2}
  Levels = {0, 1, 2}
  Quantities = {0, 1, 11}
  One = 2
  Orders = {0, 5}
  r1 = r1
  r2 = r2
  Requests = {r1, r2}
  Starts <- OneOrTwoItems
  MaxChanges = 1
  Most = 2
SYMMETRY Sym
INVARIANTS
  TypeOK
  NoDangling
  GeneratedFromStock
PROPERTIES
  ListLifecycle
\* Every request was answered: nothing is left to happen.
CHECK_DEADLOCK FALSE
