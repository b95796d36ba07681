SPECIFICATION Spec
CONSTANTS
  t1 = t1
  t2 = t2
  t3 = t3
  milk = milk
  shop = shop
  u1 = u1
  Txns <- ThreeTxns
  Names <- OneName
  Stores = {}
  UserItems <- OneUserItem
  Workers = 2
  MaxEdits = 1
  User = User
  None = None
SYMMETRY TxnSymmetry
INVARIANTS
  DuplicatesBounded
  OneItemPerName
  RefusedWasRaced
\* When all jobs are over and the users have made their changes nothing happens.
CHECK_DEADLOCK FALSE
