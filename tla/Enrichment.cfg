SPECIFICATION Spec
CONSTANTS
  t1 = t1
  t2 = t2
  t3 = t3
  milk = milk
  shop = shop
  u1 = u1
  Txns <- TwoTxns
  Names <- OneName
  Stores <- OneStore
  UserItems <- OneUserItem
  Workers = 2
  MaxEdits = 1
  User = User
  None = None
INVARIANTS
  TypeOK
  StockedOnce
  StockFollowsLink
  DeletedStaysEmpty
\* When all jobs are over and the users have made their changes nothing happens.
CHECK_DEADLOCK FALSE
