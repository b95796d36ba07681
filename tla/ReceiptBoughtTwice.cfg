SPECIFICATION Spec
CONSTANTS
  i1 = i1
  i2 = i2
  x1 = x1
  u1 = u1
  c1 = c1
  c2 = c2
  e1 = e1
  e2 = e2
  Items <- TwoItems
  InvItems = {}
  Units = {}
  Sent = {"pending", "accepted", "rejected", "corrected"}
  Commits <- TwoCommits
  Edits <- TwoEdits
  None = None
INVARIANTS
  OneTransactionPerItem
\* Every request was sent and the job is over: nothing is left to happen.
CHECK_DEADLOCK FALSE
