SPECIFICATION FairSpec
CONSTANTS
  i1 = i1
  i2 = i2
  x1 = x1
  u1 = u1
  c1 = c1
  c2 = c2
  e1 = e1
  e2 = e2
  Items <- TwoItems
  InvItems <- OneInvItem
  Units = {}
  Sent = {"accepted", "rejected"}
  Commits <- TwoCommits
  Edits <- TwoEdits
  None = None
INVARIANTS
  TypeOK
  ReviewGate
  ReviewSeesWholeReceipt
  FailedBuysNothing
  LateCommitBuysNothing
  AnsweredIsComplete
  EnrichmentFollowsCommit
PROPERTIES
  FailedIsFinal
  CommitUndoneOnce
  JobDeliveredOnce
  UploadSettles
\* Every request was sent and the job is over: nothing is left to happen.
CHECK_DEADLOCK FALSE
