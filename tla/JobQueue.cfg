SPECIFICATION FairSpec
CONSTANTS
  j1 = j1
  j2 = j2
  j3 = j3
  w1 = w1
  w2 = w2
  Jobs <- MCJobs
  Registered <- MCRegistered
  Workers <- MCWorkers
  Capacity = 1
  MaxRestarts = 1
  Idle = Idle
  Gone = Gone
INVARIANTS
  TypeOK
  AtMostOnce
  ShutdownDrains
  DrainedCloseIsSafe
PROPERTIES
  DeliverySpec
  AcceptedIsSettled
  ShutdownReturns
\* A process that exited or crashed for the last time stays down.
CHECK_DEADLOCK FALSE
