SPECIFICATION Spec
CONSTANTS
  JobType <- Types
  Sweep <- CosmeticTypes
  Cosmetic <- CosmeticTypes
  Lib = {l1}
  Request <- Requests
  Caller = {c1, c2}
  Canceller = {k1}
  None = None
  MaxJob = 3
  QueueCap = 1
  MaxItems = 2
  MaxBoots = 2
SYMMETRY CallersAlike
INVARIANTS
  TypeOK
  NoStrandedJob
  CancelReachesExecutor
  TimelyCancelSticks
  AcceptedJobRuns
  PileUpBounded
PROPERTY
  RowsFollowLifecycle
