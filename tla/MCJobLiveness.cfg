SPECIFICATION FairSpec
CONSTANTS
  JobType <- TypesBooks
  Sweep <- AllSweeps
  Cosmetic <- CosmeticTypes
  Lib = {l1}
  Request <- Requests
  Caller = {c1}
  Canceller = {}
  None = None
  MaxJob = 3
  QueueCap = 2
  MaxItems = 2
  MaxBoots = 2
PROPERTY
  EveryJobEnds
