SPECIFICATION FairSpec
CONSTANTS
  Entities = {e1}
  e1 = e1
  cron = cron
  ops = ops
  Limit <- Limits
  Concurrency <- AtATime
  Drains = {cron, ops}
  Requests <- AllRequests
  Window = 1
  MaxVersion = 2
  FaultKinds <- AllFaults
  MaxFaults = 1
INVARIANTS TypeOK OneRowPerKey NoWeakerWork SpentIsBuried
PROPERTIES UploadedBeforeDropped IndexCatchesUp
CHECK_DEADLOCK FALSE
