\* Two runs over two experts whose coordinators may lose what was enqueued, and one failing launch or step.
SPECIFICATION FairRunSpec
CONSTANTS
  h1 = h1
  b1 = b1
  Runs <- HeadAndBackfill
  Kind <- KindOf
  Dids = {1, 2}
  MaxPosts = 2
  ChunkPosts = 2
  MaxCursor = 0
  Fanout = 1
  Aging = TRUE
  AdminRepair = FALSE
  Prompt = TRUE
  FaultKinds = {"create", "exhaust"}
  MaxFaults = 1
CHECK_DEADLOCK FALSE
INVARIANT ActiveWithinFanout
PROPERTIES
  RunsFinish
  LedgerSpec
