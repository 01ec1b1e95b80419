\* One run over two experts, with any one fault, stale rows and an operator's repairs.
SPECIFICATION RunSpec
CONSTANTS
  h1 = h1
  b1 = b1
  Runs <- OneHead
  Kind <- KindOf
  Dids = {1, 2}
  MaxPosts = 2
  ChunkPosts = 2
  MaxCursor = 0
  Fanout = 1
  Aging = TRUE
  AdminRepair = TRUE
  Prompt = FALSE
  FaultKinds = {"eviction", "write", "create", "reply", "launcher", "retry", "exhaust", "late"}
  MaxFaults = 1
CHECK_DEADLOCK FALSE
INVARIANTS
  RunTypeOK
  EndedRunIsClosed
