\* Two head runs, a backfill and a reconcile in one queue; at most one eviction or failing write.
SPECIFICATION FairSpec
CONSTANTS
  d1 = d1
  h1 = h1
  h2 = h2
  b1 = b1
  c1 = c1
  Runs <- AllRuns
  Kind <- KindOf
  Dids = {d1}
  MaxPosts = 4
  ChunkPosts = 3
  MaxCursor = 2
  FaultKinds = {"eviction", "write"}
  MaxFaults = 1
INVARIANTS
  TypeOK
  UniqueTasks
  CurrentIsClaimed
  RunningIsHeld
  WorkHasAlarm
PROPERTIES
  SettledBeforeDropped
  ProgressKept
  HeadNotOvertaken
  QueueDrains
