\* A claim left in storage by an alarm() that died is never worked on again.
SPECIFICATION FairSpec
CONSTANTS
  d1 = d1
  h1 = h1
  h2 = h2
  b1 = b1
  c1 = c1
  Runs <- MixedRuns
  Kind <- KindOf
  Dids = {d1}
  MaxPosts = 4
  ChunkPosts = 3
  MaxCursor = 2
  FaultKinds = {"eviction"}
  MaxFaults = 1
PROPERTY ClaimRecovered
