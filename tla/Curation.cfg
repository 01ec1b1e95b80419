\* A post with images or a tweet; a curator, an operator, at most one fault.
SPECIFICATION FairSpec
CONSTANTS
  Posts = {p1}
  PostTraits <- SomeTraits
  Kinds <- TwoKinds
  Curators = {c1}
  FaultKinds <- AllFaults
  MaxFaults = 1
CHECK_DEADLOCK FALSE
INVARIANTS
  TypeOK
  CuratedIsPicked
  EnrichedIsPicked
  AttributedAfterVision
  CompleteIsPassedOn
  NoneStranded
  CuratedIsQueued
PROPERTIES
  DecisionStands
  LedgerSpec
  RunSettles
