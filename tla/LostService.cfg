\* Ingests of one release, the first of which may die between its distribution and its service.
SPECIFICATION Spec
CONSTANTS
  d1 = d1
  d2 = d2
  family = family
  hand = hand
  url = url
  Datasets = {d1, d2}
  Listings <- Orders
  Family <- OneFamily
  Slug <- OwnSlug
  Seeds <- ByHand
  PageSize = 1
  MaxRuns = 2
  FaultKinds = {"die"}
  MaxFaults = 1
CHECK_DEADLOCK FALSE
INVARIANT CompletedLoads
