\* Four ingests of two releases, one known before, with crashes and changes of the listing.
SPECIFICATION Spec
CONSTANTS
  d1 = d1
  d2 = d2
  family = family
  hand = hand
  url = url
  Datasets = {d1, d2}
  Listings <- Orders
  Family <- OneFamily
  Slug <- OwnSlug
  Seeds <- ByHand
  PageSize = 1
  MaxRuns = 4
  FaultKinds <- AllFaults
  MaxFaults = 2
CHECK_DEADLOCK FALSE
INVARIANTS TreeConsistent LedgerNamesFiles CompletedIsWhole RefusedHasCause
