\* Expected to be violated.
CONSTANTS
  MaxId = 2
  ListingMayFail = TRUE
  Rerun = FALSE
  OutsideFreeze = FALSE
SPECIFICATION Spec
INVARIANT
  PromotedHasEverything
CHECK_DEADLOCK FALSE
