\* Expected to be violated.
CONSTANTS
  MaxId = 3
  ListingMayFail = FALSE
  Rerun = TRUE
  OutsideFreeze = FALSE
SPECIFICATION Spec
INVARIANT
  NoInsertCollides
CHECK_DEADLOCK FALSE
