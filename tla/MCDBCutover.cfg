\* Listing queries work and no run follows a promotion.
CONSTANTS
  MaxId = 2
  ListingMayFail = FALSE
  Rerun = FALSE
  OutsideFreeze = FALSE
SPECIFICATION FairSpec
INVARIANTS
  PromotedHasEverything
  ReplicaConsistent
  NoInsertCollides
  IInv
PROPERTIES
  ImplementsHandover
  BacklogDrains
  CutoverRunEnds
CHECK_DEADLOCK FALSE
