CONSTANTS
  Folded <- MCFolded
  Dashed <- MCDashed
  Services <- MCServices
  Environments <- Estates
  Baselines <- MCBaselines
SPECIFICATION EitherSpec
CHECK_DEADLOCK FALSE
INVARIANTS
  IInv
  ReferencesResolve
  DeclaredOnce
  ProvidersPinned
  MachinesGuarded
  Acyclic
  TargetsReached
  BaselineStandsAlone
PROPERTY
  ComponentsRendered
