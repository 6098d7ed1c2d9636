\* Expected to be violated: the platform's environments only.
CONSTANTS
  Folded <- MCFolded
  Dashed <- MCDashed
  Services <- MCServices
  Environments <- Platform
  Baselines = {}
SPECIFICATION EitherSpec
CHECK_DEADLOCK FALSE
INVARIANT
  InputsReachMachines
