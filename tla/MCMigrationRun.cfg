\* Two runs over every program, configuration and host; channel of capacity 2,
\* shorter than the longest stream (5 statuses), so that sends block.
CONSTANTS
  Programs <- MCPrograms
  Configs <- MCConfigs
  Hosts <- MCHosts
  ChanCap = 2
  MaxRuns = 2
  MaxInt = 511
  None = None
SPECIFICATION FairSpec
INVARIANTS
  VerdictIsTrue
  VerdictReported
  NothingOutlivesRun
  FailedRunTouchedNothing
  HundredMeansAllWalked
  NoCutoverAfterFailure
  IInv
PROPERTIES
  PercentNeverFalls
  ImplementsContract
  RunEnds
