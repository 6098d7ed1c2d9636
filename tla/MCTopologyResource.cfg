\* Releases that add classes and one that moves a class; other clients edit, rename,
\* move and delete records at any time; answers get lost.
CONSTANTS
  prod = prod
  test = test
  dublin = dublin
  paris = paris
  pg = pg
  small = small
  large = large
  burst = burst
  std = std
  bucket = bucket
  blob = blob
  gpu = gpu
  Names = {prod, test}
  Places = {dublin, paris}
  Engines = {pg}
  Sizes = {small, large}
  Families = {burst, std}
  Types = {bucket}
  Alias <- MCAlias
  Others = {gpu}
  Configs <- MCConfigs
  Catalogs <- MCCatalogs
  Renames = {prod}
  Moves = {paris}
  LostAnswers = TRUE
  MaxRecords = 2
  None = None
SPECIFICATION Spec
INVARIANTS
  IInv
  RecordsTracked
PROPERTIES
  DatabaseKept
  NothingRemovedUnseen
