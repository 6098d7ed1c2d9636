\* Expected to be violated: a release moves a class to another family.
CONSTANTS
  prod = prod
  test = test
  dublin = dublin
  paris = paris
  pg = pg
  small = small
  large = large
  burst = burst
  std = std
  bucket = bucket
  blob = blob
  gpu = gpu
  Names = {prod, test}
  Places = {dublin, paris}
  Engines = {pg}
  Sizes = {small, large}
  Families = {burst, std}
  Types = {bucket}
  Alias <- MCAlias
  Others = {}
  Configs <- MCGrown
  Catalogs <- MCMoving
  Renames = {}
  Moves = {}
  LostAnswers = FALSE
  MaxRecords = 2
  None = None
SPECIFICATION Spec
PROPERTY
  ReplacementBlocked
