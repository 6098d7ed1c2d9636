\* Expected to be violated: look-ups may fail too.
CONSTANTS
  app = app
  alb = alb
  jit = jit
  any = any
  office = office
  Groups = {app, alb, jit}
  Jit = jit
  Cidrs = {any, office}
  Prefix = Prefix
  Configs <- MCConfigs
  Doors <- MCOneDoor
  LookupsMayFail = TRUE
SPECIFICATION Spec
PROPERTY
  DeclaredStays
