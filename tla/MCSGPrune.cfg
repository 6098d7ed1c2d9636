\* Three configurations; each apply goes with or without faults, look-ups succeed.
CONSTANTS
  app = app
  alb = alb
  jit = jit
  any = any
  office = office
  Groups = {app, alb, jit}
  Jit = jit
  Cidrs = {any, office}
  Prefix = Prefix
  Configs <- MCConfigs
  Doors <- MCOneDoor
  LookupsMayFail = FALSE
SPECIFICATION Spec
INVARIANTS
  IInv
  AdoptionIsComplete
PROPERTIES
  DeclaredStays
  DoorsShut
  JitRulesStay
