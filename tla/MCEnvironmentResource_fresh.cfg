\* Expected to be violated: remote state, but a work dir a new runner does not find.
CONSTANTS
  e1 = e1
  e2 = e2
  e3 = e3
  d1 = d1
  d2 = d2
  k1 = k1
  r1 = r1
  r2 = r2
  r3 = r3
  Envs = {e1, e2}
  Res = {r1, r2, r3}
  Versions <- MCVersions
  Dirs = {d1, d2}
  DefaultDir <- MCDefaultDir
  Keys = {k1}
  Confs <- MCRemoteOnly
  Adoptable = {r1, r3}
  Ephemeral = {d1}
  Account = Account
  Local = Local
  Uninit = Uninit
  None = None
SPECIFICATION Spec
INVARIANT
  UninitialisedMeansNothingLive
