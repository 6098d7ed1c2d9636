\* Two environments in Mode A, one with local state in a work dir a new runner does
\* not find, one that turns remote state on and off and whose work dir is kept; and
\* one in Mode B.
CONSTANTS
  e1 = e1
  e2 = e2
  e3 = e3
  d1 = d1
  d2 = d2
  k1 = k1
  r1 = r1
  r2 = r2
  r3 = r3
  Envs = {e1, e2, e3}
  Res = {r1, r2, r3}
  Versions <- MCVersions
  Dirs = {d1, d2}
  DefaultDir <- MCDefaultDir
  Keys = {k1}
  Confs <- MCMixed
  Adoptable = {r1, r3}
  Ephemeral = {d1}
  Account = Account
  Local = Local
  Uninit = Uninit
  None = None
SPECIFICATION Spec
INVARIANTS
  IInv
  DeletedLeavesNothing
  OutputsMatch
PROPERTIES
  ApplyTracksTopology
  NoCrossTalk
