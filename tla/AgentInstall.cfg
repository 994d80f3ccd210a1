SPECIFICATION Spec
CONSTANTS
  p1 = p1
  p2 = p2
  Commands = {p1, p2}
  Receivers = {"own", "other"}
  DataDirs = {"d1", "d2"}
  Unrelated = {"d2"}
  Envs <- MCEnvs
  MaxEdits = 2
  MaxMishaps = 1
  None = None
SYMMETRY Symmetry
INVARIANTS
  TypeOK
  InstallSatisfiesCheck
  CheckedTokenFits
  RunsWhatIsInstalled
  ActiveIsInstalled
  OwnWalIsAccepted
PROPERTIES
  StartsOnlyWhenEnabled
