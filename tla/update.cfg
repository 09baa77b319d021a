\* Three updates of three releases, killed and failing anywhere.
CONSTANTS
  NoProc = NoProc
  NoVersion = NoVersion
  Proc = {u1, u2}
  Version = {1, 2, 3}
  First = 1
  MaxUpdates = 3
SPECIFICATION Spec
INVARIANTS
  TypeOK
  ActiveRuns
  FailureRestores
PROPERTY ImplementsVersionSwitch
SYMMETRY UpdaterSymmetry
CHECK_DEADLOCK FALSE
