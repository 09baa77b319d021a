\* Two updates that choose different releases before either takes the lock.
CONSTANTS
  NoProc = NoProc
  NoVersion = NoVersion
  Proc = {u1, u2}
  Version = {1, 2, 3}
  First = 1
  MaxUpdates = 2
SPECIFICATION Spec
INVARIANT SwitchesUp
CHECK_DEADLOCK FALSE
