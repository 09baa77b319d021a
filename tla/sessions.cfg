\* Logins and logouts beside refreshes: two processes, two sessions of one
\* deployment.
CONSTANTS
  s1 = s1
  s2 = s2
  apiA = apiA
  apiB = apiB
  NoToken = NoToken
  NoProc = NoProc
  NoClaim = NoClaim
  Proc = {p1, p2}
  Session = {s1, s2}
  Watched = s1
  Origin = {apiA}
  Issuer <- OneApi
  Commands = {"refresh", "login", "logout"}
  MaxCommands = 3
SPECIFICATION Spec
INVARIANTS
  OneOperationPerToken
  Recoverable
  AccessNotAhead
SYMMETRY ProcSymmetry
CHECK_DEADLOCK FALSE
