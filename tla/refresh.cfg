\* Refreshes only: two processes, one session, kills, lost and late requests,
\* failing store writes, unreadable entries.
CONSTANTS
  s1 = s1
  s2 = s2
  apiA = apiA
  apiB = apiB
  NoToken = NoToken
  NoProc = NoProc
  NoClaim = NoClaim
  Proc = {p1, p2}
  Session = {s1}
  Watched = s1
  Origin = {apiA}
  Issuer <- OneApi
  Commands = {"refresh", "request"}
  MaxCommands = 4
SPECIFICATION Spec
INVARIANTS
  TypeOK
  NoClaimMeansWholePair
PROPERTY
  ImplementsRotationChain
SYMMETRY ProcSymmetry
CHECK_DEADLOCK FALSE
