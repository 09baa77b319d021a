\* Liveness: every command ends, under weak fairness of the running processes,
\* with a profile that is edited to point at another deployment.
CONSTANTS
  s1 = s1
  s2 = s2
  apiA = apiA
  apiB = apiB
  NoToken = NoToken
  NoProc = NoProc
  NoClaim = NoClaim
  Proc = {p1, p2}
  Session = {s1}
  Watched = s1
  Origin = {apiA, apiB}
  Issuer <- OneApi
  Commands = {"refresh", "request", "login", "logout"}
  MaxCommands = 2
SPECIFICATION FairSpec
INVARIANT
  IInv
PROPERTY
  CommandsEnd
CHECK_DEADLOCK FALSE
