\* A login at another deployment beside a refresh.
CONSTANTS
  s1 = s1
  s2 = s2
  apiA = apiA
  apiB = apiB
  NoToken = NoToken
  NoProc = NoProc
  NoClaim = NoClaim
  Proc = {p1, p2}
  Session = {s1, s2}
  Watched = s1
  Origin = {apiA, apiB}
  Issuer <- TwoApis
  Commands = {"refresh", "request", "login", "logout"}
  MaxCommands = 2
SPECIFICATION Spec
INVARIANT
  SentToIssuerOnly
CHECK_DEADLOCK FALSE
