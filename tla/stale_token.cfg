\* What a refresh returns after another one was killed half way.
CONSTANTS
  s1 = s1
  s2 = s2
  apiA = apiA
  apiB = apiB
  NoToken = NoToken
  NoProc = NoProc
  NoClaim = NoClaim
  Proc = {p1, p2}
  Session = {s1}
  Watched = s1
  Origin = {apiA}
  Issuer <- OneApi
  Commands = {"refresh", "request"}
  MaxCommands = 2
SPECIFICATION Spec
INVARIANT
  NeverReturnsStale
CHECK_DEADLOCK FALSE
