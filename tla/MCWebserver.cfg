CONSTANTS
  Sessions  = {s1, s2}
  Workers   = {w1, w2}
  Requests  = {r}
  Routed    = {r}
  KeepAlive = {}
  Blocking  = {r}
  Throwing  = {r}
  Malformed = malformed
  Partial   = partial
  None      = none
  Idle      = idle
  Faults    = {"certs", "bind", "accept", "client", "sigint"}
  MaxItems  = 1
SYMMETRY SymmetricSessions
SPECIFICATION WebSpec
INVARIANTS
  WebTypeOK
  SessionsNeedTheirPort
  AcceptsUntilError
  ReturnsOnlyWhenDone
