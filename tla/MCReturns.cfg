CONSTANTS
  Sessions  = {s1}
  Workers   = {w1, w2}
  Requests  = {r}
  Routed    = {r}
  KeepAlive = {}
  Blocking  = {r}
  Throwing  = {r}
  Malformed = malformed
  Partial   = partial
  None      = none
  Idle      = idle
  Faults    = {"accept"}
  MaxItems  = 1
SPECIFICATION WebSpec
INVARIANT BlocksUntilException
