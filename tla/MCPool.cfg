CONSTANTS
  Sessions  = {s1, s2}
  Workers   = {w1, w2}
  Requests  = {stuck, quick}
  Routed    = {stuck, quick}
  KeepAlive = {quick}
  Blocking  = {stuck}
  Throwing  = {}
  Malformed = malformed
  Partial   = partial
  None      = none
  Idle      = idle
  Faults    = {}
  MaxItems  = 1
SPECIFICATION FairWebSpec
PROPERTIES
  CompletionsAreHandled
  OthersServed
