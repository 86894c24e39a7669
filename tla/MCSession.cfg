CONSTANTS
  Sessions  = {s1}
  Requests  = {keep, last, stuck, lost}
  Routed    = {keep, last, stuck}
  KeepAlive = {keep}
  Blocking  = {stuck}
  Malformed = malformed
  Partial   = partial
  None      = none
  MaxItems  = 3
SPECIFICATION FairSpec
INVARIANTS
  TypeOK
  AnswersInOrder
  ClosingAnswerIsLast
  EndExplained
PROPERTIES
  OneDeadlinePerExchange
  ExchangesEnd
  ImplementsHttpConnection
