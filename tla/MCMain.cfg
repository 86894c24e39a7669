CONSTANTS
  MaxChars = 8
  Words    = {"server", "location", "port", "httpsPort", "certificate", "privateKey"}
  Values   = {"8080", "65616", "junk"}
  Numbers <- MCNumbers
SPECIFICATION MainSpec
INVARIANTS
  MainTypeOK
  StackFollowsBraces
  BackIsBeingRead
  AcceptedIsComplete
  OnlyLastIsOpen
  CrashExplained
  PortIsWritten
PROPERTIES
  PutBackOnce
  StartupEnds
