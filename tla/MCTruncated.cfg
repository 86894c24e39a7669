CONSTANTS
  MaxChars = 6
  Words    = {"server", "location", "port"}
  Values   = {"8080", "65616", "junk"}
  Numbers <- MCNumbers
SPECIFICATION MainSpec
INVARIANT TruncatedIsRejected
