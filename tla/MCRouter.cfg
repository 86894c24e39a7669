CONSTANTS
  Chars = {"/", "?", "a"}
  Slash = "/"
  QMark = "?"
  Urls <- MCUrls
  Targets <- MCTargets
  MaxLocations = 2
SPECIFICATION Spec
INVARIANTS
  TypeOK
  LongestPrefixWins
  SuffixInRange
