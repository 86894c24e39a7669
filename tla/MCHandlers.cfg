CONSTANTS
  Words    = {"dest", "port", "keep-alive"}
  Values   = {"0", "1", "junk"}
  Numbers <- MCNumbers
  Symbols <- MCSymbols
  Blocks <- MCBlocks
  Prefixes <- MCPrefixes
  Tails <- MCTails
  Texts <- MCTexts
  Pages <- MCPages
  GzipLength <- MCGzipLength
SPECIFICATION Spec
INVARIANTS
  TypeOK
  KeptAliveIsFramed
  NoMissingBytes
  ThrowsExplained
  LinksRewritten
  FailureIsNoPage
  RedirectComesBack
