CONSTANTS
  Radix = 5
  SelectorWidth = 1
  UsizeMax = 20
  MaxDepth = 3
  Capacity = 8
  Grammar <- MCGrammar
  Schema <- MCGrammar
  Contents <- MCContents
  Foreign <- MCForeign
  Copied <- MCCopied
SPECIFICATION Spec
CHECK_DEADLOCK FALSE
INVARIANTS
  OpenedIsWalkable
  ViewsAreRoots
  RoundTrip
  WrittenOpens
  RootPrefixNeedsMore
PROPERTIES
  BehindKept
