CONSTANTS
  Cards <- MCCards
  ObjectIds <- MCObjectIds
  TokenIds <- MCTokenIds
  PrintedPT <- MCPrintedPT
  ExactOracles <- MCExactOracles
  MaxEssentialCards = 2
  Pools <- CollapsingPools
  MaxDepth = 5
  MaxStates = 60
SPECIFICATION Spec
INVARIANTS
  PruneEquivalent
