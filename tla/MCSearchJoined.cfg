CONSTANTS
  Cards <- MCCards
  ObjectIds <- MCObjectIds
  TokenIds <- MCTokenIds
  PrintedPT <- MCPrintedPT
  ExactOracles <- MCExactOracles
  MaxEssentialCards = 2
  Pools <- JoinedPools
  MaxDepth = 5
  MaxStates = 60
SPECIFICATION Spec
INVARIANTS
  HitsUnderstood
