CONSTANTS
  Cards <- MCCards
  ObjectIds <- MCObjectIds
  TokenIds <- MCTokenIds
  PrintedPT <- MCPrintedPT
  ExactOracles <- MCExactOracles
  MaxEssentialCards = 2
  Pools <- FreePools
  MaxDepth = 5
  MaxStates = 60
SPECIFICATION Spec
INVARIANTS
  PriceKept
