CONSTANTS
  Cards <- MCCards
  ObjectIds <- MCObjectIds
  TokenIds <- MCTokenIds
  PrintedPT <- MCPrintedPT
  ExactOracles <- MCExactOracles
  MaxEssentialCards = 2
  Pools <- MCPools
  MaxDepth = 5
  MaxStates = 60
SPECIFICATION Spec
INVARIANTS
  TypeOK
  SearchBounded
  BreadthFirst
  SetupReplays
  SeedsDisclosed
  BothNeeded
  HitsUnderstood
  PriceKept
PROPERTIES
  IsDiscovery
