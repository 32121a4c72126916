CONSTANTS
  Cards <- MCCards
  ObjectIds <- MCObjectIds
  TokenIds <- MCTokenIds
  Boards <- DeathBoards
SPECIFICATION Spec
INVARIANTS
  ErrorLeavesLegalBoard
CHECK_DEADLOCK FALSE
