CONSTANTS
  Cards <- MCCards
  ObjectIds <- MCObjectIds
  TokenIds <- MCTokenIds
  Boards <- MCBoards
SPECIFICATION Spec
INVARIANTS
  TypeOK
  SBAStable
  SBAOneByOne
  Ledgers
  LifeLedger
  GraveyardLedger
  NoDeathUndrained
  UndyingReturnReady
  OncePerTurnOnce
  CountersNeedReducerGone
  NoEntryUnseen
PROPERTIES
  CounterGatesUndying
  SickDoNotTap
CHECK_DEADLOCK FALSE
