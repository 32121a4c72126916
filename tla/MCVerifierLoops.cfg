CONSTANTS
  Cards <- MCCards
  ObjectIds <- MCObjectIds
  TokenIds <- MCTokenIds
  Corpus <- LoopCorpus
  ExactOracles <- MCExactOracles
  MaxEssentialCards = 2
SPECIFICATION Spec
INVARIANTS
  TypeOK
  MandatoryHold
  OncePerTurnNotInLoop
  VerifiedRepeats
PROPERTIES
  IsJudgement
CHECK_DEADLOCK FALSE
