CONSTANTS
  Cards <- MCCards
  ObjectIds <- MCObjectIds
  TokenIds <- MCTokenIds
  Corpus <- HiddenCorpus
  ExactOracles <- MCExactOracles
  MaxEssentialCards = 2
SPECIFICATION Spec
INVARIANTS
  VerifiedRepeats
CHECK_DEADLOCK FALSE
