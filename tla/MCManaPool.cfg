CONSTANTS
  Opening <- MCOpening
  Needs <- MCNeeds
  Colors <- MCColors
  MaxPool = 3
SPECIFICATION Spec
INVARIANTS
  TypeOK
  PaymentComplete
  FailureNamed
  PaymentExact
  ActivateOnlyReserved
