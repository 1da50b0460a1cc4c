SPECIFICATION Spec
CONSTANTS
  Inputs <- NestInputs
  Slacks <- MCSlacks
  Types <- MCTypes
  Root = "A"
  Fields <- MCFields
  NextOk <- MCNextOk
  MaxMisses = 2
  MaxDepth = 3
  DiscardUnknown = TRUE
  TagBits = 10
INVARIANTS
  StackInBounds
  AcceptedConsumesAll
  ParserInv
  AcceptedIsMeaning
  RejectedIsInvalid
PROPERTIES
  Termination
CHECK_DEADLOCK FALSE
