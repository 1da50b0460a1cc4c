SPECIFICATION Spec
CONSTANTS
  Inputs <- FieldInputs
  Slacks <- MCSlacks
  Types <- MCTypes
  Root = "S"
  Fields <- MCFields
  NextOk <- MCNextOk
  MaxMisses = 3
  MaxDepth = 2
  DiscardUnknown = FALSE
  TagBits = 10
INVARIANTS
  UnknownsOrdered
  UnknownsInv
  AcceptedIsMeaning
  RejectedIsInvalid
CHECK_DEADLOCK FALSE
