SPECIFICATION Spec
CONSTANTS
  Inputs <- OpenGroup
  Slacks <- MCSlacks
  Types <- MCTypes
  Root = "A"
  Fields <- MCFields
  NextOk <- MCNextOk
  MaxMisses = 2
  MaxDepth = 3
  DiscardUnknown = FALSE
  TagBits = 10
INVARIANTS
  AcceptedIsTerminated
CHECK_DEADLOCK FALSE
