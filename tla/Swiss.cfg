SPECIFICATION Spec
CHECK_DEADLOCK FALSE
CONSTANTS
  Content <- MCContent
  ZeroKey = 0
  Hash <- MCHash
  Inputs <- MCInputs
INVARIANTS
  SwissInv
  ProbesEnd
  ComparesLiveKeys
  ReadersAgree
PROPERTIES
  Implements
