SPECIFICATION Spec
CHECK_DEADLOCK FALSE
CONSTANTS
  Inputs <- Graphs3
  None = None
  WordBits = 2
  LutTags = 32
  LutAbsent = 3
  MaxMisses = 2
  Base = 100000
INVARIANT
  RequiredFound
