SPECIFICATION Spec
CHECK_DEADLOCK FALSE
CONSTANTS
  Inputs <- MCInputs
  None = None
  WordBits = 2
  LutTags = 32
  LutAbsent = 3
  MaxMisses = 2
  Base = 100000
INVARIANTS
  ComponentsSorted
  CompilerInv
  ProgramDispatches
  SlotsDisjoint
  RequiredExact
