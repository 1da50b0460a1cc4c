SPECIFICATION Spec
CONSTANTS
  Align = 2
  MinLog = 2
  MaxLog = 4
  MaxBlocks = 3
  Sizes = {3, 8}
  Slots = {s1, s2}
  Elem = 3
  MaxAppend = 2
SYMMETRY SlotSymmetry
INVARIANTS
  LiveDisjoint
  LiveInTable
  FreeSpaceIsZero
  SlicesReadBack
  ArenaInv
PROPERTIES
  CapacityDoubles
CHECK_DEADLOCK FALSE
