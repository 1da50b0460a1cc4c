SPECIFICATION Spec
CONSTANTS
  Procs = {g1, g2}
  Shareds = {s1, s2}
  Libs = {l1, l2}
  Inputs = {x1, x2}
  Depths = {1, 2}
  Codes = {"Truncated"}
  Objs = {o1, o2}
  MaxAddr = 2
  SerialUnmarshal = TRUE
  None = None
SYMMETRY SharedSymmetry
INVARIANTS
  SharedInv
  AddressesDistinct
  LibraryIsOwn
  ReadsOwnInput
  ErrorIsOwn
  StackIsOwn
