SPECIFICATION Spec
CONSTANTS
  Procs = {g1, g2}
  Shareds = {s1}
  Libs = {l1, l2}
  Inputs = {x1}
  Depths = {1, 2}
  Codes = {"Truncated", "Overflow"}
  Objs = {o1, o2}
  MaxAddr = 2
  SerialUnmarshal = FALSE
  None = None
PROPERTIES
  CallsReturn
