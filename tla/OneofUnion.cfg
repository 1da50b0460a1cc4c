SPECIFICATION Spec
CHECK_DEADLOCK FALSE
CONSTANTS
  Bits8 = 2
  Bits32 = 4
  Bits64 = 8
  Schemas <- UnionSchemas
  Records <- MCRecords
  MinSize = 4
  Stride = 3
  MaxParts = 7
INVARIANT
  ReadsMeaning
