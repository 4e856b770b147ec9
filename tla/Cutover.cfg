\* Two tables of two rows, batches of one or two, two writers, four writes, one fault.
CONSTANTS
  Absent = Absent
  None = None
  orders = orders
  users = users
  audit = audit
  Schemas <- MCSchemas
  Keys = {1, 2}
  Vals = {v1, v2}
  BatchSizes = {1, 2}
  Writers = {w1, w2}
  MaxWrites = 4
  MaxFaults = 1
SPECIFICATION Spec
SYMMETRY Symmetry
INVARIANTS DivergenceExplained CopyRefusedOnlyWhen
CHECK_DEADLOCK FALSE
