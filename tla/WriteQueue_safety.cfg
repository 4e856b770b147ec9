\* Two cells of one table, two rows, up to three pending writes, one crash.
CONSTANTS
  Tables = {orders}
  Keys = {k1, k2}
  Cols = {total}
  Vals = {v1, v2}
  Absent = Absent
  UpdateRows <- FullRow
  MaxQueue = 3
  MaxCrashes = 1
  Stall = 2
  Base = 1
  MaxBusy = 0
  TornSaves = FALSE
  NotFailing = NotFailing
SPECIFICATION Spec
SYMMETRY Symmetry
INVARIANTS MergeIsTheDrain Recoverable
PROPERTIES ReadsTransparent NothingDiscarded
CHECK_DEADLOCK FALSE
