\* One cell, two rows, up to two pending writes, one crash, also inside a save; no symmetry.
CONSTANTS
  Tables = {orders}
  Keys = {k1}
  Cols = {total}
  Vals = {v1, v2}
  Absent = Absent
  UpdateRows <- FullRow
  MaxQueue = 2
  MaxCrashes = 1
  Stall = 5
  Base = 1
  MaxBusy = 1
  TornSaves = TRUE
  NotFailing = NotFailing
SPECIFICATION FairSpec
INVARIANTS StallDetectionBounded
PROPERTIES DrainsOrStalls HealedQueueDrains
CHECK_DEADLOCK FALSE
