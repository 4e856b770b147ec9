\* Events of one clock reading on both sides of a snapshot taken after every event.
CONSTANTS
  None = None
  a1 = a1
  a2 = a2
  stripe_7 = stripe_7
  ann = ann
  bob = bob
  Emitters = {p1, p2}
  Requests <- PlainRequests
  Projection <- EveryEvent
  MaxTime = 1
  MaxEmits = 2
  Sources <- MCSources
  MaxWall = 0
  MaxEvents = 0
SPECIFICATION ObserveSpec
INVARIANTS SnapshotExact
CHECK_DEADLOCK FALSE
