\* Two handlers, two or three requests, no pool or one of one or two connections.
CONSTANTS
  None = None
  Leased = Leased
  users = users
  ro = ro
  Handlers = {h1, h2}
  Manifests <- MCManifests
  Sizes = {0, 1, 2}
  Retries = 1
  Writes = 2
  Threshold = 1
  Warns = TRUE
  MaxNow = 2
  MaxJobs = 3
SPECIFICATION Spec
CONSTRAINT Bounded
SYMMETRY Symmetry
INVARIANTS ConnectionsAccounted RegistryServesOpen WritesAllOrNothing AckedWritesStay OpenTransactionHasOwner
PROPERTIES ReapSparesRecent
CHECK_DEADLOCK FALSE
