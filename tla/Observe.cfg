\* Two concurrent emitters, four emits to two aggregates, three clock readings;
\* three sources, wall clocks that read 0, 1 or 2 in any order, five events.
CONSTANTS
  None = None
  a1 = a1
  a2 = a2
  stripe_7 = stripe_7
  ann = ann
  bob = bob
  Emitters = {p1, p2}
  Requests <- MCRequests
  Projection <- MCProjection
  MaxTime = 2
  MaxEmits = 4
  Sources <- MCSources
  MaxWall = 2
  MaxEvents = 5
SPECIFICATION ObserveSpec
SYMMETRY Symmetry
INVARIANTS AggregateInEmitOrder AckedIsLogged ExactInOrder ClaimsAccounted CausalOrder StampsUnique NoRunaway
CHECK_DEADLOCK FALSE
