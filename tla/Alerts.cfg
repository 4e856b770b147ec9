\* Messages of six kinds; bounds as MCBudgets lists them.
CONSTANTS
  None = None
  ann = ann
  bob = bob
  s1 = s1
  s2 = s2
  m1 = m1
  m2 = m2
  acme = acme
  ToastSeconds = 1
  p1 = p1
  p2 = p2
  Messages <- MCMessages
  SendArgs <- MCSendArgs
  RoutingTable <- MCRoutingTable
  ActorRefs <- MCActorRefs
  Pollers <- MCPollers
  SystemEvents <- MCSystemEvents
  Budgets <- MCBudgets
SPECIFICATION FairSpec
INVARIANTS AckIsScoped DeliveredIsTrue DuplicatesBounded
PROPERTIES EndedForGood DueIsSettled WaitComesBack
CHECK_DEADLOCK FALSE
