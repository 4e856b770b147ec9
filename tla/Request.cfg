\* Two requests and a page, three keys; an hour of three, a window of four, a lag of one.
CONSTANTS
  None = None
  Nothing = Nothing
  NotText = NotText
  Empty = Empty
  Reserved = {"class"}
  r1 = r1
  r2 = r2
  page = page
  k1 = k1
  k2 = k2
  k3 = k3
  Requests = {r1, r2}
  Pages = {page}
  Reporters = {r1, r2, page}
  Budgets <- MCBudgets
  Chain <- MCChain
  Keys = {k1, k2, k3}
  Hour = 3
  DedupWindow = 4
  MaxPerHour = 2
  MaxLag = 1
  MaxNow = 4
SPECIFICATION Spec
SYMMETRY Symmetry
INVARIANTS ThrottleBounds ManifestFaithful OrderIndependentOnce
CHECK_DEADLOCK FALSE
