\* Two requests, two loads, one edit of each kind or two of one, two modules.
CONSTANTS
  None = None
  logo = logo
  price = price
  list = list
  format = format
  drag = drag
  name = name
  filters = filters
  Elements = {logo, price, list}
  Fixed = {logo}
  Configured = {logo, price}
  ModuleOf <- MCModuleOf
  ModuleOrder <- MCModuleOrder
  Slots = {name, filters}
  Typed = {name}
  Written = {name, filters}
  Vals = {v0, v1}
  Ttl = 1
  Contents <- MCContents
  Renderings <- MCRenderings
  v0 = v0
  Modes = {"development", "production"}
  MaxRequests = 2
  MaxLoads = 2
  MaxNow = 2
  MaxEdits = 2
  MaxOthers = 1
SPECIFICATION Spec
CONSTRAINT Bounded
INVARIANTS ElementsInitialised EventsTraceable LogMatchesCache
PROPERTIES ReloadKeepsChanges
CHECK_DEADLOCK FALSE
