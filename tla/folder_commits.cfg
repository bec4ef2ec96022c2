\* Three commits, two of them in flight at once, on one connected store.
\* The budget of calls runs out and the member may do nothing more: the end of a behaviour is no deadlock.
CONSTANTS
  o1 = o1
  o2 = o2
  s1 = s1
  s2 = s2
  e1 = e1
  e2 = e2
  e3 = e3
  x1 = x1
  Ops = {o1, o2}
  Stores = {s1}
  Edits = {e1, e2, e3}
  Imports <- NoImports
  Kinds = {"mutate"}
  Faults = {"crash", "write", "backup", "read", "missing", "lapse"}
  Keep = 2
  InitFile <- SavedBefore
  InitSub = s1
  MaxBoots = 1
  MaxCalls = 0
  Opfs = Opfs
  NoDb = NoDb
  None = None
  Identity = Identity
SPECIFICATION Spec
PROPERTIES ImplementsDurableStore
CHECK_DEADLOCK FALSE
