\* Two calls of different flows at once, with every way a call or a start can fail.
\* The budget of calls runs out and the member may do nothing more: the end of a behaviour is no deadlock.
CONSTANTS
  o1 = o1
  o2 = o2
  s1 = s1
  s2 = s2
  e1 = e1
  e2 = e2
  e3 = e3
  x1 = x1
  Ops = {o1, o2}
  Stores = {s1, s2}
  Edits = {e1, x1}
  Imports <- OneImport
  Kinds = {"mutate", "import", "open", "create", "lock"}
  Faults = {"crash", "write", "backup", "read", "missing", "lapse", "open", "replace", "schema"}
  Keep = 2
  InitFile <- SavedBefore
  InitSub = s1
  MaxBoots = 1
  MaxCalls = 1
  Opfs = Opfs
  NoDb = NoDb
  None = None
  Identity = Identity
SPECIFICATION FairSpec
INVARIANTS LockDiscipline
PROPERTIES EveryCallReturns
CHECK_DEADLOCK FALSE
