\* Every flow, one call at a time: the member waits for each to end; no backup fails and no folder is locked under it.
\* The budget of calls runs out and the member may do nothing more: the end of a behaviour is no deadlock.
CONSTANTS
  o1 = o1
  o2 = o2
  s1 = s1
  s2 = s2
  e1 = e1
  e2 = e2
  e3 = e3
  x1 = x1
  Ops = {o1}
  Stores = {s1, s2}
  Edits = {e1, x1}
  Imports <- OneImport
  Kinds = {"mutate", "create", "open", "import", "restore"}
  Faults = {"crash", "write", "read", "replace"}
  Keep = 2
  InitFile <- LeftByAnother
  InitSub = None
  MaxBoots = 1
  MaxCalls = 3
  Opfs = Opfs
  NoDb = NoDb
  None = None
  Identity = Identity
SPECIFICATION Spec
INVARIANTS BadgeHonest
PROPERTIES ReplaceIsUndoable
CHECK_DEADLOCK FALSE
