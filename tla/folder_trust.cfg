\* First store, every fault, and a store changed for another.
\* The budget of calls runs out and the member may do nothing more: the end of a behaviour is no deadlock.
CONSTANTS
  o1 = o1
  o2 = o2
  s1 = s1
  s2 = s2
  e1 = e1
  e2 = e2
  e3 = e3
  x1 = x1
  Ops = {o1}
  Stores = {s1, s2}
  Edits = {e1, e2}
  Imports <- NoImports
  Kinds = {"mutate", "create", "lock"}
  Faults = {"crash", "write", "backup", "lapse", "read", "missing", "open"}
  Keep = 2
  InitFile <- AllNew
  InitSub = None
  MaxBoots = 1
  MaxCalls = 2
  Opfs = Opfs
  NoDb = NoDb
  None = None
  Identity = Identity
SPECIFICATION Spec
INVARIANTS TypeOK TrustedEditsOnDisk
PROPERTIES FolderNeverRegresses
CHECK_DEADLOCK FALSE
