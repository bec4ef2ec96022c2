\* Two edits in quick succession, and nothing goes wrong.
\* The budget of calls runs out and the member may do nothing more: the end of a behaviour is no deadlock.
CONSTANTS
  o1 = o1
  o2 = o2
  s1 = s1
  s2 = s2
  e1 = e1
  e2 = e2
  e3 = e3
  x1 = x1
  Ops = {o1, o2}
  Stores = {s1}
  Edits = {e1, e2}
  Imports <- NoImports
  Kinds = {"mutate"}
  Faults = {}
  Keep = 2
  InitFile <- SavedBefore
  InitSub = s1
  MaxBoots = 0
  MaxCalls = 0
  Opfs = Opfs
  NoDb = NoDb
  None = None
  Identity = Identity
SPECIFICATION Spec
INVARIANTS BadgeHonest
CHECK_DEADLOCK FALSE
