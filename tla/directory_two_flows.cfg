\* Two flows at once, reloads, and every fault but a full disk.
\* When the clicks and deploys of the bound are used up nothing more need happen: the end is no deadlock.
CONSTANTS
  f1 = f1
  f2 = f2
  v1 = v1
  v2 = v2
  v3 = v3
  ann = ann
  bob = bob
  None = None
  Flows = {f1, f2}
  Versions = {v1, v2}
  Fellows = {ann}
  FellowsOf <- Rosters
  Faults = {"fetch", "invalid", "open", "meta", "reload"}
  MaxDeploys = 2
  MaxClicks = 3
  MaxBoots = 1
SPECIFICATION FairSpec
INVARIANTS TypeOK
PROPERTIES DirectoryKept EveryFlowEnds
CHECK_DEADLOCK FALSE
