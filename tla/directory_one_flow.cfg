\* One flow at a time, with every fault but those that spoil the meta file.
\* When the clicks and deploys of the bound are used up nothing more need happen: the end is no deadlock.
CONSTANTS
  f1 = f1
  f2 = f2
  v1 = v1
  v2 = v2
  v3 = v3
  ann = ann
  bob = bob
  None = None
  Flows = {f1}
  Versions = {v1, v2, v3}
  Fellows = {ann, bob}
  FellowsOf <- Rosters
  Faults = {"fetch", "invalid", "open", "disk"}
  MaxDeploys = 2
  MaxClicks = 3
  MaxBoots = 0
SPECIFICATION Spec
INVARIANTS CheckIsHonest
PROPERTIES AppliedAsConfirmed
CHECK_DEADLOCK FALSE
