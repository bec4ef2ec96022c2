\* Three builds deployed in any moment of an install, pages that start in any moment, and failures of network, storage and pruning.
\* When the builds of the bound are deployed nothing more need happen: the end is no deadlock.
CONSTANTS
  Builds = {1, 2, 3}
  Files = {"app.js", "sqlite3.js", "sqlite3.wasm"}
  Rank <- Ranks
  Start = "/"
  CacheFirst = {"sqlite3.js", "sqlite3.wasm"}
  Entry = "app.js"
  ContentOf <- Contents
  Faults = {"net", "storage", "prune"}
  MaxFailures = 1
  MaxPuts = 1
  None = None
SPECIFICATION FairSpec
INVARIANTS TypeOK StartsOffline OneBuild UpToDateIsCoherent
PROPERTIES FailedInstallHarmless UpdateArrives
CHECK_DEADLOCK FALSE
