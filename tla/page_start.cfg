\* The production origin, a page that may start two workers: every start, reload and failure.
CONSTANTS
  MaxSpawns = 2
  Hosts <- Prod
  Nobody = Nobody
  Other = Other
  Gone = Gone
SPECIFICATION FairSpec
INVARIANTS BootsOnLiveWorker LinkOpensUntilItAges
PROPERTIES BootIsWatched GateLetsGo
