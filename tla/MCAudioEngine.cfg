SPECIFICATION FairSpec
CONSTANTS
  Builds <- AllBuilds
  Devices <- Plugged
  Wishes <- Wished
  MaxReloads = 2
  MaxFaults = 2
INVARIANTS TypeOK OneBackend NothingIsLeft StreamIsCurrent
PROPERTIES StreamSurvivesReload JobsComplete
CHECK_DEADLOCK FALSE
