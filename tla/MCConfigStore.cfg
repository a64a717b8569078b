SPECIFICATION FairSpec
CONSTANTS
  Values <- TwoValues
  Template = "a"
  Slots = 3
  EditorOps <- AllOps
  MaxEdits = 1
  MaxClicks = 1
  MaxFaults = 1
INVARIANT TypeOK
INVARIANT ChangeIsPending
INVARIANT LoadedIsKept
PROPERTY ImplementsBackupLog
PROPERTY EditsAreRead
PROPERTY PluginsAreTold
CHECK_DEADLOCK FALSE
