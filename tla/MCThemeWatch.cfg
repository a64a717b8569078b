SPECIFICATION FairSpec
CONSTANTS
  Themes <- MCThemes
  MaxChanges = 4
INVARIANTS
  TypeOK
  EditIsSeen
PROPERTIES
  LoadsEnd
CHECK_DEADLOCK FALSE
