CONSTANTS
  PageOrder <- MCPageOrder
  Option = {"o"}
  Widgets <- MCWidgets
  Extra = {}
  MaxValue = 2
  Offered <- MCOffered
  Like <- MCLike
  Files <- MCFiles
  Unset = Unset
SPECIFICATION Spec
INVARIANTS TypeOK WindowsMatch FocusIsVisible CopyIsStored ClosedIsSaved
