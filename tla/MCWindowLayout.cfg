CONSTANTS
  vu = vu
  lufs = lufs
  scope = scope
  s1 = s1
  s2 = s2
  s3 = s3
  Visualizers = {vu, lufs, scope}
  Splitters = {s1, s2, s3}
  Nothing = Nothing
  MaxWindows = 1
  MaxShown = 3
SPECIFICATION Spec
INVARIANTS TypeOK TreeShape WindowsFollow
PROPERTIES DragsKeep NeverDoubled
SYMMETRY Symmetry
CHECK_DEADLOCK FALSE
