CONSTANTS
  vu = vu
  lufs = lufs
  scope = scope
  s1 = s1
  s2 = s2
  s3 = s3
  Visualizers = {vu, lufs, scope}
  Splitters = {s1, s2, s3}
  Nothing = Nothing
  MaxWindows = 1
  MaxShown = 3
SPECIFICATION Spec
INVARIANT WalkIsSafe
CHECK_DEADLOCK FALSE
