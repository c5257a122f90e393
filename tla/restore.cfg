\* One backup of two items is restored into a storage directory that may hold
\* either file, or something else in its place; restores fail and die.
SPECIFICATION Spec
CONSTANTS
  loop = loop
  i1 = i1
  i2 = i2
  MaxJobs = 1
  Workers = {loop}
  Looping = {loop}
  Items = {i1, i2}
  Keep = 1
  MayCrash = {loop}
  MaxCrashes = 1
  MaxLost = 1
  MaxRestoreCrashes = 1
INVARIANTS RestoreFaithful RestoreUndone
CHECK_DEADLOCK FALSE
