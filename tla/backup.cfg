\* The worker of the container, which dies at any point, and an operator's
\* "worker once"; the media file of a row may disappear.
SPECIFICATION FairJobsSpec
CONSTANTS
  loop = loop
  once = once
  i1 = i1
  i2 = i2
  MaxJobs = 2
  Workers = {loop, once}
  Looping = {loop}
  Items = {i1}
  Keep = 1
  MayCrash = {loop}
  MaxCrashes = 2
  MaxLost = 1
INVARIANTS JobsRunOnce SucceededCovers RetentionKeepsNewest
PROPERTIES EveryJobEnds
CHECK_DEADLOCK FALSE
