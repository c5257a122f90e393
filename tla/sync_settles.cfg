\* Two messages that share a request and are split when it is rejected: whatever is
\* queued is delivered or shown as a dead letter, and a process that crashed inside a
\* run scans again.
SPECIFICATION FairSpec
CONSTANTS
  m1 = m1
  m2 = m2
  e1 = e1
  gui = gui
  cli = cli
  Messages = {m1, m2}
  Elements = {e1}
  MaxAttempts = 2
  BatchLimit = 3
  Procs = {gui}
  Guis = {gui}
  SourceViews <- FullView
  Scans = {"incremental"}
  ManualScans = {}
  Faults = {"unavailable", "item_failed"}
  Requeues = FALSE
  MaxCrashes = 1
INVARIANTS BatchesPartition
PROPERTIES EventuallySettled ResumesAfterRestart
