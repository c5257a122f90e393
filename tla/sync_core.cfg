\* Two command-line processes behind the sync_runs gate, one message first seen
\* with a thumbnail, then in full; every fault, one crash.
SPECIFICATION Spec
CONSTANTS
  m1 = m1
  m2 = m2
  e1 = e1
  gui = gui
  cli = cli
  Messages = {m1}
  Elements = {e1}
  MaxAttempts = 2
  BatchLimit = 3
  Procs = {gui, cli}
  Guis = {}
  SourceViews <- UpgradeViews
  Scans = {"incremental", "reconcile"}
  ManualScans = {}
  Faults = {"unavailable", "refused", "item_failed"}
  Requeues = TRUE
  MaxCrashes = 1
INVARIANTS TypeOK RunExclusive LeasesIntact HashesOnServer
PROPERTIES ImplementsOutbox QueueSpec
CHECK_DEADLOCK FALSE
