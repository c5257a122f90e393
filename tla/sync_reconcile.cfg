\* Reconcile scans only, the server unavailable at times.
SPECIFICATION Spec
CONSTANTS
  m1 = m1
  m2 = m2
  e1 = e1
  gui = gui
  cli = cli
  Messages = {m1}
  Elements = {e1}
  MaxAttempts = 2
  BatchLimit = 3
  Procs = {gui}
  Guis = {gui}
  SourceViews <- NoThumbnailViews
  Scans = {"reconcile"}
  ManualScans = {"reconcile"}
  Faults = {"unavailable", "item_failed"}
  Requeues = FALSE
  MaxCrashes = 1
INVARIANTS PatchNotLost RowsRecoverable
PROPERTIES DeadLetterOnlyWhenExhausted
