\* The daemon and the CLI "scan" command over one table that QQ writes to while
\* it is read; one fault.
SPECIFICATION FairScanSpec
CONSTANTS
  daemon = daemon
  cli = cli
  Scanners = {daemon, cli}
  Daemon = daemon
  Databases = {"nt_msg"}
  Tables <- OneTable
  DbOf <- OneDatabase
  ReadMode <- LiveRead
  MaxKey = 4
  TimeOf <- Times
  Backlog <- TwoRows
  Poison <- NothingBad
  Locked = {}
  Overlap <- Overlaps
  PageSize = 2
  InitialBudget = 1
  ManualModes = {"incremental"}
  ManualBudget = 1
  Retries = 1
  MaxFaults = 1
  MaxCrashes = 0
INVARIANTS NoRowSkipped InitialScanIsComplete
PROPERTIES EveryRowQueued
