\* The daemon alone over three databases: one with a row that always raises, one
\* that never opens, one that is healthy; copies of files that are written to.
SPECIFICATION FairScanSpec
CONSTANTS
  daemon = daemon
  cli = cli
  Scanners = {daemon}
  Daemon = daemon
  Databases = {"nt_msg", "locked", "other"}
  Tables <- FourTables
  DbOf <- ThreeDatabases
  ReadMode <- CopiedReads
  MaxKey = 2
  TimeOf <- TwoTimes
  Backlog <- OldRows
  Poison <- FirstDatabaseBad
  Locked = {"locked"}
  Overlap <- Overlaps
  PageSize = 2
  InitialBudget = 2
  ManualModes = {}
  ManualBudget = 0
  Retries = 2
  MaxFaults = 1
  MaxCrashes = 1
PROPERTIES HealthyRowsQueued
