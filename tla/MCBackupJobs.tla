---------------------------- MODULE MCBackupJobs ----------------------------
EXTENDS BackupJobs

CONSTANTS loop, once, i1, i2

=============================================================================
