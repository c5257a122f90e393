--------------------------- MODULE MCBackupRestore ---------------------------
EXTENDS BackupRestore

CONSTANTS loop, i1, i2

=============================================================================
