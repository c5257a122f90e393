-------------------------- MODULE MCCollectorScan --------------------------
EXTENDS CollectorScan

CONSTANTS daemon, cli

OneTable == <<"group_msg_table">>
OneDatabase == <<"nt_msg">>
LiveRead == [nt_msg |-> "live"]
TwoRows == <<{2, 3}>>
NothingBad == [t \in TableIds |-> {}]

\* nt_msg with two tables, a database that does not open, a third one.
FourTables == <<"c2c_msg_table", "group_msg_table", "message", "message">>
ThreeDatabases == <<"nt_msg", "nt_msg", "locked", "other">>
CopiedReads == [nt_msg |-> "family", locked |-> "live", other |-> "backup"]
FirstDatabaseBad == <<{}, {2}, {}, {}>>
OldRows == <<{}, {1, 2}, {1, 2}, {1}>>

\* Key 1 is older than what a reconcile scan would read behind key 3.
Times == <<1, 4, 4, 5>>
TwoTimes == <<1, 3>>
Overlaps == [initial |-> 0, incremental |-> 1, reconcile |-> 2]
=============================================================================
