---------------------------- MODULE BackupRestore ----------------------------
(***************************************************************************)
(* Restoring an archive into an empty target (app/backup/restore.py).  The *)
(* archive is validated and unpacked first.  One transaction then checks   *)
(* that the database is empty, inserts every section, publishes the media  *)
(* files one by one and compares the counts; a failure rolls the database  *)
(* back and removes the files this restore noted as its own.               *)
(***************************************************************************)
EXTENDS BackupJobs

CONSTANT MaxRestoreCrashes   \* bound on the deaths of a restore

ASSUME RestoreAssumption == MaxRestoreCrashes \in Nat

VARIABLES
    target,        \* the rows of the target database
    disk,          \* the content of each file of the target storage
    before,        \* the same when the last restore started
    restoring,     \* is a restore under way?
    source,        \* the archive it unpacked
    published,     \* the files it has come to
    own,           \* those it noted as created
    unnoted,       \* the one it created and has not noted
    ended,         \* how the last restore ended
    restoreCrashes

restore == <<target, disk, before, restoring, source, published, own, unnoted, ended,
             restoreCrashes>>
vars == <<jobVars, restore>>

NoArchive == [job |-> 0, kind |-> "none", rows |-> {}, files |-> {}, nth |-> 0]

RestoreTypeOK ==
    /\ target \subseteq Items
    /\ disk \in [Items -> {"none", "right", "other"}]
    /\ before \in [Items -> {"none", "right", "other"}]
    /\ restoring \in BOOLEAN
    /\ source \in made \union {NoArchive}
    /\ published \subseteq source.files
    /\ own \subseteq published /\ unnoted \subseteq published
    /\ ended \in {"never", "failed", "died", "committed"}
    /\ restoreCrashes \in 0..MaxRestoreCrashes

BackupTypeOK == JobsTypeOK /\ RestoreTypeOK

\* The storage directory of the target may hold files already.
RestoreInit ==
    /\ target = {}
    /\ disk \in [Items -> {"none", "right", "other"}] /\ before = disk
    /\ restoring = FALSE /\ source = NoArchive
    /\ published = {} /\ own = {} /\ unnoted = {}
    /\ ended = "never" /\ restoreCrashes = 0

StartRestore(a) ==
    /\ ~restoring /\ a \in Visible /\ Validates(a)
    /\ target = {}
    /\ restoring' = TRUE /\ source' = a
    /\ before' = disk
    /\ UNCHANGED <<target, disk, published, own, unnoted, ended, restoreCrashes>>

\* Mutant: a file that is there is taken for the right one.
ReusableAny(i) == disk[i] # "none"

\* A file that is there counts when it has the size and the checksum.
Reusable(i) == disk[i] = "right"

\* _publish_media: the next file is reused, or copied and then noted.
PublishFile(i) ==
    /\ restoring /\ unnoted = {}
    /\ i \in source.files \ published
    /\ published' = published \union {i}
    /\ \/ /\ Reusable(i)
          /\ UNCHANGED <<disk, unnoted>>
       \/ /\ disk[i] = "none"
          /\ disk' = [disk EXCEPT ![i] = "right"]
          /\ unnoted' = {i}
    /\ UNCHANGED <<target, before, restoring, source, own, ended, restoreCrashes>>

NoteFile ==
    /\ restoring /\ unnoted # {}
    /\ own' = own \union unnoted
    /\ unnoted' = {}
    /\ UNCHANGED <<target, disk, before, restoring, source, published, ended, restoreCrashes>>

EndRestore(how) ==
    /\ ended' = how
    /\ restoring' = FALSE /\ source' = NoArchive
    /\ published' = {} /\ own' = {} /\ unnoted' = {}

\* _insert_regular_section, _insert_message_parts: all sections, in one transaction.
Inserted(a) == a.rows

\* The counts agree when every file of the archive was published.
CommitRestore ==
    /\ restoring /\ unnoted = {} /\ published = source.files
    /\ target' = Inserted(source)
    /\ EndRestore("committed")
    /\ UNCHANGED <<disk, before, restoreCrashes>>

\* Mutant: reused files are removed as well.
RolledBackAll == published

\* _rollback_published_media
RolledBack == own

\* A different file is in the way, a write or the commit raises.
FailRestore ==
    /\ restoring
    /\ disk' = [i \in Items |-> IF i \in RolledBack THEN "none" ELSE disk[i]]
    /\ EndRestore("failed")
    /\ UNCHANGED <<target, before, restoreCrashes>>

\* The transaction is gone, the files stay, and nobody reads the journal again.
CrashRestore ==
    /\ restoring /\ restoreCrashes < MaxRestoreCrashes
    /\ restoreCrashes' = restoreCrashes + 1
    /\ EndRestore("died")
    /\ UNCHANGED <<target, disk, before>>

RestoreNext ==
    \/ \E a \in Visible : StartRestore(a)
    \/ \E i \in Items : PublishFile(i)
    \/ NoteFile \/ CommitRestore \/ FailRestore \/ CrashRestore

-----------------------------------------------------------------------------
Init == JobsInit /\ RestoreInit
Next == \/ JobsNext /\ UNCHANGED restore
        \/ RestoreNext /\ UNCHANGED jobVars

Spec == Init /\ [][Next]_vars

-----------------------------------------------------------------------------
(* Properties *)

\* A restore that committed is the archive: its rows, and each of its files in
\* place with the right content, whatever the storage held before and however
\* many restores failed or died half-way.
RestoreFaithful ==
    target # {} =>
        \E a \in made :
            /\ target = a.rows
            /\ \A i \in a.files : disk[i] = "right"

\* A restore that failed leaves the storage as it found it, but for at most the
\* one file it had created and not yet noted; it never touches what was there.
RestoreUndone ==
    ended = "failed" /\ ~restoring =>
        /\ \A i \in Items : before[i] # "none" => disk[i] = before[i]
        /\ \A i, j \in Items : disk[i] # before[i] /\ disk[j] # before[j] => i = j
=============================================================================
