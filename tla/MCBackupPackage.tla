-------------------------- MODULE MCBackupPackage --------------------------
EXTENDS BackupPackage, TLC

CONSTANTS m1, m2, a1, a2, s1, s2, k1, k2

\* Two ids of one device.
OneDevice == [s \in {s1, s2} |-> "device"]

\* A server whose repair indexed a file without its content_sha256.
Repaired == [EmptyDb EXCEPT !.messages = m1 :> a1, !.views = {m1}, !.assets = a1 :> "bare"]

\* A server that bound the source's row to another message.
Divergent ==
    [EmptyDb EXCEPT !.messages = m2 :> Plain, !.views = {m2},
                    !.sources = {s1}, !.batches = {<<s1, 1>>},
                    !.records = s1 :> [msg |-> m2, batch |-> 1],
                    !.refs = m2 :> Pending, !.parts = m2 :> TRUE, !.aliases = {s1}]

\* One that knows the device under another id and has its avatar.
Registered ==
    [EmptyDb EXCEPT !.messages = m1 :> Plain, !.views = {m1}, !.sources = {s2},
                    !.batches = {<<s2, 1>>}, !.assets = a1 :> "full", !.avatar = a1]

\* One that archived the media of a message as another file.
Archived ==
    [EmptyDb EXCEPT !.messages = m1 :> Plain, !.views = {m1},
                    !.sources = {s1}, !.batches = {<<s1, 1>>},
                    !.records = s1 :> [msg |-> m1, batch |-> 1],
                    !.refs = m1 :> a2, !.parts = m1 :> TRUE, !.aliases = {s1},
                    !.assets = a2 :> "full"]

\* Signs and wants signatures.
Strict == [key |-> k1, pins |-> {}, required |-> TRUE]

\* Has no key and takes what it is given.
Keyless == [key |-> NoKey, pins |-> {}, required |-> FALSE]

\* Has a new key; its registry pins what the old one signed.
Rotated == [key |-> k2, pins |-> {k1}, required |-> FALSE]

FiveServers ==
    {[db |-> EmptyDb,    site |-> Strict],
     [db |-> Repaired,   site |-> Rotated],
     [db |-> Divergent,  site |-> Strict],
     [db |-> Registered, site |-> Keyless],
     [db |-> Archived,   site |-> Rotated]}
=============================================================================
