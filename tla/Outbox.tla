------------------------------- MODULE Outbox -------------------------------
(***************************************************************************)
(* What the collector promises of the messages it finds, whatever its      *)
(* tables, leases, batches, retries and restarts do about it: a message    *)
(* waits in the outbox with its current content until the server has       *)
(* received exactly that content, and what was delivered stays as it was   *)
(* until a scan opens it again.  CollectorSync implements it.              *)
(***************************************************************************)
CONSTANT Messages

VARIABLES
    fate,          \* of each message
    content,       \* what the outbox holds of it
    received       \* the content the server accepted last, if any

outbox == <<fate, content, received>>

Fates == {"unknown", "waiting", "delivered", "given up"}

Init ==
    /\ fate = [m \in Messages |-> "unknown"]
    /\ received = [m \in Messages |-> {}]

Keeps(m) == fate'[m] = fate[m] /\ content'[m] = content[m]

\* A scan puts a message in, or opens it again.
Enter(m) == fate'[m] = "waiting"

\* A scan meets it a second time and rewrites what has not been delivered.
Rewrite(m) == fate[m] \notin {"unknown", "delivered"} /\ fate'[m] = fate[m]

\* One page of a scan.
Scan(page) ==
    /\ \A m \in page : Enter(m) \/ Rewrite(m) \/ Keeps(m)
    /\ \A m \in Messages \ page : Keeps(m)
    /\ UNCHANGED received

\* An upload of one of its files changes the content of a message that is not
\* delivered, and may bring one back that was given up.
Amend(m) ==
    /\ fate[m] \in {"waiting", "given up"}
    /\ fate'[m] \in {fate[m], "waiting"}
    /\ \A n \in Messages \ {m} : Keeps(n)
    /\ UNCHANGED received

\* The server accepts some messages that wait, as they are.
Receive(accepted) ==
    /\ \A m \in accepted : fate[m] = "waiting"
    /\ received' = [m \in Messages |-> IF m \in accepted THEN {content[m]} ELSE received[m]]
    /\ UNCHANGED <<fate, content>>

Deliver(m) ==
    /\ fate[m] = "waiting" /\ received[m] = {content[m]}
    /\ fate' = [fate EXCEPT ![m] = "delivered"]
    /\ UNCHANGED <<content, received>>

GiveUp(m) ==
    /\ fate[m] = "waiting"
    /\ fate' = [fate EXCEPT ![m] = "given up"]
    /\ UNCHANGED <<content, received>>

\* The operator retries what was given up.
Retry(m) ==
    /\ fate[m] = "given up"
    /\ fate' = [fate EXCEPT ![m] = "waiting"]
    /\ UNCHANGED <<content, received>>

Next ==
    \/ \E page \in SUBSET Messages : Scan(page)
    \/ \E accepted \in SUBSET Messages : Receive(accepted)
    \/ \E m \in Messages : Amend(m) \/ Deliver(m) \/ GiveUp(m) \/ Retry(m)

Spec == Init /\ [][Next]_outbox

-----------------------------------------------------------------------------
\* What the collector calls delivered is what the server received.
DeliveredIsReceived ==
    \A m \in Messages : fate[m] = "delivered" => received[m] = {content[m]}

=============================================================================
