------------------------------ MODULE Mailbox ------------------------------
(***************************************************************************)
(* What the notification outbox promises the code that enqueues a message: *)
(* the message is posted once, it counts as sent only when a copy of it    *)
(* has arrived, only a message that expires or that somebody withdraws is  *)
(* ever dropped, and what became of it never changes.                      *)
(***************************************************************************)
CONSTANTS
    Messages,       \* messages, as their dedupe keys tell them apart
    Perishable      \* those that expire or may be withdrawn

VARIABLES
    box,            \* what became of each message
    arrived         \* messages of which a copy reached the recipient

vars == <<box, arrived>>

Fates == {"none", "posted", "sent", "dropped"}

Init ==
    /\ box = [m \in Messages |-> "none"]
    /\ arrived = {}

Post(m) ==
    /\ box[m] = "none"
    /\ box' = [box EXCEPT ![m] = "posted"]
    /\ UNCHANGED arrived

\* Also late: a copy handed over before the message was dropped.
Arrive(m) ==
    /\ box[m] # "none"
    /\ arrived' = arrived \cup {m}
    /\ UNCHANGED box

MarkSent(m) ==
    /\ box[m] = "posted" /\ m \in arrived
    /\ box' = [box EXCEPT ![m] = "sent"]
    /\ UNCHANGED arrived

\* One statement may drop many.
Drop(S) ==
    /\ \A m \in S : box[m] = "posted"
    /\ box' = [m \in Messages |-> IF m \in S THEN "dropped" ELSE box[m]]
    /\ UNCHANGED arrived

Next ==
    \/ \E m \in Messages : Post(m) \/ Arrive(m) \/ MarkSent(m)
    \/ \E S \in SUBSET Perishable : Drop(S)

Spec == Init /\ [][Next]_vars

=============================================================================
