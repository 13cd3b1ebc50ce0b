------------------------------ MODULE MCOutbox ------------------------------
(* Overlapping workers of two server processes; one plain message and one   *)
(* that expires and may be withdrawn, as the mail of a one-time code.        *)
EXTENDS Outbox

CONSTANTS plain, code

MCMessages == {plain, code}
MCPerishable == {code}

=============================================================================
