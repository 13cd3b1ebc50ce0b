------------------------------ MODULE Agreement ------------------------------
(***************************************************************************)
(* What the delivery of contracts promises the company and its customer:   *)
(* one text is approved, for good; one contract at most is out at a time,  *)
(* of that text; it is sent only while the business is on; it is signed    *)
(* only if it was not withdrawn, and neither a sent nor a signed contract  *)
(* is ever taken back to draw up another.                                  *)
(***************************************************************************)
CONSTANTS Texts         \* what may be agreed

VARIABLES
    text,       \* the approved text, {} or a singleton
    contract,   \* the contract drawn up, {} or a singleton: its text, its
                \* status (drawn, sent, signed) and whether it was withdrawn
    over        \* the business was removed

vars == <<text, contract, over>>

Init == text = {} /\ contract = {} /\ over = FALSE

Approve(t) ==
    /\ ~over /\ text = {}
    /\ text' = {t}
    /\ UNCHANGED <<contract, over>>

\* Also late: one that was being drawn up when the business was removed.
DrawUp ==
    /\ contract = {}
    /\ \E t \in text : contract' = {[text |-> t, status |-> "drawn", withdrawn |-> FALSE]}
    /\ UNCHANGED <<text, over>>

Discard ==
    /\ \E c \in contract : c.status = "drawn"
    /\ contract' = {}
    /\ UNCHANGED <<text, over>>

Send ==
    /\ ~over
    /\ \E c \in contract :
          /\ c.status = "drawn" /\ ~c.withdrawn
          /\ contract' = {[c EXCEPT !.status = "sent"]}
    /\ UNCHANGED <<text, over>>

Sign ==
    /\ \E c \in contract :
          /\ c.status \in {"drawn", "sent"} /\ ~c.withdrawn
          /\ contract' = {[c EXCEPT !.status = "signed"]}
    /\ UNCHANGED <<text, over>>

Withdrawn(c) == [text |-> c.text, status |-> c.status, withdrawn |-> TRUE]
Remove ==
    /\ ~over /\ over' = TRUE
    /\ contract' = {Withdrawn(c) : c \in contract}
    /\ UNCHANGED text

Next ==
    \/ \E t \in Texts : Approve(t)
    \/ DrawUp \/ Discard \/ Send \/ Sign \/ Remove

Spec == Init /\ [][Next]_vars

=============================================================================
