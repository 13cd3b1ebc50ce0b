---------------------------- MODULE Negotiation ----------------------------
(***************************************************************************)
(* What the proposals component promises its two parties: at most one      *)
(* offer is on the table, and a deal closes on exactly that offer, once.   *)
(***************************************************************************)
EXTENDS FiniteSets

CONSTANTS
    Terms,      \* what may be offered
    Parties     \* who may close a deal

VARIABLES
    offer,      \* the terms on the table, {} or a singleton
    deal,       \* the deal closed, {} or a singleton
    over        \* the negotiation was removed

vars == <<offer, deal, over>>

Init == offer = {} /\ deal = {} /\ over = FALSE

\* New terms replace the offer until a deal is closed.
MakeOffer(t) ==
    /\ ~over
    /\ deal = {}
    /\ offer' = {t}
    /\ UNCHANGED <<deal, over>>

Withdraw ==
    /\ deal = {}
    /\ offer' = {}
    /\ UNCHANGED <<deal, over>>

Close(p) ==
    /\ deal = {}
    /\ \E t \in offer : deal' = {[terms |-> t, party |-> p]}
    /\ UNCHANGED <<offer, over>>

Remove ==
    /\ ~over
    /\ offer' = {}
    /\ deal' = {}
    /\ over' = TRUE

Next ==
    \/ \E t \in Terms : MakeOffer(t)
    \/ \E p \in Parties : Close(p)
    \/ Withdraw
    \/ Remove

Spec == Init /\ [][Next]_vars

============================================================================
