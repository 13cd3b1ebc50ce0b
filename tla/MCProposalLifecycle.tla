------------------------ MODULE MCProposalLifecycle ------------------------
(* A small instance of ProposalLifecycle: a superadmin-like editor with every *)
(* permission, a salesperson without the price permission, two customers.    *)
EXTENDS ProposalLifecycle

CONSTANTS boss, seller, template

MCEditors   == {boss, seller}
MCTemplates == {template}

\* A complete form, one with an earlier date, one not ready for publication.
MCForms ==
    {[validUntil |-> NoDate, template |-> template,   price |-> 1],
     [validUntil |-> 0,      template |-> template,   price |-> 1],
     [validUntil |-> NoDate, template |-> NoTemplate, price |-> 0]}

============================================================================
