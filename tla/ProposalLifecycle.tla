------------------------- MODULE ProposalLifecycle -------------------------
(***************************************************************************)
(* One commercial proposal, from its first draft to its acceptance or      *)
(* removal, as internal/proposals keeps it in PostgreSQL.                  *)
(*                                                                         *)
(* Every step is one database transaction (or one SQL statement).  Saving  *)
(* and publishing from the editor is a sequence of three transactions, and *)
(* a customer's acceptance a read followed by a transaction, so requests   *)
(* of several editors and customers interleave between their steps and may *)
(* end between any two of them (error, closed connection, restart).        *)
(***************************************************************************)
EXTENDS Integers, FiniteSets

CONSTANTS
    Editors,        \* users with permission to edit proposals
    AllAccess,      \* editors holding proposal.read_all: may edit any proposal
    Publishers,     \* editors holding proposal.publish
    PriceEditors,   \* editors holding proposal.price.edit
    Customers,      \* identities (name, e-mail, CPF) a customer accepts with
    Templates,      \* frozen versions of contract templates
    NoTemplate,     \* no contract template selected
    NoDate,         \* no validity date
    NoContent,      \* content of a version row that does not exist
    NoOwner,        \* owner of a proposal row that does not exist
    Forms,          \* contents the editors submit
    MaxPrice,       \* bound: prices, 0 for a product without one
    MaxVersion,     \* bound: versions of the proposal
    MaxDay          \* bound: days that pass

Versions == 1 .. MaxVersion
Days     == 0 .. MaxDay
Dates    == Days \cup {NoDate}
TemplateRefs == Templates \cup {NoTemplate}

\* What a version snapshots, as far as the lifecycle tells contents apart.
\* content_hash is a hash of all of it, so the content stands for its hash.
Contents == [validUntil: Dates, template: TemplateRefs,
             price: 0 .. MaxPrice]

ASSUME BoundsAssumption == 
    MaxVersion \in Nat \ {0} /\ MaxDay \in Nat /\ MaxPrice \in Nat
ASSUME NullsAssumption ==
    /\ NoDate \notin Int
    /\ NoTemplate \notin Templates
    /\ NoContent \notin Contents
    /\ NoOwner \notin Editors
ASSUME PeopleAssumption ==
    AllAccess \subseteq Editors /\ Publishers \subseteq Editors /\ PriceEditors \subseteq Editors
ASSUME FormsAssumption == Forms \subseteq Contents

VARIABLES
    today,          \* the current date
    proposal,       \* the row of table proposals
    versions,       \* its rows of proposal_versions, by version_number
    acceptances,    \* its rows of proposal_acceptances, with their onboarding
    edits,          \* the saveProposal request of each editor
    visits          \* the acceptProposal request of each customer

vars == <<today, proposal, versions, acceptances, edits, visits>>

ProposalStatus == {"none", "draft", "published", "expired", "accepted"}

ProposalRow ==
    [status: ProposalStatus, current: 0 .. MaxVersion, validUntil: Dates,
     template: TemplateRefs, owner: Editors \cup {NoOwner}, deleted: BOOLEAN]

VersionRow ==
    [state: {"absent", "draft", "published"},
     content: Contents \cup {NoContent}, template: TemplateRefs]

Acceptance ==
    [version: Versions, hash: Contents, by: Customers, deleted: BOOLEAN]

\* The forms are validated and dated, so an idle request keeps none of them.
Edit ==
    [pc: {"idle", "priced", "saved", "assigned"}, action: {"draft", "publish"},
     input: Contents \cup {NoContent}, version: 0 .. MaxVersion]

Visit == [pc: {"idle", "read"}, version: 0 .. MaxVersion,
          content: Contents \cup {NoContent}]

IdleEdit  == [pc |-> "idle", action |-> "draft", input |-> NoContent, version |-> 0]
IdleVisit == [pc |-> "idle", version |-> 0, content |-> NoContent]
NoVersion == [state |-> "absent", content |-> NoContent, template |-> NoTemplate]

TypeOK ==
    /\ today \in Days
    /\ proposal \in ProposalRow
    /\ versions \in [Versions -> VersionRow]
    /\ acceptances \subseteq Acceptance
    /\ edits \in [Editors -> Edit]
    /\ visits \in [Customers -> Visit]

Init ==
    /\ today = 0
    /\ proposal = [status |-> "none", current |-> 0, validUntil |-> NoDate,
                   template |-> NoTemplate, owner |-> NoOwner, deleted |-> FALSE]
    /\ versions = [v \in Versions |-> NoVersion]
    /\ acceptances = {}
    /\ edits = [e \in Editors |-> IdleEdit]
    /\ visits = [k \in Customers |-> IdleVisit]

----------------------------------------------------------------------------
(* Helpers *)

\* IsDateExpired, and the comparison of the maintenance statement.
Past(date, day) == date # NoDate /\ date < day

Live(a) == ~a.deleted
LiveAcceptances == {a \in acceptances : Live(a)}

Exists == proposal.status # "none" /\ ~proposal.deleted

MayEdit(e) == e \in AllAccess \/ proposal.owner = e

Present == {v \in Versions : versions[v].state # "absent"}
Drafts  == {v \in Versions : versions[v].state = "draft"}
IsNewest(v) == v \in Present /\ \A w \in Present : w <= v

\* The version a save writes to: the unpublished one, or else the next number.
AlwaysNextVersion(v) ==         \* mutant: never looks for the unpublished one
    /\ \A w \in Present : w < v
    /\ v - 1 \in Present
IsSaveTarget(v) ==
    IF Drafts # {}
    THEN v \in Drafts /\ \A w \in Drafts : w <= v
    ELSE (\A w \in Present : w < v) /\ v - 1 \in Present

\* validateProposalForPublish: a price, a contract template, a date not past.
Publishable(c, day) == c.price > 0 /\ c.template # NoTemplate /\ ~Past(c.validUntil, day)

----------------------------------------------------------------------------
(* The editor: saveProposal *)

\* Store.SaveDraft for a form without a proposal: proposal and version 1 in
\* one transaction.  An editor without the price permission loses the prices.
Create(e, c, action) ==
    /\ edits[e].pc = "idle"
    /\ action = "publish" => e \in Publishers
    /\ proposal.status = "none"
    /\ LET input == IF e \in PriceEditors THEN c ELSE [c EXCEPT !.price = 0]
       IN /\ proposal' = [proposal EXCEPT !.status = "draft", !.owner = e,
                                          !.validUntil = c.validUntil]
          /\ versions' = [versions EXCEPT ![1].state = "draft", ![1].content = input]
          /\ edits' = [edits EXCEPT ![e] = [pc |-> "saved", action |-> action,
                                            input |-> input, version |-> 1]]
    /\ UNCHANGED <<today, acceptances, visits>>

\* enforceProposalProtectedFields: before the first transaction, the prices
\* of a form from an editor without the price permission are replaced by
\* those of the newest version (EditorByID).
ProtectPrice(e, c, action) ==
    /\ edits[e].pc = "idle"
    /\ action = "publish" => e \in Publishers
    /\ e \notin PriceEditors
    /\ Exists
    /\ MayEdit(e)
    /\ \E v \in Versions :
          /\ IsNewest(v)
          /\ edits' = [edits EXCEPT ![e] =
                [pc |-> "priced", action |-> action, version |-> 0,
                 input |-> [c EXCEPT !.price = versions[v].content.price]]]
    /\ UNCHANGED <<today, proposal, versions, acceptances, visits>>

\* Store.SaveDraft on an existing proposal, the first transaction of
\* saveProposal: checks access and status, rewrites the validity on the
\* proposal row, whatever its status, and creates or overwrites the
\* unpublished version.
SaveDraft(e, c, action, v) ==
    /\ \/ edits[e].pc = "idle" /\ e \in PriceEditors /\ c \in Forms
       \/ edits[e].pc = "priced" /\ c = edits[e].input /\ action = edits[e].action
    /\ action = "publish" => e \in Publishers
    /\ Exists
    /\ MayEdit(e)
    /\ proposal.status # "accepted"
    /\ IsSaveTarget(v)
    /\ proposal' = [proposal EXCEPT !.validUntil = c.validUntil]
    /\ versions' = [versions EXCEPT ![v].state = "draft", ![v].content = c]
    /\ edits' = [edits EXCEPT ![e] = [pc |-> "saved", action |-> action,
                                      input |-> c, version |-> v]]
    /\ UNCHANGED <<today, acceptances, visits>>

\* persistProposalContractAssignment, the second transaction: the proposal
\* row unconditionally, the version row only while it is unpublished.  Then
\* the handler either ends or, to publish, validates the form it received.
TemplateOverwritten(v, t) == t      \* mutant: published versions as well
TemplateColumn(v, t) == IF versions[v].state = "draft" THEN t ELSE versions[v].template
AssignTemplate(e) ==
    /\ edits[e].pc = "saved"
    /\ LET t == edits[e].input.template
           v == edits[e].version
       IN /\ proposal' = [proposal EXCEPT !.template = t]
          /\ versions' = [versions EXCEPT ![v].template = TemplateColumn(v, t)]
    /\ edits' = [edits EXCEPT ![e] =
          IF edits[e].action = "publish" /\ Publishable(edits[e].input, today)
          THEN [edits[e] EXCEPT !.pc = "assigned"] ELSE IdleEdit]
    /\ UNCHANGED <<today, acceptances, visits>>

\* Store.Publish, the third transaction: whatever the unpublished version
\* now holds becomes the current published version.
MayPublishAccepted(e) ==            \* mutant: status is not looked at
    /\ edits[e].pc = "assigned"
    /\ versions[edits[e].version].state = "draft"
    /\ Exists /\ MayEdit(e)
MayPublish(e) ==
    /\ edits[e].pc = "assigned"
    /\ versions[edits[e].version].state = "draft"
    /\ Exists /\ MayEdit(e)
    /\ proposal.status # "accepted"
NumberPublished(e) == edits[e].version
Publish(e) ==
    /\ MayPublish(e)
    /\ versions' = [versions EXCEPT ![edits[e].version].state = "published"]
    /\ proposal' = [proposal EXCEPT !.status = "published",
                                    !.current = NumberPublished(e)]
    /\ edits' = [edits EXCEPT ![e] = IdleEdit]
    /\ UNCHANGED <<today, acceptances, visits>>

\* The request ends before its next transaction: a refused or failed
\* transaction, a closed connection, a crash of the server.
EndEdit(e) ==
    /\ edits[e].pc # "idle"
    /\ edits' = [edits EXCEPT ![e] = IdleEdit]
    /\ UNCHANGED <<today, proposal, versions, acceptances, visits>>

----------------------------------------------------------------------------
(* The customer: acceptProposal *)

\* Store.PublicByToken for the token of version v, and the handler's check
\* that the snapshot names a contract template.  A superseded, expired or
\* removed proposal is not shown; validity is not checked once accepted.
ReadProposal(k, v) ==
    /\ visits[k].pc = "idle"
    /\ versions[v].state = "published"
    /\ ~proposal.deleted
    /\ v = proposal.current
    /\ proposal.status \in {"published", "accepted"}
    /\ LET c == versions[v].content
           date == IF c.validUntil # NoDate THEN c.validUntil ELSE proposal.validUntil
       IN /\ proposal.status = "published" => ~Past(date, today)
          /\ c.template # NoTemplate
          /\ visits' = [visits EXCEPT ![k] = [pc |-> "read", version |-> v, content |-> c]]
    /\ UNCHANGED <<today, proposal, versions, acceptances, edits>>

\* The guards of Store.Accept on the row it locks, for the version read.
MayAcceptSuperseded(k) ==           \* mutant: current_version is not compared
    visits[k].pc = "read" /\ Exists /\ proposal.status \in {"published", "accepted"}
MayAccept(k) ==
    /\ visits[k].pc = "read"
    /\ Exists
    /\ proposal.status \in {"published", "accepted"}
    /\ proposal.current = visits[k].version

\* Store.Accept, no acceptance of this version yet: acceptance, onboarding
\* and status change in one transaction.  The unique index on
\* proposal_version_id also counts removed rows.
Accept(k) ==
    /\ MayAccept(k)
    /\ \A a \in acceptances : a.version # visits[k].version
    /\ acceptances' = acceptances \cup
          {[version |-> visits[k].version, hash |-> visits[k].content,
            by |-> k, deleted |-> FALSE]}
    /\ proposal' = [proposal EXCEPT !.status = "accepted"]
    /\ visits' = [visits EXCEPT ![k] = IdleVisit]
    /\ UNCHANGED <<today, versions, edits>>

\* The request ends without a new acceptance: the same representative's
\* acceptance is found and returned, another representative's is refused, or
\* the request fails.
EndVisit(k) ==
    /\ visits[k].pc = "read"
    /\ visits' = [visits EXCEPT ![k] = IdleVisit]
    /\ UNCHANGED <<today, proposal, versions, acceptances, edits>>

----------------------------------------------------------------------------
(* The background: maintenance worker, superadmin, calendar *)

\* First statement of maintenance.Worker.cleanup.  It looks at the proposal
\* row only: neither the published snapshot nor deleted_at.
LapsedYesterday ==                  \* mutant: a day of grace
    proposal.status = "published" /\ Past(proposal.validUntil, today - 1)
Lapsed == proposal.status = "published" /\ Past(proposal.validUntil, today)
Expire ==
    /\ Lapsed
    /\ proposal' = [proposal EXCEPT !.status = "expired"]
    /\ UNCHANGED <<today, versions, acceptances, edits, visits>>

\* Store.SoftDeleteCascade, the rows of this component: status and versions
\* are retained, acceptances and onboardings are marked with the proposal.
SoftDelete ==
    /\ Exists
    /\ proposal' = [proposal EXCEPT !.deleted = TRUE]
    /\ acceptances' = {[a EXCEPT !.deleted = TRUE] : a \in acceptances}
    /\ UNCHANGED <<today, versions, edits, visits>>

NextDay ==
    /\ today < MaxDay
    /\ today' = today + 1
    /\ UNCHANGED <<proposal, versions, acceptances, edits, visits>>

----------------------------------------------------------------------------

Actions == {"draft", "publish"}

EditorStep(e) ==
    \/ \E c \in Forms, action \in Actions : Create(e, c, action)
    \/ \E c \in Forms, action \in Actions : ProtectPrice(e, c, action)
    \/ \E c \in Contents, action \in Actions, v \in Versions : SaveDraft(e, c, action, v)
    \/ AssignTemplate(e)
    \/ Publish(e)
    \/ EndEdit(e)

CustomerStep(k) ==
    \/ \E v \in Versions : ReadProposal(k, v)
    \/ Accept(k)
    \/ EndVisit(k)

Next ==
    \/ \E e \in Editors : EditorStep(e)
    \/ \E k \in Customers : CustomerStep(k)
    \/ Expire
    \/ SoftDelete
    \/ NextDay

\* The maintenance worker runs at start and every hour until shutdown and
\* its first statement is retried at every tick, so it is weakly fair.
\* Nothing is assumed of editors, customers or the superadmin.
Spec == Init /\ [][Next]_vars /\ WF_vars(Expire)

----------------------------------------------------------------------------
(* Safety *)

\* The version rows are well ordered whatever the editors interleave: there
\* is one unpublished version at most, it is newer than every other, and the
\* number customers are directed to is that of a published version.  Every
\* editor transaction and the public link rely on it (SaveDraft, Publish,
\* PublicByToken).
DraftIsNewest ==
    \A v \in Drafts : \A w \in Present : w # v => w < v
CurrentIsPublished ==
    /\ proposal.status \in {"published", "expired", "accepted"} =>
          proposal.current \in Versions
    /\ proposal.current # 0 => versions[proposal.current].state = "published"
VersionsSound == DraftIsNewest /\ CurrentIsPublished

\* Store.Accept against concurrent customers, publications and removal: a
\* proposal that stands is accepted exactly when one live acceptance exists,
\* that acceptance is unique, is of the version the proposal still directs
\* customers to, and its hash is that of the content stored for it.
AcceptedHasAcceptance ==
    (Exists /\ proposal.status = "accepted") <=> LiveAcceptances # {}
OneLiveAcceptance == \A a, b \in LiveAcceptances : a = b
AcceptanceIsCurrent ==
    \A a \in LiveAcceptances :
        /\ a.version = proposal.current
        /\ versions[a.version].state = "published"
        /\ a.hash = versions[a.version].content
AcceptanceSound == AcceptedHasAcceptance /\ OneLiveAcceptance /\ AcceptanceIsCurrent

\* What was published or accepted is never altered afterwards, by whichever
\* request that was under way (README: "Uma proposta publicada nao e alterada
\* retroativamente"): published versions keep content and template, and an
\* acceptance only ever gains the removal mark.
NothingRewritten ==
    /\ \A v \in Versions : versions[v].state = "published" => versions'[v] = versions[v]
    /\ \A a \in acceptances : a \in acceptances' \/ [a EXCEPT !.deleted = TRUE] \in acceptances'
PublishedIsFrozen == [][NothingRewritten]_vars

\* Two editors publishing, in any order of their steps, never take customers
\* back to an older version.
CurrentOnlyGrows == [][proposal'.current >= proposal.current]_vars

\* The proposal as seen by the two parties: an offer on the table, and a deal
\* that can only be closed on exactly the offer then on the table.
OnTable == Exists /\ proposal.status \in {"published", "accepted"}
Offer(v) == [number |-> v, content |-> versions[v].content]
TheOffer == IF OnTable THEN {Offer(proposal.current)} ELSE {}
TheDeal ==
    {[terms |-> [number |-> a.version, content |-> a.hash], party |-> a.by] : a \in LiveAcceptances}
Negotiation == INSTANCE Negotiation WITH
    Terms   <- [number : Versions, content : Contents],
    Parties <- Customers,
    offer   <- TheOffer,
    deal    <- TheDeal,
    over    <- proposal.deleted
ImplementsNegotiation == Negotiation!Spec

\* The maintenance worker takes a lapsed offer away, unless the editors give
\* it another date or the customer accepts first.
LapsedOfferEnds ==
    LET lapsed == proposal.status = "published" /\ Past(proposal.validUntil, today)
    IN lapsed ~> ~lapsed

============================================================================
