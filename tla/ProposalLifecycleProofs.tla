---------------------- MODULE ProposalLifecycleProofs ----------------------
(***************************************************************************)
(* Safety of ProposalLifecycle for any number of editors, customers,       *)
(* versions, templates and days.  The inductive invariant adds to the      *)
(* properties what each request remembers about the rows it has read, and  *)
(* that the removal mark is on all acceptances or on none.                 *)
(*                                                                         *)
(* And of Signature, which ends what the proposal has begun: for any       *)
(* number of requests and codes, the codes of one contract follow each     *)
(* other, and their mails follow them.                                     *)
(***************************************************************************)
EXTENDS ProposalLifecycle, Signature, FiniteSetTheorems, TLAPS

\* A version row has content exactly when it exists.
RowsHaveContent ==
    \A v \in Versions : versions[v].state # "absent" <=> versions[v].content \in Contents

\* What an editor's request holds once its form is accepted.
EditsSound ==
    \A e \in Editors :
        /\ edits[e].pc # "idle" => edits[e].input \in Contents
        /\ edits[e].pc \in {"saved", "assigned"} =>
              edits[e].version \in Versions /\ versions[edits[e].version].state # "absent"

\* A customer's request holds the stored content of a published version.
VisitsSound ==
    \A k \in Customers : visits[k].pc = "read" =>
        /\ visits[k].version \in Versions
        /\ versions[visits[k].version].state = "published"
        /\ visits[k].content = versions[visits[k].version].content

\* Before it is created a proposal has no rows.
NothingBeforeCreation ==
    proposal.status = "none" =>
        Present = {} /\ acceptances = {} /\ ~proposal.deleted /\ proposal.current = 0

\* Acceptances, removed ones included, against the proposal row.
AcceptancesSound ==
    /\ proposal.status = "accepted" <=> acceptances # {}
    /\ \A a, b \in acceptances : a = b
    /\ \A a \in acceptances :
          /\ a.deleted = proposal.deleted
          /\ a.version = proposal.current
          /\ a.version \in Versions
          /\ versions[a.version].state = "published"
          /\ a.hash = versions[a.version].content

IInv ==
    /\ TypeOK
    /\ VersionsSound
    /\ RowsHaveContent
    /\ EditsSound
    /\ VisitsSound
    /\ NothingBeforeCreation
    /\ AcceptancesSound

----------------------------------------------------------------------------

\* The inductive invariant gives the property the runs check.
LEMMA IInvImpliesSound == IInv => AcceptanceSound
BY Zenon DEF IInv, AcceptancesSound, AcceptanceSound, AcceptedHasAcceptance,
   OneLiveAcceptance, AcceptanceIsCurrent, LiveAcceptances, Live, Exists

LEMMA InitIInv == Init => IInv
<1> SUFFICES ASSUME Init PROVE IInv
  OBVIOUS
<1> USE BoundsAssumption, NullsAssumption DEF Init
<1>1. TypeOK
  BY DEF TypeOK, Days, Dates, Versions, TemplateRefs, ProposalRow, ProposalStatus,
     VersionRow, NoVersion, Edit, IdleEdit, Visit, IdleVisit
<1>2. Present = {} /\ Drafts = {}
  BY DEF Present, Drafts, NoVersion
<1>3. VersionsSound
  BY <1>2 DEF VersionsSound, DraftIsNewest, CurrentIsPublished
<1>4. RowsHaveContent /\ EditsSound /\ VisitsSound
  BY DEF RowsHaveContent, EditsSound, VisitsSound, NoVersion, IdleEdit, IdleVisit
<1>5. NothingBeforeCreation /\ AcceptancesSound
  BY <1>2 DEF NothingBeforeCreation, AcceptancesSound
<1> QED
  BY <1>1, <1>3, <1>4, <1>5 DEF IInv

----------------------------------------------------------------------------
(* One lemma per transaction: it preserves the invariant. *)

\* The first transaction of a new proposal.
LEMMA CreatePreserves ==
  ASSUME IInv, NEW e \in Editors, NEW c \in Forms, NEW action \in Actions,
         Create(e, c, action)
  PROVE  IInv'
<1> DEFINE input == IF e \in PriceEditors THEN c ELSE [c EXCEPT !.price = 0]
<1>1. /\ edits[e].pc = "idle" /\ proposal.status = "none"
      /\ proposal' = [proposal EXCEPT !.status = "draft", !.owner = e,
                                      !.validUntil = c.validUntil]
      /\ versions' = [versions EXCEPT ![1].state = "draft", ![1].content = input]
      /\ edits' = [edits EXCEPT ![e] = [pc |-> "saved", action |-> action,
                                        input |-> input, version |-> 1]]
      /\ UNCHANGED <<today, acceptances, visits>>
  BY DEF Create
<1>2. input \in Contents /\ c \in Contents /\ c.validUntil \in Dates
  BY FormsAssumption, BoundsAssumption DEF Contents
<1>3. 1 \in Versions
  BY BoundsAssumption DEF Versions
<1>4. /\ versions \in [Versions -> VersionRow] /\ edits \in [Editors -> Edit]
      /\ proposal \in ProposalRow
  BY DEF IInv, TypeOK
<1>5. /\ \A v \in Versions : versions[v].state = "absent"
      /\ acceptances = {} /\ ~proposal.deleted /\ proposal.current = 0
  BY <1>1 DEF IInv, NothingBeforeCreation, Present
<1> HIDE DEF input
<1>6. versions' \in [Versions -> VersionRow]
  BY <1>1, <1>2, <1>3, <1>4 DEF VersionRow
<1>7. TypeOK'
  <2>1. proposal' \in ProposalRow
    BY <1>1, <1>2, <1>4 DEF ProposalRow, ProposalStatus
  <2>2. edits' \in [Editors -> Edit]
    BY <1>1, <1>2, <1>3, <1>4 DEF Edit, Actions, Versions
  <2> QED
    BY <1>1, <1>6, <2>1, <2>2 DEF IInv, TypeOK
<1>8. /\ versions'[1].state = "draft" /\ versions'[1].content = input
      /\ \A v \in Versions : v # 1 => versions'[v] = versions[v]
  BY <1>1, <1>3, <1>4 DEF VersionRow
<1>9. VersionsSound'
  <2>1. Present' = {1} /\ Drafts' = {1}
    BY <1>3, <1>5, <1>8 DEF Present, Drafts
  <2> QED
    BY <1>1, <1>4, <1>5, <2>1
    DEF VersionsSound, DraftIsNewest, CurrentIsPublished, ProposalRow
<1>10. RowsHaveContent'
  BY <1>2, <1>8 DEF IInv, RowsHaveContent
<1>11. EditsSound'
  BY <1>1, <1>2, <1>3, <1>4, <1>5, <1>8 DEF IInv, EditsSound, Edit
<1>12. VisitsSound'
  BY <1>1, <1>5, <1>8 DEF IInv, VisitsSound
<1>13. NothingBeforeCreation' /\ AcceptancesSound'
  BY <1>1, <1>4, <1>5 DEF NothingBeforeCreation, AcceptancesSound, ProposalRow
<1> QED
  BY <1>7, <1>9, <1>10, <1>11, <1>12, <1>13 DEF IInv

\* Reading the prices changes nothing but the request.
LEMMA ProtectPricePreserves ==
  ASSUME IInv, NEW e \in Editors, NEW c \in Forms, NEW action \in Actions,
         ProtectPrice(e, c, action)
  PROVE  IInv'
<1>1. PICK v \in Versions :
         /\ IsNewest(v)
         /\ edits' = [edits EXCEPT ![e] =
               [pc |-> "priced", action |-> action, version |-> 0,
                input |-> [c EXCEPT !.price = versions[v].content.price]]]
  BY DEF ProtectPrice
<1>2. UNCHANGED <<today, proposal, versions, acceptances, visits>>
  BY DEF ProtectPrice
<1> DEFINE input == [c EXCEPT !.price = versions[v].content.price]
<1>3. versions[v].content \in Contents
  BY <1>1 DEF IsNewest, Present, IInv, RowsHaveContent
<1>4. input \in Contents
  BY <1>3, FormsAssumption DEF Contents
<1> HIDE DEF input
<1>5. edits' = [edits EXCEPT ![e] = [pc |-> "priced", action |-> action,
                                     version |-> 0, input |-> input]]
  BY <1>1 DEF input
<1>6. edits \in [Editors -> Edit]
  BY DEF IInv, TypeOK
<1>7. TypeOK'
  <2>1. edits' \in [Editors -> Edit]
    BY <1>4, <1>5, <1>6, BoundsAssumption DEF Edit, Actions
  <2> QED
    BY <1>2, <2>1 DEF IInv, TypeOK
<1>8. EditsSound'
  BY <1>2, <1>4, <1>5, <1>6 DEF IInv, EditsSound
<1>9. VersionsSound'
  BY <1>2 DEF IInv, VersionsSound, DraftIsNewest, CurrentIsPublished, Drafts, Present
<1> QED
  BY <1>2, <1>7, <1>8, <1>9
  DEF IInv, RowsHaveContent, VisitsSound, NothingBeforeCreation, Present, AcceptancesSound

\* A save never writes to a published version.
LEMMA SaveTargetUnpublished ==
  ASSUME NEW v \in Versions, IsSaveTarget(v)
  PROVE  versions[v].state # "published"
<1>1. CASE Drafts # {}
  BY <1>1 DEF IsSaveTarget, Drafts
<1>2. CASE Drafts = {}
  <2>1. v \notin Present
    BY <1>2 DEF IsSaveTarget, Versions
  <2> QED
    BY <2>1 DEF Present
<1> QED
  BY <1>1, <1>2

\* Saving a draft: the unpublished row, or a number above every other.
LEMMA SaveDraftPreserves ==
  ASSUME IInv, NEW e \in Editors, NEW c \in Contents, NEW action \in Actions,
         NEW v \in Versions, SaveDraft(e, c, action, v)
  PROVE  IInv'
<1>1. /\ Exists /\ proposal.status # "accepted" /\ IsSaveTarget(v)
      /\ proposal' = [proposal EXCEPT !.validUntil = c.validUntil]
      /\ versions' = [versions EXCEPT ![v].state = "draft", ![v].content = c]
      /\ edits' = [edits EXCEPT ![e] = [pc |-> "saved", action |-> action,
                                        input |-> c, version |-> v]]
      /\ UNCHANGED <<today, acceptances, visits>>
  BY DEF SaveDraft
<1>2. /\ versions \in [Versions -> VersionRow] /\ edits \in [Editors -> Edit]
      /\ proposal \in ProposalRow
  BY DEF IInv, TypeOK
<1>3. c.validUntil \in Dates
  BY DEF Contents
<1>4. /\ versions'[v].state = "draft" /\ versions'[v].content = c
      /\ \A w \in Versions : w # v => versions'[w] = versions[w]
      /\ versions' \in [Versions -> VersionRow]
  BY <1>1, <1>2 DEF VersionRow
<1>5. versions[v].state # "published"
  BY <1>1, SaveTargetUnpublished
<1>6. TypeOK'
  <2>1. proposal' \in ProposalRow
    BY <1>1, <1>2, <1>3 DEF ProposalRow
  <2>2. edits' \in [Editors -> Edit]
    BY <1>1, <1>2 DEF Edit, Actions, Versions
  <2> QED
    BY <1>1, <1>4, <2>1, <2>2 DEF IInv, TypeOK
<1>7. VersionsSound'
  <2>1. \A w \in Present : w # v => w < v
    BY <1>1 DEF IInv, VersionsSound, DraftIsNewest, IsSaveTarget
  <2>2. Drafts' \subseteq {v}
    <3>1. Drafts \subseteq {v}
      BY <1>1, <2>1 DEF IInv, VersionsSound, DraftIsNewest, IsSaveTarget, Drafts,
         Present, Versions
    <3> QED
      BY <1>4, <3>1 DEF Drafts
  <2>3. Present' = Present \cup {v}
    BY <1>4 DEF Present
  <2>4. DraftIsNewest'
    BY <2>1, <2>2, <2>3 DEF DraftIsNewest
  <2>5. CurrentIsPublished'
    <3>1. proposal'.status = proposal.status /\ proposal'.current = proposal.current
      BY <1>1, <1>2 DEF ProposalRow
    <3>2. proposal.current # 0 => proposal.current \in Versions
      BY <1>2 DEF ProposalRow, Versions
    <3> QED
      BY <1>4, <1>5, <3>1, <3>2 DEF IInv, VersionsSound, CurrentIsPublished
  <2> QED
    BY <2>4, <2>5 DEF VersionsSound
<1>8. RowsHaveContent'
  BY <1>4 DEF IInv, RowsHaveContent
<1>9. EditsSound'
  BY <1>1, <1>2, <1>4 DEF IInv, EditsSound
<1>10. VisitsSound'
  BY <1>1, <1>4, <1>5 DEF IInv, VisitsSound
<1>11. NothingBeforeCreation' /\ AcceptancesSound'
  BY <1>1, <1>2, <1>4, <1>5
  DEF IInv, NothingBeforeCreation, AcceptancesSound, ProposalRow, Exists
<1> QED
  BY <1>6, <1>7, <1>8, <1>9, <1>10, <1>11 DEF IInv

\* Assigning the template touches no state and no content.
LEMMA AssignTemplatePreserves ==
  ASSUME IInv, NEW e \in Editors, AssignTemplate(e)
  PROVE  IInv'
<1> DEFINE t == edits[e].input.template
           v == edits[e].version
<1>1. /\ edits[e].pc = "saved"
      /\ proposal' = [proposal EXCEPT !.template = t]
      /\ versions' = [versions EXCEPT ![v].template = TemplateColumn(v, t)]
      /\ edits' = [edits EXCEPT ![e] =
            IF edits[e].action = "publish" /\ Publishable(edits[e].input, today)
            THEN [edits[e] EXCEPT !.pc = "assigned"] ELSE IdleEdit]
      /\ UNCHANGED <<today, acceptances, visits>>
  BY DEF AssignTemplate
<1>2. /\ versions \in [Versions -> VersionRow] /\ edits \in [Editors -> Edit]
      /\ proposal \in ProposalRow
  BY DEF IInv, TypeOK
<1>3. v \in Versions /\ t \in TemplateRefs /\ edits[e].input \in Contents
  BY <1>1 DEF IInv, EditsSound, Contents
<1>4. TemplateColumn(v, t) \in TemplateRefs
  BY <1>2, <1>3 DEF TemplateColumn, VersionRow
<1>5. /\ versions' \in [Versions -> VersionRow]
      /\ \A w \in Versions : /\ versions'[w].state = versions[w].state
                              /\ versions'[w].content = versions[w].content
  BY <1>1, <1>2, <1>3, <1>4 DEF VersionRow
<1>6. /\ proposal' \in ProposalRow /\ proposal'.status = proposal.status
      /\ proposal'.current = proposal.current /\ proposal'.deleted = proposal.deleted
  BY <1>1, <1>2, <1>3 DEF ProposalRow
<1>7. edits' \in [Editors -> Edit]
  BY <1>1, <1>2, BoundsAssumption DEF Edit, IdleEdit
<1>8. Present' = Present /\ Drafts' = Drafts
  BY <1>5 DEF Present, Drafts
<1>9. TypeOK'
  BY <1>1, <1>5, <1>6, <1>7 DEF IInv, TypeOK
<1>10. VersionsSound'
  <2>1. proposal.current # 0 => proposal.current \in Versions
    BY <1>2 DEF ProposalRow, Versions
  <2> QED
    BY <1>5, <1>6, <1>8, <2>1 DEF IInv, VersionsSound, DraftIsNewest, CurrentIsPublished
<1>11. RowsHaveContent' /\ VisitsSound'
  BY <1>1, <1>5 DEF IInv, RowsHaveContent, VisitsSound
<1>12. EditsSound'
  BY <1>1, <1>2, <1>5 DEF IInv, EditsSound, IdleEdit, Edit
<1>13. NothingBeforeCreation' /\ AcceptancesSound'
  BY <1>1, <1>5, <1>6, <1>8 DEF IInv, NothingBeforeCreation, AcceptancesSound
<1> QED
  BY <1>9, <1>10, <1>11, <1>12, <1>13 DEF IInv

\* Publishing the unpublished version, the newest one.
LEMMA PublishPreserves ==
  ASSUME IInv, NEW e \in Editors, Publish(e)
  PROVE  IInv'
<1> DEFINE v == edits[e].version
<1>1. /\ edits[e].pc = "assigned" /\ versions[v].state = "draft"
      /\ Exists /\ proposal.status # "accepted"
      /\ versions' = [versions EXCEPT ![v].state = "published"]
      /\ proposal' = [proposal EXCEPT !.status = "published", !.current = v]
      /\ edits' = [edits EXCEPT ![e] = IdleEdit]
      /\ UNCHANGED <<today, acceptances, visits>>
  BY DEF Publish, MayPublish, NumberPublished
<1>2. /\ versions \in [Versions -> VersionRow] /\ edits \in [Editors -> Edit]
      /\ proposal \in ProposalRow
  BY DEF IInv, TypeOK
<1>3. v \in Versions
  BY <1>1 DEF IInv, EditsSound
<1>4. /\ versions' \in [Versions -> VersionRow]
      /\ \A w \in Versions : versions'[w].content = versions[w].content
      /\ versions'[v].state = "published"
      /\ \A w \in Versions : w # v => versions'[w] = versions[w]
  BY <1>1, <1>2, <1>3 DEF VersionRow
<1>5. /\ proposal' \in ProposalRow /\ proposal'.status = "published"
      /\ proposal'.current = v /\ proposal'.deleted = proposal.deleted
  <2>1. v \in 0 .. MaxVersion
    BY <1>3, BoundsAssumption DEF Versions
  <2> HIDE DEF v
  <2> QED
    BY <1>1, <1>2, <2>1 DEF ProposalRow, ProposalStatus
<1>6. edits' \in [Editors -> Edit]
  BY <1>1, <1>2, BoundsAssumption DEF Edit, IdleEdit
<1>7. Drafts' \subseteq Drafts /\ Present' = Present
  BY <1>1, <1>4 DEF Drafts, Present
<1>8. TypeOK'
  BY <1>1, <1>4, <1>5, <1>6 DEF IInv, TypeOK
<1>9. VersionsSound'
  BY <1>3, <1>4, <1>5, <1>7 DEF IInv, VersionsSound, DraftIsNewest, CurrentIsPublished
<1>10. RowsHaveContent' /\ VisitsSound'
  BY <1>1, <1>4 DEF IInv, RowsHaveContent, VisitsSound
<1>11. EditsSound'
  BY <1>1, <1>2, <1>4 DEF IInv, EditsSound, IdleEdit
<1>12. acceptances = {}
  BY <1>1 DEF IInv, AcceptancesSound
<1>13. NothingBeforeCreation' /\ AcceptancesSound'
  BY <1>1, <1>5, <1>12 DEF NothingBeforeCreation, AcceptancesSound
<1> QED
  BY <1>8, <1>9, <1>10, <1>11, <1>13 DEF IInv

\* Accepting: the version read is still the current one, so it is published
\* and what was read of it is what is stored.
LEMMA AcceptPreserves ==
  ASSUME IInv, NEW k \in Customers, Accept(k)
  PROVE  IInv'
<1> DEFINE new == [version |-> visits[k].version, hash |-> visits[k].content,
                   by |-> k, deleted |-> FALSE]
<1>1. /\ visits[k].pc = "read" /\ Exists /\ proposal.current = visits[k].version
      /\ proposal.status \in {"published", "accepted"}
      /\ \A a \in acceptances : a.version # visits[k].version
      /\ acceptances' = acceptances \cup {new}
      /\ proposal' = [proposal EXCEPT !.status = "accepted"]
      /\ visits' = [visits EXCEPT ![k] = IdleVisit]
      /\ UNCHANGED <<today, versions, edits>>
  BY DEF Accept, MayAccept
<1>2. /\ visits \in [Customers -> Visit] /\ proposal \in ProposalRow
  BY DEF IInv, TypeOK
<1>3. /\ visits[k].version \in Versions
      /\ versions[visits[k].version].state = "published"
      /\ visits[k].content = versions[visits[k].version].content
      /\ visits[k].content \in Contents
  BY <1>1 DEF IInv, VisitsSound, RowsHaveContent
<1>4. acceptances = {}
  BY <1>1 DEF IInv, AcceptancesSound
<1>5. /\ proposal' \in ProposalRow /\ proposal'.status = "accepted"
      /\ proposal'.current = proposal.current /\ proposal'.deleted = FALSE
  BY <1>1, <1>2 DEF ProposalRow, ProposalStatus, Exists
<1>6. new \in Acceptance
  BY <1>3 DEF Acceptance
<1>7. visits' \in [Customers -> Visit]
  BY <1>1, <1>2, BoundsAssumption DEF Visit, IdleVisit
<1>8. TypeOK'
  BY <1>1, <1>5, <1>6, <1>7 DEF IInv, TypeOK
<1>9. VersionsSound'
  BY <1>1, <1>3, <1>5
  DEF IInv, VersionsSound, DraftIsNewest, CurrentIsPublished, Drafts, Present
<1>10. RowsHaveContent' /\ EditsSound'
  BY <1>1 DEF IInv, RowsHaveContent, EditsSound
<1>11. VisitsSound'
  BY <1>1, <1>2 DEF IInv, VisitsSound, IdleVisit
<1>12. NothingBeforeCreation'
  BY <1>5 DEF NothingBeforeCreation
<1>13. AcceptancesSound'
  <2>1. acceptances' = {new}
    BY <1>1, <1>4
  <2>2. /\ new.deleted = FALSE /\ new.version = proposal.current
        /\ new.version = visits[k].version /\ new.hash = visits[k].content
    BY <1>1
  <2> HIDE DEF new
  <2> QED
    BY <1>1, <1>3, <1>5, <2>1, <2>2 DEF AcceptancesSound
<1> QED
  BY <1>8, <1>9, <1>10, <1>11, <1>12, <1>13 DEF IInv

\* Removal marks the proposal and every acceptance.
LEMMA SoftDeletePreserves ==
  ASSUME IInv, SoftDelete
  PROVE  IInv'
<1>1. /\ Exists
      /\ proposal' = [proposal EXCEPT !.deleted = TRUE]
      /\ acceptances' = {[a EXCEPT !.deleted = TRUE] : a \in acceptances}
      /\ UNCHANGED <<today, versions, edits, visits>>
  BY DEF SoftDelete
<1>2. /\ proposal' \in ProposalRow /\ proposal'.status = proposal.status
      /\ proposal'.current = proposal.current /\ proposal'.deleted = TRUE
  BY <1>1 DEF IInv, TypeOK, ProposalRow
<1>3. \A b \in acceptances' : \E a \in acceptances :
         /\ b = [a EXCEPT !.deleted = TRUE]
         /\ b \in Acceptance /\ b.deleted = TRUE
         /\ b.version = a.version /\ b.hash = a.hash /\ b.by = a.by
  BY <1>1 DEF IInv, TypeOK, Acceptance
<1>4. TypeOK'
  BY <1>1, <1>2, <1>3 DEF IInv, TypeOK
<1>5. acceptances' = {} <=> acceptances = {}
  BY <1>1
<1>6. AcceptancesSound'
  <2>1. \A a, b \in acceptances' : a = b
    <3> SUFFICES ASSUME NEW b1 \in acceptances', NEW b2 \in acceptances' PROVE b1 = b2
      OBVIOUS
    <3>1. PICK a1 \in acceptances : b1 = [a1 EXCEPT !.deleted = TRUE]
      BY <1>3
    <3>2. PICK a2 \in acceptances : b2 = [a2 EXCEPT !.deleted = TRUE]
      BY <1>3
    <3>3. a1 = a2
      BY DEF IInv, AcceptancesSound
    <3> QED
      BY <3>1, <3>2, <3>3
  <2>2. \A b \in acceptances' :
          /\ b.deleted = proposal'.deleted /\ b.version = proposal'.current
          /\ b.version \in Versions /\ versions[b.version].state = "published"
          /\ b.hash = versions[b.version].content
    <3> SUFFICES ASSUME NEW b \in acceptances'
                 PROVE  /\ b.deleted = proposal'.deleted /\ b.version = proposal'.current
                        /\ b.version \in Versions
                        /\ versions[b.version].state = "published"
                        /\ b.hash = versions[b.version].content
      OBVIOUS
    <3>1. PICK a \in acceptances :
            b.deleted = TRUE /\ b.version = a.version /\ b.hash = a.hash
      BY <1>3
    <3>2. /\ a.version = proposal.current /\ a.version \in Versions
          /\ versions[a.version].state = "published"
          /\ a.hash = versions[a.version].content
      BY DEF IInv, AcceptancesSound
    <3> QED
      BY <1>2, <3>1, <3>2
  <2>3. proposal'.status = "accepted" <=> acceptances' # {}
    BY <1>2, <1>5 DEF IInv, AcceptancesSound
  <2> QED
    BY <1>1, <2>1, <2>2, <2>3 DEF AcceptancesSound
<1>7. NothingBeforeCreation'
  BY <1>1, <1>2 DEF NothingBeforeCreation, Exists
<1>8. VersionsSound'
  BY <1>1, <1>2
  DEF IInv, VersionsSound, DraftIsNewest, CurrentIsPublished, Drafts, Present
<1> QED
  BY <1>1, <1>4, <1>6, <1>7, <1>8 DEF IInv, RowsHaveContent, EditsSound, VisitsSound

\* Steps that change one request, the status of the row, or the date.
LEMMA EndEditPreserves ==
  ASSUME IInv, NEW e \in Editors, EndEdit(e)
  PROVE  IInv'
<1>1. edits' = [edits EXCEPT ![e] = IdleEdit]
  BY DEF EndEdit
<1>2. UNCHANGED <<today, proposal, versions, acceptances, visits>>
  BY DEF EndEdit
<1>3. TypeOK' /\ EditsSound'
  BY <1>1, <1>2, BoundsAssumption DEF IInv, TypeOK, EditsSound, Edit, IdleEdit
<1> QED
  BY <1>2, <1>3 DEF IInv, VersionsSound, DraftIsNewest, CurrentIsPublished, Drafts, Present,
     RowsHaveContent, VisitsSound, NothingBeforeCreation, AcceptancesSound

LEMMA VisitPreserves ==
  ASSUME IInv, NEW k \in Customers,
         EndVisit(k) \/ \E v \in Versions : ReadProposal(k, v)
  PROVE  IInv'
<1>1. UNCHANGED <<today, proposal, versions, acceptances, edits>>
  BY DEF EndVisit, ReadProposal
<1>2. /\ visits' \in [Customers -> Visit]
      /\ VisitsSound'
  <2>1. CASE EndVisit(k)
    BY <1>1, <2>1, BoundsAssumption DEF EndVisit, IInv, TypeOK, Visit, IdleVisit, VisitsSound
  <2>2. ASSUME NEW v \in Versions, ReadProposal(k, v)
        PROVE  visits' \in [Customers -> Visit] /\ VisitsSound'
    <3>1. /\ versions[v].state = "published"
          /\ visits' = [visits EXCEPT ![k] =
                 [pc |-> "read", version |-> v, content |-> versions[v].content]]
      BY <2>2 DEF ReadProposal
    <3>2. versions[v].content \in Contents
      BY <3>1 DEF IInv, RowsHaveContent
    <3> QED
      BY <1>1, <3>1, <3>2 DEF IInv, TypeOK, Visit, VisitsSound, Versions
  <2> QED
    BY <2>1, <2>2
<1> QED
  BY <1>1, <1>2 DEF IInv, TypeOK, VersionsSound, DraftIsNewest, CurrentIsPublished, Drafts,
     Present, RowsHaveContent, EditsSound, NothingBeforeCreation, AcceptancesSound

LEMMA BackgroundPreserves ==
  ASSUME IInv, Expire \/ NextDay
  PROVE  IInv'
<1>1. /\ UNCHANGED <<versions, acceptances, edits, visits>>
      /\ today' \in Days /\ proposal' \in ProposalRow
      /\ proposal'.current = proposal.current /\ proposal'.deleted = proposal.deleted
      /\ \/ proposal'.status = proposal.status
         \/ proposal.status = "published" /\ proposal'.status = "expired"
  BY BoundsAssumption
  DEF Expire, Lapsed, NextDay, IInv, TypeOK, ProposalRow, ProposalStatus, Days
<1> QED
  BY <1>1 DEF IInv, TypeOK, VersionsSound, DraftIsNewest, CurrentIsPublished, Drafts, Present,
     RowsHaveContent, EditsSound, VisitsSound, NothingBeforeCreation, AcceptancesSound

LEMMA NextPreserves == IInv /\ [Next]_vars => IInv'
<1> SUFFICES ASSUME IInv, [Next]_vars PROVE IInv'
  OBVIOUS
<1>1. ASSUME NEW e \in Editors, EditorStep(e) PROVE IInv'
  BY <1>1, CreatePreserves, ProtectPricePreserves, SaveDraftPreserves,
     AssignTemplatePreserves, PublishPreserves, EndEditPreserves DEF EditorStep
<1>2. ASSUME NEW k \in Customers, CustomerStep(k) PROVE IInv'
  BY <1>2, VisitPreserves, AcceptPreserves DEF CustomerStep
<1>3. CASE Expire \/ NextDay
  BY <1>3, BackgroundPreserves
<1>4. CASE SoftDelete
  BY <1>4, SoftDeletePreserves
<1>5. CASE UNCHANGED vars
  BY <1>5 DEF vars, IInv, TypeOK, VersionsSound, DraftIsNewest, CurrentIsPublished, Drafts,
     Present, RowsHaveContent, EditsSound, VisitsSound, NothingBeforeCreation, AcceptancesSound
<1> QED
  BY <1>1, <1>2, <1>3, <1>4, <1>5 DEF Next

----------------------------------------------------------------------------
(* The theorems of the specification *)

THEOREM InductiveInvariant == Spec => []IInv
BY InitIInv, NextPreserves, PTL DEF Spec

\* Every row and request keeps its type, whatever the interleaving.
THEOREM TypeCorrect == Spec => []TypeOK
<1>1. IInv => TypeOK
  BY DEF IInv
<1> QED
  BY <1>1, InductiveInvariant, PTL

\* One unpublished version at most, and it is the newest one.
THEOREM VersionsAreSound == Spec => []VersionsSound
<1>1. IInv => VersionsSound
  BY DEF IInv
<1> QED
  BY <1>1, InductiveInvariant, PTL

\* A customer is bound once, and to the content the link directs to.
THEOREM AcceptanceIsSound == Spec => []AcceptanceSound
BY IInvImpliesSound, InductiveInvariant, PTL

\* No request in flight rewrites a published version or an acceptance.
LEMMA StepRewritesNothing == IInv /\ [Next]_vars => [NothingRewritten]_vars
<1> SUFFICES ASSUME IInv, Next PROVE NothingRewritten
  OBVIOUS
<1> DEFINE VersionsKept == \A v \in Versions :
              versions[v].state = "published" => versions'[v] = versions[v]
<1>1. versions \in [Versions -> VersionRow]
  BY DEF IInv, TypeOK
<1>2. ASSUME UNCHANGED acceptances, VersionsKept PROVE NothingRewritten
  BY <1>2 DEF NothingRewritten
<1>3. ASSUME NEW e \in Editors, NEW c \in Forms, NEW action \in Actions,
             Create(e, c, action)
      PROVE  NothingRewritten
  <2>1. \A v \in Versions : versions[v].state = "absent"
    BY <1>3 DEF Create, IInv, NothingBeforeCreation, Present
  <2> QED
    BY <1>2, <1>3, <2>1 DEF Create
<1>4. ASSUME NEW e \in Editors, NEW c \in Contents, NEW action \in Actions,
             NEW v \in Versions, SaveDraft(e, c, action, v)
      PROVE  NothingRewritten
  <2>1. versions[v].state # "published"
    BY <1>4, SaveTargetUnpublished DEF SaveDraft
  <2>2. versions' = [versions EXCEPT ![v].state = "draft", ![v].content = c]
    BY <1>4 DEF SaveDraft
  <2> QED
    BY <1>1, <1>2, <1>4, <2>1, <2>2 DEF SaveDraft
<1>5. ASSUME NEW e \in Editors, AssignTemplate(e) PROVE NothingRewritten
  <2> DEFINE t == edits[e].input.template
             v == edits[e].version
  <2>1. versions' = [versions EXCEPT ![v].template = TemplateColumn(v, t)]
    BY <1>5 DEF AssignTemplate
  <2>2. versions[v].state = "published" => TemplateColumn(v, t) = versions[v].template
    BY DEF TemplateColumn
  <2>3. VersionsKept
    BY <1>1, <2>1, <2>2 DEF VersionRow
  <2> QED
    BY <1>2, <1>5, <2>3 DEF AssignTemplate
<1>6. ASSUME NEW e \in Editors, Publish(e) PROVE NothingRewritten
  <2>1. versions[edits[e].version].state = "draft"
    BY <1>6 DEF Publish, MayPublish
  <2> QED
    BY <1>1, <1>2, <1>6, <2>1 DEF Publish
<1>7. ASSUME NEW k \in Customers, Accept(k) PROVE NothingRewritten
  BY <1>7 DEF Accept, NothingRewritten
<1>8. CASE SoftDelete
  BY <1>8 DEF SoftDelete, NothingRewritten
<1>9. ASSUME UNCHANGED <<versions, acceptances>> PROVE NothingRewritten
  BY <1>2, <1>9
<1> QED
  BY <1>3, <1>4, <1>5, <1>6, <1>7, <1>8, <1>9
  DEF Next, EditorStep, CustomerStep, ProtectPrice, EndEdit, ReadProposal, EndVisit,
      Expire, NextDay

\* Published versions and acceptances are frozen.
THEOREM PublishedStaysFrozen == Spec => PublishedIsFrozen
BY InductiveInvariant, StepRewritesNothing, PTL DEF PublishedIsFrozen, Spec

\* Publication, the only writer of the current version, publishes a number
\* above every other.
LEMMA StepKeepsOrMoves == IInv /\ [Next]_vars => [proposal'.current >= proposal.current]_vars
<1> SUFFICES ASSUME IInv, Next PROVE proposal'.current >= proposal.current
  OBVIOUS
<1>1. proposal \in ProposalRow /\ proposal.current \in Nat
  BY BoundsAssumption DEF IInv, TypeOK, ProposalRow
<1>2. ASSUME NEW e \in Editors, Publish(e) PROVE proposal'.current >= proposal.current
  <2> DEFINE v == edits[e].version
  <2>1. v \in Versions /\ versions[v].state = "draft" /\ proposal'.current = v
    BY <1>1, <1>2
    DEF Publish, MayPublish, NumberPublished, IInv, EditsSound, ProposalRow
  <2>2. CASE proposal.current = 0
    BY <2>1, <2>2 DEF Versions
  <2>3. CASE proposal.current # 0
    <3>1. proposal.current \in Present /\ proposal.current # v
      BY <1>1, <2>1, <2>3
      DEF IInv, VersionsSound, CurrentIsPublished, Present, Versions, ProposalRow
    <3>2. proposal.current < v
      BY <2>1, <3>1 DEF IInv, VersionsSound, DraftIsNewest, Drafts
    <3> QED
      BY <1>1, <2>1, <3>2 DEF Versions
  <2> QED
    BY <2>2, <2>3
<1>3. ASSUME proposal'.current = proposal.current PROVE proposal'.current >= proposal.current
  BY <1>1, <1>3
<1> QED
  BY <1>1, <1>2, <1>3
  DEF Next, EditorStep, CustomerStep, Create, ProtectPrice, SaveDraft, AssignTemplate,
      EndEdit, ReadProposal, Accept, EndVisit, Expire, SoftDelete, NextDay, ProposalRow

\* Customers are never directed back to an older version.
THEOREM CurrentVersionOnlyGrows == Spec => CurrentOnlyGrows
BY InductiveInvariant, StepKeepsOrMoves, PTL DEF CurrentOnlyGrows, Spec

----------------------------------------------------------------------------
(* The component implements Negotiation *)

\* As long as the row is not accepted there is no deal.
LEMMA NoDealBeforeAcceptance ==
  ASSUME IInv, proposal.status # "accepted"
  PROVE  acceptances = {} /\ TheDeal = {}
BY DEF IInv, AcceptancesSound, TheDeal, LiveAcceptances

LEMMA InitNegotiates == Init => Negotiation!Init
BY DEF Init, Negotiation!Init, TheOffer, TheDeal, OnTable, Exists, LiveAcceptances

\* Steps that leave status, current version, published content and
\* acceptances alone are not seen by the parties.
LEMMA InvisibleSteps ==
  ASSUME IInv, acceptances' = acceptances,
         proposal'.status = proposal.status, proposal'.current = proposal.current,
         proposal'.deleted = proposal.deleted,
         OnTable => versions'[proposal.current].content = versions[proposal.current].content
  PROVE  UNCHANGED Negotiation!vars
<1>1. OnTable' <=> OnTable
  BY DEF OnTable, Exists
<1>2. TheDeal' = TheDeal
  BY DEF TheDeal, LiveAcceptances, Live
<1>3. CASE OnTable
  <2>1. Offer(proposal.current)' = Offer(proposal.current)
    BY <1>3 DEF Offer
  <2> QED
    BY <1>1, <1>2, <1>3, <2>1 DEF TheOffer, Negotiation!vars
<1>4. CASE ~OnTable
  BY <1>1, <1>2, <1>4 DEF TheOffer, Negotiation!vars
<1> QED
  BY <1>3, <1>4

LEMMA StepNegotiates == IInv /\ IInv' /\ [Next]_vars => [Negotiation!Next]_(Negotiation!vars)
<1> SUFFICES ASSUME IInv, IInv', Next PROVE Negotiation!Next \/ UNCHANGED Negotiation!vars
  BY DEF vars, Negotiation!vars, TheOffer, TheDeal, OnTable, Exists, Offer, LiveAcceptances, Live
<1>1. /\ versions \in [Versions -> VersionRow] /\ proposal \in ProposalRow
      /\ acceptances \subseteq Acceptance
  BY DEF IInv, TypeOK
<1>2. OnTable => /\ proposal.current \in Versions
                 /\ versions[proposal.current].state = "published"
  BY <1>1, BoundsAssumption
  DEF OnTable, IInv, VersionsSound, CurrentIsPublished, Versions, ProposalRow
<1>3. ASSUME NEW e \in Editors, NEW c \in Forms, NEW action \in Actions,
             Create(e, c, action)
      PROVE  UNCHANGED Negotiation!vars
  <2>1. /\ ~OnTable /\ acceptances = {} /\ acceptances' = {} /\ ~proposal.deleted
    BY <1>3 DEF Create, OnTable, IInv, NothingBeforeCreation
  <2>2. proposal'.status = "draft" /\ proposal'.deleted = proposal.deleted
    BY <1>1, <1>3 DEF Create, ProposalRow
  <2> QED
    BY <2>1, <2>2 DEF Negotiation!vars, TheOffer, TheDeal, OnTable, LiveAcceptances
<1>4. ASSUME NEW e \in Editors, NEW c \in Contents, NEW action \in Actions,
             NEW v \in Versions, SaveDraft(e, c, action, v)
      PROVE  UNCHANGED Negotiation!vars
  <2>1. versions[v].state # "published"
    BY <1>4, SaveTargetUnpublished DEF SaveDraft
  <2>2. OnTable => versions'[proposal.current] = versions[proposal.current]
    BY <1>1, <1>2, <1>4, <2>1 DEF SaveDraft
  <2>3. /\ acceptances' = acceptances /\ proposal'.status = proposal.status
        /\ proposal'.current = proposal.current /\ proposal'.deleted = proposal.deleted
    BY <1>1, <1>4 DEF SaveDraft, ProposalRow
  <2> QED
    BY <2>2, <2>3, InvisibleSteps
<1>5. ASSUME NEW e \in Editors, AssignTemplate(e) PROVE UNCHANGED Negotiation!vars
  <2>1. OnTable =>
          versions'[proposal.current].content = versions[proposal.current].content
    BY <1>1, <1>2, <1>5 DEF AssignTemplate, VersionRow
  <2>2. /\ acceptances' = acceptances /\ proposal'.status = proposal.status
        /\ proposal'.current = proposal.current /\ proposal'.deleted = proposal.deleted
    BY <1>1, <1>5 DEF AssignTemplate, ProposalRow
  <2> QED
    BY <2>1, <2>2, InvisibleSteps
<1>6. ASSUME NEW e \in Editors, Publish(e) PROVE Negotiation!Next
  <2>1. /\ Exists /\ proposal.status # "accepted" /\ acceptances' = acceptances
        /\ proposal'.status = "published" /\ proposal'.deleted = proposal.deleted
    BY <1>1, <1>6 DEF Publish, MayPublish, ProposalRow
  <2>2. TheDeal = {} /\ TheDeal' = {}
    BY <2>1, NoDealBeforeAcceptance DEF TheDeal, LiveAcceptances
  <2>3. OnTable'
    BY <2>1 DEF OnTable, Exists
  <2>4. /\ proposal'.current \in Versions
        /\ versions'[proposal'.current].state = "published"
    <3>1. CurrentIsPublished'
      BY DEF IInv, VersionsSound
    <3>2. proposal'.current \in Versions
      BY <2>1, <3>1 DEF CurrentIsPublished
    <3>3. proposal'.current # 0
      BY <3>2 DEF Versions
    <3> QED
      BY <3>1, <3>2, <3>3 DEF CurrentIsPublished
  <2>5. versions'[proposal'.current].content \in Contents
    BY <2>4 DEF IInv, RowsHaveContent
  <2>6. Offer(proposal.current)' \in [number : Versions, content : Contents]
    BY <2>4, <2>5 DEF Offer
  <2>7. TheOffer' = {Offer(proposal.current)'}
    BY <2>3 DEF TheOffer
  <2> QED
    BY <2>1, <2>2, <2>6, <2>7 DEF Negotiation!Next, Negotiation!MakeOffer, Exists
<1>7. ASSUME NEW k \in Customers, Accept(k) PROVE Negotiation!Next
  <2> DEFINE new == [version |-> visits[k].version, hash |-> visits[k].content,
                     by |-> k, deleted |-> FALSE]
             now == Offer(proposal.current)
  <2>1. /\ visits[k].pc = "read" /\ proposal.current = visits[k].version
        /\ OnTable /\ ~proposal.deleted
        /\ acceptances' = acceptances \cup {new} /\ versions' = versions
        /\ \A a \in acceptances : a.version # visits[k].version
    BY <1>7 DEF Accept, MayAccept, OnTable, Exists
  <2>2. acceptances = {}
    BY <2>1 DEF IInv, AcceptancesSound
  <2>3. TheDeal = {}
    BY <2>2 DEF TheDeal, LiveAcceptances
  <2>4. now = [number |-> new.version, content |-> new.hash]
    BY <2>1 DEF Offer, IInv, VisitsSound
  <2>5. TheDeal' = {[terms |-> now, party |-> k]}
    <3>1. acceptances' = {new} /\ new.deleted = FALSE /\ new.by = k
      BY <2>1, <2>2
    <3> HIDE DEF new, now
    <3>2. LiveAcceptances' = {new}
      BY <3>1 DEF LiveAcceptances, Live
    <3> QED
      BY <2>4, <3>1, <3>2 DEF TheDeal
  <2>6. /\ proposal'.status = "accepted" /\ proposal'.current = proposal.current
        /\ proposal'.deleted = proposal.deleted
    BY <1>1, <1>7 DEF Accept, ProposalRow
  <2>7. TheOffer = {now} /\ TheOffer' = {now}
    BY <2>1, <2>6 DEF TheOffer, Offer, OnTable, Exists
  <2> HIDE DEF now, new
  <2> QED
    BY <2>3, <2>5, <2>6, <2>7 DEF Negotiation!Next, Negotiation!Close
<1>8. CASE Expire
  <2>1. /\ proposal.status = "published" /\ proposal'.status = "expired"
        /\ acceptances' = acceptances /\ proposal'.deleted = proposal.deleted
    BY <1>1, <1>8 DEF Expire, Lapsed, ProposalRow
  <2>2. TheDeal = {} /\ TheDeal' = {}
    BY <2>1, NoDealBeforeAcceptance DEF TheDeal, LiveAcceptances
  <2>3. TheOffer' = {}
    BY <2>1 DEF TheOffer, OnTable
  <2> QED
    BY <2>1, <2>2, <2>3 DEF Negotiation!Next, Negotiation!Withdraw
<1>9. CASE SoftDelete
  <2>1. /\ ~proposal.deleted /\ proposal'.deleted = TRUE
        /\ acceptances' = {[a EXCEPT !.deleted = TRUE] : a \in acceptances}
    BY <1>1, <1>9 DEF SoftDelete, Exists, ProposalRow
  <2>2. \A a \in acceptances' : a.deleted
    BY <1>1, <2>1 DEF Acceptance
  <2>3. TheDeal' = {} /\ TheOffer' = {}
    BY <2>1, <2>2 DEF TheDeal, LiveAcceptances, Live, TheOffer, OnTable, Exists
  <2> QED
    BY <2>1, <2>3 DEF Negotiation!Next, Negotiation!Remove
<1>10. ASSUME UNCHANGED <<proposal, versions, acceptances>> PROVE UNCHANGED Negotiation!vars
  BY <1>10, InvisibleSteps
<1> QED
  BY <1>3, <1>4, <1>5, <1>6, <1>7, <1>8, <1>9, <1>10
  DEF Next, EditorStep, CustomerStep, ProtectPrice, EndEdit, ReadProposal, EndVisit, NextDay

\* The database rows, whatever the editors and customers interleave, behave
\* as one offer at a time and one deal on exactly that offer.
THEOREM RefinesNegotiation == Spec => ImplementsNegotiation
BY InductiveInvariant, InitNegotiates, StepNegotiates, PTL
DEF ImplementsNegotiation, Negotiation!Spec, Spec

----------------------------------------------------------------------------
(* Signature *)

\* What a code may be: the last one issued is the only one that is good for
\* signing or has signed, and the identity row it will take is there.
CodesFollow ==
    /\ \A c \in Codes : challenges[c].state \in {"live", "verified"} => c = issued
    /\ signer = "signed" <=> InState("verified") # {}
    /\ LiveCodes # {} => identities > 0
    /\ identities <= issued
    /\ InState("verified") \subseteq arrived

\* Only codes that were issued have a mail or a request that will post one.
MailsFollow ==
    /\ \A c \in Codes : box[c] # "none" => c <= issued
    /\ arrived \subseteq 1 .. issued
    /\ \A r \in Requests : requests[r].step \in {"replace", "enqueue"} => requests[r].code \in 1 .. issued

\* The mail of the good code waits or was sent, and no other waits.
MailedWell ==
    /\ \A c \in LiveCodes \ expired : box[c] \in {"posted", "sent"}
    /\ Posted \subseteq {issued} \cup expired

\* Requests that follow one another: what the one under way has done so far.
InTurn ==
    /\ \A r, s \in Requests : ~At(r, "idle") /\ ~At(s, "idle") => r = s
    /\ \A r \in Requests : At(r, "replace") \/ At(r, "enqueue") =>
            requests[r].code = issued /\ box[issued] = "none"
    /\ \A r \in Requests : At(r, "enqueue") => Posted = {}
    /\ (\A r \in Requests : ~At(r, "replace") /\ ~At(r, "enqueue")) => MailedWell

SigningInv == SignatureTypeOK /\ CodesFollow /\ MailsFollow /\ (~disturbed => InTurn)

ChallengeType == [state : {"none", "live", "deleted", "verified"}, wrong : 0 .. MaxWrong]
CodeRequestType == [step : Steps, code : {Wrong} \cup Codes]

LEMMA SigningInit == SignatureInit => SigningInv
<1> SUFFICES ASSUME SignatureInit PROVE SigningInv
  OBVIOUS
<1>1. SignatureTypeOK
  <2>1. Idle \in CodeRequestType
    BY DEF Idle, CodeRequestType, Steps
  <2>2. [state |-> "none", wrong |-> 0] \in ChallengeType
    BY SignatureAssumption DEF ChallengeType
  <2>3. /\ requests \in [Requests -> CodeRequestType]
        /\ challenges \in [Codes -> ChallengeType]
        /\ box \in [Codes -> Mail!Fates] /\ arrived = {}
    BY <2>1, <2>2 DEF SignatureInit, Mail!Init, Mail!Fates
  <2>4. /\ signer = "pending" /\ removed = FALSE /\ issued = 0 /\ expired = {}
        /\ identities = 0 /\ failures = 0 /\ disturbed = FALSE
    BY DEF SignatureInit
  <2>5. 0 \in 0 .. MaxCodes /\ 0 \in 0 .. MaxFailures
    BY SignatureAssumption
  <2>6. issued \in {Wrong} \cup Codes
    BY <2>4 DEF Wrong
  <2>7. signer \in {"pending", "otp_sent", "signed"} /\ removed \in BOOLEAN /\ disturbed \in BOOLEAN
    BY <2>4
  <2>8. expired \subseteq Codes /\ arrived \subseteq Codes
    BY <2>3, <2>4
  <2> QED
    BY <2>3, <2>4, <2>5, <2>6, <2>7, <2>8 DEF SignatureTypeOK, CodeRequestType, ChallengeType
<1>2. CodesFollow
  BY <1>1 DEF SignatureInit, CodesFollow, InState, LiveCodes, Codes
<1>3. MailsFollow
  BY DEF SignatureInit, MailsFollow, Idle, Mail!Init
<1>4. InTurn
  BY DEF SignatureInit, InTurn, At, Idle, MailedWell, LiveCodes, InState, Posted, Mail!Init
<1> QED
  BY <1>1, <1>2, <1>3, <1>4 DEF SigningInv

\* Steps that leave the codes alone.
LEMMA CodesFrame ==
  ASSUME CodesFollow, UNCHANGED <<signer, issued, challenges, identities>>, arrived \subseteq arrived'
  PROVE  CodesFollow'
BY DEF CodesFollow, InState, LiveCodes

\* A request takes another step; the others are where they were.
Moves(r, step, code) ==
    /\ requests' \in [Requests -> CodeRequestType]
    /\ requests'[r].step = step /\ requests'[r].code = code
    /\ \A s \in Requests \ {r} : requests'[s] = requests[s]

LEMMA StepsAreMoves ==
  ASSUME SignatureTypeOK, NEW r \in Requests
  PROVE  /\ \A step \in Steps : Go(r, step) => Moves(r, step, requests[r].code)
         /\ End(r) => Moves(r, "idle", Wrong)
         /\ requests[r].code \in {Wrong} \cup Codes
<1>1. requests[r] \in CodeRequestType /\ requests \in [Requests -> CodeRequestType]
  BY DEF SignatureTypeOK, CodeRequestType
<1>2. Idle \in CodeRequestType /\ Idle.step = "idle" /\ Idle.code = Wrong
  BY DEF Idle, CodeRequestType, Steps
<1>3. ASSUME NEW step \in Steps, Go(r, step) PROVE Moves(r, step, requests[r].code)
  BY <1>1, <1>3 DEF Go, Moves, CodeRequestType
<1>4. ASSUME End(r) PROVE Moves(r, "idle", Wrong)
  BY <1>1, <1>2, <1>4 DEF End, Moves
<1> QED
  BY <1>1, <1>3, <1>4 DEF CodeRequestType

\* Whatever moves one request on, leaves codes and mails alone and does not
\* bring it to posting a mail, keeps the mails in order.
LEMMA RequestFrame ==
  ASSUME SigningInv, NEW r \in Requests, NEW step \in Steps, NEW code \in {Wrong} \cup Codes,
         Moves(r, step, code),
         UNCHANGED <<signer, removed, issued, challenges, expired, identities, mail>>,
         failures' \in 0 .. MaxFailures, disturbed' \in BOOLEAN,
         step \in {"replace", "enqueue"} => requests[r].step = "replace" /\ code = requests[r].code
  PROVE  SignatureTypeOK' /\ CodesFollow' /\ MailsFollow'
<1>1. /\ requests' \in [Requests -> CodeRequestType]
      /\ requests'[r].step = step /\ requests'[r].code = code
      /\ \A s \in Requests \ {r} : requests'[s] = requests[s]
  BY DEF Moves
<1>2. SignatureTypeOK'
  BY <1>1 DEF SigningInv, SignatureTypeOK, CodeRequestType, mail
<1>3. CodesFollow'
  BY CodesFrame DEF SigningInv, mail
<1>4. MailsFollow'
  BY <1>1 DEF SigningInv, MailsFollow, mail
<1> QED
  BY <1>2, <1>3, <1>4

LEMMA AskKeeps ==
  ASSUME SigningInv, NEW r \in Requests, Ask(r) \/ CheckThrottle(r)
  PROVE  SigningInv'
<1>1. PICK step \in {"throttle", "create", "idle"} :
        /\ Moves(r, step, requests[r].code) \/ (step = "idle" /\ Moves(r, step, Wrong))
        /\ step = "throttle" => At(r, "idle") /\ (~disturbed' => NoneUnderWay)
        /\ step # "throttle" => At(r, "throttle")
        /\ ~disturbed' => ~disturbed
  <2>1. CASE Ask(r)
    <3>1. At(r, "idle") /\ Go(r, "throttle")
      BY <2>1 DEF Ask
    <3>2. ~disturbed' => ~disturbed /\ NoneUnderWay
      BY <2>1, Zenon DEF Ask
    <3>3. Moves(r, "throttle", requests[r].code)
      BY <3>1, StepsAreMoves DEF SigningInv, Steps
    <3> QED
      BY <3>1, <3>2, <3>3
  <2>2. CASE CheckThrottle(r)
    <3>1. /\ At(r, "throttle")
          /\ Go(r, "create") \/ End(r)
          /\ ~disturbed' => ~disturbed
      BY <2>2 DEF CheckThrottle
    <3>2. CASE Go(r, "create")
      <4>1. Moves(r, "create", requests[r].code)
        BY <3>2, StepsAreMoves DEF SigningInv, Steps
      <4> QED
        BY <3>1, <4>1
    <3>3. CASE End(r)
      <4>1. Moves(r, "idle", Wrong)
        BY <3>3, StepsAreMoves DEF SigningInv
      <4> QED
        BY <3>1, <4>1
    <3> QED
      BY <3>1, <3>2, <3>3
  <2> QED
    BY <2>1, <2>2
<1>2. PICK code \in {Wrong} \cup Codes : Moves(r, step, code)
  BY <1>1, StepsAreMoves DEF SigningInv
<1>3. /\ UNCHANGED <<signer, removed, issued, challenges, expired, identities, mail, failures>>
      /\ failures' \in 0 .. MaxFailures /\ disturbed' \in BOOLEAN
  BY <1>1 DEF SigningInv, SignatureTypeOK, Ask, CheckThrottle, NoneUnderWay
<1>4. SignatureTypeOK' /\ CodesFollow' /\ MailsFollow'
  BY <1>2, <1>3, RequestFrame DEF Steps
<1>5. /\ requests'[r].step = step
      /\ \A s \in Requests \ {r} : requests'[s] = requests[s]
  BY <1>2 DEF Moves
<1>6. ASSUME ~disturbed' PROVE InTurn'
  <2>1. InTurn /\ (step = "throttle" => NoneUnderWay)
    BY <1>1, <1>6 DEF SigningInv
  <2>2. /\ MailedWell <=> MailedWell'
        /\ Posted' = Posted
    BY <1>3 DEF MailedWell, LiveCodes, InState, Posted, mail
  <2>3. \A s, u \in Requests : ~At(s, "idle")' /\ ~At(u, "idle")' => s = u
    BY <1>1, <1>5, <2>1 DEF InTurn, At, NoneUnderWay
  <2>4. \A s \in Requests : At(s, "replace")' \/ At(s, "enqueue")' =>
            requests'[s].code = issued' /\ box'[issued'] = "none"
    BY <1>3, <1>5, <2>1 DEF InTurn, At, mail
  <2>5. \A s \in Requests : At(s, "enqueue")' => Posted' = {}
    BY <1>5, <2>1, <2>2 DEF InTurn, At
  <2>6. (\A s \in Requests : ~At(s, "replace")' /\ ~At(s, "enqueue")') => MailedWell'
    BY <1>1, <1>5, <2>1, <2>2 DEF InTurn, At
  <2> QED
    BY <2>3, <2>4, <2>5, <2>6 DEF InTurn
<1> QED
  BY <1>4, <1>6 DEF SigningInv

\* A new code: it is the last, the others are deleted, it has no mail yet.
LEMMA CreateKeeps ==
  ASSUME SigningInv, NEW r \in Requests, CreateChallenge(r)
  PROVE  SigningInv'
<1>1. /\ At(r, "create") /\ issued < MaxCodes
      /\ UNCHANGED <<removed, expired, mail, failures, disturbed>>
  BY DEF CreateChallenge
<1>2. CASE ~MayIssue
  <2>1. Moves(r, "idle", Wrong) /\ UNCHANGED <<signer, issued, challenges, identities>>
    BY <1>2, StepsAreMoves DEF CreateChallenge, SigningInv
  <2>2. SignatureTypeOK' /\ CodesFollow' /\ MailsFollow'
    BY <1>1, <2>1, RequestFrame DEF Steps, SigningInv, SignatureTypeOK
  <2>3. /\ requests'[r].step = "idle"
        /\ \A s \in Requests \ {r} : requests'[s] = requests[s]
    BY <2>1 DEF Moves
  <2>4. ASSUME ~disturbed' PROVE InTurn'
    <3>1. InTurn
      BY <1>1, <2>4 DEF SigningInv
    <3>2. (MailedWell <=> MailedWell') /\ Posted' = Posted
      BY <1>1, <2>1 DEF MailedWell, LiveCodes, InState, Posted, mail
    <3> QED
      BY <1>1, <2>1, <2>3, <3>1, <3>2 DEF InTurn, At, mail
  <2> QED
    BY <2>2, <2>4 DEF SigningInv
<1>3. CASE MayIssue
  <2> DEFINE new == issued + 1
  <2>0. new \in Codes /\ issued \in 0 .. MaxCodes
    BY <1>1, SignatureAssumption DEF SigningInv, SignatureTypeOK, Codes, Wrong
  <2>1. /\ issued' = new /\ new \in Codes
        /\ challenges' = [OthersDeleted EXCEPT ![new].state = "live"]
        /\ signer' = "otp_sent" /\ signer # "signed"
        /\ identities' = identities + 1
        /\ requests' = [requests EXCEPT ![r] = [step |-> "replace", code |-> issued']]
        /\ issued \in 0 .. MaxCodes
    BY <1>3, <2>0 DEF CreateChallenge, MayIssue
  <2>2. /\ requests' \in [Requests -> CodeRequestType]
        /\ requests'[r].step = "replace" /\ requests'[r].code = new
        /\ \A s \in Requests \ {r} : requests'[s] = requests[s]
    <3>1. [step |-> "replace", code |-> new] \in CodeRequestType
      BY <2>1 DEF CodeRequestType, Steps
    <3> QED
      BY <2>1, <3>1 DEF SigningInv, SignatureTypeOK, CodeRequestType
  <2>3. /\ challenges' \in [Codes -> ChallengeType]
        /\ challenges'[new].state = "live"
        /\ \A c \in Codes \ {new} :
              challenges'[c].state = IF challenges[c].state = "live" THEN "deleted" ELSE challenges[c].state
    <3>1. challenges \in [Codes -> ChallengeType]
      BY DEF SigningInv, SignatureTypeOK, ChallengeType
    <3>2. /\ OthersDeleted \in [Codes -> ChallengeType]
          /\ \A c \in Codes : OthersDeleted[c].state =
                IF challenges[c].state = "live" THEN "deleted" ELSE challenges[c].state
      BY <3>1 DEF OthersDeleted, LiveCodes, InState, ChallengeType
    <3> HIDE DEF new
    <3> QED
      BY <2>1, <3>2 DEF ChallengeType
  <2>4. \A c \in Codes : challenges[c].state # "verified"
    BY <2>1 DEF SigningInv, CodesFollow, InState
  <2>5. \A c \in Codes : challenges'[c].state \in {"live", "verified"} => c = new
    BY <2>3, <2>4
  <2>6. SignatureTypeOK'
    <3>1. identities' \in 0 .. MaxCodes
      BY <1>1, <2>1, SignatureAssumption DEF SigningInv, SignatureTypeOK, CodesFollow
    <3> QED
      BY <1>1, <2>1, <2>2, <2>3, <3>1
         DEF SigningInv, SignatureTypeOK, ChallengeType, CodeRequestType, mail
  <2>7. CodesFollow'
    <3>1. InState("verified")' = {}
      BY <2>3, <2>4 DEF InState
    <3>2. identities' > 0 /\ identities' <= issued'
      BY <2>1 DEF SigningInv, SignatureTypeOK, CodesFollow
    <3> QED
      BY <2>1, <2>5, <3>1, <3>2 DEF CodesFollow
  <2>8. MailsFollow'
    <3>1. 1 .. issued \subseteq 1 .. new /\ new \in 1 .. new
      BY <2>1
    <3>2. \A c \in Codes : c <= issued => c <= new
      BY <2>1 DEF Codes
    <3> QED
      BY <1>1, <2>1, <2>2, <3>1, <3>2 DEF SigningInv, MailsFollow, mail
  <2>9. ASSUME ~disturbed' PROVE InTurn'
    <3>1. InTurn
      BY <1>1, <2>9 DEF SigningInv
    <3>2. \A s \in Requests \ {r} : At(s, "idle")
      BY <1>1, <3>1 DEF InTurn, At
    <3>3. box'[new] = "none"
      BY <1>1, <2>1 DEF SigningInv, MailsFollow, mail, SignatureTypeOK
    <3> QED
      BY <2>1, <2>2, <3>2, <3>3 DEF InTurn, At
  <2> QED
    BY <2>6, <2>7, <2>8, <2>9 DEF SigningInv
<1> QED
  BY <1>2, <1>3

\* The statement that withdraws what waits, and the one that posts the mail.
LEMMA ReplaceKeeps ==
  ASSUME SigningInv, NEW r \in Requests, ReplaceMails(r)
  PROVE  SigningInv'
<1>1. /\ At(r, "replace")
      /\ box' = [c \in Codes |-> IF c \in Posted THEN "dropped" ELSE box[c]]
      /\ Moves(r, "enqueue", requests[r].code) /\ requests[r].code \in {Wrong} \cup Codes
      /\ UNCHANGED <<signer, removed, issued, challenges, expired, identities, failures, disturbed, arrived>>
  BY StepsAreMoves DEF ReplaceMails, Replaced, Mail!Drop, SigningInv, Steps
<1>2. /\ requests' \in [Requests -> CodeRequestType]
      /\ requests'[r].step = "enqueue" /\ requests'[r].code = requests[r].code
      /\ \A s \in Requests \ {r} : requests'[s] = requests[s]
  BY <1>1 DEF Moves
<1>3. /\ box' \in [Codes -> Mail!Fates] /\ Posted' = {}
      /\ \A c \in Codes : box'[c] = "none" <=> box[c] = "none"
  BY <1>1 DEF SigningInv, SignatureTypeOK, Mail!Fates, Posted
<1>4. SignatureTypeOK'
  BY <1>1, <1>2, <1>3 DEF SigningInv, SignatureTypeOK, CodeRequestType
<1>5. CodesFollow'
  BY <1>1, CodesFrame DEF SigningInv
<1>6. MailsFollow'
  BY <1>1, <1>2, <1>3 DEF SigningInv, MailsFollow, At
<1>7. ASSUME ~disturbed' PROVE InTurn'
  <2>1. InTurn
    BY <1>1, <1>7 DEF SigningInv
  <2>2. requests[r].code = issued /\ box'[issued] = "none" /\ issued \in Codes
    <3>1. requests[r].code = issued /\ box[issued] = "none"
      BY <1>1, <2>1 DEF InTurn
    <3>2. issued \in Codes
      BY <1>1, <3>1 DEF SigningInv, MailsFollow, SignatureTypeOK, Wrong, At
    <3> QED
      BY <1>3, <3>1, <3>2
  <2>3. \A s \in Requests \ {r} : At(s, "idle")
    BY <1>1, <2>1 DEF InTurn, At
  <2> QED
    BY <1>1, <1>2, <1>3, <2>2, <2>3 DEF InTurn, At
<1> QED
  BY <1>4, <1>5, <1>6, <1>7 DEF SigningInv

LEMMA EnqueueKeeps ==
  ASSUME SigningInv, NEW r \in Requests, EnqueueMail(r)
  PROVE  SigningInv'
<1> DEFINE code == requests[r].code
<1>1. /\ At(r, "enqueue") /\ box[code] = "none"
      /\ box' = [box EXCEPT ![code] = "posted"]
      /\ Moves(r, "idle", Wrong)
      /\ UNCHANGED <<signer, removed, issued, challenges, expired, identities, failures, disturbed, arrived>>
  BY StepsAreMoves DEF EnqueueMail, PostMail, Mail!Post, SigningInv
<1>2. /\ requests' \in [Requests -> CodeRequestType]
      /\ requests'[r].step = "idle"
      /\ \A s \in Requests \ {r} : requests'[s] = requests[s]
  BY <1>1 DEF Moves
<1>3. code \in 1 .. issued /\ code \in Codes /\ issued \in Nat
  BY <1>1, SignatureAssumption DEF SigningInv, MailsFollow, SignatureTypeOK, Wrong, Codes, At
<1>4. /\ box' \in [Codes -> Mail!Fates] /\ box'[code] = "posted"
      /\ \A c \in Codes \ {code} : box'[c] = box[c]
  BY <1>1, <1>3 DEF SigningInv, SignatureTypeOK, Mail!Fates
<1>5. SignatureTypeOK'
  BY <1>1, <1>2, <1>4 DEF SigningInv, SignatureTypeOK, CodeRequestType
<1>6. CodesFollow'
  BY <1>1, CodesFrame DEF SigningInv
<1>7. MailsFollow'
  BY <1>1, <1>2, <1>3, <1>4 DEF SigningInv, MailsFollow
<1>8. ASSUME ~disturbed' PROVE InTurn'
  <2>1. InTurn
    BY <1>1, <1>8 DEF SigningInv
  <2>2. code = issued /\ Posted = {} /\ \A s \in Requests \ {r} : At(s, "idle")
    BY <1>1, <2>1 DEF InTurn, At
  <2>3. Posted' \subseteq {issued'}
    BY <1>1, <1>4, <2>2 DEF Posted
  <2>4. \A c \in LiveCodes' : c = issued' /\ box'[c] = "posted"
    BY <1>1, <1>4, <2>2 DEF SigningInv, CodesFollow, LiveCodes, InState
  <2>5. MailedWell'
    BY <2>3, <2>4 DEF MailedWell
  <2> QED
    BY <1>2, <2>2, <2>5 DEF InTurn, At
<1> QED
  BY <1>5, <1>6, <1>7, <1>8 DEF SigningInv

LEMMA EndEarlyKeeps ==
  ASSUME SigningInv, NEW r \in Requests, EndEarly(r)
  PROVE  SigningInv'
<1>1. PICK step \in {"idle", "enqueue"}, code \in {Wrong} \cup Codes :
        /\ Moves(r, step, code)
        /\ step = "enqueue" => requests[r].step = "replace" /\ code = requests[r].code
  BY StepsAreMoves DEF EndEarly, SigningInv, Steps, At
<1>2. /\ UNCHANGED <<signer, removed, issued, challenges, expired, identities, mail>>
      /\ failures' \in 0 .. MaxFailures /\ disturbed' = TRUE
  BY SignatureAssumption DEF EndEarly, SigningInv, SignatureTypeOK
<1>3. SignatureTypeOK' /\ CodesFollow' /\ MailsFollow'
  BY <1>1, <1>2, RequestFrame DEF Steps
<1> QED
  BY <1>2, <1>3 DEF SigningInv

\* The customer, the mails, time and the removal: requests as they are.
LEMMA InTurnFrame ==
  ASSUME SigningInv, InTurn, UNCHANGED <<requests, issued>>,
         \A c \in Codes : box[c] = "none" => box'[c] = "none",
         Posted' \subseteq Posted,
         MailedWell => MailedWell'
  PROVE  InTurn'
<1>1. ASSUME NEW r \in Requests, At(r, "replace") \/ At(r, "enqueue")
      PROVE  issued \in Codes
  BY <1>1, SignatureAssumption DEF SigningInv, SignatureTypeOK, MailsFollow, At, Codes, Wrong
<1> QED
  BY <1>1 DEF InTurn, At

LEMMA ConfirmKeeps ==
  ASSUME SigningInv, NEW entry \in arrived \cup {Wrong}, Confirm(entry)
  PROVE  SigningInv'
<1>1. PICK c \in Selected :
        /\ MayTry(c)
        /\ IF Matches(c, entry)
           THEN /\ identities > 0
                /\ challenges' = [challenges EXCEPT ![c].state = "verified"]
                /\ identities' = identities - 1
                /\ signer' = "signed"
           ELSE /\ challenges' = [challenges EXCEPT ![c].wrong = @ + 1]
                /\ UNCHANGED <<identities, signer>>
  BY DEF Confirm
<1>2. /\ c \in LiveCodes /\ c \in Codes /\ c = issued /\ challenges[c].state = "live"
      /\ UNCHANGED <<removed, issued, expired, requests, mail, failures, disturbed>>
      /\ signer # "signed"
  BY DEF Confirm, Selected, LiveCodes, InState, SigningInv, CodesFollow
<1>3. /\ challenges' \in [Codes -> ChallengeType]
      /\ \A d \in Codes \ {c} : challenges'[d] = challenges[d]
      /\ challenges'[c].state = IF Matches(c, entry) THEN "verified" ELSE "live"
  <2>1. challenges \in [Codes -> ChallengeType] /\ challenges[c].wrong + 1 \in 0 .. MaxWrong
    BY <1>1, <1>2, SignatureAssumption DEF SigningInv, SignatureTypeOK, ChallengeType, MayTry
  <2> QED
    BY <1>1, <1>2, <2>1 DEF ChallengeType
<1>4. SignatureTypeOK'
  <2>1. identities' \in 0 .. MaxCodes /\ signer' \in {"pending", "otp_sent", "signed"}
    BY <1>1, SignatureAssumption DEF SigningInv, SignatureTypeOK
  <2> QED
    BY <1>2, <1>3, <2>1 DEF SigningInv, SignatureTypeOK, ChallengeType, mail
<1>5. /\ LiveCodes' \subseteq LiveCodes
      /\ \A d \in Codes : challenges'[d].state \in {"live", "verified"} => d = issued
  BY <1>2, <1>3 DEF SigningInv, CodesFollow, LiveCodes, InState
<1>6. CodesFollow'
  <2>1. CASE Matches(c, entry)
    <3>1. entry = c /\ c \in arrived
      BY <1>2, <2>1 DEF Matches, Wrong, Codes
    <3>2. InState("verified")' = {c} /\ LiveCodes' = {}
      BY <1>2, <1>3, <1>5, <2>1 DEF InState, LiveCodes
    <3>3. identities' <= issued' /\ signer' = "signed"
      BY <1>1, <1>2, <2>1 DEF SigningInv, SignatureTypeOK, CodesFollow, Codes, Wrong
    <3> QED
      BY <1>2, <1>5, <3>1, <3>2, <3>3 DEF CodesFollow, mail
  <2>2. CASE ~Matches(c, entry)
    <3>1. InState("verified")' = InState("verified") /\ LiveCodes' = LiveCodes
      BY <1>2, <1>3, <2>2 DEF InState, LiveCodes
    <3> QED
      BY <1>1, <1>2, <1>5, <2>2, <3>1 DEF SigningInv, CodesFollow, mail
  <2> QED
    BY <2>1, <2>2
<1>7. MailsFollow'
  BY <1>2 DEF SigningInv, MailsFollow, mail
<1>8. ASSUME ~disturbed' PROVE InTurn'
  <2>1. InTurn
    BY <1>2, <1>8 DEF SigningInv
  <2>2. Posted' = Posted /\ (MailedWell => MailedWell')
    BY <1>2, <1>5 DEF MailedWell, Posted, mail
  <2> QED
    BY <1>2, <2>1, <2>2, InTurnFrame DEF mail
<1> QED
  BY <1>4, <1>6, <1>7, <1>8 DEF SigningInv

\* What the outbox may do with a mail.
LEMMA NotifyKeeps ==
  ASSUME SigningInv, NEW c \in Codes, Notify(c)
  PROVE  SigningInv'
<1>1. /\ UNCHANGED <<signer, removed, issued, challenges, expired, identities, requests, failures, disturbed>>
      /\ \/ box' = box /\ arrived' = arrived \cup {c} /\ box[c] # "none"
         \/ box[c] = "posted" /\ box' = [box EXCEPT ![c] = "sent"] /\ arrived' = arrived
         \/ /\ c \in expired /\ box[c] = "posted" /\ arrived' = arrived
            /\ box' = [d \in Codes |-> IF d \in {c} THEN "dropped" ELSE box[d]]
  BY DEF Notify, Arrive, ArriveLate, Settle, Mail!Arrive, Mail!MarkSent, Mail!Drop, Posted
<1>2. /\ box' \in [Codes -> Mail!Fates]
      /\ \A d \in Codes : /\ box'[d] = "none" <=> box[d] = "none"
                          /\ box'[d] = "posted" => box[d] = "posted"
                          /\ box[d] \in {"posted", "sent"} => box'[d] \in {"posted", "sent"} \/ d \in expired
  BY <1>1 DEF SigningInv, SignatureTypeOK, Mail!Fates
<1>3. arrived \subseteq arrived' /\ arrived' \subseteq arrived \cup {c}
      /\ (c \in arrived' \ arrived => box[c] # "none")
  BY <1>1
<1>4. SignatureTypeOK'
  BY <1>1, <1>2, <1>3 DEF SigningInv, SignatureTypeOK
<1>5. CodesFollow'
  BY <1>1, <1>3, CodesFrame DEF SigningInv
<1>6. MailsFollow'
  <2>1. c \in arrived' \ arrived => c \in 1 .. issued
    BY <1>3, SignatureAssumption DEF SigningInv, MailsFollow, SignatureTypeOK, Codes, Wrong
  <2> QED
    BY <1>1, <1>2, <1>3, <2>1 DEF SigningInv, MailsFollow
<1>7. ASSUME ~disturbed' PROVE InTurn'
  <2>1. InTurn
    BY <1>1, <1>7 DEF SigningInv
  <2>2. Posted' \subseteq Posted
    BY <1>2 DEF Posted
  <2>3. MailedWell => MailedWell'
    BY <1>1, <1>2, <2>2 DEF MailedWell, LiveCodes, InState
  <2> QED
    BY <1>1, <1>2, <2>1, <2>2, <2>3, InTurnFrame
<1> QED
  BY <1>4, <1>5, <1>6, <1>7 DEF SigningInv

LEMMA TimeAndRemovalKeep ==
  ASSUME SigningInv, Remove \/ \E c \in Codes : CodeExpires(c)
  PROVE  SigningInv'
<1>1. /\ UNCHANGED <<signer, issued, challenges, identities, requests, mail, failures, disturbed>>
      /\ removed' \in BOOLEAN
      /\ expired \subseteq expired' /\ expired' \subseteq Codes
  BY DEF Remove, CodeExpires, SigningInv, SignatureTypeOK
<1>2. SignatureTypeOK'
  BY <1>1 DEF SigningInv, SignatureTypeOK, mail
<1>3. CodesFollow'
  BY <1>1, CodesFrame DEF SigningInv, mail
<1>4. MailsFollow'
  BY <1>1 DEF SigningInv, MailsFollow, mail
<1>5. ASSUME ~disturbed' PROVE InTurn'
  <2>1. InTurn
    BY <1>1, <1>5 DEF SigningInv
  <2>2. Posted' = Posted /\ (MailedWell => MailedWell')
    BY <1>1 DEF MailedWell, Posted, LiveCodes, InState, mail
  <2> QED
    BY <1>1, <2>1, <2>2, InTurnFrame DEF mail
<1> QED
  BY <1>2, <1>3, <1>4, <1>5 DEF SigningInv

LEMMA SigningStep == SigningInv /\ [SignatureNext]_signatureVars => SigningInv'
<1> SUFFICES ASSUME SigningInv, [SignatureNext]_signatureVars PROVE SigningInv'
  OBVIOUS
<1>1. ASSUME NEW r \in Requests, Ask(r) \/ Handle(r) \/ EndEarly(r) PROVE SigningInv'
  BY <1>1, AskKeeps, CreateKeeps, ReplaceKeeps, EnqueueKeeps, EndEarlyKeeps DEF Handle
<1>2. ASSUME NEW entry \in arrived \cup {Wrong}, Confirm(entry) PROVE SigningInv'
  BY <1>2, ConfirmKeeps
<1>3. ASSUME NEW c \in Codes, Notify(c) \/ CodeExpires(c) PROVE SigningInv'
  BY <1>3, NotifyKeeps, TimeAndRemovalKeep
<1>4. CASE Remove
  BY <1>4, TimeAndRemovalKeep
<1>5. CASE UNCHANGED signatureVars
  BY <1>5 DEF signatureVars, mail, SigningInv, SignatureTypeOK, CodesFollow, MailsFollow, InTurn,
     MailedWell, At, LiveCodes, InState, Posted
<1> QED
  BY <1>1, <1>2, <1>3, <1>4, <1>5 DEF SignatureNext

\* However requests for codes, entries, mails, time and the removal interleave,
\* one code at most is good for signing, it is the last that was issued, only
\* that one signs, and in orderly use its mail is the one under way.
THEOREM SigningIsSound == SignatureSpec => []CodesSound
<1>1. SigningInv => CodesSound
  <2> SUFFICES ASSUME SigningInv PROVE LiveCodeSound /\ SignedByLastCode /\ LiveCodeIsMailed
    BY DEF SigningInv, CodesSound
  <2>1. LiveCodes \subseteq {issued} /\ InState("verified") \subseteq {issued}
    BY DEF SigningInv, CodesFollow, LiveCodes, InState
  <2>2. Cardinality(LiveCodes) <= 1
    <3>1. IsFiniteSet({issued}) /\ Cardinality({issued}) = 1
      BY FS_Singleton, Zenon
    <3>2. Cardinality(LiveCodes) <= Cardinality({issued})
      BY <2>1, <3>1, FS_Subset
    <3> QED
      BY <3>1, <3>2
  <2>3. signer = "signed" => LiveCodes = {}
    BY <2>1 DEF SigningInv, CodesFollow, LiveCodes, InState
  <2>4. LiveCodeIsMailed
    BY DEF SigningInv, InTurn, LiveCodeIsMailed, NoneUnderWay, At, MailedWell
  <2> QED
    BY <2>1, <2>2, <2>3, <2>4 DEF SigningInv, CodesFollow, LiveCodeSound, SignedByLastCode
<1> QED
  BY <1>1, SigningInit, SigningStep, PTL DEF SignatureSpec

\* Of the challenges the throttle counts, one at most is ever left: those before
\* it are deleted when the next is issued.  So it refuses nobody that it would
\* not refuse for the first.
THEOREM ThrottleCountsOne == SignatureSpec => [](Cardinality(Recent) <= 1)
<1>1. SigningInv => Cardinality(Recent) <= 1
  <2> SUFFICES ASSUME SigningInv PROVE Cardinality(Recent) <= 1
    OBVIOUS
  <2>1. Recent \subseteq {issued}
    BY DEF Recent, SigningInv, CodesFollow, LiveCodes, InState
  <2>2. IsFiniteSet({issued}) /\ Cardinality({issued}) = 1
    BY FS_Singleton, Zenon
  <2>3. Cardinality(Recent) <= Cardinality({issued})
    BY <2>1, <2>2, FS_Subset
  <2> QED
    BY <2>2, <2>3
<1> QED
  BY <1>1, SigningInit, SigningStep, PTL DEF SignatureSpec

\* After the removal nobody signs and no code is issued, not even by a request
\* or an entry that was under way.
THEOREM NothingSignedAfterRemoval == SignatureSpec => RemovedIsClosed
<1> DEFINE Closed == removed => UNCHANGED <<signer, issued, challenges, identities>>
<1>1. [SignatureNext]_signatureVars => Closed
  <2> SUFFICES ASSUME [SignatureNext]_signatureVars, removed
               PROVE  UNCHANGED <<signer, issued, challenges, identities>>
    OBVIOUS
  <2>1. ASSUME NEW r \in Requests, Ask(r) \/ Handle(r) \/ EndEarly(r)
        PROVE  UNCHANGED <<signer, issued, challenges, identities>>
    BY <2>1 DEF Ask, Handle, CheckThrottle, CreateChallenge, MayIssue, ReplaceMails, EnqueueMail, EndEarly
  <2>2. ~\E entry \in arrived \cup {Wrong} : Confirm(entry)
    BY DEF Confirm
  <2> QED
    BY <2>1, <2>2 DEF SignatureNext, Notify, CodeExpires, Remove, signatureVars
<1> QED
  BY <1>1, PTL DEF SignatureSpec, RemovedIsClosed

=============================================================================
