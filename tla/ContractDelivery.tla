-------------------------- MODULE ContractDelivery --------------------------
(***************************************************************************)
(* From the contracting data of one accepted proposal to a contract sent   *)
(* for signature: onboarding.Store, continueOnboardingContract,            *)
(* ensureContractDelivery and contracts.Generator.                         *)
(*                                                                         *)
(* Every step is one SQL statement, one transaction or one object-storage  *)
(* call.  The customer's submission, every later visit of the proposal     *)
(* link and the operator's retry run the same sequence, so several         *)
(* requests may be inside it at once, and each may be cut off between any  *)
(* two steps.                                                              *)
(***************************************************************************)
EXTENDS Naturals, FiniteSets

CONSTANTS
    Requests,       \* HTTP requests that may be in progress together
    Data,           \* contracting data a customer may save
    NoData,         \* nothing saved yet: not complete enough to submit
    Generations,    \* a generation run, with its contract id and PDF key
    NoGeneration,   \* the request has no contract at hand
    MaxFailures     \* bound: transient failures and interruptions

ASSUME NullsAssumption == NoData \notin Data /\ NoGeneration \notin Generations
ASSUME BoundAssumption == MaxFailures \in Nat

VARIABLES
    onboarding,     \* the row of onboardings; deleted stands for the cascade
    contracts,      \* rows of contracts, with the client's row of contract_signers
    storage,        \* contract PDFs in object storage
    profiles,       \* contracts with a row of activation_profiles
    mails,          \* outbox rows contract-signature:<contract>:<signer>
    requests,       \* what each request is about to do
    failures        \* failures so far

vars == <<onboarding, contracts, storage, profiles, mails, requests, failures>>

Editable == {"pending", "in_progress", "correction_requested"}
OnboardingStatus == Editable \cup {"submitted", "under_review", "approved"}
Steps == {"idle", "approve", "lookup", "load", "put", "create", "undo", "signer", "token",
          "delete_row", "delete_pdf", "profile", "mail", "mark"}

Onboarding == [status: OnboardingStatus, data: Data \cup {NoData}, deleted: BOOLEAN]
Contract ==
    [status: {"absent", "generated", "sent", "signed"}, data: Data \cup {NoData},
     signer: {"none", "live", "deleted"}, deleted: BOOLEAN]
Request == [step: Steps, gen: Generations \cup {NoGeneration}, data: Data \cup {NoData}]

NoContract == [status |-> "absent", data |-> NoData, signer |-> "none", deleted |-> FALSE]
Idle == [step |-> "idle", gen |-> NoGeneration, data |-> NoData]

TypeOK ==
    /\ onboarding \in Onboarding
    /\ contracts \in [Generations -> Contract]
    /\ storage \subseteq Generations
    /\ profiles \subseteq Generations
    /\ mails \in [Generations -> {"none", "queued", "cancelled"}]
    /\ requests \in [Requests -> Request]
    /\ failures \in 0 .. MaxFailures

\* Store.Accept leaves a pending onboarding.
Init ==
    /\ onboarding = [status |-> "pending", data |-> NoData, deleted |-> FALSE]
    /\ contracts = [g \in Generations |-> NoContract]
    /\ storage = {}
    /\ profiles = {}
    /\ mails = [g \in Generations |-> "none"]
    /\ requests = [r \in Requests |-> Idle]
    /\ failures = 0

----------------------------------------------------------------------------
(* Helpers *)

Exists(g) == contracts[g].status # "absent"
Live(g) == Exists(g) /\ ~contracts[g].deleted
Fail == failures < MaxFailures /\ failures' = failures + 1

\* Row, key and identifier of a run that nothing uses yet.
Fresh(g) ==
    /\ ~Exists(g) /\ g \notin storage /\ mails[g] = "none"
    /\ \A r \in Requests : requests[r].gen # g

At(r, step) == requests[r].step = step
Go(r, step) == requests' = [requests EXCEPT ![r].step = step]
End(r) == requests' = [requests EXCEPT ![r] = Idle]

----------------------------------------------------------------------------
(* The customer's data and its review: onboarding.Store *)

\* Store.Save.
Save(d) ==
    /\ ~onboarding.deleted
    /\ onboarding.status \in Editable
    /\ onboarding' = [onboarding EXCEPT
          !.status = IF @ = "pending" THEN "in_progress" ELSE @, !.data = d]
    /\ UNCHANGED <<contracts, storage, profiles, mails, requests, failures>>

\* Store.Submit, only with complete data.
Submit ==
    /\ ~onboarding.deleted
    /\ onboarding.status \in Editable
    /\ onboarding.data # NoData
    /\ onboarding' = [onboarding EXCEPT !.status = "submitted"]
    /\ UNCHANGED <<contracts, storage, profiles, mails, requests, failures>>

\* Store.Review, by an operator.
ReviewFrom(status) ==
    onboarding.status \in {"submitted", "under_review"}
        \cup (IF status = "approved" THEN {"approved"} ELSE {})
Review(status) ==
    /\ ~onboarding.deleted
    /\ ReviewFrom(status)
    /\ status = "correction_requested" => \A g \in Generations : ~Live(g)
    /\ onboarding' = [onboarding EXCEPT !.status = status]
    /\ UNCHANGED <<contracts, storage, profiles, mails, requests, failures>>

----------------------------------------------------------------------------
(* A request: continueOnboardingContract, ensureContractDelivery *)

\* The handler has read the status (or just submitted the data); the
\* operator's retry skips the approval and reads nothing.
Enter(r) ==
    /\ At(r, "idle")
    /\ ~onboarding.deleted
    /\ \/ onboarding.status = "submitted" /\ Go(r, "approve")
       \/ onboarding.status = "approved" /\ Go(r, "lookup")
    /\ UNCHANGED <<onboarding, contracts, storage, profiles, mails, failures>>

Retry(r) ==
    /\ At(r, "idle")
    /\ Go(r, "lookup")
    /\ UNCHANGED <<onboarding, contracts, storage, profiles, mails, failures>>

\* Store.AutoApprove: idempotent, refused when a review took over meanwhile.
AutoApprove(r) ==
    /\ At(r, "approve")
    /\ IF ~onboarding.deleted /\ onboarding.status \in {"submitted", "approved"}
       THEN onboarding' = [onboarding EXCEPT !.status = "approved"] /\ Go(r, "lookup")
       ELSE UNCHANGED onboarding /\ End(r)
    /\ UNCHANGED <<contracts, storage, profiles, mails, failures>>

\* Store.DeliveryByOnboarding joins the client's signer: a live contract
\* without one is not found.
Deliverable(g) == Live(g) /\ contracts[g].signer = "live"
NeverUnfinished(g) == FALSE             \* mutant: whatever exists is returned as it is
Unfinished(g) == contracts[g].status = "generated"
Lookup(r) ==
    /\ At(r, "lookup")
    /\ \/ \E g \in Generations :
             /\ Deliverable(g)
             /\ IF Unfinished(g)
                THEN requests' = [requests EXCEPT ![r].step = "profile", ![r].gen = g]
                ELSE End(r)
       \/ (\A g \in Generations : ~Deliverable(g)) /\ Go(r, "load")
    /\ UNCHANGED <<onboarding, contracts, storage, profiles, mails, failures>>

\* GenerateForOnboarding reads the approved data; rendering follows.
Load(r) ==
    /\ At(r, "load")
    /\ IF onboarding.status = "approved" /\ ~onboarding.deleted
       THEN \E g \in Generations :
               /\ Fresh(g)
               /\ requests' = [requests EXCEPT ![r] =
                     [step |-> "put", gen |-> g, data |-> onboarding.data]]
       ELSE End(r)
    /\ UNCHANGED <<onboarding, contracts, storage, profiles, mails, failures>>

PutPDF(r) ==
    /\ At(r, "put")
    /\ storage' = storage \cup {requests[r].gen}
    /\ Go(r, "create")
    /\ UNCHANGED <<onboarding, contracts, profiles, mails, failures>>

\* CreateGeneratedContract: one plain insert.  The unique index
\* contracts_one_active_per_onboarding, which counts removed rows too, is its
\* only guard.
NoGuardOnCreate == TRUE                 \* mutant: no unique index
MayCreate == \A g \in Generations : ~Exists(g)
CreateContract(r) ==
    /\ At(r, "create")
    /\ IF MayCreate
       THEN /\ contracts' = [contracts EXCEPT ![requests[r].gen] =
                  [status |-> "generated", data |-> requests[r].data,
                   signer |-> "none", deleted |-> FALSE]]
            /\ Go(r, "signer")
       ELSE UNCHANGED contracts /\ Go(r, "undo")
    /\ UNCHANGED <<onboarding, storage, profiles, mails, failures>>

CreateFails(r) ==
    /\ At(r, "create")
    /\ Fail
    /\ Go(r, "undo")
    /\ UNCHANGED <<onboarding, contracts, storage, profiles, mails>>

\* The insert failed: only the PDF of this run is taken back.
UndoPut(r) ==
    /\ At(r, "undo")
    /\ storage' = storage \ {requests[r].gen}
    /\ End(r)
    /\ UNCHANGED <<onboarding, contracts, profiles, mails, failures>>

AddSigner(r) ==
    /\ At(r, "signer")
    /\ contracts' = [contracts EXCEPT ![requests[r].gen].signer = "live"]
    /\ Go(r, "token")
    /\ UNCHANGED <<onboarding, storage, profiles, mails, failures>>

\* SignerPublicToken, then back in ensureContractDelivery with the contract.
ReadToken(r) ==
    /\ At(r, "token")
    /\ Go(r, IF contracts[requests[r].gen].signer = "live" THEN "profile" ELSE "delete_row")
    /\ UNCHANGED <<onboarding, contracts, storage, profiles, mails, failures>>

SignerFails(r) ==
    /\ At(r, "signer") \/ At(r, "token")
    /\ Fail
    /\ Go(r, "delete_row")
    /\ UNCHANGED <<onboarding, contracts, storage, profiles, mails>>

\* cleanupGeneratedContract, first statement: matches only a generated
\* contract, and an activation profile refers to its contract without
\* cascade.  An error is kept for the message, the cleanup goes on.
Removes(g) == contracts[g].status = "generated" /\ g \notin profiles
DeleteRow(r) ==
    /\ At(r, "delete_row")
    /\ contracts' = IF Removes(requests[r].gen)
                    THEN [contracts EXCEPT ![requests[r].gen] = NoContract] ELSE contracts
    /\ Go(r, "delete_pdf")
    /\ UNCHANGED <<onboarding, storage, profiles, mails, failures>>

DeleteRowFails(r) ==
    /\ At(r, "delete_row")
    /\ Fail
    /\ Go(r, "delete_pdf")
    /\ UNCHANGED <<onboarding, contracts, storage, profiles, mails>>

DeletePDF(r) ==
    /\ At(r, "delete_pdf")
    /\ storage' = storage \ {requests[r].gen}
    /\ End(r)
    /\ UNCHANGED <<onboarding, contracts, profiles, mails, failures>>

\* proposalPublicPathByOnboarding, EnsureForContract and CreateAccessToken:
\* the profile is created once, the access token is always a new one.
AnnouncesRemoved(g) == Live(g)          \* mutant: the proposal is not looked at
Announceable(g) == ~onboarding.deleted /\ Live(g)
EnsureProfile(r) ==
    /\ At(r, "profile")
    /\ IF Announceable(requests[r].gen)
       THEN profiles' = profiles \cup {requests[r].gen} /\ Go(r, "mail")
       ELSE UNCHANGED profiles /\ End(r)
    /\ UNCHANGED <<onboarding, contracts, storage, mails, failures>>

\* EnqueueUnique: on conflict of the key do nothing.
EnqueueSignatureMail(r) ==
    /\ At(r, "mail")
    /\ mails' = [mails EXCEPT ![requests[r].gen] = IF @ = "none" THEN "queued" ELSE @]
    /\ Go(r, "mark")
    /\ UNCHANGED <<onboarding, contracts, storage, profiles, failures>>

\* MarkSent changes nothing once the contract is signed or removed.
MarksAnyLive(g) == Live(g)              \* mutant: whatever its status
MaySend(g) == Live(g) /\ contracts[g].status \in {"generated", "sent"}
MarkSent(r) ==
    /\ At(r, "mark")
    /\ contracts' = IF MaySend(requests[r].gen)
                    THEN [contracts EXCEPT ![requests[r].gen].status = "sent"] ELSE contracts
    /\ End(r)
    /\ UNCHANGED <<onboarding, storage, profiles, mails, failures>>

\* A failed read, a closed connection or a shutdown: the request ends, and
\* its cleanup, which shares its context, does nothing.
Interrupt(r) ==
    /\ ~At(r, "idle")
    /\ Fail
    /\ End(r)
    /\ UNCHANGED <<onboarding, contracts, storage, profiles, mails>>

----------------------------------------------------------------------------
(* Other components *)

\* ConfirmAndSign by the client's signer, the only one.  The proposal link
\* leads to the signature page as soon as the signer exists.
Sign(g) ==
    /\ Deliverable(g)
    /\ contracts[g].status \in {"generated", "sent"}
    /\ contracts' = [contracts EXCEPT ![g].status = "signed"]
    /\ UNCHANGED <<onboarding, storage, profiles, mails, requests, failures>>

\* Store.SoftDeleteCascade, the rows of this component: outbox rows that name
\* a contract are cancelled, the others are marked.
SoftDelete ==
    /\ ~onboarding.deleted
    /\ onboarding' = [onboarding EXCEPT !.deleted = TRUE]
    /\ contracts' = [g \in Generations |->
          IF Exists(g)
          THEN [contracts[g] EXCEPT !.deleted = TRUE,
                                    !.signer = IF @ = "live" THEN "deleted" ELSE @]
          ELSE contracts[g]]
    /\ mails' = [g \in Generations |->
          IF mails[g] = "queued" /\ Exists(g) THEN "cancelled" ELSE mails[g]]
    /\ UNCHANGED <<storage, profiles, requests, failures>>

----------------------------------------------------------------------------

Generate(r) ==
    Load(r) \/ PutPDF(r) \/ CreateContract(r) \/ UndoPut(r) \/ AddSigner(r) \/ ReadToken(r)
        \/ DeleteRow(r) \/ DeletePDF(r)

Proceed(r) ==
    AutoApprove(r) \/ Lookup(r) \/ Generate(r) \/ EnsureProfile(r)
        \/ EnqueueSignatureMail(r) \/ MarkSent(r)

Failure(r) == CreateFails(r) \/ SignerFails(r) \/ DeleteRowFails(r) \/ Interrupt(r)

Next ==
    \/ \E d \in Data : Save(d)
    \/ Submit
    \/ \E status \in {"under_review", "correction_requested", "approved"} : Review(status)
    \/ \E r \in Requests : Enter(r) \/ Retry(r) \/ Proceed(r) \/ Failure(r)
    \/ \E g \in Generations : Sign(g)
    \/ SoftDelete

\* A request that is being served keeps running.  That customers come back
\* and operators retry is never assumed here, only inside a property.
Spec == Init /\ [][Next]_vars /\ \A r \in Requests : WF_vars(Proceed(r))

----------------------------------------------------------------------------
(* Safety *)

\* A contract, removed or not, is always of the approved data it was rendered
\* from: no review or save slips in between reading the data (Load) and
\* inserting the contract (CreateContract), nor after it.
ContractMatchesData ==
    \A g \in Generations : Exists(g) =>
        onboarding.status = "approved" /\ contracts[g].data = onboarding.data

\* Requests racing through the generator leave one contract at most, and a
\* sent one has its activation profile and its e-mail in the outbox.
OneContract == \A g, h \in Generations : Exists(g) /\ Exists(h) => g = h
SentIsAnnounced ==
    \A g \in Generations : contracts[g].status = "sent" =>
        /\ g \in profiles
        /\ mails[g] # "none"
        /\ contracts[g].signer # "none"
DeliverySound == OneContract /\ SentIsAnnounced

\* Both at once, whatever the requests racing through the generator are at.
ContractSound == TypeOK /\ ContractMatchesData /\ DeliverySound

\* No late request takes a signature back: what is signed stays signed, with
\* the same data (MarkSent and the cleanup of another request).
SignedStays ==
    [][\A g \in Generations : contracts[g].status = "signed" =>
          /\ contracts'[g].status = "signed"
          /\ contracts'[g].data = contracts[g].data]_vars

\* However the requests race, the approved data are the text of one contract,
\* which is sent and signed as Agreement has it: nothing is sent after the
\* removal, nothing that was withdrawn is signed, and no cleanup of another
\* request discards what was sent or signed.
Approved == IF onboarding.status = "approved" THEN {onboarding.data} ELSE {}
Paper(g) == [text |-> contracts[g].data, withdrawn |-> contracts[g].deleted,
             status |-> IF contracts[g].status = "generated" THEN "drawn" ELSE contracts[g].status]
Papers == {Paper(g) : g \in {h \in Generations : Exists(h)}}
Agreed == INSTANCE Agreement WITH
    Texts <- Data, text <- Approved, contract <- Papers, over <- onboarding.deleted
ImplementsAgreement == Agreed!Spec

\* Retries complete the delivery: while no contract is left without signer and
\* requests keep looking the contract up, an approved onboarding that is not
\* removed ends with a contract out for signature.
BareContract(g) == Exists(g) /\ contracts[g].signer = "none"
InProgress(r) == At(r, "signer") \/ At(r, "delete_row")
Abandoned(g) ==
    BareContract(g) /\ \A r \in Requests : ~(InProgress(r) /\ requests[r].gen = g)
Awaiting == onboarding.status = "approved" /\ ~onboarding.deleted
Delivered == \E g \in Generations : contracts[g].status \in {"sent", "signed"}
Looked == \E r \in Requests : At(r, "lookup")
RetriesDeliver ==
    ([]<>Looked /\ [](\A g \in Generations : ~Abandoned(g))) =>
        (Awaiting ~> (Delivered \/ onboarding.deleted))

=============================================================================
