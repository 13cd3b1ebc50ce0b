----------------------------- MODULE Onboarding -----------------------------
(***************************************************************************)
(* The registration of one customer after the acceptance: the contracting  *)
(* data in two sections, the insurance policy, the submission, the review  *)
(* and the correction the reviewer may ask for, and the links by which the *)
(* customer comes back.                                                    *)
(*                                                                         *)
(* Every handler reads the whole row first (currentOnboarding) and the     *)
(* transactions are serializable with the row locked, so each is one step. *)
(* What follows the approval, the contract, is ContractDelivery's.         *)
(***************************************************************************)
EXTENDS Naturals, FiniteSets

CONSTANTS
    Requests,       \* requests that may be under way at once
    Values,         \* what a section may be filled in with
    Documents,      \* uploads that may happen
    MaxCorrections, \* bound: corrections asked for
    Nothing         \* a section not filled in, no document

ASSUME OnboardingAssumption ==
    MaxCorrections \in Nat /\ Nothing \notin Values \cup Documents

VARIABLES
    status,         \* of the onboarding
    required,       \* requires_policy of the accepted version: insurance and policy are asked for
    row,            \* company and insurance data in it
    removed,        \* the proposal with all that belongs to it was removed
    session,        \* the customer has a live session
    documents,      \* uploaded_documents: state of each upload's row
    stored,         \* objects in the storage
    links,          \* state of the correction link of each correction
    asked,          \* corrections asked for
    mailed,         \* correction links enqueued
    requests,
    saved,          \* history: what was posted last for each section
    overtaken,      \* history: a save wrote back a row that was not the latest
    cut             \* history: a request ended early or the answer to a COMMIT was lost

uploads == <<documents, stored>>
corrections == <<links, asked, mailed>>
history == <<saved, overtaken, cut>>
vars == <<status, required, row, removed, session, uploads, corrections, requests, history>>

Sections == {"company", "insurance"}
Blank == [s \in Sections |-> Nothing]
Rows == [Sections -> Values \cup {Nothing}]
Editable == {"pending", "in_progress", "correction_requested"}
Locked == {"submitted", "under_review", "approved"}
Corrections == 1 .. MaxCorrections
Steps == {"idle", "save", "put", "add", "drop", "submit", "notify", "approve",
          "link", "mail", "check", "session"}

TypeOK ==
    /\ status \in Editable \cup Locked /\ required \in BOOLEAN
    /\ row \in Rows /\ saved \in Rows
    /\ removed \in BOOLEAN /\ session \in BOOLEAN
    /\ documents \in [Documents -> {"none", "uploaded", "superseded", "deleted"}]
    /\ stored \subseteq Documents
    /\ links \in [Corrections -> {"none", "live", "used", "revoked"}]
    /\ asked \in 0 .. MaxCorrections /\ mailed \subseteq Corrections
    /\ requests \in [Requests -> [step : Steps, row : Rows, posted : SUBSET Sections, stale : BOOLEAN,
                                  document : Documents \cup {Nothing}, link : {0} \cup Corrections]]
    /\ overtaken \in BOOLEAN /\ cut \in BOOLEAN

Idle == [step |-> "idle", row |-> Blank, posted |-> {}, stale |-> FALSE, document |-> Nothing, link |-> 0]

\* The acceptance creates the row and a session. It takes over the company, the
\* responsible and what the client has of an address, which may be all that the
\* section asks for.
Prefilled(v) == [Blank EXCEPT !["company"] = v]
Init ==
    /\ status = "pending" /\ required \in BOOLEAN
    /\ \E v \in Values \cup {Nothing} : row = Prefilled(v)
    /\ saved = row
    /\ removed = FALSE /\ session = TRUE
    /\ documents = [d \in Documents |-> "none"] /\ stored = {}
    /\ links = [c \in Corrections |-> "none"] /\ asked = 0 /\ mailed = {}
    /\ requests = [r \in Requests |-> Idle]
    /\ overtaken = FALSE /\ cut = FALSE

----------------------------------------------------------------------------
(* Helpers *)

At(r, step) == requests[r].step = step
Go(r, step) == requests' = [requests EXCEPT ![r].step = step]
Begin(r, request) == At(r, "idle") /\ requests' = [requests EXCEPT ![r] = request]
End(r) == requests' = [requests EXCEPT ![r] = Idle]
Customer == session /\ ~removed         \* currentOnboarding finds the row

----------------------------------------------------------------------------
(* saveOnboardingCompany, saveOnboardingInsurance, saveOnboarding *)

\* Without requires_policy the insurance has no form of its own, and the form of
\* the whole clears it.
Forms == {S \in SUBSET Sections \ {{}} : S = {"insurance"} => required}
Entered(s, v) == IF s = "insurance" /\ ~required THEN Nothing ELSE v
NotRead == Blank                                            \* mutant: the form alone is written
AsRead == row
StartSave(r) ==
    /\ Customer
    /\ \E S \in Forms, v \in Values :
          Begin(r, [Idle EXCEPT !.step = "save", !.posted = S,
                        !.row = [s \in Sections |-> IF s \in S THEN Entered(s, v) ELSE AsRead[s]]])
    /\ UNCHANGED <<status, required, row, removed, session, uploads, corrections, history>>

SavableAlways == ~removed                                   \* mutant
Savable == ~removed /\ status \in Editable
Touched == IF status = "pending" THEN "in_progress" ELSE status
Save(r) ==
    /\ At(r, "save")
    /\ IF Savable
       THEN /\ row' = requests[r].row
            /\ status' = Touched
            /\ saved' = [s \in Sections |-> IF s \in requests[r].posted THEN requests[r].row[s] ELSE saved[s]]
            /\ overtaken' = (overtaken \/ requests[r].stale)
            /\ requests' = [q \in Requests |-> IF q = r THEN Idle
                                ELSE [requests[q] EXCEPT !.stale = @ \/ requests[q].step = "save"]]
       ELSE /\ End(r)
            /\ UNCHANGED <<status, row, saved, overtaken>>
    /\ UNCHANGED <<required, removed, session, uploads, corrections, cut>>

----------------------------------------------------------------------------
(* uploadOnboardingDocument and uploadActivationPolicy: Put, AddDocument,   *)
(* and Delete when AddDocument fails.                                       *)

\* From the registration, or after the approval by the link of the activation; no
\* policy is taken where none is required.
StartUpload(r) ==
    /\ required
    /\ \/ Customer /\ status \in Editable
       \/ ~removed /\ status = "approved"
    /\ \E d \in Documents :
          /\ documents[d] = "none" /\ d \notin stored
          /\ \A q \in Requests : requests[q].document # d
          /\ Begin(r, [Idle EXCEPT !.step = "put", !.document = d])
    /\ UNCHANGED <<status, required, row, removed, session, uploads, corrections, history>>

Put(r) ==
    /\ At(r, "put")
    /\ stored' = stored \cup {requests[r].document}
    /\ Go(r, "add")
    /\ UNCHANGED <<status, required, row, removed, session, documents, corrections, history>>

Superseded == [d \in Documents |-> IF documents[d] = "uploaded" THEN "superseded" ELSE documents[d]]
Uploadable == ~removed /\ status \in Editable \cup {"approved"}
\* The answer to the COMMIT may be lost: then the object is deleted as well.
AddDocument(r) ==
    /\ At(r, "add")
    /\ \/ /\ Uploadable
          /\ documents' = [Superseded EXCEPT ![requests[r].document] = "uploaded"]
          /\ \/ End(r) /\ UNCHANGED cut
             \/ Go(r, "drop") /\ cut' = TRUE
       \/ /\ ~Uploadable
          /\ Go(r, "drop")
          /\ UNCHANGED <<documents, cut>>
    /\ UNCHANGED <<status, required, row, removed, session, stored, corrections, saved, overtaken>>

Dropped(r) == stored \ {requests[r].document}
DropObject(r) ==
    /\ At(r, "drop")
    /\ stored' = Dropped(r)
    /\ End(r)
    /\ UNCHANGED <<status, required, row, removed, session, documents, corrections, history>>

----------------------------------------------------------------------------
(* submitOnboarding, and continueOnboardingContract as far as AutoApprove *)

\* validateOnboarding
Asked == IF required THEN Sections ELSE {"company"}
Complete(data) == \A s \in Asked : data[s] # Nothing
StartSubmit(r) ==
    /\ Customer
    /\ Complete(row)
    /\ Begin(r, [Idle EXCEPT !.step = "submit"])
    /\ UNCHANGED <<status, required, row, removed, session, uploads, corrections, history>>

\* The statement looks at the insurance again, not at the whole address.
SubmittableUnchecked == ~removed /\ status \in Editable     \* mutant
Submittable == ~removed /\ status \in Editable /\ (required => row["insurance"] # Nothing)
NotContinued == "idle"                                      \* mutant
AfterSubmit == "approve"
Submit(r) ==
    /\ At(r, "submit")
    /\ IF Submittable
       THEN status' = "submitted" /\ Go(r, AfterSubmit)
       ELSE End(r) /\ UNCHANGED status
    /\ UNCHANGED <<required, row, removed, session, uploads, corrections, history>>

AutoApprove(r) ==
    /\ At(r, "approve")
    /\ status' = IF status = "submitted" /\ ~removed THEN "approved" ELSE status
    /\ End(r)
    /\ UNCHANGED <<required, row, removed, session, uploads, corrections, history>>

\* onboardingPage, and the public link of the proposal, which also starts a
\* session, when they find the onboarding submitted.
StartResume(r) ==
    /\ ~removed
    /\ Begin(r, [Idle EXCEPT !.step = IF status = "submitted" THEN "approve" ELSE "session"])
    /\ UNCHANGED <<status, required, row, removed, session, uploads, corrections, history>>

StartSession(r) ==
    /\ At(r, "session")
    /\ session' = TRUE
    /\ End(r)
    /\ UNCHANGED <<status, required, row, removed, uploads, corrections, history>>

SessionExpires ==
    /\ session
    /\ session' = FALSE
    /\ UNCHANGED <<status, required, row, removed, uploads, corrections, requests, history>>

----------------------------------------------------------------------------
(* reviewOnboarding, sendOnboardingCorrection *)

Reviewable == {"submitted", "under_review"}
Review ==
    /\ ~removed
    /\ \/ status \in Reviewable /\ status' = "under_review"
       \/ status \in Reviewable \cup {"approved"} /\ status' = "approved"
    /\ UNCHANGED <<required, row, removed, session, uploads, corrections, requests, history>>

\* No contract stands in the way: it is made for an approved onboarding only.
RequestCorrection(r) ==
    /\ ~removed /\ asked < MaxCorrections
    /\ status \in Reviewable
    /\ status' = "correction_requested"
    /\ asked' = asked + 1
    /\ Begin(r, [Idle EXCEPT !.step = "link", !.link = asked + 1])
    /\ UNCHANGED <<required, row, removed, session, uploads, links, mailed, history>>

CreateCustomerResumeToken(r) ==
    /\ At(r, "link")
    /\ links' = [links EXCEPT ![requests[r].link] = "live"]
    /\ Go(r, "mail")
    /\ UNCHANGED <<status, required, row, removed, session, uploads, asked, mailed, history>>

MailLink(r) ==
    /\ At(r, "mail")
    /\ mailed' = mailed \cup {requests[r].link}
    /\ End(r)
    /\ UNCHANGED <<status, required, row, removed, session, uploads, links, asked, history>>

\* resumeOnboarding: the token is used up before the status is looked at.
Consumed(c) == [links EXCEPT ![c] = "used"]
ConsumeCustomerResumeToken(r) ==
    /\ ~removed
    /\ \E c \in mailed :
          /\ links[c] = "live"
          /\ links' = Consumed(c)
          /\ Begin(r, [Idle EXCEPT !.step = "check", !.link = c])
    /\ UNCHANGED <<status, required, row, removed, session, uploads, asked, mailed, history>>

CheckCorrection(r) ==
    /\ At(r, "check")
    /\ IF status = "correction_requested" /\ ~removed THEN Go(r, "session") ELSE End(r)
    /\ UNCHANGED <<status, required, row, removed, session, uploads, corrections, history>>

----------------------------------------------------------------------------

Remove ==
    /\ ~removed
    /\ removed' = TRUE
    /\ session' = FALSE
    /\ documents' = [d \in Documents |-> IF documents[d] = "none" THEN "none" ELSE "deleted"]
    /\ links' = [c \in Corrections |-> IF links[c] = "live" THEN "revoked" ELSE links[c]]
    /\ UNCHANGED <<status, required, row, stored, asked, mailed, requests, history>>

\* A statement or a call fails, or the process stops.
EndEarly(r) ==
    /\ ~At(r, "idle")
    /\ cut' = TRUE
    /\ End(r)
    /\ UNCHANGED <<status, required, row, removed, session, uploads, corrections, saved, overtaken>>

Continue(r) == Save(r) \/ Put(r) \/ AddDocument(r) \/ DropObject(r) \/ Submit(r) \/ AutoApprove(r)
                  \/ StartSession(r) \/ CreateCustomerResumeToken(r) \/ MailLink(r) \/ CheckCorrection(r)
Start(r) == StartSave(r) \/ StartUpload(r) \/ StartSubmit(r) \/ StartResume(r) \/ RequestCorrection(r)
               \/ ConsumeCustomerResumeToken(r)

Next ==
    \/ \E r \in Requests : Start(r) \/ Continue(r) \/ EndEarly(r)
    \/ Review \/ SessionExpires \/ Remove

\* A handler goes on once it has begun.
Spec == Init /\ [][Next]_vars /\ \A r \in Requests : WF_vars(Continue(r))

----------------------------------------------------------------------------
(* Properties *)

\* Each section holds what was saved last for it, unless a save wrote back a
\* row that another save had changed since it was read: two tabs lose an update
\* only by overlapping.
SavesAreKept == overtaken \/ row = saved

\* What goes into the contract is complete: the insurance whenever the accepted
\* version requires a policy, whatever was saved between the check and the
\* submission; the company's data unless such a save undid them there.
SubmittedIsComplete ==
    status \in Locked => (required => row["insurance"] # Nothing) /\ (overtaken \/ Complete(row))

Recorded == {d \in Documents : documents[d] # "none"}

\* Where no policy is required no insurer and no policy get in, not even by a
\* save that writes back an older row.
NothingUnasked == ~required => row["insurance"] = Nothing /\ Recorded = {}

\* What was submitted changes only after a correction was asked for, and an
\* approval is final.
SubmittedIsFrozen ==
    [][/\ status \in Locked /\ status' \in Locked => row' = row
       /\ status = "approved" => status' = "approved"]_vars

\* Of the policies uploaded exactly one is current, and none once removed.
OneCurrentPolicy ==
    LET current == {d \in Documents : documents[d] = "uploaded"}
    IN Cardinality(current) = IF Recorded = {} \/ removed THEN 0 ELSE 1

\* As long as nothing fails, what is recorded is stored, also after the removal,
\* and nothing else when no request is under way.
StorageMatches ==
    ~cut => /\ Recorded \subseteq stored
            /\ (\A r \in Requests : At(r, "idle")) => stored = Recorded

\* Every correction asked for is mailed with a link of its own, and whoever
\* follows one has used it up.
LinksSound ==
    /\ ~cut /\ (\A r \in Requests : At(r, "idle")) => mailed = 1 .. asked
    /\ \A r \in Requests : At(r, "check") => links[requests[r].link] = "used"

\* Row, documents, storage and links of one registration agree, whatever its
\* tabs, uploads, reviews and visits are at.
RegistrationSound ==
    TypeOK /\ SubmittedIsComplete /\ NothingUnasked /\ OneCurrentPolicy /\ StorageMatches /\ LinksSound

\* A submission is approved or reviewed.
SubmissionIsSettled == (status = "submitted") ~> (status # "submitted" \/ removed \/ cut)

=============================================================================
