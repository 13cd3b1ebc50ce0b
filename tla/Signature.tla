----------------------------- MODULE Signature -----------------------------
(***************************************************************************)
(* Signing a delivered contract with one-time codes: the customer asks for *)
(* codes (sendSignatureOTP), gets them by e-mail and enters one            *)
(* (ConfirmAndSign).  A contract has one signer.                           *)
(*                                                                         *)
(* The mails are those of Mailbox, which Outbox implements.  A request is  *)
(* several statements; other requests, the mails and the removal of the    *)
(* proposal go on between them.  Codes are numbered in the order in which  *)
(* CreateChallenge commits them; the number stands for the code, its hash  *)
(* and its mail.                                                           *)
(***************************************************************************)
EXTENDS Naturals, FiniteSets

CONSTANTS
    Requests,       \* requests for a code that may be under way at once
    MaxCodes,       \* bound: codes issued
    MaxWrong,       \* attempts >= 5 in ConfirmAndSign
    MaxRecent,      \* recent >= 3 in sendSignatureOTP
    MaxFailures     \* bound: requests that end early

ASSUME SignatureAssumption ==
    MaxCodes \in Nat /\ MaxWrong \in Nat /\ MaxRecent \in Nat /\ MaxFailures \in Nat

VARIABLES
    signer,         \* status of the signer and so of the contract
    removed,        \* the proposal with all that belongs to it was removed
    issued,         \* codes issued so far
    challenges,     \* signature_challenges, and the wrong entries of each
    expired,        \* codes older than 10 minutes
    identities,     \* pending rows of identity_verifications
    requests,       \* step of each request, and its code
    box, arrived,   \* the mails
    failures,       \* requests that ended early so far
    disturbed       \* history: requests overlapped, or one ended early

mail == <<box, arrived>>
signatureVars == <<signer, removed, issued, challenges, expired, identities, requests, mail, failures, disturbed>>

Codes == 1 .. MaxCodes
Wrong == 0          \* a number that is no code, and no code
Steps == {"idle", "throttle", "create", "replace", "enqueue"}

Mail == INSTANCE Mailbox WITH Messages <- Codes, Perishable <- Codes

SignatureTypeOK ==
    /\ signer \in {"pending", "otp_sent", "signed"}
    /\ removed \in BOOLEAN
    /\ issued \in {Wrong} \cup Codes
    /\ challenges \in [Codes -> [state : {"none", "live", "deleted", "verified"}, wrong : 0 .. MaxWrong]]
    /\ expired \subseteq Codes
    /\ identities \in 0 .. MaxCodes
    /\ requests \in [Requests -> [step : Steps, code : {Wrong} \cup Codes]]
    /\ box \in [Codes -> Mail!Fates]
    /\ arrived \subseteq Codes
    /\ failures \in 0 .. MaxFailures
    /\ disturbed \in BOOLEAN

Idle == [step |-> "idle", code |-> Wrong]

SignatureInit ==
    /\ signer = "pending" /\ removed = FALSE
    /\ issued = 0
    /\ challenges = [c \in Codes |-> [state |-> "none", wrong |-> 0]]
    /\ expired = {}
    /\ identities = 0
    /\ requests = [r \in Requests |-> Idle]
    /\ Mail!Init
    /\ failures = 0
    /\ disturbed = FALSE

At(r, step) == requests[r].step = step
Go(r, step) == requests' = [requests EXCEPT ![r].step = step]
End(r) == requests' = [requests EXCEPT ![r] = Idle]
NoneUnderWay == \A r \in Requests : At(r, "idle")
InState(state) == {c \in Codes : challenges[c].state = state}
LiveCodes == InState("live")
Posted == {c \in Codes : box[c] = "posted"}

----------------------------------------------------------------------------
(* sendSignatureOTP *)

Ask(r) ==
    /\ At(r, "idle")
    /\ ~removed /\ signer # "signed"
    /\ Go(r, "throttle")
    /\ disturbed' = (disturbed \/ ~NoneUnderWay)
    /\ UNCHANGED <<signer, removed, issued, challenges, expired, identities, mail, failures>>

\* Counts the challenges of the last 10 minutes that are there.
Recent == (LiveCodes \cup InState("verified")) \ expired
CheckThrottle(r) ==
    /\ At(r, "throttle")
    /\ IF Cardinality(Recent) >= MaxRecent THEN End(r) ELSE Go(r, "create")
    /\ UNCHANGED <<signer, removed, issued, challenges, expired, identities, mail, failures, disturbed>>

\* CreateChallenge: unverified challenges are deleted, the new one is added.
MayIssueIfUnsigned == signer \in {"pending", "otp_sent"}    \* mutant
MayIssue == ~removed /\ signer \in {"pending", "otp_sent"}
NothingDeleted == challenges                            \* mutant
OthersDeleted ==
    [c \in Codes |-> IF c \in LiveCodes THEN [challenges[c] EXCEPT !.state = "deleted"] ELSE challenges[c]]
CreateChallenge(r) ==
    /\ At(r, "create")
    /\ issued < MaxCodes
    /\ IF MayIssue
       THEN /\ issued' = issued + 1
            /\ challenges' = [OthersDeleted EXCEPT ![issued'].state = "live"]
            /\ signer' = "otp_sent"
            /\ identities' = identities + 1
            /\ requests' = [requests EXCEPT ![r] = [step |-> "replace", code |-> issued']]
       ELSE End(r) /\ UNCHANGED <<signer, issued, challenges, identities>>
    /\ UNCHANGED <<removed, expired, mail, failures, disturbed>>

\* Every mail of the signer that still waits, whichever code it carries.
Replaced == Posted
ReplaceMails(r) ==
    /\ At(r, "replace")
    /\ Mail!Drop(Replaced)
    /\ Go(r, "enqueue")
    /\ UNCHANGED <<signer, removed, issued, challenges, expired, identities, failures, disturbed>>

\* The dedupe key has the time, so no two codes share one.
PostOnce(code) ==       \* mutant: a key of the signer alone
    IF \A c \in Codes : box[c] = "none" THEN Mail!Post(code) ELSE UNCHANGED mail
PostMail(code) == Mail!Post(code)
EnqueueMail(r) ==
    /\ At(r, "enqueue")
    /\ PostMail(requests[r].code)
    /\ End(r)
    /\ UNCHANGED <<signer, removed, issued, challenges, expired, identities, failures, disturbed>>

Handle(r) == CheckThrottle(r) \/ CreateChallenge(r) \/ ReplaceMails(r) \/ EnqueueMail(r)

\* A statement fails or the process stops.  (The replacement's own error is
\* not looked at, so the mail may follow although the others still wait.)
EndEarly(r) ==
    /\ ~At(r, "idle")
    /\ failures < MaxFailures /\ failures' = failures + 1
    /\ disturbed' = TRUE
    /\ End(r) \/ (At(r, "replace") /\ Go(r, "enqueue"))
    /\ UNCHANGED <<signer, removed, issued, challenges, expired, identities, mail>>

----------------------------------------------------------------------------
(* The customer, the mails, the superadmin and time *)

\* ConfirmAndSign, with a code of a mail or a wrong number.
Selected == {c \in LiveCodes \ expired : \A d \in LiveCodes \ expired : d <= c}
Matches(c, entry) == entry = c
MayTry(c) == challenges[c].wrong < MaxWrong
Confirm(entry) ==
    /\ ~removed /\ signer # "signed"
    /\ \E c \in Selected :
          /\ MayTry(c)
          /\ IF Matches(c, entry)
             THEN /\ identities > 0
                  /\ challenges' = [challenges EXCEPT ![c].state = "verified"]
                  /\ identities' = identities - 1
                  /\ signer' = "signed"
             ELSE /\ challenges' = [challenges EXCEPT ![c].wrong = @ + 1]
                  /\ UNCHANGED <<identities, signer>>
    /\ UNCHANGED <<removed, issued, expired, requests, mail, failures, disturbed>>

\* The outbox: a copy arrives, the mail is marked, or dropped when too old.
Arrive(c) == c \in Posted \ arrived /\ Mail!Arrive(c)
ArriveLate(c) == box[c] = "dropped" /\ c \notin arrived /\ Mail!Arrive(c)
Settle(c) == Mail!MarkSent(c) \/ (c \in expired /\ Mail!Drop({c}))
Notify(c) ==
    /\ Arrive(c) \/ ArriveLate(c) \/ Settle(c)
    /\ UNCHANGED <<signer, removed, issued, challenges, expired, identities, requests, failures, disturbed>>
Deliver(c) == (Arrive(c) \/ Settle(c)) /\ Notify(c)

CodeExpires(c) ==
    /\ c <= issued /\ c \notin expired
    /\ expired' = expired \cup {c}
    /\ UNCHANGED <<signer, removed, issued, challenges, identities, requests, mail, failures, disturbed>>

\* SoftDeleteCascade.  It cancels mails that name a proposal, acceptance,
\* onboarding, contract or activation; those of codes name the signer.
Remove ==
    /\ ~removed /\ removed' = TRUE
    /\ UNCHANGED <<signer, issued, challenges, expired, identities, requests, mail, failures, disturbed>>

----------------------------------------------------------------------------

SignatureNext ==
    \/ \E r \in Requests : Ask(r) \/ Handle(r) \/ EndEarly(r)
    \/ \E entry \in arrived \cup {Wrong} : Confirm(entry)
    \/ \E c \in Codes : Notify(c) \/ CodeExpires(c)
    \/ Remove

\* A handler that runs goes on; the worker delivers what is posted, as long as
\* a mail fails less often than it is tried (Outbox!EveryMessageSettles).
Fairness ==
    /\ \A r \in Requests : WF_signatureVars(Handle(r))
    /\ \A c \in Codes : WF_signatureVars(Deliver(c))

SignatureSpec == SignatureInit /\ [][SignatureNext]_signatureVars /\ Fairness

----------------------------------------------------------------------------
(* Properties *)

\* However requests overlap, at most one code is good for signing, none once
\* the contract is signed, and the identity row that signing it takes is there.
LiveCodeSound ==
    /\ Cardinality(LiveCodes) <= 1
    /\ signer = "signed" => LiveCodes = {}
    /\ LiveCodes # {} => identities > 0

\* A contract is signed with the last code ever issued: an older one, or one
\* issued to a request that was under way, neither signs nor stays open.
SignedByLastCode ==
    /\ (signer = "signed") <=> (InState("verified") # {})
    /\ InState("verified") \subseteq {issued} \cap arrived

\* A request or an entry that began before the removal changes nothing after.
RemovedIsClosed == [][removed => UNCHANGED <<signer, issued, challenges, identities>>]_signatureVars

\* As long as requests follow one another and none is cut short, the mail of
\* the good code is not lost to a replacement and no waiting mail carries
\* another (ReplaceMails is a statement of its own: a request that was
\* overtaken before it withdraws the mail of the newer code).
LiveCodeIsMailed ==
    (NoneUnderWay /\ ~disturbed) =>
        /\ \A c \in LiveCodes \ expired : box[c] \in {"posted", "sent"}
        /\ Posted \subseteq {issued} \cup expired

\* Whoever asks, enters or is mailed what at the same time: one code is good,
\* it is the one that signs, and its mail is the one that is under way.
CodesSound == SignatureTypeOK /\ LiveCodeSound /\ SignedByLastCode /\ LiveCodeIsMailed

\* Such a code reaches the customer, or is of no use any more.
LiveCodeArrives ==
    \A c \in Codes :
        (c \in LiveCodes) ~> (c \in arrived \/ c \in expired \/ c \notin LiveCodes \/ disturbed)

=============================================================================
