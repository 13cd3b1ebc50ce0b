----------------------------- MODULE Activation -----------------------------
(***************************************************************************)
(* The preparation of one customer's operation: the owner and those whom   *)
(* the owner delegates to fill in the data by links, the contract is       *)
(* signed meanwhile, and when both are done the internal setup begins.     *)
(*                                                                         *)
(* Save and Submit are serializable transactions that lock their rows, so  *)
(* each is one step; a request is several such steps, others and the       *)
(* removal of the proposal come between them.  EnsureForContract, which    *)
(* the code after a signature calls twice in a row, is idempotent and      *)
(* taken once.                                                             *)
(***************************************************************************)
EXTENDS FiniteSets

CONSTANTS
    Requests,       \* requests that may be under way at once
    Tokens,         \* access tokens that may be issued
    Delegated,      \* sections the owner delegates
    RequiresPolicy, \* requires_policy of the accepted version
    Legacy,         \* sections an older onboarding has data for
    Nobody          \* no author, no token

Sections == {"finance", "goods", "users"}
ASSUME ActivationAssumption ==
    /\ Delegated \subseteq Sections \cup {"all"}
    /\ RequiresPolicy \in BOOLEAN
    /\ Legacy \subseteq Sections
    /\ Nobody \notin Tokens \cup {"legacy"}
    /\ "legacy" \notin Tokens

VARIABLES
    signed,         \* the contract is fully signed
    removed,        \* the proposal with all that belongs to it was removed
    status,         \* of the activation profile, "none" before it is there
    data,           \* who filled in each section last
    policy,         \* a current insurance policy is on file
    tokens,         \* activation_access_tokens
    mail,           \* the message activation-completed:ID
    notice,         \* the in-app notification activation.action-required:ID
    requests,
    cut,            \* history: a request ended early
    late,           \* history: a notice came when the setup had begun
    caught          \* history: the removal came between recipient and message

profile == <<status, data>>
told == <<mail, notice>>
history == <<cut, late, caught>>
vars == <<signed, removed, profile, policy, tokens, told, requests, history>>

Statuses == {"none", "pending", "in_progress", "completed", "under_internal_setup", "activated"}
Submitted == {"completed", "under_internal_setup", "activated"}
Setup == {"under_internal_setup", "activated"}
Steps == {"idle", "save", "submit", "upload", "delegate", "ensure", "issue",
          "ready", "mail", "enqueue", "notice", "insert", "settle"}
NoToken == [type |-> "none", section |-> "all", live |-> FALSE]

TypeOK ==
    /\ signed \in BOOLEAN /\ removed \in BOOLEAN /\ policy \in BOOLEAN
    /\ status \in Statuses
    /\ data \in [Sections -> Tokens \cup {"legacy", Nobody}]
    /\ tokens \in [Tokens -> [type : {"none", "owner", "delegate"}, section : Sections \cup {"all"},
                              live : BOOLEAN]]
    /\ mail \in {"none", "queued", "cancelled"}
    /\ notice \in {"none", "unread", "read", "hidden"}
    /\ requests \in [Requests -> [step : Steps, token : Tokens \cup {Nobody}, section : Sections \cup {"all"},
                                  signing : BOOLEAN]]
    /\ cut \in BOOLEAN /\ late \in BOOLEAN /\ caught \in BOOLEAN
    /\ status \in {"none", "pending"} => \A s \in Sections : data[s] = Nobody

Idle == [step |-> "idle", token |-> Nobody, section |-> "all", signing |-> FALSE]

Init ==
    /\ signed = FALSE /\ removed = FALSE
    /\ status = "none"
    /\ data = [s \in Sections |-> Nobody]
    /\ policy \in {FALSE, RequiresPolicy}
    /\ tokens = [t \in Tokens |-> NoToken]
    /\ mail = "none" /\ notice = "none"
    /\ requests = [r \in Requests |-> Idle]
    /\ cut = FALSE /\ late = FALSE /\ caught = FALSE

----------------------------------------------------------------------------
(* Helpers *)

At(r, step) == requests[r].step = step
Go(r, step) == requests' = [requests EXCEPT ![r].step = step]
Begin(r, request) == At(r, "idle") /\ requests' = [requests EXCEPT ![r] = request]
End(r) == requests' = [requests EXCEPT ![r] = Idle]

HasProfile == status # "none" /\ ~removed
Works(t) == tokens[t].live /\ HasProfile                    \* AccessByToken
Filled(s) == data[s] # Nobody

----------------------------------------------------------------------------
(* saveActivationSection *)

StartSave(r) ==
    /\ \E t \in Tokens, s \in Sections :
          /\ Works(t)
          /\ s = "goods" => RequiresPolicy
          /\ Begin(r, [Idle EXCEPT !.step = "save", !.token = t, !.section = s])
    /\ UNCHANGED <<signed, removed, profile, policy, tokens, told, history>>

SavableAlways(t, s) == Works(t) /\ tokens[t].section \in {"all", s}     \* mutant
Savable(t, s) == Works(t) /\ status \notin Submitted /\ tokens[t].section \in {"all", s}
Save(r) ==
    /\ At(r, "save")
    /\ LET t == requests[r].token
           s == requests[r].section
       IN IF Savable(t, s)
          THEN /\ data' = [data EXCEPT ![s] = t]
               /\ status' = IF status = "pending" THEN "in_progress" ELSE status
          ELSE UNCHANGED profile
    /\ End(r)
    /\ UNCHANGED <<signed, removed, policy, tokens, told, history>>

----------------------------------------------------------------------------
(* uploadActivationPolicy: the object is stored, then AddDocument *)

StartUpload(r) ==
    /\ RequiresPolicy
    /\ \E t \in Tokens :
          /\ Works(t) /\ tokens[t].section = "all" /\ status \notin Submitted
          /\ Begin(r, [Idle EXCEPT !.step = "upload", !.token = t])
    /\ UNCHANGED <<signed, removed, profile, policy, tokens, told, history>>

AddDocument(r) ==
    /\ At(r, "upload")
    /\ policy' = (policy \/ ~removed)
    /\ End(r)
    /\ UNCHANGED <<signed, removed, profile, tokens, told, history>>

\* One begun in the contracting pages before the onboarding was approved.
AddEarlierDocument ==
    /\ RequiresPolicy /\ ~removed
    /\ policy' = TRUE
    /\ UNCHANGED <<signed, removed, profile, tokens, told, requests, history>>

----------------------------------------------------------------------------
(* submitActivation *)

StartSubmit(r) ==
    /\ \E t \in Tokens : Works(t) /\ Begin(r, [Idle EXCEPT !.step = "submit", !.token = t])
    /\ UNCHANGED <<signed, removed, profile, policy, tokens, told, history>>

CompleteWithoutPolicy == Filled("finance") /\ Filled("users") /\ (RequiresPolicy => Filled("goods"))    \* mutant
Complete ==
    /\ Filled("finance") /\ Filled("users")
    /\ RequiresPolicy => Filled("goods") /\ policy

Submit(r) ==
    /\ At(r, "submit")
    /\ IF ~Works(requests[r].token) \/ (status \notin Submitted /\ ~Complete)
       THEN End(r) /\ UNCHANGED status
       ELSE /\ status' = IF status \in Submitted THEN status ELSE "completed"
            /\ requests' = [requests EXCEPT ![r] = [Idle EXCEPT !.step = "ready"]]
    /\ UNCHANGED <<signed, removed, data, policy, tokens, told, history>>

----------------------------------------------------------------------------
(* notifyActivationReadyIfEligible *)

ReadyForInternalSetup == HasProfile /\ status = "completed" /\ signed
CheckReady(r) ==
    /\ At(r, "ready")
    /\ IF ReadyForInternalSetup THEN Go(r, "mail") ELSE End(r)
    /\ UNCHANGED <<signed, removed, profile, policy, tokens, told, history>>

\* queueActivationCompletedNotification and publishActivationActionRequired
\* look the recipients up first; the event in between is not one that
\* IsSupportedEvent knows.
FindRecipient(r) ==
    /\ \/ At(r, "mail") /\ Go(r, IF removed THEN "notice" ELSE "enqueue")
       \/ At(r, "notice") /\ Go(r, IF removed THEN "idle" ELSE "insert")
    /\ UNCHANGED <<signed, removed, profile, policy, tokens, told, history>>

QueueMail(r) ==
    /\ At(r, "enqueue")
    /\ mail' = IF mail = "none" THEN "queued" ELSE mail
    /\ Go(r, "notice")
    /\ UNCHANGED <<signed, removed, profile, policy, tokens, notice, history>>

PublishNotice(r) ==
    /\ At(r, "insert")
    /\ notice' = IF notice = "none" THEN "unread" ELSE notice
    /\ late' = (late \/ (notice = "none" /\ status \in Setup))
    /\ End(r)
    /\ UNCHANGED <<signed, removed, profile, policy, tokens, mail, cut, caught>>

MarkRead ==
    /\ notice = "unread"
    /\ notice' = "read"
    /\ UNCHANGED <<signed, removed, profile, policy, tokens, mail, requests, history>>

----------------------------------------------------------------------------
(* EnsureForContract, issueActivationAccess, delegateActivation *)

StartIssue(r) ==
    /\ ~removed
    /\ Begin(r, [Idle EXCEPT !.step = "ensure"])
    /\ UNCHANGED <<signed, removed, profile, policy, tokens, told, history>>

SeededStatus == IF Legacy = {} THEN "pending" ELSE "in_progress"
AfterEnsureIssue(r) == "issue"                              \* mutant: readiness forgotten
AfterEnsure(r) == IF requests[r].signing THEN "ready" ELSE "issue"
EnsureForContract(r) ==
    /\ At(r, "ensure")
    /\ IF removed THEN End(r) /\ UNCHANGED profile
       ELSE /\ requests' = [requests EXCEPT ![r] =
                    [Idle EXCEPT !.step = AfterEnsure(r)]]
            /\ IF status # "none" THEN UNCHANGED profile
               ELSE /\ status' = SeededStatus
                    /\ data' = [s \in Sections |-> IF s \in Legacy THEN "legacy" ELSE Nobody]
    /\ UNCHANGED <<signed, removed, policy, tokens, told, history>>

\* A token is a fresh random number.
CreateAccessToken(r, type, section) ==
    /\ IF removed THEN UNCHANGED tokens
       ELSE \E t \in Tokens :
              /\ tokens[t] = NoToken
              /\ tokens' = [tokens EXCEPT ![t] = [type |-> type, section |-> section, live |-> TRUE]]
    /\ End(r)
    /\ UNCHANGED <<signed, removed, profile, policy, told, history>>

IssueOwnerAccess(r) == At(r, "issue") /\ CreateAccessToken(r, "owner", "all")

StartDelegate(r) ==
    /\ \E t \in Tokens, s \in Delegated :
          /\ Works(t) /\ tokens[t].type = "owner" /\ tokens[t].section = "all"
          /\ s = "goods" => RequiresPolicy
          /\ Begin(r, [Idle EXCEPT !.step = "delegate", !.token = t, !.section = s])
    /\ UNCHANGED <<signed, removed, profile, policy, tokens, told, history>>

Delegate(r) == At(r, "delegate") /\ CreateAccessToken(r, "delegate", requests[r].section)

Expire(t) ==
    /\ tokens[t].live
    /\ tokens' = [tokens EXCEPT ![t].live = FALSE]
    /\ UNCHANGED <<signed, removed, profile, policy, told, requests, history>>

----------------------------------------------------------------------------
(* confirmSignature, adminActivationStatus, SoftDeleteCascade *)

Sign(r) ==
    /\ ~signed /\ ~removed
    /\ signed' = TRUE
    /\ Begin(r, [Idle EXCEPT !.step = "ensure", !.signing = TRUE])
    /\ UNCHANGED <<removed, profile, policy, tokens, told, history>>

SettableUnsigned == HasProfile /\ status \in {"completed", "under_internal_setup"}      \* mutant
Settable == SettableUnsigned /\ signed
SetInternalStatus(r) ==
    /\ Settable
    /\ status' \in Setup
    /\ Begin(r, [Idle EXCEPT !.step = "settle"])
    /\ UNCHANGED <<signed, removed, data, policy, tokens, told, history>>

LeftUnread == notice                                        \* mutant
Settled == IF notice = "unread" THEN "read" ELSE notice
SettleNotice(r) ==
    /\ At(r, "settle")
    /\ notice' = Settled
    /\ End(r)
    /\ UNCHANGED <<signed, removed, profile, policy, tokens, mail, history>>

Cancelled == IF mail = "queued" THEN "cancelled" ELSE mail
Remove ==
    /\ ~removed
    /\ removed' = TRUE
    /\ tokens' = [t \in Tokens |-> [tokens[t] EXCEPT !.live = FALSE]]
    /\ policy' = FALSE
    /\ mail' = Cancelled
    /\ notice' = IF notice = "none" THEN notice ELSE "hidden"
    /\ caught' = \E r \in Requests : requests[r].step \in {"enqueue", "insert"}
    /\ UNCHANGED <<signed, profile, requests, cut, late>>

\* A statement fails or the process stops.
EndEarly(r) ==
    /\ ~At(r, "idle")
    /\ cut' = TRUE
    /\ End(r)
    /\ UNCHANGED <<signed, removed, profile, policy, tokens, told, late, caught>>

----------------------------------------------------------------------------

Start(r) == StartSave(r) \/ StartUpload(r) \/ StartSubmit(r) \/ StartIssue(r) \/ StartDelegate(r)
                \/ Sign(r) \/ SetInternalStatus(r)
Continue(r) == Save(r) \/ AddDocument(r) \/ Submit(r) \/ CheckReady(r) \/ FindRecipient(r) \/ QueueMail(r)
                \/ PublishNotice(r) \/ EnsureForContract(r) \/ IssueOwnerAccess(r) \/ Delegate(r)
                \/ SettleNotice(r)

Next ==
    \/ \E r \in Requests : Start(r) \/ Continue(r) \/ EndEarly(r)
    \/ \E t \in Tokens : Expire(t)
    \/ AddEarlierDocument \/ MarkRead \/ Remove

\* A handler goes on once it has begun; nothing makes anybody begin.
Fairness == \A r \in Requests : WF_vars(Continue(r))
Spec == Init /\ [][Next]_vars /\ Fairness

----------------------------------------------------------------------------
(* Properties *)

\* The internal setup has begun only for a customer who has signed and sent
\* complete data, the policy included, whoever was first.
SetupSound ==
    /\ status \in Submitted => Filled("finance") /\ Filled("users")
    /\ status \in Submitted /\ RequiresPolicy => Filled("goods") /\ (policy \/ removed)
    /\ status \in Setup => signed

\* What was sent is what the setup works with: no save that was under way
\* changes it, nor does the profile open again.
SubmittedIsFrozen == [][(status \in Submitted) => (status' \in Submitted /\ data' = data)]_vars

\* Nothing tells of an activation after its removal, unless a request had
\* looked the recipient up already.
QuietAfterRemoval == removed /\ ~caught => mail # "queued" /\ notice \in {"none", "hidden"}

\* Nobody is asked to act when the setup has begun and its requests are done,
\* unless the notice itself came too late to be marked as read.
NoticeIsTimely ==
    notice = "unread" /\ status \in Setup /\ (\A r \in Requests : At(r, "idle")) => cut \/ late

\* Both: what is told of an activation is told in time.
NoticesSound == QuietAfterRemoval /\ NoticeIsTimely

\* Signature and submission come from two requests that do not wait for each
\* other: whichever is last, the setup is announced.
ReadyIsAnnounced ==
    (status = "completed" /\ signed) ~> (mail = "queued" \/ status # "completed" \/ removed \/ cut)

\* To the two parties it is a handover.
Handed == INSTANCE Handover WITH
    data <- IF status \in Submitted THEN "complete" ELSE "open",
    phase <- CASE status = "under_internal_setup" -> "setup"
               [] status = "activated" -> "active"
               [] OTHER -> "waiting",
    announced <- mail # "none"
ImplementsHandover == Handed!Spec

=============================================================================
