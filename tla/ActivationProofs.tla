-------------------------- MODULE ActivationProofs --------------------------
(***************************************************************************)
(* Theorems of Activation, for any requests, tokens, delegations and       *)
(* earlier data: every safety property of the module, and that it          *)
(* implements Handover.                                                    *)
(*                                                                         *)
(* SetupSound is inductive together with the types, since data and status  *)
(* change under the lock of the profile. What is announced is not: a       *)
(* request has looked at the profile two statements before. The invariant  *)
(* says what it may still rely on: signature and submission are for good.  *)
(***************************************************************************)
EXTENDS Activation, TLAPS

USE ActivationAssumption

\* Whoever is about to send the message has seen both parties done.
AnnouncesInTime ==
    \A r \in Requests : requests[r].step \in {"mail", "enqueue"} => status \in Submitted /\ signed

\* Without having been caught nobody writes to a recipient who is gone.
NobodyTells ==
    removed /\ ~caught => /\ \A r \in Requests : requests[r].step \notin {"enqueue", "insert"}
                          /\ mail # "queued"
                          /\ notice \in {"none", "hidden"}

\* An unread notice of a setup that has begun is about to be settled.
IsSettling ==
    notice = "unread" /\ status \in Setup => cut \/ late \/ \E r \in Requests : At(r, "settle")

IInv == TypeOK /\ SetupSound /\ AnnouncesInTime /\ NobodyTells /\ IsSettling

RequestType == [step : Steps, token : Tokens \cup {Nobody}, section : Sections \cup {"all"},
                signing : BOOLEAN]
TokenType == [type : {"none", "owner", "delegate"}, section : Sections \cup {"all"}, live : BOOLEAN]

LEMMA IdleType == Idle \in RequestType
BY DEF Idle, RequestType, Steps

LEMMA InitIInv == Init => IInv
<1> SUFFICES ASSUME Init PROVE IInv
  OBVIOUS
<1>1. TypeOK
  <2>1. tokens \in [Tokens -> TokenType]
    BY DEF Init, NoToken, TokenType
  <2>2. requests \in [Requests -> RequestType]
    BY IdleType DEF Init
  <2> QED
    BY <2>1, <2>2 DEF Init, TypeOK, TokenType, RequestType, Statuses
<1>2. AnnouncesInTime /\ NobodyTells /\ IsSettling
  BY DEF Init, AnnouncesInTime, NobodyTells, IsSettling, Idle
<1>3. SetupSound
  BY DEF Init, SetupSound, Submitted, Setup
<1> QED
  BY <1>1, <1>2, <1>3 DEF IInv

----------------------------------------------------------------------------
(* What a step does to the requests: at most one goes on *)

\* Request r is at step from now on, the others are where they were.
Moves(r, step) ==
    /\ requests'[r].step = step
    /\ \A q \in Requests \ {r} : requests'[q] = requests[q]

LEMMA Ends ==
  ASSUME TypeOK, NEW r \in Requests, End(r)
  PROVE  requests' \in [Requests -> RequestType] /\ Moves(r, "idle")
BY IdleType DEF TypeOK, End, Moves, Idle, RequestType

LEMMA GoesOn ==
  ASSUME TypeOK, NEW r \in Requests, NEW step \in Steps, Go(r, step)
  PROVE  requests' \in [Requests -> RequestType] /\ Moves(r, step)
BY DEF TypeOK, Go, Moves, RequestType

LEMMA Becomes ==
  ASSUME TypeOK, NEW r \in Requests, NEW request \in RequestType,
         requests' = [requests EXCEPT ![r] = request]
  PROVE  requests' \in [Requests -> RequestType] /\ Moves(r, request.step)
BY DEF TypeOK, Moves, RequestType

LEMMA Begins ==
  ASSUME TypeOK, NEW r \in Requests, NEW request \in RequestType, Begin(r, request)
  PROVE  /\ requests' \in [Requests -> RequestType] /\ Moves(r, request.step)
         /\ requests[r].step = "idle"
BY Becomes DEF Begin, At
LEMMA Requested ==
  /\ \A t \in Tokens, s \in Sections :
        [Idle EXCEPT !.step = "save", !.token = t, !.section = s] \in RequestType
  /\ \A t \in Tokens, step \in {"upload", "submit"} :
        [Idle EXCEPT !.step = step, !.token = t] \in RequestType
  /\ \A t \in Tokens, s \in Sections \cup {"all"} :
        [Idle EXCEPT !.step = "delegate", !.token = t, !.section = s] \in RequestType
  /\ \A step \in Steps : [Idle EXCEPT !.step = step] \in RequestType
  /\ [Idle EXCEPT !.step = "ensure", !.signing = TRUE] \in RequestType
BY DEF Idle, RequestType, Steps

\* Steps after which nothing is told yet: they neither write a message nor
\* turn back the status or the signature.
LEMMA NothingTold ==
  ASSUME IInv, NEW r \in Requests, NEW step, Moves(r, step),
         UNCHANGED <<removed, told, late, caught>>,
         signed => signed', cut => cut',
         status \in Submitted => status' = status,
         status' \in Setup => status \in Setup,
         step \in {"mail", "enqueue"} => status' \in Submitted /\ signed',
         step \in {"enqueue", "insert"} => ~removed,
         At(r, "settle") => cut'
  PROVE  AnnouncesInTime' /\ NobodyTells' /\ IsSettling'
<1>1. AnnouncesInTime'
  BY DEF IInv, AnnouncesInTime, Moves
<1>2. NobodyTells'
  BY DEF IInv, NobodyTells, Moves, told
<1>3. IsSettling'
  BY DEF IInv, IsSettling, Moves, told, At
<1> QED
  BY <1>1, <1>2, <1>3

----------------------------------------------------------------------------
(* The steps, action by action *)

\* A handler that begins changes nothing else.
LEMMA StartStep ==
  ASSUME IInv, NEW r \in Requests,
         StartSave(r) \/ StartUpload(r) \/ StartSubmit(r) \/ StartIssue(r) \/ StartDelegate(r)
  PROVE  IInv'
<1>1. /\ UNCHANGED <<signed, removed, profile, policy, tokens, told, history>>
      /\ requests[r].step = "idle"
      /\ requests' \in [Requests -> RequestType]
      /\ \E step \in {"save", "upload", "submit", "ensure", "delegate"} : Moves(r, step)
  <2>1. TypeOK
    BY DEF IInv
  <2>2. CASE StartSave(r)
    <3>1. PICK t \in Tokens, s \in Sections :
            Begin(r, [Idle EXCEPT !.step = "save", !.token = t, !.section = s])
      BY <2>2 DEF StartSave
    <3> DEFINE request == [Idle EXCEPT !.step = "save", !.token = t, !.section = s]
    <3>2. request \in RequestType /\ request.step = "save"
      BY Requested DEF Idle
    <3> QED
      BY <2>1, <2>2, <3>1, <3>2, Begins DEF StartSave
  <2>3. CASE StartUpload(r)
    <3>1. PICK t \in Tokens : Begin(r, [Idle EXCEPT !.step = "upload", !.token = t])
      BY <2>3 DEF StartUpload
    <3> DEFINE request == [Idle EXCEPT !.step = "upload", !.token = t]
    <3>2. request \in RequestType /\ request.step = "upload"
      BY Requested DEF Idle
    <3> QED
      BY <2>1, <2>3, <3>1, <3>2, Begins DEF StartUpload
  <2>4. CASE StartSubmit(r)
    <3>1. PICK t \in Tokens : Begin(r, [Idle EXCEPT !.step = "submit", !.token = t])
      BY <2>4 DEF StartSubmit
    <3> DEFINE request == [Idle EXCEPT !.step = "submit", !.token = t]
    <3>2. request \in RequestType /\ request.step = "submit"
      BY Requested DEF Idle
    <3> QED
      BY <2>1, <2>4, <3>1, <3>2, Begins DEF StartSubmit
  <2>5. CASE StartIssue(r)
    <3> DEFINE request == [Idle EXCEPT !.step = "ensure"]
    <3>1. request \in RequestType /\ request.step = "ensure"
      BY Requested DEF Idle, Steps
    <3> QED
      BY <2>1, <2>5, <3>1, Begins DEF StartIssue
  <2>6. CASE StartDelegate(r)
    <3>1. PICK t \in Tokens, s \in Delegated :
            Begin(r, [Idle EXCEPT !.step = "delegate", !.token = t, !.section = s])
      BY <2>6 DEF StartDelegate
    <3> DEFINE request == [Idle EXCEPT !.step = "delegate", !.token = t, !.section = s]
    <3>2. request \in RequestType /\ request.step = "delegate"
      BY Requested DEF Idle
    <3> QED
      BY <2>1, <2>6, <3>1, <3>2, Begins DEF StartDelegate
  <2> QED
    BY <2>2, <2>3, <2>4, <2>5, <2>6
<1>2. TypeOK'
  BY <1>1 DEF IInv, TypeOK, RequestType, profile, told, history
<1>3. SetupSound'
  BY <1>1 DEF IInv, SetupSound, Filled, profile, history
<1>4. AnnouncesInTime' /\ NobodyTells' /\ IsSettling'
  BY <1>1, NothingTold DEF profile, history, At
<1> QED
  BY <1>2, <1>3, <1>4 DEF IInv
\* Save looks at the status under the lock: what is submitted stays.
LEMMA SaveStep == ASSUME IInv, NEW r \in Requests, Save(r) PROVE IInv'
<1>1. /\ UNCHANGED <<signed, removed, policy, tokens, told, history>>
      /\ requests[r].step = "save"
      /\ requests' \in [Requests -> RequestType] /\ Moves(r, "idle")
  BY Ends DEF Save, At, IInv
<1>2. \/ UNCHANGED profile
      \/ /\ status \notin Submitted /\ status # "none"
         /\ status' = IF status = "pending" THEN "in_progress" ELSE status
         /\ \E t \in Tokens \cup {Nobody}, s \in Sections \cup {"all"} : data' = [data EXCEPT ![s] = t]
  <2>1. requests[r].token \in Tokens \cup {Nobody} /\ requests[r].section \in Sections \cup {"all"}
    BY DEF IInv, TypeOK
  <2> QED
    BY <2>1 DEF Save, Savable, Works, HasProfile
<1>3. TypeOK'
  BY <1>1, <1>2 DEF IInv, TypeOK, RequestType, profile, told, history, Statuses, Submitted
<1>4. SetupSound'
  BY <1>1, <1>2 DEF IInv, TypeOK, SetupSound, Filled, profile, history, Statuses, Submitted, Setup
<1>5. AnnouncesInTime' /\ NobodyTells' /\ IsSettling'
  BY <1>1, <1>2, NothingTold DEF profile, history, At, Submitted, Setup
<1> QED
  BY <1>3, <1>4, <1>5 DEF IInv

LEMMA AddDocumentStep == ASSUME IInv, NEW r \in Requests, AddDocument(r) PROVE IInv'
<1>1. /\ UNCHANGED <<signed, removed, profile, tokens, told, history>>
      /\ policy' = (policy \/ ~removed)
      /\ requests[r].step = "upload"
      /\ requests' \in [Requests -> RequestType] /\ Moves(r, "idle")
  BY Ends DEF AddDocument, At, IInv
<1>2. TypeOK' /\ SetupSound'
  BY <1>1 DEF IInv, TypeOK, RequestType, SetupSound, Filled, profile, told, history
<1>3. AnnouncesInTime' /\ NobodyTells' /\ IsSettling'
  BY <1>1, NothingTold DEF profile, history, At
<1> QED
  BY <1>2, <1>3 DEF IInv

\* Submit, under the lock as well, checks that everything is there.
LEMMA SubmitStep == ASSUME IInv, NEW r \in Requests, Submit(r) PROVE IInv'
<1>1. /\ UNCHANGED <<signed, removed, data, policy, tokens, told, history>>
      /\ requests[r].step = "submit"
      /\ requests' \in [Requests -> RequestType]
      /\ \/ Moves(r, "idle") /\ status' = status
         \/ Moves(r, "ready") /\ status' = IF status \in Submitted THEN status ELSE "completed"
  <2>1. [Idle EXCEPT !.step = "ready"] \in RequestType /\ [Idle EXCEPT !.step = "ready"].step = "ready"
    BY Requested DEF Steps, Idle
  <2> QED
    BY <2>1, Ends, Becomes DEF Submit, At, IInv
<1>2. status' # status => status \notin Submitted /\ status \notin {"none"} /\ Complete /\ status' = "completed"
  BY DEF Submit, Works, HasProfile
<1>3. TypeOK'
  BY <1>1, <1>2 DEF IInv, TypeOK, RequestType, told, history, Statuses
<1>4. SetupSound'
  BY <1>1, <1>2 DEF IInv, SetupSound, Filled, Complete, history, Submitted, Setup
<1>5. AnnouncesInTime' /\ NobodyTells' /\ IsSettling'
  BY <1>1, <1>2, NothingTold DEF history, At, Submitted, Setup
<1> QED
  BY <1>3, <1>4, <1>5 DEF IInv

\* Whoever goes on to tell has seen the activation complete and signed.
LEMMA CheckReadyStep == ASSUME IInv, NEW r \in Requests, CheckReady(r) PROVE IInv'
<1>1. /\ UNCHANGED <<signed, removed, profile, policy, tokens, told, history>>
      /\ requests[r].step = "ready"
      /\ requests' \in [Requests -> RequestType]
      /\ \/ Moves(r, "idle")
         \/ Moves(r, "mail") /\ ReadyForInternalSetup
  BY Ends, GoesOn DEF CheckReady, At, IInv, Steps
<1>2. TypeOK' /\ SetupSound'
  BY <1>1 DEF IInv, TypeOK, RequestType, SetupSound, Filled, profile, told, history
<1>3. AnnouncesInTime' /\ NobodyTells' /\ IsSettling'
  BY <1>1, NothingTold DEF profile, history, At, ReadyForInternalSetup, Submitted
<1> QED
  BY <1>2, <1>3 DEF IInv

LEMMA FindRecipientStep == ASSUME IInv, NEW r \in Requests, FindRecipient(r) PROVE IInv'
<1>1. /\ UNCHANGED <<signed, removed, profile, policy, tokens, told, history>>
      /\ requests[r].step \in {"mail", "notice"}
      /\ requests' \in [Requests -> RequestType]
      /\ \/ Moves(r, "idle") \/ Moves(r, "notice")
         \/ Moves(r, "enqueue") /\ ~removed /\ requests[r].step = "mail"
         \/ Moves(r, "insert") /\ ~removed
  BY GoesOn DEF FindRecipient, At, IInv, Steps
<1>2. TypeOK' /\ SetupSound'
  BY <1>1 DEF IInv, TypeOK, RequestType, SetupSound, Filled, profile, told, history
<1>3. requests[r].step = "mail" => status \in Submitted /\ signed
  BY DEF IInv, AnnouncesInTime
<1>4. AnnouncesInTime' /\ NobodyTells' /\ IsSettling'
  BY <1>1, <1>3, NothingTold DEF profile, history, At
<1> QED
  BY <1>2, <1>4 DEF IInv

\* The message and the notice: after the removal only whoever was caught
\* between recipient and message still writes.
LEMMA QueueMailStep == ASSUME IInv, NEW r \in Requests, QueueMail(r) PROVE IInv'
<1>1. /\ UNCHANGED <<signed, removed, profile, policy, tokens, notice, history>>
      /\ mail' = IF mail = "none" THEN "queued" ELSE mail
      /\ requests[r].step = "enqueue"
      /\ requests' \in [Requests -> RequestType] /\ Moves(r, "notice")
  BY GoesOn DEF QueueMail, At, IInv, Steps
<1>2. TypeOK' /\ SetupSound'
  BY <1>1 DEF IInv, TypeOK, RequestType, SetupSound, Filled, profile, told, history
<1>3. AnnouncesInTime' /\ IsSettling'
  BY <1>1 DEF IInv, AnnouncesInTime, IsSettling, Moves, profile, history, At
<1>4. NobodyTells'
  BY <1>1 DEF IInv, NobodyTells, Moves, history
<1> QED
  BY <1>2, <1>3, <1>4 DEF IInv

LEMMA PublishNoticeStep == ASSUME IInv, NEW r \in Requests, PublishNotice(r) PROVE IInv'
<1>1. /\ UNCHANGED <<signed, removed, profile, policy, tokens, mail, cut, caught>>
      /\ notice' = IF notice = "none" THEN "unread" ELSE notice
      /\ late' = (late \/ (notice = "none" /\ status \in Setup))
      /\ requests[r].step = "insert"
      /\ requests' \in [Requests -> RequestType] /\ Moves(r, "idle")
  BY Ends DEF PublishNotice, At, IInv
<1>2. TypeOK' /\ SetupSound'
  BY <1>1 DEF IInv, TypeOK, RequestType, SetupSound, Filled, profile, told, history
<1>3. AnnouncesInTime' /\ NobodyTells'
  BY <1>1 DEF IInv, AnnouncesInTime, NobodyTells, Moves, profile, history
<1>4. IsSettling'
  BY <1>1 DEF IInv, IsSettling, Moves, profile, At
<1> QED
  BY <1>2, <1>3, <1>4 DEF IInv

LEMMA EnsureForContractStep == ASSUME IInv, NEW r \in Requests, EnsureForContract(r) PROVE IInv'
<1>1. /\ UNCHANGED <<signed, removed, policy, tokens, told, history>>
      /\ requests[r].step = "ensure"
      /\ requests' \in [Requests -> RequestType]
      /\ Moves(r, "idle") \/ Moves(r, "ready") \/ Moves(r, "issue")
  <2>1. /\ [Idle EXCEPT !.step = AfterEnsure(r)] \in RequestType
        /\ [Idle EXCEPT !.step = AfterEnsure(r)].step \in {"ready", "issue"}
    BY Requested DEF AfterEnsure, Steps, Idle
  <2>2. CASE removed
    BY <2>2, Ends DEF EnsureForContract, At, IInv
  <2>3. CASE ~removed
    <3>1. requests' = [requests EXCEPT ![r] = [Idle EXCEPT !.step = AfterEnsure(r)]]
      BY <2>3 DEF EnsureForContract
    <3>2. requests' \in [Requests -> RequestType] /\ Moves(r, [Idle EXCEPT !.step = AfterEnsure(r)].step)
      BY <2>1, <3>1, Becomes DEF IInv
    <3> QED
      BY <2>1, <3>2 DEF EnsureForContract, At
  <2> QED
    BY <2>2, <2>3
<1>2. \/ UNCHANGED profile
      \/ /\ status = "none" /\ status' \in {"pending", "in_progress"}
         /\ status' = "pending" => Legacy = {}
         /\ data' = [s \in Sections |-> IF s \in Legacy THEN "legacy" ELSE Nobody]
  BY DEF EnsureForContract, SeededStatus
<1>3. TypeOK'
  BY <1>1, <1>2 DEF IInv, TypeOK, RequestType, profile, told, history, Statuses
<1>4. SetupSound'
  BY <1>1, <1>2 DEF IInv, SetupSound, Filled, profile, history, Submitted, Setup
<1>5. AnnouncesInTime' /\ NobodyTells' /\ IsSettling'
  BY <1>1, <1>2, NothingTold DEF profile, history, At, Submitted, Setup
<1> QED
  BY <1>3, <1>4, <1>5 DEF IInv

LEMMA CreateAccessTokenStep ==
  ASSUME IInv, NEW r \in Requests, IssueOwnerAccess(r) \/ Delegate(r)
  PROVE  IInv'
<1>1. PICK type \in {"owner", "delegate"}, section \in Sections \cup {"all"} :
        CreateAccessToken(r, type, section)
  BY DEF IssueOwnerAccess, Delegate, IInv, TypeOK
<1>2. /\ UNCHANGED <<signed, removed, profile, policy, told, history>>
      /\ requests[r].step \in {"issue", "delegate"}
      /\ requests' \in [Requests -> RequestType] /\ Moves(r, "idle")
  BY <1>1, Ends DEF CreateAccessToken, IssueOwnerAccess, Delegate, At, IInv
<1>3. tokens' \in [Tokens -> TokenType]
  <2> DEFINE token == [type |-> type, section |-> section, live |-> TRUE]
  <2>1. tokens \in [Tokens -> TokenType] /\ token \in TokenType
    BY DEF IInv, TypeOK, TokenType
  <2>2. UNCHANGED tokens \/ \E t \in Tokens : tokens' = [tokens EXCEPT ![t] = token]
    BY <1>1 DEF CreateAccessToken
  <2> QED
    BY <2>1, <2>2
<1>4. TypeOK' /\ SetupSound'
  BY <1>2, <1>3 DEF IInv, TypeOK, RequestType, TokenType, SetupSound, Filled, profile, told, history
<1>5. AnnouncesInTime' /\ NobodyTells' /\ IsSettling'
  BY <1>2, NothingTold DEF profile, history, At
<1> QED
  BY <1>4, <1>5 DEF IInv

LEMMA EndEarlyStep == ASSUME IInv, NEW r \in Requests, EndEarly(r) PROVE IInv'
<1>1. /\ UNCHANGED <<signed, removed, profile, policy, tokens, told, late, caught>>
      /\ cut' = TRUE
      /\ requests' \in [Requests -> RequestType] /\ Moves(r, "idle")
  BY Ends DEF EndEarly, IInv
<1>2. TypeOK' /\ SetupSound'
  BY <1>1 DEF IInv, TypeOK, RequestType, SetupSound, Filled, profile, told
<1>3. AnnouncesInTime' /\ NobodyTells' /\ IsSettling'
  BY <1>1, NothingTold DEF profile
<1> QED
  BY <1>2, <1>3 DEF IInv

----------------------------------------------------------------------------
(* Signature, internal setup, removal *)

LEMMA SignStep == ASSUME IInv, NEW r \in Requests, Sign(r) PROVE IInv'
<1>1. /\ UNCHANGED <<removed, profile, policy, tokens, told, history>>
      /\ signed' = TRUE
      /\ requests[r].step = "idle"
      /\ requests' \in [Requests -> RequestType] /\ Moves(r, "ensure")
  <2>1. [Idle EXCEPT !.step = "ensure", !.signing = TRUE].step = "ensure"
    BY DEF Idle
  <2> QED
    BY <2>1, Requested, Begins DEF Sign, IInv
<1>2. TypeOK' /\ SetupSound'
  BY <1>1 DEF IInv, TypeOK, RequestType, SetupSound, Filled, profile, told, history
<1>3. AnnouncesInTime' /\ NobodyTells' /\ IsSettling'
  BY <1>1, NothingTold DEF profile, history, At
<1> QED
  BY <1>2, <1>3 DEF IInv

\* The request that sets the status goes on to settle the notice.
LEMMA SetInternalStatusStep == ASSUME IInv, NEW r \in Requests, SetInternalStatus(r) PROVE IInv'
<1>1. /\ UNCHANGED <<signed, removed, data, policy, tokens, told, history>>
      /\ requests[r].step = "idle"
      /\ requests' \in [Requests -> RequestType] /\ Moves(r, "settle")
  <2>1. [Idle EXCEPT !.step = "settle"] \in RequestType /\ [Idle EXCEPT !.step = "settle"].step = "settle"
    BY Requested DEF Idle, Steps
  <2> QED
    BY <2>1, Begins DEF SetInternalStatus, IInv
<1>2. status \in Submitted /\ status' \in Setup /\ signed
  BY DEF SetInternalStatus, Settable, SettableUnsigned, Submitted
<1>3. TypeOK'
  BY <1>1, <1>2 DEF IInv, TypeOK, RequestType, told, history, Statuses, Setup
<1>4. SetupSound'
  BY <1>1, <1>2 DEF IInv, SetupSound, Filled, Submitted, Setup
<1>5. AnnouncesInTime' /\ NobodyTells'
  BY <1>1, <1>2 DEF IInv, AnnouncesInTime, NobodyTells, Moves, told, history, Submitted, Setup
<1>6. IsSettling'
  BY <1>1 DEF IsSettling, Moves, At
<1> QED
  BY <1>3, <1>4, <1>5, <1>6 DEF IInv

LEMMA SettleNoticeStep == ASSUME IInv, NEW r \in Requests, SettleNotice(r) PROVE IInv'
<1>1. /\ UNCHANGED <<signed, removed, profile, policy, tokens, mail, history>>
      /\ notice' = IF notice = "unread" THEN "read" ELSE notice
      /\ requests' \in [Requests -> RequestType] /\ Moves(r, "idle")
  BY Ends DEF SettleNotice, Settled, IInv
<1>2. TypeOK' /\ SetupSound'
  BY <1>1 DEF IInv, TypeOK, RequestType, SetupSound, Filled, profile, told, history
<1>3. AnnouncesInTime' /\ NobodyTells' /\ IsSettling'
  BY <1>1 DEF IInv, AnnouncesInTime, NobodyTells, IsSettling, Moves, profile, history
<1> QED
  BY <1>2, <1>3 DEF IInv

LEMMA RemoveStep == ASSUME IInv, Remove PROVE IInv'
<1>1. /\ UNCHANGED <<signed, profile, requests, cut, late>>
      /\ removed' = TRUE /\ policy' = FALSE
      /\ mail' = IF mail = "queued" THEN "cancelled" ELSE mail
      /\ notice' = IF notice = "none" THEN notice ELSE "hidden"
      /\ caught' = \E r \in Requests : requests[r].step \in {"enqueue", "insert"}
      /\ tokens' = [t \in Tokens |-> [tokens[t] EXCEPT !.live = FALSE]]
  BY DEF Remove, Cancelled
<1>2. tokens' \in [Tokens -> TokenType]
  BY <1>1 DEF IInv, TypeOK, TokenType
<1>3. TypeOK' /\ SetupSound'
  BY <1>1, <1>2 DEF IInv, TypeOK, TokenType, SetupSound, Filled, profile
<1>4. AnnouncesInTime' /\ NobodyTells' /\ IsSettling'
  BY <1>1 DEF IInv, AnnouncesInTime, NobodyTells, IsSettling, profile
<1> QED
  BY <1>3, <1>4 DEF IInv

LEMMA ElseStep ==
  ASSUME IInv, AddEarlierDocument \/ MarkRead \/ (\E t \in Tokens : Expire(t)) \/ UNCHANGED vars
  PROVE  IInv'
<1>1. /\ UNCHANGED <<signed, removed, profile, mail, requests, history>>
      /\ policy => policy'
      /\ policy' \in BOOLEAN
      /\ notice' = notice \/ notice' = "read"
      /\ notice' # notice => notice = "unread"
      /\ tokens' \in [Tokens -> TokenType]
  <2>1. policy \in BOOLEAN /\ tokens \in [Tokens -> TokenType]
    BY DEF IInv, TypeOK, TokenType
  <2>2. CASE AddEarlierDocument
    BY <2>1, <2>2 DEF AddEarlierDocument, told
  <2>3. CASE MarkRead
    <3>1. /\ UNCHANGED <<signed, removed, profile, mail, requests, history>>
          /\ policy' = policy /\ tokens' = tokens
          /\ notice = "unread" /\ notice' = "read"
      BY <2>3 DEF MarkRead
    <3> QED
      BY <2>1, <3>1
  <2>4. ASSUME NEW t \in Tokens, Expire(t) PROVE tokens' \in [Tokens -> TokenType]
    BY <2>1, <2>4 DEF Expire, TokenType
  <2>5. CASE \E t \in Tokens : Expire(t)
    <3>1. PICK t \in Tokens : Expire(t)
      BY <2>5
    <3>2. /\ UNCHANGED <<signed, removed, profile, mail, requests, history>>
          /\ policy' = policy /\ notice' = notice
      BY <3>1 DEF Expire, told
    <3> QED
      BY <2>1, <2>4, <3>1, <3>2
  <2>6. CASE UNCHANGED vars
    <3>1. /\ UNCHANGED <<signed, removed, profile, mail, requests, history>>
          /\ policy' = policy /\ notice' = notice /\ tokens' = tokens
      BY <2>6 DEF vars, told
    <3> QED
      BY <2>1, <3>1
  <2> QED
    BY <2>2, <2>3, <2>5, <2>6
<1>2. TypeOK' /\ SetupSound'
  BY <1>1 DEF IInv, TypeOK, TokenType, SetupSound, Filled, profile, told, history
<1>3. AnnouncesInTime' /\ NobodyTells' /\ IsSettling'
  BY <1>1 DEF IInv, AnnouncesInTime, NobodyTells, IsSettling, At, profile, history
<1> QED
  BY <1>2, <1>3 DEF IInv

LEMMA StepIInv == IInv /\ [Next]_vars => IInv'
<1> SUFFICES ASSUME IInv, [Next]_vars PROVE IInv'
  OBVIOUS
<1>1. ASSUME NEW r \in Requests, Start(r) PROVE IInv'
  BY <1>1, StartStep, SignStep, SetInternalStatusStep DEF Start
<1>2. ASSUME NEW r \in Requests, Continue(r) PROVE IInv'
  BY <1>2, SaveStep, AddDocumentStep, SubmitStep, CheckReadyStep, FindRecipientStep, QueueMailStep,
     PublishNoticeStep, EnsureForContractStep, CreateAccessTokenStep, SettleNoticeStep DEF Continue
<1> QED
  BY <1>1, <1>2, EndEarlyStep, RemoveStep, ElseStep DEF Next

----------------------------------------------------------------------------
(* Theorems *)

\* Every reachable state is of the invariant.
THEOREM Invariant == Spec => []IInv
BY InitIInv, StepIInv, PTL DEF Spec

\* Rows, requests and history keep their types.
THEOREM TypeCorrect == Spec => []TypeOK
<1>1. IInv => TypeOK
  BY DEF IInv
<1> QED
  BY <1>1, Invariant, PTL

\* Nobody's internal setup has begun without signature or with incomplete
\* data, in whatever order save, submission, signature and status arrive.
THEOREM SetupIsSound == Spec => []SetupSound
<1>1. IInv => SetupSound
  BY DEF IInv
<1> QED
  BY <1>1, Invariant, PTL

\* Messages and notices are withdrawn, settled, or known to come late.
THEOREM NoticesAreSound == Spec => []NoticesSound
<1>1. IInv => NoticesSound
  BY DEF IInv, NobodyTells, IsSettling, NoticesSound, QuietAfterRemoval, NoticeIsTimely, At
<1> QED
  BY <1>1, Invariant, PTL

\* A save that was under way when the data were submitted changes nothing, and
\* no step takes the submission back.
THEOREM SubmittedStaysFrozen == Spec => SubmittedIsFrozen
<1> DEFINE Frozen == status \in Submitted => status' \in Submitted /\ data' = data
<1>1. ASSUME IInv, [Next]_vars PROVE Frozen
  <2> SUFFICES ASSUME status \in Submitted PROVE status' \in Submitted /\ data' = data
    OBVIOUS
  <2>1. ASSUME NEW r \in Requests, Start(r) PROVE Frozen
    <3>1. CASE SetInternalStatus(r)
      BY <3>1 DEF SetInternalStatus, Submitted, Setup
    <3> QED
      BY <2>1, <3>1 DEF Start, StartSave, StartUpload, StartSubmit, StartIssue, StartDelegate, Sign, profile
  <2>2. ASSUME NEW r \in Requests, Continue(r) PROVE Frozen
    <3>1. CASE Save(r)
      BY <3>1 DEF Save, Savable, profile
    <3>2. CASE EnsureForContract(r)
      BY <3>2 DEF EnsureForContract, Submitted, profile
    <3>3. CASE Submit(r)
      BY <3>3 DEF Submit
    <3>4. CASE IssueOwnerAccess(r) \/ Delegate(r)
      BY <3>4 DEF IssueOwnerAccess, Delegate, CreateAccessToken, profile
    <3> QED
      BY <2>2, <3>1, <3>2, <3>3, <3>4 DEF Continue, AddDocument, CheckReady, FindRecipient, QueueMail,
         PublishNotice, SettleNotice, profile
  <2>3. CASE UNCHANGED vars
    BY <2>3 DEF vars, profile
  <2> QED
    BY <1>1, <2>1, <2>2, <2>3 DEF Next, EndEarly, Expire, AddEarlierDocument, MarkRead, Remove, profile
<1>2. IInv /\ [Next]_vars => [Frozen]_vars
  BY <1>1
<1> QED
  BY <1>2, InitIInv, StepIInv, PTL DEF Spec, SubmittedIsFrozen

----------------------------------------------------------------------------
(* Refinement *)

LEMMA InitHandover == Init => Handed!Init
BY DEF Init, Handed!Init, Submitted

\* Steps that touch neither status, signature nor message are not seen.
LEMMA Unseen == status' = status /\ signed' = signed /\ mail' = mail => UNCHANGED Handed!vars
BY DEF Handed!vars

LEMMA StepHandover == IInv /\ [Next]_vars => [Handed!Next]_(Handed!vars)
<1> SUFFICES ASSUME IInv, [Next]_vars PROVE Handed!Next \/ UNCHANGED Handed!vars
  OBVIOUS
<1>1. ASSUME NEW r \in Requests, Start(r) PROVE Handed!Next \/ UNCHANGED Handed!vars
  <2>1. CASE Sign(r)
    BY <2>1 DEF Sign, Handed!Next, Handed!Sign, profile, told
  <2>2. CASE SetInternalStatus(r)
    <3>1. /\ status \in {"completed", "under_internal_setup"} /\ signed /\ status' \in Setup
          /\ signed' = signed /\ mail' = mail
      BY <2>2 DEF SetInternalStatus, Settable, SettableUnsigned, told
    <3>2. Handed!Proceed \/ UNCHANGED Handed!vars
      BY <3>1 DEF Handed!Proceed, Handed!Both, Handed!vars, Setup, Submitted
    <3> QED
      BY <3>2 DEF Handed!Next
  <2>3. CASE ~(Sign(r) \/ SetInternalStatus(r))
    BY <1>1, <2>3, Unseen
       DEF Start, StartSave, StartUpload, StartSubmit, StartIssue, StartDelegate, profile, told
  <2> QED
    BY <2>1, <2>2, <2>3
<1>2. ASSUME NEW r \in Requests, Continue(r) PROVE Handed!Next \/ UNCHANGED Handed!vars
  <2>1. CASE Save(r) \/ EnsureForContract(r)
    <3>1. /\ signed' = signed /\ mail' = mail
          /\ \/ status' = status
             \/ status \notin Submitted /\ status' \in {"pending", "in_progress"}
      BY <2>1 DEF Save, Savable, EnsureForContract, SeededStatus, profile, told, Submitted
    <3> QED
      BY <3>1 DEF Handed!vars, Submitted
  <2>2. CASE Submit(r)
    <3>1. /\ signed' = signed /\ mail' = mail
          /\ status' = status \/ (status \notin Submitted /\ status' = "completed")
      BY <2>2 DEF Submit, told
    <3>2. CASE status \notin Submitted /\ status' = "completed"
      BY <3>1, <3>2 DEF Handed!Next, Handed!Complete, Submitted
    <3> QED
      BY <3>1, <3>2, Unseen
  <2>3. CASE QueueMail(r)
    <3>1. /\ signed' = signed /\ status' = status
          /\ mail' = IF mail = "none" THEN "queued" ELSE mail
      BY <2>3 DEF QueueMail, profile
    <3>2. status \in Submitted /\ signed
      BY <2>3 DEF QueueMail, At, IInv, AnnouncesInTime
    <3> QED
      BY <3>1, <3>2 DEF Handed!Next, Handed!Announce, Handed!Both
  <2>4. CASE IssueOwnerAccess(r) \/ Delegate(r)
    BY <2>4, Unseen DEF IssueOwnerAccess, Delegate, CreateAccessToken, profile, told
  <2> QED
    BY <1>2, <2>1, <2>2, <2>3, <2>4, Unseen
       DEF Continue, AddDocument, CheckReady, FindRecipient, PublishNotice, SettleNotice, profile, told
<1>3. CASE Remove
  <2>1. signed' = signed /\ status' = status /\ (mail' = "none" <=> mail = "none")
    BY <1>3 DEF Remove, Cancelled, profile
  <2> QED
    BY <2>1 DEF Handed!vars
<1>4. CASE UNCHANGED vars
  BY <1>4, Unseen DEF vars, profile, told
<1> QED
  BY <1>1, <1>2, <1>3, <1>4, Unseen
     DEF Next, EndEarly, Expire, AddEarlierDocument, MarkRead, profile, told

\* However many requests fill in, submit, sign, set up and remove at once, the
\* two parties see a handover that waits for both.
THEOREM RefinesHandover == Spec => ImplementsHandover
BY Invariant, InitHandover, StepHandover, PTL DEF ImplementsHandover, Handed!Spec, Spec

=============================================================================
