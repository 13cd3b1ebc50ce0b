----------------------- MODULE ContractDeliveryProofs -----------------------
(***************************************************************************)
(* Theorems of ContractDelivery, for any number of requests, generation    *)
(* runs and failures: one contract at most, of the approved data, and what *)
(* is signed stays signed.                                                 *)
(*                                                                         *)
(* The generator reads the data, renders and stores, and only then inserts *)
(* the row, so the properties need an invariant on the requests in         *)
(* between: what they hold of the data is still what is approved, a run's  *)
(* contract belongs to its request until the signer exists, and a request  *)
(* that has announced a contract can rely on it, because the cleanup never *)
(* removes a contract with an activation profile.                          *)
(***************************************************************************)
EXTENDS ContractDelivery, TLAPS

USE NullsAssumption, BoundAssumption

Rendering == {"put", "create"}
Announcing == {"mail", "mark"}

\* What one request has reached.
Holds(r) ==
    /\ requests[r].step \notin {"idle", "approve", "lookup", "load"} => requests[r].gen \in Generations
    /\ requests[r].step \in Rendering =>
          /\ onboarding.status = "approved" /\ requests[r].data = onboarding.data
          /\ contracts[requests[r].gen].status = "absent"
          /\ \A q \in Requests : requests[q].gen = requests[r].gen => q = r
    /\ requests[r].step \in {"signer", "token"} => contracts[requests[r].gen].status # "absent"
    /\ requests[r].step \in {"profile"} \cup Announcing /\ contracts[requests[r].gen].status # "absent" =>
          contracts[requests[r].gen].signer # "none"
    /\ requests[r].step \in Announcing =>
          requests[r].gen \in profiles /\ contracts[requests[r].gen].status # "absent"
    /\ requests[r].step = "mark" => mails[requests[r].gen] # "none"

\* Only the request that inserted a contract completes or removes it.
Owning == {"signer", "token", "delete_row"}
OwnRun ==
    \A r, q \in Requests :
        requests[r].step \in Owning /\ requests[q].step \in Owning /\ requests[r].gen = requests[q].gen
        => q = r

IInv ==
    /\ ContractSound
    /\ \A r \in Requests : Holds(r)
    /\ OwnRun

MailsType == [Generations -> {"none", "queued", "cancelled"}]

LEMMA TypesOf ==
  ASSUME IInv
  PROVE  /\ onboarding \in Onboarding /\ contracts \in [Generations -> Contract]
         /\ storage \subseteq Generations /\ profiles \subseteq Generations
         /\ mails \in MailsType /\ requests \in [Requests -> Request]
         /\ failures \in 0 .. MaxFailures
BY DEF IInv, ContractSound, TypeOK, MailsType

LEMMA InitIInv == Init => IInv
<1> SUFFICES ASSUME Init PROVE IInv
  OBVIOUS
<1>1. TypeOK
  BY DEF Init, TypeOK, Onboarding, OnboardingStatus, Editable, Contract, Request, NoContract, Idle, Steps
<1>2. ContractMatchesData /\ DeliverySound
  BY DEF Init, ContractMatchesData, DeliverySound, OneContract, SentIsAnnounced, Exists, NoContract
<1>3. OwnRun /\ \A r \in Requests : Holds(r)
  BY DEF Init, OwnRun, Owning, Holds, Idle, Rendering, Announcing
<1> QED
  BY <1>1, <1>2, <1>3 DEF IInv, ContractSound

----------------------------------------------------------------------------
(* How a request goes on *)

LEMMA Gone ==
  ASSUME IInv, NEW r \in Requests, NEW s \in Steps, Go(r, s)
  PROVE  /\ requests' \in [Requests -> Request]
         /\ requests'[r].step = s /\ requests'[r].gen = requests[r].gen
         /\ requests'[r].data = requests[r].data
         /\ \A q \in Requests \ {r} : requests'[q] = requests[q]
BY TypesOf DEF Go, Request

LEMMA Ended ==
  ASSUME IInv, NEW r \in Requests, End(r)
  PROVE  /\ requests' \in [Requests -> Request]
         /\ requests'[r].step = "idle" /\ requests'[r].gen = NoGeneration
         /\ \A q \in Requests \ {r} : requests'[q] = requests[q]
BY TypesOf DEF End, Idle, Request, Steps

LEMMA FailCounts == ASSUME IInv, Fail PROVE failures' \in 0 .. MaxFailures
BY TypesOf DEF Fail

\* A request goes on and the contracts stay as they are.
LEMMA MoveStep ==
  ASSUME IInv, NEW r \in Requests,
         requests' \in [Requests -> Request],
         \A q \in Requests \ {r} : requests'[q] = requests[q],
         contracts' = contracts,
         onboarding' \in Onboarding, onboarding'.data = onboarding.data,
         onboarding.status = "approved" => onboarding'.status = "approved",
         storage' \subseteq Generations,
         profiles \subseteq profiles', profiles' \subseteq Generations,
         mails' \in MailsType, \A g \in Generations : mails[g] # "none" => mails'[g] # "none",
         failures' \in 0 .. MaxFailures,
         \/ requests'[r].gen \in {requests[r].gen, NoGeneration}
         \/ contracts[requests'[r].gen].status # "absent"
         \/ \A q \in Requests : requests[q].gen # requests'[r].gen,
         requests'[r].step \in Owning =>
             requests[r].step \in Owning /\ requests'[r].gen = requests[r].gen,
         Holds(r)'
  PROVE  IInv'
<1>1. TypeOK'
  BY TypesOf DEF TypeOK, MailsType
<1>2. ContractMatchesData'
  BY DEF IInv, ContractSound, ContractMatchesData, Exists
<1>3. DeliverySound'
  BY TypesOf DEF IInv, ContractSound, DeliverySound, OneContract, SentIsAnnounced, Exists
<1>4. ASSUME NEW q \in Requests PROVE Holds(q)'
  <2>1. CASE q = r
    BY <2>1
  <2>2. CASE q # r
    <3>1. requests'[q] = requests[q] /\ Holds(q)
      BY <2>2 DEF IInv
    <3>2. requests[q].step \in Rendering => \A p \in Requests : requests'[p].gen = requests[q].gen => p = q
      <4> SUFFICES ASSUME requests[q].step \in Rendering, NEW p \in Requests,
                          requests'[p].gen = requests[q].gen, p # q PROVE FALSE
        OBVIOUS
      <4>1. /\ requests[q].gen \in Generations /\ contracts[requests[q].gen].status = "absent"
            /\ requests[p].gen # requests[q].gen
        BY <3>1 DEF Holds, Rendering
      <4>2. p = r
        BY <4>1
      <4> QED
        BY <4>1, <4>2
    <3> QED
      BY <3>1, <3>2 DEF Holds, Rendering, Announcing
  <2> QED
    BY <2>1, <2>2
<1>5. OwnRun'
  BY DEF IInv, OwnRun
<1> QED
  BY <1>1, <1>2, <1>3, <1>4, <1>5 DEF IInv, ContractSound

\* A request ends: nothing depends on it any more.
LEMMA EndStep ==
  ASSUME IInv, NEW r \in Requests, End(r), UNCHANGED <<onboarding, contracts, profiles, mails>>,
         storage' \subseteq Generations, failures' \in 0 .. MaxFailures
  PROVE  IInv'
<1>1. Holds(r)' /\ requests'[r].step \notin Owning
  BY Ended DEF Holds, Rendering, Announcing, Owning
<1> QED
  BY <1>1, Ended, TypesOf, MoveStep

----------------------------------------------------------------------------
(* The customer's data, signing and removal *)

LEMMA OnboardingStep ==
  ASSUME IInv, (\E d \in Data : Save(d)) \/ Submit \/ (\E status \in {"under_review", "correction_requested", "approved"} : Review(status))
  PROVE  IInv'
<1>1. /\ onboarding' \in Onboarding
      /\ onboarding.status = "approved" => onboarding'.status = "approved" /\ onboarding'.data = onboarding.data
  BY TypesOf DEF Save, Submit, Review, ReviewFrom, Onboarding, OnboardingStatus, Editable
<1>2. UNCHANGED <<contracts, storage, profiles, mails, requests, failures>>
  BY DEF Save, Submit, Review
<1>3. TypeOK'
  BY <1>1, <1>2, TypesOf DEF TypeOK, MailsType
<1>4. ContractMatchesData' /\ DeliverySound'
  BY <1>1, <1>2 DEF IInv, ContractSound, ContractMatchesData, DeliverySound, OneContract, SentIsAnnounced, Exists
<1>5. ASSUME NEW r \in Requests PROVE Holds(r)'
  BY <1>1, <1>2 DEF IInv, Holds
<1>6. OwnRun'
  BY <1>2 DEF IInv, OwnRun
<1> QED
  BY <1>3, <1>4, <1>5, <1>6 DEF IInv, ContractSound

\* Rows of contracts change, but not their data, nor whether they exist, and
\* a signer once there stays or is marked.
LEMMA RowsStep ==
  ASSUME IInv,
         contracts' \in [Generations -> Contract],
         \A g \in Generations :
            /\ contracts'[g].data = contracts[g].data
            /\ contracts[g].status = "absent" <=> contracts'[g].status = "absent"
            /\ contracts[g].signer # "none" => contracts'[g].signer # "none"
            /\ contracts'[g].status = "sent" => contracts[g].status = "sent",
         mails' \in MailsType, \A g \in Generations : mails[g] # "none" => mails'[g] # "none",
         onboarding' \in Onboarding, onboarding'.data = onboarding.data,
         onboarding'.status = onboarding.status,
         UNCHANGED <<storage, profiles, requests, failures>>
  PROVE  IInv'
<1>1. TypeOK'
  BY TypesOf DEF TypeOK, MailsType
<1>2. ContractMatchesData' /\ DeliverySound'
  BY DEF IInv, ContractSound, ContractMatchesData, DeliverySound, OneContract, SentIsAnnounced, Exists
<1>3. ASSUME NEW r \in Requests PROVE Holds(r)'
  BY DEF IInv, Holds, Rendering, Announcing
<1>4. OwnRun'
  BY DEF IInv, OwnRun
<1> QED
  BY <1>1, <1>2, <1>3, <1>4 DEF IInv, ContractSound

LEMMA SignStep == ASSUME IInv, NEW g \in Generations, Sign(g) PROVE IInv'
<1>1. contracts[g].status # "absent" /\ contracts' = [contracts EXCEPT ![g].status = "signed"]
  BY DEF Sign
<1>2. /\ contracts' \in [Generations -> Contract] /\ contracts'[g].status = "signed"
      /\ \A h \in Generations : /\ contracts'[h].data = contracts[h].data
                                /\ contracts'[h].signer = contracts[h].signer
                                /\ h # g => contracts'[h].status = contracts[h].status
  BY <1>1, TypesOf DEF Contract
<1> QED
  BY <1>1, <1>2, TypesOf, RowsStep DEF Sign

LEMMA SoftDeleteStep == ASSUME IInv, SoftDelete PROVE IInv'
<1>1. ASSUME NEW g \in Generations
      PROVE  /\ contracts'[g] \in Contract /\ contracts'[g].data = contracts[g].data
             /\ contracts'[g].status = contracts[g].status
             /\ contracts[g].signer # "none" => contracts'[g].signer # "none"
  BY TypesOf DEF SoftDelete, Contract
<1>2. contracts' \in [Generations -> Contract]
  BY <1>1 DEF SoftDelete
<1>3. mails' \in MailsType /\ \A g \in Generations : mails[g] # "none" => mails'[g] # "none"
  BY TypesOf DEF SoftDelete, MailsType
<1>4. /\ onboarding' \in Onboarding /\ onboarding'.data = onboarding.data
      /\ onboarding'.status = onboarding.status
  BY TypesOf DEF SoftDelete, Onboarding
<1> QED
  BY <1>1, <1>2, <1>3, <1>4, RowsStep DEF SoftDelete

----------------------------------------------------------------------------
(* The steps of a request *)

LEMMA EnterStep == ASSUME IInv, NEW r \in Requests, Enter(r) \/ Retry(r) PROVE IInv'
<1>1. PICK s \in {"approve", "lookup"} : Go(r, s)
  BY DEF Enter, Retry
<1>2. UNCHANGED <<onboarding, contracts, storage, profiles, mails, failures>>
  BY DEF Enter, Retry
<1>3. s \in Steps
  BY <1>1 DEF Steps
<1>4. Holds(r)' /\ requests'[r].step \notin Owning
  BY <1>1, <1>3, Gone DEF Holds, Rendering, Announcing, Owning
<1> QED
  BY <1>1, <1>2, <1>3, <1>4, Gone, TypesOf, MoveStep

LEMMA AutoApproveStep == ASSUME IInv, NEW r \in Requests, AutoApprove(r) PROVE IInv'
<1>1. CASE End(r)
  <2>1. CASE UNCHANGED onboarding
    BY <1>1, <2>1, TypesOf, EndStep DEF AutoApprove
  <2>2. CASE Go(r, "lookup")
    BY <1>1, <2>2, Gone, Ended DEF Steps
  <2> QED
    BY <2>1, <2>2 DEF AutoApprove
<1>2. CASE Go(r, "lookup") /\ onboarding' = [onboarding EXCEPT !.status = "approved"]
  <2>1. /\ onboarding' \in Onboarding /\ onboarding'.data = onboarding.data
        /\ onboarding'.status = "approved"
    BY <1>2, TypesOf DEF Onboarding, OnboardingStatus
  <2>2. "lookup" \in Steps
    BY DEF Steps
  <2>3. Holds(r)' /\ requests'[r].step \notin Owning
    BY <1>2, <2>2, Gone DEF Holds, Rendering, Announcing, Owning
  <2> QED
    BY <1>2, <2>1, <2>2, <2>3, Gone, TypesOf, MoveStep DEF AutoApprove
<1> QED
  BY <1>1, <1>2 DEF AutoApprove

LEMMA LookupStep == ASSUME IInv, NEW r \in Requests, Lookup(r) PROVE IInv'
<1>1. UNCHANGED <<onboarding, contracts, storage, profiles, mails, failures>>
  BY DEF Lookup
<1>2. CASE End(r)
  BY <1>1, <1>2, TypesOf, EndStep
<1>3. CASE Go(r, "load")
  <2>1. "load" \in Steps
    BY DEF Steps
  <2>2. Holds(r)' /\ requests'[r].step \notin Owning
    BY <1>3, <2>1, Gone DEF Holds, Rendering, Announcing, Owning
  <2> QED
    BY <1>1, <1>3, <2>1, <2>2, Gone, TypesOf, MoveStep
<1>4. ASSUME NEW g \in Generations, Deliverable(g),
             requests' = [requests EXCEPT ![r].step = "profile", ![r].gen = g]
      PROVE  IInv'
  <2>1. /\ requests' \in [Requests -> Request]
        /\ requests'[r].step = "profile" /\ requests'[r].gen = g
        /\ \A q \in Requests \ {r} : requests'[q] = requests[q]
    BY <1>4, TypesOf DEF Request, Steps
  <2>2. contracts[g].status # "absent" /\ contracts[g].signer = "live"
    BY <1>4 DEF Deliverable, Live, Exists
  <2>3. Holds(r)' /\ requests'[r].step \notin Owning
    BY <1>1, <2>1, <2>2 DEF Holds, Rendering, Announcing, Owning
  <2> QED
    BY <1>1, <2>1, <2>2, <2>3, TypesOf, MoveStep
<1> QED
  BY <1>2, <1>3, <1>4 DEF Lookup

LEMMA LoadStep == ASSUME IInv, NEW r \in Requests, Load(r) PROVE IInv'
<1>1. UNCHANGED <<onboarding, contracts, storage, profiles, mails, failures>>
  BY DEF Load
<1>2. CASE End(r)
  BY <1>1, <1>2, TypesOf, EndStep
<1>3. ASSUME onboarding.status = "approved", NEW g \in Generations, Fresh(g),
             requests' = [requests EXCEPT ![r] = [step |-> "put", gen |-> g, data |-> onboarding.data]]
      PROVE  IInv'
  <2>1. [step |-> "put", gen |-> g, data |-> onboarding.data] \in Request
    BY TypesOf DEF Onboarding, Request, Steps
  <2>2. /\ requests' \in [Requests -> Request]
        /\ requests'[r].step = "put" /\ requests'[r].gen = g /\ requests'[r].data = onboarding.data
        /\ \A q \in Requests \ {r} : requests'[q] = requests[q]
    BY <1>3, <2>1, TypesOf
  <2>3. contracts[g].status = "absent" /\ \A q \in Requests : requests[q].gen # g
    BY <1>3 DEF Fresh, Exists
  <2>4. Holds(r)' /\ requests'[r].step \notin Owning
    BY <1>1, <1>3, <2>2, <2>3 DEF Holds, Rendering, Announcing, Owning
  <2> QED
    BY <1>1, <2>2, <2>3, <2>4, TypesOf, MoveStep
<1> QED
  BY <1>2, <1>3 DEF Load

\* Steps of a run that leave the row alone.
LEMMA RunStep ==
  ASSUME IInv, NEW r \in Requests,
         PutPDF(r) \/ UndoPut(r) \/ DeletePDF(r) \/ ReadToken(r) \/ CreateFails(r)
            \/ SignerFails(r) \/ DeleteRowFails(r)
  PROVE  IInv'
<1>1. UNCHANGED <<onboarding, contracts, profiles, mails>> /\ failures' \in 0 .. MaxFailures
  BY TypesOf, FailCounts DEF PutPDF, UndoPut, DeletePDF, ReadToken, CreateFails, SignerFails, DeleteRowFails
<1>2. Holds(r) /\ requests[r].gen \in Generations /\ requests[r].step \notin {"idle", "approve", "lookup", "load"}
  BY DEF IInv, Holds, PutPDF, UndoPut, DeletePDF, ReadToken, CreateFails, SignerFails, DeleteRowFails, At
<1>3. storage' \subseteq Generations
  BY <1>2, TypesOf DEF PutPDF, UndoPut, DeletePDF, ReadToken, CreateFails, SignerFails, DeleteRowFails
<1>4. CASE End(r)
  BY <1>1, <1>3, <1>4, EndStep
<1>5. ASSUME NEW s \in {"create", "undo", "profile", "delete_row", "delete_pdf"}, Go(r, s),
             s = "create" => requests[r].step = "put",
             s = "profile" => contracts[requests[r].gen].signer = "live",
             s = "delete_row" => requests[r].step \in Owning
      PROVE  IInv'
  <2>1. s \in Steps
    BY DEF Steps
  <2>2. /\ requests' \in [Requests -> Request]
        /\ requests'[r].step = s /\ requests'[r].gen = requests[r].gen
        /\ requests'[r].data = requests[r].data
        /\ \A q \in Requests \ {r} : requests'[q] = requests[q]
    BY <1>5, <2>1, Gone
  <2>3. Holds(r)'
    <3>1. s = "create" => \A q \in Requests : requests'[q].gen = requests'[r].gen => q = r
      BY <1>2, <1>5, <2>2 DEF Holds, Rendering
    <3> QED
      BY <1>1, <1>2, <1>5, <2>2, <3>1 DEF Holds, Rendering, Announcing
  <2>4. requests'[r].step \in Owning => requests[r].step \in Owning
    BY <1>5, <2>2 DEF Owning
  <2> QED
    BY <1>1, <1>3, <2>2, <2>3, <2>4, TypesOf, MoveStep
<1>6. \/ End(r)
      \/ \E s \in {"create", "undo", "profile", "delete_row", "delete_pdf"} :
            /\ Go(r, s)
            /\ s = "create" => requests[r].step = "put"
            /\ s = "profile" => contracts[requests[r].gen].signer = "live"
            /\ s = "delete_row" => requests[r].step \in Owning
  BY DEF PutPDF, UndoPut, DeletePDF, ReadToken, CreateFails, SignerFails, DeleteRowFails, At, Owning
<1> QED
  BY <1>4, <1>5, <1>6

LEMMA AnnounceStep == ASSUME IInv, NEW r \in Requests, EnsureProfile(r) \/ EnqueueSignatureMail(r) PROVE IInv'
<1>1. UNCHANGED <<onboarding, contracts, storage, failures>> /\ Holds(r)
      /\ requests[r].step \in {"profile", "mail"}
  BY DEF EnsureProfile, EnqueueSignatureMail, IInv, At
<1>2. requests[r].gen \in Generations
  BY <1>1 DEF Holds
<1>3. CASE End(r)
  <2>1. UNCHANGED <<profiles, mails>>
    BY <1>3, Ended, Gone DEF EnsureProfile, EnqueueSignatureMail, Steps
  <2> QED
    BY <1>1, <1>3, <2>1, TypesOf, EndStep
<1>4. CASE EnsureProfile(r) /\ Live(requests[r].gen) /\ Go(r, "mail") /\ profiles' = profiles \cup {requests[r].gen}
  <2>1. "mail" \in Steps
    BY DEF Steps
  <2>2. requests[r].step = "profile" /\ contracts[requests[r].gen].status # "absent" /\ mails' = mails
    BY <1>4 DEF EnsureProfile, At, Live, Exists
  <2>3. Holds(r)' /\ requests'[r].step \notin Owning
    BY <1>1, <1>2, <1>4, <2>1, <2>2, Gone DEF Holds, Rendering, Announcing, Owning
  <2> QED
    BY <1>1, <1>2, <1>4, <2>1, <2>2, <2>3, Gone, TypesOf, MoveStep
<1>5. CASE EnqueueSignatureMail(r)
  <2>1. "mark" \in Steps
    BY DEF Steps
  <2>2. /\ requests[r].step = "mail" /\ profiles' = profiles /\ Go(r, "mark")
        /\ mails' \in MailsType /\ mails'[requests[r].gen] # "none"
        /\ \A g \in Generations : mails[g] # "none" => mails'[g] # "none"
    BY <1>2, <1>5, TypesOf DEF EnqueueSignatureMail, At, MailsType
  <2>3. Holds(r)' /\ requests'[r].step \notin Owning
    BY <1>1, <1>2, <2>1, <2>2, Gone DEF Holds, Rendering, Announcing, Owning
  <2> QED
    BY <1>1, <2>1, <2>2, <2>3, Gone, TypesOf, MoveStep
<1> QED
  BY <1>3, <1>4, <1>5 DEF EnsureProfile, Announceable

\* The row is inserted only when there is none, and the data of the run are
\* still the approved ones.
LEMMA CreateStep == ASSUME IInv, NEW r \in Requests, CreateContract(r) PROVE IInv'
<1>1. /\ UNCHANGED <<onboarding, storage, profiles, mails, failures>> /\ requests[r].step = "create"
      /\ Holds(r)
  BY DEF CreateContract, At, IInv
<1> DEFINE g == requests[r].gen
<1>2. /\ g \in Generations /\ onboarding.status = "approved" /\ requests[r].data = onboarding.data
      /\ contracts[g].status = "absent"
      /\ \A q \in Requests : requests[q].gen = g => q = r
  BY <1>1 DEF Holds, Rendering
<1>3. CASE ~MayCreate
  <2>1. contracts' = contracts /\ Go(r, "undo") /\ "undo" \in Steps
    BY <1>3 DEF CreateContract, Steps
  <2>2. Holds(r)' /\ requests'[r].step \notin Owning
    BY <1>1, <1>2, <2>1, Gone DEF Holds, Rendering, Announcing, Owning
  <2> QED
    BY <1>1, <2>1, <2>2, Gone, TypesOf, MoveStep
<1>4. CASE MayCreate
  <2> DEFINE new == [status |-> "generated", data |-> requests[r].data, signer |-> "none", deleted |-> FALSE]
  <2>1. contracts' = [contracts EXCEPT ![g] = new] /\ Go(r, "signer") /\ "signer" \in Steps
    BY <1>4 DEF CreateContract, Steps
  <2>2. new \in Contract
    BY TypesOf DEF Contract, Request
  <2>3. /\ contracts' \in [Generations -> Contract]
        /\ contracts'[g].status = "generated" /\ contracts'[g].data = onboarding.data
        /\ \A h \in Generations \ {g} : contracts'[h] = contracts[h] /\ contracts[h].status = "absent"
    BY <1>2, <1>4, <2>1, <2>2, TypesOf DEF MayCreate, Exists
  <2>4. /\ requests' \in [Requests -> Request]
        /\ requests'[r].step = "signer" /\ requests'[r].gen = g
        /\ \A q \in Requests \ {r} : requests'[q] = requests[q]
    BY <2>1, Gone
  <2> HIDE DEF new, g
  <2>5. TypeOK'
    BY <1>1, <2>3, <2>4, TypesOf DEF TypeOK, MailsType
  <2>6. ContractMatchesData' /\ DeliverySound'
    BY <1>1, <1>2, <2>3 DEF ContractMatchesData, DeliverySound, OneContract, SentIsAnnounced, Exists
  <2>7. ASSUME NEW q \in Requests PROVE Holds(q)'
    <3>1. CASE q = r
      BY <1>2, <2>3, <2>4, <3>1 DEF Holds, Rendering, Announcing
    <3>2. CASE q # r
      <4>1. requests'[q] = requests[q] /\ requests[q].gen # g /\ Holds(q)
        BY <1>2, <2>4, <3>2 DEF IInv
      <4>2. requests[q].gen \in Generations => contracts'[requests[q].gen] = contracts[requests[q].gen]
        BY <2>3, <4>1
      <4>3. requests[q].step \in Rendering => \A p \in Requests : requests'[p].gen = requests[q].gen => p = q
        BY <2>4, <4>1 DEF Holds, g
      <4> QED
        BY <1>1, <4>1, <4>2, <4>3 DEF Holds, Rendering, Announcing
    <3> QED
      BY <3>1, <3>2
  <2>8. OwnRun'
    BY <1>2, <2>4 DEF IInv, OwnRun
  <2> QED
    BY <2>5, <2>6, <2>7, <2>8 DEF IInv, ContractSound
<1> QED
  BY <1>3, <1>4

LEMMA AddSignerStep == ASSUME IInv, NEW r \in Requests, AddSigner(r) PROVE IInv'
<1>1. /\ UNCHANGED <<onboarding, storage, profiles, mails, failures>> /\ requests[r].step = "signer"
      /\ Holds(r) /\ Go(r, "token") /\ "token" \in Steps
      /\ contracts' = [contracts EXCEPT ![requests[r].gen].signer = "live"]
  BY DEF AddSigner, At, IInv, Steps
<1> DEFINE g == requests[r].gen
<1>2. g \in Generations /\ contracts[g].status # "absent"
  BY <1>1 DEF Holds
<1>3. /\ contracts' \in [Generations -> Contract]
      /\ \A h \in Generations : /\ contracts'[h].status = contracts[h].status
                                /\ contracts'[h].data = contracts[h].data
                                /\ contracts[h].signer # "none" => contracts'[h].signer # "none"
  BY <1>1, <1>2, TypesOf DEF Contract
<1>4. /\ requests' \in [Requests -> Request]
      /\ requests'[r].step = "token" /\ requests'[r].gen = g
      /\ \A q \in Requests \ {r} : requests'[q] = requests[q]
  BY <1>1, Gone
<1> HIDE DEF g
<1>5. TypeOK'
  BY <1>1, <1>3, <1>4, TypesOf DEF TypeOK, MailsType
<1>6. ContractMatchesData' /\ DeliverySound'
  BY <1>1, <1>3 DEF IInv, ContractSound, ContractMatchesData, DeliverySound, OneContract, SentIsAnnounced, Exists
<1>7. ASSUME NEW q \in Requests PROVE Holds(q)'
  <2>1. CASE q = r
    BY <1>2, <1>3, <1>4, <2>1 DEF Holds, Rendering, Announcing
  <2>2. CASE q # r
    <3>1. requests'[q] = requests[q] /\ Holds(q)
      BY <1>4, <2>2 DEF IInv
    <3>2. requests[q].step \in Rendering => \A p \in Requests : requests'[p].gen = requests[q].gen => p = q
      BY <1>4, <3>1 DEF Holds, g
    <3> QED
      BY <1>1, <1>3, <3>1, <3>2 DEF Holds, Rendering, Announcing
  <2> QED
    BY <2>1, <2>2
<1>8. OwnRun'
  BY <1>1, <1>4 DEF IInv, OwnRun, Owning, g
<1> QED
  BY <1>5, <1>6, <1>7, <1>8 DEF IInv, ContractSound

\* The cleanup removes only what its own run inserted and nobody announced.
LEMMA DeleteRowStep == ASSUME IInv, NEW r \in Requests, DeleteRow(r) PROVE IInv'
<1>1. /\ UNCHANGED <<onboarding, storage, profiles, mails, failures>> /\ requests[r].step = "delete_row"
      /\ Holds(r) /\ Go(r, "delete_pdf") /\ "delete_pdf" \in Steps
  BY DEF DeleteRow, At, IInv, Steps
<1> DEFINE g == requests[r].gen
<1>2. g \in Generations
  BY <1>1 DEF Holds
<1>3. /\ requests' \in [Requests -> Request]
      /\ requests'[r].step = "delete_pdf" /\ requests'[r].gen = g
      /\ \A q \in Requests \ {r} : requests'[q] = requests[q]
  BY <1>1, Gone
<1>4. Holds(r)' /\ requests'[r].step \notin Owning
  BY <1>2, <1>3 DEF Holds, Rendering, Announcing, Owning
<1>5. CASE ~Removes(g)
  <2>1. contracts' = contracts
    BY <1>5 DEF DeleteRow
  <2> QED
    BY <1>1, <1>3, <1>4, <2>1, TypesOf, MoveStep
<1>6. CASE Removes(g)
  <2>1. NoContract \in Contract /\ NoContract.status = "absent"
    BY DEF NoContract, Contract
  <2>2. contracts' = [contracts EXCEPT ![g] = NoContract]
    BY <1>6 DEF DeleteRow
  <2>3. /\ contracts' \in [Generations -> Contract] /\ contracts'[g].status = "absent"
        /\ \A h \in Generations \ {g} : contracts'[h] = contracts[h]
        /\ g \notin profiles /\ contracts[g].status # "absent"
    BY <1>2, <1>6, <2>1, <2>2, TypesOf DEF Removes
  <2> HIDE DEF g
  <2>4. TypeOK'
    BY <1>1, <1>3, <2>3, TypesOf DEF TypeOK, MailsType
  <2>5. ContractMatchesData' /\ DeliverySound'
    BY <1>1, <2>3 DEF IInv, ContractSound, ContractMatchesData, DeliverySound, OneContract, SentIsAnnounced, Exists
  <2>6. ASSUME NEW q \in Requests PROVE Holds(q)'
    <3>1. CASE q = r
      BY <1>4, <3>1
    <3>2. CASE q # r
      <4>1. requests'[q] = requests[q] /\ Holds(q)
        BY <1>3, <3>2 DEF IInv
      <4>2. requests[q].step \in {"signer", "token"} \cup Announcing \cup Rendering => requests[q].gen # g
        BY <1>1, <2>3, <3>2, <4>1 DEF IInv, OwnRun, Owning, Holds, g
      <4>3. requests[q].step \in Rendering => \A p \in Requests : requests'[p].gen = requests[q].gen => p = q
        BY <1>3, <4>1 DEF Holds, g
      <4>4. requests[q].gen \in Generations /\ requests[q].gen # g =>
              contracts'[requests[q].gen] = contracts[requests[q].gen]
        BY <2>3
      <4> QED
        BY <1>1, <2>3, <4>1, <4>2, <4>3, <4>4 DEF Holds, Rendering, Announcing
    <3> QED
      BY <3>1, <3>2
  <2>7. OwnRun'
    BY <1>3, <1>4 DEF IInv, OwnRun
  <2> QED
    BY <2>4, <2>5, <2>6, <2>7 DEF IInv, ContractSound
<1> QED
  BY <1>5, <1>6

LEMMA MarkSentStep == ASSUME IInv, NEW r \in Requests, MarkSent(r) PROVE IInv'
<1>1. /\ UNCHANGED <<onboarding, storage, profiles, mails, failures>> /\ requests[r].step = "mark"
      /\ Holds(r) /\ End(r)
  BY DEF MarkSent, At, IInv
<1> DEFINE g == requests[r].gen
<1>2. /\ g \in Generations /\ g \in profiles /\ mails[g] # "none"
      /\ contracts[g].status # "absent" /\ contracts[g].signer # "none"
  BY <1>1 DEF Holds, Announcing
<1>3. CASE ~MaySend(g)
  BY <1>1, <1>3, TypesOf, EndStep DEF MarkSent
<1>4. CASE MaySend(g)
  <2>1. contracts' = [contracts EXCEPT ![g].status = "sent"]
    BY <1>4 DEF MarkSent
  <2>2. /\ contracts' \in [Generations -> Contract] /\ contracts'[g].status = "sent"
        /\ \A h \in Generations : /\ contracts'[h].data = contracts[h].data
                                  /\ contracts'[h].signer = contracts[h].signer
                                  /\ h # g => contracts'[h].status = contracts[h].status
    BY <1>2, <2>1, TypesOf DEF Contract
  <2>3. /\ requests' \in [Requests -> Request] /\ requests'[r].step = "idle" /\ requests'[r].gen = NoGeneration
        /\ \A q \in Requests \ {r} : requests'[q] = requests[q]
    BY <1>1, Ended
  <2> HIDE DEF g
  <2>4. TypeOK'
    BY <1>1, <2>2, <2>3, TypesOf DEF TypeOK, MailsType
  <2>5. ContractMatchesData' /\ DeliverySound'
    BY <1>1, <1>2, <2>2 DEF IInv, ContractSound, ContractMatchesData, DeliverySound, OneContract, SentIsAnnounced, Exists
  <2>6. ASSUME NEW q \in Requests PROVE Holds(q)'
    <3>1. CASE q = r
      BY <2>3, <3>1 DEF Holds, Rendering, Announcing
    <3>2. CASE q # r
      <4>1. requests'[q] = requests[q] /\ Holds(q)
        BY <2>3, <3>2 DEF IInv
      <4>2. requests[q].step \in Rendering =>
              requests[q].gen \in Generations /\ \A p \in Requests : requests'[p].gen = requests[q].gen => p = q
        BY <2>3, <4>1 DEF Holds, Rendering
      <4> QED
        BY <1>1, <1>2, <2>2, <4>1, <4>2 DEF Holds, Rendering, Announcing
    <3> QED
      BY <3>1, <3>2
  <2>7. OwnRun'
    BY <2>3 DEF IInv, OwnRun, Owning
  <2> QED
    BY <2>4, <2>5, <2>6, <2>7 DEF IInv, ContractSound
<1> QED
  BY <1>3, <1>4

LEMMA InterruptStep == ASSUME IInv, NEW r \in Requests, Interrupt(r) PROVE IInv'
BY TypesOf, FailCounts, EndStep DEF Interrupt

LEMMA StepIInv == IInv /\ [Next]_vars => IInv'
<1> SUFFICES ASSUME IInv, [Next]_vars PROVE IInv'
  OBVIOUS
<1>1. CASE UNCHANGED vars
  <2>1. TypeOK'
    BY <1>1 DEF vars, IInv, ContractSound, TypeOK
  <2>2. ContractMatchesData' /\ DeliverySound'
    BY <1>1 DEF vars, IInv, ContractSound, ContractMatchesData, DeliverySound, OneContract, SentIsAnnounced, Exists
  <2>3. OwnRun' /\ \A r \in Requests : Holds(r)'
    BY <1>1 DEF vars, IInv, OwnRun, Holds
  <2> QED
    BY <2>1, <2>2, <2>3 DEF IInv, ContractSound
<1>2. CASE Next
  <2>1. ASSUME NEW r \in Requests, Enter(r) \/ Retry(r) \/ Proceed(r) \/ Failure(r) PROVE IInv'
    BY <2>1, EnterStep, AutoApproveStep, LookupStep, LoadStep, RunStep, CreateStep, AddSignerStep,
       DeleteRowStep, AnnounceStep, MarkSentStep, InterruptStep
    DEF Proceed, Generate, Failure
  <2>2. ASSUME NEW g \in Generations, Sign(g) PROVE IInv'
    BY <2>2, SignStep
  <2> QED
    BY <1>2, <2>1, <2>2, OnboardingStep, SoftDeleteStep DEF Next
<1> QED
  BY <1>1, <1>2

----------------------------------------------------------------------------
(* The theorems *)

\* What the requests hold between their steps stays true.
THEOREM Invariant == Spec => []IInv
<1> QED
  BY InitIInv, StepIInv, PTL DEF Spec

\* However many requests run the generator at once and wherever they are cut
\* off, there is one contract at most, it was rendered from the data that are
\* approved, and it is sent only once profile and e-mail exist.
THEOREM ContractIsSound == Spec => []ContractSound
<1>1. IInv => ContractSound
  BY DEF IInv
<1> QED
  BY <1>1, Invariant, PTL

\* No late request takes a signature back: MarkSent and the cleanup look at the
\* status in the statement that writes.
THEOREM SignaturesStay == Spec => SignedStays
<1>1. ASSUME IInv, [Next]_vars, NEW g \in Generations, contracts[g].status = "signed"
      PROVE  contracts'[g].status = "signed" /\ contracts'[g].data = contracts[g].data
  <2> USE <1>1
  <2>1. contracts \in [Generations -> Contract]
    BY TypesOf
  <2>2. CASE contracts' = contracts
    BY <2>2
  <2>3. ASSUME NEW r \in Requests, CreateContract(r)
        PROVE  contracts'[g].status = "signed" /\ contracts'[g].data = contracts[g].data
    BY <2>2, <2>3 DEF CreateContract, MayCreate, Exists
  <2>4. ASSUME NEW r \in Requests, AddSigner(r) \/ DeleteRow(r) \/ MarkSent(r)
        PROVE  contracts'[g].status = "signed" /\ contracts'[g].data = contracts[g].data
    <3>1. ASSUME AddSigner(r) PROVE contracts' = [contracts EXCEPT ![requests[r].gen].signer = "live"]
      BY <3>1 DEF AddSigner
    <3>2. ASSUME DeleteRow(r), requests[r].gen = g PROVE contracts' = contracts
      BY <3>2 DEF DeleteRow, Removes
    <3>3. ASSUME MarkSent(r), requests[r].gen = g PROVE contracts' = contracts
      BY <3>3 DEF MarkSent, MaySend
    <3> QED
      BY <2>1, <2>4, <3>1, <3>2, <3>3 DEF DeleteRow, MarkSent, Contract
  <2>5. ASSUME NEW h \in Generations, Sign(h)
        PROVE  contracts'[g].status = "signed" /\ contracts'[g].data = contracts[g].data
    BY <2>1, <2>5 DEF Sign, Contract
  <2>6. CASE SoftDelete
    BY <2>1, <2>6 DEF SoftDelete, Contract
  <2> QED
    BY <2>2, <2>3, <2>4, <2>5, <2>6 DEF Next, vars, Proceed, Generate, Failure, Save, Submit, Review,
       Enter, Retry, AutoApprove, Lookup, Load, PutPDF, UndoPut, ReadToken, DeletePDF, EnsureProfile,
       EnqueueSignatureMail, CreateFails, SignerFails, DeleteRowFails, Interrupt
<1>2. IInv /\ [Next]_vars =>
        [\A g \in Generations : contracts[g].status = "signed" =>
            /\ contracts'[g].status = "signed"
            /\ contracts'[g].data = contracts[g].data]_vars
  BY <1>1
<1> QED
  BY <1>2, Invariant, PTL DEF Spec, SignedStays

----------------------------------------------------------------------------
(* ContractDelivery implements Agreement *)

\* What is approved is complete, since only complete data are submitted; and a
\* request announces no contract after the removal, since it has looked at the
\* onboarding after the contract was there, and a removal marks both.
Complete == onboarding.status \notin Editable => onboarding.data \in Data
NothingSentLate ==
    \A r \in Requests :
        requests[r].step \in Announcing /\ Live(requests[r].gen) => ~onboarding.deleted
AgreedInv == Complete /\ NothingSentLate

LEMMA InitAgreed == Init => AgreedInv
BY DEF Init, AgreedInv, Complete, NothingSentLate, Editable, Idle, Announcing

\* A step that moves a request on, with the contracts as they are or changed
\* by it.
LEMMA StillAgreed ==
  ASSUME IInv, AgreedInv, onboarding' = onboarding,
         NEW r \in Requests, \A q \in Requests \ {r} : requests'[q] = requests[q],
         \A g \in Generations : contracts[g].status # "absent" /\ Live(g)' => Live(g),
         requests'[r].step \in Announcing =>
            /\ requests'[r].gen = requests[r].gen
            /\ \/ requests[r].step \in Announcing
               \/ ~onboarding.deleted
  PROVE  AgreedInv'
<1>1. Complete'
  BY DEF AgreedInv, Complete
<1>2. ASSUME NEW q \in Requests, requests'[q].step \in Announcing, Live(requests[q].gen)', onboarding.deleted
      PROVE  FALSE
  <2>1. requests[q].step \in Announcing /\ requests'[q].gen = requests[q].gen
    BY <1>2
  <2>2. requests[q].gen \in Generations /\ contracts[requests[q].gen].status # "absent"
    BY <2>1 DEF IInv, Holds, Announcing
  <2>3. Live(requests[q].gen)
    BY <1>2, <2>1, <2>2
  <2> QED
    BY <1>2, <2>1, <2>3 DEF AgreedInv, NothingSentLate
<1> QED
  BY <1>1, <1>2 DEF AgreedInv, NothingSentLate

\* The steps of a request.
LEMMA RequestAgreed ==
  ASSUME IInv, AgreedInv, NEW r \in Requests, Enter(r) \/ Retry(r) \/ Proceed(r) \/ Failure(r),
         ~AutoApprove(r)
  PROVE  AgreedInv'
<1>1. requests \in [Requests -> Request] /\ contracts \in [Generations -> Contract]
  BY TypesOf
<1>2. onboarding' = onboarding
  BY DEF Enter, Retry, Proceed, Failure, Generate, Lookup, Load, PutPDF, CreateContract, UndoPut, AddSigner,
     ReadToken, DeleteRow, DeletePDF, EnsureProfile, EnqueueSignatureMail, MarkSent, CreateFails, SignerFails,
     DeleteRowFails, Interrupt
<1>3. \A q \in Requests \ {r} : requests'[q] = requests[q]
  BY <1>1 DEF Enter, Retry, Proceed, Failure, Generate, Lookup, Load, PutPDF, CreateContract, UndoPut, AddSigner,
     ReadToken, DeleteRow, DeletePDF, EnsureProfile, EnqueueSignatureMail, MarkSent, CreateFails, SignerFails,
     DeleteRowFails, Interrupt, Go, End
<1>4. ASSUME requests'[r].step \in Announcing
      PROVE  /\ requests'[r].gen = requests[r].gen
             /\ requests[r].step \in Announcing \/ ~onboarding.deleted
  <2>1. \A step \in Steps : Go(r, step) => requests'[r].step = step /\ requests'[r].gen = requests[r].gen
    BY <1>1 DEF Go, Request
  <2>2. ~End(r)
    BY <1>1, <1>4 DEF End, Idle, Announcing
  <2>3. CASE EnsureProfile(r)
    BY <2>1, <2>2, <2>3 DEF EnsureProfile, Announceable, Steps
  <2>4. CASE EnqueueSignatureMail(r)
    BY <2>1, <2>4 DEF EnqueueSignatureMail, At, Announcing, Steps
  <2>5. ASSUME Go(r, "approve") \/ Go(r, "lookup") \/ Go(r, "load") \/ Go(r, "create") \/ Go(r, "undo")
                  \/ Go(r, "signer") \/ Go(r, "token") \/ Go(r, "profile") \/ Go(r, "delete_row")
                  \/ Go(r, "delete_pdf")
        PROVE  FALSE
    BY <1>4, <2>1, <2>5 DEF Announcing, Steps
  <2>6. CASE Lookup(r)
    <3>1. ASSUME NEW g \in Generations, requests' = [requests EXCEPT ![r].step = "profile", ![r].gen = g]
          PROVE  FALSE
      BY <1>1, <1>4, <3>1 DEF Announcing, Request
    <3> QED
      BY <2>2, <2>5, <2>6, <3>1 DEF Lookup
  <2>7. CASE Load(r)
    <3>1. ASSUME NEW g \in Generations, NEW d,
                 requests' = [requests EXCEPT ![r] = [step |-> "put", gen |-> g, data |-> d]]
          PROVE  FALSE
      BY <1>1, <1>4, <3>1 DEF Announcing
    <3> QED
      BY <2>2, <2>7, <3>1 DEF Load
  <2>8. CASE ReadToken(r)
    BY <2>5, <2>8 DEF ReadToken
  <2> QED
    BY <2>2, <2>3, <2>4, <2>5, <2>6, <2>7, <2>8 DEF Enter, Retry, Proceed, Failure, Generate, PutPDF,
       CreateContract, UndoPut, AddSigner, DeleteRow, DeletePDF, MarkSent, CreateFails, SignerFails,
       DeleteRowFails, Interrupt
<1>5. ASSUME NEW g \in Generations, contracts[g].status # "absent", Live(g)' PROVE Live(g)
  <2>1. CASE contracts' = contracts
    BY <1>5, <2>1 DEF Live, Exists
  <2>2. CASE CreateContract(r)
    BY <1>5, <2>1, <2>2 DEF CreateContract, MayCreate, Exists
  <2>3. CASE AddSigner(r)
    <3>1. contracts'[g].deleted = contracts[g].deleted
      BY <1>1, <2>3 DEF AddSigner, Contract
    <3> QED
      BY <1>5, <3>1 DEF Live, Exists
  <2>4. CASE DeleteRow(r)
    <3>1. contracts'[g] \in {contracts[g], NoContract}
      BY <1>1, <2>4 DEF DeleteRow
    <3> QED
      BY <1>5, <3>1 DEF Live, Exists, NoContract
  <2>5. CASE MarkSent(r)
    <3>1. contracts'[g].deleted = contracts[g].deleted
      BY <1>1, <2>5 DEF MarkSent, Contract
    <3> QED
      BY <1>5, <3>1 DEF Live, Exists
  <2> QED
    BY <2>1, <2>2, <2>3, <2>4, <2>5 DEF Enter, Retry, Proceed, Failure, Generate, Lookup, Load, PutPDF, UndoPut,
       ReadToken, DeletePDF, EnsureProfile, EnqueueSignatureMail, CreateFails, SignerFails, DeleteRowFails, Interrupt
<1> QED
  BY <1>2, <1>3, <1>4, <1>5, StillAgreed

LEMMA StepAgreed == IInv /\ AgreedInv /\ [Next]_vars => AgreedInv'
<1> SUFFICES ASSUME IInv, AgreedInv, [Next]_vars PROVE AgreedInv'
  OBVIOUS
<1>1. CASE UNCHANGED vars
  BY <1>1 DEF vars, AgreedInv, Complete, NothingSentLate, Live, Exists
<1>2. ASSUME contracts' = contracts, onboarding'.deleted = onboarding.deleted, requests' = requests
      PROVE  NothingSentLate'
  BY <1>2 DEF AgreedInv, NothingSentLate, Live, Exists
<1>3. ASSUME NEW d \in Data, Save(d) PROVE AgreedInv'
  <2>1. Complete' /\ onboarding'.deleted = onboarding.deleted
    BY <1>3, TypesOf DEF Save, Complete, Editable, Onboarding
  <2> QED
    BY <1>2, <1>3, <2>1 DEF Save, AgreedInv
<1>4. CASE Submit
  <2>1. Complete' /\ onboarding'.deleted = onboarding.deleted
    BY <1>4, TypesOf DEF Submit, Complete, Onboarding
  <2> QED
    BY <1>2, <1>4, <2>1 DEF Submit, AgreedInv
<1>5. ASSUME NEW status \in {"under_review", "correction_requested", "approved"}, Review(status) PROVE AgreedInv'
  <2>1. Complete' /\ onboarding'.deleted = onboarding.deleted
    BY <1>5, TypesOf DEF Review, ReviewFrom, Complete, AgreedInv, Editable, Onboarding
  <2> QED
    BY <1>2, <1>5, <2>1 DEF Review, AgreedInv
<1>6. ASSUME NEW r \in Requests, AutoApprove(r) PROVE AgreedInv'
  <2>1. Complete' /\ onboarding'.deleted = onboarding.deleted /\ contracts' = contracts
    BY <1>6, TypesOf DEF AutoApprove, Complete, AgreedInv, Editable, Onboarding
  <2>2. ASSUME NEW q \in Requests, requests'[q].step \in Announcing
        PROVE  requests'[q] = requests[q]
    BY <1>6, <2>2, TypesOf DEF AutoApprove, Go, End, Idle, Announcing, Request
  <2>3. NothingSentLate'
    BY <2>1, <2>2 DEF AgreedInv, NothingSentLate, Live, Exists
  <2> QED
    BY <2>1, <2>3 DEF AgreedInv
<1>7. ASSUME NEW g \in Generations, Sign(g) PROVE AgreedInv'
  <2>1. Complete'
    BY <1>7 DEF Sign, AgreedInv, Complete
  <2>2. \A h \in Generations : Live(h)' => Live(h)
    BY <1>7, TypesOf DEF Sign, Deliverable, Live, Exists, Contract
  <2>3. \A r \in Requests : requests[r].step \in Announcing => requests[r].gen \in Generations
    BY DEF IInv, Holds, Announcing
  <2>4. NothingSentLate'
    BY <1>7, <2>2, <2>3 DEF Sign, AgreedInv, NothingSentLate
  <2> QED
    BY <2>1, <2>4 DEF AgreedInv
<1>8. CASE SoftDelete
  <2>1. Complete'
    BY <1>8, TypesOf DEF SoftDelete, AgreedInv, Complete, Onboarding
  <2>2. \A g \in Generations : ~Live(g)'
    BY <1>8, TypesOf DEF SoftDelete, Live, Exists, Contract
  <2>3. \A r \in Requests : requests[r].step \in Announcing => requests[r].gen \in Generations
    BY DEF IInv, Holds, Announcing
  <2>4. NothingSentLate'
    BY <1>8, <2>2, <2>3 DEF SoftDelete, NothingSentLate
  <2> QED
    BY <2>1, <2>4 DEF AgreedInv
<1> QED
  BY <1>1, <1>3, <1>4, <1>5, <1>6, <1>7, <1>8, RequestAgreed DEF Next, Proceed

\* The one contract of any rows.
PaperOf(C, g) == [text |-> C[g].data, withdrawn |-> C[g].deleted,
                  status |-> IF C[g].status = "generated" THEN "drawn" ELSE C[g].status]
PapersOf(C) == {PaperOf(C, g) : g \in {h \in Generations : C[h].status # "absent"}}

LEMMA PapersThen == Papers = PapersOf(contracts) /\ Papers' = PapersOf(contracts')
BY DEF Papers, PapersOf, Paper, PaperOf, Exists

LEMMA OnlyPaper ==
  ASSUME NEW C, NEW g \in Generations, C[g].status # "absent",
         \A h \in Generations : C[h].status # "absent" => h = g
  PROVE  PapersOf(C) = {PaperOf(C, g)}
BY DEF PapersOf

LEMMA SamePapers ==
  ASSUME NEW C, NEW D,
         \A g \in Generations : C[g].status = D[g].status /\ C[g].data = D[g].data /\ C[g].deleted = D[g].deleted
  PROVE  PapersOf(C) = PapersOf(D)
BY DEF PapersOf, PaperOf

LEMMA InitAgreement == Init => Agreed!Init
BY DEF Init, Agreed!Init, Approved, Papers, Exists, NoContract

\* A step that changes nothing of the contract but its status.
LEMMA StatusChange ==
  ASSUME IInv, NEW g \in Generations, contracts[g].status # "absent", NEW s \in {"sent", "signed"},
         contracts' = [contracts EXCEPT ![g].status = s]
  PROVE  /\ Papers = {Paper(g)} /\ Papers' = {[Paper(g) EXCEPT !.status = s]}
<1>1. \A h \in Generations : contracts[h].status # "absent" => h = g
  BY DEF IInv, ContractSound, DeliverySound, OneContract, Exists
<1>2. /\ contracts'[g].status = s /\ contracts'[g].data = contracts[g].data
      /\ contracts'[g].deleted = contracts[g].deleted
      /\ \A h \in Generations \ {g} : contracts'[h] = contracts[h]
  BY TypesOf DEF Contract
<1>3. PapersOf(contracts) = {PaperOf(contracts, g)}
  BY <1>1, OnlyPaper
<1>4. PapersOf(contracts') = {PaperOf(contracts', g)}
  BY <1>1, <1>2, OnlyPaper
<1>5. PaperOf(contracts', g) = [Paper(g) EXCEPT !.status = s] /\ PaperOf(contracts, g) = Paper(g)
  BY <1>2 DEF PaperOf, Paper
<1> QED
  BY <1>3, <1>4, <1>5, PapersThen

\* What a step does to the agreement.
Agrees == Agreed!Next \/ UNCHANGED Agreed!vars

LEMMA SameAgreement ==
  ASSUME onboarding' = onboarding,
         \A g \in Generations : /\ contracts'[g].status = contracts[g].status
                                /\ contracts'[g].data = contracts[g].data
                                /\ contracts'[g].deleted = contracts[g].deleted
  PROVE  Agrees
<1>1. Papers' = Papers
  BY SamePapers, PapersThen
<1> QED
  BY <1>1 DEF Agrees, Agreed!vars, Approved

LEMMA OnboardingAgrees ==
  ASSUME IInv, AgreedInv,
         \/ \E d \in Data : Save(d)
         \/ Submit
         \/ \E status \in {"under_review", "correction_requested", "approved"} : Review(status)
         \/ \E r \in Requests : AutoApprove(r)
  PROVE  Agrees
<1>1. contracts' = contracts /\ Papers' = Papers
  BY SamePapers, PapersThen DEF Save, Submit, Review, AutoApprove
<1>2. onboarding'.deleted = onboarding.deleted
  BY TypesOf DEF Save, Submit, Review, AutoApprove, Onboarding
<1>3. CASE onboarding.status = "approved"
  <2>1. onboarding'.status = "approved" /\ onboarding'.data = onboarding.data
    BY <1>3, TypesOf DEF Save, Submit, Review, ReviewFrom, AutoApprove, Onboarding, Editable
  <2> QED
    BY <1>1, <1>2, <1>3, <2>1 DEF Agrees, Agreed!vars, Approved
<1>4. CASE onboarding.status # "approved" /\ onboarding'.status # "approved"
  BY <1>1, <1>2, <1>4 DEF Agrees, Agreed!vars, Approved
<1>5. CASE onboarding.status # "approved" /\ onboarding'.status = "approved"
  <2>1. /\ onboarding'.data = onboarding.data /\ ~onboarding.deleted
        /\ onboarding.status \in {"submitted", "under_review"}
    BY <1>5, TypesOf DEF Save, Submit, Review, ReviewFrom, AutoApprove, Onboarding, Editable
  <2>2. onboarding.data \in Data
    BY <2>1 DEF AgreedInv, Complete, Editable
  <2>3. Agreed!Approve(onboarding.data)
    BY <1>1, <1>2, <1>5, <2>1 DEF Agreed!Approve, Approved
  <2> QED
    BY <2>2, <2>3 DEF Agrees, Agreed!Next
<1> QED
  BY <1>3, <1>4, <1>5

LEMMA CreateAgrees == ASSUME IInv, NEW r \in Requests, CreateContract(r) PROVE Agrees
<1>1. CASE contracts' = contracts
  BY <1>1, SameAgreement DEF CreateContract
<1>2. CASE contracts' # contracts
  <2> DEFINE g == requests[r].gen
  <2>1. /\ g \in Generations /\ onboarding.status = "approved" /\ requests[r].data = onboarding.data
        /\ \A h \in Generations : contracts[h].status = "absent"
    BY <1>2 DEF CreateContract, MayCreate, At, IInv, Holds, Rendering, Exists
  <2>2. /\ contracts'[g] = [status |-> "generated", data |-> onboarding.data, signer |-> "none", deleted |-> FALSE]
        /\ \A h \in Generations \ {g} : contracts'[h] = contracts[h]
    BY <1>2, <2>1, TypesOf DEF CreateContract
  <2>3. Papers = {}
    BY <2>1 DEF Papers, Exists
  <2>4. \A h \in Generations : contracts'[h].status # "absent" => h = g
    BY <2>1, <2>2
  <2>5. Papers' = {PaperOf(contracts', g)}
    <3> HIDE DEF g
    <3>1. contracts'[g].status # "absent"
      BY <2>2
    <3> QED
      BY <2>1, <2>4, <3>1, OnlyPaper, PapersThen
  <2>6. PaperOf(contracts', g) = [text |-> onboarding.data, status |-> "drawn", withdrawn |-> FALSE]
    BY <2>2 DEF PaperOf
  <2>7. Agreed!DrawUp
    BY <2>1, <2>3, <2>5, <2>6 DEF Agreed!DrawUp, Approved, CreateContract
  <2> QED
    BY <2>7 DEF Agrees, Agreed!Next
<1> QED
  BY <1>1, <1>2

LEMMA DeleteRowAgrees == ASSUME IInv, NEW r \in Requests, DeleteRow(r) PROVE Agrees
<1>1. CASE contracts' = contracts
  BY <1>1, SameAgreement DEF DeleteRow
<1>2. CASE contracts' # contracts
  <2> DEFINE g == requests[r].gen
  <2>1. /\ g \in Generations /\ contracts[g].status = "generated"
        /\ contracts' = [contracts EXCEPT ![g] = NoContract]
    BY <1>2 DEF DeleteRow, Removes, At, IInv, Holds
  <2> HIDE DEF g
  <2>2. \A h \in Generations : contracts[h].status # "absent" => h = g
    BY <2>1 DEF IInv, ContractSound, DeliverySound, OneContract, Exists
  <2>3. Papers = {PaperOf(contracts, g)} /\ PaperOf(contracts, g).status = "drawn"
    <3>1. PapersOf(contracts) = {PaperOf(contracts, g)}
      BY <2>1, <2>2, OnlyPaper
    <3> QED
      BY <2>1, <3>1, PapersThen DEF PaperOf
  <2>4. \A h \in Generations : contracts'[h].status = "absent"
    BY <2>1, <2>2, TypesOf DEF NoContract
  <2>5. Papers' = {}
    BY <2>4 DEF Papers, Exists
  <2>6. Agreed!Discard
    BY <2>3, <2>5 DEF Agreed!Discard, Approved, DeleteRow
  <2> QED
    BY <2>6 DEF Agrees, Agreed!Next
<1> QED
  BY <1>1, <1>2

LEMMA MarkSentAgrees == ASSUME IInv, AgreedInv, NEW r \in Requests, MarkSent(r) PROVE Agrees
<1> DEFINE g == requests[r].gen
<1>1. g \in Generations /\ requests[r].step = "mark" /\ onboarding' = onboarding
  BY DEF MarkSent, At, IInv, Holds
<1>2. CASE contracts[g].status = "generated" /\ MaySend(g)
  <2>1. contracts' = [contracts EXCEPT ![g].status = "sent"]
    BY <1>2 DEF MarkSent
  <2>2. Papers = {Paper(g)} /\ Papers' = {[Paper(g) EXCEPT !.status = "sent"]}
    <3> HIDE DEF g
    <3> QED
      BY <1>1, <1>2, <2>1, StatusChange
  <2>3. ~onboarding.deleted /\ ~contracts[g].deleted
    BY <1>1, <1>2 DEF AgreedInv, NothingSentLate, Announcing, MaySend, Live
  <2>4. Paper(g).status = "drawn" /\ ~Paper(g).withdrawn
    BY <1>2, <2>3 DEF Paper
  <2>5. Agreed!Send
    BY <1>1, <2>2, <2>3, <2>4 DEF Agreed!Send, Approved
  <2> QED
    BY <2>5 DEF Agrees, Agreed!Next
<1>3. CASE contracts[g].status # "generated" \/ ~MaySend(g)
  <2>1. \A h \in Generations : /\ contracts'[h].status = contracts[h].status
                               /\ contracts'[h].data = contracts[h].data
                               /\ contracts'[h].deleted = contracts[h].deleted
    <3>1. CASE ~MaySend(g)
      BY <3>1 DEF MarkSent
    <3>2. CASE MaySend(g) /\ contracts[g].status = "sent"
      BY <3>2, TypesOf DEF MarkSent, Contract
    <3> QED
      BY <1>3, <3>1, <3>2 DEF MaySend
  <2> QED
    BY <1>1, <2>1, SameAgreement
<1> QED
  BY <1>2, <1>3

LEMMA SignAgrees == ASSUME IInv, NEW g \in Generations, Sign(g) PROVE Agrees
<1>1. /\ contracts[g].status \in {"generated", "sent"} /\ ~contracts[g].deleted
      /\ contracts' = [contracts EXCEPT ![g].status = "signed"] /\ onboarding' = onboarding
  BY DEF Sign, Deliverable, Live
<1>2. Papers = {Paper(g)} /\ Papers' = {[Paper(g) EXCEPT !.status = "signed"]}
  BY <1>1, StatusChange
<1>3. Paper(g).status \in {"drawn", "sent"} /\ ~Paper(g).withdrawn
  BY <1>1 DEF Paper
<1>4. Agreed!Sign
  BY <1>1, <1>2, <1>3 DEF Agreed!Sign, Approved
<1> QED
  BY <1>4 DEF Agrees, Agreed!Next

LEMMA SoftDeleteAgrees == ASSUME IInv, SoftDelete PROVE Agrees
<1>1. /\ ~onboarding.deleted /\ onboarding'.deleted /\ onboarding'.status = onboarding.status
      /\ onboarding'.data = onboarding.data
  BY TypesOf DEF SoftDelete, Onboarding
<1>2. \A g \in Generations :
         /\ contracts'[g].status = contracts[g].status /\ contracts'[g].data = contracts[g].data
         /\ contracts[g].status # "absent" => contracts'[g].deleted = TRUE
  BY TypesOf DEF SoftDelete, Exists, Contract
<1>3. ASSUME NEW g \in Generations, contracts[g].status # "absent"
      PROVE  PaperOf(contracts', g) = Agreed!Withdrawn(PaperOf(contracts, g))
  <2>1. /\ contracts'[g].status = contracts[g].status /\ contracts'[g].data = contracts[g].data
        /\ contracts'[g].deleted = TRUE
    BY <1>2, <1>3
  <2> QED
    BY <2>1 DEF PaperOf, Agreed!Withdrawn
<1> DEFINE Existing(C) == {h \in Generations : C[h].status # "absent"}
<1>4. PapersOf(contracts') = {Agreed!Withdrawn(c) : c \in PapersOf(contracts)}
  <2>1. Existing(contracts') = Existing(contracts)
    BY <1>2
  <2>2. PapersOf(contracts') = {PaperOf(contracts', g) : g \in Existing(contracts)}
    BY <2>1 DEF PapersOf
  <2>3. {PaperOf(contracts', g) : g \in Existing(contracts)}
          = {Agreed!Withdrawn(PaperOf(contracts, g)) : g \in Existing(contracts)}
    BY <1>3
  <2> QED
    BY <2>2, <2>3 DEF PapersOf
<1>5. Agreed!Remove
  BY <1>1, <1>4, PapersThen DEF Agreed!Remove, Approved
<1> QED
  BY <1>5 DEF Agrees, Agreed!Next

LEMMA StepAgrees == IInv /\ AgreedInv /\ [Next]_vars => [Agreed!Next]_Agreed!vars
<1> SUFFICES ASSUME IInv, AgreedInv, [Next]_vars PROVE Agrees
  BY DEF Agrees
<1>1. CASE UNCHANGED vars
  BY <1>1, SameAgreement DEF vars
<1>2. ASSUME onboarding' = onboarding, contracts' = contracts PROVE Agrees
  BY <1>2, SameAgreement
<1>3. ASSUME NEW r \in Requests, AddSigner(r) PROVE Agrees
  <2>1. \A h \in Generations : /\ contracts'[h].status = contracts[h].status
                               /\ contracts'[h].data = contracts[h].data
                               /\ contracts'[h].deleted = contracts[h].deleted
    BY <1>3, TypesOf DEF AddSigner, Contract
  <2> QED
    BY <1>3, <2>1, SameAgreement DEF AddSigner
<1>4. ASSUME NEW r \in Requests, Enter(r) \/ Retry(r) \/ Proceed(r) \/ Failure(r) PROVE Agrees
  BY <1>2, <1>3, <1>4, OnboardingAgrees, CreateAgrees, DeleteRowAgrees, MarkSentAgrees
  DEF Enter, Retry, Proceed, Failure, Generate, Lookup, Load, PutPDF, UndoPut, ReadToken, DeletePDF,
     EnsureProfile, EnqueueSignatureMail, CreateFails, SignerFails, DeleteRowFails, Interrupt
<1> QED
  BY <1>1, <1>4, OnboardingAgrees, SignAgrees, SoftDeleteAgrees DEF Next

\* However the requests race and wherever they are cut off, delivery, signature
\* and removal together keep to Agreement.
THEOREM RefinesAgreement == Spec => ImplementsAgreement
<1>1. Spec => []AgreedInv
  BY InitAgreed, StepAgreed, Invariant, PTL DEF Spec
<1> QED
  BY <1>1, InitAgreement, StepAgrees, Invariant, PTL DEF Spec, ImplementsAgreement, Agreed!Spec

=============================================================================
