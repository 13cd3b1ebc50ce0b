# Verification of the ViaGate commercial platform

TLA+ models, TLC runs and machine-checked proofs about the platform in this
repository: a Go server over PostgreSQL, S3 and an e-mail provider that takes a
commercial proposal from its first draft to a signed contract and an activated
customer.

## 1. Inventory

The journey: a salesperson drafts a proposal, every save writing the
unpublished *version*; publishing freezes it and gives it a public link; the
customer accepts exactly that version; an *onboarding* collects the contracting
data; once submitted it is approved automatically and a *contract* is generated
(PDF in object storage, SHA-256 in the row); the customer signs with a one-time
code sent by e-mail; a worker produces the *evidence*; the customer fills in
the *activation* data and the operators set the service up.

A request is a sequence of database transactions and storage calls. PostgreSQL
makes each transaction atomic (most are serializable, rows are taken
`for update`), but nothing spans two of them: other requests run in between, and
an error, a closed connection, a 15-second shutdown or a crash can end a request
after any of them. Three goroutines work beside the requests
(`cmd/server/main.go`): the notification worker (every 5 s), the finalization
worker (every 5 s) and the maintenance worker (at start, then hourly).

| Component | State | Operations | Interacts with | Hard part | Correct when |
|---|---|---|---|---|---|
| proposals (`internal/proposals`, editor and public handlers) | proposals, proposal_versions, proposal_items, proposal_acceptances | SaveDraft, template assignment, Publish, PublicByToken, Accept, SoftDeleteCascade | contract templates, onboarding, maintenance | several editors and customers between the steps of one request | one unpublished version, published ones frozen, one acceptance of exactly what was offered |
| maintenance (`internal/maintenance`) | reads and writes rows of others | expire, delete what is old | proposals | runs against editors | lapsed offers end |
| onboarding (`internal/onboarding`) | onboardings, uploaded_documents, sessions, resume tokens, objects | Save, AddDocument, Submit, AutoApprove, Review, RequestCorrection, links | proposals, delivery, outbox | sections merged with a row read before; a file and its row | no save is lost but to an overlapping one, what is submitted is complete and frozen, files and rows agree |
| contract delivery (`contract_delivery.go`, `contracts/generator.go`) | contracts, contract_signers, PDFs | lookup, generate, clean up, send | onboarding, storage, activation, outbox | concurrent and interrupted generations | one contract, of the approved data, delivered in the end |
| signature (`contracts/signing.go`, `signature_handlers.go`) | signature_challenges, signature_events | send code, confirm and sign | outbox, finalization, activation | code, challenge and mail of different requests | only the last code signs; evidence is queued with the signature |
| evidence (`contracts/evidence.go`, `finalization_worker.go`) | contract_finalization_jobs, artifacts, hashes on contracts | claim, produce, record, mark | storage | crash, lease, repeated attempts | recorded once and what was recorded is stored |
| outbox (`internal/notifications`) | notification_outbox | enqueue, claim, send, mark, expire, cancel | everybody | at-least-once delivery, two workers | nothing valid is lost, nothing cancelled is sent |
| activation (`internal/activation`) | activation_profiles, tokens, goods, users, notices | ensure, save, submit, delegate, announce, internal status | contracts, onboarding, outbox | owner, delegates, signature and operators act on their own | setup waits for both parties, is announced in time, works with what was submitted |
| accounts and access (`internal/auth`, `internal/access`) | users, invitations, overrides, sessions, reset tokens, login_failures | bootstrap, invite, accept, update access, permit, log in, recover | all handlers | decisions from what was read before, logins across a revocation | a superadmin remains, links work once, no session outlives its password |
| catalog (`internal/catalog`) | categories, products, dependency groups | save, archive, delete, restore, validate a selection | proposals | checks and writes in separate statements, concurrent saves | dependencies acyclic, nothing in use disappears |
| presentations (`internal/presentations`, PDFs) | presentations, versions, clients, cached PDFs | SaveDraft, Publish, download | storage | two editors of one draft, a PDF rendered meanwhile | links never change, the PDF is of its version, clients stay their owner's |
| in-app notifications | in_app_notifications | publish, read, settle, hide | activation | after settlement or removal | in time |
| customer journey | sessions and tokens of the above | resume at the right step | all of the above | composition | the link always leads somewhere useful |
| schema (`migrations`, `platform/database`) | schema_migrations | MigrateUp | all | two servers starting | each migration once |
| pipeline, audit, e-mail templates, rendering, adapters, web | none of their own, or layout | read, format | – | – | – |

`PROJECT.json` lists every component with its sources and status, and every
hazard at its line.

## 2. Modules

| Module | What it is |
|---|---|
| `Negotiation` | abstract specification: one offer on the table, a deal closed on exactly that offer, once |
| `ProposalLifecycle` | one proposal: editors, customers, maintenance, removal |
| `Onboarding` | one registration: sections, uploads, submission, review, correction and its links |
| `Agreement` | abstract specification: one approved text, one contract of it, sent, withdrawn and signed by rules of its own |
| `ContractDelivery` | one onboarding: data, approval, generation and delivery of its contract by several requests |
| `Signature` | one delivered contract: codes, challenges, their mails, the entry that signs |
| `Finalization` | evidence of one signed contract: job, workers, artifacts |
| `Handover` | abstract specification: setup that waits for two parties and is announced when both are done |
| `Activation` | one activation: owner and delegates, signature, operators, announcements, removal |
| `Mailbox` | abstract specification: a message is posted once, sent only if it arrived, dropped only if it may be, and that is final |
| `Outbox` | rows of the notification outbox and the workers that claim, send and mark them |
| `Accounts` | the accounts of the back office: bootstrap, invitations, roles, overrides |
| `Sessions` | one account: logins and their throttles, sessions, recovery, disabling |
| `Catalog` | products, categories, dependencies and the proposals that pick products |
| `Presentations` | commercial presentations, their clients, links and cached PDFs |
| `...Proofs` | inductive invariant and theorems of the module of that name (section 4); `ProposalLifecycleProofs` also holds those of `Signature`, `AccountsProofs` those of `Sessions`, `FinalizationProofs` those of `Presentations` |
| `MC...` | small instances for TLC |

In every module one action is one transaction, one statement outside a
transaction or one call of the storage. A request is a record with the step it
is at and what the handler carries from one step to the next; `EndEarly` (or an
action named for the failure) is every way it stops in between. The modules meet
in what they hand over: `Onboarding` ends with the approval with which
`ContractDelivery` begins, `ContractDelivery` with the contract of `Signature`,
whose `Sign` is that of `Finalization` and `Activation`; mails are those of
`Mailbox`, which `Outbox` implements. Effects of another component are actions of
their own (`Sign`, `Remove`, `SoftDelete`) with the guards of that component's
code. Where one module of proofs holds the theorems of two components, the
operators of the smaller one that would clash carry its name (`SignatureSpec`,
`SessionsTypeOK`, `presentationsVars`, `AtStep`, ...).

### ProposalLifecycle

One action is one transaction. A request that spans several is a record with a
program counter (`edits[e].pc`, `visits[k].pc`) that keeps what the handler
carries from one to the next.

- `edits`: `saveProposal`. `ProtectPrice` (the read before the save, only
  without the price permission) → `Create` or `SaveDraft` → `AssignTemplate` →
  for a publication, `validateProposalForPublish` on the form (`Publishable`) →
  `Publish`. `EndEdit` is every way a request stops early.
- `visits`: `acceptProposal`. `ReadProposal` (PublicByToken and the handler's
  check of the template) → `Accept`, or `EndVisit` when an acceptance exists or
  the transaction is refused.
- `proposal`, `versions`, `acceptances`: the rows. A content is the record of
  what the lifecycle tells apart (date, template, price); as `content_hash`
  hashes all of it, the content stands for its hash.
- `Expire`, `SoftDelete`, `NextDay`: maintenance worker, superadmin, calendar.

`IsSaveTarget` is "the unpublished version of greatest number, or else
max + 1", as the SQL has it; that there is never more than one is proved, not
assumed. Serialization failures appear as `EndEdit`/`EndVisit`.

### ContractDelivery

The submission (`Enter` after `Submit`), each later visit of the link and the
operator's retry (`Retry`) run the same steps: `AutoApprove` → `Lookup` →
[`Load` → `PutPDF` → `CreateContract` → `AddSigner` → `ReadToken`] →
`EnsureProfile` → `EnqueueSignatureMail` → `MarkSent`. `CreateFails`,
`SignerFails` lead into the cleanups `UndoPut` and `DeleteRow`/`DeletePDF`;
`Interrupt` ends the request, cleanup included, since the cleanup uses the
request's context. `MaxFailures` bounds these. `Sign` and `SoftDelete` are the
effects of other components. `Generations` are generation runs: each has a
contract id and a storage key of its own. `Announceable` is the check of the
profile's transaction, which looks at contract and onboarding.

`Agreed == INSTANCE Agreement` maps the approved data to the text and the row of
the one contract there is to the contract drawn up.

### Finalization

`Sign` queues the job in the transaction of the signature. A worker goes
`Claim` → `PutEvidence` → `PutPackage` → `Record` → `MarkJob`; failures lead
through `Undo` or straight to "failed". A report is stamped with the time it is
made, so the number of the attempt stands for its bytes and for their hash.
`CommitUnknown` is a COMMIT whose answer is lost. A write that reports an error
may have reached the bucket. `interrupted` is a history variable: an attempt that
had recorded the hashes did not mark its job, because it died, its COMMIT went
unanswered or the mark failed. Only then is it repeated, and only then may the
artifacts be lost.

One assumption about time: a claim older than five minutes belongs to a worker
that is gone (`LeaseExpires` waits for all workers to be idle). A run is cut at
90 s by its context; only the final UPDATE has no limit of its own, and it is
taken to end within the remaining 3.5 minutes.

### Outbox

`rows` has the status and the counted attempts of each message, `lapsed` that
its claim is older than five minutes. `Enqueue` is the insert that does nothing
on conflict; `Withdraw` stands for the two statements that take messages back
(the removal cascade, and the replacement of older codes). A worker runs
`processBatch`: `Reclaim` → `ExpireLate` → `Claim`, then for each row of the
batch `Check` → `Send` → `MarkSent` or `MarkFailed`, and `BatchDone`. Between
two statements anything may happen to the rows: the marks look only at the
status they find, and the claim they find may be another worker's. `SendFails`
is an error of the provider, which may have accepted the message all the same;
`StatementFails` follows processBatch in that it looks only at the errors of
the claim and of marking a sent message; `Crash` leaves the batch claimed.
Order, batch size, the wait after a failure and `skip locked` are left open: a
claim takes any due rows. `copies` counts what the provider accepted.

`Mail == INSTANCE Mailbox` maps a row to what became of its message and
`copies` to whether it arrived.

### Signature

A request for a code goes `Ask` → `CheckThrottle` → `CreateChallenge` (which
deletes the unverified ones) → `ReplaceMails` → `EnqueueMail`; `EndEarly` is a
failure after any of them. `Confirm` is the whole transaction of
`ConfirmAndSign`: the newest live challenge that has not expired, its count of
wrong entries, the comparison, the identity row, the signature. A customer can
enter only what arrived, or a wrong number. The mails are those of `Mailbox`, which
the theorem `RefinesMailbox` shows `Outbox` to implement; `Settle` restricts
when a mail is dropped to its expiry, `ReplaceMails` to a newer code.
`disturbed` is a history variable: two requests have overlapped, or one was cut
short. It is a premise of `LiveCodeIsMailed` and `LiveCodeArrives` only,
since neither survives without it (section 3).

### Onboarding

`currentOnboarding` reads the row, the handler merges the posted sections into
it and `Save` writes the whole row back under its lock: `StartSave` keeps the
merged row in the request, and `stale` says that another save came between.
`Put` → `AddDocument` → `DropObject` is an upload, whose object is deleted when
the row is refused, and also when only the answer to the COMMIT is lost (then
the row has no file; `cut` says that something of this kind happened).
`required` is the `requires_policy` of the accepted version, either from the start:
without it the insurance has no form, the form of the whole clears it, policies
are refused, and neither check asks for it. The row begins with what the
acceptance takes over (`Prefilled`), which may be all that the company section
asks for. `StartSubmit` checks completeness, `Submit` looks at the status and the insurance
again, and `AutoApprove` follows in the same request or in any later visit
(`StartResume`). A correction goes `RequestCorrection` →
`CreateCustomerResumeToken` → `MailLink`; following its link is
`ConsumeCustomerResumeToken` → `CheckCorrection` → `StartSession`, in that
order: the link is used up before the status is looked at.

### Activation

`Save`, `Submit` and `SetInternalStatus` decide under the lock of the profile.
Whoever may be the last of the two parties asks `CheckReady`: the submission
(`Submit`) and the signature (`Sign` → `EnsureForContract`). What follows is
`FindRecipient` → `QueueMail` → `FindRecipient` → `PublishNotice`, with the
removal and the operators in between. `late` and `caught` name the two overlaps
in which a notice comes after the setup has begun or after the removal; both
happen, and `NoticesSound` says that nothing else goes wrong.
`Handed == INSTANCE Handover` maps the profile to the two parties and the phase.

### Accounts and Sessions

`updateUserAccess` reads the target, decides by `CanManageAccount`, and calls
`UpdateAccess` or `SetPermissionOverrides`; `target` is whom the request has
read, `leads` that it acts for a superadmin, `stale` that the account changed
in between. `ElevatedChangedByLeaders` looks at every step that changes the status,
the role or the overrides of an account, and asks which request it ends
(`ActsOn`). `Sessions` takes a login apart into the throttle's count, the
credentials, the session and the cleaning of the failures: `crossed` marks the
login that was verified before the sessions were revoked and opens its session
afterwards. `attempts` are the logins and recoveries under way; `FailureRows`
are the rows of `login_failures` that the throttle counts. A password is the number of times it was set anew, and `uses` counts
by which link. `IpLimit` and
`PairLimit` are the 30 and 8 of the code.

### Catalog

`SaveProduct` runs under READ COMMITTED, so its statements are steps:
`WriteProduct` (which locks the row: `Unlocked`) → `ReplaceDependencies` →
`CheckCycles` → `Commit`. Deletion decides between deleting and archiving by
earlier statements (`CheckRequired`, `CheckCategoryUsed`), and the editor
validates a selection before the transaction that saves it (`PickProducts` →
`CheckSelection` → `SaveItems`). Items are not told apart by proposal, so
`ForProposal` also admits what is off sale and in another proposal, where the
code looks at this one (`catalog/store.go:247`): a superset of its behaviours. Three history variables name the overlaps the
code does not exclude: `behind`/`crossed` (a save committed between the cycle
check and the commit of the last save), `stale`/`torn` (a request wrote on what it
read before another's write), `restored` (a restore does not look at what the
product requires). `Walk` is the recursive query.

### Presentations

`SavePresentation` and `Publish` are one transaction each, a download is
`StartDownload` → `LoadPublished` → `Fetch` → `Store`. `TitleShown`, `Page` and
`Public` are what a customer sees who follows a link. `overtaken` marks a
publication whose draft another editor has overwritten since it was saved.

## 3. Runs

| Run | Question | Result |
|---|---|---|
| `proposal_lifecycle` | Do all interleavings of two editors (one with every permission, one salesperson who may not edit prices), two customers, maintenance and removal keep `VersionsSound`, `AcceptanceSound`, `PublishedIsFrozen`, implement `Negotiation`, and end lapsed offers (`LapsedOfferEnds`)? | holds, 1.5 M states |
| `onboarding` | With and without a policy required, two tabs of a customer, uploads, submission, correction, failures and removal: is no save lost but to an overlapping one (`SavesAreKept`), has what is submitted all that was asked for, is one policy current, file and row together, each link good once (`RegistrationSound`), is the submission frozen (`SubmittedIsFrozen`) and decided in the end (`SubmissionIsSettled`)? | holds, 644 k states |
| `contract_delivery` | Do three racing requests with a failure, interruptions and removal leave one contract of the approved data, announced before it is sent (`ContractSound`), implement `Agreement` (nothing sent after the removal, nothing signed that was withdrawn, nothing taken back that was sent or signed), and do repeated visits deliver it (`RetriesDeliver`)? | holds, delivery as long as nothing is abandoned, 940 k states |
| `signature` | With two requests for codes, late mails, wrong entries and removal: is one code at most good and does only the last one sign (`CodesSound`), does a removal end it all (`RemovedIsClosed`), and does the good code arrive when requests do not overlap (`LiveCodeArrives`)? | holds, 82 k states |
| `finalization` | With fewer failures than attempts, is evidence recorded (`SignedIsFinalized`), once (`RecordedOnce`), and stored as recorded unless an interrupted attempt is repeated (`EvidenceSound`)? | holds, 703 states |
| `evidence_kept` | Has a completed job its two artifacts stored (`FinalArtifactsKept`)? | no: the COMMIT of an attempt is applied and its answer lost, the repeated attempt overwrites both objects, finds the contract finalized and deletes them |
| `activation` | Do owner, delegate, signature, operators and removal keep `SetupSound` and `NoticesSound`, leave what was submitted alone (`SubmittedIsFrozen`), implement `Handover`, and is the setup announced whoever is last (`ReadyIsAnnounced`)? | holds, 1.4 M states |
| `outbox` | Do two overlapping workers with crashes, lost answers, failed statements and lapsed claims send every message unless it expires or is withdrawn (`EveryMessageSettles`), with no more copies than attempts (`CopiesAreCounted`) and than failures explain (`DuplicatesNeedFailures`), and implement `Mailbox`? | holds, 121 k states |
| `accounts` | Do two requests of administrators, links and the bootstrap over three addresses always leave a superadmin (`SuperAdminRemains`), overrides to Users and one link to an address (`AccountsSound`), and who may raise or change an Admin or Superadmin (`ElevatedChangedByLeaders`)? | a superadmin; anybody else only on what was read before the account changed, and any Admin by inviting again somebody who has not accepted yet; 1.7 M states up to symmetry |
| `sessions` | Which sessions survive a recovery or a disabling (`SessionsSound`), is one link good at most and does it set the password once (`LinksWorkOnce`) and how many guesses pass the throttles (`FailuresAreBounded`) when two logins or recoveries overlap? | only those named in the properties, 1.1 M states up to symmetry |
| `catalog` | Do two operators and editors keep the dependencies acyclic (`AcyclicUnlessCrossed`), what is in use (`KeptUnlessTorn`) and proposals valid (`SavedItemsAreValid`), but for the overlaps named? | holds, 429 k states up to symmetry |
| `presentations` | Do two editors of two presentations and the downloads leave links (`LinksStay`), PDFs (`PdfMatchesLink`), versions and clients (`PresentationsSound`) right, and does one publish what one saved (`PublishesItsOwn`)? | holds, 1.9 M states up to symmetry |

The invariants that a run checks bundle the type invariant of the module with
the parts named in the module, so that each part can be read, and is proved, on
its own: `CodesSound`, for instance, is `SignatureTypeOK`, `LiveCodeSound`,
`SignedByLastCode` and `LiveCodeIsMailed`.

`MCCatalog` also has TLC evaluate that the recursive query finds a cycle exactly
when there is one, for all dependency relations over three products.

### Seen while modelling

Behaviour of the code that a property cannot forbid because the code does not,
found by writing the model or by TLC. First, what contradicts a line of the
repository:

- `saveProposal` validates its own form and then publishes whatever the draft
  row holds (`proposal_editor_handlers.go:220`): a save of another editor in
  between publishes a version without price or template, although the validation
  says "A proposta precisa ter ao menos um produto com valor antes de ser
  publicada." (`:256`).
- Content and template column of a version are written by two transactions and
  the generator prefers the column (`generator.go:54`): the contract may come from
  another template than the accepted content names, although "A versão atual do
  modelo é congelada quando este rascunho é salvo" (`proposal_editor.templ:67`).
- An interruption between the inserts of contract and signer
  (`generator.go:197`) leaves a contract without signer, which later visits
  neither find nor may replace, although "o mesmo link da proposta retoma a
  preparação" (`README.md:211`). `RetriesDeliver` has it as a premise.
- `cleanupGeneratedContract` deletes the PDF although its delete of the row
  matched nothing because another request has sent the contract meanwhile
  (`generator.go:224`; "seu conteúdo e hash ficam protegidos contra alteração",
  `README.md:59`).
- An evidence attempt repeated after a crash or a lost answer finds
  `finalized_at` set and deletes both artifacts it has just overwritten
  (`evidence.go:176`; `README.md:61-69` lists them as produced). `EvidenceSound`
  excepts the attempts after an interrupted one; `evidence_kept` shows the case.
- Any Admin who invites the address of an invited Admin or Superadmin again makes
  it a User (`auth/admin.go:38-60` looks only at the status), although "only
  Superadmins may manage Admin/Superadmin accounts" (`access/access.go:75`).
  `ElevatedChangedByLeaders` names the case.
- The resend throttle counts challenges that `CreateChallenge` has deleted
  (`signature_handlers.go:79`, `store.go:257`), so it never refuses, although
  `signature_handlers.go:87` tells the customer to wait. `ThrottleCountsOne`
  proves that the count is never more than one; the limit is three.
- An administrator may turn an invited account into a disabled one and that into
  an active one without password, although the message of
  `admin_user_handlers.go:52` says that an invited account is activated by its
  link.

And where no line promises otherwise:

- `SaveDraft` writes the expiry date to the proposal, so the published offer
  expires by the date of the draft (`editor.go:181`); `ProtectPrice` keeps prices
  read before the save, so that a price saved in between is undone.
- The date of an offer is checked when it is read, not when it is accepted.
- A proposal removed while its contract is generated is left with a live
  contract row (`CreateContract` comes after the check). It is not sent
  (`ImplementsAgreement`), but whoever had its link could sign it.
- A message or evidence job that failed eight times is never looked at again
  (`notifications/worker.go:136`, `finalization_worker.go:90`).
- A request for a code that was overtaken after its `CreateChallenge` withdraws
  the mail of the newer code (`signature_handlers.go:113-118`); the code it then
  mails is the deleted one. Mails of codes are not cancelled by a removal
  (`delete.go:107`); the code they carry signs nothing (`RemovedIsClosed`).
- Onboarding: the statement of the submission looks at the insurance but not at
  the rest of the row again; a correction link is consumed before the status is
  checked; the mail `onboarding-submitted:ID` is unique, so a resubmission is not
  announced; the object of an upload whose COMMIT answer is lost is deleted.
- Activation: `activation.ready_for_setup` is not among the supported events and
  is dropped (`activation_handlers.go:313`); the policy can be replaced after the
  submission by a request that began before it.
- Accounts: the
  count of superadmins also protects inactive ones; putting an active account
  back to "invited" revokes no session, and they work again once it is accepted.
- Catalog: a restored product may require one that was deleted meanwhile; two
  concurrent saves can each add half of a cycle, and the next save that sees
  both is refused.
- The PDF of a proposal is cached by version although it also shows the validity
  of the row (`proposals/published.go:63`), and that of a presentation although it
  is made from the deployed `presentation-content.html`
  (`commercial_pdf_handlers.go:128`).

### Bounds, and why they are enough

- Proposal: two editors are the least that interleave, and a third could only
  come between steps the two already separate; two versions give a published
  one beside a draft; two days give a date that passes. Forms are a complete
  one, one with an earlier date and an incomplete one. The theorems of section 4
  hold without any of these bounds.
- Delivery: the conflict needs a request that creates, one that finds, and one
  that retries; three generation runs let each of them generate, and one failure
  lets one of them clean up beside the others. The run has no symmetry, which
  liveness would not allow. The theorems on safety hold for any number of each.
- Evidence: four attempts stand for eight; one failure fewer than attempts is
  the most for which success can be expected. Two workers overlap during a
  deployment.
- Outbox: two workers overlap during a deployment; one message that neither
  expires nor can be withdrawn and one that does both are the two kinds there
  are. Three attempts exceed the two failures, which is the premise of
  `EveryMessageSettles`; the code allows eight.
- Signature: two requests are the least that overlap; two codes make one that is
  old. Two wrong entries (five in the code) give one that does not yet close
  the challenge. One failure cuts a request short at any step.
- Onboarding: two requests are a save and whatever comes between its read and its
  write; one value is enough, since a stale save shows by what it undoes. Two
  uploads make one that supersedes the other; one correction opens the row again.
- Activation: an owner and a delegate for one section are two links; a second
  delegate could do nothing the first cannot. The policy is required and one
  section comes from an older onboarding, so that both branches are taken.
- Accounts: three addresses are two superadmins who act on each other and a third
  to manage; two requests are one that decides and one that overtakes it.
- Sessions: two addresses are the one under attack and another from the same
  place; two sessions and two links make an old and a new one. The limits are 2
  and 3 instead of 8 and 30: what matters is how far above them overlapping
  requests get, and `FailuresAreBounded` gives that as a function of the limits.
- Catalog: three products are the owner of a requirement, a required product and
  one to require instead; the forms can close a cycle in two concurrent saves.
- Presentations: two of them, two clients of one registration number, two
  contents and two versions: an older link beside a newer draft.

### Fairness

- `Expire` is weakly fair: the worker runs it at start and hourly until the
  server stops, and is started again.
- In `ContractDelivery` only requests being served are fair (`Proceed`). That
  customers return is a premise inside `RetriesDeliver`, never assumed of the
  specification.
- In `Finalization` claims, the steps of a worker and the lease are weakly
  fair: every process polls each 5 s. Failures are not, and are finite.
- In `Outbox` the polling of each worker and the lapse of an abandoned claim
  (time) are weakly fair; handlers, failures and the expiry of messages are not.
- In `Signature` the steps of a request under way and the delivery of a posted
  mail are weakly fair, the latter because of `EveryMessageSettles`. Nobody is
  assumed to ask for a code or to enter one.
- In `Onboarding` and `Activation` a handler that has begun goes on
  (`Continue`); nothing makes anybody begin. A request that ends early leaves
  `cut`, which both liveness properties except: the code repeats an interrupted
  approval only when somebody visits, and an interrupted announcement only when
  somebody submits again.
- `Accounts`, `Sessions`, `Catalog` and `Presentations` state no fairness: nothing
  in them must happen eventually.

## 4. Proofs

Every safety and action property that a passing run checks is a theorem here, for every
value of the constants; so are the four refinements. Eight modules hold the
proofs of eleven components; each fixes an inductive invariant (`IInv`; `Sound`
in the case of the duplicates, `SigningInv`, `SessionsInv`, `PresentingInv`) and
proves it from the named assumptions of the module it extends (bounds are
naturals, null values are not real values, the users, products, addresses,
attempts and links are finite sets, permissions are of editors). One lemma per
action shows that it keeps the invariant; lemmas named `...Frame`, `Moves` or
`Quiet...` hold what is common to the actions that only move a request on.

`ProposalLifecycleProofs`:

| Theorem | Statement |
|---|---|
| `TypeCorrect` | `Spec => []TypeOK` |
| `VersionsAreSound` | `Spec => []VersionsSound` |
| `AcceptanceIsSound` | `Spec => []AcceptanceSound` |
| `PublishedStaysFrozen` | `Spec => PublishedIsFrozen` |
| `CurrentVersionOnlyGrows` | `Spec => CurrentOnlyGrows` |
| `RefinesNegotiation` | `Spec => ImplementsNegotiation` |

The argument. None of these is inductive by itself: `Publish` relies on what the
request remembered two transactions earlier, `Accept` on what the customer read.
The invariant `IInv` adds what makes them so: rows that exist have content
(`RowsHaveContent`); a request about to assign or publish holds the number of a
version that exists and is not newer than the newest (`EditsSound`); a visit
holds a published version and its content (`VisitsSound`); before creation there
is nothing (`NothingBeforeCreation`); and every acceptance, removed or not, is of
a published version with that version's content, under a proposal that is
accepted, one per version (`AcceptancesSound`). The decisive step is that a
draft is always newer than everything else: `Publish` therefore only raises
`current`, and `Accept`, comparing the current number on the locked row,
accepts exactly the content that was read, because published rows never change.
The refinement maps every step to a step of `Negotiation` or to a stutter.

The same module, of `Signature` (any requests, codes, limits and failures):

| Theorem | Statement |
|---|---|
| `SigningIsSound` | `SignatureSpec => []CodesSound` |
| `NothingSignedAfterRemoval` | `SignatureSpec => RemovedIsClosed` |
| `ThrottleCountsOne` | `SignatureSpec => [](Cardinality(Recent) <= 1)` |

The argument. "One live code at most" becomes "a live code is the last one
issued", which needs no count (`CodesFollow`): whatever a request holds was
issued already, so its mail can be late but its challenge cannot come back. A
mail carries a code that was issued and arrives only if it was posted
(`MailsFollow`), so the code that signs had been mailed. That the good code is
the one in the mail holds only while requests take turns: `InTurn` says what the
one request under way has done so far, and its premise, that nothing was
`disturbed`, is the property's. What the throttle counts is the live and the
verified code, of which there is one.

`OutboxProofs` proves, for any messages, any finite set of workers and any
bounds (no assumption that attempts exceed failures):

| Theorem | Statement |
|---|---|
| `TypeCorrect` | `Spec => []TypeOK` |
| `CopiesBounded` | `Spec => []CopiesAreCounted` |
| `DuplicatesArePaidFor` | `Spec => []DuplicatesNeedFailures` |
| `FateIsFinal` | `Spec => FinalStays` |
| `RefinesMailbox` | `Spec => ImplementsMailbox` |

The argument. A claim is counted long before the message is handed over, and a
worker whose claim has lapsed still hands it over, so "no more copies than
attempts" does not survive `Send` on its own. The invariant counts the
*bearers* of a message, the workers that have it in their batch or are about to
hand it over: copies and bearers together never exceed the attempts (`Counted`).
A claim adds one attempt and at most one bearer; handing over turns a bearer
into a copy; everything else only loses bearers. `AtHand` says that the message
at hand has left the batch, `Delivered` that a row marked sent, or about to be,
has been accepted. `RowChanges` reduces every action to what it does to the
statuses, from which the finality and the refinement follow.

The failures are counted for all messages together, while the property speaks of
each. `PaidFor` bounds, for each message, its copies, the workers that still owe
one (they have it in their batch, or will hand it over or give it back) and
whether its row can be claimed again without a further failure: together they
are one more than the failures at most. Handing over turns a debt into a copy, a
claim turns a free row into a debt, and what frees a row while the copy or the
debt remains is one of the failures counted.
`Tidy` says that only a claim lapses and that a message is at hand only to
the worker that handles it.

`OnboardingProofs` (any requests, values, uploads and corrections):

| Theorem | Statement |
|---|---|
| `SavesStay` | `Spec => []SavesAreKept` |
| `RegistrationIsSound` | `Spec => []RegistrationSound` |
| `SubmittedStaysFrozen` | `Spec => SubmittedIsFrozen` |

The argument. A save writes what was merged into the row as it was read, so "the
row is what was saved last" needs that a save nobody overtook still agrees with
the row outside the posted sections (`DataInv`). An upload is three steps, so
"files and rows agree" needs who holds the objects without a row: each upload
its own, nobody another's (`StorageInv`). The same for links that are created and
not mailed yet (`LinksInv`). "Exactly one policy" becomes "there is one and it is
a recorded one" (`PolicyInv`), from which the cardinality follows. That nothing
gets in that was not asked for needs that no request holds any of it (`AskedInv`).

`ContractDeliveryProofs` (any requests, runs of the generator and failures):

| Theorem | Statement |
|---|---|
| `ContractIsSound` | `Spec => []ContractSound` |
| `RefinesAgreement` | `Spec => ImplementsAgreement` |
| `SignaturesStay` | `Spec => SignedStays` |

The argument. What a request rendered is still what is approved when it inserts
the row, because an approval is final (`Holds`); a run's contract belongs to the
request that inserted it until its signer exists (`OwnRun`), so a cleanup never
removes what another request has announced. The refinement needs two facts more,
`AgreedInv`: what is approved is complete, and a request that announces a contract
that still lives knows that nothing was removed, since the profile's transaction
looked at the onboarding after the contract was there and the removal marks both.

`FinalizationProofs` (any number of workers, attempts and failures):

| Theorem | Statement |
|---|---|
| `EvidenceIsSound` | `Spec => []EvidenceSound` |
| `RecordedStaysOnce` | `Spec => RecordedOnce` |

The argument. Whether what was recorded stays stored depends on what the worker
at work may still write or delete. There is one (`OneAtWork`: the lease keeps the
others out), its attempt is the last one counted, and while it has objects to
write or delete it has not recorded their hashes (`Progress`, `Counted`). What the
last attempt recorded is therefore stored (`LastIsStored`), and only an
interruption lets an attempt follow the one that recorded (`RecordsLast`).

The same module, of `Presentations` (any presentations, clients, contents,
requests and versions):

| Theorem | Statement |
|---|---|
| `PresentationsAreSound` | `PresentationsSpec => []PresentationsSound` |
| `CachedPdfMatches` | `PresentationsSpec => []PdfMatchesLink` |
| `LinksShowTheSame` | `PresentationsSpec => LinksStay` |
| `RequestsPublishTheirs` | `PresentationsSpec => PublishesItsOwn` |

The argument. Versions are numbered without gaps and the draft is the last one
(`Numbered`), so a save that adds one adds the next and a publication closes the
last. A request holds the version it wrote with its content, unless another save
of the draft overtook it, and a download holds what the page of a published
version shows (`RequestsHoldTheirs`); published rows do not change, so what is
stored under the key of the version is still of that version.

`ActivationProofs` (any requests, tokens, delegations and earlier data):

| Theorem | Statement |
|---|---|
| `TypeCorrect` | `Spec => []TypeOK` |
| `SetupIsSound` | `Spec => []SetupSound` |
| `NoticesAreSound` | `Spec => []NoticesSound` |
| `SubmittedStaysFrozen` | `Spec => SubmittedIsFrozen` |
| `RefinesHandover` | `Spec => ImplementsHandover` |

The argument. Data and status change under one lock, but a request tells of them
two statements after it looked: it may rely on signature and submission, which
are for good (`AnnouncesInTime`), while after a removal only a request caught
between recipient and message still writes (`NobodyTells`), and an unread notice
of a setup that has begun has somebody about to settle it (`IsSettling`).

`AccountsProofs` (any finite set of users, any requests):

| Theorem | Statement |
|---|---|
| `AccountsAreSound` | `Spec => []AccountsSound` |
| `SuperAdminStays` | `Spec => SuperAdminRemains` |
| `LeadersChangeElevated` | `Spec => ElevatedChangedByLeaders` |

The argument. The count of superadmins is taken in the transaction that removes
one, so of two there remains one: a fact about cardinalities of finite sets. The
bootstrap raises an account without looking at overrides or requests, which is
sound since it does so only for the only account there is (`OthersExist`); and
what a request decided from stays true unless the request is stale (`ReadAsLed`).
`LeadersChangeElevated` then goes through every action that writes a row; the
invitation, which reads nobody, can only reach accounts that are invited.

The same module, of `Sessions` (any finite sets of addresses and attempts, any
sessions, links and limits):

| Theorem | Statement |
|---|---|
| `SessionsAreSound` | `SessionsSpec => []SessionsSound` |
| `ResetLinksWorkOnce` | `SessionsSpec => []LinksWorkOnce` |
| `ThrottleBoundsFailures` | `SessionsSpec => []FailuresAreBounded` |

The argument. A session knows the password of now or crossed its change; it is
verified three statements before it is opened, so the same is said of every
attempt that is verified (`KnownOrCrossed`, `CrossedUnlessActive`). A link that
works is the only one (`OneLiveLink`), and it has set no password: the statement
that sets one looks at the link again and uses it up in the same transaction, so
a link has set as many as it is marked used (`UsesCounted`). A guess is admitted by a count and recorded later: the rows written
and the attempts admitted but not recorded stay below the limit and the number
of attempts (`Throttled`); an attempt is admitted only while the rows are below
the limit, and the others under way are fewer than all. Both counts are
cardinalities of sets of rows and of attempts.

`CatalogProofs` (any finite set of products, any categories, forms, requests):

| Theorem | Statement |
|---|---|
| `KeptUntilTorn` | `Spec => []KeptUnlessTorn` |
| `ItemsAreValid` | `Spec => SavedItemsAreValid` |
| `CyclesAreSeen` | `Spec => []AcyclicUnlessCrossed` |
| `QueryFindsCycles` | `HasCycle(E) <=> \E S \in SUBSET Products : Circle(E, S)` |
| `NothingRequiresItself` | `Spec => []NoCircleUnlessCrossed` |

The argument. For every request that nobody overtook the invariant says what its
last statement established (`Reads`), and, overtaken or not, what of its form
has been checked for good (`Typed`). A request at its commit that is not behind
has checked exactly the dependencies that it commits (`CheckedSaves`).

`CyclesAreSeen` speaks of cycles as the recursive query of the code sees them.
`QueryFindsCycles` says that the query is right: for every relation over every
finite set of products it finds a cycle exactly when some products require one
another in a circle, each another of them. So `NothingRequiresItself` speaks of
circles and no longer of the query. The query is a recursion over rounds; as the
library's induction rules are out of reach, the inductions are done by least
counterexample, from the well-foundedness of `<` on the naturals. The rounds
exist (`WalkExists`); what a round joins is joined by products that lead on
(`WalksAreJoined`); and of a circle of the fewest products, what the rounds reach
from one of them grows until all of it is reached, since what stops growing
would be a smaller circle, and as many rounds as there are products are enough
(`CirclesAreWalked`).

Model-checked only is liveness: `LapsedOfferEnds`, `SubmissionIsSettled`,
`RetriesDeliver`, `LiveCodeArrives`, `SignedIsFinalized`, `ReadyIsAnnounced` and
`EveryMessageSettles`, since fairness and ENABLED are outside the prover's reach.

## 5. Not modelled, and why

- Parsing, formatting, rendering and pages: data, not control. A rendered
  document, a form or a content is a value in the modules.
- The protocols of the e-mail provider and of S3: a message is queued or not, an
  object is there or not, a call may fail or lose its answer.
- Read-only views: pipeline, audit, exports, the choice of the page by the state
  of the journey.
- Single writes of a user's own row without a rule that relates them to other
  state: profile, photo, notification preferences, display order, special
  conditions of the catalog, contract templates.
- `MigrateUp` holds one advisory lock from its first statement to its last, so
  two starting servers migrate one after the other; a run of it is sequential.
- The other statements of the maintenance worker delete rows that are expired or
  revoked already and that no guard looks at.
- Deployment scripts and the static presentation site.

## 6. Plan

Done: proposals, onboarding, delivery, signature, evidence, activation, outbox,
accounts, sessions, catalog, presentations, each with its run; proofs of all
safety and action properties of all of them, and of four refinements. What is
left, in the order in which it would add most:

1. The composition of onboarding, delivery, signature and activation in one
   module, with the stages of the journey as its abstract specification, of which
   `Agreement` and `Handover` are parts.
2. The two hazards that no property covers yet: a price changed between the read
   of `ProtectPrice` and the save, which needs the price as a value of its own,
   and an offer accepted around midnight.
