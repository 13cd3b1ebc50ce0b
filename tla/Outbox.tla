------------------------------- MODULE Outbox -------------------------------
(***************************************************************************)
(* The notification outbox: rows that request handlers insert and cancel,  *)
(* and the notification worker of each server process, which claims a      *)
(* batch of rows, hands each to the e-mail provider and marks the outcome. *)
(*                                                                         *)
(* An action is one SQL statement, the transaction of claimBatch or one    *)
(* call of the provider; between any two the rows may change under the     *)
(* worker.  Which due rows fit a batch, in which order it is worked off    *)
(* and how long a failed row waits (created_at, available_at, skip locked) *)
(* is left open: a claim takes any of them.                                *)
(***************************************************************************)
EXTENDS Naturals, FiniteSets

CONSTANTS
    Messages,       \* one per row: its dedupe key
    Expiring,       \* messages with an expires_at
    Withdrawable,   \* messages a handler may cancel or replace by a newer one
    NoMessage,      \* not a message
    Workers,        \* worker goroutines, one per server process
    MaxAttempts,    \* attempts < 8 in claimBatch
    MaxFailures     \* bound: failed calls and statements, crashes, slow runs

ASSUME MessagesAssumption ==
    /\ Expiring \subseteq Messages /\ Withdrawable \subseteq Messages
    /\ NoMessage \notin Messages
ASSUME WorkersAssumption == IsFiniteSet(Workers)
ASSUME BoundsAssumption == MaxAttempts \in Nat \ {0} /\ MaxFailures \in Nat

VARIABLES
    rows,           \* notification_outbox; lapsed: claimed over 5 minutes ago
    late,           \* messages whose expires_at has passed
    workers,        \* step of processBatch, the rest of the batch, the message at hand
    copies,         \* how often the provider accepted a message
    failures        \* failures so far

vars == <<rows, late, workers, copies, failures>>

Statuses == {"none", "pending", "processing", "sent", "expired", "cancelled"}
Final == {"sent", "expired", "cancelled"}
Steps == {"reclaim", "expire", "claim", "check", "send", "sent", "failed"}
Holding == {"send", "sent", "failed"}       \* steps with a message at hand

TypeOK ==
    /\ rows \in [Messages -> [status : Statuses, attempts : 0 .. MaxAttempts, lapsed : BOOLEAN]]
    /\ late \subseteq Expiring
    /\ workers \in [Workers -> [step : Steps, batch : SUBSET Messages,
                                current : Messages \cup {NoMessage}]]
    /\ copies \in [Messages -> Nat]
    /\ failures \in 0 .. MaxFailures

NoRow == [status |-> "none", attempts |-> 0, lapsed |-> FALSE]
Polling == [step |-> "reclaim", batch |-> {}, current |-> NoMessage]

Init ==
    /\ rows = [m \in Messages |-> NoRow]
    /\ late = {}
    /\ workers = [w \in Workers |-> Polling]
    /\ copies = [m \in Messages |-> 0]
    /\ failures = 0

At(w, step) == workers[w].step = step
Go(w, step) == workers' = [workers EXCEPT ![w].step = step]
Holds(w, m) == m \in workers[w].batch \/ workers[w].current = m
Fail == failures < MaxFailures /\ failures' = failures + 1

\* One update statement: the rows of S get the status and no claim.
WithStatus(S, status) ==
    [m \in Messages |-> IF m \in S
                        THEN [rows[m] EXCEPT !.status = status, !.lapsed = FALSE]
                        ELSE rows[m]]
Open == {m \in Messages : rows[m].status \in {"pending", "processing"}}
Claimed == {m \in Messages : rows[m].status = "processing"}

----------------------------------------------------------------------------
(* Request handlers *)

\* EnqueueWithOptions: on conflict of the dedupe key, nothing.
Insert(m) ==
    rows' = [rows EXCEPT ![m] = IF @.status = "none" THEN [@ EXCEPT !.status = "pending"] ELSE @]
Enqueue(m) ==
    /\ m \notin late
    /\ Insert(m)
    /\ UNCHANGED <<late, workers, copies, failures>>

\* A removal cancels what names a removed resource (SoftDeleteCascade), a new
\* code expires the mails of earlier ones (sendSignatureOTP).
Withdraw ==
    /\ \E S \in SUBSET (Withdrawable \cap Open), status \in {"cancelled", "expired"} :
          rows' = WithStatus(S, status)
    /\ UNCHANGED <<late, workers, copies, failures>>

\* Time: a message passes its expires_at, a claim its 5 minutes.  A batch of
\* 20 with 10 seconds each ends well before unless its statements hang: a
\* claim that lapses under a running worker counts as a failure.
PassExpiry(m) ==
    /\ m \in Expiring \ late
    /\ late' = late \cup {m}
    /\ UNCHANGED <<rows, workers, copies, failures>>

Abandoned(m) == m \in Claimed /\ \A w \in Workers : ~Holds(w, m)
Lapse(m) == rows' = [rows EXCEPT ![m].lapsed = TRUE]
LapseAbandoned(m) ==
    /\ Abandoned(m) /\ ~rows[m].lapsed
    /\ Lapse(m)
    /\ UNCHANGED <<late, workers, copies, failures>>
LapseHeld(m) ==
    /\ m \in Claimed /\ ~Abandoned(m) /\ ~rows[m].lapsed
    /\ Fail
    /\ Lapse(m)
    /\ UNCHANGED <<late, workers, copies>>

----------------------------------------------------------------------------
(* processBatch *)

ReclaimableExpiring ==  \* mutant: expires_at>now() is never true of null
    {m \in Claimed : rows[m].lapsed /\ m \in Expiring \ late}
Reclaimable == {m \in Claimed : rows[m].lapsed /\ m \notin late}
Reclaim(w) ==
    /\ At(w, "reclaim")
    /\ rows' = WithStatus(Reclaimable, "pending")
    /\ Go(w, "expire")
    /\ UNCHANGED <<late, copies, failures>>

ExpireLate(w) ==
    /\ At(w, "expire")
    /\ rows' = WithStatus(Open \cap late, "expired")
    /\ Go(w, "claim")
    /\ UNCHANGED <<late, copies, failures>>

\* claimBatch: attempts are counted with the claim, whatever comes of it.
Due == {m \in Messages : rows[m].status = "pending" /\ rows[m].attempts < MaxAttempts /\ m \notin late}
UncountedClaim(m) == [rows[m] EXCEPT !.status = "processing"]                  \* mutant
UnmarkedClaim(m) == [rows[m] EXCEPT !.attempts = @ + 1]                        \* mutant
ClaimOf(m) == [rows[m] EXCEPT !.status = "processing", !.attempts = @ + 1]
Claim(w) ==
    /\ At(w, "claim")
    /\ \E S \in SUBSET Due :
          /\ S = {} => Due = {}
          /\ rows' = [m \in Messages |-> IF m \in S THEN ClaimOf(m) ELSE rows[m]]
          /\ workers' = [workers EXCEPT ![w].step = IF S = {} THEN "reclaim" ELSE "check", ![w].batch = S]
    /\ UNCHANGED <<late, copies, failures>>

\* The next message of the batch, unless it expired while it waited there.
Check(w) ==
    /\ At(w, "check")
    /\ \E m \in workers[w].batch :
          IF m \in late
          THEN /\ rows' = WithStatus({m} \cap Claimed, "expired")
               /\ workers' = [workers EXCEPT ![w].batch = @ \ {m}]
          ELSE /\ workers' = [workers EXCEPT ![w] = [step |-> "send", batch |-> @.batch \ {m}, current |-> m]]
               /\ UNCHANGED rows
    /\ UNCHANGED <<late, copies, failures>>

BatchDone(w) ==
    /\ At(w, "check") /\ workers[w].batch = {}
    /\ Go(w, "reclaim")
    /\ UNCHANGED <<rows, late, copies, failures>>

Deliver(m) == copies' = [copies EXCEPT ![m] = @ + 1]
Send(w) ==
    /\ At(w, "send")
    /\ Deliver(workers[w].current)
    /\ Go(w, "sent")
    /\ UNCHANGED <<rows, late, failures>>

\* Marking looks only at the status of the row: the claim it finds there may
\* be another worker's.
StillClaimed(m) == {m} \cap Claimed
NextMessage(w) == workers' = [workers EXCEPT ![w].step = "check", ![w].current = NoMessage]
MarkSent(w) ==
    /\ At(w, "sent")
    /\ rows' = WithStatus(StillClaimed(workers[w].current), "sent")
    /\ NextMessage(w)
    /\ UNCHANGED <<late, copies, failures>>

MarkFailed(w) ==
    /\ At(w, "failed")
    /\ rows' = WithStatus(StillClaimed(workers[w].current), "pending")
    /\ NextMessage(w)
    /\ UNCHANGED <<late, copies, failures>>

Poll(w) ==
    \/ Reclaim(w) \/ ExpireLate(w) \/ Claim(w)
    \/ Check(w) \/ BatchDone(w) \/ Send(w) \/ MarkSent(w) \/ MarkFailed(w)

----------------------------------------------------------------------------
(* Failures *)

\* An error of the provider, or no answer in time to a message it accepted.
ErrorIgnored == "sent"              \* mutant
AfterError == "failed"
SendFails(w) ==
    /\ At(w, "send")
    /\ Fail
    /\ Deliver(workers[w].current) \/ UNCHANGED copies
    /\ Go(w, AfterError)
    /\ UNCHANGED <<rows, late>>

\* A statement fails: processBatch looks only at the errors of the claim and
\* of marking a sent message, and gives up the rest of the batch.
StatementFails(w) ==
    /\ Fail
    /\ \/ At(w, "reclaim") /\ Go(w, "expire")
       \/ At(w, "expire") /\ Go(w, "claim")
       \/ At(w, "failed") /\ NextMessage(w)
       \/ \E m \in workers[w].batch \cap late :
             At(w, "check") /\ workers' = [workers EXCEPT ![w].batch = @ \ {m}]
       \/ /\ At(w, "claim") \/ At(w, "sent")
          /\ workers' = [workers EXCEPT ![w] = Polling]
    /\ UNCHANGED <<rows, late, copies>>

\* Shutdown or crash; the next process polls anew.
Crash(w) ==
    /\ workers[w] # Polling
    /\ Fail
    /\ workers' = [workers EXCEPT ![w] = Polling]
    /\ UNCHANGED <<rows, late, copies>>

Failure(w) == SendFails(w) \/ StatementFails(w) \/ Crash(w)

----------------------------------------------------------------------------

Next ==
    \/ \E m \in Messages : Enqueue(m) \/ PassExpiry(m) \/ LapseAbandoned(m) \/ LapseHeld(m)
    \/ Withdraw
    \/ \E w \in Workers : Poll(w) \/ Failure(w)

\* Run polls every 5 seconds as long as the process lives, a stopped process
\* is started again, and time passes.
Fairness ==
    /\ \A w \in Workers : WF_vars(Poll(w))
    /\ \A m \in Messages : WF_vars(LapseAbandoned(m))

Spec == Init /\ [][Next]_vars /\ Fairness

----------------------------------------------------------------------------
(* Properties *)

\* The provider accepts a message at most once per counted attempt, so never
\* more often than the limit of claimBatch, however claims lapse and workers
\* overlap.
CopiesAreCounted ==
    \A m \in Messages : copies[m] <= rows[m].attempts

\* A recipient gets a message twice only where something failed, and no more
\* copies than there were failures besides the first.
DuplicatesNeedFailures ==
    \A m \in Messages : copies[m] <= 1 + failures

\* What became of a message stays: no late worker revives a cancelled,
\* replaced, expired or sent one.
FinalStays ==
    [][\A m \in Messages : rows[m].status \in Final => rows'[m].status = rows[m].status]_vars

\* With fewer failures than attempts nothing is left in the outbox: every
\* message ends sent, expired or withdrawn, whatever crashed in between.
EveryMessageSettles ==
    \A m \in Messages : (m \in Open) ~> (rows[m].status \in Final)

\* The outbox as its users see it.
Fate(status) ==
    CASE status = "none" -> "none"
      [] status \in {"pending", "processing"} -> "posted"
      [] status = "sent" -> "sent"
      [] status \in {"expired", "cancelled"} -> "dropped"
Mail == INSTANCE Mailbox WITH
    Perishable <- Expiring \cup Withdrawable,
    box <- [m \in Messages |-> Fate(rows[m].status)],
    arrived <- {m \in Messages : copies[m] > 0}
ImplementsMailbox == Mail!Spec

=============================================================================
