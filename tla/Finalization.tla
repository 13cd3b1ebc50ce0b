---------------------------- MODULE Finalization ----------------------------
(***************************************************************************)
(* Evidence of one signed contract: the job ConfirmAndSign queues, the     *)
(* finalization worker that claims it, and the artifacts contracts.Finalizer *)
(* writes to object storage at two fixed keys before it records their      *)
(* hashes on the contract row.                                             *)
(*                                                                         *)
(* Each step is one statement, transaction or storage call of a worker.    *)
(* A worker is one running server process: it may stop at any step, and a  *)
(* new process resumes from the rows.  A run stamps its evidence with the  *)
(* time (IssuedAt), so the number of the attempt stands for the content    *)
(* and for its hash.                                                       *)
(***************************************************************************)
EXTENDS Naturals

CONSTANTS
    Workers,        \* processes polling the jobs
    MaxAttempts,    \* attempts < 8 in claim
    MaxFailures     \* bound: failures, timeouts and crashes

ASSUME BoundsAssumption == MaxAttempts \in Nat \ {0} /\ MaxFailures \in Nat

VARIABLES
    contract,       \* signed, and the hashes recorded when it was finalized
    job,            \* the row of contract_finalization_jobs
    storage,        \* what evidence.pdf and signed-package.zip hold
    workers,        \* step and attempt of each worker
    failures,       \* failures so far
    interrupted     \* history: the attempt that recorded the hashes did not mark its job

vars == <<contract, job, storage, workers, failures, interrupted>>

Attempts == 1 .. MaxAttempts
None == 0           \* no object, no hash, no attempt
Artifacts == {"evidence", "package"}
Steps == {"idle", "evidence", "package", "undo_evidence", "record", "undo_both",
          "undo_done", "failed", "completed"}

TypeOK ==
    /\ contract \in [signed : BOOLEAN, hash : {None} \cup Attempts]
    /\ job \in [status : {"none", "pending", "processing", "failed", "completed"},
                attempts : {None} \cup Attempts]
    /\ storage \in [Artifacts -> {None} \cup Attempts]
    /\ workers \in [Workers -> [step : Steps, attempt : {None} \cup Attempts]]
    /\ failures \in 0 .. MaxFailures /\ interrupted \in BOOLEAN

Idle == [step |-> "idle", attempt |-> None]

Init ==
    /\ contract = [signed |-> FALSE, hash |-> None]
    /\ job = [status |-> "none", attempts |-> None]
    /\ storage = [a \in Artifacts |-> None]
    /\ workers = [w \in Workers |-> Idle]
    /\ failures = 0 /\ interrupted = FALSE

Finalized == contract.hash # None
At(w, step) == workers[w].step = step
Go(w, step) == workers' = [workers EXCEPT ![w].step = step]
Fail == failures < MaxFailures /\ failures' = failures + 1

----------------------------------------------------------------------------

\* ConfirmAndSign of the only signer: contract and job in one transaction.
Sign ==
    /\ ~contract.signed
    /\ contract' = [contract EXCEPT !.signed = TRUE]
    /\ job' = [status |-> "pending", attempts |-> None]
    /\ UNCHANGED <<storage, workers, failures, interrupted>>

\* claim: one job at a time, row locked, attempts counted before the work.
ClaimPending == job.status = "pending" /\ job.attempts < MaxAttempts        \* mutant
MayClaim == job.status \in {"pending", "failed"} /\ job.attempts < MaxAttempts
Claim(w) ==
    /\ At(w, "idle")
    /\ MayClaim
    /\ job' = [status |-> "processing", attempts |-> job.attempts + 1]
    /\ workers' = [workers EXCEPT ![w] = [step |-> "evidence", attempt |-> job.attempts + 1]]
    /\ UNCHANGED <<contract, storage, failures, interrupted>>

\* Finalize: the report is loaded and rendered, then evidence.pdf is written
\* over whatever the key held.
PutEvidence(w) ==
    /\ At(w, "evidence")
    /\ storage' = [storage EXCEPT !["evidence"] = workers[w].attempt]
    /\ Go(w, "package")
    /\ UNCHANGED <<contract, job, failures, interrupted>>

PutPackage(w) ==
    /\ At(w, "package")
    /\ storage' = [storage EXCEPT !["package"] = workers[w].attempt]
    /\ Go(w, "record")
    /\ UNCHANGED <<contract, job, failures, interrupted>>

\* The transaction that records the hashes, unless that was done before.
AlwaysRecords == contract.signed            \* mutant: finalized_at is not looked at
MayRecord == contract.signed /\ ~Finalized
Record(w) ==
    /\ At(w, "record")
    /\ IF MayRecord
       THEN contract' = [contract EXCEPT !.hash = workers[w].attempt] /\ Go(w, "completed")
       ELSE UNCHANGED contract /\ Go(w, "undo_done")
    /\ UNCHANGED <<job, storage, failures, interrupted>>

\* cleanupArtifacts, or the deletion of the evidence alone, and what the run
\* then reports.
Undone(w) == IF At(w, "undo_evidence") THEN {"evidence"} ELSE Artifacts
Delete(gone) == storage' = [a \in Artifacts |-> IF a \in gone THEN None ELSE storage[a]]
AfterUndo(w) == Go(w, IF At(w, "undo_done") THEN "completed" ELSE "failed")
Undoing(w) == workers[w].step \in {"undo_evidence", "undo_both", "undo_done"}
Undo(w) ==
    /\ Undoing(w)
    /\ Delete(Undone(w))
    /\ AfterUndo(w)
    /\ UNCHANGED <<contract, job, failures, interrupted>>

\* process, last statement: only a job still in processing.
MarkJob(w) ==
    /\ \E status \in {"failed", "completed"} :
          /\ At(w, status)
          /\ job' = IF job.status = "processing" THEN [job EXCEPT !.status = status] ELSE job
    /\ workers' = [workers EXCEPT ![w] = Idle]
    /\ UNCHANGED <<contract, storage, failures, interrupted>>

Work(w) == PutEvidence(w) \/ PutPackage(w) \/ Record(w) \/ Undo(w) \/ MarkJob(w)

----------------------------------------------------------------------------
(* Failures *)

\* A step reports an error.  A write that failed may still have reached the
\* bucket; only after the second one is anything deleted.
StepFails(w) ==
    /\ Fail
    /\ \/ /\ At(w, "evidence")
          /\ storage' \in {storage, [storage EXCEPT !["evidence"] = workers[w].attempt]}
          /\ Go(w, "failed")
       \/ /\ At(w, "package")
          /\ storage' \in {storage, [storage EXCEPT !["package"] = workers[w].attempt]}
          /\ Go(w, "undo_evidence")
       \/ /\ At(w, "record")
          /\ UNCHANGED storage
          /\ Go(w, "undo_both")
    /\ UNCHANGED <<contract, job, interrupted>>

\* The answer to COMMIT is lost: an error without cleanup, although the
\* database may have committed.
UndoAfterCommitError == "undo_both"         \* mutant: cleans up on every error
AfterCommitError == "failed"
CommitUnknown(w) ==
    /\ At(w, "record")
    /\ MayRecord
    /\ Fail
    /\ \/ contract' = [contract EXCEPT !.hash = workers[w].attempt] /\ interrupted' = TRUE
       \/ UNCHANGED <<contract, interrupted>>
    /\ Go(w, AfterCommitError)
    /\ UNCHANGED <<job, storage>>

\* Deletions share the 90 seconds of the run and their errors are ignored.
UndoFails(w) ==
    /\ Undoing(w)
    /\ Fail
    /\ \E gone \in SUBSET Undone(w) : Delete(gone)
    /\ AfterUndo(w)
    /\ UNCHANGED <<contract, job, interrupted>>

\* Shutdown or crash between two steps, or the job cannot be marked.
Crash(w) ==
    /\ ~At(w, "idle")
    /\ Fail
    /\ workers' = [workers EXCEPT ![w] = Idle]
    /\ interrupted' = (interrupted \/ (Finalized /\ workers[w].attempt = contract.hash))
    /\ UNCHANGED <<contract, job, storage>>

\* First statement of process: a claim older than 5 minutes is given up.  A
\* run lasts 90 seconds at most; the model takes it that its last statement is
\* answered within the 3.5 minutes left, so by then its worker is gone.
Claimed == job.status = "processing"
LeaseExpires ==
    /\ Claimed
    /\ \A w \in Workers : At(w, "idle")
    /\ job' = [job EXCEPT !.status = "failed"]
    /\ UNCHANGED <<contract, storage, workers, failures, interrupted>>

Failure(w) == StepFails(w) \/ CommitUnknown(w) \/ UndoFails(w) \/ Crash(w)

----------------------------------------------------------------------------

Next ==
    \/ Sign
    \/ \E w \in Workers : Claim(w) \/ Work(w) \/ Failure(w)
    \/ LeaseExpires

\* Every process polls every 5 seconds for as long as it runs, and is
\* restarted when it stops.  Signing is up to the customer.
Fairness ==
    /\ WF_vars(LeaseExpires)
    /\ \A w \in Workers : WF_vars(Claim(w)) /\ WF_vars(Work(w))

Spec == Init /\ [][Next]_vars /\ Fairness

----------------------------------------------------------------------------
(* Properties *)

\* A completed job means recorded evidence, whatever the earlier attempts
\* left behind, and nothing is recorded for an unsigned contract.
CompletedIsFinalized ==
    /\ job.status = "completed" => Finalized
    /\ Finalized => contract.signed

\* The hashes on the contract never change once recorded, even when a lost
\* answer or a crash has the work done again.
RecordedOnce == [][Finalized => contract'.hash = contract.hash]_vars

\* The artifacts stay as recorded, whatever the attempts before and after left
\* or deleted (Finalize writes before it records, never deletes after a commit
\* it is not sure about, and a completed job is not claimed again).  But an
\* attempt that recorded them and could not mark its job has the work done again,
\* and the attempts after it overwrite and delete what is recorded.
RecordedIsStored ==
    Finalized => \/ \A a \in Artifacts : storage[a] = contract.hash
                 \/ interrupted /\ contract.hash < job.attempts

\* A completed job has its hashes recorded and, unless an interrupted attempt was
\* repeated, both artifacts stored with them.
EvidenceSound == TypeOK /\ CompletedIsFinalized /\ RecordedIsStored

\* "At the end of the signature" the evidence and the package "are produced" (the
\* README of the product): a completed job has both stored.  The code does not
\* keep this: an attempt that finds the hashes recorded by an interrupted one
\* deletes both objects and reports success.
FinalArtifactsKept ==
    job.status = "completed" => \A a \in Artifacts : storage[a] # None

\* With fewer failures than attempts, a signed contract gets its evidence.
SignedIsFinalized == contract.signed ~> Finalized

=============================================================================
