------------------------- MODULE FinalizationProofs -------------------------
(***************************************************************************)
(* Theorems of Finalization, for any number of workers and attempts and    *)
(* any failures: the job, the contract row and the storage agree, and the  *)
(* recorded hashes never change.                                           *)
(*                                                                         *)
(* EvidenceSound is not inductive: whether the objects stay as recorded    *)
(* depends on what the worker at work may still write or delete.  The      *)
(* invariant adds that there is one such worker, that its attempt is the   *)
(* last one counted, that as long as it has objects to write or to delete  *)
(* it has not recorded their hashes, and that no attempt follows the one   *)
(* that recorded them unless that one was interrupted.                     *)
(*                                                                         *)
(* And of Presentations, the other documents that are rendered once and    *)
(* kept, for any number of editors, presentations, clients and versions:   *)
(* Numbered says which versions exist and are published in terms of the    *)
(* current one, RequestsHoldTheirs that what a request has read or written *)
(* is still stored, so that what it publishes or stores is what it should. *)
(***************************************************************************)
EXTENDS Finalization, Presentations, FiniteSetTheorems, TLAPS

USE BoundsAssumption

\* The lease keeps all but the worker of the last attempt out.
OneAtWork ==
    \A w \in Workers : workers[w].step # "idle" =>
        /\ job.status = "processing"
        /\ workers[w].attempt = job.attempts
        /\ \A v \in Workers : workers[v].step # "idle" => v = w

\* What a worker has done by the time it is at a step.
Writing == {"evidence", "package", "undo_evidence", "record", "undo_both", "undo_done"}
Progress ==
    \A w \in Workers :
        /\ workers[w].step \in Writing => contract.hash # job.attempts
        /\ workers[w].step \in {"package", "record"} => storage["evidence"] = job.attempts
        /\ workers[w].step = "record" => storage["package"] = job.attempts
        /\ workers[w].step \in {"undo_done", "completed"} => Finalized

\* Attempts are counted before they begin, and only for a signed contract.
Counted ==
    /\ contract.hash <= job.attempts
    /\ ~contract.signed => job.status = "none"
    /\ job.status = "none" => ~Finalized
    /\ job.status = "processing" => job.attempts # None

\* The objects are those of the last attempt when that one recorded them.
LastIsStored == Finalized /\ contract.hash = job.attempts => \A a \in Artifacts : storage[a] = contract.hash

\* Unless it is interrupted, the attempt that records the hashes is the last.
RecordsLast ==
    Finalized /\ ~interrupted =>
        /\ contract.hash = job.attempts
        /\ job.status = "completed" \/ \E w \in Workers : workers[w].step = "completed"

IInv == TypeOK /\ CompletedIsFinalized /\ LastIsStored /\ RecordsLast /\ OneAtWork /\ Progress /\ Counted

ContractType == [signed : BOOLEAN, hash : {None} \cup Attempts]
JobType == [status : {"none", "pending", "processing", "failed", "completed"},
            attempts : {None} \cup Attempts]
StorageType == [Artifacts -> {None} \cup Attempts]
WorkerType == [step : Steps, attempt : {None} \cup Attempts]

LEMMA InitIInv == Init => IInv
<1> SUFFICES ASSUME Init PROVE IInv
  OBVIOUS
<1>1. ~Finalized /\ job.status = "none" /\ job.attempts = None /\ contract.hash = None
  BY DEF Init, Finalized
<1>2. \A w \in Workers : workers[w].step = "idle"
  BY DEF Init, Idle
<1>3. TypeOK
  <2>1. Idle \in WorkerType
    BY DEF Idle, WorkerType, Steps
  <2>2. workers \in [Workers -> WorkerType] /\ storage \in StorageType
    BY <2>1 DEF Init, StorageType
  <2>3. failures \in 0 .. MaxFailures
    BY DEF Init
  <2>4. interrupted \in BOOLEAN
    BY DEF Init
  <2>5. contract \in ContractType /\ job \in JobType
    BY DEF Init, ContractType, JobType
  <2> QED
    BY <2>2, <2>3, <2>4, <2>5 DEF TypeOK, ContractType, JobType, StorageType, WorkerType
<1>4. CompletedIsFinalized /\ LastIsStored /\ RecordsLast /\ OneAtWork /\ Progress /\ Counted
  BY <1>1, <1>2 DEF CompletedIsFinalized, LastIsStored, RecordsLast, OneAtWork, Progress, Counted,
                    Writing, None
<1> QED
  BY <1>3, <1>4 DEF IInv

----------------------------------------------------------------------------
(* The steps *)

LEMMA SignStep == ASSUME IInv, Sign PROVE IInv'
<1>1. /\ contract.hash = None /\ contract' = [contract EXCEPT !.signed = TRUE]
      /\ contract \in ContractType
      /\ job' = [status |-> "pending", attempts |-> None]
      /\ UNCHANGED <<storage, workers, failures, interrupted>>
      /\ \A w \in Workers : workers[w].step = "idle"
  BY DEF Sign, IInv, TypeOK, ContractType, Counted, CompletedIsFinalized, Finalized, OneAtWork
<1>2. contract' \in ContractType /\ contract'.hash = None /\ contract'.signed = TRUE
  BY <1>1 DEF ContractType
<1> QED
  BY <1>1, <1>2 DEF IInv, TypeOK, ContractType, CompletedIsFinalized, LastIsStored, RecordsLast,
     OneAtWork, Progress, Counted, Finalized, None, Writing

\* Whoever claims finds all the others idle.
LEMMA ClaimStep == ASSUME IInv, NEW w \in Workers, Claim(w) PROVE IInv'
<1> DEFINE n == job.attempts + 1
<1>1. /\ n \in Attempts /\ job.attempts \in Nat /\ contract.hash <= job.attempts /\ contract.hash \in Nat
      /\ job' = [status |-> "processing", attempts |-> n]
      /\ workers' = [workers EXCEPT ![w] = [step |-> "evidence", attempt |-> n]]
      /\ workers \in [Workers -> WorkerType]
      /\ UNCHANGED <<contract, storage, failures, interrupted>>
      /\ \A v \in Workers : workers[v].step = "idle"
      /\ contract.signed /\ job.status # "completed"
  BY DEF Claim, MayClaim, IInv, TypeOK, WorkerType, Counted, OneAtWork, Attempts, None
<1>2. /\ [step |-> "evidence", attempt |-> n] \in WorkerType
      /\ workers' \in [Workers -> WorkerType]
      /\ workers'[w].step = "evidence" /\ workers'[w].attempt = n
      /\ \A v \in Workers \ {w} : workers'[v].step = "idle"
  BY <1>1 DEF WorkerType, Steps
<1>3. contract.hash # n /\ contract.hash <= n /\ n # None
  BY <1>1 DEF None
<1>4. TypeOK'
  BY <1>1, <1>2 DEF IInv, TypeOK, WorkerType
<1>5. job'.status = "processing" /\ job'.attempts = n
  BY <1>1
<1>6. OneAtWork' /\ Progress'
  BY <1>1, <1>2, <1>3, <1>5 DEF OneAtWork, Progress, Writing
<1>7. CompletedIsFinalized' /\ LastIsStored' /\ RecordsLast' /\ Counted'
  BY <1>1, <1>3, <1>5 DEF IInv, CompletedIsFinalized, LastIsStored, RecordsLast, Counted, Finalized
<1> QED
  BY <1>4, <1>6, <1>7 DEF IInv

\* The worker at work goes on to another step, writing or deleting objects
\* while their hashes are not recorded.
LEMMA WriteStep ==
  ASSUME IInv, NEW w \in Workers, NEW step \in Steps \ {"idle", "undo_done", "completed"},
         workers[w].step \in Writing,
         workers' = [workers EXCEPT ![w].step = step],
         storage' \in StorageType, failures' \in 0 .. MaxFailures,
         UNCHANGED <<contract, job, interrupted>>,
         step \in {"package", "record"} => storage'["evidence"] = job.attempts,
         step = "record" => storage'["package"] = job.attempts
  PROVE  IInv'
<1>1. /\ workers \in [Workers -> WorkerType]
      /\ \A v \in Workers : workers[v].step # "idle" => v = w
      /\ job.status = "processing" /\ workers[w].attempt = job.attempts
      /\ contract.hash # job.attempts
  BY DEF IInv, TypeOK, WorkerType, OneAtWork, Progress, Writing
<1>2. /\ workers' \in [Workers -> WorkerType]
      /\ workers'[w].step = step /\ workers'[w].attempt = workers[w].attempt
      /\ \A v \in Workers \ {w} : workers'[v] = workers[v]
  BY <1>1 DEF WorkerType
<1>3. TypeOK'
  BY <1>2 DEF IInv, TypeOK, StorageType, WorkerType
<1>4. OneAtWork' /\ Progress'
  BY <1>1, <1>2 DEF OneAtWork, Progress, Writing
<1>5. CompletedIsFinalized' /\ LastIsStored' /\ RecordsLast' /\ Counted'
  BY <1>1 DEF IInv, CompletedIsFinalized, LastIsStored, RecordsLast, Counted, Finalized
<1> QED
  BY <1>3, <1>4, <1>5 DEF IInv

\* The same step may end in "undo_done" or "completed", when it has recorded
\* the hashes or found them recorded.
LEMMA RecordStep ==
  ASSUME IInv, NEW w \in Workers, NEW step \in {"completed", "failed", "undo_done"},
         workers[w].step \in Writing,
         workers' = [workers EXCEPT ![w].step = step],
         UNCHANGED <<job, storage>>, failures' \in 0 .. MaxFailures,
         \/ /\ contract' = contract /\ interrupted' = interrupted
            /\ step # "failed" => Finalized
         \/ /\ workers[w].step = "record" /\ contract.signed /\ step # "undo_done"
            /\ contract' = [contract EXCEPT !.hash = workers[w].attempt]
            /\ interrupted' \in BOOLEAN /\ (interrupted' \/ step = "completed")
  PROVE  IInv'
<1>1. /\ workers \in [Workers -> WorkerType] /\ contract \in ContractType
      /\ \A v \in Workers : workers[v].step # "idle" => v = w
      /\ job.status = "processing" /\ workers[w].attempt = job.attempts
      /\ contract.hash # job.attempts
      /\ job.attempts \in Attempts
      /\ workers[w].step = "record" => \A a \in Artifacts : storage[a] = job.attempts
  BY DEF IInv, TypeOK, ContractType, WorkerType, OneAtWork, Progress, Writing, Counted, Artifacts
<1>2. /\ workers' \in [Workers -> WorkerType]
      /\ workers'[w].step = step /\ workers'[w].attempt = workers[w].attempt
      /\ \A v \in Workers \ {w} : workers'[v] = workers[v]
  BY <1>1 DEF WorkerType, Steps
<1>3. /\ contract' \in ContractType /\ contract'.signed = contract.signed
      /\ \/ contract'.hash = contract.hash /\ (step # "failed" => Finalized) /\ interrupted' = interrupted
         \/ /\ contract'.hash = job.attempts /\ contract.signed /\ step # "undo_done"
            /\ workers[w].step = "record"
            /\ interrupted' \in BOOLEAN /\ (interrupted' \/ step = "completed")
  BY <1>1 DEF ContractType
<1>4. TypeOK'
  BY <1>2, <1>3 DEF IInv, TypeOK, ContractType, WorkerType
<1>5. OneAtWork' /\ Progress'
  BY <1>1, <1>2, <1>3 DEF OneAtWork, Progress, Writing, Finalized, Attempts, None
<1>6. CompletedIsFinalized' /\ LastIsStored' /\ Counted'
  BY <1>1, <1>3 DEF IInv, CompletedIsFinalized, LastIsStored, Counted, Finalized, Attempts, None
<1>7. RecordsLast'
  BY <1>1, <1>2, <1>3 DEF IInv, RecordsLast, Finalized
<1> QED
  BY <1>4, <1>5, <1>6, <1>7 DEF IInv

\* The worker stops, with the job marked or not.
LEMMA StopStep ==
  ASSUME IInv, NEW w \in Workers, workers[w].step # "idle", workers' = [workers EXCEPT ![w] = Idle],
         UNCHANGED <<contract, storage>>, failures' \in 0 .. MaxFailures,
         interrupted' \in BOOLEAN, interrupted => interrupted',
         Finalized /\ workers[w].attempt = contract.hash => interrupted' \/ job'.status = "completed",
         job' \in JobType, job'.attempts = job.attempts,
         \/ job'.status = job.status
         \/ job'.status = "failed"
         \/ job'.status = "completed" /\ workers[w].step = "completed"
  PROVE  IInv'
<1>1. /\ workers \in [Workers -> WorkerType]
      /\ \A v \in Workers : workers[v].step # "idle" => v = w
      /\ job.status = "processing" /\ contract.signed /\ workers[w].attempt = job.attempts
      /\ workers[w].step = "completed" => Finalized
  BY DEF IInv, TypeOK, WorkerType, OneAtWork, Progress, Counted
<1>2. workers' \in [Workers -> WorkerType] /\ \A v \in Workers : workers'[v].step = "idle"
  BY <1>1 DEF WorkerType, Idle, Steps, None
<1>3. TypeOK'
  BY <1>2 DEF IInv, TypeOK, JobType, WorkerType
<1>4. OneAtWork' /\ Progress'
  BY <1>2 DEF OneAtWork, Progress, Writing
<1>5. CompletedIsFinalized' /\ LastIsStored' /\ RecordsLast' /\ Counted'
  BY <1>1 DEF IInv, CompletedIsFinalized, LastIsStored, RecordsLast, Counted, Finalized
<1> QED
  BY <1>3, <1>4, <1>5 DEF IInv

\* The deletion after a run that found the hashes recorded.
LEMMA UndoDoneStep ==
  ASSUME IInv, NEW w \in Workers, workers[w].step = "undo_done",
         workers' = [workers EXCEPT ![w].step = "completed"],
         storage' \in StorageType, failures' \in 0 .. MaxFailures,
         UNCHANGED <<contract, job, interrupted>>
  PROVE  IInv'
<1>1. /\ workers \in [Workers -> WorkerType]
      /\ \A v \in Workers : workers[v].step # "idle" => v = w
      /\ job.status = "processing" /\ workers[w].attempt = job.attempts
      /\ contract.hash # job.attempts /\ Finalized
  BY DEF IInv, TypeOK, WorkerType, OneAtWork, Progress, Writing
<1>2. /\ workers' \in [Workers -> WorkerType]
      /\ workers'[w].step = "completed" /\ workers'[w].attempt = workers[w].attempt
      /\ \A v \in Workers \ {w} : workers'[v] = workers[v]
  BY <1>1 DEF WorkerType, Steps
<1>3. TypeOK'
  BY <1>2 DEF IInv, TypeOK, StorageType, WorkerType
<1>4. OneAtWork' /\ Progress'
  BY <1>1, <1>2 DEF OneAtWork, Progress, Writing, Finalized
<1>5. CompletedIsFinalized' /\ LastIsStored' /\ RecordsLast' /\ Counted'
  BY <1>1 DEF IInv, CompletedIsFinalized, LastIsStored, RecordsLast, Counted, Finalized
<1> QED
  BY <1>3, <1>4, <1>5 DEF IInv

\* What a worker at work finds.
LEMMA AtWork ==
  ASSUME IInv, NEW w \in Workers, workers[w].step # "idle"
  PROVE  /\ workers[w].attempt = job.attempts /\ job.attempts \in Attempts
         /\ storage \in StorageType /\ failures \in 0 .. MaxFailures /\ interrupted \in BOOLEAN
         /\ Fail => failures' \in 0 .. MaxFailures
<1>1. workers[w].attempt = job.attempts /\ job.attempts \in Attempts
  BY DEF IInv, TypeOK, OneAtWork, Counted
<1>2. storage \in StorageType /\ failures \in 0 .. MaxFailures /\ interrupted \in BOOLEAN
  BY DEF IInv, TypeOK, StorageType
<1>3. Fail => failures' \in 0 .. MaxFailures
  BY <1>2 DEF Fail
<1> QED
  BY <1>1, <1>2, <1>3

LEMMA PutStep == ASSUME IInv, NEW w \in Workers, PutEvidence(w) \/ PutPackage(w) PROVE IInv'
<1>1. /\ workers[w].step # "idle" /\ failures' = failures
      /\ UNCHANGED <<contract, job, interrupted>>
  BY DEF PutEvidence, PutPackage, At
<1>2. /\ workers[w].attempt = job.attempts /\ job.attempts \in Attempts
      /\ storage \in StorageType /\ failures \in 0 .. MaxFailures
  BY <1>1, AtWork
<1>3. CASE PutEvidence(w)
  <2>1. /\ storage' \in StorageType /\ storage'["evidence"] = job.attempts
        /\ workers[w].step \in Writing /\ "package" \in Steps \ {"idle", "undo_done", "completed"}
        /\ workers' = [workers EXCEPT ![w].step = "package"]
    BY <1>2, <1>3 DEF PutEvidence, At, Go, StorageType, Artifacts, Writing, Steps
  <2> QED
    BY <1>1, <1>2, <2>1, WriteStep
<1>4. CASE PutPackage(w)
  <2>1. workers[w].step = "package" /\ storage["evidence"] = job.attempts
    BY <1>4 DEF PutPackage, At, IInv, Progress
  <2>2. /\ storage' \in StorageType
        /\ storage'["evidence"] = job.attempts /\ storage'["package"] = job.attempts
        /\ workers[w].step \in Writing /\ "record" \in Steps \ {"idle", "undo_done", "completed"}
        /\ workers' = [workers EXCEPT ![w].step = "record"]
    BY <1>2, <1>4, <2>1 DEF PutPackage, At, Go, StorageType, Artifacts, Writing, Steps
  <2> QED
    BY <1>1, <1>2, <2>2, WriteStep
<1> QED
  BY <1>3, <1>4

LEMMA RecordsStep == ASSUME IInv, NEW w \in Workers, Record(w) \/ CommitUnknown(w) PROVE IInv'
<1>1. workers[w].step = "record" /\ workers[w].step \in Writing /\ UNCHANGED <<job, storage>>
  BY DEF Record, CommitUnknown, At, Writing
<1>2. failures' \in 0 .. MaxFailures
  BY <1>1, AtWork DEF Record, CommitUnknown
<1>3. CASE Record(w) /\ MayRecord
  <2>1. interrupted \in BOOLEAN
    BY DEF IInv, TypeOK
  <2> QED
    BY <1>1, <1>2, <1>3, <2>1, RecordStep DEF Record, MayRecord, Go
<1>4. CASE Record(w) /\ ~MayRecord
  <2>1. contract.signed
    BY <1>1 DEF IInv, OneAtWork, Counted
  <2>2. Finalized /\ UNCHANGED <<contract, interrupted>> /\ workers' = [workers EXCEPT ![w].step = "undo_done"]
    BY <1>4, <2>1 DEF Record, MayRecord, Go
  <2> QED
    BY <1>1, <1>2, <2>2, RecordStep
<1>5. CASE CommitUnknown(w)
  <2>1. /\ workers' = [workers EXCEPT ![w].step = "failed"] /\ contract.signed
        /\ \/ contract' = [contract EXCEPT !.hash = workers[w].attempt] /\ interrupted' = TRUE
           \/ UNCHANGED <<contract, interrupted>>
    BY <1>5 DEF CommitUnknown, MayRecord, Go, AfterCommitError
  <2> QED
    BY <1>1, <1>2, <2>1, RecordStep
<1> QED
  BY <1>3, <1>4, <1>5

LEMMA UndoStep == ASSUME IInv, NEW w \in Workers, Undo(w) \/ UndoFails(w) PROVE IInv'
<1>1. /\ Undoing(w) /\ workers[w].step # "idle" /\ UNCHANGED <<contract, job, interrupted>> /\ AfterUndo(w)
      /\ \E gone : Delete(gone)
  BY DEF Undo, UndoFails, Undoing
<1>2. storage \in StorageType /\ failures' \in 0 .. MaxFailures
  BY <1>1, AtWork DEF Undo, UndoFails
<1>3. storage' \in StorageType
  BY <1>1, <1>2 DEF Delete, StorageType, None
<1>4. CASE workers[w].step = "undo_done"
  BY <1>1, <1>2, <1>3, <1>4, UndoDoneStep DEF AfterUndo, At, Go
<1>5. CASE workers[w].step # "undo_done"
  <2>1. /\ workers[w].step \in Writing /\ workers' = [workers EXCEPT ![w].step = "failed"]
        /\ "failed" \in Steps \ {"idle", "undo_done", "completed"}
    BY <1>1, <1>5 DEF Undoing, AfterUndo, At, Go, Writing, Steps
  <2> QED
    BY <1>1, <1>2, <1>3, <2>1, WriteStep
<1> QED
  BY <1>4, <1>5

LEMMA FailedStep == ASSUME IInv, NEW w \in Workers, StepFails(w) PROVE IInv'
<1>1. PICK step \in {"failed", "undo_evidence", "undo_both"} :
        /\ workers[w].step \in Writing
        /\ workers' = [workers EXCEPT ![w].step = step]
        /\ storage' \in {storage, [storage EXCEPT !["evidence"] = workers[w].attempt],
                         [storage EXCEPT !["package"] = workers[w].attempt]}
        /\ UNCHANGED <<contract, job, interrupted>> /\ Fail
  BY DEF StepFails, At, Go, Writing
<1>2. /\ workers[w].step # "idle" /\ step \in Steps \ {"idle", "undo_done", "completed"}
      /\ step \notin {"package", "record"}
  BY <1>1 DEF Writing, Steps
<1>3. storage' \in StorageType /\ failures' \in 0 .. MaxFailures
  BY <1>1, <1>2, AtWork DEF StorageType, Artifacts
<1> QED
  BY <1>1, <1>2, <1>3, WriteStep

LEMMA EndStep == ASSUME IInv, NEW w \in Workers, MarkJob(w) \/ Crash(w) PROVE IInv'
<1>1. /\ workers[w].step # "idle" /\ workers' = [workers EXCEPT ![w] = Idle]
      /\ UNCHANGED <<contract, storage>>
  BY DEF MarkJob, Crash, At
<1>2. failures' \in 0 .. MaxFailures /\ interrupted \in BOOLEAN
  BY <1>1, AtWork DEF MarkJob, Crash
<1>3. job \in JobType
  BY DEF IInv, TypeOK, JobType
<1>4. CASE Crash(w)
  <2>1. interrupted' = (interrupted \/ (Finalized /\ workers[w].attempt = contract.hash)) /\ job' = job
    BY <1>4 DEF Crash
  <2>2. interrupted' \in BOOLEAN
    BY <1>2, <2>1
  <2> QED
    BY <1>1, <1>2, <1>3, <2>1, <2>2, StopStep
<1>5. CASE MarkJob(w)
  <2>1. PICK status \in {"failed", "completed"} :
          /\ workers[w].step = status
          /\ job' = IF job.status = "processing" THEN [job EXCEPT !.status = status] ELSE job
    BY <1>5 DEF MarkJob, At
  <2>2. job.status = "processing" /\ interrupted' = interrupted
    BY <1>1, <1>5 DEF IInv, OneAtWork, MarkJob
  <2>3. job' \in JobType /\ job'.attempts = job.attempts /\ job'.status = status
    BY <1>3, <2>1, <2>2 DEF JobType
  <2>4. Finalized /\ ~interrupted => status = "completed"
    BY <1>1, <2>1 DEF IInv, RecordsLast, OneAtWork
  <2> QED
    BY <1>1, <1>2, <2>1, <2>2, <2>3, <2>4, StopStep
<1> QED
  BY <1>4, <1>5

LEMMA LeaseStep == ASSUME IInv, LeaseExpires PROVE IInv'
<1>1. /\ job \in JobType /\ job' = [job EXCEPT !.status = "failed"] /\ contract.signed
      /\ job.status = "processing"
      /\ UNCHANGED <<contract, storage, workers, failures, interrupted>>
      /\ \A w \in Workers : workers[w].step = "idle"
  BY DEF LeaseExpires, Claimed, At, IInv, TypeOK, JobType, Counted
<1>2. job' \in JobType /\ job'.status = "failed" /\ job'.attempts = job.attempts
  BY <1>1 DEF JobType
<1> QED
  BY <1>1, <1>2 DEF IInv, TypeOK, JobType, CompletedIsFinalized, LastIsStored, RecordsLast, OneAtWork,
     Progress, Counted, Finalized, Writing

LEMMA StepIInv == IInv /\ [Next]_vars => IInv'
<1> SUFFICES ASSUME IInv, [Next]_vars PROVE IInv'
  OBVIOUS
<1>1. CASE UNCHANGED vars
  BY <1>1 DEF vars, IInv, TypeOK, CompletedIsFinalized, LastIsStored, RecordsLast, OneAtWork, Progress,
     Counted, Finalized
<1>2. CASE Next
  <2>1. CASE Sign
    BY <2>1, SignStep
  <2>2. ASSUME NEW w \in Workers, Claim(w) PROVE IInv'
    BY <2>2, ClaimStep
  <2>3. ASSUME NEW w \in Workers, Work(w) PROVE IInv'
    BY <2>3, PutStep, RecordsStep, UndoStep, EndStep DEF Work
  <2>4. ASSUME NEW w \in Workers, Failure(w) PROVE IInv'
    BY <2>4, FailedStep, RecordsStep, UndoStep, EndStep DEF Failure
  <2>5. CASE LeaseExpires
    BY <2>5, LeaseStep
  <2> QED
    BY <1>2, <2>1, <2>2, <2>3, <2>4, <2>5 DEF Next
<1> QED
  BY <1>1, <1>2

\* The lease, the count of attempts and the order of writing and recording
\* hold together, whatever fails.
THEOREM Invariant == Spec => []IInv
<1>1. Init => IInv
  BY InitIInv
<1> QED
  BY <1>1, StepIInv, PTL DEF Spec

\* A completed job has its hashes recorded, and both objects hold what is
\* recorded unless an attempt that was interrupted after it recorded them is
\* repeated, for any number of attempts, workers and failures.
THEOREM EvidenceIsSound == Spec => []EvidenceSound
<1>1. ASSUME IInv PROVE RecordedIsStored
  <2>1. job.attempts \in Nat /\ contract.hash \in Nat /\ contract.hash <= job.attempts
    BY <1>1 DEF IInv, TypeOK, Counted, Attempts, None
  <2>2. CASE contract.hash = job.attempts
    BY <1>1, <2>2 DEF IInv, LastIsStored, RecordedIsStored
  <2>3. CASE contract.hash < job.attempts
    <3>1. contract.hash # job.attempts
      BY <2>1, <2>3
    <3>2. Finalized => interrupted
      BY <1>1, <3>1, Zenon DEF IInv, RecordsLast
    <3> QED
      BY <2>3, <3>2, Zenon DEF RecordedIsStored
  <2> QED
    BY <2>1, <2>2, <2>3
<1>2. IInv => EvidenceSound
  BY <1>1 DEF IInv, EvidenceSound
<1> QED
  BY <1>2, Invariant, PTL

\* The recorded hashes never change (finalizeTx returns early when
\* finalized_at is set, and confirming a signature again cannot reset it).
THEOREM RecordedStaysOnce == Spec => RecordedOnce
<1>1. ASSUME IInv, [Next]_vars, Finalized PROVE contract'.hash = contract.hash
  <2>1. CASE Sign
    BY <1>1, <2>1 DEF Sign, IInv, CompletedIsFinalized
  <2>2. ASSUME ~Sign PROVE contract' = contract
    BY <1>1, <2>2 DEF Next, vars, Claim, Work, Failure, PutEvidence, PutPackage, Record, Undo,
       MarkJob, StepFails, CommitUnknown, UndoFails, Crash, LeaseExpires, MayRecord
  <2> QED
    BY <2>1, <2>2
<1>2. IInv /\ [Next]_vars => [Finalized => contract'.hash = contract.hash]_vars
  BY <1>1
<1> QED
  BY <1>2, Invariant, PTL DEF Spec, RecordedOnce

----------------------------------------------------------------------------
(* Presentations *)

HIDE BoundsAssumption

\* The versions of a presentation: all up to the current one are published, at
\* most one more is stored, and that is the draft.
Numbered ==
    \A p \in Presentations, n \in Numbers :
        /\ n <= presentations[p].current => Stored(p, n)
        /\ n > presentations[p].current + 1 => ~Stored(p, n)
        /\ versions[p][n].published <=> n <= presentations[p].current

\* Before the first save there is neither a client nor a version.
RowsBegin ==
    \A p \in Presentations : ~Exists(p) =>
        presentations[p] = NoPresentation /\ \A n \in Numbers : ~Stored(p, n)

\* What a request has read or written is still what is stored: published
\* versions for good, a draft until another save overtakes it.
RequestsHoldTheirs ==
    \A r \in Requests :
        LET p == requests[r].presentation
            n == requests[r].version
        IN  /\ requests[r].step \in {"load", "fetch", "render"} => n <= presentations[p].current
            /\ requests[r].step \in {"fetch", "render"} => requests[r].content = versions[p][n].content
            /\ requests[r].step = "publish" =>
                  requests[r].overtaken \/ requests[r].content = versions[p][n].content

PresentingInv ==
    /\ PresentationsTypeOK
    /\ Numbered
    /\ RowsBegin
    /\ ClientsAreTheOwners
    /\ RequestsHoldTheirs
    /\ PdfMatchesLink

PresentationType == [owner : Users \cup {Nothing}, client : Clients \cup {Nothing},
                     title : Contents \cup {Nothing}, current : 0 .. MaxVersion]
VersionType == [content : Contents \cup {Nothing}, published : BOOLEAN]
ClientType == [owner : Users \cup {Nothing}, cnpj : Cnpjs \cup {Nothing}, writer : Users \cup {Nothing}]
RequestType == [step : {"idle", "publish", "load", "fetch", "render"}, user : Users \cup {Nothing},
                presentation : Presentations \cup {Nothing}, version : 0 .. MaxVersion,
                content : Contents \cup {Nothing}, overtaken : BOOLEAN]

\* What a request must refer to.
Refers(x) == x.step # "idle" => x.presentation \in Presentations /\ x.version \in Numbers

LEMMA PresentationTypes ==
  ASSUME PresentationsTypeOK
  PROVE  /\ presentations \in [Presentations -> PresentationType]
         /\ versions \in [Presentations -> [Numbers -> VersionType]]
         /\ clients \in [Clients -> ClientType]
         /\ cache \in [Presentations -> [Numbers -> Contents \cup {Nothing}]]
         /\ requests \in [Requests -> RequestType]
         /\ \A r \in Requests : /\ Refers(requests[r])
                                /\ requests[r].step # "idle" =>
                                      Stored(requests[r].presentation, requests[r].version)
BY DEF PresentationsTypeOK, PresentationType, VersionType, ClientType, RequestType, Refers, Stored

LEMMA PresentingInit == PresentationsInit => PresentingInv
<1> SUFFICES ASSUME PresentationsInit PROVE PresentingInv
  OBVIOUS
<1>1. /\ NoPresentation \in PresentationType /\ NoPresentation.owner = Nothing
      /\ NoPresentation.current = 0 /\ NoPresentation.client = Nothing
  BY PresentationsAssumption DEF NoPresentation, PresentationType
<1>2. NoVersion \in VersionType /\ NoVersion.content = Nothing /\ ~NoVersion.published
  BY DEF NoVersion, VersionType
<1>3. NoClient \in ClientType /\ NoClient.owner = Nothing /\ NoClient.writer = Nothing
  BY DEF NoClient, ClientType
<1>4. NoRequest \in RequestType /\ NoRequest.step = "idle"
  BY PresentationsAssumption DEF NoRequest, RequestType
<1>5. /\ presentations \in [Presentations -> PresentationType]
      /\ versions \in [Presentations -> [Numbers -> VersionType]]
      /\ clients \in [Clients -> ClientType]
      /\ cache \in [Presentations -> [Numbers -> Contents \cup {Nothing}]]
      /\ requests \in [Requests -> RequestType]
      /\ \A r \in Requests : requests[r].step = "idle"
  BY <1>1, <1>2, <1>3, <1>4 DEF PresentationsInit
<1>6. PresentationsTypeOK
  BY <1>5 DEF PresentationsTypeOK, PresentationType, VersionType, ClientType, RequestType
<1>7. Numbered
  BY <1>1, <1>2 DEF PresentationsInit, Numbered, Stored, Numbers
<1>8. RowsBegin /\ ClientsAreTheOwners
  BY <1>1, <1>2, <1>3 DEF PresentationsInit, RowsBegin, ClientsAreTheOwners, Stored
<1>9. RequestsHoldTheirs /\ PdfMatchesLink
  BY <1>5 DEF PresentationsInit, RequestsHoldTheirs, PdfMatchesLink
<1> QED
  BY <1>6, <1>7, <1>8, <1>9 DEF PresentingInv

----------------------------------------------------------------------------
(* Steps of requests that write nothing but the request *)

LEMMA RequestStep ==
  ASSUME PresentingInv, NEW r \in Requests, NEW x \in RequestType,
         UNCHANGED <<presentations, versions, clients, cache>>,
         requests' = [requests EXCEPT ![r] = x],
         x.step \notin {"idle", "publish"} =>
            /\ x.presentation \in Presentations /\ x.version \in Numbers
            /\ x.version <= presentations[x.presentation].current,
         x.step \in {"fetch", "render"} => x.content = versions[x.presentation][x.version].content,
         x.step # "publish"
  PROVE  PresentingInv'
<1>1. /\ requests' \in [Requests -> RequestType] /\ requests'[r] = x
      /\ \A q \in Requests \ {r} : requests'[q] = requests[q]
  BY PresentationTypes DEF PresentingInv
<1>2. \A q \in Requests : /\ Refers(requests'[q])
                          /\ requests'[q].step # "idle" =>
                                Stored(requests'[q].presentation, requests'[q].version)
  BY <1>1, PresentationTypes DEF PresentingInv, Refers, Numbered
<1>3. PresentationsTypeOK'
  BY <1>1, <1>2 DEF PresentingInv, PresentationsTypeOK, RequestType, Refers, Stored
<1>4. Numbered' /\ RowsBegin' /\ ClientsAreTheOwners' /\ PdfMatchesLink'
  BY DEF PresentingInv, Numbered, RowsBegin, ClientsAreTheOwners, PdfMatchesLink, Stored, Exists, Public
<1>5. RequestsHoldTheirs'
  BY <1>1 DEF PresentingInv, RequestsHoldTheirs
<1> QED
  BY <1>3, <1>4, <1>5 DEF PresentingInv

LEMMA IdleRequest == NoRequest \in RequestType /\ NoRequest.step = "idle"
BY PresentationsAssumption DEF NoRequest, RequestType

LEMMA PresentationEndEarly ==
  ASSUME PresentingInv, NEW r \in Requests,
         End(r), UNCHANGED <<presentations, versions, clients, cache>>
  PROVE  PresentingInv'
BY IdleRequest, RequestStep DEF End

LEMMA StartDownloadKeeps ==
  ASSUME PresentingInv, NEW r \in Requests, StartDownload(r)
  PROVE  PresentingInv'
<1>1. PICK u \in Users, p \in Presentations :
        /\ Listed(u, p)
        /\ requests' = [requests EXCEPT ![r] =
              [NoRequest EXCEPT !.step = "load", !.presentation = p, !.version = presentations[p].current]]
  BY DEF StartDownload
<1> DEFINE x == [NoRequest EXCEPT !.step = "load", !.presentation = p, !.version = presentations[p].current]
<1>2. presentations[p].current \in Numbers
  <2>1. presentations[p] \in PresentationType /\ presentations[p].current # 0
    BY <1>1, PresentationTypes DEF PresentingInv, Listed
  <2> QED
    BY <2>1, PresentationsAssumption DEF PresentationType, Numbers
<1>3. /\ x \in RequestType /\ x.step = "load" /\ x.presentation = p
      /\ x.version = presentations[p].current
  <2> DEFINE n == presentations[p].current
  <2>1. n \in 0 .. MaxVersion
    BY <1>2 DEF Numbers
  <2> HIDE DEF n
  <2> SUFFICES LET y == [NoRequest EXCEPT !.step = "load", !.presentation = p, !.version = n]
               IN  y \in RequestType /\ y.step = "load" /\ y.presentation = p /\ y.version = n
    BY DEF n
  <2> QED
    BY <2>1, IdleRequest DEF RequestType
<1> HIDE DEF x
<1>4. requests' = [requests EXCEPT ![r] = x]
  BY <1>1 DEF x
<1>5. UNCHANGED <<presentations, versions, clients, cache>>
  BY DEF StartDownload
<1>6. x.version <= presentations[x.presentation].current
  BY <1>2, <1>3 DEF Numbers
<1>7. x.presentation \in Presentations /\ x.version \in Numbers
  BY <1>2, <1>3
<1> QED
  BY <1>3, <1>4, <1>5, <1>6, <1>7, RequestStep

LEMMA LoadPublishedKeeps ==
  ASSUME PresentingInv, NEW r \in Requests, LoadPublished(r)
  PROVE  PresentingInv'
<1> DEFINE p == requests[r].presentation
           n == requests[r].version
           x == [requests[r] EXCEPT !.step = "fetch", !.content = versions[p][n].content]
<1>1. /\ requests[r] \in RequestType /\ requests[r].step = "load"
      /\ p \in Presentations /\ n \in Numbers /\ n <= presentations[p].current
  BY PresentationTypes DEF PresentingInv, LoadPublished, AtStep, RequestsHoldTheirs, Refers
<1>2. CASE presentations[p].current = n
  <2>1. versions[p][n].content \in Contents \cup {Nothing}
    BY <1>1, PresentationTypes DEF PresentingInv, VersionType
  <2>2. /\ x \in RequestType /\ x.step = "fetch" /\ x.presentation = p /\ x.version = n
        /\ x.content = versions[p][n].content
    BY <1>1, <2>1 DEF RequestType
  <2>3. requests' = [requests EXCEPT ![r] = x]
    <3>1. requests' = [requests EXCEPT ![r].step = "fetch", ![r].content = versions[p][n].content]
      BY <1>2 DEF LoadPublished
    <3>2. requests \in [Requests -> RequestType]
      BY PresentationTypes DEF PresentingInv
    <3> QED
      BY <3>1, <3>2
  <2> HIDE DEF x
  <2> QED
    BY <1>1, <2>2, <2>3, RequestStep DEF LoadPublished
<1>3. CASE presentations[p].current # n
  BY <1>3, PresentationEndEarly DEF LoadPublished
<1> QED
  BY <1>2, <1>3

LEMMA FetchKeeps ==
  ASSUME PresentingInv, NEW r \in Requests, Fetch(r)
  PROVE  PresentingInv'
<1> DEFINE x == [requests[r] EXCEPT !.step = "render"]
<1>1. /\ requests[r] \in RequestType /\ requests[r].step = "fetch"
      /\ requests[r].presentation \in Presentations /\ requests[r].version \in Numbers
      /\ requests[r].version <= presentations[requests[r].presentation].current
      /\ requests[r].content = versions[requests[r].presentation][requests[r].version].content
  BY PresentationTypes DEF PresentingInv, Fetch, AtStep, RequestsHoldTheirs, Refers
<1>2. CASE End(r)
  BY <1>2, PresentationEndEarly DEF Fetch
<1>3. CASE requests' = [requests EXCEPT ![r].step = "render"]
  <2>1. /\ x \in RequestType /\ x.step = "render" /\ x.presentation = requests[r].presentation
        /\ x.version = requests[r].version /\ x.content = requests[r].content
    BY <1>1 DEF RequestType
  <2>2. requests' = [requests EXCEPT ![r] = x]
    BY <1>3
  <2> HIDE DEF x
  <2> QED
    BY <1>1, <2>1, <2>2, RequestStep DEF Fetch
<1> QED
  BY <1>2, <1>3 DEF Fetch

\* The PDF goes under the key of the version it was rendered from.
LEMMA StoreKeeps ==
  ASSUME PresentingInv, NEW r \in Requests, Store(r)
  PROVE  PresentingInv'
<1> DEFINE p == requests[r].presentation
           n == requests[r].version
<1>1. /\ requests[r] \in RequestType /\ requests[r].step = "render"
      /\ p \in Presentations /\ n \in Numbers /\ n <= presentations[p].current
      /\ requests[r].content = versions[p][n].content
  BY PresentationTypes DEF PresentingInv, Store, AtStep, RequestsHoldTheirs, Refers
<1>2. /\ cache' = [cache EXCEPT ![p][n] = requests[r].content]
      /\ requests' = [requests EXCEPT ![r] = NoRequest]
      /\ UNCHANGED <<presentations, versions, clients>>
  BY DEF Store, CacheKey, End
<1>3. /\ cache' \in [Presentations -> [Numbers -> Contents \cup {Nothing}]]
      /\ cache'[p][n] = versions[p][n].content
      /\ \A q \in Presentations, k \in Numbers : (q # p \/ k # n) => cache'[q][k] = cache[q][k]
  BY <1>1, <1>2, PresentationTypes DEF PresentingInv, RequestType
<1>4. /\ requests' \in [Requests -> RequestType] /\ requests'[r].step = "idle"
      /\ \A q \in Requests \ {r} : requests'[q] = requests[q]
  BY <1>2, IdleRequest, PresentationTypes DEF PresentingInv
<1>5. PresentationsTypeOK'
  BY <1>2, <1>3, <1>4 DEF PresentingInv, PresentationsTypeOK, RequestType
<1>6. Numbered' /\ RowsBegin' /\ ClientsAreTheOwners'
  BY <1>2 DEF PresentingInv, Numbered, RowsBegin, ClientsAreTheOwners, Stored, Exists
<1>7. RequestsHoldTheirs'
  BY <1>2, <1>4 DEF PresentingInv, RequestsHoldTheirs
<1>8. PdfMatchesLink'
  <2>1. Public(p, n)
    <3>1. presentations[p].current # 0
      BY <1>1, PresentationTypes, PresentationsAssumption DEF PresentingInv, PresentationType, Numbers
    <3> QED
      BY <1>1, <3>1 DEF PresentingInv, Numbered, Public
  <2>2. \A q \in Presentations, k \in Numbers : Public(q, k)' <=> Public(q, k)
    BY <1>2 DEF Public
  <2> QED
    BY <1>1, <1>2, <1>3, <2>1, <2>2 DEF PresentingInv, PdfMatchesLink
<1> QED
  BY <1>5, <1>6, <1>7, <1>8 DEF PresentingInv

----------------------------------------------------------------------------
(* Publish *)

\* A publication moves the current version on to the draft.
PublishWrites(r) ==
    LET p == requests[r].presentation
        n == requests[r].version
    IN  /\ n = presentations[p].current + 1
        /\ versions' \in [Presentations -> [Numbers -> VersionType]]
        /\ versions'[p][n].published
        /\ \A q \in Presentations, k \in Numbers :
              /\ versions'[q][k].content = versions[q][k].content
              /\ (q # p \/ k # n) => (versions'[q][k].published <=> versions[q][k].published)
        /\ presentations' \in [Presentations -> PresentationType]
        /\ presentations'[p].current = n
        /\ \A q \in Presentations : /\ presentations'[q].owner = presentations[q].owner
                                    /\ presentations'[q].client = presentations[q].client
                                    /\ q # p => presentations'[q] = presentations[q]
        /\ \A q \in Presentations : /\ presentations[q].current \in Nat
                                    /\ presentations'[q].current >= presentations[q].current

LEMMA PublishEffect ==
  ASSUME PresentingInv, NEW r \in Requests, Publish(r),
         ~(versions[requests[r].presentation][requests[r].version].published
             \/ ~MayEdit(requests[r].user, requests[r].presentation))
  PROVE  PublishWrites(r)
<1> DEFINE p == requests[r].presentation
           n == requests[r].version
<1>1. /\ requests[r] \in RequestType /\ requests[r].step = "publish"
      /\ p \in Presentations /\ n \in Numbers /\ Stored(p, n)
  BY PresentationTypes DEF PresentingInv, Publish, AtStep, Refers
<1>2. ~(versions[p][n].published \/ ~MayEdit(requests[r].user, p))
  OBVIOUS
<1>3. /\ versions' = [versions EXCEPT ![p][n].published = TRUE]
      /\ presentations' = [presentations EXCEPT ![p].current = n]
  BY <1>2 DEF Publish, Saved
<1>4. n = presentations[p].current + 1
  <2>1. presentations[p].current \in 0 .. MaxVersion /\ MaxVersion \in Nat
    BY <1>1, PresentationTypes, PresentationsAssumption DEF PresentingInv, PresentationType
  <2>2. ~(n <= presentations[p].current) /\ ~(n > presentations[p].current + 1)
    BY <1>1, <1>2 DEF PresentingInv, Numbered
  <2> QED
    BY <1>1, <2>1, <2>2 DEF Numbers
<1>5. /\ versions' \in [Presentations -> [Numbers -> VersionType]]
      /\ versions'[p][n].published
      /\ \A q \in Presentations, k \in Numbers :
            /\ versions'[q][k].content = versions[q][k].content
            /\ (q # p \/ k # n) => (versions'[q][k].published <=> versions[q][k].published)
  <2>1. versions \in [Presentations -> [Numbers -> VersionType]]
    BY PresentationTypes DEF PresentingInv
  <2>2. /\ versions'[p] = [versions[p] EXCEPT ![n].published = TRUE]
        /\ \A q \in Presentations \ {p} : versions'[q] = versions[q]
    BY <1>1, <1>3, <2>1
  <2>3. /\ versions'[p][n] = [versions[p][n] EXCEPT !.published = TRUE]
        /\ \A k \in Numbers \ {n} : versions'[p][k] = versions[p][k]
    BY <1>1, <2>1, <2>2
  <2>4. versions[p][n] \in VersionType
    BY <1>1, <2>1
  <2>5. /\ versions'[p][n].published /\ versions'[p][n].content = versions[p][n].content
        /\ versions'[p][n] \in VersionType
    BY <2>3, <2>4 DEF VersionType
  <2>6. versions' \in [Presentations -> [Numbers -> VersionType]]
    <3>1. versions'[p] \in [Numbers -> VersionType]
      BY <1>1, <2>1, <2>2, <2>3, <2>5
    <3> QED
      BY <1>1, <1>3, <2>1, <2>2, <3>1
  <2> QED
    BY <2>2, <2>3, <2>5, <2>6
<1>6. /\ presentations' \in [Presentations -> PresentationType]
      /\ presentations'[p].current = n
      /\ \A q \in Presentations : /\ presentations'[q].owner = presentations[q].owner
                                  /\ presentations'[q].client = presentations[q].client
                                  /\ q # p => presentations'[q] = presentations[q]
  <2>1. presentations \in [Presentations -> PresentationType] /\ n \in 0 .. MaxVersion
    BY <1>1, PresentationTypes DEF PresentingInv, Numbers
  <2> QED
    BY <1>1, <1>3, <2>1 DEF PresentationType
<1>7. \A q \in Presentations : presentations[q].current \in Nat /\ presentations'[q].current >= presentations[q].current
  <2>1. \A q \in Presentations : presentations[q].current \in Nat
    BY PresentationTypes, PresentationsAssumption DEF PresentingInv, PresentationType
  <2> QED
    BY <1>4, <1>6, <2>1
<1> QED
  BY <1>4, <1>5, <1>6, <1>7 DEF PublishWrites

LEMMA PublishKeeps ==
  ASSUME PresentingInv, NEW r \in Requests, Publish(r)
  PROVE  PresentingInv'
<1> DEFINE p == requests[r].presentation
           n == requests[r].version
<1>1. /\ requests[r] \in RequestType /\ requests[r].step = "publish"
      /\ p \in Presentations /\ n \in Numbers /\ Stored(p, n)
      /\ requests' = [requests EXCEPT ![r] = NoRequest]
      /\ UNCHANGED <<clients, cache>>
  BY PresentationTypes DEF PresentingInv, Publish, AtStep, Refers, End
<1>2. CASE versions[p][n].published \/ ~MayEdit(requests[r].user, p)
  BY <1>1, <1>2, PresentationEndEarly DEF Publish, Saved, End
<1>3. CASE ~(versions[p][n].published \/ ~MayEdit(requests[r].user, p))
  <2>1. PublishWrites(r)
    BY <1>3, PublishEffect
  <2>2. n = presentations[p].current + 1
    BY <2>1 DEF PublishWrites
  <2>3. /\ versions' \in [Presentations -> [Numbers -> VersionType]]
        /\ versions'[p][n].published
        /\ \A q \in Presentations, k \in Numbers :
              /\ versions'[q][k].content = versions[q][k].content
              /\ (q # p \/ k # n) => (versions'[q][k].published <=> versions[q][k].published)
    BY <2>1 DEF PublishWrites
  <2>4. /\ presentations' \in [Presentations -> PresentationType]
        /\ presentations'[p].current = n
        /\ \A q \in Presentations : /\ presentations'[q].owner = presentations[q].owner
                                    /\ presentations'[q].client = presentations[q].client
                                    /\ q # p => presentations'[q] = presentations[q]
    BY <2>1 DEF PublishWrites
  <2>6. \A q \in Presentations : presentations[q].current \in Nat /\ presentations'[q].current >= presentations[q].current
    BY <2>1 DEF PublishWrites
  <2>5. /\ requests' \in [Requests -> RequestType] /\ requests'[r].step = "idle"
        /\ \A q \in Requests \ {r} : requests'[q] = requests[q]
    BY <1>1, IdleRequest, PresentationTypes DEF PresentingInv
  <2>7. PresentationsTypeOK'
    <3>1. ASSUME NEW q \in Requests, requests'[q].step # "idle"
          PROVE  /\ requests'[q].presentation \in Presentations /\ requests'[q].version \in Numbers
                 /\ versions'[requests'[q].presentation][requests'[q].version].content # Nothing
      <4>1. requests'[q] = requests[q]
        BY <2>5, <3>1
      <4>2. /\ requests[q].presentation \in Presentations /\ requests[q].version \in Numbers
            /\ versions[requests[q].presentation][requests[q].version].content # Nothing
        BY <3>1, <4>1, PresentationTypes DEF PresentingInv, Refers, Stored
      <4> QED
        BY <2>3, <4>1, <4>2
    <3> QED
      BY <1>1, <2>3, <2>4, <2>5, <3>1
         DEF PresentingInv, PresentationsTypeOK, RequestType, VersionType, PresentationType
  <2>8. Numbered'
    <3> SUFFICES ASSUME NEW q \in Presentations, NEW k \in Numbers
                 PROVE  /\ k <= presentations'[q].current => versions'[q][k].content # Nothing
                        /\ k > presentations'[q].current + 1 => ~(versions'[q][k].content # Nothing)
                        /\ versions'[q][k].published <=> k <= presentations'[q].current
      BY DEF Numbered, Stored
    <3>1. /\ k <= presentations[q].current => versions[q][k].content # Nothing
          /\ k > presentations[q].current + 1 => ~(versions[q][k].content # Nothing)
          /\ versions[q][k].published <=> k <= presentations[q].current
      BY DEF PresentingInv, Numbered, Stored
    <3>2. CASE q # p
      BY <2>3, <2>4, <3>1, <3>2
    <3>3. CASE q = p
      <4>1. k \in Nat /\ n \in Nat /\ presentations[p].current \in Nat
        BY <1>1, <2>6 DEF Numbers
      <4>2. presentations'[q].current = n /\ n = presentations[q].current + 1
        BY <2>2, <2>4, <3>3
      <4>3. versions'[q][k].content = versions[q][k].content
        BY <2>3
      <4>4. CASE k = n
        BY <1>1, <2>3, <3>3, <4>1, <4>2, <4>3, <4>4 DEF Stored
      <4>5. CASE k # n
        <5>1. versions'[q][k].published <=> versions[q][k].published
          BY <2>3, <4>5
        <5>2. /\ k <= n <=> k <= presentations[q].current
              /\ k > n + 1 => k > presentations[q].current + 1
          BY <3>3, <4>1, <4>2, <4>5
        <5> HIDE DEF n
        <5> QED
          BY <3>1, <4>2, <4>3, <5>1, <5>2
      <4> QED
        BY <4>4, <4>5
    <3> QED
      BY <3>2, <3>3
  <2>9. RowsBegin'
    <3>1. Exists(p)
      BY <1>1 DEF PresentingInv, RowsBegin
    <3> SUFFICES ASSUME NEW q \in Presentations, presentations'[q].owner = Nothing
                 PROVE  /\ presentations'[q] = NoPresentation
                        /\ \A k \in Numbers : ~(versions'[q][k].content # Nothing)
      BY DEF RowsBegin, Exists, Stored
    <3>2. presentations[q].owner = Nothing /\ q # p
      BY <2>4, <3>1 DEF Exists
    <3>3. /\ presentations[q] = NoPresentation
          /\ \A k \in Numbers : ~(versions[q][k].content # Nothing)
      BY <3>2 DEF PresentingInv, RowsBegin, Exists, Stored
    <3> QED
      BY <2>3, <2>4, <3>2, <3>3 DEF NoPresentation
  <2>10. ClientsAreTheOwners'
    BY <1>1, <2>4 DEF PresentingInv, ClientsAreTheOwners
  <2>11. RequestsHoldTheirs'
    <3>1. \A q \in Requests : requests[q].step # "idle" =>
              requests[q].presentation \in Presentations /\ requests[q].version \in Numbers
      BY PresentationTypes DEF PresentingInv, Refers
    <3> SUFFICES ASSUME NEW q \in Requests, requests'[q].step # "idle"
                 PROVE  LET k == requests'[q].presentation
                            m == requests'[q].version
                        IN  /\ requests'[q].step \in {"load", "fetch", "render"} =>
                                   m <= presentations'[k].current
                            /\ requests'[q].step \in {"fetch", "render"} =>
                                   requests'[q].content = versions'[k][m].content
                            /\ requests'[q].step = "publish" =>
                                   requests'[q].overtaken \/ requests'[q].content = versions'[k][m].content
      BY DEF RequestsHoldTheirs
    <3> DEFINE k == requests[q].presentation
               m == requests[q].version
    <3>2. requests'[q] = requests[q] /\ k \in Presentations /\ m \in Numbers
      BY <2>5, <3>1
    <3>3. /\ requests[q].step \in {"load", "fetch", "render"} => m <= presentations[k].current
          /\ requests[q].step \in {"fetch", "render"} => requests[q].content = versions[k][m].content
          /\ requests[q].step = "publish" =>
                requests[q].overtaken \/ requests[q].content = versions[k][m].content
      BY DEF PresentingInv, RequestsHoldTheirs
    <3>4. m <= presentations[k].current => m <= presentations'[k].current
      BY <2>4, <2>6, <3>2, PresentationTypes DEF Numbers, PresentationType
    <3> HIDE DEF k, m
    <3>5. versions'[k][m].content = versions[k][m].content
      BY <2>3, <3>2
    <3> QED
      BY <3>2, <3>3, <3>4, <3>5 DEF k, m
  <2>12. PdfMatchesLink'
    <3>1. \A q \in Presentations, k \in Numbers : Public(q, k) => Public(q, k)'
      BY <2>3, <2>4, <2>6 DEF Public, Numbers
    <3> QED
      BY <1>1, <2>3, <3>1 DEF PresentingInv, PdfMatchesLink
  <2> QED
    BY <2>7, <2>8, <2>9, <2>10, <2>11, <2>12 DEF PresentingInv
<1> QED
  BY <1>2, <1>3

----------------------------------------------------------------------------
(* SaveDraft *)

\* What a save writes is the draft: the version after the current one.
LEMMA TheDraftIsNext ==
  ASSUME PresentingInv, NEW p \in Presentations, NEW n \in Numbers, IsSaveTarget(p, n)
  PROVE  n = presentations[p].current + 1
<1> DEFINE c == presentations[p].current
           stored == {k \in Numbers : Stored(p, k)}
           drafts == {k \in Numbers : Stored(p, k) /\ ~versions[p][k].published}
<1>1. c \in 0 .. MaxVersion /\ MaxVersion \in Nat
  BY PresentationTypes, PresentationsAssumption DEF PresentingInv, PresentationType
<1>2. \A k \in Numbers : /\ k <= c => Stored(p, k)
                         /\ k > c + 1 => ~Stored(p, k)
                         /\ versions[p][k].published <=> k <= c
  BY DEF PresentingInv, Numbered
<1> HIDE DEF c
<1>3. CASE drafts # {}
  <2>1. n \in drafts
    BY <1>3 DEF IsSaveTarget
  <2> QED
    BY <1>1, <1>2, <2>1 DEF Numbers, c
<1>4. CASE drafts = {}
  <2>1. n = Cardinality(stored) + 1
    BY <1>4 DEF IsSaveTarget
  <2>2. stored = 1 .. c
    <3>1. \A k \in stored : k <= c
      BY <1>2, <1>4
    <3> QED
      BY <1>1, <1>2, <3>1 DEF Numbers
  <2>3. Cardinality(1 .. c) = c
    BY <1>1, FS_Interval
  <2> QED
    BY <2>1, <2>2, <2>3 DEF c
<1> QED
  BY <1>3, <1>4

\* What Create and Update do to presentations and clients.
SaveWrites(p) ==
    /\ presentations' \in [Presentations -> PresentationType]
    /\ clients' \in [Clients -> ClientType]
    /\ presentations'[p].owner # Nothing
    /\ presentations'[p].current = presentations[p].current
    /\ \A q \in Presentations \ {p} : presentations'[q] = presentations[q]
    /\ ClientsAreTheOwners'

LEMMA CreateWrites ==
  ASSUME PresentingInv, NEW u \in Users, NEW p \in Presentations, NEW form \in Forms,
         Create(u, p, form)
  PROVE  SaveWrites(p)
<1>1. PICK client \in Clients \cup {Nothing} :
        /\ IF KnownTo(u, form.cnpj) # {} THEN client \in KnownTo(u, form.cnpj)
           ELSE IF form.named THEN client \in Clients /\ clients[client] = NoClient
           ELSE client = Nothing
        /\ presentations' = [presentations EXCEPT ![p] =
              [NoPresentation EXCEPT !.owner = u, !.client = client, !.title = form.content]]
        /\ clients' = IF ~form.named THEN clients
                      ELSE IF KnownTo(u, form.cnpj) # {} THEN [clients EXCEPT ![client].writer = u]
                      ELSE [clients EXCEPT ![client] = [owner |-> u, cnpj |-> form.cnpj, writer |-> u]]
  BY DEF Create
<1> DEFINE x == [NoPresentation EXCEPT !.owner = u, !.client = client, !.title = form.content]
<1>2. /\ x \in PresentationType /\ x.owner = u /\ x.client = client /\ x.current = 0
  <2>1. form.content \in Contents
    BY DEF Forms
  <2>2. NoPresentation \in PresentationType /\ NoPresentation.current = 0
    BY PresentationsAssumption DEF NoPresentation, PresentationType
  <2> QED
    BY <2>1, <2>2 DEF PresentationType
<1>3. presentations' = [presentations EXCEPT ![p] = x]
  BY <1>1
<1> HIDE DEF x
<1>4. /\ presentations \in [Presentations -> PresentationType] /\ clients \in [Clients -> ClientType]
  BY PresentationTypes DEF PresentingInv
<1>5. presentations[p].current = 0
  BY DEF Create, PresentingInv, RowsBegin, NoPresentation
<1>6. u # Nothing /\ Nothing \notin Clients
  BY PresentationsAssumption
<1>7. \A q \in Presentations : presentations[q].client # Nothing =>
          clients[presentations[q].client].owner = presentations[q].owner
  BY DEF PresentingInv, ClientsAreTheOwners
<1>8. \A c \in Clients : clients[c].writer \in {clients[c].owner} \cup ReadAll
  BY DEF PresentingInv, ClientsAreTheOwners
<1>9. /\ clients' \in [Clients -> ClientType]
      /\ client # Nothing => client \in Clients /\ clients'[client].owner = u
      /\ \A c \in Clients : clients'[c].writer \in {clients'[c].owner} \cup ReadAll
      /\ \A c \in Clients : clients[c].owner # Nothing => clients'[c].owner = clients[c].owner
  <2>1. CASE KnownTo(u, form.cnpj) # {}
    <3>1. client \in Clients /\ clients[client].owner = u
      BY <1>1, <2>1 DEF KnownTo
    <3>2. CASE form.named
      BY <1>1, <1>4, <1>8, <2>1, <3>1, <3>2 DEF ClientType
    <3>3. CASE ~form.named
      BY <1>1, <1>4, <1>8, <3>1, <3>3
    <3> QED
      BY <3>2, <3>3
  <2>2. CASE KnownTo(u, form.cnpj) = {} /\ form.named
    <3> DEFINE y == [owner |-> u, cnpj |-> form.cnpj, writer |-> u]
    <3>1. client \in Clients /\ clients[client].owner = Nothing
      BY <1>1, <2>2 DEF NoClient
    <3>2. y \in ClientType /\ y.owner = u /\ y.writer = u
      BY DEF ClientType, Forms
    <3>3. clients' = [clients EXCEPT ![client] = y]
      BY <1>1, <2>2
    <3> HIDE DEF y
    <3> QED
      BY <1>4, <1>8, <3>1, <3>2, <3>3
  <2>3. CASE KnownTo(u, form.cnpj) = {} /\ ~form.named
    BY <1>1, <1>4, <1>8, <2>3
  <2> QED
    BY <2>1, <2>2, <2>3
<1>10. /\ presentations' \in [Presentations -> PresentationType] /\ presentations'[p] = x
       /\ \A q \in Presentations \ {p} : presentations'[q] = presentations[q]
  BY <1>2, <1>3, <1>4
<1>11. ASSUME NEW q \in Presentations \ {p}, presentations[q].client # Nothing
       PROVE  clients'[presentations[q].client].owner = presentations[q].owner
  <2>1. presentations[q].client \in Clients
    BY <1>4, <1>11 DEF PresentationType
  <2>2. presentations[q].owner # Nothing
    BY <1>11 DEF PresentingInv, RowsBegin, Exists, NoPresentation
  <2> QED
    BY <1>7, <1>9, <1>11, <2>1, <2>2
<1>12. ClientsAreTheOwners'
  BY <1>2, <1>9, <1>10, <1>11 DEF ClientsAreTheOwners
<1> QED
  BY <1>2, <1>5, <1>6, <1>9, <1>10, <1>12 DEF SaveWrites

\* The client of a presentation is overwritten by whoever may edit the
\* presentation: its owner, whose client it is, or somebody who reads all.
LEMMA UpdateWrites ==
  ASSUME PresentingInv, NEW u \in Users, NEW p \in Presentations, NEW form \in Forms,
         Update(u, p, form)
  PROVE  SaveWrites(p)
<1> DEFINE client == presentations[p].client
<1>1. /\ presentations \in [Presentations -> PresentationType] /\ clients \in [Clients -> ClientType]
  BY PresentationTypes DEF PresentingInv
<1>2. /\ presentations' = [presentations EXCEPT ![p].title = form.content]
      /\ presentations[p].owner # Nothing /\ MayEdit(u, p)
  BY DEF Update, Exists
<1>3. /\ presentations' \in [Presentations -> PresentationType]
      /\ presentations'[p].current = presentations[p].current
      /\ \A q \in Presentations : presentations'[q].owner = presentations[q].owner
                                  /\ presentations'[q].client = presentations[q].client
      /\ \A q \in Presentations \ {p} : presentations'[q] = presentations[q]
  BY <1>1, <1>2 DEF PresentationType, Forms
<1>4. /\ \A q \in Presentations : presentations[q].client # Nothing =>
            clients[presentations[q].client].owner = presentations[q].owner
      /\ \A c \in Clients : clients[c].writer \in {clients[c].owner} \cup ReadAll
  BY DEF PresentingInv, ClientsAreTheOwners
<1>5. /\ clients' \in [Clients -> ClientType]
      /\ \A c \in Clients : clients'[c].owner = clients[c].owner
                            /\ clients'[c].writer \in {clients[c].owner} \cup ReadAll
  <2>1. CASE client # Nothing /\ form.named
    <3>1. client \in Clients /\ clients[client].owner = presentations[p].owner
      BY <1>1, <1>4, <2>1 DEF PresentationType
    <3>2. clients' = [clients EXCEPT ![client].cnpj = form.cnpj, ![client].writer = u]
      BY <2>1 DEF Update
    <3>3. u \in {clients[client].owner} \cup ReadAll
      BY <1>2, <3>1 DEF MayEdit
    <3> HIDE DEF client
    <3>4. form.cnpj \in Cnpjs \cup {Nothing}
      BY DEF Forms
    <3>5. /\ clients'[client] = [clients[client] EXCEPT !.cnpj = form.cnpj, !.writer = u]
          /\ \A c \in Clients \ {client} : clients'[c] = clients[c]
          /\ clients[client] \in ClientType
      BY <1>1, <3>1, <3>2
    <3>6. /\ clients'[client] \in ClientType /\ clients'[client].writer = u
          /\ clients'[client].owner = clients[client].owner
      BY <3>4, <3>5 DEF ClientType
    <3>7. clients' \in [Clients -> ClientType]
      BY <1>1, <3>1, <3>2, <3>5, <3>6
    <3> QED
      BY <1>4, <3>3, <3>5, <3>6, <3>7
  <2>2. CASE ~(client # Nothing /\ form.named)
    <3>1. clients' = clients
      BY <2>2 DEF Update
    <3> QED
      BY <1>1, <1>4, <3>1
  <2> QED
    BY <2>1, <2>2
<1>6. ASSUME NEW q \in Presentations, presentations[q].client # Nothing
      PROVE  clients'[presentations[q].client].owner = presentations[q].owner
  <2>1. presentations[q].client \in Clients
    BY <1>1, <1>6 DEF PresentationType
  <2> QED
    BY <1>4, <1>5, <1>6, <2>1
<1>7. ClientsAreTheOwners'
  BY <1>3, <1>5, <1>6 DEF ClientsAreTheOwners
<1> QED
  BY <1>2, <1>3, <1>5, <1>7 DEF SaveWrites

\* A save starts one publication at most, and everybody else about to publish
\* the same version is overtaken.
LEMMA SaveRequests ==
  ASSUME PresentingInv, NEW r \in Requests, NEW u \in Users, NEW p \in Presentations,
         NEW form \in Forms, NEW n \in Numbers,
         requests' \in {Overtaking(p, n)} \cup
            {[Overtaking(p, n) EXCEPT ![r] =
                [step |-> "publish", user |-> u, presentation |-> p, version |-> n,
                 content |-> form.content, overtaken |-> FALSE]] : v \in Publishers \cap {u}}
  PROVE  /\ requests' \in [Requests -> RequestType]
         /\ \A q \in Requests :
               \/ /\ requests'[q].step = "publish" /\ requests'[q].content = form.content
                  /\ requests'[q].presentation = p /\ requests'[q].version = n
               \/ /\ requests'[q].step = requests[q].step /\ requests'[q].content = requests[q].content
                  /\ requests'[q].presentation = requests[q].presentation
                  /\ requests'[q].version = requests[q].version
                  /\ requests[q].overtaken => requests'[q].overtaken
                  /\ (requests[q].step = "publish" /\ requests[q].presentation = p
                        /\ requests[q].version = n) => requests'[q].overtaken
<1> DEFINE over == Overtaking(p, n)
           mine == [step |-> "publish", user |-> u, presentation |-> p, version |-> n,
                    content |-> form.content, overtaken |-> FALSE]
<1>1. ASSUME NEW q \in Requests
      PROVE  /\ over[q] \in RequestType
             /\ over[q].step = requests[q].step /\ over[q].content = requests[q].content
             /\ over[q].presentation = requests[q].presentation
             /\ over[q].version = requests[q].version
             /\ requests[q].overtaken => over[q].overtaken
             /\ (requests[q].step = "publish" /\ requests[q].presentation = p
                   /\ requests[q].version = n) => over[q].overtaken
  <2> DEFINE x == [requests[q] EXCEPT !.overtaken = TRUE]
  <2>1. requests[q] \in RequestType
    BY PresentationTypes DEF PresentingInv
  <2>2. /\ x \in RequestType /\ x.step = requests[q].step /\ x.content = requests[q].content
        /\ x.presentation = requests[q].presentation /\ x.version = requests[q].version
        /\ x.overtaken
    BY <2>1 DEF RequestType
  <2>3. over[q] = IF requests[q].step = "publish" /\ requests[q].presentation = p /\ requests[q].version = n
                  THEN x ELSE requests[q]
    BY DEF Overtaking, AtStep
  <2> HIDE DEF x, over
  <2> QED
    BY <2>1, <2>2, <2>3
<1>2. /\ mine \in RequestType /\ mine.step = "publish" /\ mine.presentation = p
      /\ mine.version = n /\ mine.content = form.content
  <2>1. n \in 0 .. MaxVersion /\ form.content \in Contents
    BY PresentationsAssumption DEF Numbers, Forms
  <2> QED
    BY <2>1 DEF RequestType
<1>3. over = [q \in Requests |-> over[q]]
  BY DEF Overtaking
<1>4. requests' = over \/ requests' = [over EXCEPT ![r] = mine]
  OBVIOUS
<1> HIDE DEF over, mine
<1>5. over \in [Requests -> RequestType]
  BY <1>1, <1>3
<1>6. CASE requests' = over
  BY <1>1, <1>5, <1>6
<1>7. CASE requests' = [over EXCEPT ![r] = mine]
  BY <1>1, <1>2, <1>5, <1>7
<1> QED
  BY <1>4, <1>6, <1>7

\* A save writes the draft, and overtakes whoever is about to publish it.
DraftWritten(p, n, content) ==
    /\ SaveWrites(p)
    /\ n = presentations[p].current + 1
    /\ versions' \in [Presentations -> [Numbers -> VersionType]]
    /\ versions'[p][n].content = content /\ ~versions'[p][n].published
    /\ \A q \in Presentations, k \in Numbers : (q # p \/ k # n) => versions'[q][k] = versions[q][k]
    /\ \A q \in Presentations : presentations'[q].current = presentations[q].current
                                /\ presentations[q].current \in Nat
    /\ requests' \in [Requests -> RequestType]
    /\ \A q \in Requests :
          \/ /\ requests'[q].step = "publish" /\ requests'[q].content = content
             /\ requests'[q].presentation = p /\ requests'[q].version = n
          \/ /\ requests'[q].step = requests[q].step /\ requests'[q].content = requests[q].content
             /\ requests'[q].presentation = requests[q].presentation
             /\ requests'[q].version = requests[q].version
             /\ requests[q].overtaken => requests'[q].overtaken
             /\ (requests[q].step = "publish" /\ requests[q].presentation = p
                   /\ requests[q].version = n) => requests'[q].overtaken

LEMMA SaveEffect ==
  ASSUME PresentingInv, NEW r \in Requests, SavePresentation(r)
  PROVE  \E p \in Presentations, n \in Numbers, content \in Contents : DraftWritten(p, n, content)
<1>1. PICK u \in Users, p \in Presentations, form \in Forms, n \in Numbers :
        /\ Create(u, p, form) \/ Update(u, p, form)
        /\ IsSaveTarget(p, n)
        /\ versions' = [versions EXCEPT ![p][n] = [content |-> form.content, published |-> FALSE]]
        /\ requests' \in {Overtaking(p, n)} \cup
              {[Overtaking(p, n) EXCEPT ![r] =
                  [step |-> "publish", user |-> u, presentation |-> p, version |-> n,
                   content |-> form.content, overtaken |-> FALSE]] : v \in Publishers \cap {u}}
  BY DEF SavePresentation
<1>3. SaveWrites(p)
  BY <1>1, CreateWrites, UpdateWrites
<1>4. n = presentations[p].current + 1
  BY <1>1, TheDraftIsNext
<1>5. /\ requests' \in [Requests -> RequestType]
      /\ \A q \in Requests :
            \/ /\ requests'[q].step = "publish" /\ requests'[q].content = form.content
               /\ requests'[q].presentation = p /\ requests'[q].version = n
            \/ /\ requests'[q].step = requests[q].step /\ requests'[q].content = requests[q].content
               /\ requests'[q].presentation = requests[q].presentation
               /\ requests'[q].version = requests[q].version
               /\ requests[q].overtaken => requests'[q].overtaken
               /\ (requests[q].step = "publish" /\ requests[q].presentation = p
                     /\ requests[q].version = n) => requests'[q].overtaken
  BY <1>1, SaveRequests
<1>6. form.content \in Contents /\ form.content # Nothing
  BY PresentationsAssumption DEF Forms
<1>7. /\ versions' \in [Presentations -> [Numbers -> VersionType]]
      /\ versions'[p][n].content = form.content /\ ~versions'[p][n].published
      /\ \A q \in Presentations, k \in Numbers : (q # p \/ k # n) => versions'[q][k] = versions[q][k]
  <2> DEFINE d == [content |-> form.content, published |-> FALSE]
  <2>1. d \in VersionType /\ d.content = form.content /\ ~d.published
    BY <1>6 DEF VersionType
  <2>2. versions' = [versions EXCEPT ![p][n] = d]
    BY <1>1
  <2> HIDE DEF d
  <2>3. versions \in [Presentations -> [Numbers -> VersionType]]
    BY PresentationTypes DEF PresentingInv
  <2> QED
    BY <2>1, <2>2, <2>3
<1>8. \A q \in Presentations : presentations'[q].current = presentations[q].current
                               /\ presentations[q].current \in Nat
  BY <1>3, PresentationTypes, PresentationsAssumption DEF SaveWrites, PresentingInv, PresentationType
<1> QED
  BY <1>3, <1>4, <1>5, <1>6, <1>7, <1>8 DEF DraftWritten

LEMMA SaveKeeps ==
  ASSUME PresentingInv, NEW r \in Requests, SavePresentation(r)
  PROVE  PresentingInv'
<1>1. PICK p \in Presentations, n \in Numbers, content \in Contents : DraftWritten(p, n, content)
  BY SaveEffect
<1>2. cache' = cache
  BY DEF SavePresentation
<1>3. SaveWrites(p)
  BY <1>1 DEF DraftWritten
<1>4. n = presentations[p].current + 1
  BY <1>1 DEF DraftWritten
<1>5. /\ requests' \in [Requests -> RequestType]
      /\ \A q \in Requests :
            \/ /\ requests'[q].step = "publish" /\ requests'[q].content = content
               /\ requests'[q].presentation = p /\ requests'[q].version = n
            \/ /\ requests'[q].step = requests[q].step /\ requests'[q].content = requests[q].content
               /\ requests'[q].presentation = requests[q].presentation
               /\ requests'[q].version = requests[q].version
               /\ requests[q].overtaken => requests'[q].overtaken
               /\ (requests[q].step = "publish" /\ requests[q].presentation = p
                     /\ requests[q].version = n) => requests'[q].overtaken
  BY <1>1 DEF DraftWritten
<1>6. content # Nothing
  BY PresentationsAssumption
<1>7. /\ versions' \in [Presentations -> [Numbers -> VersionType]]
      /\ versions'[p][n].content = content /\ ~versions'[p][n].published
      /\ \A q \in Presentations, k \in Numbers : (q # p \/ k # n) => versions'[q][k] = versions[q][k]
  BY <1>1 DEF DraftWritten
<1>8. \A q \in Presentations : presentations'[q].current = presentations[q].current
                               /\ presentations[q].current \in Nat
  BY <1>1 DEF DraftWritten
<1>9. ~(n <= presentations[p].current) /\ ~(n > presentations[p].current + 1)
  BY <1>4, <1>8
<1>10. \A q \in Requests : requests[q].step # "idle" =>
          /\ requests[q].presentation \in Presentations /\ requests[q].version \in Numbers
          /\ versions[requests[q].presentation][requests[q].version].content # Nothing
  BY PresentationTypes DEF PresentingInv, Refers, Stored
<1>11. PresentationsTypeOK'
  <2>1. \A q \in Requests : requests'[q].step # "idle" =>
            /\ requests'[q].presentation \in Presentations /\ requests'[q].version \in Numbers
            /\ versions'[requests'[q].presentation][requests'[q].version].content # Nothing
    BY <1>5, <1>6, <1>7, <1>10
  <2> QED
    BY <1>2, <1>3, <1>5, <1>7, <2>1
       DEF PresentingInv, PresentationsTypeOK, RequestType, VersionType, PresentationType, ClientType, SaveWrites
<1>12. Numbered'
  <2> SUFFICES ASSUME NEW q \in Presentations, NEW k \in Numbers
               PROVE  /\ k <= presentations[q].current => versions'[q][k].content # Nothing
                      /\ k > presentations[q].current + 1 => ~(versions'[q][k].content # Nothing)
                      /\ versions'[q][k].published <=> k <= presentations[q].current
    BY <1>8 DEF Numbered, Stored
  <2>1. /\ k <= presentations[q].current => versions[q][k].content # Nothing
        /\ k > presentations[q].current + 1 => ~(versions[q][k].content # Nothing)
        /\ versions[q][k].published <=> k <= presentations[q].current
    BY DEF PresentingInv, Numbered, Stored
  <2>2. CASE q = p /\ k = n
    BY <1>6, <1>7, <1>9, <2>2
  <2>3. CASE q # p \/ k # n
    BY <1>7, <2>1, <2>3
  <2> QED
    BY <2>2, <2>3
<1>13. RowsBegin'
  <2>1. \A q \in Presentations \ {p} : presentations[q].owner = Nothing =>
            presentations[q] = NoPresentation /\ \A k \in Numbers : ~(versions[q][k].content # Nothing)
    BY DEF PresentingInv, RowsBegin, Exists, Stored
  <2>2. presentations'[p].owner # Nothing /\ \A q \in Presentations \ {p} : presentations'[q] = presentations[q]
    BY <1>3 DEF SaveWrites
  <2> QED
    BY <1>7, <2>1, <2>2 DEF RowsBegin, Exists, Stored, NoPresentation
<1>14. RequestsHoldTheirs'
  <2> SUFFICES ASSUME NEW q \in Requests, requests'[q].step # "idle"
               PROVE  LET k == requests'[q].presentation
                          m == requests'[q].version
                      IN  /\ requests'[q].step \in {"load", "fetch", "render"} =>
                                 m <= presentations'[k].current
                          /\ requests'[q].step \in {"fetch", "render"} =>
                                 requests'[q].content = versions'[k][m].content
                          /\ requests'[q].step = "publish" =>
                                 requests'[q].overtaken \/ requests'[q].content = versions'[k][m].content
    BY DEF RequestsHoldTheirs
  <2>1. CASE requests'[q].step = "publish" /\ requests'[q].content = content
             /\ requests'[q].presentation = p /\ requests'[q].version = n
    BY <1>7, <2>1
  <2>2. CASE /\ requests'[q].step = requests[q].step /\ requests'[q].content = requests[q].content
             /\ requests'[q].presentation = requests[q].presentation
             /\ requests'[q].version = requests[q].version
             /\ requests[q].overtaken => requests'[q].overtaken
             /\ (requests[q].step = "publish" /\ requests[q].presentation = p
                   /\ requests[q].version = n) => requests'[q].overtaken
    <3> DEFINE k == requests[q].presentation
               m == requests[q].version
    <3>1. k \in Presentations /\ m \in Numbers
      BY <1>10, <2>2
    <3>2. /\ requests[q].step \in {"load", "fetch", "render"} => m <= presentations[k].current
          /\ requests[q].step \in {"fetch", "render"} => requests[q].content = versions[k][m].content
          /\ requests[q].step = "publish" =>
                requests[q].overtaken \/ requests[q].content = versions[k][m].content
      BY DEF PresentingInv, RequestsHoldTheirs
    <3>3. presentations'[k].current = presentations[k].current
      BY <1>8, <3>1
    <3>4. (k # p \/ m # n) => versions'[k][m].content = versions[k][m].content
      BY <1>7, <3>1
    <3>5. (k = p /\ m = n) => ~(m <= presentations[k].current)
      BY <1>9
    <3> HIDE DEF k, m
    <3>6. requests'[q].presentation = k /\ requests'[q].version = m
      BY <2>2 DEF k, m
    <3>7. requests[q].step = "publish" /\ k = p /\ m = n => requests'[q].overtaken
      BY <2>2 DEF k, m
    <3> QED
      BY <2>2, <3>2, <3>3, <3>4, <3>5, <3>6, <3>7
  <2> QED
    BY <1>5, <2>1, <2>2
<1>15. PdfMatchesLink'
  <2> SUFFICES ASSUME NEW q \in Presentations, NEW k \in Numbers, cache[q][k] # Nothing
               PROVE  /\ versions'[q][k].published /\ presentations'[q].current # 0
                      /\ cache[q][k] = versions'[q][k].content
    BY <1>2 DEF PdfMatchesLink, Public
  <2>1. /\ versions[q][k].published /\ presentations[q].current # 0
        /\ cache[q][k] = versions[q][k].content
    BY DEF PresentingInv, PdfMatchesLink, Public
  <2>2. k <= presentations[q].current
    BY <2>1 DEF PresentingInv, Numbered
  <2>3. q # p \/ k # n
    BY <1>9, <2>2
  <2> QED
    BY <1>7, <1>8, <2>1, <2>3
<1>16. ClientsAreTheOwners'
  BY <1>3 DEF SaveWrites
<1> QED
  BY <1>11, <1>12, <1>13, <1>14, <1>15, <1>16 DEF PresentingInv

----------------------------------------------------------------------------

LEMMA PresentationsStep ==
  ASSUME PresentingInv, [PresentationsNext]_presentationsVars
  PROVE  PresentingInv'
<1>1. CASE UNCHANGED presentationsVars
  BY <1>1 DEF presentationsVars, PresentingInv, PresentationsTypeOK, Numbered, RowsBegin,
              ClientsAreTheOwners, RequestsHoldTheirs, PdfMatchesLink, Stored, Exists, Public
<1>2. CASE PresentationsNext
  <2>1. PICK r \in Requests : \/ SavePresentation(r) \/ Publish(r) \/ EndEarly(r)
                               \/ StartDownload(r) \/ LoadPublished(r) \/ Fetch(r) \/ Store(r)
    BY <1>2 DEF PresentationsNext
  <2>2. CASE SavePresentation(r)
    BY <2>2, SaveKeeps
  <2>3. CASE Publish(r)
    BY <2>3, PublishKeeps
  <2>4. CASE EndEarly(r)
    BY <2>4, PresentationEndEarly DEF EndEarly
  <2>5. CASE StartDownload(r)
    BY <2>5, StartDownloadKeeps
  <2>6. CASE LoadPublished(r)
    BY <2>6, LoadPublishedKeeps
  <2>7. CASE Fetch(r)
    BY <2>7, FetchKeeps
  <2>8. CASE Store(r)
    BY <2>8, StoreKeeps
  <2> QED
    BY <2>1, <2>2, <2>3, <2>4, <2>5, <2>6, <2>7, <2>8
<1> QED
  BY <1>1, <1>2

\* Published versions never change, and the current version never goes back.
LEMMA StepKeepsPublished ==
  ASSUME PresentingInv, [PresentationsNext]_presentationsVars,
         NEW p \in Presentations, NEW n \in Numbers, n <= presentations[p].current
  PROVE  /\ presentations'[p].current >= presentations[p].current
         /\ versions'[p][n].content = versions[p][n].content
<1>1. presentations[p].current \in Nat
  BY PresentationsAssumption DEF PresentingInv, PresentationsTypeOK
<1>2. CASE UNCHANGED <<presentations, versions>>
  BY <1>1, <1>2
<1>3. ASSUME NEW r \in Requests, SavePresentation(r)
      PROVE  /\ presentations'[p].current >= presentations[p].current
             /\ versions'[p][n].content = versions[p][n].content
  <2>1. PICK q \in Presentations, k \in Numbers, content \in Contents : DraftWritten(q, k, content)
    BY <1>3, SaveEffect
  <2>2. q # p \/ k # n
    BY <1>1, <2>1 DEF DraftWritten
  <2> QED
    BY <1>1, <2>1, <2>2 DEF DraftWritten
<1>4. ASSUME NEW r \in Requests, Publish(r), ~UNCHANGED <<presentations, versions>>
      PROVE  /\ presentations'[p].current >= presentations[p].current
             /\ versions'[p][n].content = versions[p][n].content
  <2>1. ~(versions[requests[r].presentation][requests[r].version].published
            \/ ~MayEdit(requests[r].user, requests[r].presentation))
    BY <1>4 DEF Publish, Saved
  <2>2. PublishWrites(r)
    BY <1>4, <2>1, PublishEffect
  <2> QED
    BY <2>2 DEF PublishWrites
<1>5. ASSUME NEW r \in Requests, StartDownload(r) \/ LoadPublished(r) \/ Fetch(r) \/ Store(r) \/ EndEarly(r)
      PROVE  UNCHANGED <<presentations, versions>>
  BY <1>5 DEF StartDownload, LoadPublished, Fetch, Store, EndEarly
<1> QED
  BY <1>2, <1>3, <1>4, <1>5 DEF PresentationsNext, presentationsVars

\* Only a request that has come to publish it publishes a version.
LEMMA OnlyPublishPublishes ==
  ASSUME PresentingInv, [PresentationsNext]_presentationsVars,
         NEW p \in Presentations, NEW n \in Numbers,
         ~versions[p][n].published, versions'[p][n].published
  PROVE  \E q \in Requests : /\ requests[q].step = "publish" /\ requests[q].presentation = p
                             /\ requests[q].version = n
                             /\ requests' = [requests EXCEPT ![q] = NoRequest]
<1>1. ~UNCHANGED versions
  OBVIOUS
<1>2. ASSUME NEW r \in Requests PROVE ~SavePresentation(r)
  <2> SUFFICES ASSUME SavePresentation(r) PROVE FALSE
    OBVIOUS
  <2>1. PICK q \in Presentations, k \in Numbers, content \in Contents : DraftWritten(q, k, content)
    BY SaveEffect
  <2>2. CASE q = p /\ k = n
    BY <2>1, <2>2 DEF DraftWritten
  <2>3. CASE q # p \/ k # n
    <3>1. versions'[p][n] = versions[p][n]
      BY <2>1, <2>3 DEF DraftWritten
    <3> QED
      BY <3>1
  <2> QED
    BY <2>2, <2>3
<1>3. PICK r \in Requests : Publish(r)
  BY <1>1, <1>2
     DEF PresentationsNext, presentationsVars, StartDownload, LoadPublished, Fetch, Store, EndEarly
<1>4. ~(versions[requests[r].presentation][requests[r].version].published
          \/ ~MayEdit(requests[r].user, requests[r].presentation))
  BY <1>1, <1>3 DEF Publish, Saved
<1>5. PublishWrites(r)
  BY <1>3, <1>4, PublishEffect
<1>6. requests[r].presentation = p /\ requests[r].version = n
  BY <1>5 DEF PublishWrites
<1> QED
  BY <1>3, <1>6 DEF Publish, AtStep, End

LEMMA PresentingIsInductive == PresentationsSpec => []PresentingInv
<1>1. PresentingInv /\ [PresentationsNext]_presentationsVars => PresentingInv'
  BY PresentationsStep
<1> QED
  BY <1>1, PresentingInit, PTL DEF PresentationsSpec

\* Numbered counts: the stored versions are the numbers up to the current one,
\* and perhaps the next.
LEMMA NumberedIsSound == ASSUME PresentingInv PROVE VersionsSound
<1> SUFFICES ASSUME NEW p \in Presentations
             PROVE  LET stored == {n \in Numbers : Stored(p, n)}
                        current == presentations[p].current
                    IN /\ stored = 1 .. Cardinality(stored)
                       /\ \A n \in stored : versions[p][n].published <=> n <= current
                       /\ Cardinality(stored) <= current + 1
  BY DEF VersionsSound
<1> DEFINE c == presentations[p].current
           stored == {n \in Numbers : Stored(p, n)}
<1>1. c \in 0 .. MaxVersion /\ MaxVersion \in Nat
  BY PresentationTypes, PresentationsAssumption DEF PresentingInv, PresentationType
<1>2. \A n \in Numbers : /\ n <= c => Stored(p, n)
                         /\ n > c + 1 => ~Stored(p, n)
                         /\ versions[p][n].published <=> n <= c
  BY DEF PresentingInv, Numbered
<1> HIDE DEF c
<1>3. PICK last \in {c, c + 1} : stored = 1 .. last
  <2>1. CASE c + 1 \in stored
    <3>1. stored = 1 .. c + 1
      BY <1>1, <1>2, <2>1 DEF Numbers
    <3> QED
      BY <3>1
  <2>2. CASE c + 1 \notin stored
    <3>1. stored = 1 .. c
      BY <1>1, <1>2, <2>2 DEF Numbers
    <3> QED
      BY <3>1
  <2> QED
    BY <2>1, <2>2
<1>4. Cardinality(stored) = last
  <2>1. last \in Nat
    BY <1>1, <1>3
  <2>2. Cardinality(1 .. last) = last
    BY <2>1, FS_Interval
  <2> QED
    BY <1>3, <2>2
<1>5. last <= c + 1
  BY <1>1, <1>3
<1> QED
  BY <1>2, <1>3, <1>4, <1>5 DEF c

\* However editors, publishers and downloads interleave: versions are numbered
\* without gaps, at most one of them is a draft, and nobody's client is
\* overwritten by a colleague (SaveDraft, Publish).
THEOREM PresentationsAreSound == PresentationsSpec => []PresentationsSound
<1>1. PresentingInv => PresentationsSound
  BY NumberedIsSound DEF PresentationsSound, PresentingInv
<1> QED
  BY <1>1, PresentingIsInductive, PTL

\* The PDF kept for a version is the PDF of that version, and the version is
\* published (downloadPresentationPDF).
THEOREM CachedPdfMatches == PresentationsSpec => []PdfMatchesLink
<1>1. PresentingInv => PdfMatchesLink
  BY DEF PresentingInv
<1> QED
  BY <1>1, PresentingIsInductive, PTL

\* A step changes a version only while it is a draft, and never the current one
\* back to none: what a link shows stays (PublicByToken).
THEOREM LinksShowTheSame == PresentationsSpec => LinksStay
<1> DEFINE Same == \A p \in Presentations, n \in Numbers :
                      Public(p, n) => Public(p, n)' /\ Page(p, n)' = Page(p, n)
<1>1. ASSUME PresentingInv, [PresentationsNext]_presentationsVars PROVE Same
  <2> SUFFICES ASSUME NEW p \in Presentations, NEW n \in Numbers, Public(p, n)
               PROVE  Public(p, n)' /\ Page(p, n)' = Page(p, n)
    OBVIOUS
  <2>1. n <= presentations[p].current /\ presentations[p].current # 0 /\ versions[p][n].published
    BY <1>1 DEF Public, PresentingInv, Numbered
  <2>2. PresentingInv'
    BY <1>1, PresentationsStep
  <2>3. presentations'[p].current >= presentations[p].current
        /\ versions'[p][n].content = versions[p][n].content
    BY <1>1, <2>1, StepKeepsPublished
  <2>4. presentations[p].current \in Nat /\ presentations'[p].current \in Nat
    BY <1>1, <2>2, PresentationsAssumption DEF PresentingInv, PresentationsTypeOK
  <2>5. versions'[p][n].published /\ presentations'[p].current # 0
    BY <2>1, <2>2, <2>3, <2>4 DEF PresentingInv, Numbered, Numbers
  <2> QED
    BY <2>3, <2>5 DEF Public, Page, TitleShown
<1> HIDE DEF Same
<1>2. PresentingInv /\ [PresentationsNext]_presentationsVars => [Same]_presentationsVars
  BY <1>1
<1>3. [][Same]_presentationsVars => LinksStay
  <2>1. [Same]_presentationsVars =>
          [\A p \in Presentations, n \in Numbers :
              Public(p, n) => Public(p, n)' /\ Page(p, n)' = Page(p, n)]_presentationsVars
    BY DEF Same
  <2> QED
    BY <2>1, PTL DEF LinksStay
<1> QED
  BY <1>2, <1>3, PresentingIsInductive, PTL DEF PresentationsSpec

\* What a request publishes is the version it has saved, with its content unless
\* another save came in between (SavePresentation and Publish).
THEOREM RequestsPublishTheirs == PresentationsSpec => PublishesItsOwn
<1> DEFINE Own == \A r \in Requests, p \in Presentations, n \in Numbers :
              /\ ~versions[p][n].published /\ versions'[p][n].published
              /\ AtStep(r, "publish") /\ requests'[r] = NoRequest /\ requests[r].presentation = p
              => requests[r].version = n /\
                 (requests[r].overtaken \/ versions[p][n].content = requests[r].content)
<1>1. ASSUME PresentingInv, [PresentationsNext]_presentationsVars PROVE Own
  <2> SUFFICES ASSUME NEW r \in Requests, NEW p \in Presentations, NEW n \in Numbers,
                      ~versions[p][n].published, versions'[p][n].published,
                      AtStep(r, "publish"), requests'[r] = NoRequest, requests[r].presentation = p
               PROVE  requests[r].version = n /\
                      (requests[r].overtaken \/ versions[p][n].content = requests[r].content)
    OBVIOUS
  <2>1. PICK q \in Requests : /\ requests[q].step = "publish" /\ requests[q].presentation = p
                              /\ requests[q].version = n
                              /\ requests' = [requests EXCEPT ![q] = NoRequest]
    BY <1>1, OnlyPublishPublishes
  <2>2. requests \in [Requests -> RequestType]
    BY <1>1, PresentationTypes DEF PresentingInv
  <2>3. q = r
    BY <2>1, <2>2, IdleRequest DEF AtStep
  <2> QED
    BY <1>1, <2>1, <2>3 DEF PresentingInv, RequestsHoldTheirs
<1> HIDE DEF Own
<1>2. PresentingInv /\ [PresentationsNext]_presentationsVars => [Own]_presentationsVars
  BY <1>1
<1>3. [][Own]_presentationsVars => PublishesItsOwn
  <2>1. [Own]_presentationsVars =>
          [\A r \in Requests, p \in Presentations, n \in Numbers :
              /\ ~versions[p][n].published /\ versions'[p][n].published
              /\ AtStep(r, "publish") /\ requests'[r] = NoRequest /\ requests[r].presentation = p
              => requests[r].version = n /\
                 (requests[r].overtaken \/ versions[p][n].content = requests[r].content)]_presentationsVars
    BY DEF Own
  <2> QED
    BY <2>1, PTL DEF PublishesItsOwn
<1> QED
  BY <1>2, <1>3, PresentingIsInductive, PTL DEF PresentationsSpec
=============================================================================
