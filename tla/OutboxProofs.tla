---------------------------- MODULE OutboxProofs ----------------------------
(***************************************************************************)
(* Theorems of Outbox, for any messages, any number of workers and any     *)
(* bounds: types, the fate of a message, the count of its copies, and that *)
(* the outbox implements Mailbox.                                          *)
(*                                                                         *)
(* The types are inductive by themselves.  CopiesAreCounted is not: a      *)
(* worker that has claimed a message and not handed it over yet will add a *)
(* copy without another claim.  So the invariant counts those workers, the *)
(* bearers of the message, with its copies.  DuplicatesNeedFailures is     *)
(* about the workers that still owe a copy and the rows that may be        *)
(* claimed once more: PaidFor counts both against the failures.            *)
(***************************************************************************)
EXTENDS Outbox, FiniteSetTheorems, TLAPS

\* Workers that still have a copy of m to hand over.
Bears(w, m) == m \in workers[w].batch \/ (At(w, "send") /\ workers[w].current = m)
Bearers(m) == {w \in Workers : Bears(w, m)}

Counted ==
    \A m \in Messages : copies[m] + Cardinality(Bearers(m)) <= rows[m].attempts

\* What the steps of processBatch say of the batch and the message at hand.
AtHand ==
    \A w \in Workers :
        /\ workers[w].step \in Holding => workers[w].current \in Messages \ workers[w].batch
        /\ workers[w].step \in {"reclaim", "expire", "claim"} => workers[w].batch = {}

\* Only messages in the outbox are claimed, and sent ones have been accepted.
Delivered ==
    /\ \A w \in Workers : At(w, "sent") => copies[workers[w].current] > 0
    /\ \A m \in Messages : rows[m].status = "sent" => copies[m] > 0
    /\ \A m \in Messages : rows[m].attempts > 0 => rows[m].status # "none"

IInv == TypeOK /\ AtHand /\ Counted /\ Delivered

----------------------------------------------------------------------------
(* Types *)

USE MessagesAssumption, BoundsAssumption DEF Holding

RowType == [status : Statuses, attempts : 0 .. MaxAttempts, lapsed : BOOLEAN]
WorkerType == [step : Steps, batch : SUBSET Messages, current : Messages \cup {NoMessage}]

\* What every update statement does to the rows.
LEMMA UpdatedRows ==
  ASSUME rows \in [Messages -> RowType], NEW S, NEW status \in Statuses,
         rows' = WithStatus(S, status)
  PROVE  /\ rows' \in [Messages -> RowType]
         /\ \A m \in Messages : rows'[m].attempts = rows[m].attempts
         /\ \A m \in Messages : rows'[m].status = IF m \in S THEN status ELSE rows[m].status
BY DEF WithStatus, RowType

LEMMA InitIInv == Init => IInv
<1> SUFFICES ASSUME Init PROVE IInv
  OBVIOUS
<1>1. TypeOK
  BY DEF Init, TypeOK, NoRow, Polling, Statuses, Steps
<1>2. AtHand /\ Delivered
  BY DEF Init, AtHand, Delivered, NoRow, Polling, At
<1>3. Counted
  <2>1. \A m \in Messages : Bearers(m) = {}
    BY DEF Init, Bearers, Bears, Polling, At
  <2>2. \A m \in Messages : Cardinality(Bearers(m)) = 0
    BY <2>1, FS_EmptySet, Zenon
  <2>3. \A m \in Messages : copies[m] = 0 /\ rows[m].attempts = 0
    BY DEF Init, NoRow
  <2> QED
    BY <2>2, <2>3 DEF Counted
<1> QED
  BY <1>1, <1>2, <1>3 DEF IInv

----------------------------------------------------------------------------
(* Counting bearers *)

LEMMA BearersFinite == \A m : IsFiniteSet(Bearers(m)) /\ Cardinality(Bearers(m)) \in Nat
BY WorkersAssumption, FS_Subset, FS_CardinalityType DEF Bearers

LEMMA FewerBearers ==
  ASSUME NEW m, Bearers(m)' \subseteq Bearers(m)
  PROVE  Cardinality(Bearers(m)') <= Cardinality(Bearers(m))
BY BearersFinite, FS_Subset

LEMMA OneMoreBearer ==
  ASSUME NEW m, NEW w, Bearers(m)' \subseteq Bearers(m) \cup {w}
  PROVE  Cardinality(Bearers(m)') <= Cardinality(Bearers(m)) + 1
<1>1. /\ IsFiniteSet(Bearers(m) \cup {w})
      /\ Cardinality(Bearers(m) \cup {w}) <= Cardinality(Bearers(m)) + 1
  <2>1. IsFiniteSet(Bearers(m)) /\ Cardinality(Bearers(m)) \in Nat
    BY BearersFinite
  <2>2. /\ IsFiniteSet(Bearers(m) \cup {w})
        /\ Cardinality(Bearers(m) \cup {w}) =
             IF w \in Bearers(m) THEN Cardinality(Bearers(m)) ELSE Cardinality(Bearers(m)) + 1
    BY <2>1, FS_AddElement, Zenon
  <2> QED
    BY <2>1, <2>2
<1>2. Cardinality(Bearers(m)') <= Cardinality(Bearers(m) \cup {w})
  BY <1>1, FS_Subset
<1>3. Cardinality(Bearers(m)') \in Nat /\ Cardinality(Bearers(m) \cup {w}) \in Nat
  BY <1>1, FS_Subset, FS_CardinalityType
<1> QED
  BY <1>1, <1>2, <1>3, BearersFinite

LEMMA OneBearerLess ==
  ASSUME NEW m, NEW w \in Bearers(m), Bearers(m)' \subseteq Bearers(m) \ {w}
  PROVE  Cardinality(Bearers(m)') <= Cardinality(Bearers(m)) - 1
<1>1. /\ IsFiniteSet(Bearers(m) \ {w})
      /\ Cardinality(Bearers(m) \ {w}) = Cardinality(Bearers(m)) - 1
  BY BearersFinite, FS_RemoveElement
<1> QED
  BY <1>1, FS_Subset

\* Steps that neither claim nor deliver leave the count alone.
LEMMA CountKept ==
  ASSUME TypeOK, TypeOK', Counted, copies' = copies,
         \A m \in Messages : rows'[m].attempts = rows[m].attempts,
         \A m \in Messages, w \in Workers : Bears(w, m)' => Bears(w, m)
  PROVE  Counted'
<1> SUFFICES ASSUME NEW m \in Messages
             PROVE  copies'[m] + Cardinality(Bearers(m)') <= rows'[m].attempts
  BY DEF Counted
<1>1. Bearers(m)' \subseteq Bearers(m)
  BY DEF Bearers
<1>2. /\ Cardinality(Bearers(m)') \in Nat /\ Cardinality(Bearers(m)) \in Nat
      /\ Cardinality(Bearers(m)') <= Cardinality(Bearers(m))
  BY <1>1, BearersFinite, FewerBearers, FS_Subset, FS_CardinalityType
<1>3. copies[m] \in Nat /\ rows[m].attempts \in Nat
  BY DEF TypeOK
<1> QED
  BY <1>2, <1>3 DEF Counted

----------------------------------------------------------------------------
(* Every step preserves the invariant *)

\* Statements of handlers, the clock and statements that only lower claims:
\* what they do to the rows, with workers and copies as they are.
LEMMA RowStepPreserves ==
  ASSUME IInv, TypeOK', UNCHANGED <<workers, copies>>,
         \A m \in Messages : /\ rows'[m].attempts = rows[m].attempts
                             /\ rows'[m].status = "sent" => rows[m].status = "sent"
                             /\ rows'[m].status = "none" => rows[m].status = "none"
  PROVE  IInv'
<1>1. AtHand'
  BY DEF IInv, AtHand
<1>2. Counted'
  BY CountKept DEF IInv, Bears, At
<1>3. Delivered'
  BY DEF IInv, Delivered, At, TypeOK
<1> QED
  BY <1>1, <1>2, <1>3 DEF IInv

LEMMA EnqueuePreserves ==
  ASSUME IInv, NEW m \in Messages, Enqueue(m)
  PROVE  IInv'
<1>1. rows' \in [Messages -> RowType]
  BY DEF IInv, TypeOK, Enqueue, Insert, RowType, Statuses
<1>2. \A n \in Messages : /\ rows'[n].attempts = rows[n].attempts
                          /\ rows'[n].status = "sent" => rows[n].status = "sent"
                          /\ rows'[n].status = "none" => rows[n].status = "none"
  BY DEF IInv, TypeOK, Enqueue, Insert
<1>3. TypeOK'
  BY <1>1 DEF IInv, TypeOK, Enqueue, RowType
<1> QED
  BY <1>2, <1>3, RowStepPreserves DEF Enqueue

LEMMA WithdrawPreserves == ASSUME IInv, Withdraw PROVE IInv'
<1>1. PICK S \in SUBSET (Withdrawable \cap Open), status \in {"cancelled", "expired"} :
        rows' = WithStatus(S, status)
  BY DEF Withdraw
<1>2. /\ rows' \in [Messages -> RowType]
      /\ \A m \in Messages : rows'[m].attempts = rows[m].attempts
      /\ \A m \in Messages : rows'[m].status = IF m \in S THEN status ELSE rows[m].status
  BY <1>1, UpdatedRows DEF IInv, TypeOK, RowType, Statuses
<1>3. TypeOK'
  BY <1>2 DEF IInv, TypeOK, Withdraw, RowType
<1> QED
  BY <1>2, <1>3, RowStepPreserves DEF Withdraw

LEMMA ClockPreserves ==
  ASSUME IInv, NEW m \in Messages, PassExpiry(m) \/ LapseAbandoned(m) \/ LapseHeld(m)
  PROVE  IInv'
<1>1. rows' = rows \/ rows' = [rows EXCEPT ![m].lapsed = TRUE]
  BY DEF PassExpiry, LapseAbandoned, LapseHeld, Lapse
<1>2. /\ rows' \in [Messages -> RowType]
      /\ \A n \in Messages : /\ rows'[n].attempts = rows[n].attempts
                             /\ rows'[n].status = rows[n].status
  <2>1. rows \in [Messages -> RowType]
    BY DEF IInv, TypeOK, RowType
  <2>2. CASE rows' = rows
    BY <2>1, <2>2
  <2>3. CASE rows' = [rows EXCEPT ![m].lapsed = TRUE]
    BY <2>1, <2>3 DEF RowType
  <2> QED
    BY <1>1, <2>2, <2>3
<1>3. TypeOK'
  BY <1>2 DEF IInv, TypeOK, PassExpiry, LapseAbandoned, LapseHeld, Fail, RowType
<1> QED
  BY <1>2, <1>3, RowStepPreserves DEF PassExpiry, LapseAbandoned, LapseHeld

\* A worker moves on without claiming or delivering: it has no new message in
\* its batch and none at hand that is not handed over.
LEMMA MovingOnPreserves ==
  ASSUME IInv, TypeOK', NEW w \in Workers, UNCHANGED copies,
         \A u \in Workers \ {w} : workers'[u] = workers[u],
         workers'[w].batch \subseteq workers[w].batch,
         workers'[w].step \in {"reclaim", "expire", "claim"} => workers'[w].batch = {},
         workers'[w].step \notin Holding,
         \A m \in Messages : /\ rows'[m].attempts = rows[m].attempts
                             /\ rows'[m].status = "sent" =>
                                 rows[m].status = "sent" \/ copies[m] > 0
                             /\ rows'[m].status = "none" => rows[m].status = "none"
  PROVE  IInv'
<1>1. AtHand'
  BY DEF IInv, AtHand
<1>2. \A m \in Messages, u \in Workers : Bears(u, m)' => Bears(u, m)
  BY DEF Bears, At
<1>3. Counted'
  BY <1>2, CountKept DEF IInv
<1>4. Delivered'
  BY DEF IInv, Delivered, At, TypeOK
<1> QED
  BY <1>1, <1>3, <1>4 DEF IInv

LEMMA SweepPreserves ==
  ASSUME IInv, NEW w \in Workers, Reclaim(w) \/ ExpireLate(w)
  PROVE  IInv'
<1>1. PICK S \in SUBSET Messages, status \in {"pending", "expired"} : rows' = WithStatus(S, status)
  BY DEF Reclaim, ExpireLate, Reclaimable, Claimed, Open
<1>2. /\ rows' \in [Messages -> RowType]
      /\ \A m \in Messages : rows'[m].attempts = rows[m].attempts
      /\ \A m \in Messages : rows'[m].status = IF m \in S THEN status ELSE rows[m].status
  BY <1>1, UpdatedRows DEF IInv, TypeOK, RowType, Statuses
<1>3. PICK step \in {"expire", "claim"} : Go(w, step)
  BY DEF Reclaim, ExpireLate
<1>4. TypeOK'
  BY <1>2, <1>3 DEF IInv, TypeOK, Reclaim, ExpireLate, Go, RowType, Steps
<1>5. /\ \A u \in Workers \ {w} : workers'[u] = workers[u]
      /\ workers'[w].batch = workers[w].batch
      /\ workers'[w].step = step
  BY <1>3 DEF IInv, TypeOK, Go
<1>6. workers[w].batch = {}
  BY DEF IInv, AtHand, Reclaim, ExpireLate, At
<1> QED
  BY <1>2, <1>4, <1>5, <1>6, MovingOnPreserves DEF Reclaim, ExpireLate

LEMMA BatchDonePreserves ==
  ASSUME IInv, NEW w \in Workers, BatchDone(w)
  PROVE  IInv'
<1>1. TypeOK'
  BY DEF IInv, TypeOK, BatchDone, Go, Steps
<1>2. /\ \A u \in Workers \ {w} : workers'[u] = workers[u]
      /\ workers'[w].batch = {}
      /\ workers'[w].step = "reclaim"
  BY DEF IInv, TypeOK, BatchDone, Go
<1> QED
  BY <1>1, <1>2, MovingOnPreserves DEF BatchDone

\* Marking: the worker leaves the message at hand, whose row changes only if
\* it is claimed.
LEMMA MarkPreserves ==
  ASSUME IInv, NEW w \in Workers, MarkSent(w) \/ MarkFailed(w)
  PROVE  IInv'
<1> DEFINE m == workers[w].current
<1>1. PICK status \in {"sent", "pending"} :
        /\ rows' = WithStatus(StillClaimed(m), status)
        /\ status = "sent" => At(w, "sent")
  BY DEF MarkSent, MarkFailed
<1>2. /\ rows' \in [Messages -> RowType]
      /\ \A n \in Messages : rows'[n].attempts = rows[n].attempts
      /\ \A n \in Messages : rows'[n].status = IF n \in StillClaimed(m) THEN status ELSE rows[n].status
  BY <1>1, UpdatedRows DEF IInv, TypeOK, RowType, Statuses
<1>3. NextMessage(w) /\ UNCHANGED <<late, copies, failures>>
  BY DEF MarkSent, MarkFailed
<1>4. TypeOK'
  BY <1>2, <1>3 DEF IInv, TypeOK, NextMessage, RowType, Steps
<1>5. /\ \A u \in Workers \ {w} : workers'[u] = workers[u]
      /\ workers'[w].batch = workers[w].batch
      /\ workers'[w].step = "check"
  BY <1>3 DEF IInv, TypeOK, NextMessage
<1>6. status = "sent" => copies[m] > 0
  BY <1>1 DEF IInv, Delivered
<1>7. \A n \in Messages : /\ rows'[n].attempts = rows[n].attempts
                          /\ rows'[n].status = "sent" => rows[n].status = "sent" \/ copies[n] > 0
                          /\ rows'[n].status = "none" => rows[n].status = "none"
  BY <1>2, <1>6 DEF StillClaimed
<1> QED
  BY <1>3, <1>4, <1>5, <1>7, MovingOnPreserves

LEMMA StopPreserves ==
  ASSUME IInv, NEW w \in Workers, StatementFails(w) \/ Crash(w)
  PROVE  IInv'
<1>1. /\ UNCHANGED <<rows, late, copies>>
      /\ failures' \in 0 .. MaxFailures
  BY DEF IInv, TypeOK, StatementFails, Crash, Fail
<1>2. \/ workers' = [workers EXCEPT ![w] = Polling]
      \/ NextMessage(w)
      \/ (At(w, "reclaim") \/ At(w, "expire")) /\ (Go(w, "expire") \/ Go(w, "claim"))
      \/ \E m \in Messages : At(w, "check") /\ workers' = [workers EXCEPT ![w].batch = @ \ {m}]
  BY DEF IInv, TypeOK, StatementFails, Crash
<1>3. TypeOK'
  BY <1>1, <1>2 DEF IInv, TypeOK, NextMessage, Go, Polling, Steps
<1>4. /\ \A u \in Workers \ {w} : workers'[u] = workers[u]
      /\ workers'[w].batch \subseteq workers[w].batch
      /\ workers'[w].step \in {"reclaim", "expire", "claim"} => workers'[w].batch = {}
      /\ workers'[w].step \notin Holding
  BY <1>2 DEF IInv, TypeOK, AtHand, NextMessage, Go, At, Polling
<1> QED
  BY <1>1, <1>3, <1>4, MovingOnPreserves

LEMMA CheckPreserves ==
  ASSUME IInv, NEW w \in Workers, Check(w)
  PROVE  IInv'
<1>1. PICK m \in workers[w].batch :
          IF m \in late
          THEN /\ rows' = WithStatus({m} \cap Claimed, "expired")
               /\ workers' = [workers EXCEPT ![w].batch = @ \ {m}]
          ELSE /\ workers' = [workers EXCEPT ![w] = [step |-> "send", batch |-> @.batch \ {m}, current |-> m]]
               /\ UNCHANGED rows
  BY DEF Check
<1>2. m \in Messages /\ At(w, "check") /\ UNCHANGED <<late, copies, failures>>
  BY DEF Check, IInv, TypeOK
<1>3. CASE m \in late
  <2>1. /\ rows' \in [Messages -> RowType]
        /\ \A n \in Messages : rows'[n].attempts = rows[n].attempts
        /\ \A n \in Messages :
             rows'[n].status = IF n \in {m} \cap Claimed THEN "expired" ELSE rows[n].status
    BY <1>1, <1>3, UpdatedRows DEF IInv, TypeOK, RowType, Statuses
  <2>2. TypeOK'
    <3>1. workers' \in [Workers -> WorkerType]
      BY <1>1, <1>3 DEF IInv, TypeOK, WorkerType
    <3> QED
      BY <1>2, <2>1, <3>1 DEF IInv, TypeOK, RowType, WorkerType
  <2>3. /\ \A u \in Workers \ {w} : workers'[u] = workers[u]
        /\ workers'[w].batch = workers[w].batch \ {m}
        /\ workers'[w].step = "check"
    BY <1>1, <1>2, <1>3 DEF IInv, TypeOK, At
  <2> QED
    BY <1>2, <2>1, <2>2, <2>3, MovingOnPreserves
<1>4. CASE m \notin late
  <2>1. /\ rows' = rows
        /\ \A u \in Workers \ {w} : workers'[u] = workers[u]
        /\ workers'[w] = [step |-> "send", batch |-> workers[w].batch \ {m}, current |-> m]
    BY <1>1, <1>4 DEF IInv, TypeOK
  <2>2. TypeOK'
    BY <1>1, <1>2, <1>4 DEF IInv, TypeOK, Steps
  <2>3. AtHand'
    BY <1>2, <2>1 DEF IInv, AtHand
  <2>4. \A n \in Messages, u \in Workers : Bears(u, n)' => Bears(u, n)
    BY <2>1 DEF Bears, At
  <2>5. Counted'
    BY <1>2, <2>1, <2>2, <2>4, CountKept DEF IInv
  <2>6. Delivered'
    BY <1>2, <2>1 DEF IInv, Delivered, At
  <2> QED
    BY <2>2, <2>3, <2>5, <2>6 DEF IInv
<1> QED
  BY <1>3, <1>4

LEMMA ClaimPreserves ==
  ASSUME IInv, NEW w \in Workers, Claim(w)
  PROVE  IInv'
<1>1. PICK S \in SUBSET Due :
        /\ rows' = [m \in Messages |-> IF m \in S THEN ClaimOf(m) ELSE rows[m]]
        /\ workers' = [workers EXCEPT ![w].step = IF S = {} THEN "reclaim" ELSE "check", ![w].batch = S]
  BY DEF Claim
<1>2. /\ S \subseteq Messages /\ UNCHANGED <<late, copies, failures>>
      /\ \A m \in S : rows[m].status = "pending" /\ rows[m].attempts < MaxAttempts
  BY DEF Claim, Due
<1>3. \A m \in S : /\ ClaimOf(m) \in RowType
                   /\ ClaimOf(m).attempts = rows[m].attempts + 1
                   /\ ClaimOf(m).status = "processing"
  <2> SUFFICES ASSUME NEW m \in S
               PROVE  /\ ClaimOf(m) \in RowType
                      /\ ClaimOf(m).attempts = rows[m].attempts + 1
                      /\ ClaimOf(m).status = "processing"
    OBVIOUS
  <2>1. rows[m] \in RowType /\ rows[m].attempts + 1 \in 0 .. MaxAttempts
    BY <1>2 DEF IInv, TypeOK, RowType
  <2> QED
    BY <2>1 DEF ClaimOf, RowType, Statuses
<1>4. /\ \A u \in Workers \ {w} : workers'[u] = workers[u]
      /\ workers'[w].batch = S
      /\ workers'[w].step = IF S = {} THEN "reclaim" ELSE "check"
      /\ workers[w].batch = {}
  BY <1>1 DEF IInv, TypeOK, AtHand, Claim, At
<1>5. TypeOK'
  <2>1. rows' \in [Messages -> RowType]
    BY <1>1, <1>3 DEF IInv, TypeOK, RowType
  <2>2. workers' \in [Workers -> WorkerType]
    BY <1>1, <1>2 DEF IInv, TypeOK, WorkerType, Steps
  <2> QED
    BY <1>2, <2>1, <2>2 DEF IInv, TypeOK, RowType, WorkerType
<1>6. AtHand'
  BY <1>4 DEF IInv, AtHand
<1>7. Counted'
  <2> SUFFICES ASSUME NEW m \in Messages
               PROVE  copies'[m] + Cardinality(Bearers(m)') <= rows'[m].attempts
    BY DEF Counted
  <2>1. /\ Cardinality(Bearers(m)') \in Nat /\ Cardinality(Bearers(m)) \in Nat
        /\ copies[m] \in Nat /\ rows[m].attempts \in Nat
        /\ copies[m] + Cardinality(Bearers(m)) <= rows[m].attempts
    <3>1. Cardinality(Bearers(m)') \in Nat
      BY WorkersAssumption, FS_Subset, FS_CardinalityType DEF Bearers
    <3> QED
      BY <3>1, BearersFinite DEF IInv, TypeOK, Counted
  <2>2. CASE m \in S
    <3>1. Bearers(m)' \subseteq Bearers(m) \cup {w}
      BY <1>4 DEF Bearers, Bears, At
    <3>2. rows'[m].attempts = rows[m].attempts + 1
      BY <1>1, <1>3, <2>2
    <3>3. Cardinality(Bearers(m)') <= Cardinality(Bearers(m)) + 1
      BY <3>1, OneMoreBearer
    <3>4. copies'[m] = copies[m]
      BY <1>2
    <3> QED
      BY <2>1, <3>2, <3>3, <3>4
  <2>3. CASE m \notin S
    <3>1. Bearers(m)' \subseteq Bearers(m)
      BY <1>4, <2>3 DEF Bearers, Bears, At
    <3>2. rows'[m].attempts = rows[m].attempts
      BY <1>1, <2>3
    <3> QED
      BY <1>2, <2>1, <3>1, <3>2, FewerBearers
  <2> QED
    BY <2>2, <2>3
<1>8. Delivered'
  BY <1>1, <1>2, <1>3, <1>4 DEF IInv, Delivered, At, TypeOK
<1> QED
  BY <1>5, <1>6, <1>7, <1>8 DEF IInv

\* The call of the provider: one bearer less, and a copy more if it arrived.
LEMMA SendPreserves ==
  ASSUME IInv, NEW w \in Workers, Send(w) \/ SendFails(w)
  PROVE  IInv'
<1> DEFINE m == workers[w].current
<1>1. PICK step \in {"sent", "failed"} :
        /\ Go(w, step)
        /\ Deliver(m) \/ (step = "failed" /\ UNCHANGED copies)
  BY DEF Send, SendFails, AfterError
<1>2. /\ At(w, "send") /\ UNCHANGED <<rows, late>> /\ failures' \in 0 .. MaxFailures
      /\ m \in Messages \ workers[w].batch
  BY DEF IInv, TypeOK, AtHand, Send, SendFails, Fail, At
<1>3. /\ \A u \in Workers \ {w} : workers'[u] = workers[u]
      /\ workers'[w] = [workers[w] EXCEPT !.step = step]
  BY <1>1 DEF IInv, TypeOK, Go
<1>4. /\ copies' \in [Messages -> Nat]
      /\ \A n \in Messages : copies'[n] >= copies[n]
      /\ \A n \in Messages \ {m} : copies'[n] = copies[n]
      /\ copies'[m] <= copies[m] + 1
      /\ step = "sent" => copies'[m] > 0
  BY <1>1, <1>2 DEF IInv, TypeOK, Deliver
<1>5. TypeOK'
  <2>1. workers' \in [Workers -> WorkerType]
    BY <1>1 DEF IInv, TypeOK, Go, WorkerType, Steps
  <2> QED
    BY <1>2, <1>4, <2>1 DEF IInv, TypeOK, WorkerType
<1>6. /\ workers'[w].step = step /\ workers'[w].batch = workers[w].batch
      /\ workers'[w].current = m
  BY <1>3 DEF IInv, TypeOK
<1>7. AtHand'
  BY <1>2, <1>3, <1>6 DEF IInv, AtHand
<1>8. Counted'
  <2> SUFFICES ASSUME NEW n \in Messages
               PROVE  copies'[n] + Cardinality(Bearers(n)') <= rows'[n].attempts
    BY DEF Counted
  <2>1. /\ Cardinality(Bearers(n)') \in Nat /\ Cardinality(Bearers(n)) \in Nat
        /\ copies[n] \in Nat /\ copies'[n] \in Nat /\ rows[n].attempts \in Nat
        /\ copies[n] + Cardinality(Bearers(n)) <= rows[n].attempts
    <3>1. Cardinality(Bearers(n)') \in Nat
      BY WorkersAssumption, FS_Subset, FS_CardinalityType DEF Bearers
    <3> QED
      BY <1>4, <3>1, BearersFinite DEF IInv, TypeOK, Counted
  <2>2. CASE n = m
    <3>1. w \in Bearers(n)
      BY <1>2, <2>2 DEF Bearers, Bears
    <3>2. Bearers(n)' \subseteq Bearers(n) \ {w}
      BY <1>2, <1>3, <1>6, <2>2 DEF Bearers, Bears, At
    <3>3. Cardinality(Bearers(n)') <= Cardinality(Bearers(n)) - 1
      BY <3>1, <3>2, OneBearerLess
    <3> QED
      BY <1>2, <1>4, <2>1, <2>2, <3>3
  <2>3. CASE n # m
    <3>1. Bearers(n)' \subseteq Bearers(n)
      BY <1>3, <1>6, <2>3 DEF Bearers, Bears, At
    <3>2. copies'[n] = copies[n]
      BY <1>4, <2>3
    <3> QED
      BY <1>2, <2>1, <3>1, <3>2, FewerBearers
  <2> QED
    BY <2>2, <2>3
<1>9. Delivered'
  <2>1. \A u \in Workers : At(u, "sent")' => copies'[workers'[u].current] > 0
    <3> SUFFICES ASSUME NEW u \in Workers, At(u, "sent")'
                 PROVE  copies'[workers'[u].current] > 0
      OBVIOUS
    <3>1. CASE u = w
      BY <1>4, <1>6, <3>1 DEF At
    <3>2. CASE u # w
      <4>1. At(u, "sent") /\ workers'[u].current = workers[u].current
        BY <1>3, <3>2 DEF At
      <4>2. workers[u].current \in Messages /\ copies[workers[u].current] > 0
        BY <4>1 DEF IInv, AtHand, Delivered, At
      <4> QED
        BY <1>4, <4>1, <4>2 DEF IInv, TypeOK
    <3> QED
      BY <3>1, <3>2
  <2>2. \A n \in Messages : rows'[n].status = "sent" => copies'[n] > 0
    BY <1>2, <1>4 DEF IInv, Delivered, TypeOK
  <2> QED
    BY <1>2, <2>1, <2>2 DEF IInv, Delivered
<1> QED
  BY <1>5, <1>7, <1>8, <1>9 DEF IInv

LEMMA NextPreserves == IInv /\ [Next]_vars => IInv'
<1> SUFFICES ASSUME IInv, [Next]_vars PROVE IInv'
  OBVIOUS
<1>1. ASSUME NEW m \in Messages, Enqueue(m) \/ PassExpiry(m) \/ LapseAbandoned(m) \/ LapseHeld(m)
      PROVE  IInv'
  BY <1>1, EnqueuePreserves, ClockPreserves
<1>2. CASE Withdraw
  BY <1>2, WithdrawPreserves
<1>3. ASSUME NEW w \in Workers, Poll(w) PROVE IInv'
  BY <1>3, SweepPreserves, ClaimPreserves, CheckPreserves, BatchDonePreserves,
     SendPreserves, MarkPreserves DEF Poll
<1>4. ASSUME NEW w \in Workers, Failure(w) PROVE IInv'
  BY <1>4, SendPreserves, StopPreserves DEF Failure
<1>5. CASE UNCHANGED vars
  BY <1>5 DEF vars, IInv, TypeOK, AtHand, Counted, Delivered, Bearers, Bears, At
<1> QED
  BY <1>1, <1>2, <1>3, <1>4, <1>5 DEF Next

\* The conjunction of the parts above is inductive.
THEOREM InductiveInvariant == Spec => []IInv
BY InitIInv, NextPreserves, PTL DEF Spec

----------------------------------------------------------------------------
(* The properties *)

\* Rows, workers and counters keep their types: in particular no row is ever
\* claimed more often than the limit in claimBatch.
THEOREM TypeCorrect == Spec => []TypeOK
<1>1. IInv => TypeOK
  BY DEF IInv
<1> QED
  BY <1>1, InductiveInvariant, PTL

\* However many workers overlap and claims lapse, the provider accepts a
\* message at most once per attempt counted in its row.
THEOREM CopiesBounded == Spec => []CopiesAreCounted
<1>1. IInv => CopiesAreCounted
  <2> SUFFICES ASSUME IInv, NEW m \in Messages PROVE copies[m] <= rows[m].attempts
    BY DEF CopiesAreCounted
  <2>1. copies[m] + Cardinality(Bearers(m)) <= rows[m].attempts
    BY DEF IInv, Counted
  <2>2. Cardinality(Bearers(m)) \in Nat /\ copies[m] \in Nat /\ rows[m].attempts \in Nat
    BY BearersFinite DEF IInv, TypeOK
  <2> QED
    BY <2>1, <2>2
<1> QED
  BY <1>1, InductiveInvariant, PTL

\* What one step may do to the rows: each action in terms of Mailbox.
Touches(S, status) ==
    \A m \in Messages : rows'[m].status = IF m \in S THEN status ELSE rows[m].status

LEMMA RowChanges ==
  ASSUME TypeOK, Next
  PROVE  \/ Touches({}, "none")
         \/ \E m \in Messages : rows[m].status = "none" /\ Touches({m}, "pending")
         \/ \E S \in SUBSET ((Expiring \cup Withdrawable) \cap Open), status \in {"cancelled", "expired"} :
               Touches(S, status)
         \/ \E S \in SUBSET Open, status \in {"pending", "processing"} : Touches(S, status)
         \/ \E w \in Workers : MarkSent(w)
<1>1. ASSUME NEW m \in Messages, Enqueue(m)
      PROVE  Touches({}, "none") \/ (rows[m].status = "none" /\ Touches({m}, "pending"))
  BY <1>1 DEF Enqueue, Insert, TypeOK, Touches
<1>2. ASSUME NEW S \in SUBSET Messages, NEW status \in Statuses, rows' = WithStatus(S, status)
      PROVE  Touches(S, status)
  BY <1>2, UpdatedRows DEF RowType, TypeOK, Touches
<1>3. ASSUME Withdraw
      PROVE  \E S \in SUBSET ((Expiring \cup Withdrawable) \cap Open),
                status \in {"cancelled", "expired"} : Touches(S, status)
  <2>1. PICK S \in SUBSET (Withdrawable \cap Open), status \in {"cancelled", "expired"} :
          rows' = WithStatus(S, status)
    BY <1>3 DEF Withdraw
  <2>2. S \in SUBSET ((Expiring \cup Withdrawable) \cap Open) /\ S \in SUBSET Messages
    OBVIOUS
  <2>3. status \in Statuses
    BY DEF Statuses
  <2> QED
    BY <1>2, <2>1, <2>2, <2>3
<1>4. ASSUME NEW m \in Messages, PassExpiry(m) \/ LapseAbandoned(m) \/ LapseHeld(m)
      PROVE  Touches({}, "none")
  <2>1. rows' = rows \/ rows' = [rows EXCEPT ![m].lapsed = TRUE]
    BY <1>4 DEF PassExpiry, LapseAbandoned, LapseHeld, Lapse
  <2> QED
    BY <2>1 DEF TypeOK, Touches
<1>5. ASSUME NEW w \in Workers, Reclaim(w)
      PROVE  \E S \in SUBSET Open : Touches(S, "pending")
  <2>1. Reclaimable \in SUBSET Open /\ Reclaimable \in SUBSET Messages
    BY DEF Reclaimable, Claimed, Open
  <2>2. Touches(Reclaimable, "pending")
    BY <1>2, <1>5, <2>1 DEF Reclaim, Statuses
  <2> QED
    BY <2>1, <2>2
<1>6. ASSUME NEW w \in Workers, ExpireLate(w)
      PROVE  \E S \in SUBSET ((Expiring \cup Withdrawable) \cap Open) : Touches(S, "expired")
  <2> DEFINE S == Open \cap late
  <2>1. S \in SUBSET ((Expiring \cup Withdrawable) \cap Open) /\ S \in SUBSET Messages
    BY DEF TypeOK
  <2>2. Touches(S, "expired")
    BY <1>2, <1>6, <2>1 DEF ExpireLate, Statuses
  <2> QED
    BY <2>1, <2>2
<1>7. ASSUME NEW w \in Workers, Claim(w)
      PROVE  \E S \in SUBSET Open : Touches(S, "processing")
  <2>1. PICK S \in SUBSET Due :
          rows' = [m \in Messages |-> IF m \in S THEN ClaimOf(m) ELSE rows[m]]
    BY <1>7 DEF Claim
  <2>2. S \in SUBSET Open
    BY DEF Due, Open
  <2>3. ASSUME NEW m \in S PROVE ClaimOf(m).status = "processing"
    <3>1. rows[m] \in RowType
      BY <2>2 DEF Open, TypeOK, RowType
    <3> QED
      BY <3>1 DEF ClaimOf, RowType
  <2>4. Touches(S, "processing")
    BY <2>1, <2>3 DEF Touches
  <2> QED
    BY <2>2, <2>4
<1>8. ASSUME NEW w \in Workers, Check(w)
      PROVE  \/ Touches({}, "none")
             \/ \E S \in SUBSET ((Expiring \cup Withdrawable) \cap Open) : Touches(S, "expired")
  <2>1. PICK m \in workers[w].batch :
          \/ rows' = rows
          \/ m \in late /\ rows' = WithStatus({m} \cap Claimed, "expired")
    BY <1>8 DEF Check
  <2>2. CASE rows' = rows
    BY <2>2 DEF Touches
  <2>3. CASE m \in late /\ rows' = WithStatus({m} \cap Claimed, "expired")
    <3> DEFINE S == {m} \cap Claimed
    <3>1. S \in SUBSET ((Expiring \cup Withdrawable) \cap Open) /\ S \in SUBSET Messages
      BY <2>3 DEF Claimed, Open, TypeOK
    <3>2. Touches(S, "expired")
      BY <1>2, <2>3, <3>1 DEF Statuses
    <3> QED
      BY <3>1, <3>2
  <2> QED
    BY <2>1, <2>2, <2>3
<1>9. ASSUME NEW w \in Workers, MarkFailed(w)
      PROVE  \E S \in SUBSET Open : Touches(S, "pending")
  <2> DEFINE S == StillClaimed(workers[w].current)
  <2>1. S \in SUBSET Open /\ S \in SUBSET Messages
    BY DEF StillClaimed, Claimed, Open
  <2>2. Touches(S, "pending")
    BY <1>2, <1>9, <2>1 DEF MarkFailed, Statuses
  <2> QED
    BY <2>1, <2>2
<1>10. ASSUME NEW w \in Workers, BatchDone(w) \/ Send(w) \/ Failure(w)
       PROVE  Touches({}, "none")
  BY <1>10 DEF BatchDone, Send, Failure, SendFails, StatementFails, Crash, Touches
<1>11. ASSUME NEW w \in Workers, Poll(w), ~MarkSent(w)
       PROVE  \/ Touches({}, "none")
              \/ \E S \in SUBSET ((Expiring \cup Withdrawable) \cap Open) : Touches(S, "expired")
              \/ \E S \in SUBSET Open, status \in {"pending", "processing"} : Touches(S, status)
  BY <1>5, <1>6, <1>7, <1>8, <1>9, <1>10, <1>11 DEF Poll
<1> QED
  BY <1>1, <1>3, <1>4, <1>10, <1>11 DEF Next

\* A mark of a sent message touches its row only while that is claimed.
LEMMA SentChanges ==
  ASSUME TypeOK, NEW w \in Workers, MarkSent(w)
  PROVE  Touches(StillClaimed(workers[w].current), "sent")
<1>1. StillClaimed(workers[w].current) \in SUBSET Messages /\ "sent" \in Statuses
  BY DEF StillClaimed, Claimed, Statuses
<1> QED
  BY <1>1, UpdatedRows DEF MarkSent, TypeOK, RowType, Touches

\* No late worker or sweep revives a cancelled, replaced, expired or sent
\* message: every statement looks at the status it finds.
THEOREM FateIsFinal == Spec => FinalStays
<1> DEFINE Final1 == \A m \in Messages : rows[m].status \in Final => rows'[m].status = rows[m].status
<1>1. ASSUME TypeOK, [Next]_vars PROVE Final1
  <2>1. ASSUME NEW S \in SUBSET Open, NEW status, Touches(S, status) PROVE Final1
    BY <2>1 DEF Touches, Open, Final
  <2>2. ASSUME NEW m \in Messages, rows[m].status = "none", Touches({m}, "pending") PROVE Final1
    BY <2>2 DEF Touches, Final
  <2>3. ASSUME NEW w \in Workers, MarkSent(w) PROVE Final1
    BY <1>1, <2>3, <2>1, SentChanges DEF StillClaimed, Claimed, Open
  <2>4. CASE UNCHANGED vars
    BY <2>4 DEF vars
  <2>5. CASE Next
    BY <1>1, <2>1, <2>2, <2>3, <2>5, RowChanges
  <2> QED
    BY <1>1, <2>4, <2>5
<1> QED
  BY <1>1, TypeCorrect, PTL DEF FinalStays, Spec

----------------------------------------------------------------------------
(* Duplicates *)

\* DuplicatesNeedFailures is not inductive either: a copy is still to come from
\* every worker that will hand the message over or give it back, and from
\* whoever may claim its row next.  The invariant counts these as well.
Owes(w, m) == m \in workers[w].batch \/ (workers[w].step \in {"send", "failed"} /\ workers[w].current = m)
Owing(m) == {w \in Workers : Owes(w, m)}

\* The row is, or will be without a further failure, there to be claimed.
Loose(m) ==
    \/ rows[m].status \in {"none", "pending"}
    \/ m \in Claimed /\ (rows[m].lapsed \/ Abandoned(m))
Again(m) == IF Loose(m) THEN 1 ELSE 0

\* What has been copied and may still be is paid for by the first and by failures.
Covered(m) == copies[m] + Cardinality(Owing(m)) + Again(m) <= 1 + failures
PaidFor == \A m \in Messages : Covered(m)

\* Only a claim lapses, and only a worker that handles a message has one at hand.
Tidy ==
    /\ \A m \in Messages : rows[m].lapsed => rows[m].status = "processing"
    /\ \A w \in Workers : workers[w].step \notin Holding => workers[w].current = NoMessage

LEMMA OwingFinite == \A m : IsFiniteSet(Owing(m)) /\ Cardinality(Owing(m)) \in Nat
BY WorkersAssumption, FS_Subset, FS_CardinalityType DEF Owing

LEMMA OwingFiniteNext == \A m : IsFiniteSet(Owing(m)') /\ Cardinality(Owing(m)') \in Nat
BY WorkersAssumption, FS_Subset, FS_CardinalityType DEF Owing

LEMMA NoMoreOwing ==
  ASSUME NEW m, \A w \in Workers : Owes(w, m)' => Owes(w, m)
  PROVE  Cardinality(Owing(m)') <= Cardinality(Owing(m))
<1>1. Owing(m)' \subseteq Owing(m)
  BY DEF Owing
<1> QED
  BY <1>1, OwingFinite, FS_Subset

LEMMA OneOwesLess ==
  ASSUME NEW m, NEW w \in Workers, Owes(w, m), ~Owes(w, m)',
         \A u \in Workers : Owes(u, m)' => Owes(u, m)
  PROVE  Cardinality(Owing(m)') <= Cardinality(Owing(m)) - 1
<1>1. w \in Owing(m) /\ Owing(m)' \subseteq Owing(m) \ {w}
  BY DEF Owing
<1>2. /\ IsFiniteSet(Owing(m) \ {w})
      /\ Cardinality(Owing(m) \ {w}) = Cardinality(Owing(m)) - 1
  BY <1>1, OwingFinite, FS_RemoveElement
<1> QED
  BY <1>1, <1>2, FS_Subset

LEMMA OneOwesMore ==
  ASSUME NEW m, NEW w \in Workers, \A u \in Workers \ {w} : Owes(u, m)' => Owes(u, m)
  PROVE  Cardinality(Owing(m)') <= Cardinality(Owing(m)) + 1
<1>1. Owing(m)' \subseteq Owing(m) \cup {w}
  BY DEF Owing
<1>2. /\ IsFiniteSet(Owing(m) \cup {w})
      /\ Cardinality(Owing(m) \cup {w}) =
           IF w \in Owing(m) THEN Cardinality(Owing(m)) ELSE Cardinality(Owing(m)) + 1
  BY OwingFinite, FS_AddElement, Zenon
<1>3. /\ Cardinality(Owing(m)') <= Cardinality(Owing(m) \cup {w})
      /\ Cardinality(Owing(m)') \in Nat
  BY <1>1, <1>2, FS_Subset, OwingFiniteNext
<1> QED
  BY <1>2, <1>3, OwingFinite

LEMMA CoverTypes ==
  ASSUME IInv, IInv', NEW m \in Messages
  PROVE  /\ copies[m] \in Nat /\ Cardinality(Owing(m)) \in Nat /\ Again(m) \in 0 .. 1 /\ failures \in Nat
         /\ copies'[m] \in Nat /\ Cardinality(Owing(m)') \in Nat /\ Again(m)' \in 0 .. 1
         /\ failures' \in Nat
BY OwingFinite, OwingFiniteNext DEF IInv, TypeOK, Again

\* A step that leaves the row to nobody new.
LEMMA StillCovered ==
  ASSUME IInv, IInv', NEW m \in Messages, Covered(m),
         copies'[m] = copies[m], failures' = failures,
         \A w \in Workers : Owes(w, m)' => Owes(w, m),
         Loose(m)' => Loose(m)
  PROVE  Covered(m)'
<1>1. Again(m)' <= Again(m)
  BY DEF Again
<1>2. Cardinality(Owing(m)') <= Cardinality(Owing(m))
  BY NoMoreOwing
<1> QED
  BY <1>1, <1>2, CoverTypes DEF Covered

\* A failure pays for one more claim of the row.
LEMMA FailurePays ==
  ASSUME IInv, IInv', NEW m \in Messages, Covered(m),
         copies'[m] = copies[m], failures' = failures + 1,
         \A w \in Workers : Owes(w, m)' => Owes(w, m)
  PROVE  Covered(m)'
<1>1. Cardinality(Owing(m)') <= Cardinality(Owing(m))
  BY NoMoreOwing
<1> QED
  BY <1>1, CoverTypes DEF Covered

----------------------------------------------------------------------------
(* No step leaves a copy unaccounted for *)

Sound == IInv /\ Tidy /\ PaidFor

\* Handlers, the clock and lapsing claims: workers as they are.
LEMMA RowStepIsPaidFor ==
  ASSUME Sound, IInv', NEW m \in Messages,
         Enqueue(m) \/ PassExpiry(m) \/ LapseAbandoned(m) \/ LapseHeld(m)
  PROVE  Tidy' /\ PaidFor'
<1>1. /\ rows \in [Messages -> RowType] /\ UNCHANGED <<workers, copies>>
      /\ Tidy /\ IInv /\ \A n \in Messages : Covered(n)
  BY DEF Sound, IInv, TypeOK, RowType, PaidFor,
         Enqueue, PassExpiry, LapseAbandoned, LapseHeld
<1>2. ASSUME NEW n \in Messages
      PROVE  \A w \in Workers : (Owes(w, n)' <=> Owes(w, n)) /\ (Holds(w, n)' <=> Holds(w, n))
  BY <1>1 DEF Owes, Holds
<1>3. CASE LapseHeld(m)
  <2>1. rows' = [rows EXCEPT ![m].lapsed = TRUE] /\ m \in Claimed /\ failures' = failures + 1
    BY <1>3 DEF LapseHeld, Lapse, Fail
  <2>2. Tidy'
    BY <1>1, <2>1 DEF Tidy, Claimed, RowType
  <2>3. \A n \in Messages : Covered(n)'
    BY <1>1, <1>2, <2>1, FailurePays
  <2> QED
    BY <2>2, <2>3 DEF PaidFor
<1>4. CASE ~LapseHeld(m)
  <2>1. /\ failures' = failures
        /\ \/ rows' = rows
           \/ Insert(m)
           \/ rows' = [rows EXCEPT ![m].lapsed = TRUE] /\ Abandoned(m)
    BY <1>4 DEF Enqueue, PassExpiry, LapseAbandoned, Lapse
  <2>2. Tidy'
    BY <1>1, <2>1 DEF Tidy, Insert, Abandoned, Claimed, RowType
  <2>3. ASSUME NEW n \in Messages PROVE Loose(n)' => Loose(n)
    <3>1. Abandoned(n)' => (n \in Claimed)' /\ \A w \in Workers : ~Holds(w, n)
      BY <1>2 DEF Abandoned
    <3> QED
      BY <1>1, <2>1, <3>1 DEF Loose, Insert, Claimed, Abandoned, RowType
  <2>4. \A n \in Messages : Covered(n)'
    BY <1>1, <1>2, <2>1, <2>3, StillCovered
  <2> QED
    BY <2>2, <2>4 DEF PaidFor
<1> QED
  BY <1>3, <1>4

\* One update statement also ends the claims of its rows.
LEMMA UpdatedLapses ==
  ASSUME rows \in [Messages -> RowType], NEW S, NEW status \in Statuses,
         rows' = WithStatus(S, status)
  PROVE  \A m \in Messages : /\ rows'[m].status = IF m \in S THEN status ELSE rows[m].status
                             /\ rows'[m].lapsed <=> (m \notin S /\ rows[m].lapsed)
BY DEF WithStatus, RowType

LEMMA WithdrawIsPaidFor == ASSUME Sound, IInv', Withdraw PROVE Tidy' /\ PaidFor'
<1>1. PICK S \in SUBSET (Withdrawable \cap Open), status \in {"cancelled", "expired"} :
        rows' = WithStatus(S, status)
  BY DEF Withdraw
<1>2. \A n \in Messages : /\ rows'[n].status = IF n \in S THEN status ELSE rows[n].status
                          /\ rows'[n].lapsed <=> (n \notin S /\ rows[n].lapsed)
  BY <1>1, UpdatedLapses DEF Sound, IInv, TypeOK, RowType, Statuses
<1>3. UNCHANGED <<workers, copies, failures>>
  BY DEF Withdraw
<1>4. Tidy'
  BY <1>2, <1>3 DEF Sound, Tidy
<1>5. ASSUME NEW n \in Messages PROVE Covered(n)'
  <2>1. \A w \in Workers : (Owes(w, n)' <=> Owes(w, n)) /\ (Holds(w, n)' <=> Holds(w, n))
    BY <1>3 DEF Owes, Holds
  <2>2. Loose(n)' => Loose(n)
    BY <1>2, <2>1 DEF Loose, Claimed, Abandoned
  <2> QED
    BY <1>3, <2>1, <2>2, StillCovered DEF Sound, PaidFor
<1> QED
  BY <1>4, <1>5 DEF PaidFor

\* A worker goes on to a step without a message at hand, having let go of none.
LEMMA SweepIsPaidFor ==
  ASSUME Sound, IInv', NEW w \in Workers, Reclaim(w) \/ ExpireLate(w) \/ BatchDone(w)
  PROVE  Tidy' /\ PaidFor'
<1>1. PICK step \in {"reclaim", "expire", "claim"} : Go(w, step)
  BY DEF Reclaim, ExpireLate, BatchDone
<1>2. /\ \A u \in Workers : workers'[u].batch = workers[u].batch /\ workers'[u].current = workers[u].current
      /\ \A u \in Workers \ {w} : workers'[u] = workers[u]
      /\ workers'[w].step = step
      /\ workers[w].step \notin Holding
      /\ UNCHANGED <<copies, failures>>
  BY <1>1 DEF Sound, IInv, TypeOK, Go, At, Reclaim, ExpireLate, BatchDone
<1>3. \A n \in Messages :
          \/ rows'[n].status = rows[n].status /\ rows'[n].lapsed = rows[n].lapsed
          \/ /\ rows'[n].status \in {"pending", "expired"} /\ ~rows'[n].lapsed
             /\ rows'[n].status = "pending" => n \in Claimed /\ rows[n].lapsed
  <2>1. CASE BatchDone(w)
    BY <2>1 DEF BatchDone
  <2>2. CASE Reclaim(w)
    <3>1. rows' = WithStatus(Reclaimable, "pending")
      BY <2>2 DEF Reclaim
    <3>2. \A n \in Messages : /\ rows'[n].status = IF n \in Reclaimable THEN "pending" ELSE rows[n].status
                              /\ rows'[n].lapsed <=> (n \notin Reclaimable /\ rows[n].lapsed)
      BY <3>1, UpdatedLapses DEF Sound, IInv, TypeOK, RowType, Statuses
    <3>3. \A n \in Messages : rows[n].lapsed \in BOOLEAN /\ rows'[n].lapsed \in BOOLEAN
      BY DEF Sound, IInv, TypeOK
    <3> QED
      BY <3>2, <3>3 DEF Reclaimable
  <2>3. CASE ExpireLate(w)
    <3>1. rows' = WithStatus(Open \cap late, "expired")
      BY <2>3 DEF ExpireLate
    <3>2. \A n \in Messages : /\ rows'[n].status = IF n \in Open \cap late THEN "expired" ELSE rows[n].status
                              /\ rows'[n].lapsed <=> (n \notin Open \cap late /\ rows[n].lapsed)
      BY <3>1, UpdatedLapses DEF Sound, IInv, TypeOK, RowType, Statuses
    <3>3. \A n \in Messages : rows[n].lapsed \in BOOLEAN /\ rows'[n].lapsed \in BOOLEAN
      BY DEF Sound, IInv, TypeOK
    <3> QED
      BY <3>2, <3>3
  <2> QED
    BY <2>1, <2>2, <2>3
<1>4. Tidy'
  BY <1>2, <1>3 DEF Sound, Tidy
<1>5. ASSUME NEW n \in Messages PROVE Covered(n)'
  <2>1. \A u \in Workers : (Owes(u, n)' => Owes(u, n)) /\ (Holds(u, n)' <=> Holds(u, n))
    BY <1>2 DEF Owes, Holds
  <2>2. Loose(n)' => Loose(n)
    BY <1>3, <2>1 DEF Loose, Claimed, Abandoned
  <2> QED
    BY <1>2, <2>1, <2>2, StillCovered DEF Sound, PaidFor
<1> QED
  BY <1>4, <1>5 DEF PaidFor

\* The claim: the worker owes now what the row promised.
LEMMA ClaimIsPaidFor ==
  ASSUME Sound, IInv', NEW w \in Workers, Claim(w)
  PROVE  Tidy' /\ PaidFor'
<1>1. PICK S \in SUBSET Due :
        /\ rows' = [m \in Messages |-> IF m \in S THEN ClaimOf(m) ELSE rows[m]]
        /\ workers' = [workers EXCEPT ![w].step = IF S = {} THEN "reclaim" ELSE "check", ![w].batch = S]
  BY DEF Claim
<1>2. /\ S \subseteq Messages /\ UNCHANGED <<copies, failures>>
      /\ \A m \in S : rows[m].status = "pending"
      /\ workers[w].step = "claim" /\ workers[w].batch = {} /\ workers[w].current = NoMessage
  BY DEF Claim, Due, Sound, IInv, AtHand, Tidy, At
<1>3. /\ \A u \in Workers \ {w} : workers'[u] = workers[u]
      /\ workers'[w].batch = S /\ workers'[w].current = NoMessage
      /\ workers'[w].step \in {"reclaim", "check"}
  BY <1>1, <1>2 DEF Sound, IInv, TypeOK
<1>4. /\ \A m \in S : rows'[m].status = "processing" /\ rows'[m].lapsed = rows[m].lapsed
      /\ \A m \in Messages \ S : rows'[m] = rows[m]
  <2>1. ASSUME NEW m \in S
        PROVE  ClaimOf(m).status = "processing" /\ ClaimOf(m).lapsed = rows[m].lapsed
    <3>1. rows[m] \in RowType
      BY <1>2 DEF Sound, IInv, TypeOK, RowType
    <3> QED
      BY <3>1 DEF ClaimOf, RowType
  <2> QED
    BY <1>1, <1>2, <2>1
<1>5. Tidy'
  BY <1>2, <1>3, <1>4 DEF Sound, Tidy
<1>6. ASSUME NEW n \in Messages PROVE Covered(n)'
  <2>1. CASE n \in S
    <3>1. \A u \in Workers \ {w} : Owes(u, n)' => Owes(u, n)
      BY <1>3 DEF Owes
    <3>2. Cardinality(Owing(n)') <= Cardinality(Owing(n)) + 1
      BY <3>1, OneOwesMore
    <3>3. Loose(n) /\ ~Loose(n)'
      BY <1>2, <1>3, <1>4, <2>1 DEF Sound, Tidy, Loose, Claimed, Abandoned, Holds
    <3> QED
      BY <1>2, <3>2, <3>3, CoverTypes DEF Sound, PaidFor, Covered, Again
  <2>2. CASE n \notin S
    <3>1. \A u \in Workers : (Owes(u, n)' => Owes(u, n)) /\ (Holds(u, n)' <=> Holds(u, n))
      BY <1>2, <1>3, <2>2 DEF Owes, Holds
    <3>2. Loose(n)' => Loose(n)
      BY <1>4, <2>2, <3>1 DEF Loose, Claimed, Abandoned
    <3> QED
      BY <1>2, <3>1, <3>2, StillCovered DEF Sound, PaidFor
  <2> QED
    BY <2>1, <2>2
<1> QED
  BY <1>5, <1>6 DEF PaidFor

LEMMA CheckIsPaidFor ==
  ASSUME Sound, IInv', NEW w \in Workers, Check(w)
  PROVE  Tidy' /\ PaidFor'
<1>1. PICK m \in workers[w].batch :
          IF m \in late
          THEN /\ rows' = WithStatus({m} \cap Claimed, "expired")
               /\ workers' = [workers EXCEPT ![w].batch = @ \ {m}]
          ELSE /\ workers' = [workers EXCEPT ![w] = [step |-> "send", batch |-> @.batch \ {m}, current |-> m]]
               /\ UNCHANGED rows
  BY DEF Check
<1>2. /\ m \in Messages /\ workers[w].step = "check" /\ workers[w].current = NoMessage
      /\ UNCHANGED <<copies, failures>>
  BY DEF Check, Sound, IInv, TypeOK, Tidy, At
<1>3. CASE m \in late
  <2>1. \A n \in Messages :
            /\ rows'[n].status = IF n \in {m} \cap Claimed THEN "expired" ELSE rows[n].status
            /\ rows'[n].lapsed <=> (n \notin {m} \cap Claimed /\ rows[n].lapsed)
    BY <1>1, <1>3, UpdatedLapses DEF Sound, IInv, TypeOK, RowType, Statuses
  <2>2. /\ \A u \in Workers \ {w} : workers'[u] = workers[u]
        /\ workers'[w].batch = workers[w].batch \ {m}
        /\ workers'[w].step = "check" /\ workers'[w].current = NoMessage
    BY <1>1, <1>2, <1>3 DEF Sound, IInv, TypeOK
  <2>3. Tidy'
    BY <2>1, <2>2 DEF Sound, Tidy
  <2>4. ASSUME NEW n \in Messages PROVE Covered(n)'
    <3>1. \A u \in Workers : Owes(u, n)' => Owes(u, n)
      BY <1>2, <2>2 DEF Owes
    <3>2. n # m => \A u \in Workers : Holds(u, n)' <=> Holds(u, n)
      BY <1>2, <2>2 DEF Holds
    <3>3. Loose(n)' => Loose(n)
      BY <2>1, <3>2 DEF Loose, Claimed, Abandoned
    <3> QED
      BY <1>2, <3>1, <3>3, StillCovered DEF Sound, PaidFor
  <2> QED
    BY <2>3, <2>4 DEF PaidFor
<1>4. CASE m \notin late
  <2>1. /\ rows' = rows
        /\ \A u \in Workers \ {w} : workers'[u] = workers[u]
        /\ workers'[w] = [step |-> "send", batch |-> workers[w].batch \ {m}, current |-> m]
    BY <1>1, <1>4 DEF Sound, IInv, TypeOK
  <2>2. Tidy'
    BY <2>1 DEF Sound, Tidy, Holding
  <2>3. ASSUME NEW n \in Messages PROVE Covered(n)'
    <3>1. \A u \in Workers : (Owes(u, n)' => Owes(u, n)) /\ (Holds(u, n)' <=> Holds(u, n))
      BY <1>2, <2>1 DEF Owes, Holds
    <3>2. Loose(n)' => Loose(n)
      BY <2>1, <3>1 DEF Loose, Claimed, Abandoned
    <3> QED
      BY <1>2, <3>1, <3>2, StillCovered DEF Sound, PaidFor
  <2> QED
    BY <2>2, <2>3 DEF PaidFor
<1> QED
  BY <1>3, <1>4

\* The provider accepts the copy the worker owed; when the call fails, the copy
\* is paid for and the worker owes giving the row back.
LEMMA SendIsPaidFor ==
  ASSUME Sound, IInv', NEW w \in Workers, Send(w) \/ SendFails(w)
  PROVE  Tidy' /\ PaidFor'
<1> DEFINE m == workers[w].current
<1>1. /\ workers[w].step = "send" /\ rows' = rows
      /\ m \in Messages \ workers[w].batch
      /\ \/ Go(w, "sent") /\ failures' = failures
         \/ Go(w, "failed") /\ failures' = failures + 1
      /\ Deliver(m) \/ copies' = copies
  BY DEF Send, SendFails, AfterError, Fail, At, Sound, IInv, AtHand, Holding
<1>2. /\ \A u \in Workers \ {w} : workers'[u] = workers[u]
      /\ workers'[w].batch = workers[w].batch /\ workers'[w].current = m
      /\ \/ workers'[w].step = "sent" /\ failures' = failures
         \/ workers'[w].step = "failed" /\ failures' = failures + 1
  BY <1>1 DEF Sound, IInv, TypeOK, Go
<1>3. /\ \A n \in Messages \ {m} : copies'[n] = copies[n]
      /\ copies'[m] <= copies[m] + 1
  BY <1>1 DEF Sound, IInv, TypeOK, Deliver
<1>4. Tidy'
  BY <1>1, <1>2 DEF Sound, Tidy
<1>5. ASSUME NEW n \in Messages PROVE Covered(n)'
  <2>1. \A u \in Workers : (Owes(u, n)' => Owes(u, n)) /\ (Holds(u, n)' <=> Holds(u, n))
    BY <1>1, <1>2 DEF Owes, Holds
  <2>2. Loose(n)' => Loose(n)
    BY <1>1, <2>1 DEF Loose, Claimed, Abandoned
  <2>3. CASE n # m
    BY <1>2, <1>3, <2>1, <2>2, <2>3, StillCovered, FailurePays DEF Sound, PaidFor
  <2>4. CASE n = m /\ failures' = failures + 1
    <3>1. Cardinality(Owing(n)') <= Cardinality(Owing(n))
      BY <2>1, NoMoreOwing
    <3>2. Again(n)' <= Again(n)
      BY <2>2 DEF Again
    <3> QED
      BY <1>3, <2>4, <3>1, <3>2, CoverTypes DEF Sound, PaidFor, Covered
  <2>5. CASE n = m /\ workers'[w].step = "sent" /\ failures' = failures
    <3>1. Owes(w, n) /\ ~Owes(w, n)'
      BY <1>1, <1>2, <2>5 DEF Owes
    <3>2. Cardinality(Owing(n)') <= Cardinality(Owing(n)) - 1
      BY <2>1, <3>1, OneOwesLess
    <3>3. Again(n)' <= Again(n)
      BY <2>2 DEF Again
    <3> QED
      BY <1>3, <2>5, <3>2, <3>3, CoverTypes DEF Sound, PaidFor, Covered
  <2> QED
    BY <1>2, <2>3, <2>4, <2>5
<1> QED
  BY <1>4, <1>5 DEF PaidFor

\* A mark: a sent message is final, a failed one is there again, which the
\* worker owed.
LEMMA MarkIsPaidFor ==
  ASSUME Sound, IInv', NEW w \in Workers, MarkSent(w) \/ MarkFailed(w)
  PROVE  Tidy' /\ PaidFor'
<1> DEFINE m == workers[w].current
<1>1. PICK status \in {"sent", "pending"} :
        /\ rows' = WithStatus(StillClaimed(m), status)
        /\ status = "pending" => workers[w].step = "failed"
        /\ workers[w].step \in {"sent", "failed"}
  BY DEF MarkSent, MarkFailed, At
<1>2. \A n \in Messages : /\ rows'[n].status = IF n \in StillClaimed(m) THEN status ELSE rows[n].status
                          /\ rows'[n].lapsed <=> (n \notin StillClaimed(m) /\ rows[n].lapsed)
  BY <1>1, UpdatedLapses DEF Sound, IInv, TypeOK, RowType, Statuses
<1>3. /\ \A u \in Workers \ {w} : workers'[u] = workers[u]
      /\ workers'[w].batch = workers[w].batch
      /\ workers'[w].step = "check" /\ workers'[w].current = NoMessage
      /\ m \in Messages \ workers[w].batch
      /\ UNCHANGED <<copies, failures>>
  BY <1>1 DEF MarkSent, MarkFailed, NextMessage, Sound, IInv, TypeOK, AtHand, Holding
<1>4. Tidy'
  BY <1>2, <1>3 DEF Sound, Tidy
<1>5. ASSUME NEW n \in Messages PROVE Covered(n)'
  <2>1. \A u \in Workers : Owes(u, n)' => Owes(u, n)
    BY <1>3 DEF Owes
  <2>2. n # m => \A u \in Workers : Holds(u, n)' <=> Holds(u, n)
    BY <1>3 DEF Holds
  <2>3. CASE n # m \/ status = "sent" \/ n \notin Claimed
    <3>1. Loose(n)' => Loose(n)
      BY <1>2, <2>2, <2>3 DEF Loose, Claimed, Abandoned, StillClaimed
    <3> QED
      BY <1>3, <2>1, <3>1, StillCovered DEF Sound, PaidFor
  <2>4. CASE n = m /\ status = "pending"
    <3>1. Owes(w, n) /\ ~Owes(w, n)'
      BY <1>1, <1>3, <2>4 DEF Owes
    <3>2. Cardinality(Owing(n)') <= Cardinality(Owing(n)) - 1
      BY <2>1, <3>1, OneOwesLess
    <3> QED
      BY <1>3, <3>2, CoverTypes DEF Sound, PaidFor, Covered
  <2> QED
    BY <2>3, <2>4
<1> QED
  BY <1>4, <1>5 DEF PaidFor

\* Whatever a worker drops without settling it, it drops by a failure.
LEMMA StopIsPaidFor ==
  ASSUME Sound, IInv', NEW w \in Workers, StatementFails(w) \/ Crash(w)
  PROVE  Tidy' /\ PaidFor'
<1>1. /\ UNCHANGED <<rows, copies>> /\ failures' = failures + 1
      /\ workers \in [Workers -> WorkerType]
  BY DEF Sound, IInv, TypeOK, StatementFails, Crash, Fail, WorkerType
<1>2. \/ workers' = [workers EXCEPT ![w] = Polling]
      \/ NextMessage(w)
      \/ (At(w, "reclaim") \/ At(w, "expire")) /\ (Go(w, "expire") \/ Go(w, "claim"))
      \/ \E m \in Messages : At(w, "check") /\ workers' = [workers EXCEPT ![w].batch = @ \ {m}]
  BY DEF Sound, IInv, TypeOK, StatementFails, Crash
<1>3. /\ \A u \in Workers \ {w} : workers'[u] = workers[u]
      /\ workers'[w].batch \subseteq workers[w].batch
      /\ workers'[w].step \in Steps \ Holding
      /\ workers'[w].current \in {NoMessage, workers[w].current}
      /\ workers'[w].current # NoMessage => workers[w].step \notin Holding
  BY <1>1, <1>2 DEF NextMessage, Go, At, Polling, WorkerType, Steps
<1>4. Tidy'
  BY <1>1, <1>3 DEF Sound, Tidy
<1>5. ASSUME NEW n \in Messages PROVE Covered(n)'
  <2>1. \A u \in Workers : Owes(u, n)' => Owes(u, n)
    BY <1>3 DEF Owes, Holding
  <2> QED
    BY <1>1, <2>1, FailurePays DEF Sound, PaidFor
<1> QED
  BY <1>4, <1>5 DEF PaidFor

LEMMA InitIsPaidFor == Init => Tidy /\ PaidFor
<1> SUFFICES ASSUME Init PROVE Tidy /\ PaidFor
  OBVIOUS
<1>1. Tidy
  BY DEF Init, Tidy, NoRow, Polling
<1>2. ASSUME NEW m \in Messages PROVE Covered(m)
  <2>1. Owing(m) = {}
    BY DEF Init, Owing, Owes, Polling
  <2>2. Cardinality(Owing(m)) = 0
    BY <2>1, FS_EmptySet, Zenon
  <2>3. copies[m] = 0 /\ failures = 0
    BY DEF Init
  <2> QED
    BY <2>2, <2>3 DEF Covered, Again
<1> QED
  BY <1>1, <1>2 DEF PaidFor

LEMMA StepIsPaidFor == Sound /\ IInv' /\ [Next]_vars => Sound'
<1> SUFFICES ASSUME Sound, IInv', [Next]_vars PROVE Tidy' /\ PaidFor'
  BY DEF Sound
<1>1. ASSUME NEW m \in Messages, Enqueue(m) \/ PassExpiry(m) \/ LapseAbandoned(m) \/ LapseHeld(m)
      PROVE  Tidy' /\ PaidFor'
  BY <1>1, RowStepIsPaidFor
<1>2. CASE Withdraw
  BY <1>2, WithdrawIsPaidFor
<1>3. ASSUME NEW w \in Workers, Poll(w) PROVE Tidy' /\ PaidFor'
  BY <1>3, SweepIsPaidFor, ClaimIsPaidFor, CheckIsPaidFor, SendIsPaidFor, MarkIsPaidFor DEF Poll
<1>4. ASSUME NEW w \in Workers, Failure(w) PROVE Tidy' /\ PaidFor'
  BY <1>4, SendIsPaidFor, StopIsPaidFor DEF Failure
<1>5. CASE UNCHANGED vars
  BY <1>5 DEF vars, Sound, Tidy, PaidFor, Covered, Owing, Owes, Again, Loose, Claimed, Abandoned, Holds
<1> QED
  BY <1>1, <1>2, <1>3, <1>4, <1>5 DEF Next

\* However workers overlap and crash, a recipient gets at most one copy more of
\* a message than calls, statements and processes failed.
THEOREM DuplicatesArePaidFor == Spec => []DuplicatesNeedFailures
<1>1. Init => Sound
  BY InitIInv, InitIsPaidFor DEF Sound
<1>2. Sound /\ [Next]_vars => Sound'
  BY NextPreserves, StepIsPaidFor DEF Sound
<1>3. Sound => DuplicatesNeedFailures
  <2> SUFFICES ASSUME Sound, NEW m \in Messages PROVE copies[m] <= 1 + failures
    BY DEF DuplicatesNeedFailures
  <2>1. /\ copies[m] \in Nat /\ Cardinality(Owing(m)) \in Nat /\ Again(m) \in 0 .. 1 /\ failures \in Nat
    BY OwingFinite DEF Sound, IInv, TypeOK, Again
  <2> QED
    BY <2>1 DEF Sound, PaidFor, Covered
<1> QED
  BY <1>1, <1>2, <1>3, PTL DEF Spec

----------------------------------------------------------------------------
(* The outbox implements Mailbox *)

TheBox == [m \in Messages |-> Fate(rows[m].status)]
Arrived == {m \in Messages : copies[m] > 0}

LEMMA InitMails == Init => Mail!Init
BY DEF Init, Mail!Init, Fate, NoRow

\* Only claimed messages are handed over, and those are in the outbox.
LEMMA AtHandIsPosted ==
  ASSUME IInv, NEW w \in Workers, At(w, "send")
  PROVE  /\ workers[w].current \in Messages
         /\ rows[workers[w].current].status # "none"
<1> DEFINE m == workers[w].current
<1>1. m \in Messages
  BY DEF IInv, AtHand, At
<1>2. Bearers(m) # {}
  BY DEF Bearers, Bears
<1>3. Cardinality(Bearers(m)) # 0
  BY <1>2, BearersFinite, FS_EmptySet
<1>4. rows[m].attempts > 0
  <2>1. /\ copies[m] + Cardinality(Bearers(m)) <= rows[m].attempts
        /\ copies[m] \in Nat /\ rows[m].attempts \in Nat
    BY <1>1 DEF IInv, Counted, TypeOK
  <2>2. Cardinality(Bearers(m)) \in Nat
    BY BearersFinite
  <2> QED
    BY <1>3, <2>1, <2>2
<1> QED
  BY <1>1, <1>4 DEF IInv, Delivered

\* What a change of the rows is in the box.
LEMMA BoxChanges ==
  ASSUME TypeOK, NEW S \in SUBSET Messages, NEW status \in Statuses, Touches(S, status)
  PROVE  TheBox' = [m \in Messages |-> IF m \in S THEN Fate(status) ELSE TheBox[m]]
BY DEF Touches, TheBox

LEMMA StepMails == IInv /\ [Next]_vars => [Mail!Next]_(Mail!vars)
<1> SUFFICES ASSUME IInv, [Next]_vars PROVE Mail!Next \/ UNCHANGED <<TheBox, Arrived>>
  BY DEF Mail!vars, TheBox, Arrived
<1>0. /\ Fate("none") = "none" /\ Fate("sent") = "sent"
      /\ \A status \in {"pending", "processing"} : Fate(status) = "posted"
      /\ \A status \in {"expired", "cancelled"} : Fate(status) = "dropped"
  BY DEF Fate
<1>1. TypeOK
  BY DEF IInv
<1>2. ASSUME NEW w \in Workers, Send(w) \/ SendFails(w) PROVE Mail!Next \/ UNCHANGED <<TheBox, Arrived>>
  <2> DEFINE m == workers[w].current
  <2>1. /\ rows' = rows
        /\ Deliver(m) \/ copies' = copies
        /\ At(w, "send")
    BY <1>2 DEF Send, SendFails
  <2>2. m \in Messages /\ TheBox[m] # "none"
    <3>1. m \in Messages /\ rows[m].status # "none"
      BY <2>1, AtHandIsPosted
    <3> QED
      BY <1>1, <3>1 DEF TheBox, TypeOK, Statuses, Fate
  <2>3. TheBox' = TheBox
    BY <2>1 DEF TheBox
  <2>4. Arrived' = Arrived \cup {m} \/ Arrived' = Arrived
    BY <1>1, <2>1, <2>2 DEF Deliver, Arrived, TypeOK
  <2> QED
    BY <2>2, <2>3, <2>4 DEF Mail!Next, Mail!Arrive, TheBox, Arrived
<1>3. ASSUME Next, \A w \in Workers : ~(Send(w) \/ SendFails(w)) PROVE Arrived' = Arrived
  BY <1>3 DEF Next, Poll, Failure, Enqueue, PassExpiry, LapseAbandoned, LapseHeld, Withdraw, Reclaim,
     ExpireLate, Claim, Check, BatchDone, MarkSent, MarkFailed, StatementFails, Crash, Arrived
<1>4. ASSUME NEW w \in Workers, MarkSent(w) PROVE Mail!Next \/ UNCHANGED <<TheBox, Arrived>>
  <2> DEFINE m == workers[w].current
  <2>1. m \in Messages /\ m \in Arrived
    BY <1>1, <1>4 DEF IInv, AtHand, Delivered, MarkSent, At, Arrived
  <2>2. Arrived' = Arrived
    BY <1>4 DEF MarkSent, Arrived
  <2>3. TheBox' = [n \in Messages |-> IF n \in StillClaimed(m) THEN "sent" ELSE TheBox[n]]
    <3>1. Touches(StillClaimed(m), "sent")
      BY <1>1, <1>4, SentChanges
    <3>2. StillClaimed(m) \in SUBSET Messages /\ "sent" \in Statuses
      BY DEF StillClaimed, Claimed, Statuses
    <3> QED
      BY <1>0, <1>1, <3>1, <3>2, BoxChanges
  <2>4. CASE m \in Claimed
    <3>1. TheBox[m] = "posted"
      BY <1>0, <2>1, <2>4 DEF TheBox, Claimed
    <3>2. \A n \in Messages : n \in StillClaimed(m) <=> n = m
      BY <2>4 DEF StillClaimed
    <3>3. TheBox' = [TheBox EXCEPT ![m] = "sent"]
      BY <2>3, <3>2 DEF TheBox
    <3> QED
      BY <2>1, <2>2, <3>1, <3>3 DEF Mail!Next, Mail!MarkSent, TheBox, Arrived
  <2>5. CASE m \notin Claimed
    BY <2>2, <2>3, <2>5 DEF StillClaimed, TheBox
  <2> QED
    BY <2>4, <2>5
<1>5. ASSUME NEW m \in Messages, rows[m].status = "none", Touches({m}, "pending"), Arrived' = Arrived
      PROVE  Mail!Next
  <2>1. TheBox' = [TheBox EXCEPT ![m] = "posted"]
    <3>1. {m} \in SUBSET Messages /\ "pending" \in Statuses
      BY DEF Statuses
    <3>2. TheBox' = [n \in Messages |-> IF n \in {m} THEN Fate("pending") ELSE TheBox[n]]
      BY <1>1, <1>5, <3>1, BoxChanges
    <3> QED
      BY <1>0, <3>2 DEF TheBox
  <2>2. TheBox[m] = "none"
    BY <1>0, <1>5 DEF TheBox
  <2> QED
    BY <1>5, <2>1, <2>2 DEF Mail!Next, Mail!Post, TheBox, Arrived
<1>6. ASSUME NEW S \in SUBSET ((Expiring \cup Withdrawable) \cap Open),
             NEW status \in {"cancelled", "expired"}, Touches(S, status), Arrived' = Arrived
      PROVE  Mail!Next
  <2>1. TheBox' = [m \in Messages |-> IF m \in S THEN "dropped" ELSE TheBox[m]]
    BY <1>0, <1>1, <1>6, BoxChanges DEF Open, Statuses
  <2>2. \A m \in S : TheBox[m] = "posted"
    BY <1>0 DEF TheBox, Open
  <2> QED
    BY <1>6, <2>1, <2>2 DEF Mail!Next, Mail!Drop, TheBox, Arrived
<1>7. ASSUME NEW S \in SUBSET Open, NEW status \in {"pending", "processing"}, Touches(S, status)
      PROVE  TheBox' = TheBox
  <2>1. TheBox' = [m \in Messages |-> IF m \in S THEN "posted" ELSE TheBox[m]]
    BY <1>0, <1>1, <1>7, BoxChanges DEF Open, Statuses
  <2>2. \A m \in S : TheBox[m] = "posted"
    BY <1>0 DEF TheBox, Open
  <2> QED
    BY <2>1, <2>2 DEF TheBox
<1>8. ASSUME Touches({}, "none") PROVE TheBox' = TheBox
  <2>1. \A m \in Messages : rows'[m].status = rows[m].status
    BY <1>8 DEF Touches
  <2> QED
    BY <2>1 DEF TheBox
<1>9. CASE Next
  BY <1>1, <1>2, <1>3, <1>4, <1>5, <1>6, <1>7, <1>8, <1>9, RowChanges
<1>10. CASE UNCHANGED vars
  BY <1>10 DEF vars, TheBox, Arrived
<1> QED
  BY <1>9, <1>10

\* Whatever workers, crashes and lapsed claims do to the rows, their users see
\* a mailbox: posted once, sent only if it arrived, dropped only if it may be.
THEOREM RefinesMailbox == Spec => ImplementsMailbox
BY InductiveInvariant, InitMails, StepMails, PTL DEF ImplementsMailbox, Mail!Spec, Spec

=============================================================================
