--------------------------- MODULE JobRowsProofs ---------------------------
(***************************************************************************)
(* Lemmas about the row operators of JobRows, for every number of attempts. *)
(***************************************************************************)
EXTENDS JobRows, TLAPS

\* A row with its constraints: what the table accepts of one row.
GoodRow(r) ==
  /\ r \in Row
  /\ LeaseCheck(r)
  /\ r.status = "QUEUED" => r.attempts < MaxAttempts
  /\ r.status = "ABSENT" => r.attempts = 0

\* The rows the insert starts from and leaves.
LEMMA NewRows ==
  /\ GoodRow(AbsentRow) /\ AbsentRow.status = "ABSENT"
  /\ GoodRow(InsertedRow) /\ InsertedRow.status = "QUEUED" /\ InsertedRow.attempts = 0
<1>1. MaxAttempts \in Nat /\ 0 < MaxAttempts /\ 0 \in 0..MaxAttempts
  BY MaxAttemptsAssumption
<1>2. AbsentRow \in Row /\ InsertedRow \in Row
  BY <1>1 DEF AbsentRow, InsertedRow, Row, ActiveStatuses
<1>3. LeaseCheck(AbsentRow) /\ LeaseCheck(InsertedRow)
  BY DEF LeaseCheck, AbsentRow, InsertedRow
<1> QED
  BY <1>1, <1>2, <1>3 DEF GoodRow, AbsentRow, InsertedRow

\* claimNextJob leaves a running row with a live lease and one more attempt.
LEMMA ClaimedGood ==
  ASSUME NEW r, GoodRow(r), NEW w \in Workers, Claimable(r)
  PROVE  /\ GoodRow(ClaimedRow(r, w))
         /\ ClaimedRow(r, w).status = "RUNNING"
         /\ ClaimedRow(r, w).attempts = r.attempts + 1
         /\ r.attempts + 1 \in Attempts
<1> DEFINE c == ClaimedRow(r, w)
<1>1. r.attempts \in Nat /\ r.attempts < MaxAttempts /\ MaxAttempts \in Nat
  BY MaxAttemptsAssumption DEF GoodRow, Row, Claimable
<1>2. r.attempts + 1 \in Attempts /\ r.attempts + 1 \in 0..MaxAttempts
  BY <1>1 DEF Attempts
<1>3. /\ c = [r EXCEPT !.status = "RUNNING", !.attempts = r.attempts + 1, !.owner = w,
                       !.lease = "live"]
      /\ r \in Row
  BY DEF ClaimedRow, GoodRow
<1>4. /\ c.status = "RUNNING" /\ c.attempts = r.attempts + 1
      /\ c.owner = w /\ c.lease = "live"
  BY <1>3 DEF Row
<1>5. c \in Row
  BY <1>2, <1>3 DEF Row, ActiveStatuses
<1> QED
  BY <1>2, <1>4, <1>5, WorkersAssumption DEF GoodRow, LeaseCheck

\* The statements that release a row keep its attempts and satisfy the table.
LEMMA ReleasedGood ==
  ASSUME NEW r, GoodRow(r)
  PROVE  /\ GoodRow(CompletedRow(r)) /\ CompletedRow(r).status = "SUCCEEDED"
         /\ GoodRow(CancelledRow(r)) /\ CancelledRow(r).status = "CANCELLED"
         /\ CompletedRow(r).attempts = r.attempts
         /\ CancelledRow(r).attempts = r.attempts
  BY WorkersAssumption
     DEF GoodRow, CompletedRow, CancelledRow, Released, Row, LeaseCheck, ActiveStatuses,
         TerminalStatuses

\* A failed attempt goes back to the queue only with an attempt left.
LEMMA FailedGood ==
  ASSUME NEW r, GoodRow(r), NEW retry \in BOOLEAN, retry => r.attempts < MaxAttempts
  PROVE  /\ GoodRow(FailedRow(r, retry))
         /\ FailedRow(r, retry).status = IF retry THEN "QUEUED" ELSE "FAILED"
         /\ FailedRow(r, retry).attempts = r.attempts
  BY WorkersAssumption
     DEF GoodRow, FailedRow, Released, Row, LeaseCheck, ActiveStatuses, TerminalStatuses

\* reclaimExpiredJobs requeues exactly the rows with an attempt left.
LEMMA ReclaimedGood ==
  ASSUME NEW r, GoodRow(r)
  PROVE  /\ GoodRow(ReclaimedRow(r))
         /\ ReclaimedRow(r).status = IF r.attempts < MaxAttempts THEN "QUEUED" ELSE "FAILED"
         /\ ReclaimedRow(r).attempts = r.attempts
<1> DEFINE retry == r.attempts < MaxAttempts
<1>1. retry \in BOOLEAN
  OBVIOUS
<1> QED
  BY <1>1, FailedGood DEF ReclaimedRow

\* The clock and a heartbeat leave the fields a fence looks at alone.
SameFence(r, q) == q.status = r.status /\ q.attempts = r.attempts /\ q.owner = r.owner

\* A heartbeat, the clock and the backoff change nothing a fence looks at.
LEMMA TimedGood ==
  ASSUME NEW r, GoodRow(r)
  PROVE  /\ r.status = "RUNNING" => GoodRow(RenewedRow(r))
         /\ SameFence(r, RenewedRow(r))
         /\ SameFence(r, [r EXCEPT !.due = TRUE])
         /\ SameFence(r, [r EXCEPT !.lease = "expired"])
         /\ GoodRow([r EXCEPT !.due = TRUE])
         /\ r.lease = "live" => GoodRow([r EXCEPT !.lease = "expired"])
  BY DEF SameFence, GoodRow, RenewedRow, Row, LeaseCheck, ActiveStatuses, TerminalStatuses
=============================================================================
