------------------------------ MODULE JobRows ------------------------------
(***************************************************************************)
(* The rows of the table background_jobs and the SQL statements of          *)
(* modules/jobs/jobs.repository.ts, each as a function from the row it       *)
(* matches to the row it leaves.  The modules JobQueue and NightAudit run    *)
(* these statements from concurrent workers and requests.                   *)
(*                                                                         *)
(* Time is abstracted to what the statements compare: `lease' says whether  *)
(* locked_until has passed, `due' whether run_after has.                    *)
(***************************************************************************)
EXTENDS Naturals

CONSTANTS Workers,      \* worker identities (JobWorker.id)
          MaxAttempts,  \* max_attempts of every job
          None          \* locked_by IS NULL

ASSUME WorkersAssumption == None \notin Workers
ASSUME MaxAttemptsAssumption == MaxAttempts \in Nat \ {0}

Attempts == 1..MaxAttempts

ActiveStatuses == {"QUEUED", "RUNNING"}
TerminalStatuses == {"SUCCEEDED", "FAILED", "CANCELLED"}

Row == [status   : {"ABSENT"} \cup ActiveStatuses \cup TerminalStatuses,
        attempts : 0..MaxAttempts,
        owner    : Workers \cup {None},
        lease    : {"none", "live", "expired"},
        due      : BOOLEAN]

\* No row yet: the request that queues the job has not committed.
AbsentRow ==
  [status |-> "ABSENT", attempts |-> 0, owner |-> None, lease |-> "none", due |-> FALSE]

\* insertJob: the column defaults of the table, due at once.
InsertedRow ==
  [status |-> "QUEUED", attempts |-> 0, owner |-> None, lease |-> "none", due |-> TRUE]

\* The WHERE clause of claimNextJob.
Claimable(r) == r.status = "QUEUED" /\ r.due /\ r.attempts < MaxAttempts

MutCountedTwice(r, w) ==
  [r EXCEPT !.status = "RUNNING", !.attempts = @ + 2, !.owner = w, !.lease = "live"]

ClaimedRow(r, w) ==
  [r EXCEPT !.status = "RUNNING", !.attempts = @ + 1, !.owner = w, !.lease = "live"]

MutHeldByName(r, w, n) == r.status = "RUNNING" /\ r.owner = w   \* no attempt number

\* The fence: what every write of the worker w for its attempt n requires.
Held(r, w, n) == r.status = "RUNNING" /\ r.owner = w /\ r.attempts = n

\* renewLease does not look at locked_until: an expired lease nobody has
\* reclaimed yet becomes live again.
RenewedRow(r) == [r EXCEPT !.lease = "live"]

Released(r) == [r EXCEPT !.owner = None, !.lease = "none"]

CompletedRow(r) == [Released(r) EXCEPT !.status = "SUCCEEDED"]

\* failAttempt: run_after moves into the future only for a retry.
FailedRow(r, retry) ==
  IF retry THEN [Released(r) EXCEPT !.status = "QUEUED", !.due = FALSE]
           ELSE [Released(r) EXCEPT !.status = "FAILED"]

\* The WHERE clause of reclaimExpiredJobs.
Reclaimable(r) == r.status = "RUNNING" /\ r.lease = "expired"

MutReclaimedAlwaysQueued(r) == FailedRow(r, TRUE)   \* ignores max_attempts

ReclaimedRow(r) == FailedRow(r, r.attempts < MaxAttempts)

\* cancelJob, for the rows stopSubjectJob lets through.
Stoppable(r) == r.status = "QUEUED" \/ (r.status = "RUNNING" /\ r.lease # "live")

CancelledRow(r) == [Released(r) EXCEPT !.status = "CANCELLED"]

----------------------------------------------------------------------------
(* The CHECK constraints of the migration 20261220090000_background_jobs: a  *)
(* statement that broke one would raise instead of committing.               *)

LeaseCheck(r) == (r.status = "RUNNING") <=> (r.owner # None /\ r.lease # "none")
=============================================================================
