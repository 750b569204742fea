------------------------------ MODULE JobQueue ------------------------------
(***************************************************************************)
(* The durable job queue: the statements of modules/jobs/jobs.repository.ts *)
(* run by the workers of lib/jobs/worker.ts and by the requests that queue  *)
(* or stop a job.  A worker executes the attempt n of the job j from its     *)
(* claim to the end of JobWorker.execute; the handler is arbitrary (it may   *)
(* return, throw, or commit fenced transactions of its own).  Workers crash, *)
(* lose the database, and go on after their lease was taken from them.      *)
(***************************************************************************)
EXTENDS JobRows, FiniteSets

CONSTANTS Jobs,   \* job ids
          Key     \* Key[j] is the dedupe key of j

VARIABLES
  job,      \* job[j]: the committed row of j
  locker,   \* locker[j]: the attempt whose open transaction locks the row, or 0
  exec,     \* exec[j][n]: where the execution of attempt n of j stands
  worked,   \* worked[j]: the attempts that committed fenced work (history)
  giveUp,   \* <<w, j>>: worker w is inside giveUp(j)
  undone    \* undone[j]: how often onGiveUp compensated j (history, at most 2)

vars == <<job, locker, exec, worked, giveUp, undone>>

\* Where an execution can stand: the handler runs, holds its transaction
\* open, has returned, threw a retryable error or a final one (JobFailure).
Live == {"running", "intx", "returned", "threw", "threwFinal"}

Execution == [worker : Workers \cup {None}, pc : {"idle", "ended"} \cup Live,
              aborted : BOOLEAN]

NotStarted == [worker |-> None, pc |-> "idle", aborted |-> FALSE]

TypeOK ==
  /\ job \in [Jobs -> Row]
  /\ locker \in [Jobs -> 0..MaxAttempts]
  /\ exec \in [Jobs -> [Attempts -> Execution]]
  /\ worked \in [Jobs -> SUBSET Attempts]
  /\ giveUp \subseteq Workers \X Jobs
  /\ undone \in [Jobs -> 0..2]

Init ==
  /\ job = [j \in Jobs |-> AbsentRow]
  /\ locker = [j \in Jobs |-> 0]
  /\ exec = [j \in Jobs |-> [n \in Attempts |-> NotStarted]]
  /\ worked = [j \in Jobs |-> {}]
  /\ giveUp = {}
  /\ undone = [j \in Jobs |-> 0]

HeldBy(j, n) == Held(job[j], exec[j][n].worker, n)

Unlocked(j) == locker[j] = 0

----------------------------------------------------------------------------
(* Requests.                                                                *)

\* enqueueJob: the partial unique index on dedupe_key refuses a second active
\* job (P2002, answered 409), and the row appears when the request commits.
Enqueue(j) ==
  /\ job[j].status = "ABSENT"
  /\ \A k \in Jobs : job[k].status \in ActiveStatuses => Key[k] # Key[j]
  /\ job' = [job EXCEPT ![j] = InsertedRow]
  /\ UNCHANGED <<locker, exec, worked, giveUp, undone>>

\* stopSubjectJob: waits for the row lock, leaves a live lease alone.
Cancel(j) ==
  /\ Unlocked(j)
  /\ Stoppable(job[j])
  /\ job' = [job EXCEPT ![j] = CancelledRow(@)]
  /\ UNCHANGED <<locker, exec, worked, giveUp, undone>>

----------------------------------------------------------------------------
(* Time.                                                                    *)

BecomesDue(j) ==
  /\ job[j].status = "QUEUED" /\ ~job[j].due
  /\ job' = [job EXCEPT ![j].due = TRUE]
  /\ UNCHANGED <<locker, exec, worked, giveUp, undone>>

LeaseExpires(j) ==
  /\ job[j].lease = "live"
  /\ job' = [job EXCEPT ![j].lease = "expired"]
  /\ UNCHANGED <<locker, exec, worked, giveUp, undone>>

----------------------------------------------------------------------------
(* A worker's loop.                                                         *)

\* claimNextJob (FOR UPDATE SKIP LOCKED), then execute().  Any due job may be
\* the oldest one: the order of the claims is not modelled.
Claim(w, j) ==
  /\ Claimable(job[j])
  /\ Unlocked(j)
  /\ job' = [job EXCEPT ![j] = ClaimedRow(@, w)]
  /\ exec' = [exec EXCEPT ![j][job[j].attempts + 1] =
                 [NotStarted EXCEPT !.worker = w, !.pc = "running"]]
  /\ UNCHANGED <<locker, worked, giveUp, undone>>

\* reclaimExpiredJobs skips locked rows; a job that ends FAILED is handed to
\* giveUp by the worker that reclaimed it.
ReclaimRow(w, j) ==
  /\ Reclaimable(job[j])
  /\ job' = [job EXCEPT ![j] = ReclaimedRow(@)]
  /\ giveUp' = IF ReclaimedRow(job[j]).status = "FAILED"
                 THEN giveUp \cup {<<w, j>>} ELSE giveUp
  /\ UNCHANGED <<locker, exec, worked, undone>>

MutReclaimLocked(w, j) == ReclaimRow(w, j)   \* without SKIP LOCKED

Reclaim(w, j) == Unlocked(j) /\ ReclaimRow(w, j)

\* loadFailedJob and the handler's onGiveUp; an error of either is logged and
\* the call is over.
GiveUp(w, j) ==
  /\ <<w, j>> \in giveUp
  /\ giveUp' = giveUp \ {<<w, j>>}
  /\ \/ /\ job[j].status = "FAILED"
        /\ undone' = [undone EXCEPT ![j] = IF @ = 2 THEN 2 ELSE @ + 1]
     \/ UNCHANGED undone
  /\ UNCHANGED <<job, locker, exec, worked>>

\* The process dies, or the shutdown ended it: PostgreSQL rolls back its open
\* transactions and nothing it had in memory survives.
Crash(w) ==
  LET dies(j, n) == exec[j][n].worker = w /\ exec[j][n].pc \in Live IN
  /\ (\E j \in Jobs, n \in Attempts : dies(j, n)) \/ (\E j \in Jobs : <<w, j>> \in giveUp)
  /\ exec' = [j \in Jobs |-> [n \in Attempts |->
                IF dies(j, n) THEN [exec[j][n] EXCEPT !.pc = "ended"] ELSE exec[j][n]]]
  /\ locker' = [j \in Jobs |->
                  IF \E n \in Attempts : n = locker[j] /\ dies(j, n) THEN 0 ELSE locker[j]]
  /\ giveUp' = {g \in giveUp : g[1] # w}
  /\ UNCHANGED <<job, worked, undone>>

\* stop() after its grace period: every execution is told to abort.
Stop(w) ==
  LET told(j, n) == exec[j][n].worker = w /\ exec[j][n].pc \in Live IN
  /\ \E j \in Jobs, n \in Attempts : told(j, n) /\ ~exec[j][n].aborted
  /\ exec' = [j \in Jobs |-> [n \in Attempts |->
                IF told(j, n) THEN [exec[j][n] EXCEPT !.aborted = TRUE] ELSE exec[j][n]]]
  /\ UNCHANGED <<job, locker, worked, giveUp, undone>>

----------------------------------------------------------------------------
(* One execution.                                                           *)

Goto(j, n, pc) == exec' = [exec EXCEPT ![j][n].pc = pc]

\* The heartbeat timer calls renewLease: "renewed", "busy" (the row is locked,
\* nothing changes) or "lost", which aborts the execution.
Heartbeat(j, n) ==
  /\ exec[j][n].pc \in Live
  /\ IF HeldBy(j, n)
       THEN /\ Unlocked(j)
            /\ job' = [job EXCEPT ![j] = RenewedRow(@)]
            /\ UNCHANGED exec
       ELSE /\ exec' = [exec EXCEPT ![j][n].aborted = TRUE]
            /\ UNCHANGED job
  /\ UNCHANGED <<locker, worked, giveUp, undone>>

\* assertLease: waits for the row, then holds it until the transaction ends;
\* LeaseLostError ends the execution without a write.
AssertLease(j, n) ==
  /\ exec[j][n].pc = "running"
  /\ Unlocked(j)
  /\ IF HeldBy(j, n)
       THEN locker' = [locker EXCEPT ![j] = n] /\ Goto(j, n, "intx")
       ELSE UNCHANGED locker /\ Goto(j, n, "ended")
  /\ UNCHANGED <<job, worked, giveUp, undone>>

\* The handler's transaction commits; completeIn, when the handler called it,
\* finished the job in it, and refused the commit had the fence matched nothing.
\* The handler goes on whether or not it saw the acknowledgement.
Commit(j, n) ==
  /\ exec[j][n].pc = "intx"
  /\ locker' = [locker EXCEPT ![j] = 0]
  /\ worked' = [worked EXCEPT ![j] = @ \cup {n}]
  /\ \/ UNCHANGED job
     \/ HeldBy(j, n) /\ job' = [job EXCEPT ![j] = CompletedRow(@)]
  /\ Goto(j, n, "running")
  /\ UNCHANGED <<giveUp, undone>>

\* The transaction is rolled back; the handler goes on (it may record the
\* failure of the work in another transaction).
Rollback(j, n) ==
  /\ exec[j][n].pc = "intx"
  /\ locker' = [locker EXCEPT ![j] = 0]
  /\ Goto(j, n, "running")
  /\ UNCHANGED <<job, worked, giveUp, undone>>

\* The handler returns, throws an error worth a retry, or throws JobFailure.
HandlerEnds(j, n) ==
  /\ exec[j][n].pc = "running"
  /\ \E pc \in {"returned", "threw", "threwFinal"} : Goto(j, n, pc)
  /\ UNCHANGED <<job, locker, worked, giveUp, undone>>

\* finishJob after the handler returned.  No match is LeaseLostError, which is
\* swallowed when completeIn already finished the job.
Finish(j, n) ==
  /\ exec[j][n].pc = "returned"
  /\ Unlocked(j)
  /\ job' = IF HeldBy(j, n) THEN [job EXCEPT ![j] = CompletedRow(@)] ELSE job
  /\ Goto(j, n, "ended")
  /\ UNCHANGED <<locker, worked, giveUp, undone>>

\* The database is unreachable for finishJob.
FinishThrows(j, n) ==
  /\ exec[j][n].pc = "returned"
  /\ Goto(j, n, "threw")
  /\ UNCHANGED <<job, locker, worked, giveUp, undone>>

MutRecordsUnfenced(j, n) == ~exec[j][n].aborted   \* failAttempt by id alone

Records(j, n) == ~exec[j][n].aborted /\ HeldBy(j, n)

\* The catch block of execute(): an aborted execution writes nothing, otherwise
\* recordJobFailure decides by afterFailure, and giveUp follows a final failure.
RecordFailure(j, n) ==
  LET retry == exec[j][n].pc = "threw" /\ n < MaxAttempts IN
  /\ exec[j][n].pc \in {"threw", "threwFinal"}
  /\ exec[j][n].aborted \/ Unlocked(j)
  /\ job' = IF Records(j, n) THEN [job EXCEPT ![j] = FailedRow(@, retry)] ELSE job
  /\ giveUp' = IF Records(j, n) /\ ~retry
                 THEN giveUp \cup {<<exec[j][n].worker, j>>} ELSE giveUp
  /\ Goto(j, n, "ended")
  /\ UNCHANGED <<locker, worked, undone>>

\* recordJobFailure itself fails: only the lease will end this attempt.
RecordThrows(j, n) ==
  /\ exec[j][n].pc \in {"threw", "threwFinal"}
  /\ Goto(j, n, "ended")
  /\ UNCHANGED <<job, locker, worked, giveUp, undone>>

\* The steps an execution takes by itself, in program order.
Step(j, n) ==
  \/ AssertLease(j, n) \/ Commit(j, n) \/ Rollback(j, n) \/ HandlerEnds(j, n)
  \/ Finish(j, n) \/ FinishThrows(j, n) \/ RecordFailure(j, n) \/ RecordThrows(j, n)

Next ==
  \/ \E j \in Jobs : Enqueue(j) \/ Cancel(j) \/ BecomesDue(j) \/ LeaseExpires(j)
  \/ \E w \in Workers, j \in Jobs : Claim(w, j) \/ Reclaim(w, j) \/ GiveUp(w, j)
  \/ \E w \in Workers : Crash(w) \/ Stop(w)
  \/ \E j \in Jobs, n \in Attempts : Step(j, n) \/ Heartbeat(j, n)

Spec == Init /\ [][Next]_vars

(* The fairness of FairSpec.  A worker process is always running somewhere   *)
(* (a crashed one is restarted): its poll timer reclaims and claims, and     *)
(* `ORDER BY run_after, id' passes over no job for ever.  Time passes.  An   *)
(* execution goes on (statement and transaction timeouts end its waits) and  *)
(* its handler does not open transactions for ever (strong fairness of       *)
(* HandlerEnds).  Nothing is assumed of heartbeats, crashes or stops.        *)
Fairness ==
  \A j \in Jobs :
    /\ WF_vars(BecomesDue(j))
    /\ WF_vars(LeaseExpires(j))
    /\ WF_vars(\E w \in Workers : Claim(w, j))
    /\ WF_vars(\E w \in Workers : Reclaim(w, j))
    /\ \A n \in Attempts : WF_vars(Step(j, n)) /\ SF_vars(HandlerEnds(j, n))

FairSpec == Spec /\ Fairness

----------------------------------------------------------------------------
(* Properties.                                                              *)

\* The CHECK constraints of background_jobs hold in every row, and a queued job
\* always has an attempt left: none waits for a claim that can never match it
\* (`attempts < max_attempts' in claimNextJob).
RowConstraints ==
  \A j \in Jobs :
    /\ LeaseCheck(job[j])
    /\ job[j].status = "QUEUED" => job[j].attempts < MaxAttempts

\* While an execution's transaction is open past its assertLease, the job is
\* that execution's: nobody reclaims, cancels, claims or renews it away, however
\* late the transaction commits (lockFencedJob's FOR UPDATE).
FencedLock ==
  \A j \in Jobs, n \in Attempts :
    /\ locker[j] = n => exec[j][n].pc = "intx" /\ HeldBy(j, n)
    /\ exec[j][n].pc = "intx" => locker[j] = n

\* Jobs with one dedupe key exclude each other: at most one is queued or running,
\* and at most one of their executions, an abandoned job's included, is inside a
\* fenced transaction.
KeyExclusive ==
  \A j, k \in Jobs : Key[j] = Key[k] =>
    /\ job[j].status \in ActiveStatuses /\ job[k].status \in ActiveStatuses => j = k
    /\ \A m, n \in Attempts :
         exec[j][m].pc = "intx" /\ exec[k][n].pc = "intx" => j = k /\ m = n

\* A job is handed to onGiveUp at most once, by the one statement that made it
\* FAILED (the reclaim or recordJobFailure), and a failed job never runs again
\* or succeeds after it was compensated.
GiveUpSound ==
  \A j \in Jobs :
    /\ undone[j] # 0 => undone[j] = 1 /\ job[j].status = "FAILED"
    /\ \A w \in Workers : <<w, j>> \in giveUp =>
         /\ job[j].status = "FAILED" /\ undone[j] = 0
         /\ \A v \in Workers : <<v, j>> \in giveUp => v = w

\* The queue implements FencedWork: attempts hold the job one after another,
\* only the present holder's transactions commit work, and nothing happens to a
\* job that is over.
PhaseOf(r) ==
  CASE r.status = "ABSENT" -> "absent"
    [] r.status = "QUEUED" -> "waiting"
    [] r.status = "RUNNING" -> "held"
    [] OTHER -> "over"

phase == [j \in Jobs |-> PhaseOf(job[j])]
token == [j \in Jobs |-> job[j].attempts]

Contract == INSTANCE FencedWork WITH
  phase <- phase, token <- token, worked <- worked
ImplementsFencedWork == Contract!Spec

\* Every queued job ends, through any number of crashes, lost acknowledgements
\* and expired leases: each costs it an attempt, and the last one is given up.
EndsEventually ==
  \A j \in Jobs : job[j].status = "QUEUED" ~> job[j].status \in TerminalStatuses
=============================================================================
