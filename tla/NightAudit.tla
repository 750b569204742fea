----------------------------- MODULE NightAudit -----------------------------
(***************************************************************************)
(* The night audit of one property (modules/night-audit) on its business    *)
(* date: requests start runs, workers execute them as jobs of the queue, a   *)
(* user recovers a run, and clerks post to folios meanwhile.  The job rows   *)
(* follow the statements of JobRows.  A transaction that only waits for      *)
(* locks and then commits is one step; the commit of an audit (Phase C) is   *)
(* taken apart, because the lease and the other actors move during it.       *)
(***************************************************************************)
EXTENDS JobRows, FiniteSets

CONSTANTS Runs,       \* run ids; each has one job
          Clerks,     \* users who post to folios
          LastDate,   \* business and calendar dates are 1..LastDate
          ClockSkew   \* whether the application's clock may run ahead of the database's

ASSUME LastDateAssumption == LastDate \in Nat \ {0}
ASSUME ClockSkewAssumption == ClockSkew \in BOOLEAN
ASSUME ActorsAssumption == Runs \cap Clerks = {}

VARIABLES
  today,      \* the date of the row with is_current
  status,     \* status[d] of the business date row of d
  localDate,  \* the hotel's calendar date
  asked,      \* asked[r]: the business date the start request of r was made on, or 0
  run,        \* run[r]: the row of night_audit_runs
  job,        \* job[r]: the row of background_jobs
  exec,       \* exec[r][n]: where the execution of attempt n of r's job stands
  giveUp,     \* <<w, r>>: worker w is inside giveUp for r's job
  posting,    \* posting[c]: the date c posts to in an open transaction, or 0
  lines,      \* lines[d]: who has committed ledger lines on d
  stats       \* stats[d]: the lines the daily statistics of d were taken from

day == <<today, status, lines, stats>>
vars == <<today, status, localDate, asked, run, job, exec, giveUp, posting, lines, stats>>

Dates == 1..LastDate

Locking == {"dated", "working"}    \* inside Phase C, holding the business date
Live == {"running", "checks", "commit", "failing", "returned", "threw"} \cup Locking

Execution == [worker : Workers \cup {None}, pc : {"idle", "ended"} \cup Live]

TypeOK ==
  /\ today \in Dates
  /\ status \in [Dates -> {"none", "OPEN", "IN_AUDIT", "CLOSED"}]
  /\ localDate \in Dates
  /\ asked \in [Runs -> {0} \cup Dates]
  /\ run \in [Runs -> [date : {0} \cup Dates, stale : BOOLEAN,
                       status : {"none", "RUNNING", "COMPLETED", "FAILED"}]]
  /\ job \in [Runs -> Row]
  /\ exec \in [Runs -> [Attempts -> Execution]]
  /\ giveUp \subseteq Workers \X Runs
  /\ posting \in [Clerks -> {0} \cup Dates]
  /\ lines \in [Dates -> SUBSET (Clerks \cup Runs)]
  /\ stats \in [Dates -> SUBSET (Clerks \cup Runs)]

\* initializeBusinessDate has opened the first date: the local one or the day
\* before it.
Init ==
  /\ today = 1
  /\ status = [d \in Dates |-> IF d = 1 THEN "OPEN" ELSE "none"]
  /\ localDate \in {1, 2} \cap Dates
  /\ asked = [r \in Runs |-> 0]
  /\ run = [r \in Runs |-> [date |-> 0, stale |-> FALSE, status |-> "none"]]
  /\ job = [r \in Runs |-> AbsentRow]
  /\ exec = [r \in Runs |-> [n \in Attempts |-> [worker |-> None, pc |-> "idle"]]]
  /\ giveUp = {}
  /\ posting = [c \in Clerks |-> 0]
  /\ lines = [d \in Dates |-> {}]
  /\ stats = [d \in Dates |-> {}]

\* The current date's row: a Phase C holds it FOR UPDATE, and it is free for a
\* FOR UPDATE when no posting holds it FOR SHARE either.
DateHeld == \E r \in Runs, n \in Attempts : exec[r][n].pc \in Locking

MutDateFree == ~DateHeld    \* postings take no lock

DateFree == ~DateHeld /\ \A c \in Clerks : posting[c] = 0

\* The job's row is free: no Phase C is past its assertLease.
JobFree(r) == \A n \in Attempts : exec[r][n].pc # "working"

HeldBy(r, n) == Held(job[r], exec[r][n].worker, n)

----------------------------------------------------------------------------
(* Users.                                                                   *)

\* A user asks to close the date their page shows; the request then waits.
Ask(r) ==
  /\ asked[r] = 0
  /\ asked' = [asked EXCEPT ![r] = today]
  /\ UNCHANGED <<day, localDate, run, job, exec, giveUp, posting>>

MutAnyDate(r) == asked[r] # 0    \* does not compare current.date with requested

\* startNightAudit closes the date the user chose or none (BUSINESS_DATE_CHANGED).
ChosenDate(r) == asked[r] = today

MutAhead == TRUE    \* no DATE_AHEAD

\* closeDateProblem: the date is not ahead of the hotel's calendar.
Closable == today <= localDate

\* startNightAudit: Phase A.  The last date is not closed, to bound the dates.
Start(r) ==
  /\ asked[r] # 0 /\ run[r].status = "none"
  /\ DateFree
  /\ ChosenDate(r)
  /\ status[today] = "OPEN"
  /\ Closable
  /\ today < LastDate
  /\ run' = [run EXCEPT ![r] = [date |-> today, stale |-> FALSE, status |-> "RUNNING"]]
  /\ status' = [status EXCEPT ![today] = "IN_AUDIT"]
  /\ job' = [job EXCEPT ![r] = InsertedRow]
  /\ UNCHANGED <<today, lines, stats, localDate, asked, exec, giveUp, posting>>

MutUnfinished(r) == run[r].status # "none"    \* the status of the run is not read

\* lockRun and the check of its status, before a run is failed.
Unfinished(r) == run[r].status = "RUNNING"

\* A run becomes FAILED and its date OPEN again, if it is still the current one.
FailedRun(r) ==
  /\ run' = [run EXCEPT ![r].status = "FAILED"]
  /\ status' = IF status[today] = "IN_AUDIT" /\ run[r].date = today
                 THEN [status EXCEPT ![today] = "OPEN"] ELSE status

\* recoverRun, with the business date taken NOWAIT.  stopSubjectJob cancels a job
\* no worker holds, by the application's clock, and refuses a live one; only a
\* run whose job was still queued needs not be stale.
Recover(r) ==
  /\ DateFree
  /\ Unfinished(r)
  /\ \/ /\ Stoppable(job[r]) \/ (ClockSkew /\ job[r].status = "RUNNING")
        /\ job[r].status = "QUEUED" \/ run[r].stale
        /\ job' = [job EXCEPT ![r] = CancelledRow(@)]
     \/ /\ job[r].status \notin ActiveStatuses
        /\ run[r].stale
        /\ UNCHANGED job
  /\ FailedRun(r)
  /\ UNCHANGED <<today, lines, stats, localDate, asked, exec, giveUp, posting>>

MutPostDuringAudit == status[today] # "CLOSED"

\* requireOpenBusinessDate, with the shared lock of the date's row.
OpenForPosting == status[today] = "OPEN"

PostBegin(c) ==
  /\ posting[c] = 0
  /\ ~DateHeld
  /\ OpenForPosting
  /\ posting' = [posting EXCEPT ![c] = today]
  /\ UNCHANGED <<day, localDate, asked, run, job, exec, giveUp>>

\* The posting command commits its lines, or is rolled back.
PostEnd(c) ==
  /\ posting[c] # 0
  /\ posting' = [posting EXCEPT ![c] = 0]
  /\ \/ lines' = [lines EXCEPT ![posting[c]] = @ \cup {c}]
     \/ UNCHANGED lines
  /\ UNCHANGED <<today, status, stats, localDate, asked, run, job, exec, giveUp>>

----------------------------------------------------------------------------
(* Time.                                                                    *)

NextDay ==
  /\ localDate < LastDate
  /\ localDate' = localDate + 1
  /\ UNCHANGED <<day, asked, run, job, exec, giveUp, posting>>

\* STALE_RUN_MS have passed since the run started.
RunAges(r) ==
  /\ run[r].status = "RUNNING" /\ ~run[r].stale
  /\ run' = [run EXCEPT ![r].stale = TRUE]
  /\ UNCHANGED <<day, localDate, asked, job, exec, giveUp, posting>>

BecomesDue(r) ==
  /\ job[r].status = "QUEUED" /\ ~job[r].due
  /\ job' = [job EXCEPT ![r].due = TRUE]
  /\ UNCHANGED <<day, localDate, asked, run, exec, giveUp, posting>>

LeaseExpires(r) ==
  /\ job[r].lease = "live"
  /\ job' = [job EXCEPT ![r].lease = "expired"]
  /\ UNCHANGED <<day, localDate, asked, run, exec, giveUp, posting>>

----------------------------------------------------------------------------
(* Workers: the loop of lib/jobs/worker.ts on audit jobs.                   *)

Claim(w, r) ==
  /\ Claimable(job[r]) /\ JobFree(r)
  /\ job' = [job EXCEPT ![r] = ClaimedRow(@, w)]
  /\ exec' = [exec EXCEPT ![r][job[r].attempts + 1] = [worker |-> w, pc |-> "running"]]
  /\ UNCHANGED <<day, localDate, asked, run, giveUp, posting>>

Reclaim(w, r) ==
  /\ Reclaimable(job[r]) /\ JobFree(r)
  /\ job' = [job EXCEPT ![r] = ReclaimedRow(@)]
  /\ giveUp' = IF ReclaimedRow(job[r]).status = "FAILED"
                 THEN giveUp \cup {<<w, r>>} ELSE giveUp
  /\ UNCHANGED <<day, localDate, asked, run, exec, posting>>

Renew(r, n) ==
  /\ exec[r][n].pc \in Live /\ HeldBy(r, n) /\ JobFree(r)
  /\ job' = [job EXCEPT ![r] = RenewedRow(@)]
  /\ UNCHANGED <<day, localDate, asked, run, exec, giveUp, posting>>

\* onGiveUp: failRun without a lease.  It runs once, and an error (or the
\* database being away) is only logged.
GiveUp(w, r) ==
  /\ <<w, r>> \in giveUp
  /\ giveUp' = giveUp \ {<<w, r>>}
  /\ \/ DateFree /\ Unfinished(r) /\ FailedRun(r)
     \/ UNCHANGED <<run, status>>
  /\ UNCHANGED <<today, lines, stats, localDate, asked, job, exec, posting>>

\* The process dies with everything it was doing; its transactions roll back.
Crash(w) ==
  LET dies(e) == e.worker = w /\ e.pc \in Live IN
  /\ (\E r \in Runs, n \in Attempts : dies(exec[r][n])) \/ (\E r \in Runs : <<w, r>> \in giveUp)
  /\ exec' = [r \in Runs |-> [n \in Attempts |->
                IF dies(exec[r][n]) THEN [exec[r][n] EXCEPT !.pc = "ended"] ELSE exec[r][n]]]
  /\ giveUp' = {g \in giveUp : g[1] # w}
  /\ UNCHANGED <<day, localDate, asked, run, job, posting>>

----------------------------------------------------------------------------
(* One execution: executeNightAudit and the end of JobWorker.execute.       *)

Goto(r, n, pc) == exec' = [exec EXCEPT ![r][n].pc = pc]

OnlyGoto(r, n, from, pcs) ==
  /\ exec[r][n].pc = from
  /\ \E pc \in pcs : Goto(r, n, pc)
  /\ UNCHANGED <<day, localDate, asked, run, job, giveUp, posting>>

\* The run is read without a lock.  One that is over is left as it is; a user who
\* lost the permission fails it; a lost database is thrown.
Begin(r, n) ==
  \/ run[r].status # "RUNNING" /\ OnlyGoto(r, n, "running", {"returned"})
  \/ run[r].status = "RUNNING" /\ OnlyGoto(r, n, "running", {"checks", "failing"})
  \/ OnlyGoto(r, n, "running", {"threw"})

\* Phase B: read-only checks, which pass or block.
Check(r, n) == OnlyGoto(r, n, "checks", {"commit", "failing", "threw"})

\* What Phase C requires once it holds the date and the run.
InAudit(r) ==
  status[today] = "IN_AUDIT" /\ run[r].date = today /\ run[r].status = "RUNNING"

TakeDate(r, n) ==
  /\ DateFree
  /\ OnlyGoto(r, n, "commit", IF InAudit(r) THEN {"dated"} ELSE {"failing"})

MutNoLease(r, n) == OnlyGoto(r, n, "dated", {"working"})

\* assertLease: LeaseLostError ends the execution without a write.
AssertLease(r, n) == OnlyGoto(r, n, "dated", IF HeldBy(r, n) THEN {"working"} ELSE {"ended"})

MutCompleteAfter(r) == UNCHANGED job    \* left to the finishJob of the worker

\* completeIn, which refuses the commit when the fence matches nothing.
CompleteIn(r) == job' = [job EXCEPT ![r] = CompletedRow(@)]

\* Every step of Phase C, the roll of the date, the run and the job, in one
\* commit.  Its acknowledgement may be lost, as a connection error or another.
CommitNight(r, n) ==
  /\ exec[r][n].pc = "working"
  /\ lines' = [lines EXCEPT ![today] = @ \cup {r}]
  /\ stats' = [stats EXCEPT ![today] = lines[today] \cup {r}]
  /\ status' = [status EXCEPT ![today] = "CLOSED", ![today + 1] = "OPEN"]
  /\ today' = today + 1
  /\ run' = [run EXCEPT ![r].status = "COMPLETED"]
  /\ CompleteIn(r)
  /\ \E pc \in {"returned", "threw", "failing"} : Goto(r, n, pc)
  /\ UNCHANGED <<localDate, asked, giveUp, posting>>

\* A step of Phase C fails and everything is rolled back.
Rollback(r, n) ==
  \E from \in {"commit"} \cup Locking : OnlyGoto(r, n, from, {"failing", "threw"})

\* failRun, unless the database is away; its acknowledgement may be lost too.  A
\* worker that lost its lease leaves the run to the one that took over.
FailRun(r, n) ==
  \/ /\ exec[r][n].pc = "failing" /\ DateFree
     /\ Unfinished(r) /\ HeldBy(r, n)
     /\ FailedRun(r)
     /\ \E pc \in {"returned", "threw"} : Goto(r, n, pc)
     /\ UNCHANGED <<today, lines, stats, localDate, asked, job, giveUp, posting>>
  \/ /\ DateFree
     /\ ~(Unfinished(r) /\ HeldBy(r, n))
     /\ OnlyGoto(r, n, "failing", IF Unfinished(r) THEN {"ended"} ELSE {"returned"})
  \/ OnlyGoto(r, n, "failing", {"threw"})

\* finishJob (a lost lease changes nothing), or the database is away.
Finish(r, n) ==
  \/ /\ exec[r][n].pc = "returned" /\ JobFree(r)
     /\ job' = IF HeldBy(r, n) THEN [job EXCEPT ![r] = CompletedRow(@)] ELSE job
     /\ Goto(r, n, "ended")
     /\ UNCHANGED <<day, localDate, asked, run, giveUp, posting>>
  \/ OnlyGoto(r, n, "returned", {"threw"})

\* recordJobFailure and, after the last attempt, giveUp; or nothing at all, when
\* the execution was aborted or the database is away.
RecordFailure(r, n) ==
  \/ /\ exec[r][n].pc = "threw" /\ JobFree(r) /\ HeldBy(r, n)
     /\ job' = [job EXCEPT ![r] = FailedRow(@, n < MaxAttempts)]
     /\ giveUp' = IF n < MaxAttempts THEN giveUp
                                     ELSE giveUp \cup {<<exec[r][n].worker, r>>}
     /\ Goto(r, n, "ended")
     /\ UNCHANGED <<day, localDate, asked, run, posting>>
  \/ OnlyGoto(r, n, "threw", {"ended"})

Step(r, n) ==
  \/ Begin(r, n) \/ Check(r, n) \/ TakeDate(r, n) \/ AssertLease(r, n)
  \/ CommitNight(r, n) \/ Rollback(r, n) \/ FailRun(r, n)
  \/ Finish(r, n) \/ RecordFailure(r, n)

Next ==
  \/ NextDay
  \/ \E c \in Clerks : PostBegin(c) \/ PostEnd(c)
  \/ \E r \in Runs : \/ Ask(r) \/ Start(r) \/ Recover(r)
                     \/ RunAges(r) \/ BecomesDue(r) \/ LeaseExpires(r)
  \/ \E w \in Workers, r \in Runs : Claim(w, r) \/ Reclaim(w, r) \/ GiveUp(w, r)
  \/ \E w \in Workers : Crash(w)
  \/ \E r \in Runs, n \in Attempts : Step(r, n) \/ Renew(r, n)

Spec == Init /\ [][Next]_vars

(* The fairness of FairSpec: time passes, a worker process is always running *)
(* somewhere and polls, and an execution or a giveUp that started goes on    *)
(* until it ends or its process dies.  Users need not ask, post or recover.  *)
Fairness ==
  \A r \in Runs :
    /\ WF_vars(BecomesDue(r))
    /\ WF_vars(LeaseExpires(r))
    /\ WF_vars(\E w \in Workers : Claim(w, r))
    /\ WF_vars(\E w \in Workers : Reclaim(w, r))
    /\ WF_vars(\E w \in Workers : GiveUp(w, r))
    /\ \A n \in Attempts : WF_vars(Step(r, n))

FairSpec == Spec /\ Fairness

----------------------------------------------------------------------------
(* Properties.                                                              *)

Running == {r \in Runs : run[r].status = "RUNNING"}
Completed(d) == {r \in Runs : run[r].status = "COMPLETED" /\ run[r].date = d}

\* A closed date was closed by exactly one run, whose charges are on it, and its
\* statistics are those of its ledger lines for ever: no posting that was under
\* way, late or waiting for the lock lands on it after the snapshot.
ClosedFrozen ==
  \A d \in Dates :
    /\ d < today => /\ status[d] = "CLOSED" /\ stats[d] = lines[d]
                    /\ \E r \in Runs : Completed(d) = {r} /\ lines[d] \cap Runs = {r}
    /\ d >= today => Completed(d) = {} /\ lines[d] \cap Runs = {}

\* The business date is IN_AUDIT exactly while one run is RUNNING, and that run
\* is for the date: no failure, recovery or late worker of an older run reopens
\* the date under a newer one.
AuditHeld ==
  /\ status[today] = "IN_AUDIT" <=> Running # {}
  /\ \A r \in Running : Running = {r} /\ run[r].date = today

\* The job and its run agree: an audit that closed a date is a job that
\* succeeded, a job never succeeds with its run open, and a job cancelled by a
\* recovery leaves a failed run, never a closed date.
JobAgrees ==
  \A r \in Runs :
    /\ run[r].status = "COMPLETED" => job[r].status = "SUCCEEDED"
    /\ job[r].status = "SUCCEEDED" => run[r].status # "RUNNING"
    /\ job[r].status = "CANCELLED" => run[r].status = "FAILED"

\* Whoever is past the locks of Phase C still has everything it checked: the
\* date in audit, its run RUNNING, the job's lease its own, and no posting or
\* other commit in progress (the lock order date, run, job).
CommitSafe ==
  \A r \in Runs, n \in Attempts : exec[r][n].pc \in Locking =>
    /\ InAudit(r) /\ \A c \in Clerks : posting[c] = 0
    /\ exec[r][n].pc = "working" => HeldBy(r, n)
    /\ \A q \in Runs, m \in Attempts : exec[q][m].pc \in Locking => q = r /\ m = n

\* A run closes the date its user chose and no other, and no date ahead of the
\* hotel's calendar is ever closed.
ChosenDateOnly ==
  /\ \A r \in Runs : run[r].status # "none" => run[r].date = asked[r]
  /\ today <= localDate + 1

Promise == INSTANCE BusinessDay WITH
  today <- today, status <- status, lines <- lines, stats <- stats
ImplementsBusinessDay == Promise!Spec

\* Every audit that was started ends, or its job has used up its attempts.
AuditEnds ==
  \A r \in Runs : run[r].status = "RUNNING" ~>
                    run[r].status # "RUNNING" \/ job[r].status = "FAILED"
=============================================================================
