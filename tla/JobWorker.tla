------------------------------ MODULE JobWorker ------------------------------
(***************************************************************************)
(* The loop of one worker process (lib/jobs/worker.ts): timer, notifications *)
(* and free slots call tick(), one tick runs at a time, and between two      *)
(* awaits the process does nothing else.  What an execution does to its row  *)
(* is in JobQueue; here a row is what the claim of this worker sees.         *)
(***************************************************************************)
EXTENDS Naturals, FiniteSets

CONSTANTS
  Jobs,
  Concurrency,  \* slots
  MaxAttempts,  \* of a job
  MaxErrors,    \* bound: statements that find the database unreachable
  None

ASSUME JobsAssumption == IsFiniteSet(Jobs) /\ None \notin Jobs
ASSUME BoundsAssumption ==
  Concurrency \in Nat \ {0} /\ MaxAttempts \in Nat \ {0} /\ MaxErrors \in Nat

VARIABLES
  row,      \* row[j]: not inserted, due, due later, held, its lease over, ended
  attempt,  \* attempt[j]: the claims of job j by this worker
  running,  \* the executions <<job, attempt>> of this process
  active,   \* active[j]: the attempt whose promise the map active holds
  tick,     \* where the tick is: idle or awaiting a statement; what it claimed
  wake,     \* wakeAgain
  listen,   \* the LISTEN connection is up
  notes,    \* notifications on their way
  stopping, \* stop() was called
  errors,   \* statements that failed
  told,     \* history: due jobs for which the worker was woken
  late      \* history: executions begun after stop() was called

workerVars == <<row, attempt, running, active, tick, wake, listen, notes, stopping, errors, told, late>>

Idle == [pc |-> "idle", got |-> None]
Size == Cardinality({j \in Jobs : active[j] # 0})
Free == Size < Concurrency
Due == {j \in Jobs : row[j] = "due"}

----------------------------------------------------------------------------
(* tick().                                                                  *)

Wake ==
  /\ told' = IF stopping THEN told ELSE Due
  /\ IF stopping THEN UNCHANGED <<tick, wake>>
     ELSE IF tick.pc # "idle" THEN wake' = TRUE /\ UNCHANGED tick
     ELSE wake' = FALSE /\ tick' = [Idle EXCEPT !.pc = "reclaim"]

MutLoopEnd ==    \* wakeAgain is reset when the loop ends
  tick' = Idle /\ wake' = FALSE
\* while (this.wakeAgain && !this.stopping)
LoopEnd ==
  IF wake /\ ~stopping THEN wake' = FALSE /\ tick' = [Idle EXCEPT !.pc = "reclaim"]
  ELSE tick' = Idle /\ UNCHANGED wake

MutMayClaim(size) == size < Concurrency    \* stop is not looked at
MayClaim(size) == ~stopping /\ size < Concurrency

\* Claim the next job, or end the loop.
Next1(size) ==
  IF MayClaim(size) THEN tick' = [Idle EXCEPT !.pc = "claim"] /\ UNCHANGED wake ELSE LoopEnd

\* The reclaim answers; it runs once per poll interval.
Reclaim ==
  /\ tick.pc = "reclaim"
  /\ \/ row' = [j \in Jobs |-> IF row[j] # "expired" THEN row[j]
                               ELSE IF attempt[j] < MaxAttempts THEN "due" ELSE "over"]
     \/ UNCHANGED row
  /\ Next1(Size)
  /\ UNCHANGED <<attempt, running, active, listen, notes, stopping, errors, told, late>>

\* The claim is executed by the database ...
ClaimJob ==
  /\ tick.pc = "claim"
  /\ \/ \E j \in Due :
          /\ row' = [row EXCEPT ![j] = "held"]
          /\ attempt' = [attempt EXCEPT ![j] = @ + 1]
          /\ told' = told \ {j}
          /\ tick' = [pc |-> "answer", got |-> j]
     \/ /\ Due = {}
        /\ tick' = [pc |-> "answer", got |-> None]
        /\ UNCHANGED <<row, attempt, told>>
  /\ UNCHANGED <<running, active, wake, listen, notes, stopping, errors, late>>

\* ... and answered: the job is executed, and its promise kept under its id.
Answer ==
  /\ tick.pc = "answer"
  /\ LET j == tick.got
         e == <<j, attempt[j]>>
     IN IF j = None THEN LoopEnd /\ UNCHANGED <<running, active, late>>
        ELSE /\ running' = running \cup {e}
             /\ active' = [active EXCEPT ![j] = attempt[j]]
             /\ late' = IF stopping THEN late \cup {e} ELSE late
             /\ Next1(IF active[j] = 0 THEN Size + 1 ELSE Size)
  /\ UNCHANGED <<row, attempt, listen, notes, stopping, errors, told>>

\* The database is unreachable; a claim may have been executed.
DbError ==
  /\ tick.pc # "idle" /\ errors < MaxErrors
  /\ tick' = Idle /\ told' = {} /\ errors' = errors + 1
  /\ UNCHANGED <<row, attempt, running, active, wake, listen, notes, stopping, late>>

MutRemaining(j, n) == IF active[j] = n THEN n ELSE active[j]    \* the slot is kept
\* active.delete(job.id), whichever execution of the job the entry is for.
Remaining(j, n) == 0

\* How it ended is recorded, if the job is still held; when the database is unreachable,
\* the job stays held until its lease expires.
Record(j, n) ==
  IF row[j] = "held" /\ attempt[j] = n
  THEN \/ /\ \E s \in {"over"} \cup {t \in {"later"} : n < MaxAttempts} : row' = [row EXCEPT ![j] = s]
          /\ UNCHANGED errors
       \/ errors < MaxErrors /\ errors' = errors + 1 /\ UNCHANGED row
  ELSE UNCHANGED <<row, errors>>

\* An execution ends, with its lease or without, and the worker looks for the next job.
EndExecution(j, n) ==
  /\ <<j, n>> \in running
  /\ running' = running \ {<<j, n>>}
  /\ active' = [active EXCEPT ![j] = Remaining(j, n)]
  /\ Record(j, n)
  /\ Wake
  /\ UNCHANGED <<attempt, listen, notes, stopping, late>>

----------------------------------------------------------------------------
(* The rows, by the hands of others and of time.                            *)

Insert(j) ==
  /\ row[j] = "none"
  /\ row' = [row EXCEPT ![j] = "due"]
  /\ notes' = IF listen THEN notes \cup {j} ELSE notes
  /\ UNCHANGED <<attempt, running, active, tick, wake, listen, stopping, errors, told, late>>

Others(j) ==
  /\ \/ row[j] = "due" /\ row' = [row EXCEPT ![j] = "over"]
     \/ row[j] = "later" /\ row' = [row EXCEPT ![j] = "due"]
     \/ row[j] = "held" /\ row' = [row EXCEPT ![j] = "expired"]
  /\ told' = told \ {j}
  /\ UNCHANGED <<attempt, running, active, tick, wake, listen, notes, stopping, errors, late>>

----------------------------------------------------------------------------
(* Timer, notifications, stop.                                              *)

Poll ==
  /\ ~stopping /\ Wake
  /\ UNCHANGED <<row, attempt, running, active, listen, notes, stopping, errors, late>>

Notified(j) ==
  /\ j \in notes /\ notes' = notes \ {j}
  /\ Wake
  /\ UNCHANGED <<row, attempt, running, active, listen, stopping, errors, late>>

ListenLost ==
  /\ listen /\ listen' = FALSE /\ notes' = {}
  /\ UNCHANGED <<row, attempt, running, active, tick, wake, stopping, errors, told, late>>

\* Jobs inserted while nobody listened are looked for.
Listening ==
  /\ ~listen /\ ~stopping /\ listen' = TRUE
  /\ Wake
  /\ UNCHANGED <<row, attempt, running, active, notes, stopping, errors, late>>

Stop ==
  /\ ~stopping /\ stopping' = TRUE
  /\ listen' = FALSE /\ notes' = {}
  /\ UNCHANGED <<row, attempt, running, active, tick, wake, errors, told, late>>

----------------------------------------------------------------------------

\* start(), in a process that runs a worker (JOB_WORKER).
WorkerInit(on) ==
  /\ row = [j \in Jobs |-> "none"] /\ attempt = [j \in Jobs |-> 0]
  /\ running = {} /\ active = [j \in Jobs |-> 0]
  /\ tick = [Idle EXCEPT !.pc = IF on THEN "reclaim" ELSE "idle"] /\ wake = FALSE
  /\ listen = FALSE /\ notes = {} /\ stopping = ~on
  /\ errors = 0 /\ told = {} /\ late = {}

Ends == \E j \in Jobs, n \in 1..MaxAttempts : EndExecution(j, n)

WorkerNext ==
  \/ Reclaim \/ ClaimJob \/ Answer \/ DbError \/ Ends
  \/ \E j \in Jobs : Insert(j) \/ Others(j) \/ Notified(j)
  \/ Poll \/ ListenLost \/ Listening \/ Stop

\* The timer fires, executions end, and the database answers (but MaxErrors times).
WorkerFairness ==
  /\ WF_workerVars(Poll) /\ WF_workerVars(Reclaim) /\ WF_workerVars(ClaimJob) /\ WF_workerVars(Answer)
  /\ \A j \in Jobs, n \in 1..MaxAttempts : WF_workerVars(EndExecution(j, n))

WorkerSpec == WorkerInit(TRUE) /\ [][WorkerNext]_workerVars /\ WorkerFairness

----------------------------------------------------------------------------
(* Properties.                                                              *)

WorkerTypeOK ==
  /\ row \in [Jobs -> {"none", "due", "later", "held", "expired", "over"}]
  /\ attempt \in [Jobs -> 0..MaxAttempts] /\ active \in [Jobs -> 0..MaxAttempts]
  /\ running \subseteq Jobs \X (1..MaxAttempts) /\ late \subseteq Jobs \X (1..MaxAttempts)
  /\ tick \in [pc : {"idle", "reclaim", "claim", "answer"}, got : Jobs \cup {None}]
  /\ wake \in BOOLEAN /\ listen \in BOOLEAN /\ stopping \in BOOLEAN
  /\ errors \in 0..MaxErrors /\ notes \subseteq Jobs /\ told \subseteq Jobs

\* The coalesced wake-up: when the worker has been woken, it does not come to rest
\* with a free slot and a job that was due when it was woken.
NotForgotten == tick.pc = "idle" /\ ~stopping /\ told # {} => ~Free

\* A due job does not stay due, whatever notifications are lost and statements fail,
\* while the worker runs: slots are given back and the timer polls.
Served == \A j \in Jobs : row[j] = "due" ~> row[j] # "due" \/ stopping

\* stop() stops claiming: the claim under way is the last.
StopsClaiming == Cardinality(late) <= 1
=============================================================================
