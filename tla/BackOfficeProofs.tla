-------------------------- MODULE BackOfficeProofs --------------------------
(***************************************************************************)
(* The back office.  First the safety of the night audit for every set of    *)
(* runs, workers and clerks, every number of attempts and every range of     *)
(* dates.  Then the administration of users, which implements Authority for  *)
(* any number of users, roles, properties and requests: one request at a     *)
(* time is checked and not committed; what it was allowed for stays true     *)
(* until it commits, because only a link is used without the lock, and a     *)
(* link takes no permission and no administrator away.                       *)
(***************************************************************************)
EXTENDS NightAudit, Administration, JobRowsProofs

----------------------------------------------------------------------------
(* The night audit.                                                         *)

Rows == \A r \in Runs : GoodRow(job[r])

Typed == TypeOK /\ Rows

(* The inductive invariant, in parts.  The current date splits the calendar; *)
(* the running run holds it; postings hold it open; whoever is inside Phase C *)
(* still has what it checked; closed dates are settled; runs, jobs and        *)
(* executions agree.                                                        *)

Calendar ==
  /\ \A d \in Dates : (d < today => status[d] = "CLOSED") /\ (d > today => status[d] = "none")
  /\ status[today] \in {"OPEN", "IN_AUDIT"}
  /\ status[today] = "IN_AUDIT" => today < LastDate

OneRun ==
  /\ \A r \in Runs : run[r].status = "RUNNING" =>
       run[r].date = today /\ status[today] = "IN_AUDIT"
  /\ \A q, r \in Runs : run[q].status = "RUNNING" /\ run[r].status = "RUNNING" => q = r
  /\ status[today] = "IN_AUDIT" => \E r \in Runs : run[r].status = "RUNNING"

Postings == \A c \in Clerks : posting[c] # 0 => posting[c] = today /\ status[today] = "OPEN"

Commits ==
  \A r \in Runs, n \in Attempts : exec[r][n].pc \in Locking =>
    /\ InAudit(r)
    /\ exec[r][n].pc = "working" => HeldBy(r, n)
    /\ \A q \in Runs, m \in Attempts : exec[q][m].pc \in Locking => q = r /\ m = n

Ledger ==
  /\ \A r \in Runs, d \in Dates : r \in lines[d] <=> run[r].status = "COMPLETED" /\ run[r].date = d
  /\ \A r \in Runs : run[r].status = "COMPLETED" => run[r].date < today
  /\ \A q, r \in Runs :
       run[q].status = "COMPLETED" /\ run[r].status = "COMPLETED" /\ run[q].date = run[r].date
         => q = r
  /\ \A d \in Dates : d < today =>
       /\ stats[d] = lines[d]
       /\ \E r \in Runs : run[r].status = "COMPLETED" /\ run[r].date = d

JobsFollow ==
  \A r \in Runs :
    /\ run[r].status = "COMPLETED" => job[r].status = "SUCCEEDED"
    /\ job[r].status = "SUCCEEDED" => run[r].status # "RUNNING"
    /\ job[r].status = "CANCELLED" => run[r].status = "FAILED"
    /\ run[r].status = "none" => job[r].status = "ABSENT"
    /\ \A n \in Attempts : exec[r][n].pc # "idle" => run[r].status # "none"
    /\ \A n \in Attempts : exec[r][n].pc = "returned" => run[r].status # "RUNNING"

Chosen ==
  /\ \A r \in Runs : run[r].status # "none" => run[r].date = asked[r] /\ asked[r] # 0
  /\ today <= localDate + 1
  /\ status[today] = "IN_AUDIT" => today <= localDate

AuditInv ==
  Typed /\ Calendar /\ OneRun /\ Postings /\ Commits /\ Ledger /\ JobsFollow /\ Chosen

----------------------------------------------------------------------------
(* How the steps change the day and one execution.                          *)

PCs == {"idle", "ended"} \cup Live

\* The steps that touch nothing but jobs, executions and give-ups.
Quiet == UNCHANGED <<today, status, localDate, asked, run, posting, lines, stats>>

\* What recoverRun, onGiveUp and failRun do to the day.
Fails(r) ==
  /\ DateFree /\ Unfinished(r) /\ FailedRun(r)
  /\ UNCHANGED <<today, localDate, asked, posting, lines, stats>>

\* Every step is quiet, a user's, the clock's, a failure or a commit.
LEMMA Effects ==
  ASSUME [Next]_vars
  PROVE  \/ Quiet
         \/ NextDay
         \/ \E c \in Clerks : PostBegin(c) \/ PostEnd(c)
         \/ \E r \in Runs : Ask(r) \/ Start(r) \/ RunAges(r) \/ Fails(r)
         \/ \E r \in Runs, n \in Attempts : CommitNight(r, n)
<1> USE DEF Quiet, day
<1>1. ASSUME NEW r \in Runs, BecomesDue(r) \/ LeaseExpires(r) PROVE Quiet
  BY <1>1 DEF BecomesDue, LeaseExpires
<1>2. ASSUME NEW r \in Runs, Recover(r) PROVE Fails(r)
  BY <1>2 DEF Recover, Fails
<1>3. ASSUME NEW w \in Workers, NEW r \in Runs, Claim(w, r) \/ Reclaim(w, r) PROVE Quiet
  BY <1>3 DEF Claim, Reclaim
<1>4. ASSUME NEW w \in Workers, NEW r \in Runs, GiveUp(w, r) PROVE Quiet \/ Fails(r)
  BY <1>4 DEF GiveUp, Fails
<1>5. ASSUME NEW w \in Workers, Crash(w) PROVE Quiet
  BY <1>5 DEF Crash
<1>6. ASSUME NEW r \in Runs, NEW n \in Attempts, Renew(r, n) PROVE Quiet
  BY <1>6 DEF Renew
<1>7. ASSUME NEW r \in Runs, NEW n \in Attempts,
             Begin(r, n) \/ Check(r, n) \/ TakeDate(r, n) \/ AssertLease(r, n) \/ Rollback(r, n)
      PROVE  Quiet
  BY <1>7 DEF Begin, Check, TakeDate, AssertLease, Rollback, OnlyGoto
<1>8. ASSUME NEW r \in Runs, NEW n \in Attempts, FailRun(r, n) PROVE Quiet \/ Fails(r)
  BY <1>8 DEF FailRun, Fails, OnlyGoto
<1>9. ASSUME NEW r \in Runs, NEW n \in Attempts, Finish(r, n) \/ RecordFailure(r, n) PROVE Quiet
  BY <1>9 DEF Finish, RecordFailure, OnlyGoto
<1>10. CASE UNCHANGED vars
  BY <1>10 DEF vars
<1> QED
  BY <1>1, <1>2, <1>3, <1>4, <1>5, <1>6, <1>7, <1>8, <1>9, <1>10 DEF Next, Step

\* A change of program counter keeps the type and every other execution.
LEMMA GotoEffect ==
  ASSUME TypeOK, NEW r \in Runs, NEW n \in Attempts, NEW pc \in PCs, Goto(r, n, pc)
  PROVE  /\ exec' \in [Runs -> [Attempts -> Execution]]
         /\ exec'[r][n].pc = pc
         /\ \A q \in Runs, m \in Attempts :
              /\ exec'[q][m].worker = exec[q][m].worker
              /\ ~(q = r /\ m = n) => exec'[q][m] = exec[q][m]
<1> DEFINE e == [exec[r][n] EXCEPT !.pc = pc]
<1>1. exec \in [Runs -> [Attempts -> Execution]]
  BY DEF TypeOK
<1>2. exec' = [exec EXCEPT ![r] = [exec[r] EXCEPT ![n] = e]]
  BY <1>1 DEF Goto
<1>3. exec[r][n] \in Execution
  BY <1>1
<1>4. e \in Execution /\ e.pc = pc /\ e.worker = exec[r][n].worker
  BY <1>3 DEF Execution, PCs
<1> HIDE DEF e
<1> QED
  BY <1>1, <1>2, <1>4

\* A crash only ends executions.
LEMMA CrashEffect ==
  ASSUME TypeOK, NEW w \in Workers, Crash(w)
  PROVE  /\ exec' \in [Runs -> [Attempts -> Execution]]
         /\ \A q \in Runs, m \in Attempts :
              /\ exec'[q][m].worker = exec[q][m].worker
              /\ \/ exec'[q][m] = exec[q][m]
                 \/ exec'[q][m].pc = "ended" /\ exec[q][m].pc # "idle"
<1>1. ASSUME NEW q \in Runs, NEW m \in Attempts
      PROVE  /\ exec'[q][m] = IF exec[q][m].worker = w /\ exec[q][m].pc \in Live
                                THEN [exec[q][m] EXCEPT !.pc = "ended"] ELSE exec[q][m]
             /\ exec[q][m] \in Execution
  BY DEF Crash, TypeOK
<1>2. ASSUME NEW e \in Execution
      PROVE  /\ [e EXCEPT !.pc = "ended"] \in Execution
             /\ [e EXCEPT !.pc = "ended"].pc = "ended"
             /\ [e EXCEPT !.pc = "ended"].worker = e.worker
  BY DEF Execution
<1>3. ASSUME NEW q \in Runs, NEW m \in Attempts
      PROVE  /\ exec'[q][m] \in Execution
             /\ exec'[q][m].worker = exec[q][m].worker
             /\ \/ exec'[q][m] = exec[q][m]
                \/ exec'[q][m].pc = "ended" /\ exec[q][m].pc # "idle"
  <2> DEFINE e == [exec[q][m] EXCEPT !.pc = "ended"]
  <2>1. exec[q][m] \in Execution
    BY <1>1
  <2>2. e \in Execution /\ e.pc = "ended" /\ e.worker = exec[q][m].worker
    BY <2>1, <1>2
  <2>3. exec'[q][m] = IF exec[q][m].worker = w /\ exec[q][m].pc \in Live
                        THEN e ELSE exec[q][m]
    BY <1>1
  <2> HIDE DEF e
  <2>4. exec[q][m].pc \in Live => exec[q][m].pc # "idle"
    BY DEF Live, Locking
  <2> QED
    BY <2>1, <2>2, <2>3, <2>4
<1>4. exec' \in [Runs -> [Attempts -> Execution]]
  BY <1>3 DEF Crash
<1> QED
  BY <1>3, <1>4

----------------------------------------------------------------------------
(* The parts that quiet steps leave alone.                                  *)

LEMMA CalendarStep ==
  ASSUME AuditInv, [Next]_vars
  PROVE  Calendar'
<1>0. /\ today \in Dates /\ LastDate \in Nat /\ Dates \subseteq Nat
      /\ status \in [Dates -> {"none", "OPEN", "IN_AUDIT", "CLOSED"}]
      /\ Calendar
  BY LastDateAssumption DEF AuditInv, Typed, TypeOK, Dates
<1>1. ASSUME UNCHANGED <<today, status>> PROVE Calendar'
  BY <1>0, <1>1 DEF Calendar
<1>2. ASSUME NEW r \in Runs, Start(r) PROVE Calendar'
  BY <1>0, <1>2 DEF Calendar, Start
<1>3. ASSUME NEW r \in Runs, Fails(r) PROVE Calendar'
  BY <1>0, <1>3 DEF Calendar, Fails, FailedRun
<1>4. ASSUME NEW r \in Runs, NEW n \in Attempts, CommitNight(r, n) PROVE Calendar'
  <2>1. status[today] = "IN_AUDIT" /\ today < LastDate /\ today + 1 \in Dates
    BY <1>0, <1>4 DEF AuditInv, Commits, CommitNight, Locking, InAudit, Calendar, Dates
  <2>2. /\ today' = today + 1
        /\ status' = [status EXCEPT ![today] = "CLOSED", ![today + 1] = "OPEN"]
    BY <1>4 DEF CommitNight
  <2> QED
    BY <1>0, <2>1, <2>2 DEF Calendar
<1> QED
  BY <1>1, <1>2, <1>3, <1>4, Effects
     DEF Quiet, NextDay, PostBegin, PostEnd, Ask, RunAges, day

LEMMA OneRunStep ==
  ASSUME AuditInv, [Next]_vars
  PROVE  OneRun'
<1>0. /\ today \in Dates /\ Dates \subseteq Nat /\ OneRun
      /\ status \in [Dates -> {"none", "OPEN", "IN_AUDIT", "CLOSED"}]
      /\ run \in [Runs -> [date : {0} \cup Dates, stale : BOOLEAN,
                           status : {"none", "RUNNING", "COMPLETED", "FAILED"}]]
  BY LastDateAssumption DEF AuditInv, Typed, TypeOK, Dates
<1>1. ASSUME UNCHANGED <<today, status, run>> PROVE OneRun'
  BY <1>0, <1>1 DEF OneRun
<1>2. ASSUME NEW r \in Runs, Start(r) PROVE OneRun'
  BY <1>0, <1>2 DEF OneRun, Start
<1>3. ASSUME NEW r \in Runs, RunAges(r) PROVE OneRun'
  <2>1. \A q \in Runs : run'[q].status = run[q].status /\ run'[q].date = run[q].date
    BY <1>0, <1>3 DEF RunAges
  <2> QED
    BY <1>0, <1>3, <2>1 DEF OneRun, RunAges, day
<1>4. ASSUME NEW r \in Runs, Fails(r) PROVE OneRun'
  <2>1. run[r].status = "RUNNING" /\ run[r].date = today /\ status[today] = "IN_AUDIT"
    BY <1>0, <1>4 DEF Fails, Unfinished, OneRun
  <2>2. status' = [status EXCEPT ![today] = "OPEN"] /\ today' = today
    BY <1>4, <2>1 DEF Fails, FailedRun
  <2>3. \A q \in Runs : run'[q].status = (IF q = r THEN "FAILED" ELSE run[q].status)
    BY <1>0, <1>4 DEF Fails, FailedRun
  <2> QED
    BY <1>0, <2>1, <2>2, <2>3 DEF OneRun
<1>5. ASSUME NEW r \in Runs, NEW n \in Attempts, CommitNight(r, n) PROVE OneRun'
  <2>1. run[r].status = "RUNNING" /\ status[today] = "IN_AUDIT"
    BY <1>5 DEF AuditInv, Commits, CommitNight, Locking, InAudit
  <2>2. today + 1 \in Dates
    BY <1>0, <2>1, LastDateAssumption DEF AuditInv, Calendar, Dates
  <2>3. \A q \in Runs : run'[q].status = (IF q = r THEN "COMPLETED" ELSE run[q].status)
    BY <1>0, <1>5 DEF CommitNight
  <2>4. today' = today + 1 /\ status'[today'] = "OPEN"
    BY <1>0, <1>5, <2>2 DEF CommitNight
  <2> QED
    BY <1>0, <2>1, <2>3, <2>4 DEF OneRun
<1> QED
  BY <1>1, <1>2, <1>3, <1>4, <1>5, Effects
     DEF Quiet, NextDay, PostBegin, PostEnd, Ask, day

LEMMA PostingsStep ==
  ASSUME AuditInv, [Next]_vars
  PROVE  Postings'
<1>0. /\ Postings /\ posting \in [Clerks -> {0} \cup Dates]
      /\ today \in Dates /\ status \in [Dates -> {"none", "OPEN", "IN_AUDIT", "CLOSED"}]
  BY DEF AuditInv, Typed, TypeOK
<1>1. ASSUME UNCHANGED <<today, status, posting>> PROVE Postings'
  BY <1>0, <1>1 DEF Postings
<1>2. ASSUME NEW c \in Clerks, PostBegin(c) \/ PostEnd(c) PROVE Postings'
  BY <1>0, <1>2 DEF Postings, PostBegin, PostEnd, OpenForPosting, day
<1>3. ASSUME NEW r \in Runs, Start(r) \/ Fails(r) PROVE Postings'
  BY <1>0, <1>3 DEF Postings, Start, Fails, DateFree
<1>4. ASSUME NEW r \in Runs, NEW n \in Attempts, CommitNight(r, n) PROVE Postings'
  BY <1>0, <1>4 DEF Postings, AuditInv, Commits, CommitNight, Locking, InAudit
<1> QED
  BY <1>1, <1>2, <1>3, <1>4, Effects DEF Quiet, NextDay, Ask, RunAges, day

\* Ledger: only a commit settles a date, and postings land on the current one.
LEMMA LedgerStep ==
  ASSUME AuditInv, [Next]_vars
  PROVE  Ledger'
<1>0. /\ today \in Dates /\ Dates \subseteq Nat /\ Ledger /\ Runs \cap Clerks = {}
      /\ run \in [Runs -> [date : {0} \cup Dates, stale : BOOLEAN,
                           status : {"none", "RUNNING", "COMPLETED", "FAILED"}]]
      /\ lines \in [Dates -> SUBSET (Clerks \cup Runs)]
      /\ stats \in [Dates -> SUBSET (Clerks \cup Runs)]
      /\ posting \in [Clerks -> {0} \cup Dates]
  BY ActorsAssumption DEF AuditInv, Typed, TypeOK, Dates
\* Runs that keep being completed or not, on the same date, keep the ledger.
<1>1. ASSUME UNCHANGED <<today, lines, stats>>,
             \A q \in Runs : /\ run'[q].status = "COMPLETED" <=> run[q].status = "COMPLETED"
                             /\ run[q].status = "COMPLETED" => run'[q].date = run[q].date
      PROVE  Ledger'
  BY <1>0, <1>1 DEF Ledger
<1>2. ASSUME NEW c \in Clerks, PostEnd(c) PROVE Ledger'
  <2>1. posting[c] = today /\ c \notin Runs
    BY <1>0, <1>2 DEF AuditInv, Postings, PostEnd
  <2>2. \/ lines' = lines
        \/ lines' = [lines EXCEPT ![today] = @ \cup {c}]
    BY <1>2, <2>1 DEF PostEnd
  <2>3. /\ \A d \in Dates : d # today => lines'[d] = lines[d]
        /\ \A r \in Runs, d \in Dates : r \in lines'[d] <=> r \in lines[d]
    BY <1>0, <2>1, <2>2
  <2>4. UNCHANGED <<today, run, stats>>
    BY <1>2 DEF PostEnd
  <2> QED
    BY <1>0, <2>3, <2>4 DEF Ledger
<1>3. ASSUME NEW r \in Runs, Start(r) PROVE Ledger'
  BY <1>0, <1>1, <1>3 DEF Start
<1>4. ASSUME NEW r \in Runs, RunAges(r) PROVE Ledger'
  BY <1>0, <1>1, <1>4 DEF RunAges, day
<1>5. ASSUME NEW r \in Runs, Fails(r) PROVE Ledger'
  BY <1>0, <1>1, <1>5 DEF Fails, FailedRun, Unfinished
<1>6. ASSUME NEW r \in Runs, NEW n \in Attempts, CommitNight(r, n) PROVE Ledger'
  <2>1. run[r].status = "RUNNING" /\ run[r].date = today /\ today + 1 \in Dates
    BY <1>0, <1>6, LastDateAssumption
       DEF AuditInv, Commits, CommitNight, Locking, InAudit, Calendar, Dates
  <2>2. /\ today' = today + 1
        /\ lines' = [lines EXCEPT ![today] = lines[today] \cup {r}]
        /\ stats' = [stats EXCEPT ![today] = lines[today] \cup {r}]
    BY <1>0, <1>6 DEF CommitNight
  <2>3. \A q \in Runs : /\ run'[q].status = (IF q = r THEN "COMPLETED" ELSE run[q].status)
                        /\ run'[q].date = run[q].date
    BY <1>0, <1>6 DEF CommitNight
  <2>4. \A d \in Dates : /\ lines'[d] = IF d = today THEN lines[d] \cup {r} ELSE lines[d]
                         /\ stats'[d] = IF d = today THEN lines'[d] ELSE stats[d]
    BY <1>0, <2>2
  <2>5. ASSUME NEW q \in Runs, NEW d \in Dates
        PROVE  q \in lines'[d] <=> run'[q].status = "COMPLETED" /\ run'[q].date = d
    <3>1. q \in lines[d] <=> run[q].status = "COMPLETED" /\ run[q].date = d
      BY <1>0 DEF Ledger
    <3>2. lines'[d] = IF d = today THEN lines[d] \cup {r} ELSE lines[d]
      BY <2>4
    <3>3. CASE q = r
      BY <2>1, <2>3, <3>1, <3>2, <3>3
    <3>4. CASE q # r
      BY <2>3, <3>1, <3>2, <3>4
    <3> QED
      BY <3>3, <3>4
  <2>6. ASSUME NEW q \in Runs, run'[q].status = "COMPLETED" PROVE run'[q].date < today'
    <3>0. /\ run[q].date \in {0} \cup Dates
          /\ Dates \subseteq Nat
          /\ today \in Dates
          /\ run'[q].date = run[q].date
      BY <1>0, <2>3
    <3>z. 0 \in Nat
      OBVIOUS
    <3>a. run[q].date \in Nat
      BY <3>0, <3>z, Zenon
    <3>b. today \in Nat
      BY <3>0
    <3>1. run[q].date \in Nat /\ today \in Nat /\ run'[q].date = run[q].date
      BY <3>0, <3>a, <3>b
    <3>2. q # r => run[q].date < today
      BY <1>0, <2>3, <2>6 DEF Ledger
    <3>3. run[q].date <= today
      BY <2>1, <3>1, <3>2
    <3> QED
      BY <2>2, <3>1, <3>3
  <2>7. \A p, q \in Runs :
          run'[p].status = "COMPLETED" /\ run'[q].status = "COMPLETED"
            /\ run'[p].date = run'[q].date => p = q
    BY <1>0, <2>1, <2>3 DEF Ledger
  <2>8. \A d \in Dates : d < today' =>
          /\ stats'[d] = lines'[d]
          /\ \E q \in Runs : run'[q].status = "COMPLETED" /\ run'[q].date = d
    BY <1>0, <2>1, <2>2, <2>3, <2>4 DEF Ledger
  <2> QED
    BY <2>5, <2>6, <2>7, <2>8 DEF Ledger
<1>7. ASSUME UNCHANGED <<today, lines, stats, run>> PROVE Ledger'
  BY <1>1, <1>7
<1> QED
  BY <1>2, <1>3, <1>4, <1>5, <1>6, <1>7, Effects
     DEF Quiet, NextDay, PostBegin, Ask, day

\* Chosen: a run keeps the date of its request, and closes none ahead of the
\* calendar, which only advances.
LEMMA ChosenStep ==
  ASSUME AuditInv, [Next]_vars
  PROVE  Chosen'
<1>0. /\ today \in Dates /\ localDate \in Dates /\ Dates \subseteq Nat /\ Chosen
      /\ status \in [Dates -> {"none", "OPEN", "IN_AUDIT", "CLOSED"}]
      /\ asked \in [Runs -> {0} \cup Dates]
      /\ run \in [Runs -> [date : {0} \cup Dates, stale : BOOLEAN,
                           status : {"none", "RUNNING", "COMPLETED", "FAILED"}]]
  BY DEF AuditInv, Typed, TypeOK, Dates
<1>1. ASSUME UNCHANGED <<today, localDate, status, asked>>,
             \A q \in Runs : /\ run'[q].status = "none" <=> run[q].status = "none"
                             /\ run'[q].date = run[q].date
      PROVE  Chosen'
  BY <1>0, <1>1 DEF Chosen
<1>2. ASSUME UNCHANGED <<today, localDate, status, asked, run>> PROVE Chosen'
  BY <1>1, <1>2
<1>3. ASSUME NextDay PROVE Chosen'
  BY <1>0, <1>3 DEF Chosen, NextDay, day
<1>4. ASSUME NEW r \in Runs, Ask(r) PROVE Chosen'
  BY <1>0, <1>4 DEF Chosen, Ask, day
<1>5. ASSUME NEW r \in Runs, Start(r) PROVE Chosen'
  <2>1. \A q \in Runs : q # r => run'[q] = run[q]
    BY <1>0, <1>5 DEF Start
  <2>2. run'[r].date = today /\ asked[r] = today /\ today # 0
    BY <1>0, <1>5 DEF Start, ChosenDate
  <2>3. UNCHANGED <<today, localDate, asked>> /\ today <= localDate
    BY <1>5 DEF Start, Closable
  <2> QED
    BY <1>0, <2>1, <2>2, <2>3 DEF Chosen
<1>6. ASSUME NEW r \in Runs, RunAges(r) PROVE Chosen'
  BY <1>0, <1>1, <1>6 DEF RunAges, day
<1>7. ASSUME NEW r \in Runs, Fails(r) PROVE Chosen'
  <2>1. run[r].status = "RUNNING" /\ UNCHANGED <<today, localDate, asked>>
    BY <1>7 DEF Fails, Unfinished
  <2>2. \A q \in Runs : /\ run'[q].status = "none" <=> run[q].status = "none"
                        /\ run'[q].date = run[q].date
    BY <1>0, <1>7, <2>1 DEF Fails, FailedRun
  <2>3. status'[today] = "IN_AUDIT" => status[today] = "IN_AUDIT"
    BY <1>0, <1>7 DEF Fails, FailedRun
  <2> QED
    BY <1>0, <2>1, <2>2, <2>3 DEF Chosen
<1>8. ASSUME NEW r \in Runs, NEW n \in Attempts, CommitNight(r, n) PROVE Chosen'
  <2>1. run[r].status = "RUNNING" /\ status[today] = "IN_AUDIT" /\ today + 1 \in Dates
    BY <1>0, <1>8, LastDateAssumption
       DEF AuditInv, Commits, CommitNight, Locking, InAudit, Calendar, Dates
  <2>2. today' = today + 1 /\ UNCHANGED <<localDate, asked>> /\ status'[today'] = "OPEN"
    BY <1>0, <1>8, <2>1 DEF CommitNight
  <2>3. \A q \in Runs : /\ run'[q].status = "none" <=> run[q].status = "none"
                        /\ run'[q].date = run[q].date
    BY <1>0, <1>8, <2>1 DEF CommitNight
  <2> QED
    BY <1>0, <2>1, <2>2, <2>3 DEF Chosen
<1> QED
  BY <1>2, <1>3, <1>4, <1>5, <1>6, <1>7, <1>8, Effects
     DEF Quiet, PostBegin, PostEnd, day

----------------------------------------------------------------------------
(* The parts that depend on the executions.                                 *)

\* OnlyGoto moves one execution and nothing else.
LEMMA OnlyGotoEffect ==
  ASSUME TypeOK, NEW r \in Runs, NEW n \in Attempts, NEW from, NEW pcs \in SUBSET PCs,
         OnlyGoto(r, n, from, pcs)
  PROVE  /\ exec[r][n].pc = from
         /\ exec' \in [Runs -> [Attempts -> Execution]]
         /\ exec'[r][n].pc \in pcs
         /\ \A q \in Runs, m \in Attempts :
              /\ exec'[q][m].worker = exec[q][m].worker
              /\ ~(q = r /\ m = n) => exec'[q][m] = exec[q][m]
         /\ Quiet /\ UNCHANGED <<job, giveUp>>
<1>1. PICK pc \in pcs : Goto(r, n, pc)
  BY DEF OnlyGoto
<1>2. pc \in PCs
  OBVIOUS
<1>3. exec[r][n].pc = from /\ Quiet /\ UNCHANGED <<job, giveUp>>
  BY DEF OnlyGoto, Quiet, day
<1> QED
  BY <1>1, <1>2, <1>3, GotoEffect

\* Where the execution steps that only move an execution take it from and to.
LEMMA Moves ==
  ASSUME NEW r \in Runs, NEW n \in Attempts
  PROVE  /\ Begin(r, n) => \/ /\ OnlyGoto(r, n, "running", {"returned"})
                              /\ run[r].status # "RUNNING"
                           \/ OnlyGoto(r, n, "running", {"checks", "failing"})
                           \/ OnlyGoto(r, n, "running", {"threw"})
         /\ Check(r, n) => OnlyGoto(r, n, "checks", {"commit", "failing", "threw"})
         /\ Rollback(r, n) =>
              \E from \in {"commit"} \cup Locking : OnlyGoto(r, n, from, {"failing", "threw"})
         /\ FailRun(r, n) =>
              \/ /\ exec[r][n].pc = "failing" /\ DateFree /\ Unfinished(r) /\ HeldBy(r, n)
                 /\ FailedRun(r)
                 /\ \E pc \in {"returned", "threw"} : Goto(r, n, pc)
                 /\ UNCHANGED <<today, lines, stats, localDate, asked, job, giveUp, posting>>
              \/ /\ OnlyGoto(r, n, "failing", {"returned"})
                 /\ run[r].status # "RUNNING"
              \/ OnlyGoto(r, n, "failing", {"ended"})
              \/ OnlyGoto(r, n, "failing", {"threw"})
         /\ Finish(r, n) =>
              \/ /\ exec[r][n].pc = "returned" /\ JobFree(r)
                 /\ job' = IF HeldBy(r, n) THEN [job EXCEPT ![r] = CompletedRow(@)] ELSE job
                 /\ Goto(r, n, "ended")
                 /\ Quiet /\ UNCHANGED giveUp
              \/ OnlyGoto(r, n, "returned", {"threw"})
         /\ RecordFailure(r, n) =>
              \/ /\ JobFree(r) /\ HeldBy(r, n)
                 /\ job' = [job EXCEPT ![r] = FailedRow(@, n < MaxAttempts)]
                 /\ giveUp' = IF n < MaxAttempts THEN giveUp
                                                 ELSE giveUp \cup {<<exec[r][n].worker, r>>}
                 /\ exec[r][n].pc = "threw" /\ Goto(r, n, "ended")
                 /\ Quiet
              \/ OnlyGoto(r, n, "threw", {"ended"})
<1>1. Begin(r, n) => \/ /\ OnlyGoto(r, n, "running", {"returned"})
                        /\ run[r].status # "RUNNING"
                     \/ OnlyGoto(r, n, "running", {"checks", "failing"})
                     \/ OnlyGoto(r, n, "running", {"threw"})
  BY DEF Begin
<1>2. FailRun(r, n) =>
              \/ /\ exec[r][n].pc = "failing" /\ DateFree /\ Unfinished(r) /\ HeldBy(r, n)
                 /\ FailedRun(r)
                 /\ \E pc \in {"returned", "threw"} : Goto(r, n, pc)
                 /\ UNCHANGED <<today, lines, stats, localDate, asked, job, giveUp, posting>>
              \/ /\ OnlyGoto(r, n, "failing", {"returned"})
                 /\ run[r].status # "RUNNING"
              \/ OnlyGoto(r, n, "failing", {"ended"})
              \/ OnlyGoto(r, n, "failing", {"threw"})
  <2>1. CASE Unfinished(r)
    BY <2>1 DEF FailRun
  <2>2. CASE ~Unfinished(r)
    BY <2>2 DEF FailRun, Unfinished
  <2> QED
    BY <2>1, <2>2
<1>3. Check(r, n) => OnlyGoto(r, n, "checks", {"commit", "failing", "threw"})
  BY DEF Check
<1>4. Rollback(r, n) =>
        \E from \in {"commit"} \cup Locking : OnlyGoto(r, n, from, {"failing", "threw"})
  BY DEF Rollback
<1>5. Finish(r, n) =>
        \/ /\ exec[r][n].pc = "returned" /\ JobFree(r)
           /\ job' = IF HeldBy(r, n) THEN [job EXCEPT ![r] = CompletedRow(@)] ELSE job
           /\ Goto(r, n, "ended")
           /\ Quiet /\ UNCHANGED giveUp
        \/ OnlyGoto(r, n, "returned", {"threw"})
  BY DEF Finish, Quiet, day
<1>6. RecordFailure(r, n) =>
        \/ /\ JobFree(r) /\ HeldBy(r, n)
           /\ job' = [job EXCEPT ![r] = FailedRow(@, n < MaxAttempts)]
           /\ giveUp' = IF n < MaxAttempts THEN giveUp
                                           ELSE giveUp \cup {<<exec[r][n].worker, r>>}
           /\ exec[r][n].pc = "threw" /\ Goto(r, n, "ended")
           /\ Quiet
        \/ OnlyGoto(r, n, "threw", {"ended"})
  BY DEF RecordFailure, Quiet, day
<1> QED
  BY <1>1, <1>2, <1>3, <1>4, <1>5, <1>6

\* A statement that writes a good row of one job keeps every row good.
LEMMA RowWrite ==
  ASSUME Typed, NEW r \in Runs, NEW row, GoodRow(row), job' = [job EXCEPT ![r] = row]
  PROVE  job' \in [Runs -> Row] /\ Rows'
  BY DEF Typed, TypeOK, Rows, GoodRow

\* The steps that write no run, no date and no ledger keep their types.
LEMMA QuietTyped ==
  ASSUME Typed, Quiet, job' \in [Runs -> Row], Rows',
         exec' \in [Runs -> [Attempts -> Execution]], giveUp' \subseteq Workers \X Runs
  PROVE  Typed'
  BY DEF Typed, TypeOK, Quiet

\* What a failure leaves of the day is well typed.
LEMMA FailsTyped ==
  ASSUME Typed, NEW r \in Runs, Fails(r), job' \in [Runs -> Row], Rows',
         exec' \in [Runs -> [Attempts -> Execution]], giveUp' \subseteq Workers \X Runs
  PROVE  Typed'
<1>1. run' \in [Runs -> [date : {0} \cup Dates, stale : BOOLEAN,
                        status : {"none", "RUNNING", "COMPLETED", "FAILED"}]]
  <2>1. run \in [Runs -> [date : {0} \cup Dates, stale : BOOLEAN,
                        status : {"none", "RUNNING", "COMPLETED", "FAILED"}]]
    BY DEF Typed, TypeOK
  <2> QED
    BY <2>1 DEF Fails, FailedRun
<1>2. status' \in [Dates -> {"none", "OPEN", "IN_AUDIT", "CLOSED"}]
  BY DEF Typed, TypeOK, Fails, FailedRun
<1> QED
  BY <1>1, <1>2 DEF Typed, TypeOK, Fails

LEMMA TypedInit == Init => Typed
<1>1. 1 \in Dates /\ 0 \in 0..MaxAttempts
  BY LastDateAssumption, MaxAttemptsAssumption DEF Dates
<1> QED
  BY <1>1, NewRows DEF Init, Typed, TypeOK, Rows, GoodRow, Execution

LEMMA TypedStep ==
  ASSUME AuditInv, [Next]_vars
  PROVE  Typed'
<1>0. Typed /\ TypeOK /\ Rows
  BY DEF AuditInv, Typed
<1>a. /\ job \in [Runs -> Row] /\ exec \in [Runs -> [Attempts -> Execution]]
      /\ giveUp \subseteq Workers \X Runs
      /\ run \in [Runs -> [date : {0} \cup Dates, stale : BOOLEAN,
                           status : {"none", "RUNNING", "COMPLETED", "FAILED"}]]
  BY <1>0 DEF TypeOK
<1>b. PCs = {"idle", "ended", "running", "checks", "commit", "failing", "returned", "threw",
             "dated", "working"}
  BY DEF PCs, Live, Locking
\* One execution moves and nothing else happens.
<1>c. ASSUME NEW r \in Runs, NEW n \in Attempts, NEW from, NEW pcs \in SUBSET PCs,
             OnlyGoto(r, n, from, pcs)
      PROVE  Typed'
  <2>1. exec' \in [Runs -> [Attempts -> Execution]] /\ Quiet /\ UNCHANGED <<job, giveUp>>
    BY <1>0, <1>c, OnlyGotoEffect
  <2> QED
    BY <1>0, <1>a, <2>1, QuietTyped DEF Rows
<1>1. ASSUME NextDay PROVE Typed'
  BY <1>0, <1>1, LastDateAssumption DEF NextDay, day, Typed, TypeOK, Rows, Dates
<1>2. ASSUME NEW c \in Clerks, PostBegin(c) PROVE Typed'
  BY <1>0, <1>2 DEF PostBegin, day, Typed, TypeOK, Rows
<1>3. ASSUME NEW c \in Clerks, PostEnd(c) PROVE Typed'
  <2>1. posting[c] \in Dates /\ posting' \in [Clerks -> {0} \cup Dates]
    BY <1>0, <1>3 DEF PostEnd, TypeOK
  <2>2. lines' \in [Dates -> SUBSET (Clerks \cup Runs)]
    BY <1>0, <1>3, <2>1 DEF PostEnd, TypeOK
  <2> QED
    BY <1>0, <1>3, <2>1, <2>2 DEF PostEnd, Typed, TypeOK, Rows
<1>4. ASSUME NEW r \in Runs, Ask(r) PROVE Typed'
  BY <1>0, <1>4 DEF Ask, day, Typed, TypeOK, Rows
<1>5. ASSUME NEW r \in Runs, Start(r) PROVE Typed'
  <2>1. job' \in [Runs -> Row] /\ Rows'
    BY <1>0, <1>5, NewRows, RowWrite DEF Start
  <2> QED
    BY <1>0, <1>5, <2>1 DEF Start, Typed, TypeOK
<1>6. ASSUME NEW r \in Runs, Recover(r) PROVE Typed'
  <2>1. Fails(r) /\ UNCHANGED <<exec, giveUp>>
    BY <1>6 DEF Recover, Fails
  <2>2. job' = job \/ job' = [job EXCEPT ![r] = CancelledRow(job[r])]
    BY <1>6 DEF Recover
  <2>3. job' \in [Runs -> Row] /\ Rows'
    BY <1>0, <1>a, <2>2, ReleasedGood, RowWrite DEF Rows
  <2> QED
    BY <1>0, <1>a, <2>1, <2>3, FailsTyped
<1>7. ASSUME NEW r \in Runs, RunAges(r) PROVE Typed'
  <2>1. run' \in [Runs -> [date : {0} \cup Dates, stale : BOOLEAN,
                          status : {"none", "RUNNING", "COMPLETED", "FAILED"}]]
    BY <1>a, <1>7 DEF RunAges
  <2> QED
    BY <1>0, <1>7, <2>1 DEF RunAges, day, Typed, TypeOK, Rows
<1>8. ASSUME NEW r \in Runs, BecomesDue(r) PROVE Typed'
  <2>1. job' = [job EXCEPT ![r] = [job[r] EXCEPT !.due = TRUE]]
    BY <1>a, <1>8 DEF BecomesDue
  <2>2. job' \in [Runs -> Row] /\ Rows'
    BY <1>0, <2>1, TimedGood, RowWrite DEF Rows
  <2> QED
    BY <1>0, <1>a, <1>8, <2>2, QuietTyped DEF BecomesDue, Quiet, day
<1>9. ASSUME NEW r \in Runs, LeaseExpires(r) PROVE Typed'
  <2>1. job' = [job EXCEPT ![r] = [job[r] EXCEPT !.lease = "expired"]]
    BY <1>a, <1>9 DEF LeaseExpires
  <2>2. GoodRow([job[r] EXCEPT !.lease = "expired"])
    BY <1>0, <1>9, TimedGood DEF LeaseExpires, Rows
  <2>3. job' \in [Runs -> Row] /\ Rows'
    BY <1>0, <2>1, <2>2, RowWrite
  <2> QED
    BY <1>0, <1>a, <1>9, <2>3, QuietTyped DEF LeaseExpires, Quiet, day
<1>10. ASSUME NEW w \in Workers, NEW r \in Runs, Claim(w, r) PROVE Typed'
  <2>1. GoodRow(ClaimedRow(job[r], w)) /\ job[r].attempts + 1 \in Attempts
    BY <1>0, <1>10, ClaimedGood DEF Claim, Rows
  <2>2. job' \in [Runs -> Row] /\ Rows'
    BY <1>0, <1>10, <2>1, RowWrite DEF Claim
  <2>3. [worker |-> w, pc |-> "running"] \in Execution
    BY DEF Execution, Live
  <2>4. exec' \in [Runs -> [Attempts -> Execution]]
    BY <1>a, <1>10, <2>1, <2>3 DEF Claim
  <2>5. giveUp' \subseteq Workers \X Runs /\ Quiet
    BY <1>a, <1>10 DEF Claim, Quiet, day
  <2> QED
    BY <1>0, <2>2, <2>4, <2>5, QuietTyped
<1>11. ASSUME NEW w \in Workers, NEW r \in Runs, Reclaim(w, r) PROVE Typed'
  <2>1. job' \in [Runs -> Row] /\ Rows'
    BY <1>0, <1>11, ReclaimedGood, RowWrite DEF Reclaim, Rows
  <2>2. giveUp' \subseteq Workers \X Runs /\ Quiet /\ exec' = exec
    BY <1>a, <1>11 DEF Reclaim, Quiet, day
  <2> QED
    BY <1>0, <1>a, <2>1, <2>2, QuietTyped
<1>12. ASSUME NEW w \in Workers, NEW r \in Runs, GiveUp(w, r) PROVE Typed'
  <2>1. Quiet \/ Fails(r)
    BY <1>12 DEF GiveUp, Quiet, Fails
  <2>2. UNCHANGED <<job, exec>> /\ giveUp' \subseteq Workers \X Runs
    BY <1>a, <1>12 DEF GiveUp
  <2> QED
    BY <1>0, <1>a, <2>1, <2>2, QuietTyped, FailsTyped DEF Rows
<1>13. ASSUME NEW w \in Workers, Crash(w) PROVE Typed'
  <2>1. exec' \in [Runs -> [Attempts -> Execution]]
    BY <1>0, <1>13, CrashEffect
  <2>2. giveUp' \subseteq Workers \X Runs /\ Quiet /\ job' = job
    BY <1>a, <1>13 DEF Crash, Quiet, day
  <2> QED
    BY <1>0, <1>a, <2>1, <2>2, QuietTyped DEF Rows
<1>14. ASSUME NEW r \in Runs, NEW n \in Attempts,
              Begin(r, n) \/ Check(r, n) \/ TakeDate(r, n) \/ AssertLease(r, n) \/ Rollback(r, n)
       PROVE  Typed'
  <2>1. CASE Begin(r, n) \/ Check(r, n) \/ Rollback(r, n)
    BY <1>b, <1>c, <2>1, Moves
  <2>2. CASE TakeDate(r, n)
    BY <1>b, <1>c, <2>2 DEF TakeDate
  <2>3. CASE AssertLease(r, n)
    BY <1>b, <1>c, <2>3 DEF AssertLease
  <2> QED
    BY <1>14, <2>1, <2>2, <2>3
<1>15. ASSUME NEW r \in Runs, NEW n \in Attempts, CommitNight(r, n) PROVE Typed'
  <2>1. status[today] = "IN_AUDIT" /\ today \in Dates /\ today + 1 \in Dates
    BY <1>0, <1>15, LastDateAssumption
       DEF AuditInv, Commits, CommitNight, Locking, InAudit, Calendar, Dates, TypeOK
  <2>2. job' \in [Runs -> Row] /\ Rows'
    BY <1>0, <1>15, ReleasedGood, RowWrite DEF CommitNight, CompleteIn, Rows
  <2>3. exec' \in [Runs -> [Attempts -> Execution]]
    BY <1>0, <1>b, <1>15, GotoEffect DEF CommitNight
  <2>4. run' \in [Runs -> [date : {0} \cup Dates, stale : BOOLEAN,
                          status : {"none", "RUNNING", "COMPLETED", "FAILED"}]]
    BY <1>a, <1>15 DEF CommitNight
  <2>5. /\ lines' \in [Dates -> SUBSET (Clerks \cup Runs)]
        /\ stats' \in [Dates -> SUBSET (Clerks \cup Runs)]
        /\ status' \in [Dates -> {"none", "OPEN", "IN_AUDIT", "CLOSED"}]
        /\ today' \in Dates
    BY <1>0, <1>15, <2>1 DEF CommitNight, TypeOK
  <2> QED
    BY <1>0, <1>15, <2>2, <2>3, <2>4, <2>5 DEF CommitNight, Typed, TypeOK
<1>16. ASSUME NEW r \in Runs, NEW n \in Attempts, FailRun(r, n) PROVE Typed'
  <2>1. CASE \E pc \in {"returned", "threw"} : Goto(r, n, pc) /\ Fails(r) /\ UNCHANGED <<job, giveUp>>
    <3>1. exec' \in [Runs -> [Attempts -> Execution]]
      BY <1>0, <1>b, <2>1, GotoEffect
    <3> QED
      BY <1>0, <1>a, <2>1, <3>1, FailsTyped DEF Rows
  <2>2. CASE \E pc \in {"returned", "threw", "ended"} : OnlyGoto(r, n, "failing", {pc})
    BY <1>b, <1>c, <2>2
  <2> QED
    BY <1>16, <2>1, <2>2, Moves DEF Fails
<1>17. ASSUME NEW r \in Runs, NEW n \in Attempts, Finish(r, n) PROVE Typed'
  <2>1. CASE OnlyGoto(r, n, "returned", {"threw"})
    BY <1>b, <1>c, <2>1
  <2>2. CASE ~OnlyGoto(r, n, "returned", {"threw"})
    <3>1. /\ job' = job \/ job' = [job EXCEPT ![r] = CompletedRow(job[r])]
          /\ Goto(r, n, "ended") /\ Quiet /\ giveUp' = giveUp
      BY <1>17, <2>2, Moves
    <3>2. job' \in [Runs -> Row] /\ Rows'
      BY <1>0, <1>a, <3>1, ReleasedGood, RowWrite DEF Rows
    <3>3. exec' \in [Runs -> [Attempts -> Execution]]
      BY <1>0, <1>b, <3>1, GotoEffect
    <3> QED
      BY <1>0, <1>a, <3>1, <3>2, <3>3, QuietTyped
  <2> QED
    BY <2>1, <2>2
<1>18. ASSUME NEW r \in Runs, NEW n \in Attempts, RecordFailure(r, n) PROVE Typed'
  <2>1. CASE OnlyGoto(r, n, "threw", {"ended"})
    BY <1>b, <1>c, <2>1
  <2>2. CASE ~OnlyGoto(r, n, "threw", {"ended"})
    <3> DEFINE retry == n < MaxAttempts
    <3>1. /\ HeldBy(r, n) /\ job' = [job EXCEPT ![r] = FailedRow(job[r], retry)]
          /\ giveUp' = giveUp \/ giveUp' = giveUp \cup {<<exec[r][n].worker, r>>}
          /\ Goto(r, n, "ended") /\ Quiet
      BY <1>18, <2>2, Moves
    <3>2. GoodRow(job[r]) /\ job[r].attempts = n /\ exec[r][n].worker = job[r].owner
          /\ job[r].owner \in Workers
      BY <1>0, <3>1 DEF Rows, HeldBy, Held, GoodRow, LeaseCheck, Row
    <3>3. retry \in BOOLEAN /\ (retry => job[r].attempts < MaxAttempts)
      BY <3>2
    <3>4. GoodRow(FailedRow(job[r], retry))
      BY <3>2, <3>3, FailedGood
    <3>5. job' \in [Runs -> Row] /\ Rows'
      BY <1>0, <3>1, <3>4, RowWrite
    <3>6. exec' \in [Runs -> [Attempts -> Execution]] /\ giveUp' \subseteq Workers \X Runs
      BY <1>0, <1>a, <1>b, <3>1, <3>2, GotoEffect
    <3> QED
      BY <1>0, <3>1, <3>5, <3>6, QuietTyped
  <2> QED
    BY <2>1, <2>2
<1>19. ASSUME NEW r \in Runs, NEW n \in Attempts, Renew(r, n) PROVE Typed'
  <2>1. GoodRow(RenewedRow(job[r]))
    BY <1>0, <1>19, TimedGood DEF Renew, Rows, HeldBy, Held
  <2>2. job' \in [Runs -> Row] /\ Rows'
    BY <1>0, <1>19, <2>1, RowWrite DEF Renew
  <2> QED
    BY <1>0, <1>a, <1>19, <2>2, QuietTyped DEF Renew, Quiet, day
<1>20. CASE UNCHANGED vars
  BY <1>0, <1>20 DEF vars, Typed, TypeOK, Rows
<1> QED
  BY <1>1, <1>2, <1>3, <1>4, <1>5, <1>6, <1>7, <1>8, <1>9, <1>10, <1>11, <1>12, <1>13,
     <1>14, <1>15, <1>16, <1>17, <1>18, <1>19, <1>20 DEF Next, Step

\* Commits: nobody enters Phase C beside another, and what its holder checked
\* cannot change before it ends.
LEMMA CommitsStep ==
  ASSUME AuditInv, [Next]_vars
  PROVE  Commits'
<1>0. Commits /\ TypeOK /\ Rows
  BY DEF AuditInv, Typed
<1>a. /\ job \in [Runs -> Row] /\ exec \in [Runs -> [Attempts -> Execution]]
      /\ run \in [Runs -> [date : {0} \cup Dates, stale : BOOLEAN,
                           status : {"none", "RUNNING", "COMPLETED", "FAILED"}]]
  BY <1>0 DEF TypeOK
<1>b. PCs = {"idle", "ended", "running", "checks", "commit", "failing", "returned", "threw",
             "dated", "working"}
  BY DEF PCs, Live, Locking
\* Nobody enters, the day stays, and the job of whoever is working keeps its fence.
<1>c. ASSUME UNCHANGED <<today, status>>,
             \A q \in Runs : run'[q].status = run[q].status /\ run'[q].date = run[q].date,
             \A q \in Runs, m \in Attempts :
               /\ exec'[q][m].pc \in Locking => exec'[q][m] = exec[q][m]
               /\ exec[q][m].pc = "working" => SameFence(job[q], job'[q])
      PROVE  Commits'
  BY <1>0, <1>c DEF Commits, InAudit, HeldBy, Held, SameFence, Locking
<1>d. ASSUME UNCHANGED <<today, status, run>>, UNCHANGED <<job, exec>> PROVE Commits'
  BY <1>0, <1>d DEF Commits, InAudit, HeldBy
<1>e. ASSUME \A q \in Runs, m \in Attempts : exec'[q][m].pc \notin Locking PROVE Commits'
  BY <1>e DEF Commits
\* An execution moves on outside Phase C, or leaves it.
<1>f. ASSUME NEW r \in Runs, NEW n \in Attempts, NEW from,
             NEW pcs \in SUBSET PCs, pcs \cap Locking = {}, OnlyGoto(r, n, from, pcs)
      PROVE  Commits'
  <2>1. /\ exec'[r][n].pc \notin Locking
        /\ \A q \in Runs, m \in Attempts : ~(q = r /\ m = n) => exec'[q][m] = exec[q][m]
        /\ UNCHANGED <<today, status, run, job>>
    BY <1>0, <1>f, OnlyGotoEffect DEF Quiet
  <2> QED
    BY <1>c, <2>1 DEF SameFence
\* A row is written that no execution is working on.
<1>g. ASSUME NEW r \in Runs, NEW row, JobFree(r), job' = [job EXCEPT ![r] = row], Quiet,
             \A q \in Runs, m \in Attempts : exec'[q][m].pc \in Locking => exec'[q][m] = exec[q][m]
      PROVE  Commits'
  <2>1. \A q \in Runs, m \in Attempts : exec[q][m].pc = "working" => SameFence(job[q], job'[q])
    BY <1>a, <1>g DEF JobFree, SameFence
  <2> QED
    BY <1>c, <1>g, <2>1 DEF Quiet
<1>1. ASSUME NextDay \/ (\E c \in Clerks : PostBegin(c) \/ PostEnd(c)) \/ \E r \in Runs : Ask(r)
      PROVE  Commits'
  BY <1>1, <1>d DEF NextDay, PostBegin, PostEnd, Ask, day
<1>2. ASSUME NEW r \in Runs, Start(r) \/ Recover(r) PROVE Commits'
  BY <1>2, <1>e DEF Start, Recover, DateFree, DateHeld
<1>3. ASSUME NEW r \in Runs, RunAges(r) PROVE Commits'
  <2>1. /\ \A q \in Runs : run'[q].status = run[q].status /\ run'[q].date = run[q].date
        /\ UNCHANGED <<today, status, exec, job>>
    BY <1>a, <1>3 DEF RunAges, day
  <2> QED
    BY <1>c, <2>1 DEF SameFence
<1>4. ASSUME NEW r \in Runs, BecomesDue(r) \/ LeaseExpires(r) PROVE Commits'
  <2>1. \/ job' = [job EXCEPT ![r] = [job[r] EXCEPT !.due = TRUE]]
        \/ job' = [job EXCEPT ![r] = [job[r] EXCEPT !.lease = "expired"]]
    BY <1>a, <1>4 DEF BecomesDue, LeaseExpires
  <2>2. \A q \in Runs : SameFence(job[q], job'[q])
    <3>1. SameFence(job[r], [job[r] EXCEPT !.due = TRUE])
          /\ SameFence(job[r], [job[r] EXCEPT !.lease = "expired"])
      BY <1>0, TimedGood DEF Rows
    <3> HIDE DEF SameFence
    <3>2. SameFence(job[r], job'[r])
      BY <1>a, <2>1, <3>1
    <3>3. \A q \in Runs : q # r => job'[q] = job[q]
      BY <1>a, <2>1
    <3> QED
      BY <3>2, <3>3 DEF SameFence
  <2>3. UNCHANGED <<today, status, run, exec>>
    BY <1>4 DEF BecomesDue, LeaseExpires, day
  <2> QED
    BY <1>c, <2>2, <2>3
<1>5. ASSUME NEW w \in Workers, NEW r \in Runs, Claim(w, r) PROVE Commits'
  <2>1. /\ JobFree(r) /\ job' = [job EXCEPT ![r] = ClaimedRow(job[r], w)] /\ Quiet
        /\ job[r].attempts + 1 \in Attempts
    BY <1>0, <1>5, ClaimedGood DEF Claim, Quiet, day, Rows
  <2>2. exec' = [exec EXCEPT ![r] = [exec[r] EXCEPT ![job[r].attempts + 1] =
                                      [worker |-> w, pc |-> "running"]]]
    BY <1>a, <1>5 DEF Claim
  <2>3. \A q \in Runs, m \in Attempts : exec'[q][m].pc \in Locking => exec'[q][m] = exec[q][m]
    BY <1>a, <2>1, <2>2 DEF Locking
  <2> QED
    BY <1>g, <2>1, <2>3
<1>6. ASSUME NEW w \in Workers, NEW r \in Runs, Reclaim(w, r) PROVE Commits'
  BY <1>6, <1>g DEF Reclaim, Quiet, day
<1>7. ASSUME NEW w \in Workers, NEW r \in Runs, GiveUp(w, r) PROVE Commits'
  BY <1>7, <1>d, <1>e DEF GiveUp, DateFree, DateHeld
<1>8. ASSUME NEW w \in Workers, Crash(w) PROVE Commits'
  <2>1. \A q \in Runs, m \in Attempts : exec'[q][m].pc \in Locking => exec'[q][m] = exec[q][m]
    BY <1>0, <1>8, CrashEffect DEF Locking
  <2> QED
    BY <1>c, <1>8, <2>1 DEF Crash, SameFence, day
<1>9. ASSUME NEW r \in Runs, NEW n \in Attempts, Renew(r, n) PROVE Commits'
  BY <1>9, <1>g DEF Renew, Quiet, day
<1>10. ASSUME NEW r \in Runs, NEW n \in Attempts, Begin(r, n) \/ Check(r, n) \/ Rollback(r, n)
       PROVE  Commits'
  <2>1. \E from, pcs : /\ pcs \in SUBSET PCs /\ pcs \cap Locking = {}
                       /\ OnlyGoto(r, n, from, pcs)
    BY <1>b, <1>10, Moves DEF Locking
  <2> QED
    BY <1>f, <2>1
<1>11. ASSUME NEW r \in Runs, NEW n \in Attempts, TakeDate(r, n) PROVE Commits'
  <2>1. CASE ~InAudit(r)
    BY <1>b, <1>11, <1>f, <2>1 DEF TakeDate, Locking
  <2>2. CASE InAudit(r)
    <3>1. OnlyGoto(r, n, "commit", {"dated"}) /\ DateFree
      BY <1>11, <2>2 DEF TakeDate
    <3>2. /\ exec'[r][n].pc = "dated"
          /\ \A q \in Runs, m \in Attempts : ~(q = r /\ m = n) => exec'[q][m] = exec[q][m]
          /\ UNCHANGED <<today, status, run, job>>
      BY <1>0, <1>b, <3>1, OnlyGotoEffect DEF Quiet
    <3> QED
      BY <2>2, <3>1, <3>2 DEF Commits, InAudit, DateFree, DateHeld
  <2> QED
    BY <2>1, <2>2
<1>12. ASSUME NEW r \in Runs, NEW n \in Attempts, AssertLease(r, n) PROVE Commits'
  <2>1. CASE ~HeldBy(r, n)
    BY <1>b, <1>12, <1>f, <2>1 DEF AssertLease, Locking
  <2>2. CASE HeldBy(r, n)
    <3>1. OnlyGoto(r, n, "dated", {"working"})
      BY <1>12, <2>2 DEF AssertLease
    <3>2. /\ exec[r][n].pc = "dated" /\ exec'[r][n].pc = "working"
          /\ \A q \in Runs, m \in Attempts :
               /\ exec'[q][m].worker = exec[q][m].worker
               /\ ~(q = r /\ m = n) => exec'[q][m] = exec[q][m]
          /\ UNCHANGED <<today, status, run, job>>
      BY <1>0, <1>b, <3>1, OnlyGotoEffect DEF Quiet
    <3> QED
      BY <1>0, <2>2, <3>2 DEF Commits, InAudit, HeldBy, Locking
  <2> QED
    BY <2>1, <2>2
<1>13. ASSUME NEW r \in Runs, NEW n \in Attempts, CommitNight(r, n) PROVE Commits'
  <2>1. PICK pc \in {"returned", "threw", "failing"} : Goto(r, n, pc)
    BY <1>13 DEF CommitNight
  <2>2. /\ exec'[r][n].pc = pc
        /\ \A q \in Runs, m \in Attempts : ~(q = r /\ m = n) => exec'[q][m] = exec[q][m]
    BY <1>0, <1>b, <2>1, GotoEffect
  <2>3. exec[r][n].pc = "working"
    BY <1>13 DEF CommitNight
  <2> QED
    BY <1>0, <1>e, <2>1, <2>2, <2>3 DEF Commits, Locking
<1>14. ASSUME NEW r \in Runs, NEW n \in Attempts, FailRun(r, n) PROVE Commits'
  <2>1. CASE \E pc \in {"returned", "threw"} : Goto(r, n, pc) /\ DateFree
    <3>1. PICK pc \in {"returned", "threw"} : Goto(r, n, pc) /\ DateFree
      BY <2>1
    <3>2. /\ exec'[r][n].pc = pc
          /\ \A q \in Runs, m \in Attempts : ~(q = r /\ m = n) => exec'[q][m] = exec[q][m]
      BY <1>0, <1>b, <3>1, GotoEffect
    <3> QED
      BY <1>e, <3>1, <3>2 DEF DateFree, DateHeld, Locking
  <2>2. CASE \E pc \in {"returned", "threw", "ended"} : OnlyGoto(r, n, "failing", {pc})
    BY <1>b, <1>f, <2>2 DEF Locking
  <2> QED
    BY <1>14, <2>1, <2>2, Moves
<1>15. ASSUME NEW r \in Runs, NEW n \in Attempts, Finish(r, n) \/ RecordFailure(r, n)
       PROVE  Commits'
  <2>1. CASE OnlyGoto(r, n, "returned", {"threw"}) \/ OnlyGoto(r, n, "threw", {"ended"})
    BY <1>b, <1>f, <2>1 DEF Locking
  <2>2. CASE ~(OnlyGoto(r, n, "returned", {"threw"}) \/ OnlyGoto(r, n, "threw", {"ended"}))
    <3>1. /\ JobFree(r) /\ Goto(r, n, "ended") /\ Quiet
          /\ job' = job \/ \E row : job' = [job EXCEPT ![r] = row]
      BY <1>15, <2>2, Moves
    <3>2. \A q \in Runs, m \in Attempts :
            exec'[q][m].pc \in Locking => exec'[q][m] = exec[q][m]
      BY <1>0, <1>b, <3>1, GotoEffect DEF Locking
    <3>3. CASE job' = job
      BY <1>c, <3>1, <3>2, <3>3 DEF Quiet, SameFence
    <3> QED
      BY <1>g, <3>1, <3>2, <3>3
  <2> QED
    BY <2>1, <2>2
<1>16. CASE UNCHANGED vars
  BY <1>16, <1>d DEF vars
<1> QED
  BY <1>1, <1>2, <1>3, <1>4, <1>5, <1>6, <1>7, <1>8, <1>9, <1>10, <1>11, <1>12, <1>13,
     <1>14, <1>15, <1>16 DEF Next, Step

\* JobsFollow: the job of a run is over when, and in the way, the run is.
LEMMA JobsFollowStep ==
  ASSUME AuditInv, [Next]_vars
  PROVE  JobsFollow'
<1>0. JobsFollow /\ TypeOK /\ Rows
  BY DEF AuditInv, Typed
<1>a. /\ job \in [Runs -> Row] /\ exec \in [Runs -> [Attempts -> Execution]]
      /\ run \in [Runs -> [date : {0} \cup Dates, stale : BOOLEAN,
                           status : {"none", "RUNNING", "COMPLETED", "FAILED"}]]
  BY <1>0 DEF TypeOK
<1>b. PCs = {"idle", "ended", "running", "checks", "commit", "failing", "returned", "threw",
             "dated", "working"}
  BY DEF PCs, Live, Locking
\* No status moves, and no execution starts or returns with its run open.
<1>c. ASSUME \A q \in Runs : run'[q].status = run[q].status /\ job'[q].status = job[q].status,
             \A q \in Runs, m \in Attempts :
               \/ exec'[q][m].pc = exec[q][m].pc
               \/ /\ exec[q][m].pc # "idle"
                  /\ exec'[q][m].pc = "returned" => run[q].status # "RUNNING"
      PROVE  JobsFollow'
  BY <1>0, <1>c DEF JobsFollow
\* One run or job moves, legally, and no execution starts or returns.
<1>d. ASSUME NEW r \in Runs,
             \A q \in Runs \ {r} : run'[q].status = run[q].status /\ job'[q].status = job[q].status,
             run'[r].status = "COMPLETED" => job'[r].status = "SUCCEEDED",
             job'[r].status = "SUCCEEDED" => run'[r].status # "RUNNING",
             job'[r].status = "CANCELLED" => run'[r].status = "FAILED",
             run'[r].status # "none",
             run'[r].status = "RUNNING" => run[r].status \in {"none", "RUNNING"},
             \A q \in Runs, m \in Attempts :
               \/ exec'[q][m].pc = exec[q][m].pc
               \/ /\ exec[q][m].pc # "idle"
                  /\ exec'[q][m].pc # "returned" \/ run'[q].status # "RUNNING"
               \/ q = r /\ exec'[q][m].pc # "returned"
      PROVE  JobsFollow'
  BY <1>0, <1>d DEF JobsFollow
<1>e. ASSUME NEW r \in Runs, NEW n \in Attempts, NEW from, NEW pcs \in SUBSET PCs,
             from # "idle", "returned" \in pcs => run[r].status # "RUNNING",
             OnlyGoto(r, n, from, pcs)
      PROVE  JobsFollow'
  <2>1. /\ exec[r][n].pc = from /\ exec'[r][n].pc \in pcs
        /\ \A q \in Runs, m \in Attempts : ~(q = r /\ m = n) => exec'[q][m] = exec[q][m]
        /\ UNCHANGED <<run, job>>
    BY <1>0, <1>e, OnlyGotoEffect DEF Quiet
  <2> QED
    BY <1>c, <1>e, <2>1
<1>1. ASSUME NextDay \/ (\E c \in Clerks : PostBegin(c) \/ PostEnd(c)) \/ \E r \in Runs : Ask(r)
      PROVE  JobsFollow'
  BY <1>1, <1>c DEF NextDay, PostBegin, PostEnd, Ask, day
<1>2. ASSUME NEW r \in Runs, Start(r) PROVE JobsFollow'
  <2>1. /\ run'[r].status = "RUNNING" /\ run[r].status = "none" /\ job'[r].status = "QUEUED"
        /\ \A q \in Runs \ {r} : run'[q] = run[q] /\ job'[q] = job[q]
        /\ exec' = exec
    BY <1>a, <1>2, NewRows DEF Start
  <2> QED
    BY <1>d, <2>1
<1>3. ASSUME NEW r \in Runs, Recover(r) PROVE JobsFollow'
  <2>1. /\ run'[r].status = "FAILED" /\ run[r].status = "RUNNING" /\ exec' = exec
        /\ \A q \in Runs \ {r} : run'[q] = run[q]
    BY <1>a, <1>3 DEF Recover, FailedRun, Unfinished
  <2>2. job' = job \/ job' = [job EXCEPT ![r] = CancelledRow(job[r])]
    BY <1>3 DEF Recover
  <2>3. job'[r].status \in {job[r].status, "CANCELLED"}
        /\ \A q \in Runs \ {r} : job'[q] = job[q]
    BY <1>0, <1>a, <2>2, ReleasedGood DEF Rows
  <2> QED
    BY <1>d, <2>1, <2>3
<1>4. ASSUME NEW r \in Runs, RunAges(r) PROVE JobsFollow'
  <2>1. \A q \in Runs : run'[q].status = run[q].status
    BY <1>a, <1>4 DEF RunAges
  <2>2. UNCHANGED <<job, exec>>
    BY <1>4 DEF RunAges
  <2> QED
    BY <1>c, <2>1, <2>2
<1>5. ASSUME NEW r \in Runs, BecomesDue(r) \/ LeaseExpires(r) \/ \E n \in Attempts : Renew(r, n)
      PROVE  JobsFollow'
  <2>1. \/ job' = [job EXCEPT ![r] = [job[r] EXCEPT !.due = TRUE]]
        \/ job' = [job EXCEPT ![r] = [job[r] EXCEPT !.lease = "expired"]]
        \/ job' = [job EXCEPT ![r] = [job[r] EXCEPT !.lease = "live"]]
    BY <1>a, <1>5 DEF BecomesDue, LeaseExpires, Renew, RenewedRow
  <2>2. \A q \in Runs : job'[q].status = job[q].status
    BY <1>a, <2>1 DEF Row
  <2>3. UNCHANGED <<run, exec>>
    BY <1>5 DEF BecomesDue, LeaseExpires, Renew, day
  <2> QED
    BY <1>c, <2>2, <2>3
<1>6. ASSUME NEW w \in Workers, NEW r \in Runs, Claim(w, r) PROVE JobsFollow'
  <2>1. /\ job[r].status = "QUEUED" /\ job'[r].status = "RUNNING" /\ run' = run
        /\ \A q \in Runs \ {r} : job'[q] = job[q]
    BY <1>0, <1>a, <1>6, ClaimedGood DEF Claim, Claimable, Rows
  <2>2. \A q \in Runs, m \in Attempts :
          exec'[q][m] = exec[q][m] \/ (q = r /\ exec'[q][m].pc = "running")
    BY <1>a, <1>6 DEF Claim
  <2>3. run[r].status \notin {"none", "COMPLETED"}
    BY <1>0, <2>1 DEF JobsFollow
  <2> QED
    BY <1>d, <2>1, <2>2, <2>3
<1>7. ASSUME NEW w \in Workers, NEW r \in Runs, Reclaim(w, r) PROVE JobsFollow'
  <2>1. /\ job[r].status = "RUNNING" /\ job'[r].status \in {"QUEUED", "FAILED"}
        /\ \A q \in Runs \ {r} : job'[q] = job[q]
        /\ run' = run /\ exec' = exec
    BY <1>0, <1>a, <1>7, ReclaimedGood DEF Reclaim, Reclaimable, Rows
  <2>2. run[r].status \notin {"none", "COMPLETED"}
    BY <1>0, <2>1 DEF JobsFollow
  <2> QED
    BY <1>d, <2>1, <2>2
<1>8. ASSUME NEW w \in Workers, NEW r \in Runs, GiveUp(w, r) PROVE JobsFollow'
  <2>1. UNCHANGED <<job, exec>>
    BY <1>8 DEF GiveUp
  <2>2. CASE run' = run
    BY <1>c, <2>1, <2>2
  <2>3. CASE run' # run
    <3>1. run' = [run EXCEPT ![r].status = "FAILED"] /\ run[r].status = "RUNNING"
      BY <1>8, <2>3 DEF GiveUp, FailedRun, Unfinished
    <3>2. run'[r].status = "FAILED" /\ \A q \in Runs \ {r} : run'[q] = run[q]
      BY <1>a, <3>1
    <3> QED
      BY <1>d, <2>1, <3>1, <3>2
  <2> QED
    BY <2>2, <2>3
<1>9. ASSUME NEW w \in Workers, Crash(w) PROVE JobsFollow'
  <2>1. \A q \in Runs, m \in Attempts :
          \/ exec'[q][m] = exec[q][m]
          \/ exec'[q][m].pc = "ended" /\ exec[q][m].pc # "idle"
    BY <1>0, <1>9, CrashEffect
  <2>2. UNCHANGED <<run, job>>
    BY <1>9 DEF Crash
  <2> QED
    BY <1>c, <2>1, <2>2
<1>10. ASSUME NEW r \in Runs, NEW n \in Attempts,
              Begin(r, n) \/ Check(r, n) \/ TakeDate(r, n) \/ AssertLease(r, n) \/ Rollback(r, n)
       PROVE  JobsFollow'
  <2>1. \E from, pcs : /\ pcs \in SUBSET PCs /\ from # "idle"
                       /\ "returned" \in pcs => run[r].status # "RUNNING"
                       /\ OnlyGoto(r, n, from, pcs)
    <3>1. CASE Begin(r, n) \/ Check(r, n) \/ Rollback(r, n)
      BY <1>b, <3>1, Moves DEF Locking
    <3>2. CASE TakeDate(r, n)
      BY <1>b, <3>2 DEF TakeDate
    <3>3. CASE AssertLease(r, n)
      BY <1>b, <3>3 DEF AssertLease
    <3> QED
      BY <1>10, <3>1, <3>2, <3>3
  <2> QED
    BY <1>e, <2>1
<1>11. ASSUME NEW r \in Runs, NEW n \in Attempts, CommitNight(r, n) PROVE JobsFollow'
  <2>1. PICK pc \in {"returned", "threw", "failing"} : Goto(r, n, pc)
    BY <1>11 DEF CommitNight
  <2>2. \A q \in Runs, m \in Attempts : ~(q = r /\ m = n) => exec'[q][m] = exec[q][m]
    BY <1>0, <1>b, <2>1, GotoEffect
  <2>3. exec[r][n].pc = "working"
    BY <1>11 DEF CommitNight
  <2>4. run'[r].status = "COMPLETED" /\ \A q \in Runs \ {r} : run'[q] = run[q]
    BY <1>a, <1>11 DEF CommitNight
  <2>5. job'[r].status = "SUCCEEDED" /\ \A q \in Runs \ {r} : job'[q] = job[q]
    BY <1>0, <1>a, <1>11, ReleasedGood DEF CommitNight, CompleteIn, Rows
  <2> QED
    BY <1>d, <2>2, <2>3, <2>4, <2>5
<1>12. ASSUME NEW r \in Runs, NEW n \in Attempts, FailRun(r, n) PROVE JobsFollow'
  <2>1. CASE \E pc \in {"returned", "threw"} : Goto(r, n, pc) /\ FailedRun(r) /\ Unfinished(r)
                                             /\ exec[r][n].pc = "failing" /\ job' = job
    <3>1. PICK pc \in {"returned", "threw"} : Goto(r, n, pc)
      BY <2>1
    <3>2. \A q \in Runs, m \in Attempts : ~(q = r /\ m = n) => exec'[q][m] = exec[q][m]
      BY <1>0, <1>b, <3>1, GotoEffect
    <3>3. /\ run'[r].status = "FAILED" /\ run[r].status = "RUNNING"
          /\ \A q \in Runs \ {r} : run'[q] = run[q]
      BY <1>a, <2>1 DEF FailedRun, Unfinished
    <3> QED
      BY <1>d, <2>1, <3>2, <3>3
  <2>2. CASE \/ OnlyGoto(r, n, "failing", {"returned"}) /\ run[r].status # "RUNNING"
             \/ OnlyGoto(r, n, "failing", {"ended"})
             \/ OnlyGoto(r, n, "failing", {"threw"})
    BY <1>b, <1>e, <2>2
  <2> QED
    BY <1>12, <2>1, <2>2, Moves
<1>13. ASSUME NEW r \in Runs, NEW n \in Attempts, Finish(r, n) PROVE JobsFollow'
  <2>1. CASE OnlyGoto(r, n, "returned", {"threw"})
    BY <1>b, <1>e, <2>1
  <2>2. CASE ~OnlyGoto(r, n, "returned", {"threw"})
    <3>1. /\ exec[r][n].pc = "returned" /\ Goto(r, n, "ended") /\ run' = run
          /\ job' = job \/ job' = [job EXCEPT ![r] = CompletedRow(job[r])]
      BY <1>13, <2>2, Moves DEF Quiet
    <3>2. run[r].status \notin {"none", "RUNNING"}
      BY <1>0, <3>1 DEF JobsFollow
    <3>3. exec'[r][n].pc = "ended" /\ \A q \in Runs, m \in Attempts :
            ~(q = r /\ m = n) => exec'[q][m] = exec[q][m]
      BY <1>0, <1>b, <3>1, GotoEffect
    <3>4. /\ job'[r].status \in {job[r].status, "SUCCEEDED"}
          /\ \A q \in Runs \ {r} : job'[q] = job[q]
      BY <1>0, <1>a, <3>1, ReleasedGood DEF Rows
    <3> QED
      BY <1>0, <1>d, <3>1, <3>2, <3>3, <3>4 DEF JobsFollow
  <2> QED
    BY <2>1, <2>2
<1>14. ASSUME NEW r \in Runs, NEW n \in Attempts, RecordFailure(r, n) PROVE JobsFollow'
  <2>1. CASE OnlyGoto(r, n, "threw", {"ended"})
    BY <1>b, <1>e, <2>1
  <2>2. CASE ~OnlyGoto(r, n, "threw", {"ended"})
    <3> DEFINE retry == n < MaxAttempts
    <3>1. /\ HeldBy(r, n) /\ job' = [job EXCEPT ![r] = FailedRow(job[r], retry)]
          /\ exec[r][n].pc = "threw" /\ Goto(r, n, "ended") /\ run' = run
      BY <1>14, <2>2, Moves DEF Quiet
    <3>2. job[r].status = "RUNNING" /\ job[r].attempts = n /\ GoodRow(job[r])
      BY <1>0, <3>1 DEF HeldBy, Held, Rows
    <3>3. retry \in BOOLEAN /\ (retry => job[r].attempts < MaxAttempts)
      BY <3>2
    <3>4. FailedRow(job[r], retry).status \in {"QUEUED", "FAILED"}
      BY <3>2, <3>3, FailedGood
    <3> HIDE DEF retry
    <3>5. job'[r].status \in {"QUEUED", "FAILED"} /\ \A q \in Runs \ {r} : job'[q] = job[q]
      BY <1>a, <3>1, <3>4
    <3>6. exec'[r][n].pc = "ended" /\ \A q \in Runs, m \in Attempts :
            ~(q = r /\ m = n) => exec'[q][m] = exec[q][m]
      BY <1>0, <1>b, <3>1, GotoEffect
    <3>7. run[r].status \notin {"none", "COMPLETED"}
      BY <1>0, <3>2 DEF JobsFollow
    <3> QED
      BY <1>d, <3>1, <3>5, <3>6, <3>7
  <2> QED
    BY <2>1, <2>2
<1>15. CASE UNCHANGED vars
  BY <1>15, <1>c DEF vars
<1> QED
  BY <1>1, <1>2, <1>3, <1>4, <1>5, <1>6, <1>7, <1>8, <1>9, <1>10, <1>11, <1>12, <1>13,
     <1>14, <1>15 DEF Next, Step

----------------------------------------------------------------------------
(* The theorems.                                                            *)

LEMMA AuditInit == Init => AuditInv
<1> SUFFICES ASSUME Init PROVE AuditInv
  OBVIOUS
<1>1. Typed
  BY TypedInit
<1>2. 1 \in Dates /\ Dates \subseteq Nat /\ 1 \in Nat /\ localDate \in Nat /\ 1 <= localDate
  BY LastDateAssumption DEF Dates, Init
<1>3. Calendar /\ OneRun /\ Postings /\ Commits
  BY <1>2, LastDateAssumption
     DEF Init, Calendar, OneRun, Postings, Commits, Locking, Dates
<1>4. Ledger /\ Chosen
  BY <1>2 DEF Init, Ledger, Chosen, Dates
<1>5. JobsFollow
  BY NewRows DEF Init, JobsFollow
<1> QED
  BY <1>1, <1>3, <1>4, <1>5 DEF AuditInv

\* The invariant the theorems below are read off: its parts hold together in
\* every reachable state.
THEOREM AuditInvariant == Spec => []AuditInv
<1>1. AuditInv /\ [Next]_vars => AuditInv'
  BY TypedStep, CalendarStep, OneRunStep, PostingsStep, CommitsStep, LedgerStep,
     JobsFollowStep, ChosenStep DEF AuditInv
<1> QED
  BY AuditInit, <1>1, PTL DEF Spec

\* Every reachable state of the night audit is well typed.
THEOREM AuditTypeCorrect == Spec => []TypeOK
<1>1. AuditInv => TypeOK
  BY DEF AuditInv, Typed
<1> QED
  BY <1>1, AuditInvariant, PTL

\* A closed date was closed by one run and its statistics stay those of its lines.
THEOREM ClosedFrozenHolds == Spec => []ClosedFrozen
<1>1. AuditInv => ClosedFrozen
  <2> SUFFICES ASSUME AuditInv PROVE ClosedFrozen
    OBVIOUS
  <2>1. Calendar /\ Ledger /\ today \in Nat /\ Dates \subseteq Nat
        /\ lines \in [Dates -> SUBSET (Clerks \cup Runs)]
    BY DEF AuditInv, Typed, TypeOK, Dates
  <2>2. ASSUME NEW d \in Dates, d < today
        PROVE  /\ status[d] = "CLOSED" /\ stats[d] = lines[d]
               /\ \E r \in Runs : Completed(d) = {r} /\ lines[d] \cap Runs = {r}
    <3>1. PICK r \in Runs : run[r].status = "COMPLETED" /\ run[r].date = d
      BY <2>1, <2>2 DEF Ledger
    <3>2. Completed(d) = {r}
      BY <2>1, <3>1 DEF Ledger, Completed
    <3>3. lines[d] \cap Runs = {r}
      BY <2>1, <3>1, <3>2 DEF Ledger, Completed
    <3> QED
      BY <2>1, <2>2, <3>2, <3>3 DEF Calendar, Ledger
  <2>3. ASSUME NEW d \in Dates, d >= today PROVE Completed(d) = {} /\ lines[d] \cap Runs = {}
    <3>1. \A r \in Runs : run[r].status = "COMPLETED" => run[r].date # d
      BY <2>1, <2>3 DEF Ledger
    <3> QED
      BY <2>1, <3>1 DEF Ledger, Completed
  <2> QED
    BY <2>2, <2>3 DEF ClosedFrozen
<1> QED
  BY <1>1, AuditInvariant, PTL

\* The date is in audit exactly while one run, for it, is running.
THEOREM AuditHeldHolds == Spec => []AuditHeld
<1>1. AuditInv => AuditHeld
  BY DEF AuditInv, OneRun, AuditHeld, Running
<1> QED
  BY <1>1, AuditInvariant, PTL

\* A run and its job agree on how they ended.
THEOREM JobAgreesHolds == Spec => []JobAgrees
<1>1. AuditInv => JobAgrees
  BY DEF AuditInv, JobsFollow, JobAgrees
<1> QED
  BY <1>1, AuditInvariant, PTL

\* Past the locks of Phase C, all that was checked still holds.
THEOREM CommitSafeHolds == Spec => []CommitSafe
<1>1. AuditInv => CommitSafe
  BY DEF AuditInv, Commits, Postings, InAudit, CommitSafe
<1> QED
  BY <1>1, AuditInvariant, PTL

\* A run closes the date its user chose, never one ahead of the calendar.
THEOREM ChosenDateOnlyHolds == Spec => []ChosenDateOnly
<1>1. AuditInv => ChosenDateOnly
  BY DEF AuditInv, Chosen, ChosenDateOnly
<1> QED
  BY <1>1, AuditInvariant, PTL

\* Every step of the night audit is a step of BusinessDay or invisible to it.
LEMMA DayStep == AuditInv /\ [Next]_vars => [Promise!Next]_(Promise!vars)
<1> SUFFICES ASSUME AuditInv, [Next]_vars PROVE [Promise!Next]_(Promise!vars)
  OBVIOUS
<1>1. ASSUME UNCHANGED <<today, status, lines, stats>> PROVE UNCHANGED Promise!vars
  BY <1>1 DEF Promise!vars
<1>2. ASSUME NEW c \in Clerks, PostEnd(c) PROVE Promise!Post(c) \/ UNCHANGED Promise!vars
  <2>1. posting[c] = today /\ status[today] = "OPEN"
    BY <1>2 DEF AuditInv, Postings, PostEnd
  <2>2. CASE lines' = lines
    BY <1>1, <1>2, <2>2 DEF PostEnd
  <2>3. CASE lines' # lines
    BY <1>2, <2>1, <2>3 DEF PostEnd, Promise!Post
  <2> QED
    BY <2>2, <2>3
<1>3. ASSUME NEW r \in Runs, Start(r) PROVE Promise!Begin
  BY <1>3 DEF Start, Promise!Begin
<1>4. ASSUME NEW r \in Runs, Fails(r) PROVE Promise!Abandon
  BY <1>4 DEF AuditInv, OneRun, Fails, Unfinished, FailedRun, Promise!Abandon
<1>5. ASSUME NEW r \in Runs, NEW n \in Attempts, CommitNight(r, n) PROVE Promise!Close(r)
  <2>1. InAudit(r)
    BY <1>5 DEF AuditInv, Commits, CommitNight, Locking
  <2>2. today < LastDate /\ \A d \in Dates : r \notin lines[d]
    BY <2>1 DEF AuditInv, Calendar, Ledger, InAudit
  <2> QED
    BY <1>5, <2>1, <2>2 DEF CommitNight, InAudit, Promise!Close, Promise!Dates, Dates
<1> QED
  BY <1>1, <1>2, <1>3, <1>4, <1>5, Effects
     DEF Quiet, NextDay, PostBegin, Ask, RunAges, day, Promise!Next

\* The night audit implements BusinessDay: the day is closed at once and for good,
\* or not at all, whatever the workers, users and clerks do.
THEOREM AuditImplementsBusinessDay == Spec => ImplementsBusinessDay
<1>1. Init => Promise!Init
  BY DEF Init, Promise!Init, Promise!Dates, Dates
<1> QED
  BY <1>1, DayStep, AuditInvariant, PTL DEF Spec, ImplementsBusinessDay, Promise!Spec

----------------------------------------------------------------------------
(* The administration of users.                                             *)

\* The administrators among some users, were some grants the rows.
AdminsOf(users, rows) ==
  {u \in users : u \in Supers \/ {Org} \X Administrative \subseteq PermissionsHeld(rows)[u]}

\* What is checked of caller c for change op of grant g holds.
Allowed(c, g, op) ==
  /\ userStatus[c] = "ACTIVE" /\ g.user # c /\ MayManage(c, g.scope)
  /\ op \in {"invite", "grant", "revoke"} => NoEscalation(c, g.role, g.scope)
  /\ op \in {"disable", "enable"} => g.scope = Org /\ Outranks(c, g.user)
  /\ op = "invite" => userStatus[g.user] = "ABSENT"
  /\ op = "enable" => userStatus[g.user] = "DISABLED"
  /\ op = "revoke" => AdminsOf(Active, grants \ {g}) # {}
  /\ op = "disable" => AdminsOf(Active \ {g.user}, grants) # {}

Changes == {"invite", "grant", "revoke", "disable", "enable", "reset"}

Sound(k) == req[k].op \in Changes /\ Allowed(req[k].caller, req[k].row, req[k].op)

OneChecked == \A k, l \in Requests : req[k].pc = "checked" /\ req[l].pc = "checked" => k = l

AdminInv ==
  /\ AdminTypeOK
  /\ OneChecked
  /\ \A k \in Requests : req[k].pc = "checked" => Sound(k)
  /\ AdminsOf(Active, grants) # {}

----------------------------------------------------------------------------
(* Lemmas about permissions                                                 *)

LEMMA HeldValue ==
  ASSUME NEW G, NEW u \in Users, NEW s \in Scopes, NEW p \in Permissions
  PROVE  <<s, p>> \in PermissionsHeld(G)[u]
           <=> \E g \in G : g.user = u /\ g.scope = s /\ p \in Permits[g.role]
BY DEF PermissionsHeld

LEMMA HeldOnly ==
  ASSUME NEW G, NEW u \in Users, NEW x \in PermissionsHeld(G)[u]
  PROVE  /\ x \in Scopes \X Permissions
         /\ \E g \in G : g.user = u /\ g.scope = x[1] /\ x[2] \in Permits[g.role]
BY DEF PermissionsHeld

LEMMA HeldType ==
  ASSUME NEW G
  PROVE  PermissionsHeld(G) \in [Users -> SUBSET (Scopes \X Permissions)]
BY DEF PermissionsHeld

\* More grants, more permissions.
LEMMA HeldGrows ==
  ASSUME NEW G, NEW H, G \subseteq H, NEW u \in Users
  PROVE  PermissionsHeld(G)[u] \subseteq PermissionsHeld(H)[u]
BY DEF PermissionsHeld

\* A grant and its lack differ in the permissions of its role, in its scope.
LEMMA HeldDifference ==
  ASSUME NEW G \in SUBSET Assignment, NEW g \in Assignment, NEW u \in Users
  PROVE  /\ u # g.user => PermissionsHeld(G \cup {g})[u] = PermissionsHeld(G)[u]
         /\ u # g.user => PermissionsHeld(G \ {g})[u] = PermissionsHeld(G)[u]
         /\ \A x \in PermissionsHeld(G \cup {g})[u] \ PermissionsHeld(G)[u] :
              x[1] = g.scope /\ x[2] \in Permits[g.role]
         /\ \A x \in PermissionsHeld(G)[u] \ PermissionsHeld(G \ {g})[u] :
              x[1] = g.scope /\ x[2] \in Permits[g.role]
BY DEF PermissionsHeld

\* What counts as held in a scope is held there or in the organization.
LEMMA InScopeHeld ==
  ASSUME AdminTypeOK, NEW c \in Users, NEW s \in Scopes,
         NEW p \in Permissions, p \in InScope(c, s)
  PROVE  Mandate!Holds(c, s, p)
<1>1. PICK g \in grants : g.user = c /\ g.scope \in {Org, s} /\ p \in Permits[g.role]
  BY DEF InScope, GrantsOf
<1>2. <<g.scope, p>> \in PermissionsHeld(grants)[c]
  BY <1>1, HeldValue DEF Scopes
<1> QED
  BY <1>1, <1>2 DEF Mandate!Holds

LEMMA ManageHeld ==
  ASSUME AdminTypeOK, NEW c \in Users, NEW s \in Scopes, MayManage(c, s)
  PROVE  Mandate!Holds(c, s, Manage)
BY InScopeHeld, PermitsAssumption DEF MayManage, Mandate!Holds

LEMMA RoleHeld ==
  ASSUME AdminTypeOK, NEW c \in Users, NEW s \in Scopes, NEW r \in Roles,
         NoEscalation(c, r, s), NEW p \in Permits[r]
  PROVE  Mandate!Holds(c, s, p)
BY InScopeHeld, PermitsAssumption DEF NoEscalation, Mandate!Holds

LEMMA OutranksHolds ==
  ASSUME AdminTypeOK, NEW c \in Users, NEW u \in Users, Outranks(c, u),
         userStatus[c] = "ACTIVE", u # c, MayManage(c, Org)
  PROVE  Mandate!Outranks(c, u)
<1>1. ASSUME NEW x \in PermissionsHeld(grants)[u] PROVE Mandate!Holds(c, x[1], x[2])
  <2>1. PICK g \in grants : g.user = u /\ g.scope = x[1] /\ x[2] \in Permits[g.role]
    BY HeldOnly
  <2>2. x[1] \in Scopes /\ x[2] \in Permissions
    BY HeldOnly
  <2>3. c \in Supers \/ x[2] \in InScope(c, x[1])
    BY <2>1 DEF Outranks, GrantsOf
  <2> QED
    BY <2>2, <2>3, InScopeHeld DEF Mandate!Holds
<1>2. Mandate!Holds(c, Org, Manage)
  BY ManageHeld DEF Scopes
<1> QED
  BY <1>1, <1>2 DEF Mandate!Outranks, Outranks, Active

----------------------------------------------------------------------------
(* Lemmas about administrators                                              *)

LEMMA AdminsGrow ==
  ASSUME NEW U \in SUBSET Users, NEW V \in SUBSET Users, NEW G, NEW H,
         U \subseteq V, G \subseteq H, AdminsOf(U, G) # {}
  PROVE  AdminsOf(V, H) # {}
BY HeldGrows DEF AdminsOf

LEMMA AtOrganization ==
  ASSUME NEW X, NEW A
  PROVE  {Org} \X A \subseteq X <=> \A p \in A : <<Org, p>> \in X
<1>1. ASSUME \A p \in A : <<Org, p>> \in X, NEW y \in {Org} \X A PROVE y \in X
  <2>1. y[2] \in A /\ y = <<Org, y[2]>>
    OBVIOUS
  <2> QED
    BY <1>1, <2>1
<1>2. ASSUME {Org} \X A \subseteq X, NEW p \in A PROVE <<Org, p>> \in X
  BY <1>2
<1> QED
  BY <1>1, <1>2

\* A grant in one property makes nobody an administrator.
LEMMA PropertyGrant ==
  ASSUME NEW U \in SUBSET Users, NEW G \in SUBSET Assignment, NEW g \in Assignment,
         g.scope # Org
  PROVE  AdminsOf(U, G \ {g}) = AdminsOf(U, G)
<1>1. ASSUME NEW u \in Users, NEW p \in Administrative
      PROVE  <<Org, p>> \in PermissionsHeld(G \ {g})[u] <=> <<Org, p>> \in PermissionsHeld(G)[u]
  BY HeldValue, PermitsAssumption DEF Scopes
<1>2. ASSUME NEW u \in U
      PROVE  {Org} \X Administrative \subseteq PermissionsHeld(G \ {g})[u]
               <=> {Org} \X Administrative \subseteq PermissionsHeld(G)[u]
  <2>1. {Org} \X Administrative \subseteq PermissionsHeld(G \ {g})[u]
          <=> \A p \in Administrative : <<Org, p>> \in PermissionsHeld(G \ {g})[u]
    BY AtOrganization, SMTT(30)
  <2>2. {Org} \X Administrative \subseteq PermissionsHeld(G)[u]
          <=> \A p \in Administrative : <<Org, p>> \in PermissionsHeld(G)[u]
    BY AtOrganization, SMTT(30)
  <2> QED
    BY <1>1, <2>1, <2>2
<1> QED
  BY <1>2 DEF AdminsOf

\* The count of the repository counts them.
LEMMA Counted ==
  ASSUME NEW U \in SUBSET Users, NEW G \in SUBSET Assignment
  PROVE  Administrators(U, G) = AdminsOf(Active \cap U, G)
<1>1. ASSUME NEW u \in Users
      PROVE  {Org} \X Administrative \subseteq PermissionsHeld(G)[u]
               <=> Administrative \subseteq
                     UNION {Permits[g.role] : g \in {h \in G : h.user = u /\ h.scope = Org}}
  <2>1. \A p \in Administrative :
          <<Org, p>> \in PermissionsHeld(G)[u]
            <=> p \in UNION {Permits[g.role] : g \in {h \in G : h.user = u /\ h.scope = Org}}
    BY HeldValue, PermitsAssumption DEF Scopes
  <2> DEFINE granted == UNION {Permits[g.role] : g \in {h \in G : h.user = u /\ h.scope = Org}}
  <2> HIDE DEF granted
  <2>2. (\A p \in Administrative : <<Org, p>> \in PermissionsHeld(G)[u]) <=> Administrative \subseteq granted
    BY <2>1 DEF granted
  <2>3. {Org} \X Administrative \subseteq PermissionsHeld(G)[u] <=> Administrative \subseteq granted
    BY <2>2, AtOrganization
  <2> QED
    BY <2>3 DEF granted
<1> QED
  BY <1>1 DEF Administrators, AdminsOf, Active

----------------------------------------------------------------------------
(* The invariant                                                            *)

LEMMA InvInit == AdminInit => AdminInv
<1> SUFFICES ASSUME AdminInit PROVE AdminInv
  OBVIOUS
<1>1. AdminTypeOK /\ \A k \in Requests : req[k].pc = "none"
  <2>1. NoRequest \in RequestRow /\ NoRequest.pc = "none"
    BY DEF NoRequest, RequestRow
  <2>2. grants \subseteq Assignment /\ link \subseteq Users
    BY UsersAssumption, PermitsAssumption DEF AdminInit, Assignment, Grant, Scopes
  <2>3. userStatus \in [Users -> {"ABSENT", "INVITED", "ACTIVE", "DISABLED"}]
    BY DEF AdminInit
  <2> QED
    BY <2>1, <2>2, <2>3 DEF AdminInit, AdminTypeOK
<1>2. Founder \in AdminsOf(Active, grants)
  <2>1. \A p \in Administrative : <<Org, p>> \in PermissionsHeld(grants)[Founder]
    BY HeldValue, UsersAssumption, PermitsAssumption DEF AdminInit, Grant, Scopes
  <2>2. {Org} \X Administrative \subseteq PermissionsHeld(grants)[Founder]
    BY <2>1, AtOrganization
  <2> QED
    BY <2>2, UsersAssumption DEF AdminsOf, Active, AdminInit
<1> QED
  BY <1>1, <1>2 DEF AdminInv, OneChecked

\* It holds on while users and grants stay the same.
LEMMA AllowedFrame ==
  ASSUME UNCHANGED <<userStatus, grants>>, NEW c, NEW g, NEW op, Allowed(c, g, op)
  PROVE  Allowed(c, g, op)'
<1>1. MayManage(c, g.scope)' <=> MayManage(c, g.scope)
  BY DEF MayManage, InScope, GrantsOf
<1>2. NoEscalation(c, g.role, g.scope)' <=> NoEscalation(c, g.role, g.scope)
  BY DEF NoEscalation, InScope, GrantsOf
<1>3. Outranks(c, g.user)' <=> Outranks(c, g.user)
  BY DEF Outranks, InScope, GrantsOf
<1>4. /\ AdminsOf(Active, grants \ {g})' = AdminsOf(Active, grants \ {g})
      /\ AdminsOf(Active \ {g.user}, grants)' = AdminsOf(Active \ {g.user}, grants)
  BY DEF AdminsOf, PermissionsHeld, Active
<1> QED
  BY <1>1, <1>2, <1>3, <1>4 DEF Allowed

\* The request that is checked now is the only one.
LEMMA CheckedStep ==
  ASSUME AdminInv, NEW k \in Requests, NEW op \in Changes,
         NEW u \in Users, NEW r \in Roles, NEW s \in Scopes, Checked(k, op, u, r, s),
         Allowed(req[k].caller, Grant(u, r, s), op)
  PROVE  AdminInv'
<1>a. PICK c : c = req[k].caller
  OBVIOUS
<1> DEFINE q == [req[k] EXCEPT !.pc = "checked", !.may = {}, !.op = op, !.row = Grant(u, r, s)]
<1>1. /\ req' = [req EXCEPT ![k] = q]
      /\ UNCHANGED <<userStatus, grants, link>>
      /\ \A l \in Requests : req[l].pc # "checked"
  BY DEF Checked, LockFree
<1>2. Grant(u, r, s) \in Assignment /\ req[k].pc = "asked"
  BY DEF Checked, Assignment, Grant
<1>3. /\ q \in RequestRow
      /\ q.pc = "checked" /\ q.caller = c /\ c \in Users /\ q.op = op /\ q.row = Grant(u, r, s)
  <2>1. req \in [Requests -> RequestRow] /\ (req[k].pc # "none" => req[k].caller \in Users)
    BY DEF AdminInv, AdminTypeOK
  <2>2. op \in {"none", "invite", "grant", "revoke", "disable", "enable", "reset"}
    BY DEF Changes
  <2> HIDE DEF Grant, Assignment, Scopes, Changes
  <2> QED
    BY <1>a, <1>2, <2>1, <2>2 DEF RequestRow
<1> HIDE DEF q
<1>4. req'[k] = q /\ \A l \in Requests : l # k => req'[l] = req[l]
  BY <1>1 DEF AdminInv, AdminTypeOK
<1>5. AdminTypeOK'
  BY <1>1, <1>2, <1>3, <1>4 DEF AdminInv, AdminTypeOK
<1>6. Sound(k)'
  <2>1. Allowed(c, Grant(u, r, s), op)'
    BY <1>1, <1>a, AllowedFrame
  <2> QED
    BY <1>3, <1>4, <2>1 DEF Sound
<1>7. AdminsOf(Active, grants)' # {}
  BY <1>1 DEF AdminInv, AdminsOf, Active, PermissionsHeld
<1> QED
  BY <1>1, <1>4, <1>5, <1>6, <1>7 DEF AdminInv, OneChecked

\* Requests that come or go, and links that expire.
LEMMA IdleStep ==
  ASSUME AdminInv, UNCHANGED <<userStatus, grants>>, link' \subseteq Users,
         req' \in [Requests -> RequestRow],
         \A l \in Requests :
           \/ req'[l] = req[l]
           \/ req'[l].pc # "checked" /\ (req'[l].pc # "none" => req'[l].caller \in Users)
  PROVE  AdminInv'
<1>1. AdminTypeOK'
  BY DEF AdminInv, AdminTypeOK
<1>2. ASSUME NEW l \in Requests, req'[l].pc = "checked" PROVE Sound(l)'
  <2>1. req'[l] = req[l] /\ Sound(l)
    BY <1>2 DEF AdminInv
  <2>2. PICK c, g, op : c = req[l].caller /\ g = req[l].row /\ op = req[l].op
    OBVIOUS
  <2>3. Allowed(c, g, op)'
    BY <2>1, <2>2, AllowedFrame DEF Sound
  <2> QED
    BY <2>1, <2>2, <2>3 DEF Sound
<1>3. OneChecked'
  BY DEF AdminInv, OneChecked
<1>4. AdminsOf(Active, grants)' # {}
  BY DEF AdminInv, AdminsOf, Active, PermissionsHeld
<1> QED
  BY <1>1, <1>2, <1>3, <1>4 DEF AdminInv

\* A link takes no permission away and no administrator.
LEMMA JoinStep ==
  ASSUME AdminInv, NEW u \in Users, CompletePasswordReset(u)
  PROVE  AdminInv'
<1>1. /\ userStatus' = [userStatus EXCEPT ![u] = "ACTIVE"] /\ userStatus[u] \in {"ACTIVE", "INVITED"}
      /\ UNCHANGED <<grants, req>> /\ link' \subseteq Users
  BY DEF CompletePasswordReset, AdminInv, AdminTypeOK
<1>2. AdminTypeOK'
  BY <1>1 DEF AdminInv, AdminTypeOK
<1>3. /\ \A v \in Users : userStatus[v] \in {"ACTIVE", "ABSENT", "DISABLED"} => userStatus'[v] = userStatus[v]
      /\ Active \subseteq Active' /\ Active' \in SUBSET Users
  BY <1>1 DEF AdminInv, AdminTypeOK, Active
<1>4. ASSUME NEW U \in SUBSET Users, NEW V \in SUBSET Users, U \subseteq V, NEW G, AdminsOf(U, G) # {}
      PROVE  AdminsOf(V, G) # {}
  BY <1>4, AdminsGrow
<1>5. ASSUME NEW l \in Requests, req'[l].pc = "checked" PROVE Sound(l)'
  <2>1. req[l].pc = "checked" /\ Sound(l) /\ req[l].row \in Assignment /\ req[l].caller \in Users
    BY <1>1, <1>5 DEF AdminInv, AdminTypeOK
  <2>2. PICK c, g, op : c = req[l].caller /\ g = req[l].row /\ op = req[l].op
    OBVIOUS
  <2>3. Allowed(c, g, op) /\ c \in Users /\ g.user \in Users
    BY <2>1, <2>2 DEF Sound, Assignment
  <2>4. userStatus'[c] = "ACTIVE"
    BY <1>3, <2>3 DEF Allowed
  <2>5. /\ MayManage(c, g.scope)' <=> MayManage(c, g.scope)
        /\ NoEscalation(c, g.role, g.scope)' <=> NoEscalation(c, g.role, g.scope)
        /\ Outranks(c, g.user)' <=> Outranks(c, g.user)
    BY <1>1 DEF MayManage, NoEscalation, Outranks, InScope, GrantsOf
  <2>6. op = "revoke" => AdminsOf(Active', grants' \ {g}) # {}
    BY <1>1, <1>3, <1>4, <2>3 DEF Allowed
  <2>7. op = "disable" => AdminsOf(Active' \ {g.user}, grants') # {}
    <3>1. Active \ {g.user} \subseteq Active' \ {g.user} /\ Active' \ {g.user} \in SUBSET Users
          /\ Active \ {g.user} \in SUBSET Users
      BY <1>3
    <3> QED
      BY <1>1, <1>4, <2>3, <3>1 DEF Allowed
  <2>8. /\ op = "invite" => userStatus'[g.user] = "ABSENT"
        /\ op = "enable" => userStatus'[g.user] = "DISABLED"
    BY <1>3, <2>3 DEF Allowed
  <2>9. Allowed(c, g, op)'
    BY <2>3, <2>4, <2>5, <2>6, <2>7, <2>8 DEF Allowed, AdminsOf, PermissionsHeld
  <2> QED
    BY <1>1, <2>1, <2>2, <2>9 DEF Sound
<1>6. AdminsOf(Active', grants') # {}
  BY <1>1, <1>3, <1>4 DEF AdminInv
<1> QED
  BY <1>1, <1>2, <1>5, <1>6 DEF AdminInv, OneChecked, AdminsOf, PermissionsHeld

\* What a commit writes, and what it may rely on.
LEMMA CommitFacts ==
  ASSUME AdminInv, NEW k \in Requests, CommitChange(k),
         NEW c, NEW g, NEW op, c = req[k].caller, g = req[k].row, op = req[k].op
  PROVE  /\ Allowed(c, g, op) /\ op \in Changes /\ c \in Users
         /\ g \in Assignment /\ g.user \in Users /\ g.role \in Roles /\ g.scope \in Scopes
         /\ op = "invite" => userStatus' = [userStatus EXCEPT ![g.user] = "INVITED"]
         /\ op = "disable" => userStatus' = [userStatus EXCEPT ![g.user] = "DISABLED"]
         /\ op = "enable" => userStatus' = [userStatus EXCEPT ![g.user] = "ACTIVE"]
         /\ op \in {"grant", "revoke", "reset"} => userStatus' = userStatus
         /\ op \in {"invite", "grant"} => grants' = grants \cup {g}
         /\ op = "revoke" => grants' = grants \ {g}
         /\ op \in {"disable", "enable", "reset"} => grants' = grants
         /\ link' = link \/ link' = link \cup {g.user}
         /\ req' = [req EXCEPT ![k] = NoRequest]
<1>1. Sound(k) /\ req[k].row \in Assignment /\ req[k].caller \in Users
  BY DEF CommitChange, AdminInv, AdminTypeOK
<1>2. Allowed(c, g, op) /\ op \in Changes /\ c \in Users /\ g \in Assignment
  BY <1>1 DEF Sound
<1>3. g.user \in Users /\ g.role \in Roles /\ g.scope \in Scopes
  BY <1>2 DEF Assignment
<1>4. /\ op = "invite" => userStatus' = [userStatus EXCEPT ![g.user] = "INVITED"]
      /\ op = "disable" => userStatus' = [userStatus EXCEPT ![g.user] = "DISABLED"]
      /\ op = "enable" => userStatus' = [userStatus EXCEPT ![g.user] = "ACTIVE"]
      /\ op \in {"grant", "revoke", "reset"} => userStatus' = userStatus
  BY DEF CommitChange
<1>5. /\ op \in {"invite", "grant"} => grants' = grants \cup {g}
      /\ op = "revoke" => grants' = grants \ {g}
      /\ op \in {"disable", "enable", "reset"} => grants' = grants
  BY DEF CommitChange
<1>6. (link' = link \/ link' = link \cup {g.user}) /\ req' = [req EXCEPT ![k] = NoRequest]
  BY DEF CommitChange
<1> QED
  BY <1>2, <1>3, <1>4, <1>5, <1>6

LEMMA CommitStep ==
  ASSUME AdminInv, NEW k \in Requests, CommitChange(k)
  PROVE  AdminInv'
<1>1. PICK c, g, op : c = req[k].caller /\ g = req[k].row /\ op = req[k].op
  OBVIOUS
<1>2. /\ Allowed(c, g, op) /\ op \in Changes /\ c \in Users
      /\ g \in Assignment /\ g.user \in Users /\ g.role \in Roles /\ g.scope \in Scopes
      /\ op = "invite" => userStatus' = [userStatus EXCEPT ![g.user] = "INVITED"]
      /\ op = "disable" => userStatus' = [userStatus EXCEPT ![g.user] = "DISABLED"]
      /\ op = "enable" => userStatus' = [userStatus EXCEPT ![g.user] = "ACTIVE"]
      /\ op \in {"grant", "revoke", "reset"} => userStatus' = userStatus
      /\ op \in {"invite", "grant"} => grants' = grants \cup {g}
      /\ op = "revoke" => grants' = grants \ {g}
      /\ op \in {"disable", "enable", "reset"} => grants' = grants
      /\ link' = link \/ link' = link \cup {g.user}
      /\ req' = [req EXCEPT ![k] = NoRequest]
  BY <1>1, CommitFacts
<1>3. /\ userStatus \in [Users -> {"ABSENT", "INVITED", "ACTIVE", "DISABLED"}]
      /\ grants \subseteq Assignment /\ link \subseteq Users /\ req \in [Requests -> RequestRow]
      /\ AdminsOf(Active, grants) # {}
      /\ \A l \in Requests : l # k => req[l].pc # "checked"
  BY DEF AdminInv, AdminTypeOK, OneChecked, CommitChange
<1>4. NoRequest \in RequestRow /\ NoRequest.pc = "none"
  BY DEF NoRequest, RequestRow
<1>5. /\ req' \in [Requests -> RequestRow] /\ req'[k].pc = "none"
      /\ \A l \in Requests : l # k => req'[l] = req[l]
  BY <1>2, <1>3, <1>4
<1>6. /\ userStatus' \in [Users -> {"ABSENT", "INVITED", "ACTIVE", "DISABLED"}]
      /\ grants' \subseteq Assignment /\ link' \subseteq Users
  BY <1>2, <1>3 DEF Changes
<1>7. AdminTypeOK'
  BY <1>5, <1>6 DEF AdminInv, AdminTypeOK
<1>8. Active \in SUBSET Users /\ Active' \in SUBSET Users
  BY DEF Active
<1>9. AdminsOf(Active', grants') # {}
  <2>1. CASE op \in {"invite", "grant", "enable", "reset"}
    <3>1. Active \subseteq Active'
      BY <1>2, <1>3, <2>1 DEF Active, Allowed
    <3>2. grants \subseteq grants'
      BY <1>2, <2>1
    <3> QED
      BY <1>3, <1>8, <3>1, <3>2, AdminsGrow
  <2>2. CASE op = "revoke"
    BY <1>2, <2>2 DEF Active, Allowed
  <2>3. CASE op = "disable"
    <3>1. Active \ {g.user} \subseteq Active' /\ Active \ {g.user} \in SUBSET Users
      BY <1>2, <1>3, <2>3 DEF Active
    <3> QED
      BY <1>2, <1>8, <2>3, <3>1, AdminsGrow DEF Allowed
  <2> QED
    BY <1>2, <2>1, <2>2, <2>3 DEF Changes
<1> QED
  BY <1>3, <1>5, <1>7, <1>9 DEF AdminInv, OneChecked, AdminsOf, PermissionsHeld

LEMMA InvStep == AdminInv /\ [AdminNext]_adminVars => AdminInv'
<1> SUFFICES ASSUME AdminInv, [AdminNext]_adminVars PROVE AdminInv'
  OBVIOUS
<1>a. /\ grants \in SUBSET Assignment /\ link \subseteq Users
      /\ req \in [Requests -> RequestRow]
      /\ \A k \in Requests : req[k].pc # "none" => req[k].caller \in Users
      /\ AdminsOf(Active, grants) # {}
      /\ Active \in SUBSET Users
  BY DEF AdminInv, AdminTypeOK, Active
<1>b. ASSUME NEW k \in Requests, NEW c, c = req[k].caller, NEW op, NEW u, NEW r, NEW s, Checked(k, op, u, r, s)
      PROVE  userStatus[c] = "ACTIVE" /\ MayManage(c, s)
  BY <1>b DEF Checked, Authorized
<1>1. ASSUME NEW k \in Requests, NEW c \in Users, Arrive(k, c) PROVE AdminInv'
  <2> DEFINE q == [req[k] EXCEPT !.pc = "asked", !.caller = c, !.may = {s \in Scopes : MayManage(c, s)}]
  <2>1. req' = [req EXCEPT ![k] = q] /\ UNCHANGED <<userStatus, grants, link>>
    BY <1>1 DEF Arrive
  <2>2. q \in RequestRow /\ q.pc = "asked" /\ q.caller \in Users
    <3> HIDE DEF Scopes, MayManage, Assignment
    <3> QED
      BY <1>a DEF RequestRow
  <2> HIDE DEF q
  <2> QED
    BY <1>a, <2>1, <2>2, IdleStep
<1>2. ASSUME NEW k \in Requests, NEW u \in Users, NEW r \in Roles, NEW s \in Scopes, InviteUser(k, u, r, s)
      PROVE  AdminInv'
  <2>1. PICK c : c = req[k].caller
    OBVIOUS
  <2>2. Checked(k, "invite", u, r, s) /\ NoEscalation(c, r, s) /\ userStatus[u] = "ABSENT"
    BY <1>2, <2>1 DEF InviteUser
  <2>3. Allowed(c, Grant(u, r, s), "invite")
    BY <1>b, <2>1, <2>2 DEF Allowed, Grant
  <2> QED
    BY <2>1, <2>2, <2>3, CheckedStep DEF Changes
<1>3. ASSUME NEW k \in Requests, NEW u \in Users, NEW r \in Roles, NEW s \in Scopes, GrantRole(k, u, r, s)
      PROVE  AdminInv'
  <2>1. PICK c : c = req[k].caller
    OBVIOUS
  <2>2. Checked(k, "grant", u, r, s) /\ NoEscalation(c, r, s) /\ u # c
    BY <1>3, <2>1 DEF GrantRole
  <2>3. Allowed(c, Grant(u, r, s), "grant")
    BY <1>b, <2>1, <2>2 DEF Allowed, Grant
  <2> QED
    BY <2>1, <2>2, <2>3, CheckedStep DEF Changes
<1>4. ASSUME NEW k \in Requests, NEW u \in Users, NEW r \in Roles, NEW s \in Scopes, RevokeRole(k, u, r, s)
      PROVE  AdminInv'
  <2>1. PICK c : c = req[k].caller
    OBVIOUS
  <2> DEFINE g == Grant(u, r, s)
  <2>2. /\ Checked(k, "revoke", u, r, s) /\ NoEscalation(c, r, s) /\ u # c /\ g \in grants
        /\ s = Org => KeepsAnAdministrator(Users, grants \ {g})
    BY <1>4, <2>1 DEF RevokeRole
  <2>3. g \in Assignment /\ g.scope = s /\ g.user = u /\ g.role = r
    BY DEF Grant, Assignment
  <2>4. AdminsOf(Active, grants \ {g}) # {}
    <3> HIDE DEF g
    <3>1. CASE s # Org
      BY <1>a, <2>3, <3>1, PropertyGrant
    <3>2. CASE s = Org
      <4>1. Administrators(Users, grants) = AdminsOf(Active, grants)
        BY <1>a, Counted DEF Active
      <4>2. Administrators(Users, grants \ {g}) = AdminsOf(Active, grants \ {g})
        <5>1. Active \cap Users = Active /\ grants \ {g} \in SUBSET Assignment /\ Users \in SUBSET Users
          BY <1>a
        <5> QED
          BY <5>1, Counted
      <4> QED
        BY <1>a, <2>2, <3>2, <4>1, <4>2 DEF KeepsAnAdministrator
    <3> QED
      BY <3>1, <3>2
  <2>5. Allowed(c, g, "revoke")
    <3> HIDE DEF g
    <3> QED
      BY <1>b, <2>1, <2>2, <2>3, <2>4 DEF Allowed
  <2> QED
    BY <2>1, <2>2, <2>5, CheckedStep DEF Changes
<1>5. ASSUME NEW k \in Requests, NEW u \in Users, DisableUser(k, u) PROVE AdminInv'
  <2>1. PICK c : c = req[k].caller
    OBVIOUS
  <2>2. /\ Checked(k, "disable", u, FirstRole, Org) /\ Outranks(c, u) /\ u # c
        /\ KeepsAnAdministrator(Users \ {u}, grants)
    BY <1>5, <2>1 DEF DisableUser
  <2>3. AdminsOf(Active \ {u}, grants) # {}
    <3>1. Administrators(Users, grants) = AdminsOf(Active, grants)
      BY <1>a, Counted DEF Active
    <3>2. Administrators(Users \ {u}, grants) = AdminsOf(Active \ {u}, grants)
      <4>1. Active \cap (Users \ {u}) = Active \ {u} /\ Users \ {u} \in SUBSET Users
        BY <1>a
      <4> QED
        BY <1>a, <4>1, Counted
    <3> QED
      BY <1>a, <2>2, <3>1, <3>2 DEF KeepsAnAdministrator
  <2>4. Allowed(c, Grant(u, FirstRole, Org), "disable")
    BY <1>b, <2>1, <2>2, <2>3 DEF Allowed, Grant
  <2> QED
    BY <2>1, <2>2, <2>4, CheckedStep, PermitsAssumption DEF Changes, Scopes
<1>6. ASSUME NEW k \in Requests, NEW u \in Users, EnableUser(k, u) PROVE AdminInv'
  <2>1. PICK c : c = req[k].caller
    OBVIOUS
  <2>2. Checked(k, "enable", u, FirstRole, Org) /\ Outranks(c, u) /\ u # c /\ userStatus[u] = "DISABLED"
    BY <1>6, <2>1 DEF EnableUser
  <2>3. Allowed(c, Grant(u, FirstRole, Org), "enable")
    BY <1>b, <2>1, <2>2 DEF Allowed, Grant
  <2> QED
    BY <2>1, <2>2, <2>3, CheckedStep, PermitsAssumption DEF Changes, Scopes
<1>7. ASSUME NEW k \in Requests, NEW u \in Users, IssuePasswordReset(k, u) PROVE AdminInv'
  <2>1. PICK c : c = req[k].caller
    OBVIOUS
  <2>2. Checked(k, "reset", u, FirstRole, Org) /\ u # c
    BY <1>7, <2>1 DEF IssuePasswordReset
  <2>3. Allowed(c, Grant(u, FirstRole, Org), "reset")
    BY <1>b, <2>1, <2>2 DEF Allowed, Grant
  <2> QED
    BY <2>1, <2>2, <2>3, CheckedStep, PermitsAssumption DEF Changes, Scopes
<1>8. ASSUME NEW k \in Requests, CommitChange(k) PROVE AdminInv'
  BY <1>8, CommitStep
<1>9. ASSUME NEW k \in Requests, Withdraw(k) PROVE AdminInv'
  <2>1. NoRequest \in RequestRow /\ NoRequest.pc = "none"
    BY DEF NoRequest, RequestRow
  <2> QED
    BY <1>9, <1>a, <2>1, IdleStep DEF Withdraw
<1>10. ASSUME NEW u \in Users, CompletePasswordReset(u) PROVE AdminInv'
  BY <1>10, JoinStep
<1>11. ASSUME NEW u \in Users, LinkExpires(u) PROVE AdminInv'
  BY <1>11, <1>a, IdleStep DEF LinkExpires
<1>12. CASE UNCHANGED adminVars
  BY <1>12, <1>a, IdleStep DEF adminVars
<1>13. \A o \in Offers : o[1] \in Roles /\ o[2] \in Scopes
  BY ScopesAssumption
<1> QED
  BY <1>1, <1>2, <1>3, <1>4, <1>5, <1>6, <1>7, <1>8, <1>9, <1>10, <1>11, <1>12, <1>13
     DEF AdminNext, Command

\* One request at a time is between its checks and its commit, what it was
\* allowed for still holds, and an active administrator remains.
THEOREM AdminInvariant == AdminSpec => []AdminInv
BY InvInit, InvStep, PTL DEF AdminSpec

----------------------------------------------------------------------------
(* The administration implements Authority.                                 *)

LEMMA MandateInit == AdminInit => Mandate!Init
<1> SUFFICES ASSUME AdminInit PROVE Mandate!Init
  OBVIOUS
<1>1. AdminsOf(Active, grants) # {}
  BY InvInit DEF AdminInv
<1>2. {u \in Users : userStatus[u] = "DISABLED"} = {} /\ Active \subseteq Users
  BY DEF AdminInit, Active
<1> QED
  BY <1>1, <1>2, HeldType DEF Mandate!Init, Mandate!Holdings, Mandate!Administrators, AdminsOf

\* A role granted or taken away in a scope.
LEMMA RegradeStep ==
  ASSUME AdminInv, NEW c \in Users, NEW g \in Assignment, MayManage(c, g.scope), NoEscalation(c, g.role, g.scope),
         userStatus[c] = "ACTIVE", g.user # c,
         grants' \in {grants \cup {g}, grants \ {g}},
         UNCHANGED <<Active, {u \in Users : userStatus[u] = "DISABLED"}>>
  PROVE  Mandate!Regrade(c, g.user, g.scope)
<1>1. /\ AdminTypeOK /\ grants \in SUBSET Assignment
      /\ g.user \in Users /\ g.role \in Roles /\ g.scope \in Scopes
  BY DEF AdminInv, AdminTypeOK, Assignment
<1>2. c \in Active /\ Mandate!Holds(c, g.scope, Manage)
  BY <1>1, ManageHeld DEF Active
<1>3. PermissionsHeld(grants)' \in Mandate!Holdings
  <2>1. PermissionsHeld(grants') \in Mandate!Holdings
    BY HeldType DEF Mandate!Holdings
  <2> QED
    BY <2>1 DEF PermissionsHeld
<1>4. \A x \in (PermissionsHeld(grants)[g.user] \ PermissionsHeld(grants')[g.user])
               \cup (PermissionsHeld(grants')[g.user] \ PermissionsHeld(grants)[g.user]) :
        x[1] = g.scope /\ x[2] \in Permits[g.role]
  BY <1>1, HeldDifference, HeldGrows
<1>5. \A p \in Permits[g.role] : Mandate!Holds(c, g.scope, p)
  BY <1>1, RoleHeld
<1>6. \A v \in Users \ {g.user} : PermissionsHeld(grants')[v] = PermissionsHeld(grants)[v]
  BY <1>1, HeldDifference
<1> QED
  BY <1>2, <1>3, <1>4, <1>5, <1>6 DEF Mandate!Regrade, PermissionsHeld

LEMMA MandateCommit ==
  ASSUME AdminInv, NEW k \in Requests, CommitChange(k)
  PROVE  \/ \E c, u \in Users, s \in Scopes : Mandate!Regrade(c, u, s)
         \/ \E c, u \in Users : Mandate!SwitchOff(c, u) \/ Mandate!SwitchOn(c, u)
         \/ UNCHANGED Mandate!vars
<1>1. PICK c, g, op : c = req[k].caller /\ g = req[k].row /\ op = req[k].op
  OBVIOUS
<1>2. /\ Allowed(c, g, op) /\ op \in Changes /\ c \in Users
      /\ g \in Assignment /\ g.user \in Users /\ g.role \in Roles /\ g.scope \in Scopes
      /\ op = "invite" => userStatus' = [userStatus EXCEPT ![g.user] = "INVITED"]
      /\ op = "disable" => userStatus' = [userStatus EXCEPT ![g.user] = "DISABLED"]
      /\ op = "enable" => userStatus' = [userStatus EXCEPT ![g.user] = "ACTIVE"]
      /\ op \in {"grant", "revoke", "reset"} => userStatus' = userStatus
      /\ op \in {"invite", "grant"} => grants' = grants \cup {g}
      /\ op = "revoke" => grants' = grants \ {g}
      /\ op \in {"disable", "enable", "reset"} => grants' = grants
  BY <1>1, CommitFacts
<1>3. AdminTypeOK /\ userStatus \in [Users -> {"ABSENT", "INVITED", "ACTIVE", "DISABLED"}]
  BY DEF AdminInv, AdminTypeOK
<1>4. CASE op \in {"invite", "grant", "revoke"}
  <2>1. UNCHANGED <<Active, {u \in Users : userStatus[u] = "DISABLED"}>>
    BY <1>2, <1>3, <1>4 DEF Active, Allowed
  <2>2. grants' \in {grants \cup {g}, grants \ {g}}
    BY <1>2, <1>4
  <2>3. Mandate!Regrade(c, g.user, g.scope)
    BY <1>2, <1>4, <2>1, <2>2, RegradeStep DEF Allowed
  <2> QED
    BY <1>2, <2>3
<1>5. CASE op \in {"disable", "enable"}
  <2>1. Mandate!Outranks(c, g.user)
    BY <1>2, <1>3, <1>5, OutranksHolds DEF Allowed
  <2>2. PermissionsHeld(grants)' = PermissionsHeld(grants)
    BY <1>2, <1>5 DEF PermissionsHeld
  <2>3. CASE op = "disable"
    <3>1. /\ Active' = Active \ {g.user}
          /\ {u \in Users : userStatus[u] = "DISABLED"}'
               = {u \in Users : userStatus[u] = "DISABLED"} \cup {g.user}
      BY <1>2, <1>3, <2>3 DEF Active
    <3> QED
      BY <1>2, <2>1, <2>2, <3>1 DEF Mandate!SwitchOff
  <2>4. CASE op = "enable"
    <3>1. /\ Active' = Active \cup {g.user}
          /\ {u \in Users : userStatus[u] = "DISABLED"}'
               = {u \in Users : userStatus[u] = "DISABLED"} \ {g.user}
          /\ g.user \in {u \in Users : userStatus[u] = "DISABLED"}
      BY <1>2, <1>3, <2>4 DEF Active, Allowed
    <3> QED
      BY <1>2, <2>1, <2>2, <3>1 DEF Mandate!SwitchOn
  <2> QED
    BY <1>5, <2>3, <2>4
<1>6. CASE op = "reset"
  BY <1>2, <1>6 DEF Mandate!vars, Active, PermissionsHeld
<1> QED
  BY <1>2, <1>4, <1>5, <1>6 DEF Changes

LEMMA MandateStep == AdminInv /\ AdminInv' /\ [AdminNext]_adminVars => [Mandate!Next]_(Mandate!vars)
<1> SUFFICES ASSUME AdminInv, AdminInv', [AdminNext]_adminVars PROVE [Mandate!Next]_(Mandate!vars)
  OBVIOUS
<1>a. Mandate!Administrators' # {}
  BY DEF AdminInv, Mandate!Administrators, AdminsOf, PermissionsHeld
<1>b. UNCHANGED <<userStatus, grants>> => UNCHANGED Mandate!vars
  BY DEF Mandate!vars, Active, PermissionsHeld
<1>1. ASSUME NEW k \in Requests, CommitChange(k) PROVE [Mandate!Next]_(Mandate!vars)
  BY <1>1, <1>a, MandateCommit DEF Mandate!Next
<1>2. ASSUME NEW u \in Users, CompletePasswordReset(u) PROVE [Mandate!Next]_(Mandate!vars)
  <2>1. /\ userStatus' = [userStatus EXCEPT ![u] = "ACTIVE"] /\ userStatus[u] \in {"ACTIVE", "INVITED"}
        /\ grants' = grants /\ userStatus \in [Users -> {"ABSENT", "INVITED", "ACTIVE", "DISABLED"}]
    BY <1>2 DEF CompletePasswordReset, AdminInv, AdminTypeOK
  <2>2. /\ Active' = Active \cup {u}
        /\ {v \in Users : userStatus[v] = "DISABLED"}' = {v \in Users : userStatus[v] = "DISABLED"}
        /\ u \notin {v \in Users : userStatus[v] = "DISABLED"}
    BY <2>1 DEF Active
  <2>3. Mandate!Join(u)
    BY <2>1, <2>2 DEF Mandate!Join, PermissionsHeld
  <2> QED
    BY <1>a, <2>3 DEF Mandate!Next
<1>3. ASSUME NEW k \in Requests, NEW op, NEW u, NEW r, NEW s, Checked(k, op, u, r, s)
      PROVE  UNCHANGED Mandate!vars
  BY <1>3, <1>b DEF Checked
<1>4. ASSUME NEW k \in Requests, NEW u \in Users, NEW r, NEW s,
             InviteUser(k, u, r, s) \/ GrantRole(k, u, r, s) \/ RevokeRole(k, u, r, s)
      PROVE  UNCHANGED Mandate!vars
  BY <1>3, <1>4 DEF InviteUser, GrantRole, RevokeRole
<1>5. ASSUME NEW k \in Requests, NEW u \in Users,
             DisableUser(k, u) \/ EnableUser(k, u) \/ IssuePasswordReset(k, u)
      PROVE  UNCHANGED Mandate!vars
  BY <1>3, <1>5 DEF DisableUser, EnableUser, IssuePasswordReset
<1>6. ASSUME NEW k \in Requests, NEW c \in Users, Arrive(k, c) PROVE UNCHANGED Mandate!vars
  BY <1>6, <1>b DEF Arrive
<1>7. ASSUME NEW k \in Requests, Withdraw(k) PROVE UNCHANGED Mandate!vars
  BY <1>7, <1>b DEF Withdraw
<1>8. ASSUME NEW u \in Users, LinkExpires(u) PROVE UNCHANGED Mandate!vars
  BY <1>8, <1>b DEF LinkExpires
<1>9. CASE UNCHANGED adminVars
  BY <1>9, <1>b DEF adminVars
<1> QED
  BY <1>1, <1>2, <1>4, <1>5, <1>6, <1>7, <1>8, <1>9 DEF AdminNext, Command

\* Whoever changes a user outranks, at the commit, what is changed, and an active
\* administrator remains: for any number of users, roles, properties and requests.
THEOREM AdministrationImplementsAuthority == AdminSpec => ImplementsAuthority
BY MandateInit, MandateStep, AdminInvariant, PTL DEF AdminSpec, ImplementsAuthority, Mandate!Spec
=============================================================================
