--------------------------- MODULE JobQueueProofs ---------------------------
(***************************************************************************)
(* The safety of the job queue for every set of jobs and workers and every  *)
(* number of attempts.                                                      *)
(***************************************************************************)
EXTENDS JobQueue, JobRowsProofs

Rows == \A j \in Jobs : GoodRow(job[j])

Typed == TypeOK /\ Rows

(* How the steps change one execution and one row. *)

PCs == {"idle", "ended"} \cup Live

\* What the updates of an execution record leave of its fields.
LEMMA RecordUpdate ==
  ASSUME NEW e \in Execution, NEW pc \in PCs
  PROVE  /\ [e EXCEPT !.pc = pc] \in Execution
         /\ [e EXCEPT !.pc = pc].pc = pc
         /\ [e EXCEPT !.pc = pc].worker = e.worker
         /\ [e EXCEPT !.pc = pc].aborted = e.aborted
         /\ [e EXCEPT !.aborted = TRUE] \in Execution
         /\ [e EXCEPT !.aborted = TRUE].pc = e.pc
         /\ [e EXCEPT !.aborted = TRUE].worker = e.worker
  BY DEF Execution, PCs

\* A change of program counter keeps the type and every other execution.
LEMMA GotoEffect ==
  ASSUME TypeOK, NEW j \in Jobs, NEW n \in Attempts, NEW pc \in PCs, Goto(j, n, pc)
  PROVE  /\ exec' \in [Jobs -> [Attempts -> Execution]]
         /\ exec'[j][n].pc = pc
         /\ \A k \in Jobs, m \in Attempts :
              /\ exec'[k][m].worker = exec[k][m].worker
              /\ exec'[k][m].aborted = exec[k][m].aborted
              /\ ~(k = j /\ m = n) => exec'[k][m] = exec[k][m]
<1> DEFINE e == [exec[j][n] EXCEPT !.pc = pc]
<1>1. exec \in [Jobs -> [Attempts -> Execution]]
  BY DEF TypeOK
<1>2. exec' = [exec EXCEPT ![j] = [exec[j] EXCEPT ![n] = e]]
  BY <1>1 DEF Goto
<1>3. exec[j][n] \in Execution
  BY <1>1
<1>4. e \in Execution /\ e.pc = pc /\ e.worker = exec[j][n].worker
      /\ e.aborted = exec[j][n].aborted
  BY <1>3, RecordUpdate
<1> HIDE DEF e
<1> QED
  BY <1>1, <1>2, <1>4

\* A statement that writes a good row of one job keeps every row good.
LEMMA RowWrite ==
  ASSUME Typed, NEW j \in Jobs, NEW r, GoodRow(r), job' = [job EXCEPT ![j] = r]
  PROVE  job' \in [Jobs -> Row] /\ Rows'
  BY DEF Typed, TypeOK, Rows, GoodRow

\* A held row belongs to the attempt, so a retry is granted only with one left.
LEMMA HeldFacts ==
  ASSUME Typed, NEW j \in Jobs, NEW n \in Attempts, HeldBy(j, n)
  PROVE  GoodRow(job[j]) /\ job[j].status = "RUNNING" /\ job[j].attempts = n
  BY DEF Typed, Rows, HeldBy, Held

\* A crash ends executions and a stop aborts them: neither gives one to another
\* worker or starts one.
LEMMA CrashEffect ==
  ASSUME TypeOK, NEW w \in Workers, Crash(w)
  PROVE  /\ exec' \in [Jobs -> [Attempts -> Execution]]
         /\ \A k \in Jobs, m \in Attempts :
              /\ exec'[k][m].worker = exec[k][m].worker
              /\ IF exec[k][m].worker = w /\ exec[k][m].pc \in Live
                   THEN exec'[k][m].pc = "ended" ELSE exec'[k][m] = exec[k][m]
<1>1. ASSUME NEW k \in Jobs, NEW m \in Attempts
      PROVE  /\ exec'[k][m] = IF exec[k][m].worker = w /\ exec[k][m].pc \in Live
                                THEN [exec[k][m] EXCEPT !.pc = "ended"] ELSE exec[k][m]
             /\ exec[k][m] \in Execution
  BY DEF Crash, TypeOK
<1>2. ASSUME NEW k \in Jobs, NEW m \in Attempts
      PROVE  /\ exec'[k][m] \in Execution
             /\ exec'[k][m].worker = exec[k][m].worker
             /\ IF exec[k][m].worker = w /\ exec[k][m].pc \in Live
                  THEN exec'[k][m].pc = "ended" ELSE exec'[k][m] = exec[k][m]
  <2>1. "ended" \in PCs /\ exec[k][m] \in Execution
    BY <1>1 DEF PCs
  <2> DEFINE e == [exec[k][m] EXCEPT !.pc = "ended"]
  <2>2. e \in Execution /\ e.pc = "ended" /\ e.worker = exec[k][m].worker
    BY <2>1, RecordUpdate
  <2>3. exec'[k][m] = IF exec[k][m].worker = w /\ exec[k][m].pc \in Live
                        THEN e ELSE exec[k][m]
    BY <1>1
  <2> HIDE DEF e
  <2> QED
    BY <2>1, <2>2, <2>3
<1>3. exec' \in [Jobs -> [Attempts -> Execution]]
  BY <1>2 DEF Crash
<1> QED
  BY <1>2, <1>3

LEMMA StopEffect ==
  ASSUME TypeOK, NEW w \in Workers, Stop(w)
  PROVE  /\ exec' \in [Jobs -> [Attempts -> Execution]]
         /\ \A k \in Jobs, m \in Attempts :
              exec'[k][m].worker = exec[k][m].worker /\ exec'[k][m].pc = exec[k][m].pc
<1>1. ASSUME NEW k \in Jobs, NEW m \in Attempts
      PROVE  /\ exec'[k][m] = IF exec[k][m].worker = w /\ exec[k][m].pc \in Live
                                THEN [exec[k][m] EXCEPT !.aborted = TRUE] ELSE exec[k][m]
             /\ exec[k][m] \in Execution
  BY DEF Stop, TypeOK
<1>2. ASSUME NEW k \in Jobs, NEW m \in Attempts
      PROVE  /\ exec'[k][m] \in Execution
             /\ exec'[k][m].worker = exec[k][m].worker /\ exec'[k][m].pc = exec[k][m].pc
  <2>1. "ended" \in PCs
    BY DEF PCs
  <2> QED
    BY <1>1, <2>1, RecordUpdate, ZenonT(60)
<1>3. exec' \in [Jobs -> [Attempts -> Execution]]
  BY <1>2 DEF Stop
<1> QED
  BY <1>2, <1>3

\* A heartbeat changes no fence and no program counter.
LEMMA HeartbeatEffect ==
  ASSUME Typed, NEW j \in Jobs, NEW n \in Attempts, Heartbeat(j, n)
  PROVE  /\ exec' \in [Jobs -> [Attempts -> Execution]]
         /\ \A k \in Jobs, m \in Attempts :
              exec'[k][m].worker = exec[k][m].worker /\ exec'[k][m].pc = exec[k][m].pc
<1> DEFINE e == [exec[j][n] EXCEPT !.aborted = TRUE]
<1>1. exec \in [Jobs -> [Attempts -> Execution]] /\ exec[j][n] \in Execution
  BY DEF Typed, TypeOK
<1>2. "ended" \in PCs
  BY DEF PCs
<1>3. e \in Execution /\ e.pc = exec[j][n].pc /\ e.worker = exec[j][n].worker
  BY <1>1, <1>2, RecordUpdate
<1>4. \/ exec' = exec
      \/ exec' = [exec EXCEPT ![j] = [exec[j] EXCEPT ![n] = e]]
  BY <1>1 DEF Heartbeat
<1> HIDE DEF e
<1> QED
  BY <1>1, <1>3, <1>4

LEMMA TypedInit == Init => Typed
  BY NewRows, MaxAttemptsAssumption
     DEF Init, Typed, TypeOK, Rows, GoodRow, Execution, NotStarted, Attempts

LEMMA TypedStep == Typed /\ [Next]_vars => Typed'
<1> SUFFICES ASSUME Typed, [Next]_vars PROVE Typed'
  OBVIOUS
<1> USE DEF Typed
<1>1. ASSUME NEW j \in Jobs, Enqueue(j) PROVE Typed'
  BY <1>1, NewRows, RowWrite DEF Enqueue, TypeOK
<1>2. ASSUME NEW j \in Jobs, Cancel(j) PROVE Typed'
  BY <1>2, ReleasedGood, RowWrite DEF Cancel, TypeOK, Rows
<1>3. ASSUME NEW j \in Jobs, BecomesDue(j) PROVE Typed'
  <2>1. job' = [job EXCEPT ![j] = [job[j] EXCEPT !.due = TRUE]]
    BY <1>3 DEF BecomesDue, TypeOK
  <2> QED
    BY <1>3, <2>1, TimedGood, RowWrite DEF BecomesDue, TypeOK, Rows
<1>4. ASSUME NEW j \in Jobs, LeaseExpires(j) PROVE Typed'
  <2>1. job' = [job EXCEPT ![j] = [job[j] EXCEPT !.lease = "expired"]]
    BY <1>4 DEF LeaseExpires, TypeOK
  <2>2. GoodRow([job[j] EXCEPT !.lease = "expired"])
    BY <1>4, TimedGood DEF LeaseExpires, Rows
  <2>3. job' \in [Jobs -> Row] /\ Rows'
    BY <2>1, <2>2, RowWrite
  <2> QED
    BY <1>4, <2>3 DEF LeaseExpires, TypeOK
<1>5. ASSUME NEW w \in Workers, NEW j \in Jobs, Claim(w, j) PROVE Typed'
  <2>1. GoodRow(ClaimedRow(job[j], w)) /\ job[j].attempts + 1 \in Attempts
    BY <1>5, ClaimedGood DEF Claim, Rows
  <2>2. job' \in [Jobs -> Row] /\ Rows'
    BY <1>5, <2>1, RowWrite DEF Claim
  <2>3. exec' \in [Jobs -> [Attempts -> Execution]]
    BY <1>5, <2>1 DEF Claim, TypeOK, Execution, NotStarted, PCs, Live
  <2> QED
    BY <1>5, <2>2, <2>3 DEF Claim, TypeOK
<1>6. ASSUME NEW w \in Workers, NEW j \in Jobs, Reclaim(w, j) PROVE Typed'
  <2>1. job' \in [Jobs -> Row] /\ Rows'
    BY <1>6, ReclaimedGood, RowWrite DEF Reclaim, ReclaimRow, Rows
  <2> QED
    BY <1>6, <2>1 DEF Reclaim, ReclaimRow, TypeOK
<1>7. ASSUME NEW w \in Workers, NEW j \in Jobs, GiveUp(w, j) PROVE Typed'
  BY <1>7 DEF GiveUp, TypeOK, Rows
<1>8. ASSUME NEW w \in Workers, Crash(w) PROVE Typed'
  <2>1. exec' \in [Jobs -> [Attempts -> Execution]]
    BY <1>8, CrashEffect
  <2>2. locker' \in [Jobs -> 0..MaxAttempts]
    BY <1>8, MaxAttemptsAssumption DEF Crash, TypeOK
  <2> QED
    BY <1>8, <2>1, <2>2 DEF Crash, TypeOK, Rows
<1>9. ASSUME NEW w \in Workers, Stop(w) PROVE Typed'
  <2>1. exec' \in [Jobs -> [Attempts -> Execution]]
    BY <1>9, StopEffect
  <2> QED
    BY <1>9, <2>1 DEF Stop, TypeOK, Rows
<1>10. ASSUME NEW j \in Jobs, NEW n \in Attempts, Heartbeat(j, n) PROVE Typed'
  <2>1. CASE HeldBy(j, n)
    BY <1>10, <2>1, HeldFacts, TimedGood, RowWrite DEF Heartbeat, TypeOK
  <2>2. CASE ~HeldBy(j, n)
    BY <1>10, <2>2, HeartbeatEffect DEF Heartbeat, TypeOK, Rows
  <2> QED
    BY <2>1, <2>2
<1>11. ASSUME NEW j \in Jobs, NEW n \in Attempts, AssertLease(j, n) PROVE Typed'
  <2>1. exec' \in [Jobs -> [Attempts -> Execution]]
    BY <1>11, GotoEffect DEF AssertLease, PCs, Live
  <2>2. locker' \in [Jobs -> 0..MaxAttempts]
    <3>1. n \in 0..MaxAttempts
      BY MaxAttemptsAssumption DEF Attempts
    <3> QED
      BY <1>11, <3>1 DEF AssertLease, TypeOK
  <2> QED
    BY <1>11, <2>1, <2>2 DEF AssertLease, TypeOK, Rows
<1>12. ASSUME NEW j \in Jobs, NEW n \in Attempts, Commit(j, n) PROVE Typed'
  <2>1. exec' \in [Jobs -> [Attempts -> Execution]]
    BY <1>12, GotoEffect DEF Commit, PCs, Live
  <2>2. locker' \in [Jobs -> 0..MaxAttempts] /\ worked' \in [Jobs -> SUBSET Attempts]
    BY <1>12, MaxAttemptsAssumption DEF Commit, TypeOK
  <2>3. job' \in [Jobs -> Row] /\ Rows'
    BY <1>12, HeldFacts, ReleasedGood, RowWrite DEF Commit, TypeOK, Rows
  <2> QED
    BY <1>12, <2>1, <2>2, <2>3 DEF Commit, TypeOK
<1>13. ASSUME NEW j \in Jobs, NEW n \in Attempts, Rollback(j, n) PROVE Typed'
  <2>1. exec' \in [Jobs -> [Attempts -> Execution]]
    BY <1>13, GotoEffect DEF Rollback, PCs, Live
  <2>2. locker' \in [Jobs -> 0..MaxAttempts]
    BY <1>13, MaxAttemptsAssumption DEF Rollback, TypeOK
  <2> QED
    BY <1>13, <2>1, <2>2 DEF Rollback, TypeOK, Rows
<1>14. ASSUME NEW j \in Jobs, NEW n \in Attempts,
              HandlerEnds(j, n) \/ FinishThrows(j, n) \/ RecordThrows(j, n)
       PROVE Typed'
  <2>1. exec' \in [Jobs -> [Attempts -> Execution]]
    BY <1>14, GotoEffect DEF HandlerEnds, FinishThrows, RecordThrows, PCs, Live
  <2> QED
    BY <1>14, <2>1 DEF HandlerEnds, FinishThrows, RecordThrows, TypeOK, Rows
<1>15. ASSUME NEW j \in Jobs, NEW n \in Attempts, Finish(j, n) PROVE Typed'
  <2>1. exec' \in [Jobs -> [Attempts -> Execution]]
    BY <1>15, GotoEffect DEF Finish, PCs, Live
  <2>2. job' \in [Jobs -> Row] /\ Rows'
    BY <1>15, HeldFacts, ReleasedGood, RowWrite DEF Finish, TypeOK, Rows
  <2> QED
    BY <1>15, <2>1, <2>2 DEF Finish, TypeOK
<1>16. ASSUME NEW j \in Jobs, NEW n \in Attempts, RecordFailure(j, n) PROVE Typed'
  <2> DEFINE retry == exec[j][n].pc = "threw" /\ n < MaxAttempts
  <2>1. exec' \in [Jobs -> [Attempts -> Execution]] 
    BY <1>16, GotoEffect DEF RecordFailure, PCs, Live
  <2>2. job' \in [Jobs -> Row] /\ Rows'
    <3>1. CASE Records(j, n)
      <4>1. HeldBy(j, n) /\ retry \in BOOLEAN
        BY <3>1 DEF Records
      <4>2. GoodRow(FailedRow(job[j], retry))
        BY <4>1, HeldFacts, FailedGood
      <4> QED
        BY <1>16, <3>1, <4>2, RowWrite DEF RecordFailure
    <3>2. CASE ~Records(j, n)
      BY <1>16, <3>2 DEF RecordFailure, TypeOK, Rows
    <3> QED
      BY <3>1, <3>2
  <2>3. giveUp' \subseteq Workers \X Jobs
    <3>1. CASE Records(j, n)
      <4>1. exec[j][n].worker = job[j].owner /\ job[j].owner \in Workers
        BY <3>1, HeldFacts DEF Records, HeldBy, Held, GoodRow, LeaseCheck, Row
      <4> QED
        BY <1>16, <3>1, <4>1 DEF RecordFailure, TypeOK
    <3>2. CASE ~Records(j, n)
      BY <1>16, <3>2 DEF RecordFailure, TypeOK
    <3> QED
      BY <3>1, <3>2
  <2> QED
    BY <1>16, <2>1, <2>2, <2>3 DEF RecordFailure, TypeOK
<1>17. CASE UNCHANGED vars
  BY <1>17 DEF vars, TypeOK, Rows
<1> QED
  BY <1>1, <1>2, <1>3, <1>4, <1>5, <1>6, <1>7, <1>8, <1>9, <1>10, <1>11, <1>12, <1>13,
     <1>14, <1>15, <1>16, <1>17 DEF Next, Step

----------------------------------------------------------------------------
(* FencedLock: only the lock holder's own commit writes a locked row.        *)

LEMMA FencedLockInit == Init => FencedLock
  BY MaxAttemptsAssumption DEF Init, FencedLock, NotStarted, Attempts

LEMMA FencedLockStep == Typed /\ FencedLock /\ [Next]_vars => FencedLock'
<1> SUFFICES ASSUME Typed, FencedLock, [Next]_vars PROVE FencedLock'
  OBVIOUS
<1> USE DEF Typed
<1>a. /\ job \in [Jobs -> Row] /\ locker \in [Jobs -> 0..MaxAttempts]
      /\ exec \in [Jobs -> [Attempts -> Execution]]
  BY DEF TypeOK
\* A write of an unlocked row, with the executions and locks left alone.
<1>b. ASSUME NEW j \in Jobs, NEW r, Unlocked(j), job' = [job EXCEPT ![j] = r],
             locker' = locker,
             \A k \in Jobs, m \in Attempts :
               exec'[k][m].worker = exec[k][m].worker /\ exec'[k][m].pc = exec[k][m].pc
      PROVE  FencedLock'
  BY <1>a, <1>b DEF FencedLock, Unlocked, HeldBy, Attempts
<1>c. ASSUME UNCHANGED <<locker, exec>>, UNCHANGED job PROVE FencedLock'
  BY <1>c DEF FencedLock, HeldBy
\* An execution outside its transaction moves on outside it.
<1>d. ASSUME NEW j \in Jobs, NEW n \in Attempts, NEW pc \in PCs, Goto(j, n, pc),
             pc # "intx", exec[j][n].pc # "intx", locker' = locker,
             job' = job \/ (Unlocked(j) /\ \E r : job' = [job EXCEPT ![j] = r])
      PROVE  FencedLock'
  BY <1>a, <1>d, GotoEffect DEF FencedLock, Unlocked, HeldBy, Attempts
\* The holder's transaction ends: nobody holds the lock of j.
<1>e. ASSUME NEW j \in Jobs, NEW n \in Attempts, Goto(j, n, "running"),
             exec[j][n].pc = "intx", locker' = [locker EXCEPT ![j] = 0],
             job' = job \/ \E r : job' = [job EXCEPT ![j] = r]
      PROVE  FencedLock'
  <2>1. "running" \in PCs
    BY DEF PCs, Live
  <2> QED
    BY <1>a, <1>e, <2>1, GotoEffect DEF FencedLock, HeldBy, Attempts
<1>1. ASSUME NEW j \in Jobs, Enqueue(j) PROVE FencedLock'
  <2>1. Unlocked(j)
    BY <1>a, <1>1 DEF Enqueue, FencedLock, HeldBy, Held, Unlocked, Attempts
  <2> QED
    BY <1>1, <2>1, <1>b DEF Enqueue
<1>2. ASSUME NEW j \in Jobs, Cancel(j) PROVE FencedLock'
  BY <1>2, <1>b DEF Cancel
<1>3. ASSUME NEW j \in Jobs, BecomesDue(j) \/ LeaseExpires(j) PROVE FencedLock'
  <2>1. \A k \in Jobs : /\ job'[k].status = job[k].status
                        /\ job'[k].owner = job[k].owner
                        /\ job'[k].attempts = job[k].attempts
    <3>1. \/ job' = [job EXCEPT ![j] = [job[j] EXCEPT !.due = TRUE]]
          \/ job' = [job EXCEPT ![j] = [job[j] EXCEPT !.lease = "expired"]]
      BY <1>a, <1>3 DEF BecomesDue, LeaseExpires
    <3>2. /\ SameFence(job[j], [job[j] EXCEPT !.due = TRUE])
          /\ SameFence(job[j], [job[j] EXCEPT !.lease = "expired"])
      BY TimedGood DEF Rows
    <3> QED
      BY <1>a, <3>1, <3>2 DEF SameFence
  <2> QED
    BY <1>3, <2>1 DEF BecomesDue, LeaseExpires, FencedLock, HeldBy, Held
<1>4. ASSUME NEW w \in Workers, NEW j \in Jobs, Claim(w, j) PROVE FencedLock'
  <2> DEFINE n == job[j].attempts + 1
  <2>1. n \in Attempts
    BY <1>4, ClaimedGood DEF Claim, Rows
  <2>2. /\ exec'[j][n].pc = "running"
        /\ \A k \in Jobs, m \in Attempts : ~(k = j /\ m = n) => exec'[k][m] = exec[k][m]
    BY <1>a, <1>4, <2>1 DEF Claim, NotStarted
  <2> HIDE DEF n
  <2> QED
    BY <1>a, <1>4, <2>1, <2>2 DEF Claim, FencedLock, Unlocked, HeldBy, Attempts
<1>5. ASSUME NEW w \in Workers, NEW j \in Jobs, Reclaim(w, j) PROVE FencedLock'
  BY <1>5, <1>b DEF Reclaim, ReclaimRow
<1>6. ASSUME NEW w \in Workers, NEW j \in Jobs, GiveUp(w, j) PROVE FencedLock'
  BY <1>6, <1>c DEF GiveUp
<1>7. ASSUME NEW w \in Workers, Crash(w) PROVE FencedLock'
  <2>1. /\ job' = job
        /\ \A k \in Jobs : locker'[k] =
             IF \E n \in Attempts : n = locker[k] /\ exec[k][n].worker = w /\ exec[k][n].pc \in Live
               THEN 0 ELSE locker[k]
    BY <1>7 DEF Crash
  <2>2. ASSUME NEW k \in Jobs, NEW m \in Attempts, locker'[k] = m
        PROVE  exec'[k][m].pc = "intx" /\ HeldBy(k, m)'
    <3>1. locker[k] = m /\ ~(exec[k][m].worker = w /\ exec[k][m].pc \in Live)
      BY <2>1, <2>2 DEF Attempts
    <3> QED
      BY <1>7, <2>1, <3>1, CrashEffect DEF FencedLock, HeldBy
  <2>3. ASSUME NEW k \in Jobs, NEW m \in Attempts, exec'[k][m].pc = "intx"
        PROVE  locker'[k] = m
    <3>1. exec[k][m].pc = "intx" /\ exec[k][m].worker # w
      BY <1>7, <2>3, CrashEffect DEF Live
    <3> QED
      BY <2>1, <3>1 DEF FencedLock
  <2> QED
    BY <2>2, <2>3 DEF FencedLock
<1>8. ASSUME NEW w \in Workers, Stop(w) PROVE FencedLock'
  BY <1>8, StopEffect DEF Stop, FencedLock, HeldBy
<1>9. ASSUME NEW j \in Jobs, NEW n \in Attempts, Heartbeat(j, n) PROVE FencedLock'
  <2>1. CASE HeldBy(j, n)
    BY <1>9, <2>1, <1>b DEF Heartbeat
  <2>2. CASE ~HeldBy(j, n)
    BY <1>9, <2>2, HeartbeatEffect DEF Heartbeat, FencedLock, HeldBy
  <2> QED
    BY <2>1, <2>2
<1>10. ASSUME NEW j \in Jobs, NEW n \in Attempts, AssertLease(j, n) PROVE FencedLock'
  <2>1. CASE HeldBy(j, n)
    <3>1. Goto(j, n, "intx") /\ "intx" \in PCs
      BY <1>10, <2>1 DEF AssertLease, PCs, Live
    <3> QED
      BY <1>a, <1>10, <2>1, <3>1, GotoEffect DEF AssertLease, FencedLock, HeldBy, Unlocked, Attempts
  <2>2. CASE ~HeldBy(j, n)
    BY <1>10, <2>2, <1>d DEF AssertLease, PCs
  <2> QED
    BY <2>1, <2>2
<1>11. ASSUME NEW j \in Jobs, NEW n \in Attempts, Commit(j, n) \/ Rollback(j, n)
       PROVE FencedLock'
  BY <1>11, <1>e DEF Commit, Rollback
<1>12. ASSUME NEW j \in Jobs, NEW n \in Attempts,
              HandlerEnds(j, n) \/ FinishThrows(j, n) \/ RecordThrows(j, n)
       PROVE FencedLock'
  BY <1>12, <1>d DEF HandlerEnds, FinishThrows, RecordThrows, PCs, Live
<1>13. ASSUME NEW j \in Jobs, NEW n \in Attempts, Finish(j, n) PROVE FencedLock'
  BY <1>13, <1>d DEF Finish, PCs
<1>14. ASSUME NEW j \in Jobs, NEW n \in Attempts, RecordFailure(j, n) PROVE FencedLock'
  BY <1>14, <1>d DEF RecordFailure, Records, PCs
<1>15. CASE UNCHANGED vars
  BY <1>15, <1>c DEF vars
<1> QED
  BY <1>1, <1>2, <1>3, <1>4, <1>5, <1>6, <1>7, <1>8, <1>9, <1>10, <1>11, <1>12, <1>13,
     <1>14, <1>15 DEF Next, Step

----------------------------------------------------------------------------
(* GiveUpSound: a job becomes FAILED by one statement, and stays FAILED.     *)

LEMMA GiveUpSoundStep == Typed /\ GiveUpSound /\ [Next]_vars => GiveUpSound'
<1> SUFFICES ASSUME Typed, GiveUpSound, [Next]_vars PROVE GiveUpSound'
  OBVIOUS
<1> USE DEF Typed
<1>a. /\ job \in [Jobs -> Row] /\ undone \in [Jobs -> 0..2] /\ giveUp \subseteq Workers \X Jobs
  BY DEF TypeOK
\* A write of a row that is not FAILED, with the compensations left alone.
<1>b. ASSUME NEW j \in Jobs, NEW r, job[j].status # "FAILED",
             job' = [job EXCEPT ![j] = r], UNCHANGED <<giveUp, undone>>
      PROVE  GiveUpSound'
  BY <1>a, <1>b DEF GiveUpSound
\* The same, when the statement makes the row FAILED and hands it to w.
<1>c. ASSUME NEW j \in Jobs, NEW w \in Workers, NEW r, job[j].status # "FAILED",
             job' = [job EXCEPT ![j] = r], r.status = "FAILED",
             giveUp' = giveUp \cup {<<w, j>>}, undone' = undone
      PROVE  GiveUpSound'
  BY <1>a, <1>c DEF GiveUpSound
<1>d. ASSUME UNCHANGED <<job, giveUp, undone>> PROVE GiveUpSound'
  BY <1>d DEF GiveUpSound
<1>1. ASSUME NEW j \in Jobs, Enqueue(j) PROVE GiveUpSound'
  BY <1>1, <1>b DEF Enqueue
<1>2. ASSUME NEW j \in Jobs, Cancel(j) PROVE GiveUpSound'
  BY <1>2, <1>b DEF Cancel, Stoppable
<1>3. ASSUME NEW j \in Jobs, BecomesDue(j) PROVE GiveUpSound'
  <2>1. job' = [job EXCEPT ![j] = [job[j] EXCEPT !.due = TRUE]]
    BY <1>a, <1>3 DEF BecomesDue
  <2> QED
    BY <1>3, <2>1, <1>b DEF BecomesDue
<1>4. ASSUME NEW j \in Jobs, LeaseExpires(j) PROVE GiveUpSound'
  <2>1. \A k \in Jobs : job'[k].status = job[k].status
    BY <1>a, <1>4 DEF LeaseExpires, Row
  <2> QED
    BY <1>4, <2>1 DEF LeaseExpires, GiveUpSound
<1>5. ASSUME NEW w \in Workers, NEW j \in Jobs, Claim(w, j) PROVE GiveUpSound'
  BY <1>5, <1>b DEF Claim, Claimable
<1>6. ASSUME NEW w \in Workers, NEW j \in Jobs, Reclaim(w, j) PROVE GiveUpSound'
  <2>1. job[j].status # "FAILED" /\ job' = [job EXCEPT ![j] = ReclaimedRow(job[j])]
    BY <1>6 DEF Reclaim, ReclaimRow, Reclaimable
  <2>2. CASE ReclaimedRow(job[j]).status = "FAILED"
    BY <1>6, <2>1, <2>2, <1>c DEF Reclaim, ReclaimRow
  <2>3. CASE ReclaimedRow(job[j]).status # "FAILED"
    BY <1>6, <2>1, <2>3, <1>b DEF Reclaim, ReclaimRow
  <2> QED
    BY <2>2, <2>3
<1>7. ASSUME NEW w \in Workers, NEW j \in Jobs, GiveUp(w, j) PROVE GiveUpSound'
  <2>1. /\ job[j].status = "FAILED" /\ undone[j] = 0
        /\ \A v \in Workers : <<v, j>> \notin giveUp'
        /\ \A v \in Workers, k \in Jobs : <<v, k>> \in giveUp' => <<v, k>> \in giveUp
        /\ job' = job
    BY <1>7 DEF GiveUp, GiveUpSound
  <2>2. \/ undone' = undone
        \/ undone' = [undone EXCEPT ![j] = 1]
    BY <1>a, <1>7, <2>1 DEF GiveUp
  <2> QED
    BY <1>a, <2>1, <2>2 DEF GiveUpSound
<1>8. ASSUME NEW w \in Workers, Crash(w) PROVE GiveUpSound'
  BY <1>8 DEF Crash, GiveUpSound
<1>9. ASSUME NEW w \in Workers, Stop(w) PROVE GiveUpSound'
  BY <1>9, <1>d DEF Stop
<1>10. ASSUME NEW j \in Jobs, NEW n \in Attempts, Heartbeat(j, n) PROVE GiveUpSound'
  <2>1. CASE HeldBy(j, n)
    BY <1>10, <2>1, <1>b, HeldFacts DEF Heartbeat
  <2>2. CASE ~HeldBy(j, n)
    BY <1>10, <2>2, <1>d DEF Heartbeat
  <2> QED
    BY <2>1, <2>2
<1>11. ASSUME NEW j \in Jobs, NEW n \in Attempts, Commit(j, n) \/ Finish(j, n)
       PROVE GiveUpSound'
  BY <1>11, <1>b, <1>d, HeldFacts DEF Commit, Finish
<1>12. ASSUME NEW j \in Jobs, NEW n \in Attempts,
              \/ AssertLease(j, n) \/ Rollback(j, n) \/ HandlerEnds(j, n)
              \/ FinishThrows(j, n) \/ RecordThrows(j, n)
       PROVE GiveUpSound'
  BY <1>12, <1>d DEF AssertLease, Rollback, HandlerEnds, FinishThrows, RecordThrows
<1>13. ASSUME NEW j \in Jobs, NEW n \in Attempts, RecordFailure(j, n) PROVE GiveUpSound'
  <2> DEFINE retry == exec[j][n].pc = "threw" /\ n < MaxAttempts
             w == exec[j][n].worker
  <2>1. CASE ~Records(j, n)
    BY <1>13, <2>1, <1>d DEF RecordFailure
  <2>2. CASE Records(j, n) /\ retry
    <3>1. job[j].status # "FAILED" /\ job' = [job EXCEPT ![j] = FailedRow(job[j], retry)]
      BY <1>13, <2>2, HeldFacts DEF RecordFailure, Records
    <3> QED
      BY <1>13, <2>2, <3>1, <1>b DEF RecordFailure
  <2>3. CASE Records(j, n) /\ ~retry
    <3>1. HeldBy(j, n) /\ retry \in BOOLEAN /\ GoodRow(job[j]) /\ job[j].status = "RUNNING"
      BY <2>3, HeldFacts DEF Records
    <3>2. FailedRow(job[j], retry).status = "FAILED"
      BY <2>3, <3>1, FailedGood
    <3>3. w \in Workers
      BY <3>1 DEF HeldBy, Held, GoodRow, LeaseCheck, Row
    <3>4. /\ job' = [job EXCEPT ![j] = FailedRow(job[j], retry)]
          /\ giveUp' = giveUp \cup {<<w, j>>} /\ undone' = undone
      BY <1>13, <2>3 DEF RecordFailure
    <3> HIDE DEF retry, w
    <3> QED
      BY <3>1, <3>2, <3>3, <3>4, <1>c
  <2> QED
    BY <2>1, <2>2, <2>3
<1>14. CASE UNCHANGED vars
  BY <1>14, <1>d DEF vars
<1> QED
  BY <1>1, <1>2, <1>3, <1>4, <1>5, <1>6, <1>7, <1>8, <1>9, <1>10, <1>11, <1>12, <1>13,
     <1>14 DEF Next, Step

----------------------------------------------------------------------------
(* The inductive invariant and the safety theorems.                         *)

\* TypeOK gives the ranges the arithmetic of attempts needs, Rows that a queued
\* row has an attempt left and only a running one an owner, FencedLock that a
\* row is written by its lock holder alone, GiveUpSound that FAILED is final.
QueueInv == Typed /\ FencedLock /\ GiveUpSound

THEOREM QueueInvariant == Spec => []QueueInv
<1>1. Init => QueueInv
  <2>1. Init => GiveUpSound
    BY DEF Init, GiveUpSound
  <2> QED
    BY <2>1, TypedInit, FencedLockInit DEF QueueInv
<1>2. QueueInv /\ [Next]_vars => QueueInv'
  BY TypedStep, FencedLockStep, GiveUpSoundStep DEF QueueInv
<1> QED
  BY <1>1, <1>2, PTL DEF Spec

\* Every reachable state is well typed.
THEOREM TypeCorrect == Spec => []TypeOK
<1>1. QueueInv => TypeOK
  BY DEF QueueInv, Typed
<1> QED
  BY <1>1, QueueInvariant, PTL

\* No statement of the queue breaks a CHECK constraint or strands a queued job.
THEOREM RowConstraintsHold == Spec => []RowConstraints
<1>1. QueueInv => RowConstraints
  BY DEF QueueInv, Typed, Rows, GoodRow, RowConstraints
<1> QED
  BY <1>1, QueueInvariant, PTL

\* Whoever holds the row lock past assertLease holds the job until it commits.
THEOREM FencedLockHolds == Spec => []FencedLock
<1>1. QueueInv => FencedLock
  BY DEF QueueInv
<1> QED
  BY <1>1, QueueInvariant, PTL

\* onGiveUp runs at most once for a job, and only for one that failed for good.
THEOREM GiveUpSoundHolds == Spec => []GiveUpSound
<1>1. QueueInv => GiveUpSound
  BY DEF QueueInv
<1> QED
  BY <1>1, QueueInvariant, PTL

----------------------------------------------------------------------------
(* One active job for a key.                                                *)

OneActive ==
  \A j, k \in Jobs :
    Key[j] = Key[k] /\ job[j].status \in ActiveStatuses /\ job[k].status \in ActiveStatuses
      => j = k

\* Only Enqueue makes a row active, and it looks at every other row.
LEMMA OneActiveStep == QueueInv /\ OneActive /\ [Next]_vars => OneActive'
<1> SUFFICES ASSUME QueueInv, OneActive, [Next]_vars PROVE OneActive'
  OBVIOUS
<1> USE DEF QueueInv, Typed
<1>a. job \in [Jobs -> Row]
  BY DEF TypeOK
<1>b. ASSUME NEW j \in Jobs, NEW r, job[j].status \in ActiveStatuses,
             job' = job \/ job' = [job EXCEPT ![j] = r]
      PROVE  OneActive'
  BY <1>a, <1>b DEF OneActive
<1>1. ASSUME NEW j \in Jobs, Enqueue(j) PROVE OneActive'
  BY <1>a, <1>1 DEF Enqueue, OneActive
<1>2. ASSUME NEW j \in Jobs, Cancel(j) PROVE OneActive'
  <2>1. job[j].status \in ActiveStatuses /\ job' = [job EXCEPT ![j] = CancelledRow(job[j])]
    BY <1>2 DEF Cancel, Stoppable, ActiveStatuses
  <2> QED
    BY <2>1, <1>b
<1>3. ASSUME NEW j \in Jobs, BecomesDue(j) \/ LeaseExpires(j) PROVE OneActive'
  <2>1. \A k \in Jobs : job'[k].status = job[k].status
    BY <1>a, <1>3 DEF BecomesDue, LeaseExpires, Row
  <2> QED
    BY <2>1 DEF OneActive
<1>4. ASSUME NEW w \in Workers, NEW j \in Jobs, Claim(w, j) PROVE OneActive'
  <2>1. job[j].status \in ActiveStatuses /\ job' = [job EXCEPT ![j] = ClaimedRow(job[j], w)]
    BY <1>4 DEF Claim, Claimable, ActiveStatuses
  <2> QED
    BY <2>1, <1>b
<1>5. ASSUME NEW w \in Workers, NEW j \in Jobs, Reclaim(w, j) PROVE OneActive'
  <2>1. job[j].status \in ActiveStatuses /\ job' = [job EXCEPT ![j] = ReclaimedRow(job[j])]
    BY <1>5 DEF Reclaim, ReclaimRow, Reclaimable, ActiveStatuses
  <2> QED
    BY <2>1, <1>b
<1>6. ASSUME UNCHANGED job PROVE OneActive'
  BY <1>6 DEF OneActive
<1>7. ASSUME NEW j \in Jobs, NEW n \in Attempts, Step(j, n) \/ Heartbeat(j, n)
      PROVE OneActive'
  <2>1. CASE HeldBy(j, n)
    <3>1. job[j].status \in ActiveStatuses
      BY <2>1, HeldFacts DEF ActiveStatuses
    <3> QED
      BY <1>7, <3>1, <1>b
         DEF Step, Heartbeat, AssertLease, Commit, Rollback, HandlerEnds, Finish, FinishThrows,
             RecordFailure, RecordThrows
  <2>2. CASE ~HeldBy(j, n)
    BY <1>7, <2>2, <1>6
       DEF Step, Heartbeat, AssertLease, Commit, Rollback, HandlerEnds, Finish, FinishThrows,
           RecordFailure, RecordThrows, Records
  <2> QED
    BY <2>1, <2>2
<1> QED
  BY <1>1, <1>2, <1>3, <1>4, <1>5, <1>6, <1>7 DEF Next, GiveUp, Crash, Stop, vars

\* Jobs of one dedupe key exclude each other, an abandoned execution included.
THEOREM KeyExclusiveHolds == Spec => []KeyExclusive
<1>1. Init => OneActive
  BY DEF Init, OneActive, AbsentRow, ActiveStatuses
<1>2. QueueInv /\ OneActive => KeyExclusive
  <2> SUFFICES ASSUME QueueInv, OneActive, NEW j \in Jobs, NEW k \in Jobs, Key[j] = Key[k],
                      NEW m \in Attempts, NEW n \in Attempts,
                      exec[j][m].pc = "intx", exec[k][n].pc = "intx"
               PROVE  j = k /\ m = n
    BY DEF KeyExclusive, OneActive
  <2>1. HeldBy(j, m) /\ HeldBy(k, n) /\ locker[j] = m /\ locker[k] = n
    BY DEF QueueInv, FencedLock
  <2>2. j = k
    BY <2>1, HeldFacts DEF QueueInv, OneActive, ActiveStatuses
  <2> QED
    BY <2>1, <2>2
<1> QED
  BY <1>1, <1>2, QueueInvariant, OneActiveStep, PTL DEF Spec

----------------------------------------------------------------------------
(* The queue implements FencedWork.                                         *)

LEMMA PhaseValues ==
  ASSUME NEW r
  PROVE  /\ r.status = "ABSENT" => PhaseOf(r) = "absent"
         /\ r.status = "QUEUED" => PhaseOf(r) = "waiting"
         /\ r.status = "RUNNING" => PhaseOf(r) = "held"
         /\ r.status \in TerminalStatuses => PhaseOf(r) = "over"
  BY DEF PhaseOf, TerminalStatuses

\* What a write of one row is in terms of the abstract phase and token.
LEMMA AbstractWrite ==
  ASSUME Typed, NEW j \in Jobs, NEW r, GoodRow(r), job' = [job EXCEPT ![j] = r]
  PROVE  /\ phase' = [phase EXCEPT ![j] = PhaseOf(r)]
         /\ token' = [token EXCEPT ![j] = r.attempts]
         /\ phase[j] = PhaseOf(job[j]) /\ token[j] = job[j].attempts
         /\ r.attempts = job[j].attempts => token' = token
         /\ PhaseOf(r) = phase[j] => phase' = phase
  BY DEF Typed, TypeOK, phase, token

LEMMA RefinementInit == Init => Contract!Init
  BY PhaseValues, NewRows DEF Init, Contract!Init, phase, token, AbsentRow

LEMMA RefinementStep ==
  QueueInv /\ [Next]_vars => [Contract!Next]_(Contract!vars)
<1> SUFFICES ASSUME QueueInv, [Next]_vars PROVE [Contract!Next]_(Contract!vars)
  OBVIOUS
<1> USE DEF QueueInv
<1>a. Typed /\ Rows /\ \A k \in Jobs : GoodRow(job[k])
  BY DEF Typed, Rows
<1>b. ASSUME UNCHANGED <<job, worked>> PROVE UNCHANGED Contract!vars
  BY <1>b DEF Contract!vars, phase, token
\* A held job is released: Lose, or End.
<1>c. ASSUME NEW j \in Jobs, NEW r, GoodRow(r), job[j].status = "RUNNING",
             r.attempts = job[j].attempts, r.status \in TerminalStatuses \cup {"QUEUED"},
             job' = [job EXCEPT ![j] = r], worked' = worked
      PROVE  Contract!Next
  <2>a. /\ phase' = [phase EXCEPT ![j] = PhaseOf(r)]
        /\ token' = [token EXCEPT ![j] = r.attempts]
        /\ phase[j] = PhaseOf(job[j]) /\ token[j] = job[j].attempts
        /\ r.attempts = job[j].attempts => token' = token
        /\ PhaseOf(r) = phase[j] => phase' = phase
    BY <1>a, <1>c, AbstractWrite
  <2>1. CASE r.status = "QUEUED"
    <3>1. Contract!Lose(j)
      BY <1>c, <2>a, <2>1, PhaseValues DEF Contract!Lose, Contract!Move, GoodRow
    <3> QED
      BY <3>1 DEF Contract!Next
  <2>2. CASE r.status \in TerminalStatuses
    <3>1. Contract!End(j)
      BY <1>c, <2>a, <2>2, PhaseValues DEF Contract!End, Contract!Move
    <3> QED
      BY <3>1 DEF Contract!Next
  <2> QED
    BY <1>c, <2>1, <2>2
\* Neither the phase nor the token of j changes.
<1>d. ASSUME NEW j \in Jobs, NEW r, GoodRow(r), r.status = job[j].status,
             r.attempts = job[j].attempts, job' = [job EXCEPT ![j] = r], worked' = worked
      PROVE  UNCHANGED Contract!vars
  <2>1. PhaseOf(r) = PhaseOf(job[j])
    BY <1>d DEF PhaseOf
  <2>2. /\ phase' = [phase EXCEPT ![j] = PhaseOf(r)]
        /\ token' = [token EXCEPT ![j] = r.attempts]
        /\ phase[j] = PhaseOf(job[j]) /\ token[j] = job[j].attempts
        /\ r.attempts = job[j].attempts => token' = token
        /\ PhaseOf(r) = phase[j] => phase' = phase
    BY <1>a, <1>d, AbstractWrite
  <2> QED
    BY <1>d, <2>1, <2>2 DEF Contract!vars
<1>1. ASSUME NEW j \in Jobs, Enqueue(j) PROVE Contract!Next
  <2>1. Contract!Queue(j)
    <3>1. /\ phase' = [phase EXCEPT ![j] = PhaseOf(InsertedRow)]
          /\ phase[j] = PhaseOf(job[j])
          /\ job[j].attempts = 0 /\ token' = token
      BY <1>a, <1>1, AbstractWrite, NewRows, ZenonT(60) DEF Enqueue, GoodRow
    <3>2. PhaseOf(InsertedRow) = "waiting" /\ phase[j] = "absent"
      BY <1>1, <3>1, NewRows, PhaseValues DEF Enqueue
    <3> QED
      BY <1>1, <3>1, <3>2 DEF Enqueue, Contract!Queue, Contract!Move
  <2> QED
    BY <2>1 DEF Contract!Next
<1>2. ASSUME NEW j \in Jobs, Cancel(j) PROVE Contract!Next
  <2>1. Contract!End(j)
    <3> DEFINE r == CancelledRow(job[j])
    <3>1. GoodRow(r) /\ r.status = "CANCELLED" /\ r.attempts = job[j].attempts
      BY <1>a, ReleasedGood
    <3>2. job' = [job EXCEPT ![j] = r] /\ worked' = worked
      BY <1>2 DEF Cancel
    <3>3. PhaseOf(r) = "over" /\ PhaseOf(job[j]) \in {"waiting", "held"}
      BY <1>2, <3>1, PhaseValues DEF Cancel, Stoppable, TerminalStatuses
    <3> HIDE DEF r
    <3>4. /\ phase' = [phase EXCEPT ![j] = PhaseOf(r)]
          /\ token' = [token EXCEPT ![j] = r.attempts]
          /\ phase[j] = PhaseOf(job[j]) /\ token[j] = job[j].attempts
          /\ r.attempts = job[j].attempts => token' = token
          /\ PhaseOf(r) = phase[j] => phase' = phase
      BY <1>a, <3>1, <3>2, AbstractWrite
    <3> QED
      BY <3>1, <3>2, <3>3, <3>4 DEF Contract!End, Contract!Move
  <2> QED
    BY <2>1 DEF Contract!Next
<1>3. ASSUME NEW j \in Jobs, BecomesDue(j) \/ LeaseExpires(j) PROVE UNCHANGED Contract!vars
  <2>1. CASE BecomesDue(j)
    <3>1. job' = [job EXCEPT ![j] = [job[j] EXCEPT !.due = TRUE]]
      BY <1>a, <2>1 DEF BecomesDue, Typed, TypeOK
    <3> QED
      BY <1>a, <2>1, <3>1, <1>d, TimedGood, ZenonT(60) DEF BecomesDue, SameFence
  <2>2. CASE LeaseExpires(j)
    <3>1. job' = [job EXCEPT ![j] = [job[j] EXCEPT !.lease = "expired"]]
      BY <1>a, <2>2 DEF LeaseExpires, Typed, TypeOK
    <3> QED
      BY <1>a, <2>2, <3>1, <1>d, TimedGood DEF LeaseExpires, SameFence
  <2> QED
    BY <1>3, <2>1, <2>2
<1>4. ASSUME NEW w \in Workers, NEW j \in Jobs, Claim(w, j) PROVE Contract!Next
  <2>1. Contract!Grant(j)
    <3> DEFINE r == ClaimedRow(job[j], w)
    <3>1. /\ GoodRow(r) /\ r.status = "RUNNING" /\ r.attempts = job[j].attempts + 1
          /\ job[j].status = "QUEUED" /\ job[j].attempts < MaxAttempts
      BY <1>a, <1>4, ClaimedGood DEF Claim, Claimable
    <3>2. job' = [job EXCEPT ![j] = r] /\ worked' = worked
      BY <1>4 DEF Claim
    <3>3. PhaseOf(r) = "held" /\ PhaseOf(job[j]) = "waiting"
      BY <3>1, PhaseValues
    <3> HIDE DEF r
    <3>4. /\ phase' = [phase EXCEPT ![j] = PhaseOf(r)]
          /\ token' = [token EXCEPT ![j] = r.attempts]
          /\ phase[j] = PhaseOf(job[j]) /\ token[j] = job[j].attempts
          /\ r.attempts = job[j].attempts => token' = token
          /\ PhaseOf(r) = phase[j] => phase' = phase
      BY <1>a, <3>1, <3>2, AbstractWrite
    <3> QED
      BY <3>1, <3>2, <3>3, <3>4 DEF Contract!Grant, Contract!Move
  <2> QED
    BY <2>1 DEF Contract!Next
<1>5. ASSUME NEW w \in Workers, NEW j \in Jobs, Reclaim(w, j) PROVE Contract!Next
  BY <1>a, <1>5, <1>c, ReclaimedGood DEF Reclaim, ReclaimRow, Reclaimable, TerminalStatuses
<1>6. ASSUME NEW w \in Workers, Crash(w) \/ Stop(w) PROVE UNCHANGED Contract!vars
  BY <1>6, <1>b DEF Crash, Stop
<1>7. ASSUME NEW j \in Jobs, NEW n \in Attempts, Heartbeat(j, n)
      PROVE UNCHANGED Contract!vars
  BY <1>a, <1>7, <1>b, <1>d, HeldFacts, TimedGood DEF Heartbeat, SameFence
<1>8. ASSUME NEW j \in Jobs, NEW n \in Attempts, Commit(j, n) PROVE Contract!Next
  <2>1. HeldBy(j, n) /\ worked' = [worked EXCEPT ![j] = @ \cup {n}]
    BY <1>8 DEF Commit, FencedLock
  <2>2. job[j].status = "RUNNING" /\ job[j].attempts = n /\ GoodRow(job[j])
    BY <1>a, <2>1, HeldFacts
  <2>3. phase[j] = "held" /\ token[j] = n
    BY <2>2, PhaseValues DEF phase, token
  <2>4. CASE UNCHANGED job
    <3>1. Contract!Work(j)
      BY <2>1, <2>3, <2>4 DEF Contract!Work, phase, token
    <3> QED
      BY <3>1 DEF Contract!Next
  <2>5. CASE job' = [job EXCEPT ![j] = CompletedRow(@)]
    <3>1. Contract!Work(j)
      <4> DEFINE r == CompletedRow(job[j])
      <4>1. GoodRow(r) /\ r.status = "SUCCEEDED" /\ r.attempts = job[j].attempts
        BY <2>2, ReleasedGood
      <4>2. PhaseOf(r) = "over"
        BY <4>1, PhaseValues DEF TerminalStatuses
      <4>3. job' = [job EXCEPT ![j] = r]
        BY <2>5
      <4> HIDE DEF r
      <4>4. /\ phase' = [phase EXCEPT ![j] = PhaseOf(r)]
            /\ token' = [token EXCEPT ![j] = r.attempts]
            /\ phase[j] = PhaseOf(job[j]) /\ token[j] = job[j].attempts
            /\ r.attempts = job[j].attempts => token' = token
            /\ PhaseOf(r) = phase[j] => phase' = phase
        BY <1>a, <4>1, <4>3, AbstractWrite
      <4> QED
        BY <2>1, <2>3, <4>1, <4>2, <4>4 DEF Contract!Work, Contract!Move
    <3> QED
      BY <3>1 DEF Contract!Next
  <2> QED
    BY <1>8, <2>4, <2>5 DEF Commit
<1>9. ASSUME NEW j \in Jobs, NEW n \in Attempts,
             \/ AssertLease(j, n) \/ Rollback(j, n) \/ HandlerEnds(j, n)
             \/ FinishThrows(j, n) \/ RecordThrows(j, n)
      PROVE UNCHANGED Contract!vars
  BY <1>9, <1>b DEF AssertLease, Rollback, HandlerEnds, FinishThrows, RecordThrows
<1>10. ASSUME NEW j \in Jobs, NEW n \in Attempts, Finish(j, n)
       PROVE [Contract!Next]_(Contract!vars)
  BY <1>a, <1>10, <1>b, <1>c, HeldFacts, ReleasedGood DEF Finish, TerminalStatuses
<1>11. ASSUME NEW j \in Jobs, NEW n \in Attempts, RecordFailure(j, n)
       PROVE [Contract!Next]_(Contract!vars)
  <2> DEFINE retry == exec[j][n].pc = "threw" /\ n < MaxAttempts
             r == FailedRow(job[j], retry)
  <2>1. CASE ~Records(j, n)
    BY <1>11, <2>1, <1>b DEF RecordFailure
  <2>2. CASE Records(j, n)
    <3>1. GoodRow(job[j]) /\ job[j].status = "RUNNING" /\ job[j].attempts = n /\ retry \in BOOLEAN
      BY <1>a, <2>2, HeldFacts DEF Records
    <3>2. GoodRow(r) /\ r.status \in {"QUEUED", "FAILED"} /\ r.attempts = job[j].attempts
      BY <3>1, FailedGood
    <3>3. job' = [job EXCEPT ![j] = r] /\ worked' = worked
      BY <1>11, <2>2 DEF RecordFailure
    <3> HIDE DEF r
    <3> QED
      BY <3>1, <3>2, <3>3, <1>c DEF TerminalStatuses
  <2> QED
    BY <2>1, <2>2
<1>12. CASE UNCHANGED vars
  BY <1>12, <1>b DEF vars
<1>13. ASSUME NEW w \in Workers, NEW j \in Jobs, GiveUp(w, j) PROVE UNCHANGED Contract!vars
  BY <1>13, <1>b DEF GiveUp
<1> QED
  BY <1>1, <1>2, <1>3, <1>4, <1>5, <1>6, <1>7, <1>8, <1>9, <1>10, <1>11, <1>12, <1>13
     DEF Next, Step

\* Attempts hold a job one after another, only the present holder commits work,
\* and a job that is over is over: for any number of workers and crashes.
THEOREM QueueImplementsFencedWork == Spec => ImplementsFencedWork
BY RefinementInit, RefinementStep, QueueInvariant, PTL DEF Spec, ImplementsFencedWork, Contract!Spec
=============================================================================
