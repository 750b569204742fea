---------------------------- MODULE ServerProofs ----------------------------
(***************************************************************************)
(* What a server process keeps in its memory.  The worker's loop, for every  *)
(* number of jobs, slots and attempts: what it was woken for is not          *)
(* forgotten, and after stop() one claim is the last.  The reports, for      *)
(* every number of them and of slots.  The live updates of a screen: what    *)
(* was not heard is announced, and what was heard is on its way.             *)
(***************************************************************************)
EXTENDS MCServer, FiniteSetTheorems, SequenceTheorems, TLAPS

----------------------------------------------------------------------------
(* The worker's loop.                                                       *)

\* Attempts are counted from the claims: a job due again has some left, a job claimed
\* has had one.
Attempts ==
  \A j \in Jobs :
    /\ row[j] \in {"none", "due", "later"} => attempt[j] < MaxAttempts
    /\ row[j] = "held" => attempt[j] > 0
    /\ tick.got = j => tick.pc = "answer" /\ attempt[j] > 0

\* While the loop runs it will look again for what it was woken for: only the answer
\* "nothing is due" ends it, and a wake-up after the question is kept in wakeAgain.
Remembered ==
  /\ told \subseteq Due
  /\ tick.pc = "answer" /\ tick.got = None /\ told # {} /\ ~stopping => wake
  /\ NotForgotten

\* The execution begun after stop() is the last: the loop has ended.
LastClaim ==
  /\ late # {} => stopping /\ tick.pc = "idle"
  /\ \A e, f \in late : e = f

WorkerInv == WorkerTypeOK /\ Attempts /\ Remembered /\ LastClaim

LEMMA SizeFinite ==
  ASSUME WorkerTypeOK
  PROVE  /\ IsFiniteSet({j \in Jobs : active[j] # 0})
         /\ Size \in Nat
BY JobsAssumption, FS_Subset, FS_CardinalityType DEF Size

LEMMA InitInv == \A on \in BOOLEAN : WorkerInit(on) => WorkerInv
<1> SUFFICES ASSUME NEW on \in BOOLEAN, WorkerInit(on) PROVE WorkerInv
  OBVIOUS
<1>1. /\ tick \in [pc : {"idle", "reclaim"}, got : {None}] /\ stopping \in BOOLEAN
      /\ told = {} /\ late = {}
  BY DEF WorkerInit, Idle
<1>2. WorkerTypeOK
  <2>1. 0 \in 0..MaxAttempts /\ 0 \in 0..MaxErrors
    BY BoundsAssumption
  <2>2. attempt \in [Jobs -> 0..MaxAttempts] /\ active \in [Jobs -> 0..MaxAttempts]
    BY <2>1 DEF WorkerInit
  <2>3. row \in [Jobs -> {"none", "due", "later", "held", "expired", "over"}]
    BY DEF WorkerInit
  <2>4. tick \in [pc : {"idle", "reclaim", "claim", "answer"}, got : Jobs \cup {None}]
    BY <1>1
  <2>5. /\ running = {} /\ notes = {} /\ wake = FALSE /\ listen = FALSE /\ errors = 0
    BY DEF WorkerInit
  <2>6. wake \in BOOLEAN /\ listen \in BOOLEAN
    BY <2>5, Zenon
  <2> QED
    BY <1>1, <2>1, <2>2, <2>3, <2>4, <2>5, <2>6 DEF WorkerTypeOK
<1>3. Attempts
  BY <1>1, JobsAssumption, BoundsAssumption DEF WorkerInit, Attempts
<1>4. Remembered /\ LastClaim
  BY <1>1 DEF Remembered, NotForgotten, LastClaim
<1> QED
  BY <1>2, <1>3, <1>4 DEF WorkerInv

----------------------------------------------------------------------------
(* The parts of tick().                                                     *)

\* A wake-up starts the loop or is remembered by it.
LEMMA WakeKeeps ==
  ASSUME WorkerInv, Wake, listen' \in BOOLEAN
  PROVE  /\ tick' \in [pc : {"idle", "reclaim", "claim", "answer"}, got : Jobs \cup {None}]
         /\ wake' \in BOOLEAN /\ told' \subseteq Jobs
         /\ tick'.got = tick.got
         /\ stopping => tick' = tick /\ told' = told /\ wake' = wake
         /\ ~stopping => tick'.pc # "idle" /\ told' = Due
         /\ tick.pc # "idle" => tick' = tick
         /\ tick'.pc = "answer" => tick' = tick
         /\ tick.pc # "idle" /\ ~stopping => wake'
BY DEF WorkerInv, WorkerTypeOK, Wake, Idle, Due, Attempts, Remembered

\* The loop goes on, claims or ends; it ends while it runs only with its slots taken or
\* with nothing left to remember.
LEMMA LoopKeeps ==
  ASSUME WorkerInv, NEW n \in Nat, Next1(n) \/ LoopEnd
  PROVE  /\ tick' \in [pc : {"idle", "reclaim", "claim"}, got : {None}]
         /\ wake' \in BOOLEAN
         /\ stopping => tick'.pc = "idle"
         /\ ~stopping /\ wake => tick'.pc # "idle"
         /\ Next1(n) /\ ~stopping /\ tick'.pc = "idle" => n >= Concurrency
<1>1. wake \in BOOLEAN /\ stopping \in BOOLEAN /\ Concurrency \in Nat
  BY BoundsAssumption DEF WorkerInv, WorkerTypeOK
<1>2. CASE LoopEnd
  <2>1. /\ wake /\ ~stopping => wake' = FALSE /\ tick' = [pc |-> "reclaim", got |-> None]
        /\ ~(wake /\ ~stopping) => wake' = wake /\ tick' = [pc |-> "idle", got |-> None]
    BY <1>2 DEF LoopEnd, Idle
  <2>2. CASE wake /\ ~stopping
    <3>1. wake' \in BOOLEAN
      BY <2>1, <2>2, Zenon
    <3> QED
      BY <2>1, <2>2, <3>1
  <2>3. CASE ~(wake /\ ~stopping)
    <3>1. wake' \in BOOLEAN
      BY <1>1, <2>1, <2>3, Zenon
    <3>2. tick' = [pc |-> "idle", got |-> None]
      BY <2>1, <2>3
    <3>3. Next1(n) /\ ~stopping => n >= Concurrency
      BY <1>1, <3>2 DEF Next1, MayClaim, Idle
    <3> QED
      BY <2>3, <3>1, <3>2, <3>3
  <2> QED
    BY <2>2, <2>3
<1>3. CASE Next1(n) /\ ~LoopEnd
  <2>1. ~stopping /\ wake' = wake /\ tick' = [Idle EXCEPT !.pc = "claim"]
    BY <1>3 DEF Next1, MayClaim
  <2>2. tick' = [pc |-> "claim", got |-> None]
    BY <2>1 DEF Idle
  <2>3. wake' \in BOOLEAN
    BY <1>1, <2>1, Zenon
  <2>4. tick' \in [pc : {"idle", "reclaim", "claim"}, got : {None}] /\ tick'.pc = "claim"
    BY <2>2
  <2>5. tick'.pc # "idle"
    BY <2>4
  <2> QED
    BY <2>1, <2>3, <2>4, <2>5, Zenon
<1> QED
  BY <1>2, <1>3

----------------------------------------------------------------------------
(* The steps.                                                               *)

LEMMA ReclaimKeeps == WorkerInv /\ Reclaim => WorkerInv'
<1> SUFFICES ASSUME WorkerInv, Reclaim PROVE WorkerInv'
  OBVIOUS
<1>1. Size \in Nat /\ Size' = Size
  BY SizeFinite DEF WorkerInv, Reclaim, Size
<1>2. Next1(Size) /\ tick.pc = "reclaim"
  BY DEF Reclaim
<1>3. /\ tick' \in [pc : {"idle", "reclaim", "claim"}, got : {None}]
      /\ wake' \in BOOLEAN
      /\ stopping => tick'.pc = "idle"
      /\ ~stopping /\ wake => tick'.pc # "idle"
      /\ ~stopping /\ tick'.pc = "idle" => Size >= Concurrency
  BY <1>1, <1>2, LoopKeeps
<1>4. row' \in [Jobs -> {"none", "due", "later", "held", "expired", "over"}]
  BY DEF WorkerInv, WorkerTypeOK, Reclaim
<1>5. WorkerTypeOK'
  BY <1>3, <1>4 DEF WorkerInv, WorkerTypeOK, Reclaim
<1>6. Attempts'
  BY <1>3, JobsAssumption DEF WorkerInv, WorkerTypeOK, Attempts, Reclaim
<1>7. Remembered'
  <2>1. (told \subseteq Due)'
    BY DEF WorkerInv, WorkerTypeOK, Remembered, Due, Reclaim
  <2>2. ~stopping /\ tick'.pc = "idle" => ~Free'
    BY <1>1, <1>3, BoundsAssumption DEF Free
  <2> QED
    BY <1>3, <2>1, <2>2 DEF Remembered, NotForgotten, Reclaim
<1>8. LastClaim'
  BY <1>2 DEF WorkerInv, LastClaim, Reclaim
<1> QED
  BY <1>5, <1>6, <1>7, <1>8 DEF WorkerInv

LEMMA ClaimJobKeeps == WorkerInv /\ ClaimJob => WorkerInv'
<1> SUFFICES ASSUME WorkerInv, ClaimJob PROVE WorkerInv'
  OBVIOUS
<1>1. CASE \E j \in Due :
             /\ row' = [row EXCEPT ![j] = "held"]
             /\ attempt' = [attempt EXCEPT ![j] = @ + 1]
             /\ told' = told \ {j}
             /\ tick' = [pc |-> "answer", got |-> j]
  <2>1. PICK j \in Due : /\ row' = [row EXCEPT ![j] = "held"]
                         /\ attempt' = [attempt EXCEPT ![j] = @ + 1]
                         /\ told' = told \ {j}
                         /\ tick' = [pc |-> "answer", got |-> j]
    BY <1>1
  <2>2. j \in Jobs /\ row[j] = "due" /\ attempt[j] \in Nat /\ attempt[j] + 1 \in 1..MaxAttempts
    BY BoundsAssumption DEF Due, WorkerInv, WorkerTypeOK, Attempts
  <2>3. attempt' \in [Jobs -> 0..MaxAttempts]
    BY <2>1, <2>2, BoundsAssumption DEF WorkerInv, WorkerTypeOK
  <2>4. row' \in [Jobs -> {"none", "due", "later", "held", "expired", "over"}]
    BY <2>1 DEF WorkerInv, WorkerTypeOK
  <2>5. WorkerTypeOK'
    BY <2>1, <2>2, <2>3, <2>4 DEF WorkerInv, WorkerTypeOK, ClaimJob
  <2>6. Attempts'
    <3> SUFFICES ASSUME NEW i \in Jobs
                 PROVE  /\ row'[i] \in {"none", "due", "later"} => attempt'[i] < MaxAttempts
                        /\ row'[i] = "held" => attempt'[i] > 0
                        /\ tick'.got = i => tick'.pc = "answer" /\ attempt'[i] > 0
      BY DEF Attempts
    <3>1. CASE i = j
      <4>1. row'[i] = "held" /\ attempt'[i] = attempt[i] + 1
        BY <3>1, <2>1 DEF WorkerInv, WorkerTypeOK
      <4> QED
        BY <4>1, <3>1, <2>1, <2>2
    <3>2. CASE i # j
      <4>1. row'[i] = row[i] /\ attempt'[i] = attempt[i] /\ tick'.got # i
        BY <3>2, <2>1 DEF WorkerInv, WorkerTypeOK
      <4> QED
        BY <4>1 DEF WorkerInv, Attempts
    <3> QED
      BY <3>1, <3>2
  <2>7. Remembered'
    <3>1. (told \subseteq Due)'
      BY <2>1, <2>2 DEF WorkerInv, WorkerTypeOK, Remembered, Due
    <3>2. tick'.got # None /\ tick'.pc = "answer"
      BY <2>1, <2>2, JobsAssumption
    <3> QED
      BY <3>1, <3>2 DEF Remembered, NotForgotten
  <2>8. LastClaim'
    BY DEF WorkerInv, LastClaim, ClaimJob
  <2> QED
    BY <2>5, <2>6, <2>7, <2>8 DEF WorkerInv
<1>2. CASE Due = {} /\ tick' = [pc |-> "answer", got |-> None] /\ UNCHANGED <<row, attempt, told>>
  <2>1. WorkerTypeOK'
    BY <1>2 DEF WorkerInv, WorkerTypeOK, ClaimJob
  <2>2. Attempts'
    BY <1>2, JobsAssumption DEF WorkerInv, Attempts
  <2>3. Remembered'
    <3>1. told' = {}
      BY <1>2 DEF WorkerInv, Remembered
    <3> QED
      BY <3>1 DEF Remembered, NotForgotten
  <2>4. LastClaim'
    BY DEF WorkerInv, LastClaim, ClaimJob
  <2> QED
    BY <2>1, <2>2, <2>3, <2>4 DEF WorkerInv
<1> QED
  BY <1>1, <1>2 DEF ClaimJob

LEMMA AnswerKeeps == WorkerInv /\ Answer => WorkerInv'
<1> SUFFICES ASSUME WorkerInv, Answer PROVE WorkerInv'
  OBVIOUS
<1>1. CASE tick.got = None
  <2>1. LoopEnd /\ UNCHANGED <<row, attempt, running, active, listen, notes, stopping, errors, told, late>>
    BY <1>1 DEF Answer
  <2>2. /\ tick' \in [pc : {"idle", "reclaim", "claim"}, got : {None}]
        /\ wake' \in BOOLEAN
        /\ stopping => tick'.pc = "idle"
        /\ ~stopping /\ wake => tick'.pc # "idle"
    BY <2>1, LoopKeeps, 0 \in Nat
  <2>3. WorkerTypeOK'
    BY <2>1, <2>2 DEF WorkerInv, WorkerTypeOK
  <2>4. Attempts'
    BY <2>1, <2>2, JobsAssumption DEF WorkerInv, Attempts
  <2>5. Remembered'
    BY <1>1, <2>1, <2>2 DEF WorkerInv, Remembered, NotForgotten, Due, Answer
  <2>6. LastClaim'
    BY <2>1 DEF WorkerInv, LastClaim, Answer
  <2> QED
    BY <2>3, <2>4, <2>5, <2>6 DEF WorkerInv
<1>2. CASE tick.got # None
  <2> DEFINE j == tick.got
             e == <<j, attempt[j]>>
             n == IF active[j] = 0 THEN Size + 1 ELSE Size
  <2>1. /\ j \in Jobs /\ attempt[j] \in 1..MaxAttempts
        /\ tick.pc = "answer"
    BY <1>2, BoundsAssumption DEF WorkerInv, WorkerTypeOK, Attempts, Answer
  <2>2. /\ running' = running \cup {e}
        /\ active' = [active EXCEPT ![j] = attempt[j]]
        /\ late' = IF stopping THEN late \cup {e} ELSE late
        /\ Next1(n)
        /\ UNCHANGED <<row, attempt, listen, notes, stopping, errors, told>>
    BY <1>2 DEF Answer
  <2>3. n \in Nat /\ Size' = n
    <3>1. IsFiniteSet({i \in Jobs : active[i] # 0}) /\ Size \in Nat
      BY SizeFinite DEF WorkerInv
    <3>2. {i \in Jobs : active'[i] # 0} = {i \in Jobs : active[i] # 0} \cup {j}
      BY <2>1, <2>2 DEF WorkerInv, WorkerTypeOK
    <3> QED
      BY <2>1, <3>1, <3>2, FS_AddElement DEF Size
  <2>4. /\ tick' \in [pc : {"idle", "reclaim", "claim"}, got : {None}]
        /\ wake' \in BOOLEAN
        /\ stopping => tick'.pc = "idle"
        /\ ~stopping /\ tick'.pc = "idle" => n >= Concurrency
    BY <2>2, <2>3, LoopKeeps
  <2>5. WorkerTypeOK'
    <3>1. e \in Jobs \X (1..MaxAttempts)
      BY <2>1
    <3>2. active' \in [Jobs -> 0..MaxAttempts]
      BY <2>1, <2>2 DEF WorkerInv, WorkerTypeOK
    <3> QED
      BY <3>1, <3>2, <2>2, <2>4 DEF WorkerInv, WorkerTypeOK
  <2>6. Attempts'
    BY <2>2, <2>4, JobsAssumption DEF WorkerInv, Attempts
  <2>7. Remembered'
    <3>1. ~stopping' /\ tick'.pc = "idle" => ~Free'
      BY <2>2, <2>3, <2>4, BoundsAssumption DEF Free
    <3>2. (told \subseteq Due)'
      BY <2>2 DEF WorkerInv, Remembered, Due
    <3> QED
      BY <3>1, <3>2, <2>4 DEF Remembered, NotForgotten
  <2>8. LastClaim'
    <3>1. late = {}
      BY <2>1 DEF WorkerInv, LastClaim
    <3> QED
      BY <3>1, <2>2, <2>4 DEF LastClaim
  <2> QED
    BY <2>5, <2>6, <2>7, <2>8 DEF WorkerInv
<1> QED
  BY <1>1, <1>2

LEMMA DbErrorKeeps == WorkerInv /\ DbError => WorkerInv'
<1> SUFFICES ASSUME WorkerInv, DbError PROVE WorkerInv'
  OBVIOUS
<1>1. WorkerTypeOK'
  BY BoundsAssumption DEF WorkerInv, WorkerTypeOK, DbError, Idle
<1>2. Attempts'
  BY JobsAssumption DEF WorkerInv, Attempts, DbError, Idle
<1>3. Remembered' /\ LastClaim'
  BY DEF WorkerInv, Remembered, NotForgotten, LastClaim, DbError, Idle
<1> QED
  BY <1>1, <1>2, <1>3 DEF WorkerInv

LEMMA EndKeeps ==
  ASSUME WorkerInv, NEW j \in Jobs, NEW n \in 1..MaxAttempts, EndExecution(j, n)
  PROVE  WorkerInv'
<1>1. /\ running' = running \ {<<j, n>>}
      /\ active' = [active EXCEPT ![j] = 0]
      /\ Wake
      /\ UNCHANGED <<attempt, listen, notes, stopping, late>>
      /\ Record(j, n)
  BY DEF EndExecution, Remaining
<1>2. /\ errors' \in 0..MaxErrors
      /\ row' \in [Jobs -> {"none", "due", "later", "held", "expired", "over"}]
      /\ \A i \in Jobs :
           \/ row'[i] = row[i]
           \/ row[i] = "held" /\ row'[i] = "over"
           \/ row[i] = "held" /\ row'[i] = "later" /\ attempt[i] < MaxAttempts
  <2>1. CASE row[j] = "held" /\ attempt[j] = n
    <3>1. CASE \E s \in {"over"} \cup {t \in {"later"} : n < MaxAttempts} :
                 row' = [row EXCEPT ![j] = s] /\ UNCHANGED errors
      BY <2>1, <3>1 DEF WorkerInv, WorkerTypeOK
    <3>2. CASE errors < MaxErrors /\ errors' = errors + 1 /\ UNCHANGED row
      BY <3>2, BoundsAssumption DEF WorkerInv, WorkerTypeOK
    <3> QED
      BY <1>1, <2>1, <3>1, <3>2 DEF Record
  <2>2. CASE ~(row[j] = "held" /\ attempt[j] = n)
    BY <1>1, <2>2 DEF Record, WorkerInv, WorkerTypeOK
  <2> QED
    BY <2>1, <2>2
<1>3. listen' \in BOOLEAN
  BY <1>1 DEF WorkerInv, WorkerTypeOK
<1>4. /\ tick' \in [pc : {"idle", "reclaim", "claim", "answer"}, got : Jobs \cup {None}]
      /\ wake' \in BOOLEAN /\ told' \subseteq Jobs
      /\ tick'.got = tick.got
      /\ stopping => tick' = tick /\ told' = told /\ wake' = wake
      /\ ~stopping => tick'.pc # "idle" /\ told' = Due
      /\ tick.pc # "idle" => tick' = tick
      /\ tick.pc # "idle" /\ ~stopping => wake'
      /\ tick'.pc = "answer" => tick' = tick
  BY <1>1, <1>3, WakeKeeps
<1>5. WorkerTypeOK'
  <2>1. active' \in [Jobs -> 0..MaxAttempts]
    BY <1>1, BoundsAssumption DEF WorkerInv, WorkerTypeOK
  <2> QED
    BY <1>1, <1>2, <1>4, <2>1 DEF WorkerInv, WorkerTypeOK
<1>6. Attempts'
  BY <1>1, <1>2, <1>4 DEF WorkerInv, Attempts
<1>7. Remembered'
  BY <1>1, <1>2, <1>4 DEF WorkerInv, Remembered, NotForgotten, Due
<1>8. LastClaim'
  BY <1>1, <1>4 DEF WorkerInv, LastClaim
<1> QED
  BY <1>5, <1>6, <1>7, <1>8 DEF WorkerInv

\* Timer, notification, connection: a wake-up and nothing that the invariant reads.
LEMMA WokenKeeps ==
  ASSUME WorkerInv, Wake, UNCHANGED <<row, attempt, running, active, stopping, errors, late>>,
         listen' \in BOOLEAN, notes' \subseteq Jobs
  PROVE  WorkerInv'
<1>1. /\ tick' \in [pc : {"idle", "reclaim", "claim", "answer"}, got : Jobs \cup {None}]
      /\ wake' \in BOOLEAN /\ told' \subseteq Jobs
      /\ tick'.got = tick.got
      /\ stopping => tick' = tick /\ told' = told /\ wake' = wake
      /\ ~stopping => tick'.pc # "idle" /\ told' = Due
      /\ tick.pc # "idle" => tick' = tick
      /\ tick.pc # "idle" /\ ~stopping => wake'
      /\ tick'.pc = "answer" => tick' = tick
  BY WakeKeeps
<1>2. WorkerTypeOK'
  BY <1>1 DEF WorkerInv, WorkerTypeOK
<1>3. Attempts'
  BY <1>1 DEF WorkerInv, Attempts
<1>4. Remembered'
  BY <1>1 DEF WorkerInv, Remembered, NotForgotten, Due, Free, Size
<1>5. LastClaim'
  BY <1>1 DEF WorkerInv, LastClaim
<1> QED
  BY <1>2, <1>3, <1>4, <1>5 DEF WorkerInv

\* What others do to a row: told shrinks with the jobs that are due.
LEMMA RowKeeps ==
  ASSUME WorkerInv, NEW j \in Jobs, Insert(j) \/ Others(j)
  PROVE  WorkerInv'
<1>1. PICK s \in {"due", "over", "expired"} : row' = [row EXCEPT ![j] = s]
  BY DEF Insert, Others
<1>2. s = "due" => row[j] \in {"none", "later"}
  BY <1>1 DEF Insert, Others, WorkerInv, WorkerTypeOK
<1>3. /\ UNCHANGED <<attempt, running, active, tick, wake, listen, stopping, errors, late>>
      /\ notes' \subseteq Jobs
      /\ told' \subseteq told /\ (row[j] = "due" => j \notin told')
  BY DEF Insert, Others, WorkerInv, WorkerTypeOK
<1>4. WorkerTypeOK'
  BY <1>1, <1>3 DEF WorkerInv, WorkerTypeOK
<1>5. \A i \in Jobs : i # j => row'[i] = row[i]
  BY <1>1 DEF WorkerInv, WorkerTypeOK
<1>6. row'[j] = s
  BY <1>1 DEF WorkerInv, WorkerTypeOK
<1>7. Attempts'
  BY <1>2, <1>3, <1>5, <1>6 DEF WorkerInv, Attempts
<1>8. Remembered'
  <2>1. (told \subseteq Due)'
    BY <1>2, <1>3, <1>5, <1>6 DEF WorkerInv, Remembered, Due
  <2>2. NotForgotten' /\ (tick'.pc = "answer" /\ tick'.got = None /\ told' # {} /\ ~stopping' => wake')
    BY <1>3 DEF WorkerInv, Remembered, NotForgotten, Free, Size
  <2> QED
    BY <2>1, <2>2 DEF Remembered
<1>9. LastClaim'
  BY <1>3 DEF WorkerInv, LastClaim
<1> QED
  BY <1>4, <1>7, <1>8, <1>9 DEF WorkerInv

LEMMA NextKeeps == WorkerInv /\ [WorkerNext]_workerVars => WorkerInv'
<1> SUFFICES ASSUME WorkerInv, [WorkerNext]_workerVars PROVE WorkerInv'
  OBVIOUS
<1>t. listen \in BOOLEAN /\ notes \subseteq Jobs
  BY DEF WorkerInv, WorkerTypeOK
<1>1. CASE Reclaim \/ ClaimJob \/ Answer \/ DbError
  BY <1>1, ReclaimKeeps, ClaimJobKeeps, AnswerKeeps, DbErrorKeeps
<1>2. CASE Ends
  BY <1>2, EndKeeps DEF Ends
<1>3. CASE \E j \in Jobs : Insert(j) \/ Others(j)
  BY <1>3, RowKeeps
<1>4. CASE Poll
  BY <1>4, <1>t, WokenKeeps DEF Poll
<1>5. CASE \E j \in Jobs : Notified(j)
  BY <1>5, <1>t, WokenKeeps DEF Notified
<1>6. CASE Listening
  BY <1>6, <1>t, WokenKeeps DEF Listening
<1>7. CASE ListenLost \/ Stop \/ UNCHANGED workerVars
  <2>1. /\ UNCHANGED <<row, attempt, running, active, tick, wake, errors, told, late>>
        /\ listen' \in BOOLEAN /\ notes' \subseteq Jobs
        /\ stopping' = stopping \/ stopping' = TRUE
    BY <1>7, <1>t DEF ListenLost, Stop, workerVars
  <2>2. WorkerTypeOK' /\ Attempts'
    BY <2>1 DEF WorkerInv, WorkerTypeOK, Attempts
  <2>3. Remembered' /\ LastClaim'
    BY <2>1 DEF WorkerInv, Remembered, NotForgotten, LastClaim, Due, Free, Size
  <2> QED
    BY <2>2, <2>3 DEF WorkerInv
<1> QED
  BY <1>1, <1>2, <1>3, <1>4, <1>5, <1>6, <1>7 DEF WorkerNext

----------------------------------------------------------------------------

LEMMA AtMostOne ==
  ASSUME NEW S, \A e, f \in S : e = f
  PROVE  Cardinality(S) <= 1
<1>1. CASE S = {}
  BY <1>1, FS_EmptySet
<1>2. CASE S # {}
  <2>1. PICK e \in S : S = {e}
    BY <1>2
  <2> QED
    BY <2>1, FS_Singleton
<1> QED
  BY <1>1, <1>2

THEOREM WorkerInvHolds == WorkerSpec => []WorkerInv
<1>1. WorkerInit(TRUE) => WorkerInv
  BY InitInv
<1> QED
  BY <1>1, NextKeeps, PTL DEF WorkerSpec

\* The worker's variables keep their types: no attempt beyond the last, no execution
\* without an attempt.
THEOREM WorkerTypeHolds == WorkerSpec => []WorkerTypeOK
<1>1. WorkerInv => WorkerTypeOK
  BY DEF WorkerInv
<1> QED
  BY <1>1, WorkerInvHolds, PTL

\* The coalesced wake-up of tick() loses nothing: at rest with a free slot, no job is left
\* that was due when the worker was last woken.
THEOREM NothingForgotten == WorkerSpec => []NotForgotten
<1>1. WorkerInv => NotForgotten
  BY DEF WorkerInv, Remembered
<1> QED
  BY <1>1, WorkerInvHolds, PTL

\* After stop() at most the claim under way becomes an execution.
THEOREM ClaimingStops == WorkerSpec => []StopsClaiming
<1>1. WorkerInv => StopsClaiming
  BY AtMostOne DEF WorkerInv, LastClaim, StopsClaiming
<1> QED
  BY <1>1, WorkerInvHolds, PTL

----------------------------------------------------------------------------
(* The live updates of a screen.                                            *)

\* The tab will ask again, or has asked after the last commit, or shows it.
Own ==
  \/ timer \/ dirty \/ fetch.pc \in {"asked", "failed"}
  \/ fetch.pc = "answer" /\ (fetch.again \/ fetch.ver = db)
  \/ fetch.pc = "done" /\ data.ver = db

\* The last commit is on its way to the tab.
Noticed ==
  /\ db \notin seen
  /\ \/ inbox # <<>>
     \/ pending = db /\ pending # 0
     \/ \E i \in 1..Len(wire) : wire[i] = Ev("change", db)

\* An event is on its way at which the tab reconciles.
Greets(e) == e.ev = "live" \/ e = Ev("ready", 1)
Hello == \E i \in 1..Len(wire) : Greets(wire[i])

Tuned == conn = "up" /\ stream = "open"

\* What is on its way was committed; the last of it, last.
Ways ==
  /\ conn # "up" => inbox = <<>>
  /\ \A i \in 1..Len(inbox) : inbox[i] <= db
  /\ inbox # <<>> => inbox[Len(inbox)] = db
  /\ stream # "open" => wire = <<>> /\ pending = 0
  /\ pending <= db
  /\ \A i \in 1..Len(wire) : wire[i].ev = "change" => wire[i].x \in 1..db
  /\ seen \subseteq 1..db

\* `heard` counts from the present stream on the present connection.
Heard ==
  /\ fetch.heard => Pending
  /\ conn = "down" \/ stream = "asked" => ~fetch.heard /\ ~data.heard

\* What the tab has been told of it acts upon; what it has not been told is on its way,
\* unless it has yet to reconcile, and then what it will take for fresh is.
Told ==
  /\ db \in seen => Own
  /\ Tuned => Hello \/ blind \/ Own \/ Noticed
  /\ Tuned /\ (fetch.heard \/ data.heard) => Own \/ Noticed

RealtimeInv == RealtimeTypeOK /\ Ways /\ Heard /\ Told

LEMMA Behead ==
  ASSUME NEW S, NEW s \in Seq(S), s # <<>>
  PROVE  /\ Len(s) \in Nat \ {0} /\ Head(s) = s[1] /\ s[1] \in S
         /\ Tail(s) \in Seq(S) /\ Len(Tail(s)) = Len(s) - 1
         /\ \A i \in 1..Len(Tail(s)) : Tail(s)[i] = s[i + 1]
         /\ Tail(s) = <<>> <=> Len(s) = 1
<1>1. Len(s) \in Nat \ {0}
  BY EmptySeq
<1>2. /\ Tail(s) \in Seq(S) /\ Len(Tail(s)) = Len(s) - 1
      /\ \A i \in 1..Len(Tail(s)) : Tail(s)[i] = s[i + 1]
  BY HeadTailProperties
<1>3. Head(s) = s[1] /\ s[1] \in S
  BY <1>1, ElementOfSeq
<1>4. Tail(s) = <<>> <=> Len(s) = 1
  <2>1. Tail(s) # <<>> => Len(Tail(s)) # 0
    BY <1>2, EmptySeq
  <2>2. Len(<<>>) = 0
    BY EmptySeq
  <2> QED
    BY <1>1, <1>2, <2>1, <2>2
<1> QED
  BY <1>1, <1>2, <1>3, <1>4

RealtimeTypes ==
  /\ db \in Nat /\ MaxVersion \in Nat /\ db <= MaxVersion /\ pending \in Nat
  /\ inbox \in Seq(1..MaxVersion) /\ wire \in Seq(Event)
  /\ timer \in BOOLEAN /\ dirty \in BOOLEAN /\ blind \in BOOLEAN /\ visible \in BOOLEAN
  /\ Len(inbox) \in Nat /\ Len(wire) \in Nat

LEMMA RealtimeTyped == RealtimeInv => RealtimeTypes
<1> SUFFICES ASSUME RealtimeInv PROVE RealtimeTypes
  OBVIOUS
<1>1. Len(inbox) \in Nat /\ Len(wire) \in Nat
  BY LenProperties DEF RealtimeInv, RealtimeTypeOK
<1> QED
  BY <1>1, RealtimeAssumption DEF RealtimeInv, RealtimeTypeOK, RealtimeTypes

LEMMA RealtimeStart == RealtimeInit => RealtimeInv
<1> SUFFICES ASSUME RealtimeInit PROVE RealtimeInv
  OBVIOUS
<1>1. RealtimeTypeOK
  <2>1. <<>> \in Seq(1..MaxVersion) /\ <<>> \in Seq(Event) /\ Len(<<>>) = 0
    BY EmptySeq
  <2>2. 0 \in 0..MaxVersion /\ 0 <= MaxWire
    BY RealtimeAssumption
  <2>3. {visible, dirty, timer, blind} \subseteq BOOLEAN
    BY DEF RealtimeInit
  <2> QED
    BY <2>1, <2>2, <2>3 DEF RealtimeInit, RealtimeTypeOK, Ended
<1>2. Ways
  <2>1. Len(<<>>) = 0
    BY EmptySeq
  <2> QED
    BY <2>1 DEF RealtimeInit, Ways
<1>3. Heard /\ Told
  BY DEF RealtimeInit, Heard, Told, Own, Tuned, Ended
<1> QED
  BY <1>1, <1>2, <1>3 DEF RealtimeInv

----------------------------------------------------------------------------
(* The hub and the stream.                                                  *)

\* An event joins the others on the wire.
LEMMA EmitKeeps ==
  ASSUME RealtimeInv, NEW e \in Event, Emit(e), stream' = stream
  PROVE  /\ wire' \in Seq(Event) /\ Len(wire') <= MaxWire
         /\ stream # "open" => wire' = wire
         /\ \A i \in 1..Len(wire') : (\E j \in 1..Len(wire) : wire'[i] = wire[j]) \/ wire'[i] = e
         /\ \A j \in 1..Len(wire) : \E i \in 1..Len(wire') : wire'[i] = wire[j]
         /\ stream = "open" => \E i \in 1..Len(wire') : wire'[i] = e
<1>1. wire \in Seq(Event) /\ Len(wire) \in Nat /\ Len(wire) <= MaxWire /\ MaxWire \in Nat
  BY RealtimeTyped, RealtimeAssumption DEF RealtimeTypes, RealtimeInv, RealtimeTypeOK
<1>2. CASE stream # "open"
  BY <1>1, <1>2 DEF Emit
<1>3. CASE stream = "open"
  <2>1. wire' = Append(wire, e) /\ Len(wire) < MaxWire
    BY <1>3 DEF Emit
  <2>2. /\ wire' \in Seq(Event) /\ Len(wire') = Len(wire) + 1
        /\ \A i \in 1..Len(wire) : wire'[i] = wire[i]
        /\ wire'[Len(wire) + 1] = e
    BY <1>1, <2>1, AppendProperties
  <2> QED
    BY <1>1, <1>3, <2>1, <2>2
<1> QED
  BY <1>2, <1>3

LEMMA CommitKeeps ==
  ASSUME RealtimeInv, Commit
  PROVE  RealtimeInv'
<1>0. RealtimeTypes
  BY RealtimeTyped
<1>1. /\ db < MaxVersion /\ db' = db + 1 /\ db' \in 1..MaxVersion
      /\ UNCHANGED <<conn, streamVars, tabVars, queryVars>>
  BY <1>0 DEF Commit, RealtimeTypes
<1>2. /\ inbox' \in Seq(1..MaxVersion)
      /\ conn # "up" => inbox' = inbox
      /\ conn = "up" => inbox' # <<>> /\ inbox'[Len(inbox')] = db'
      /\ \A i \in 1..Len(inbox') : inbox'[i] <= db'
  <2>1. CASE conn # "up"
    BY <1>0, <1>1, <2>1 DEF Commit, RealtimeTypes, RealtimeInv, Ways
  <2>2. CASE conn = "up"
    <3>1. PICK n \in 1..2 : inbox' = inbox \o [i \in 1..n |-> db + 1]
      BY <2>2 DEF Commit
    <3> DEFINE s == [i \in 1..n |-> db + 1]
    <3>2. s \in Seq(1..MaxVersion) /\ Len(s) = n /\ \A i \in 1..n : s[i] = db'
      BY <1>1
    <3> HIDE DEF s
    <3>3. /\ inbox' \in Seq(1..MaxVersion) /\ Len(inbox') = Len(inbox) + Len(s)
          /\ \A i \in 1..Len(inbox) + Len(s) :
               inbox'[i] = IF i <= Len(inbox) THEN inbox[i] ELSE s[i - Len(inbox)]
      <4> DEFINE both == inbox \o s
      <4>1. inbox \in Seq(1..MaxVersion) /\ inbox' = both
        BY <1>0, <3>1 DEF RealtimeTypes, s
      <4>2. s \in Seq(1..MaxVersion)
        BY <3>2
      <4>3. /\ both \in Seq(1..MaxVersion) /\ Len(both) = Len(inbox) + Len(s)
            /\ \A i \in 1..Len(inbox) + Len(s) :
                 both[i] = IF i <= Len(inbox) THEN inbox[i] ELSE s[i - Len(inbox)]
        BY <4>1, <4>2, ConcatProperties
      <4> HIDE DEF both
      <4> QED
        BY <4>1, <4>3
    <3>4. inbox'[Len(inbox')] = db' /\ Len(inbox') > 0
      <4> DEFINE last == Len(inbox) + n
      <4>1. /\ last \in 1..last /\ ~(last <= Len(inbox))
            /\ last - Len(inbox) = n /\ n \in 1..n /\ last > 0
        BY <1>0 DEF RealtimeTypes
      <4>2. Len(inbox') = last
        BY <3>2, <3>3
      <4>3. inbox'[last] = IF last <= Len(inbox) THEN inbox[last] ELSE s[last - Len(inbox)]
        BY <3>2, <3>3, <4>1
      <4> HIDE DEF last
      <4>4. inbox'[last] = s[n] /\ s[n] = db'
        BY <3>2, <4>1, <4>3
      <4> QED
        BY <4>1, <4>2, <4>4
    <3>5. \A i \in 1..Len(inbox) : inbox[i] <= db /\ inbox[i] \in Int
      BY <1>0, ElementOfSeq DEF RealtimeTypes, RealtimeInv, Ways
    <3>6. \A i \in 1..Len(inbox') : inbox'[i] <= db'
      <4> SUFFICES ASSUME NEW i \in 1..Len(inbox') PROVE inbox'[i] <= db'
        OBVIOUS
      <4>1. CASE i <= Len(inbox)
        <5>1. i \in 1..Len(inbox) /\ i \in 1..Len(inbox) + Len(s)
          BY <1>0, <3>2, <3>3, <4>1 DEF RealtimeTypes
        <5>2. inbox'[i] = inbox[i]
          BY <3>3, <4>1, <5>1
        <5>3. inbox[i] <= db /\ inbox[i] \in Int
          BY <3>5, <5>1
        <5> QED
          BY <1>0, <1>1, <5>2, <5>3 DEF RealtimeTypes
      <4>2. CASE i > Len(inbox)
        <5>1. i - Len(inbox) \in 1..n /\ i \in 1..Len(inbox) + Len(s)
          BY <1>0, <3>2, <3>3, <4>2 DEF RealtimeTypes
        <5>2. ~(i <= Len(inbox))
          BY <1>0, <4>2 DEF RealtimeTypes
        <5>3. inbox'[i] = db'
          BY <3>2, <3>3, <5>1, <5>2
        <5> QED
          BY <1>0, <1>1, <5>3 DEF RealtimeTypes
      <4> QED
        BY <1>0, <4>1, <4>2 DEF RealtimeTypes
    <3>7. inbox' # <<>>
      BY <3>4, EmptySeq
    <3> QED
      BY <2>2, <3>3, <3>4, <3>6, <3>7
  <2> QED
    BY <2>1, <2>2
<1>3. RealtimeTypeOK'
  BY <1>0, <1>1, <1>2 DEF RealtimeTypes, RealtimeInv, RealtimeTypeOK, streamVars, tabVars, queryVars
<1>4. Ways'
  <2>1. /\ conn' = conn /\ stream' = stream /\ wire' = wire /\ pending' = pending /\ seen' = seen
    BY <1>1 DEF streamVars, tabVars
  <2>2. \A i \in 1..Len(wire) : wire[i].ev = "change" => wire[i].x \in 1..db'
    BY <1>0, <1>1 DEF RealtimeTypes, RealtimeInv, Ways
  <2>3. pending <= db' /\ seen \subseteq 1..db'
    BY <1>0, <1>1 DEF RealtimeTypes, RealtimeInv, Ways
  <2> QED
    BY <1>2, <2>1, <2>2, <2>3 DEF RealtimeInv, Ways
<1>5. Heard'
  BY <1>1 DEF RealtimeInv, Heard, Pending, streamVars, tabVars, queryVars
<1>6. Told'
  <2>1. db' \notin seen'
    BY <1>0, <1>1 DEF RealtimeTypes, RealtimeInv, Ways, tabVars
  <2>2. Tuned' => Noticed'
    BY <1>1, <1>2, <2>1 DEF Tuned, Noticed
  <2> QED
    BY <2>1, <2>2 DEF Told
<1> QED
  BY <1>3, <1>4, <1>5, <1>6 DEF RealtimeInv

LEMMA NotificationKeeps ==
  ASSUME RealtimeInv, Notification
  PROVE  RealtimeInv'
<1>0. RealtimeTypes
  BY RealtimeTyped
<1>1. /\ inbox # <<>> /\ inbox' = Tail(inbox)
      /\ pending' = IF stream = "open" THEN Head(inbox) ELSE pending
      /\ UNCHANGED <<db, conn, stream, wire, tabVars, queryVars>>
  BY DEF Notification
<1>2. /\ Len(inbox) \in Nat \ {0} /\ Head(inbox) = inbox[1] /\ inbox[1] \in 1..MaxVersion
      /\ inbox' \in Seq(1..MaxVersion) /\ Len(inbox') = Len(inbox) - 1
      /\ \A i \in 1..Len(inbox') : inbox'[i] = inbox[i + 1]
      /\ inbox' = <<>> <=> Len(inbox) = 1
  BY <1>0, <1>1, Behead DEF RealtimeTypes
<1>3. RealtimeTypeOK'
  BY <1>1, <1>2 DEF RealtimeInv, RealtimeTypeOK, tabVars, queryVars
<1>4. /\ \A i \in 1..Len(inbox) : inbox[i] <= db
      /\ inbox[Len(inbox)] = db /\ conn = "up"
  BY <1>1 DEF RealtimeInv, Ways
<1>5. Ways'
  <2>1. \A i \in 1..Len(inbox') : inbox'[i] <= db
    BY <1>2, <1>4
  <2>2. inbox' # <<>> => inbox'[Len(inbox')] = db
    BY <1>2, <1>4
  <2>3. pending' <= db
    BY <1>1, <1>2, <1>4 DEF RealtimeInv, Ways
  <2> QED
    BY <1>1, <1>4, <2>1, <2>2, <2>3 DEF RealtimeInv, Ways, tabVars
<1>6. Heard'
  BY <1>1 DEF RealtimeInv, Heard, Pending, tabVars, queryVars
<1>7. Told'
  <2>1. Own' = Own /\ Hello' = Hello /\ blind' = blind /\ db' = db /\ seen' = seen
        /\ Tuned' = Tuned /\ fetch' = fetch /\ data' = data
    BY <1>1 DEF Own, Hello, Tuned, tabVars, queryVars
  <2>2. Tuned /\ Noticed => Noticed'
    <3> SUFFICES ASSUME Tuned, Noticed PROVE Noticed'
      OBVIOUS
    <3>1. CASE Len(inbox) = 1
      BY <1>1, <1>2, <1>4, <2>1, <3>1 DEF Tuned, Noticed
    <3>2. CASE Len(inbox) # 1
      BY <1>2, <2>1, <3>2 DEF Noticed
    <3> QED
      BY <3>1, <3>2
  <2> QED
    BY <2>1, <2>2 DEF RealtimeInv, Told
<1> QED
  BY <1>3, <1>5, <1>6, <1>7 DEF RealtimeInv

\* The connection is lost, or not noticed to be; the screens are told.
LEMMA LostKeeps ==
  ASSUME RealtimeInv, Silent \/ Lost \/ Listen
  PROVE  RealtimeInv'
<1>0. RealtimeTypes
  BY RealtimeTyped
<1>1. UNCHANGED <<db, stream, pending, tabVars, blind>>
  BY DEF Silent, Lost, Listen, hubVars, streamVars, queryVars
<1>2. <<>> \in Seq(1..MaxVersion) /\ Len(<<>>) = 0
  BY EmptySeq
<1>3. CASE Silent
  <2>1. conn = "up" /\ conn' = "silent" /\ inbox' = <<>> /\ UNCHANGED <<wire, fetch, data>>
    BY <1>3 DEF Silent, streamVars, queryVars
  <2>2. RealtimeTypeOK'
    BY <1>1, <1>2, <2>1 DEF RealtimeInv, RealtimeTypeOK, tabVars
  <2>3. Ways'
    BY <1>1, <1>2, <2>1 DEF RealtimeInv, Ways, tabVars
  <2>4. Heard'
    BY <1>1, <2>1 DEF RealtimeInv, Heard, Pending
  <2>5. Told'
    BY <1>1, <2>1 DEF RealtimeInv, Told, Own, Tuned, tabVars
  <2> QED
    BY <2>2, <2>3, <2>4, <2>5 DEF RealtimeInv
<1>4. CASE Lost
  <2> DEFINE e == Ev("degraded", 0)
  <2>1. /\ conn' = "down" /\ inbox' = <<>> /\ Emit(e)
        /\ fetch' = [fetch EXCEPT !.heard = FALSE] /\ data' = [data EXCEPT !.heard = FALSE]
    BY <1>4 DEF Lost
  <2>2. e \in Event /\ e.ev = "degraded"
    BY RealtimeAssumption DEF Event, Ev
  <2> HIDE DEF e
  <2>3. /\ wire' \in Seq(Event) /\ Len(wire') <= MaxWire
        /\ stream # "open" => wire' = wire
        /\ \A i \in 1..Len(wire') : (\E j \in 1..Len(wire) : wire'[i] = wire[j]) \/ wire'[i] = e
    BY <1>1, <2>1, <2>2, EmitKeeps
  <2>4. /\ fetch'.pc = fetch.pc /\ fetch'.ver = fetch.ver /\ fetch'.again = fetch.again
        /\ ~fetch'.heard /\ data'.ver = data.ver /\ ~data'.heard
    BY <2>1 DEF RealtimeInv, RealtimeTypeOK
  <2>5. RealtimeTypeOK'
    BY <1>1, <1>2, <2>1, <2>3 DEF RealtimeInv, RealtimeTypeOK, tabVars
  <2>6. Ways'
    <3>1. \A i \in 1..Len(wire') : wire'[i].ev = "change" => wire'[i].x \in 1..db
      BY <2>2, <2>3 DEF RealtimeInv, Ways
    <3> QED
      BY <1>1, <1>2, <2>1, <2>3, <3>1 DEF RealtimeInv, Ways, tabVars
  <2>7. Heard'
    BY <2>4 DEF Heard
  <2>8. Told'
    BY <1>1, <2>1, <2>4 DEF RealtimeInv, Told, Own, Tuned, tabVars
  <2> QED
    BY <2>5, <2>6, <2>7, <2>8 DEF RealtimeInv
<1>5. CASE Listen
  <2> DEFINE e == Ev("live", 0)
  <2>1. /\ conn = "down" /\ conn' = "up" /\ Emit(e) /\ UNCHANGED <<inbox, fetch, data>>
    BY <1>5 DEF Listen, queryVars
  <2>2. e \in Event /\ e.ev = "live"
    BY RealtimeAssumption DEF Event, Ev
  <2> HIDE DEF e
  <2>3. /\ wire' \in Seq(Event) /\ Len(wire') <= MaxWire
        /\ stream # "open" => wire' = wire
        /\ \A i \in 1..Len(wire') : (\E j \in 1..Len(wire) : wire'[i] = wire[j]) \/ wire'[i] = e
        /\ stream = "open" => \E i \in 1..Len(wire') : wire'[i] = e
    BY <1>1, <2>1, <2>2, EmitKeeps
  <2>4. RealtimeTypeOK'
    BY <1>1, <2>1, <2>3 DEF RealtimeInv, RealtimeTypeOK, tabVars
  <2>5. Ways'
    <3>1. \A i \in 1..Len(wire') : wire'[i].ev = "change" => wire'[i].x \in 1..db
      BY <2>2, <2>3 DEF RealtimeInv, Ways
    <3>2. inbox = <<>>
      BY <2>1 DEF RealtimeInv, Ways
    <3> QED
      BY <1>1, <1>2, <2>1, <2>3, <3>1, <3>2 DEF RealtimeInv, Ways, tabVars
  <2>6. ~fetch.heard /\ ~data.heard
    BY <2>1 DEF RealtimeInv, Heard
  <2>7. Heard'
    BY <2>1, <2>6 DEF Heard
  <2>8. Tuned' => Hello'
    BY <1>1, <2>2, <2>3 DEF Tuned, Hello, Greets
  <2>9. Told'
    BY <1>1, <2>1, <2>6, <2>8 DEF RealtimeInv, Told, Own, tabVars
  <2> QED
    BY <2>4, <2>5, <2>7, <2>9 DEF RealtimeInv
<1> QED
  BY <1>3, <1>4, <1>5

LEMMA FlushKeeps ==
  ASSUME RealtimeInv, Flush
  PROVE  RealtimeInv'
<1>0. RealtimeTypes
  BY RealtimeTyped
<1> DEFINE e == Ev("change", pending)
<1>1. /\ pending # 0 /\ Emit(e) /\ pending' = 0
      /\ UNCHANGED <<hubVars, stream, tabVars, queryVars>>
  BY DEF Flush
<1>2. /\ e \in Event /\ e.ev = "change" /\ e.x = pending /\ pending \in 1..db /\ stream = "open"
  BY <1>0, <1>1 DEF RealtimeTypes, RealtimeInv, RealtimeTypeOK, Ways, Event, Ev
<1>3. /\ wire' \in Seq(Event) /\ Len(wire') <= MaxWire
      /\ \A i \in 1..Len(wire') : (\E j \in 1..Len(wire) : wire'[i] = wire[j]) \/ wire'[i] = e
      /\ \A j \in 1..Len(wire) : \E i \in 1..Len(wire') : wire'[i] = wire[j]
      /\ \E i \in 1..Len(wire') : wire'[i] = e
  BY <1>1, <1>2, EmitKeeps
<1>4. RealtimeTypeOK'
  <2>1. pending' \in 0..MaxVersion
    BY <1>0, <1>1 DEF RealtimeTypes
  <2> QED
    BY <1>1, <1>3, <2>1 DEF RealtimeInv, RealtimeTypeOK, hubVars, tabVars, queryVars
<1>5. Ways'
  <2> HIDE DEF e
  <2>1. \A i \in 1..Len(wire') : wire'[i].ev = "change" => wire'[i].x \in 1..db
    BY <1>2, <1>3 DEF RealtimeInv, Ways
  <2>2. pending' <= db
    BY <1>0, <1>1 DEF RealtimeTypes
  <2> QED
    BY <1>1, <1>2, <2>1, <2>2 DEF RealtimeInv, Ways, hubVars, tabVars
<1>6. Heard'
  BY <1>1 DEF RealtimeInv, Heard, Pending, hubVars, queryVars
<1>7. Told'
  <2>1. /\ Own' = Own /\ blind' = blind /\ db' = db /\ seen' = seen /\ inbox' = inbox
        /\ Tuned' = Tuned /\ fetch' = fetch /\ data' = data
    BY <1>1 DEF Own, Tuned, hubVars, tabVars, queryVars
  <2>2. Noticed => Noticed'
    BY <1>3, <2>1 DEF Noticed
  <2>3. Hello => Hello'
    BY <1>3 DEF Hello
  <2> QED
    BY <2>1, <2>2, <2>3 DEF RealtimeInv, Told
<1> QED
  BY <1>4, <1>5, <1>6, <1>7 DEF RealtimeInv

LEMMA StreamKeeps ==
  ASSUME RealtimeInv, Accept \/ EndStream \/ ConnectStream
  PROVE  RealtimeInv'
<1>0. RealtimeTypes
  BY RealtimeTyped
<1>1. UNCHANGED <<hubVars, visible, dirty, timer, seen, blind>>
  BY DEF Accept, EndStream, ConnectStream, tabVars, queryVars
<1>2. <<>> \in Seq(Event) /\ Len(<<>>) = 0 /\ 0 \in 0..MaxVersion /\ 0 <= MaxWire
  BY EmptySeq, RealtimeAssumption
<1>3. CASE Accept
  <2> DEFINE e == Ev("ready", IF conn # "down" THEN 1 ELSE 0)
  <2>1. /\ stream = "asked" /\ stream' = "open" /\ wire' = <<e>> /\ pending' = 0
        /\ UNCHANGED <<status, fetch, data>>
    BY <1>3 DEF Accept, tabVars, queryVars
  <2>2. e \in Event /\ e.ev = "ready" /\ (conn = "up" => e = Ev("ready", 1))
    BY RealtimeAssumption DEF Event, Ev
  <2> HIDE DEF e
  <2>3. wire' \in Seq(Event) /\ Len(wire') = 1 /\ wire'[1] = e /\ 1 <= MaxWire
    BY <2>1, <2>2, RealtimeAssumption
  <2>4. RealtimeTypeOK'
    BY <1>1, <1>2, <2>1, <2>3 DEF RealtimeInv, RealtimeTypeOK, hubVars
  <2>5. Ways'
    <3>1. \A i \in 1..Len(wire') : wire'[i].ev # "change"
      BY <2>2, <2>3
    <3>2. pending' <= db'
      BY <1>0, <1>1, <2>1 DEF RealtimeTypes, hubVars
    <3> QED
      BY <1>1, <2>1, <3>1, <3>2 DEF RealtimeInv, Ways, hubVars
  <2>6. ~fetch.heard /\ ~data.heard
    BY <2>1 DEF RealtimeInv, Heard
  <2>7. Heard'
    BY <2>1, <2>6 DEF Heard
  <2>8. Tuned' => Hello'
    BY <1>1, <2>2, <2>3 DEF Tuned, Hello, Greets, hubVars
  <2>9. Told'
    BY <1>1, <2>1, <2>6, <2>8 DEF RealtimeInv, Told, Own, hubVars
  <2> QED
    BY <2>4, <2>5, <2>7, <2>9 DEF RealtimeInv
<1>4. CASE EndStream
  <2>1. /\ stream' = "closed" /\ pending' = 0 /\ wire' = <<>> /\ status' = "connecting"
        /\ UNCHANGED <<fetch, data>>
    BY <1>4 DEF EndStream, queryVars
  <2>2. RealtimeTypeOK'
    BY <1>1, <1>2, <2>1 DEF RealtimeInv, RealtimeTypeOK, hubVars
  <2>3. Ways'
    BY <1>0, <1>1, <1>2, <2>1 DEF RealtimeTypes, RealtimeInv, Ways, hubVars
  <2>4. Heard'
    BY <1>1, <2>1 DEF RealtimeInv, Heard, Pending, hubVars
  <2>5. Told'
    BY <1>1, <2>1 DEF RealtimeInv, Told, Own, Tuned, hubVars
  <2> QED
    BY <2>2, <2>3, <2>4, <2>5 DEF RealtimeInv
<1>5. CASE ConnectStream
  <2>1. PICK b \in BOOLEAN : fetch' = [fetch EXCEPT !.recent = b /\ Pending, !.heard = FALSE]
    BY <1>5 DEF ConnectStream
  <2>2. /\ stream = "closed" /\ stream' = "asked" /\ status' = "connecting"
        /\ data' = [data EXCEPT !.after = FALSE, !.heard = FALSE]
        /\ UNCHANGED <<pending, wire>>
    BY <1>5 DEF ConnectStream
  <2>3. /\ fetch'.pc = fetch.pc /\ fetch'.ver = fetch.ver /\ fetch'.again = fetch.again
        /\ ~fetch'.heard /\ data'.ver = data.ver /\ ~data'.heard
    BY <2>1, <2>2 DEF RealtimeInv, RealtimeTypeOK
  <2>4. RealtimeTypeOK'
    <3>1. (b /\ Pending) \in BOOLEAN
      OBVIOUS
    <3>2. fetch' \in [pc : {"asked", "answer", "done", "failed"}, ver : 0..MaxVersion,
                      recent : BOOLEAN, again : BOOLEAN, heard : BOOLEAN]
      BY <2>1, <3>1 DEF RealtimeInv, RealtimeTypeOK
    <3>3. data' \in [ver : 0..MaxVersion, after : BOOLEAN, heard : BOOLEAN]
      BY <2>2 DEF RealtimeInv, RealtimeTypeOK
    <3> QED
      BY <1>1, <2>2, <3>2, <3>3 DEF RealtimeInv, RealtimeTypeOK, hubVars
  <2>5. Ways'
    BY <1>1, <2>2 DEF RealtimeInv, Ways, hubVars
  <2>6. Heard'
    BY <2>3 DEF Heard
  <2>7. Told'
    BY <1>1, <2>2, <2>3 DEF RealtimeInv, Told, Own, Tuned, hubVars
  <2> QED
    BY <2>4, <2>5, <2>6, <2>7 DEF RealtimeInv
<1> QED
  BY <1>3, <1>4, <1>5

----------------------------------------------------------------------------
(* The tab.                                                                 *)

\* The tab and its query move; the hub and the stream rest.
LEMMA TabMoves ==
  ASSUME RealtimeInv, UNCHANGED <<hubVars, streamVars, seen>>, RealtimeTypeOK',
         Own => Own', blind => blind' \/ Own',
         fetch'.heard => Pending' /\ (fetch.heard \/ Own') /\ (fetch.heard \/ Hears),
         data'.heard => fetch.heard \/ data.heard
  PROVE  RealtimeInv'
<1>1. Ways'
  BY DEF RealtimeInv, Ways, hubVars, streamVars
<1>2. Heard'
  BY DEF RealtimeInv, Heard, Hears, hubVars, streamVars
<1>3. /\ Noticed' = Noticed /\ Hello' = Hello /\ Tuned' = Tuned
      /\ UNCHANGED <<db, seen>>
  BY DEF Noticed, Hello, Tuned, hubVars, streamVars
<1>4. Told'
  BY <1>3 DEF RealtimeInv, Told
<1> QED
  BY <1>1, <1>2, <1>4 DEF RealtimeInv

FetchRow == [pc : {"asked", "answer", "done", "failed"}, ver : 0..MaxVersion,
             recent : BOOLEAN, again : BOOLEAN, heard : BOOLEAN]

LEMMA Queries ==
  /\ Begun \in FetchRow /\ Begun.pc = "asked" /\ Begun.heard = Hears
  /\ \A how \in {"done", "failed"} :
       Ended(how) \in FetchRow /\ Ended(how).pc = how /\ ~Ended(how).heard
<1>1. 0 \in 0..MaxVersion /\ Hears \in BOOLEAN /\ (stream # "closed") \in BOOLEAN
  BY RealtimeAssumption DEF Hears
<1> QED
  BY <1>1 DEF Begun, Ended, FetchRow

LEMMA TabKeeps ==
  ASSUME RealtimeInv, Hide \/ Show \/ Refetch
  PROVE  RealtimeInv'
<1>0. RealtimeTypes
  BY RealtimeTyped
<1>1. UNCHANGED <<hubVars, streamVars, seen, status, data>>
  BY DEF Hide, Show, Refetch, queryVars
<1>2. CASE Hide \/ Show
  <2>1. /\ UNCHANGED <<fetch, blind>> /\ visible' \in BOOLEAN /\ timer' \in BOOLEAN /\ dirty' \in BOOLEAN
        /\ timer \/ dirty => timer' \/ dirty'
    BY <1>0, <1>2 DEF RealtimeTypes, Hide, Show, queryVars
  <2>2. RealtimeTypeOK'
    BY <1>0, <1>1, <2>1 DEF RealtimeTypes, RealtimeInv, RealtimeTypeOK, hubVars, streamVars
  <2>3. db' = db /\ data' = data /\ (fetch.heard => Pending)
    BY <1>1 DEF hubVars, RealtimeInv, Heard
  <2> QED
    BY <1>1, <2>1, <2>2, <2>3, TabMoves DEF Own, Pending
<1>3. CASE Refetch
  <2>1. /\ fetch' = (IF Pending THEN [fetch EXCEPT !.again = TRUE] ELSE Begun)
        /\ timer' = FALSE /\ blind' = (Pending /\ blind) /\ UNCHANGED <<visible, dirty>>
    BY <1>3 DEF Refetch, Invalidated
  <2>2. fetch \in FetchRow
    BY DEF RealtimeInv, RealtimeTypeOK, FetchRow
  <2>3. /\ fetch' \in FetchRow
        /\ Pending => fetch'.pc = fetch.pc /\ fetch'.again /\ fetch'.heard = fetch.heard
        /\ ~Pending => fetch'.pc = "asked" /\ (fetch'.heard => Hears)
    BY <2>1, <2>2, Queries DEF FetchRow
  <2>4. Own' /\ (fetch'.heard => Pending')
    BY <2>3 DEF Own, Pending
  <2>5. RealtimeTypeOK'
    <3>1. timer' \in BOOLEAN /\ blind' \in BOOLEAN
      BY <2>1
    <3> QED
      BY <1>0, <1>1, <2>1, <2>3, <3>1
         DEF RealtimeTypes, RealtimeInv, RealtimeTypeOK, FetchRow, hubVars, streamVars
  <2> QED
    BY <1>1, <2>3, <2>4, <2>5, TabMoves
<1> QED
  BY <1>2, <1>3

LEMMA QueryKeeps ==
  ASSUME RealtimeInv, Begin \/ Read \/ Arrive \/ Fail
  PROVE  RealtimeInv'
<1>0. RealtimeTypes /\ fetch \in FetchRow
  BY RealtimeTyped DEF RealtimeInv, RealtimeTypeOK, FetchRow
<1>1. UNCHANGED <<hubVars, streamVars, tabVars>>
  BY DEF Begin, Read, Arrive, Fail
<1>2. UNCHANGED <<db, seen, timer, dirty>>
  BY <1>1 DEF hubVars, tabVars
<1>3. ASSUME fetch' \in FetchRow, blind' \in BOOLEAN,
             data' \in [ver : 0..MaxVersion, after : BOOLEAN, heard : BOOLEAN]
      PROVE  RealtimeTypeOK'
  BY <1>0, <1>1, <1>3 DEF RealtimeTypes, RealtimeInv, RealtimeTypeOK, FetchRow, hubVars, streamVars, tabVars
<1>4. data \in [ver : 0..MaxVersion, after : BOOLEAN, heard : BOOLEAN]
  BY DEF RealtimeInv, RealtimeTypeOK
<1>5. CASE Begin
  <2>1. fetch' = Begun /\ blind' = FALSE /\ UNCHANGED data
    BY <1>5 DEF Begin
  <2>2. RealtimeTypeOK'
    BY <1>3, <1>4, <2>1, Queries
  <2>3. Own' /\ (fetch'.heard => Pending' /\ Hears)
    BY <2>1, Queries DEF Own, Pending
  <2> QED
    BY <1>1, <2>1, <2>2, <2>3, TabMoves DEF tabVars
<1>6. CASE Read
  <2>1. fetch.pc = "asked" /\ fetch' = [fetch EXCEPT !.pc = "answer", !.ver = db] /\ UNCHANGED <<data, blind>>
    BY <1>6 DEF Read
  <2>2. /\ fetch' \in FetchRow /\ fetch'.pc = "answer" /\ fetch'.ver = db
        /\ fetch'.heard = fetch.heard
    <3>1. db \in 0..MaxVersion
      BY DEF RealtimeInv, RealtimeTypeOK
    <3>2. fetch' \in FetchRow
      BY <1>0, <2>1, <3>1 DEF FetchRow
    <3>3. fetch'.pc = "answer" /\ fetch'.ver = db /\ fetch'.heard = fetch.heard
      BY <1>0, <2>1 DEF FetchRow
    <3> QED
      BY <3>2, <3>3
  <2>3. RealtimeTypeOK'
    BY <1>0, <1>3, <1>4, <2>1, <2>2 DEF RealtimeTypes
  <2>4. Own' /\ Pending'
    BY <1>2, <2>2 DEF Own, Pending
  <2> QED
    BY <1>1, <2>1, <2>2, <2>3, <2>4, TabMoves DEF tabVars
<1>7. CASE Arrive
  <2>1. /\ fetch.pc = "answer" /\ blind' = (blind /\ ~fetch.again)
        /\ data' = [ver |-> fetch.ver, after |-> TRUE, heard |-> fetch.heard]
        /\ fetch' = IF fetch.again THEN Begun ELSE Ended("done")
    BY <1>7 DEF Arrive
  <2>2. /\ data' \in [ver : 0..MaxVersion, after : BOOLEAN, heard : BOOLEAN]
        /\ data'.ver = fetch.ver /\ data'.heard = fetch.heard
    BY <1>0, <2>1 DEF FetchRow
  <2>3. /\ fetch' \in FetchRow
        /\ fetch.again => fetch'.pc = "asked" /\ (fetch'.heard => Hears)
        /\ ~fetch.again => fetch'.pc = "done" /\ ~fetch'.heard
    BY <2>1, Queries
  <2>4. RealtimeTypeOK'
    BY <1>3, <2>1, <2>2, <2>3
  <2>5. /\ Own => Own'
        /\ fetch.again => Own' /\ Pending'
    BY <1>2, <2>1, <2>2, <2>3 DEF Own, Pending
  <2>6. blind => blind' \/ Own'
    BY <2>1, <2>5
  <2> QED
    BY <1>1, <2>2, <2>3, <2>4, <2>5, <2>6, TabMoves DEF tabVars
<1>8. CASE Fail
  <2>1. /\ blind' = (blind /\ ~fetch.again) /\ UNCHANGED data
        /\ fetch' = IF fetch.again THEN Begun ELSE Ended("failed")
    BY <1>8 DEF Fail
  <2>2. /\ fetch' \in FetchRow /\ fetch'.pc \in {"asked", "failed"}
        /\ fetch'.heard => fetch'.pc = "asked" /\ Hears
    BY <2>1, Queries
  <2>3. RealtimeTypeOK'
    BY <1>3, <1>4, <2>1, <2>2
  <2>4. Own' /\ (fetch'.heard => Pending')
    BY <2>2 DEF Own, Pending
  <2> QED
    BY <1>1, <2>1, <2>2, <2>3, <2>4, TabMoves DEF tabVars
<1> QED
  BY <1>5, <1>6, <1>7, <1>8

LEMMA Scheduled ==
  ASSUME RealtimeInv, NEW w \in BOOLEAN, Schedule(w)
  PROVE  /\ timer' \in BOOLEAN /\ dirty' \in BOOLEAN
         /\ timer \/ dirty \/ w => timer' \/ dirty'
BY RealtimeTyped DEF RealtimeTypes, Schedule

\* What the tab takes for fresh was heard, or is counted in blind.
LEMMA Reconciled ==
  ASSUME RealtimeInv, NEW since, NEW recent \in BOOLEAN, Reconcile(since, recent),
         UNCHANGED <<fetch, data>>
  PROVE  /\ timer' \in BOOLEAN /\ dirty' \in BOOLEAN /\ blind' \in BOOLEAN
         /\ timer \/ dirty => timer' \/ dirty'
         /\ timer' \/ dirty' \/ blind' \/ fetch.heard \/ data.heard
<1> DEFINE asked == Pending /\ recent
           answered == since = "connect" /\ data.after
<1>1. /\ Schedule(~asked /\ ~answered)
      /\ blind' = IF asked THEN ~fetch.heard ELSE answered /\ ~data.heard
  BY DEF Reconcile
<1>2. (~asked /\ ~answered) \in BOOLEAN
  OBVIOUS
<1>3. /\ timer' \in BOOLEAN /\ dirty' \in BOOLEAN
      /\ timer \/ dirty \/ (~asked /\ ~answered) => timer' \/ dirty'
  BY <1>1, <1>2, Scheduled
<1>4. blind' \in BOOLEAN
  BY <1>1
<1>5. blind' \/ fetch.heard \/ data.heard \/ (~asked /\ ~answered)
  BY <1>1
<1> QED
  BY <1>3, <1>4, <1>5

LEMMA ReceiveKeeps ==
  ASSUME RealtimeInv, Receive
  PROVE  RealtimeInv'
<1>0. RealtimeTypes
  BY RealtimeTyped
<1> DEFINE e == Head(wire)
<1>1. /\ wire # <<>> /\ wire' = Tail(wire) /\ stream = "open"
      /\ UNCHANGED <<db, conn, inbox, stream, pending, visible, fetch, data>>
  BY DEF Receive, hubVars, RealtimeInv, Ways
<1>2. /\ Len(wire) \in Nat \ {0} /\ e = wire[1] /\ e \in Event
      /\ wire' \in Seq(Event) /\ Len(wire') = Len(wire) - 1
      /\ \A i \in 1..Len(wire') : wire'[i] = wire[i + 1]
  BY <1>0, <1>1, Behead DEF RealtimeTypes
<1>3. /\ \A i \in 1..Len(wire) : i = 1 \/ \E j \in 1..Len(wire') : wire'[j] = wire[i]
      /\ \A i \in 1..Len(wire') : \E j \in 1..Len(wire) : wire'[i] = wire[j]
  <2>1. ASSUME NEW i \in 1..Len(wire), i # 1 PROVE \E j \in 1..Len(wire') : wire'[j] = wire[i]
    <3>1. i - 1 \in 1..Len(wire') /\ (i - 1) + 1 = i
      BY <1>2, <2>1
    <3> QED
      BY <1>2, <3>1
  <2>2. ASSUME NEW i \in 1..Len(wire') PROVE \E j \in 1..Len(wire) : wire'[i] = wire[j]
    <3>1. i + 1 \in 1..Len(wire)
      BY <1>2
    <3> QED
      BY <1>2, <3>1
  <2> QED
    BY <2>1, <2>2
<1> HIDE DEF e
<1>4. /\ Hello => Hello' \/ Greets(e)
      /\ e.ev = "change" => e.x \in 1..db
      /\ e.ev \in {"ready", "live", "degraded", "change"}
  BY <1>1, <1>2, <1>3 DEF Hello, RealtimeInv, Ways, Event
<1>5. \A i \in 1..Len(wire') : wire'[i].ev = "change" => wire'[i].x \in 1..db
  BY <1>3 DEF RealtimeInv, Ways
<1>6. ASSUME UNCHANGED seen, e.ev # "change" PROVE Noticed => Noticed'
  <2>1. e # Ev("change", db)
    BY <1>6 DEF Ev
  <2> QED
    BY <1>1, <1>2, <1>3, <1>6, <2>1 DEF Noticed
<1>7. ASSUME status' \in {"connecting", "live"}, timer' \in BOOLEAN, dirty' \in BOOLEAN,
             blind' \in BOOLEAN, seen' \subseteq 1..db, Told'
      PROVE  RealtimeInv'
  <2>1. RealtimeTypeOK'
    <3>1. seen' \subseteq 1..MaxVersion
      BY <1>0, <1>7 DEF RealtimeTypes
    <3>2. Len(wire') <= MaxWire
      BY <1>2, RealtimeAssumption DEF RealtimeInv, RealtimeTypeOK
    <3>3. {visible, dirty, timer, blind}' \subseteq BOOLEAN
      BY <1>0, <1>1, <1>7 DEF RealtimeTypes
    <3> QED
      BY <1>1, <1>2, <1>7, <3>1, <3>2, <3>3 DEF RealtimeInv, RealtimeTypeOK
  <2>2. Ways'
    BY <1>1, <1>5, <1>7 DEF RealtimeInv, Ways
  <2>3. Heard'
    BY <1>1 DEF RealtimeInv, Heard, Pending
  <2> QED
    BY <1>7, <2>1, <2>2, <2>3 DEF RealtimeInv
<1>8. Tuned' = Tuned /\ seen \subseteq 1..db
  BY <1>1 DEF Tuned, RealtimeInv, Ways
<1>9. ASSUME timer \/ dirty => timer' \/ dirty' PROVE Own => Own'
  BY <1>1, <1>9 DEF Own
<1>10. timer' \/ dirty' => Own'
  BY DEF Own
<1>11. ASSUME NEW since, NEW recent \in BOOLEAN, Reconcile(since, recent), UNCHANGED seen,
              status' \in {"connecting", "live"}, e.ev # "change"
       PROVE  RealtimeInv'
  <2>1. /\ timer' \in BOOLEAN /\ dirty' \in BOOLEAN /\ blind' \in BOOLEAN
        /\ timer \/ dirty => timer' \/ dirty'
        /\ timer' \/ dirty' \/ blind' \/ fetch.heard \/ data.heard
    BY <1>1, <1>11, Reconciled
  <2>2. Own => Own'
    BY <1>9, <2>1
  <2>3. Told'
    <3>1. Tuned /\ (fetch.heard \/ data.heard) => Own' \/ Noticed'
      BY <1>6, <1>11, <2>2 DEF RealtimeInv, Told
    <3>2. db \in seen => Own'
      BY <2>2 DEF RealtimeInv, Told
    <3> QED
      BY <1>1, <1>8, <1>10, <1>11, <2>1, <3>1, <3>2 DEF Told
  <2> QED
    BY <1>7, <1>8, <1>11, <2>1, <2>3
<1>12. ASSUME UNCHANGED <<timer, dirty, blind, seen>>, status' \in {"connecting", "live"},
              e.ev # "change", ~Greets(e)
       PROVE  RealtimeInv'
  <2>1. Own => Own'
    BY <1>9, <1>12
  <2>2. Told'
    BY <1>1, <1>4, <1>6, <1>8, <1>12, <2>1 DEF RealtimeInv, Told
  <2> QED
    BY <1>0, <1>7, <1>8, <1>12, <2>2 DEF RealtimeTypes
<1>13. CASE e.ev = "ready"
  <2>1. /\ status' = IF e.x = 1 THEN "live" ELSE "connecting"
        /\ IF e.x = 1 THEN Reconcile("connect", fetch.recent)
                      ELSE UNCHANGED <<timer, dirty, blind>>
        /\ UNCHANGED seen
    BY <1>13 DEF Receive, e
  <2>2. fetch.recent \in BOOLEAN
    BY DEF RealtimeInv, RealtimeTypeOK
  <2>3. CASE e.x = 1
    BY <1>11, <1>13, <2>1, <2>2, <2>3
  <2>4. CASE e.x # 1
    <3>1. ~Greets(e)
      BY <1>13, <2>4 DEF Greets, Ev
    <3> QED
      BY <1>12, <1>13, <2>1, <2>4, <3>1
  <2> QED
    BY <2>3, <2>4
<1>14. CASE e.ev = "live"
  <2>1. /\ status' = "live" /\ UNCHANGED seen
        /\ \E b \in BOOLEAN : Reconcile("now", b)
    BY <1>14 DEF Receive, e
  <2> QED
    BY <1>11, <1>14, <2>1
<1>15. CASE e.ev = "degraded"
  <2>1. status' = "connecting" /\ UNCHANGED <<timer, dirty, blind, seen>>
    BY <1>15 DEF Receive, e
  <2>2. ~Greets(e)
    BY <1>15 DEF Greets, Ev
  <2> QED
    BY <1>12, <1>15, <2>1, <2>2
<1>16. CASE e.ev = "change"
  <2>1. Schedule(e.x \notin seen) /\ seen' = seen \cup {e.x} /\ UNCHANGED <<status, blind>>
    BY <1>16 DEF Receive, e
  <2>2. (e.x \notin seen) \in BOOLEAN
    OBVIOUS
  <2>3. /\ timer' \in BOOLEAN /\ dirty' \in BOOLEAN
        /\ timer \/ dirty => timer' \/ dirty'
        /\ e.x \notin seen => timer' \/ dirty'
    BY <2>1, <2>2, Scheduled
  <2>4. Own => Own'
    BY <1>9, <2>3
  <2>5. ~Greets(e)
    BY <1>16 DEF Greets, Ev
  <2>6. Told'
    <3>1. CASE e.x = db
      <4>1. Own'
        BY <1>10, <2>3, <2>4, <3>1 DEF RealtimeInv, Told
      <4> QED
        BY <4>1 DEF Told
    <3>2. CASE e.x # db
      <4>1. e # Ev("change", db)
        BY <3>2 DEF Ev
      <4>2. Noticed => Noticed'
        BY <1>1, <1>2, <1>3, <2>1, <3>2, <4>1 DEF Noticed
      <4>3. db' \in seen' => db \in seen
        BY <1>1, <2>1, <3>2
      <4> QED
        BY <1>1, <1>4, <1>8, <2>1, <2>4, <2>5, <4>2, <4>3 DEF RealtimeInv, Told
    <3> QED
      BY <3>1, <3>2
  <2>7. seen' \subseteq 1..db /\ status' \in {"connecting", "live"} /\ blind' \in BOOLEAN
    BY <1>0, <1>4, <1>8, <1>16, <2>1 DEF RealtimeTypes, RealtimeInv, RealtimeTypeOK
  <2> QED
    BY <1>7, <2>3, <2>6, <2>7
<1> QED
  BY <1>4, <1>13, <1>14, <1>15, <1>16

LEMMA RealtimeStep == RealtimeInv /\ [RealtimeNext]_realtimeVars => RealtimeInv'
<1> SUFFICES ASSUME RealtimeInv, [RealtimeNext]_realtimeVars PROVE RealtimeInv'
  OBVIOUS
<1>1. CASE UNCHANGED realtimeVars
  <2>1. RealtimeTypeOK'
    BY <1>1 DEF RealtimeInv, RealtimeTypeOK, realtimeVars, hubVars, streamVars, tabVars, queryVars
  <2>2. (Own => Own') /\ (fetch.heard => Pending')
    BY <1>1 DEF Own, Pending, Heard, RealtimeInv, realtimeVars, hubVars, tabVars, queryVars
  <2> QED
    BY <1>1, <2>1, <2>2, TabMoves DEF realtimeVars, tabVars, queryVars
<1>2. CASE RealtimeNext
  BY <1>2, CommitKeeps, NotificationKeeps, LostKeeps, FlushKeeps, StreamKeeps, TabKeeps,
     QueryKeeps, ReceiveKeeps DEF RealtimeNext
<1> QED
  BY <1>1, <1>2

\* While the tab is shown, nothing is kept for later.
Shown == visible => ~dirty

LEMMA ShownStep ==
  ASSUME RealtimeTypeOK, Shown, [RealtimeNext]_realtimeVars
  PROVE  Shown'
<1>0. visible \in BOOLEAN /\ dirty \in BOOLEAN
  BY DEF RealtimeTypeOK
<1>1. CASE UNCHANGED <<visible, dirty>>
  BY <1>1 DEF Shown
<1>2. CASE Hide \/ Show
  BY <1>0, <1>2 DEF Shown, Hide, Show
<1>3. CASE Receive
  <2>1. visible' = visible
    BY <1>3 DEF Receive
  <2>2. \/ UNCHANGED dirty \/ \E w \in BOOLEAN : Schedule(w)
    <3> DEFINE e == Head(wire)
    <3>1. e \in Event
      BY <1>3, Behead DEF RealtimeTypeOK, Receive
    <3>2. CASE e.ev = "ready"
      BY <1>3, <3>2 DEF Receive, Reconcile
    <3>3. CASE e.ev = "live"
      BY <1>3, <3>3 DEF Receive, Reconcile
    <3>4. CASE e.ev = "degraded"
      BY <1>3, <3>4 DEF Receive
    <3>5. CASE e.ev = "change"
      BY <1>3, <3>5 DEF Receive
    <3> QED
      BY <3>1, <3>2, <3>3, <3>4, <3>5 DEF Event
  <2>3. visible => dirty' = dirty
    BY <2>2 DEF Schedule
  <2> QED
    BY <2>1, <2>3 DEF Shown
<1>4. \/ UNCHANGED <<visible, dirty>> \/ Hide \/ Show \/ Receive
  BY DEF RealtimeNext, realtimeVars, tabVars, Commit, Notification, Silent, Lost, Listen, Flush,
         Accept, EndStream, ConnectStream, Refetch, Begin, Read, Arrive, Fail
<1> QED
  BY <1>1, <1>2, <1>3, <1>4

LEMMA FreshFollows == RealtimeInv /\ Shown => Fresh
<1> SUFFICES ASSUME RealtimeInv, Shown,
                    visible, stream = "open", conn = "up", inbox = <<>>, pending = 0,
                    wire = <<>>, ~timer, fetch.pc = "done", ~blind
             PROVE  data.ver = db
  BY DEF Fresh
<1>1. Len(wire) = 0
  BY EmptySeq
<1>2. ~Hello /\ ~Noticed
  BY <1>1 DEF Hello, Noticed
<1>3. Own
  BY <1>2 DEF RealtimeInv, Told, Tuned
<1> QED
  BY <1>3 DEF Own, Shown

----------------------------------------------------------------------------
(* The semaphore of the heavy reports.                                      *)

ReportsInv == ReportsTypeOK /\ SlotsExact

LEMMA HoldersFinite ==
  /\ IsFiniteSet(Holders) /\ Holders \subseteq Reports
  /\ Cardinality(Holders) \in 0..Cardinality(Reports) /\ Cardinality(Reports) \in Nat
<1>1. Holders \subseteq Reports
  BY ReportsAssumption DEF Holders
<1>2. IsFiniteSet(Holders) /\ Cardinality(Holders) <= Cardinality(Reports)
  BY <1>1, FS_Subset, ReportsAssumption
<1>3. Cardinality(Holders) \in Nat /\ Cardinality(Reports) \in Nat
  BY <1>2, FS_CardinalityType, ReportsAssumption
<1> QED
  BY <1>1, <1>2, <1>3

LEMMA ReportsStart == ReportsInit => ReportsInv
<1> SUFFICES ASSUME ReportsInit PROVE ReportsInv
  OBVIOUS
<1>1. Holders = {}
  BY ReportsAssumption DEF ReportsInit, Holders, Working
<1>2. Cardinality(Holders) = 0 /\ Len(<<>>) = 0 /\ <<>> \in Seq(Heavy)
  BY <1>1, FS_EmptySet, EmptySeq
<1>3. ReportsTypeOK
  BY <1>2, HoldersFinite DEF ReportsInit, ReportsTypeOK
<1>4. SlotsExact
  BY <1>2, ReportsAssumption DEF ReportsInit, SlotsExact
<1> QED
  BY <1>3, <1>4 DEF ReportsInv

\* A read goes from one place to another: nobody's slot moves.
LEMMA ReadMoves ==
  ASSUME ReportsInv, UNCHANGED semaphoreVars,
         at' \in [Reports -> {"idle", "waiting"} \cup Working],
         \A r \in Reports : at'[r] = at[r] \/ (at[r] \in Working /\ at'[r] \in Working),
         health' \in [healthy : BOOLEAN, checked : BOOLEAN],
         probing' \in {"none", "asked", "healthy", "unhealthy"},
         replica' \in {"up", "behind", "down", "silent"}
  PROVE  ReportsInv'
<1>1. \A r \in Reports : /\ at'[r] \in Working <=> at[r] \in Working
                         /\ at'[r] = "waiting" <=> at[r] = "waiting"
  BY DEF Working
<1>2. Holders' = Holders
  BY <1>1, ReportsAssumption DEF Holders
<1>3. {r \in Reports : at'[r] = "waiting"} = {r \in Reports : at[r] = "waiting"}
  BY <1>1
<1>4. inUse' = inUse /\ waiting' = waiting
  BY DEF semaphoreVars
<1>5. ReportsTypeOK'
  BY <1>4 DEF ReportsInv, ReportsTypeOK
<1>6. SlotsExact'
  BY <1>2, <1>3, <1>4 DEF ReportsInv, SlotsExact
<1> QED
  BY <1>5, <1>6 DEF ReportsInv

LEMMA RemovedAt ==
  ASSUME NEW S, NEW s \in Seq(S), NEW k \in 1..Len(s)
  PROVE  /\ Seqs!RemoveAt(s, k) \in Seq(S) /\ Len(Seqs!RemoveAt(s, k)) = Len(s) - 1
         /\ \A i \in 1..(Len(s) - 1) :
              Seqs!RemoveAt(s, k)[i] = IF i < k THEN s[i] ELSE s[i + 1]
<1> DEFINE a == SubSeq(s, 1, k - 1)
           b == SubSeq(s, k + 1, Len(s))
<1>0. Len(s) \in Nat /\ k \in Nat /\ 1 <= k /\ k <= Len(s)
  BY LenProperties
<1>1. a \in Seq(S) /\ Len(a) = k - 1 /\ \A i \in 1..(k - 1) : a[i] = s[i]
  <2>1. \A i \in 1..(k - 1) : i \in 1..Len(s) /\ s[i] \in S
    BY <1>0, ElementOfSeq
  <2> QED
    BY <1>0, <2>1, SubSeqProperties
<1>2. b \in Seq(S) /\ Len(b) = Len(s) - k /\ \A i \in 1..(Len(s) - k) : b[i] = s[i + k]
  <2>1. \A i \in (k + 1)..Len(s) : i \in 1..Len(s) /\ s[i] \in S
    BY <1>0, ElementOfSeq
  <2> QED
    BY <1>0, <2>1, SubSeqProperties
<1> HIDE DEF a, b
<1>3. /\ a \o b \in Seq(S) /\ Len(a \o b) = Len(a) + Len(b)
      /\ \A i \in 1..(Len(a) + Len(b)) :
           (a \o b)[i] = IF i <= Len(a) THEN a[i] ELSE b[i - Len(a)]
  BY <1>1, <1>2, ConcatProperties
<1>4. Len(a) + Len(b) = Len(s) - 1
  BY <1>0, <1>1, <1>2
<1>5. ASSUME NEW i \in 1..(Len(s) - 1)
      PROVE  (a \o b)[i] = IF i < k THEN s[i] ELSE s[i + 1]
  <2>1. CASE i < k
    <3>1. i \in 1..(k - 1) /\ i <= Len(a)
      BY <1>0, <1>1, <2>1
    <3> QED
      BY <1>1, <1>3, <1>4, <2>1, <3>1
  <2>2. CASE ~(i < k)
    <3>1. i - Len(a) \in 1..(Len(s) - k) /\ ~(i <= Len(a)) /\ (i - Len(a)) + k = i + 1
      BY <1>0, <1>1, <2>2
    <3> QED
      BY <1>2, <1>3, <1>4, <2>2, <3>1
  <2> QED
    BY <2>1, <2>2
<1>6. Seqs!RemoveAt(s, k) = a \o b
  BY DEF Seqs!RemoveAt, a, b
<1> QED
  BY <1>3, <1>4, <1>5, <1>6

Those(s) == {s[i] : i \in 1..Len(s)}
EachOnce(s) == \A i, j \in 1..Len(s) : i # j => s[i] # s[j]

\* A queue without one of its places: without whoever had it, the others each once.
LEMMA QueueWithout ==
  ASSUME NEW S, NEW s \in Seq(S), NEW t \in Seq(S), NEW k \in 1..Len(s),
         Len(t) = Len(s) - 1,
         \A i \in 1..(Len(s) - 1) : t[i] = IF i < k THEN s[i] ELSE s[i + 1],
         EachOnce(s)
  PROVE  Those(t) = Those(s) \ {s[k]} /\ EachOnce(t)
<1> DEFINE from(i) == IF i < k THEN i ELSE i + 1
           to(i) == IF i < k THEN i ELSE i - 1
<1>0. Len(s) \in Nat
  BY LenProperties
<1>1. \A i \in 1..Len(t) : from(i) \in 1..Len(s) /\ from(i) # k /\ t[i] = s[from(i)]
  BY <1>0
<1>2. \A i, j \in 1..Len(t) : i # j => from(i) # from(j)
  BY <1>0
<1>3. \A i \in 1..Len(s) : i # k => to(i) \in 1..Len(t) /\ from(to(i)) = i
  BY <1>0
<1> HIDE DEF from, to
<1>4. \A i \in 1..Len(s) : i # k => t[to(i)] = s[i]
  BY <1>1, <1>3
<1>5. \A i \in 1..Len(t) : t[i] # s[k]
  BY <1>1 DEF EachOnce
<1>6. Those(t) \subseteq Those(s) \ {s[k]}
  BY <1>1, <1>5 DEF Those
<1>7. Those(s) \ {s[k]} \subseteq Those(t)
  <2> SUFFICES ASSUME NEW x \in Those(s), x # s[k] PROVE x \in Those(t)
    OBVIOUS
  <2>1. PICK i \in 1..Len(s) : x = s[i]
    BY DEF Those
  <2>2. to(i) \in 1..Len(t) /\ t[to(i)] = x
    BY <1>3, <1>4, <2>1
  <2> QED
    BY <2>2 DEF Those
<1>8. EachOnce(t)
  <2> SUFFICES ASSUME NEW i \in 1..Len(t), NEW j \in 1..Len(t), i # j PROVE t[i] # t[j]
    BY DEF EachOnce
  <2>1. from(i) # from(j) /\ from(i) \in 1..Len(s) /\ from(j) \in 1..Len(s)
    BY <1>1, <1>2
  <2>2. t[i] = s[from(i)] /\ t[j] = s[from(j)]
    BY <1>1
  <2>3. s[from(i)] # s[from(j)]
    BY <2>1 DEF EachOnce
  <2> QED
    BY <2>2, <2>3
<1> QED
  BY <1>6, <1>7, <1>8

LEMMA RunKeeps ==
  ASSUME ReportsInv, NEW r \in Reports, Run(r)
  PROVE  ReportsInv'
<1>0. /\ at[r] = "idle" /\ UNCHANGED <<health, probing, replica>>
      /\ waiting \in Seq(Heavy) /\ Len(waiting) \in Nat /\ inUse \in Nat /\ Limit \in Nat
      /\ Heavy \subseteq Reports
  BY ReportsAssumption, HoldersFinite, LenProperties DEF Run, ReportsInv, ReportsTypeOK
<1>1. CASE r \notin Heavy
  <2>1. at' = [at EXCEPT ![r] = "began"] /\ inUse' = inUse /\ waiting' = waiting
    BY <1>1 DEF Run, semaphoreVars
  <2>2. Holders' = Holders
    BY <1>0, <1>1, <2>1 DEF ReportsInv, ReportsTypeOK, Holders
  <2>3. {x \in Reports : at'[x] = "waiting"} = {x \in Reports : at[x] = "waiting"}
    BY <1>0, <2>1 DEF ReportsInv, ReportsTypeOK
  <2>4. ReportsTypeOK'
    BY <1>0, <2>1 DEF ReportsInv, ReportsTypeOK, Working
  <2>5. SlotsExact'
    BY <2>1, <2>2, <2>3 DEF ReportsInv, SlotsExact
  <2> QED
    BY <2>4, <2>5 DEF ReportsInv
<1>2. CASE r \in Heavy /\ inUse >= Limit
  <2>1. at' = [at EXCEPT ![r] = "waiting"] /\ waiting' = Append(waiting, r) /\ inUse' = inUse
    BY <1>2 DEF Run
  <2>2. /\ waiting' \in Seq(Heavy) /\ Len(waiting') = Len(waiting) + 1
        /\ \A i \in 1..Len(waiting) : waiting'[i] = waiting[i]
        /\ waiting'[Len(waiting) + 1] = r
    BY <1>0, <1>2, <2>1, AppendProperties
  <2>3. Holders' = Holders
    BY <1>0, <2>1 DEF ReportsInv, ReportsTypeOK, Holders, Working
  <2>4. {x \in Reports : at'[x] = "waiting"} = {x \in Reports : at[x] = "waiting"} \cup {r}
    BY <1>0, <2>1 DEF ReportsInv, ReportsTypeOK
  <2>5. Those(waiting') = Those(waiting) \cup {r}
    <3>1. \A i \in 1..Len(waiting') : i \in 1..Len(waiting) \/ i = Len(waiting) + 1
      BY <1>0, <2>2
    <3>2. \A i \in 1..Len(waiting) : i \in 1..Len(waiting')
      BY <1>0, <2>2
    <3>3. Len(waiting) + 1 \in 1..Len(waiting')
      BY <1>0, <2>2
    <3> QED
      BY <2>2, <3>1, <3>2, <3>3 DEF Those
  <2>6. \A i \in 1..Len(waiting) : waiting[i] # r
    BY <1>0 DEF ReportsInv, SlotsExact
  <2>7. EachOnce(waiting')
    <3>1. \A i \in 1..Len(waiting') : i \in 1..Len(waiting) \/ i = Len(waiting) + 1
      BY <1>0, <2>2
    <3> QED
      BY <2>2, <2>6, <3>1 DEF ReportsInv, SlotsExact, EachOnce
  <2>8. inUse = Limit
    BY <1>0, <1>2 DEF ReportsInv, SlotsExact
  <2>9. ReportsTypeOK'
    BY <1>0, <2>1, <2>2 DEF ReportsInv, ReportsTypeOK
  <2>10. SlotsExact'
    BY <2>1, <2>3, <2>4, <2>5, <2>7, <2>8 DEF ReportsInv, SlotsExact, Those, EachOnce
  <2> QED
    BY <2>9, <2>10 DEF ReportsInv
<1>3. CASE r \in Heavy /\ ~(inUse >= Limit)
  <2>1. at' = [at EXCEPT ![r] = "began"] /\ inUse' = inUse + 1 /\ waiting' = waiting
    BY <1>3 DEF Run
  <2>2. Holders' = Holders \cup {r} /\ r \notin Holders
    BY <1>0, <1>3, <2>1 DEF ReportsInv, ReportsTypeOK, Holders, Working
  <2>3. Cardinality(Holders') = Cardinality(Holders) + 1
    BY <2>2, HoldersFinite, FS_AddElement
  <2>4. Cardinality(Holders') <= Cardinality(Reports)
    <3>1. Holders' \subseteq Reports
      BY <1>0, <2>2, HoldersFinite
    <3> QED
      BY <3>1, FS_Subset, ReportsAssumption
  <2>5. {x \in Reports : at'[x] = "waiting"} = {x \in Reports : at[x] = "waiting"}
    BY <1>0, <2>1 DEF ReportsInv, ReportsTypeOK
  <2>6. waiting = <<>> /\ inUse + 1 <= Limit /\ inUse = Cardinality(Holders)
    BY <1>0, <1>3 DEF ReportsInv, SlotsExact
  <2>7. ReportsTypeOK'
    <3>1. inUse' \in 0..Cardinality(Reports)
      BY <1>0, <2>1, <2>3, <2>4, <2>6, HoldersFinite
    <3> QED
      BY <1>0, <2>1, <3>1 DEF ReportsInv, ReportsTypeOK, Working
  <2>8. SlotsExact'
    BY <2>1, <2>3, <2>5, <2>6 DEF ReportsInv, SlotsExact
  <2> QED
    BY <2>7, <2>8 DEF ReportsInv
<1> QED
  BY <1>1, <1>2, <1>3

\* The timer of a waiter: it leaves its place.
LEMMA BusyKeeps ==
  ASSUME ReportsInv, NEW r \in Reports, Busy(r)
  PROVE  ReportsInv'
<1>0. /\ at[r] = "waiting" /\ at' = [at EXCEPT ![r] = "idle"]
      /\ UNCHANGED <<inUse, health, probing, replica>>
      /\ waiting \in Seq(Heavy) /\ Len(waiting) \in Nat
  BY LenProperties DEF Busy, ReportsInv, ReportsTypeOK
<1>1. \E i \in 1..Len(waiting) : waiting[i] = r
  BY <1>0 DEF ReportsInv, SlotsExact
<1>2. PICK k \in 1..Len(waiting) : waiting[k] = r /\ waiting' = Seqs!RemoveAt(waiting, k)
  BY <1>1 DEF Busy, GivesUp
<1>3. /\ waiting' \in Seq(Heavy) /\ Len(waiting') = Len(waiting) - 1
      /\ Those(waiting') = Those(waiting) \ {r} /\ EachOnce(waiting')
  <2>1. /\ waiting' \in Seq(Heavy) /\ Len(waiting') = Len(waiting) - 1
        /\ \A i \in 1..(Len(waiting) - 1) :
             waiting'[i] = IF i < k THEN waiting[i] ELSE waiting[i + 1]
    BY <1>0, <1>2, RemovedAt
  <2>2. EachOnce(waiting)
    BY DEF ReportsInv, SlotsExact, EachOnce
  <2>3. waiting \in Seq(Heavy) /\ k \in 1..Len(waiting)
    BY <1>0, <1>2
  <2>4. Those(waiting') = Those(waiting) \ {waiting[k]} /\ EachOnce(waiting')
    BY <2>1, <2>2, <2>3, QueueWithout, Zenon
  <2> QED
    BY <1>2, <2>1, <2>4
<1>4. {x \in Reports : at'[x] = "waiting"} = {x \in Reports : at[x] = "waiting"} \ {r}
  BY <1>0 DEF ReportsInv, ReportsTypeOK
<1>5. Holders' = Holders
  BY <1>0, ReportsAssumption DEF ReportsInv, ReportsTypeOK, Holders, Working
<1>6. waiting # <<>>
  BY <1>1, EmptySeq
<1>7. ReportsTypeOK'
  BY <1>0, <1>3 DEF ReportsInv, ReportsTypeOK
<1>8. SlotsExact'
  BY <1>0, <1>3, <1>4, <1>5, <1>6 DEF ReportsInv, SlotsExact, Those, EachOnce
<1> QED
  BY <1>7, <1>8 DEF ReportsInv

\* A report is answered: the slot of a heavy one goes to the first waiter, or is free.
LEMMA FinishKeeps ==
  ASSUME ReportsInv, NEW r \in Reports, at[r] \in Working, Finish(r),
         UNCHANGED <<health, probing, replica>>
  PROVE  ReportsInv'
<1>0. /\ waiting \in Seq(Heavy) /\ Len(waiting) \in Nat /\ inUse \in Nat /\ Limit \in Nat
      /\ Heavy \subseteq Reports /\ at[r] # "waiting"
      /\ at \in [Reports -> {"idle", "waiting"} \cup Working]
  BY ReportsAssumption, HoldersFinite, LenProperties DEF ReportsInv, ReportsTypeOK, Working
<1>1. CASE r \notin Heavy
  <2>1. at' = [at EXCEPT ![r] = "idle"] /\ inUse' = inUse /\ waiting' = waiting
    BY <1>1 DEF Finish, semaphoreVars
  <2>2. Holders' = Holders
    BY <1>0, <1>1, <2>1 DEF Holders
  <2>3. {x \in Reports : at'[x] = "waiting"} = {x \in Reports : at[x] = "waiting"}
    BY <1>0, <2>1
  <2>4. ReportsTypeOK'
    BY <1>0, <2>1 DEF ReportsInv, ReportsTypeOK
  <2>5. SlotsExact'
    BY <2>1, <2>2, <2>3 DEF ReportsInv, SlotsExact
  <2> QED
    BY <2>4, <2>5 DEF ReportsInv
<1>2. CASE r \in Heavy /\ waiting # <<>>
  <2> DEFINE h == Head(waiting)
  <2>1. /\ at' = [at EXCEPT ![r] = "idle", ![h] = IF @ = "waiting" THEN "began" ELSE @]
        /\ waiting' = Tail(waiting) /\ inUse' = inUse
    BY <1>2 DEF Finish, HandOver
  <2>2. /\ Len(waiting) \in Nat \ {0} /\ h = waiting[1] /\ h \in Heavy
        /\ waiting' \in Seq(Heavy) /\ Len(waiting') = Len(waiting) - 1
        /\ \A i \in 1..Len(waiting') : waiting'[i] = waiting[i + 1]
    BY <1>0, <1>2, <2>1, Behead
  <2> HIDE DEF h
  <2>3. at[h] = "waiting" /\ h # r /\ h \in Reports
    BY <1>0, <2>2 DEF ReportsInv, SlotsExact
  <2>4. at' = [at EXCEPT ![r] = "idle", ![h] = "began"]
    BY <1>0, <2>1, <2>3
  <2>5. Holders' = (Holders \ {r}) \cup {h}
    BY <1>0, <2>2, <2>3, <2>4 DEF Holders, Working
  <2>6. Cardinality(Holders') = Cardinality(Holders)
    <3>1. r \in Holders /\ h \notin Holders
      BY <1>2, <2>3 DEF Holders, Working
    <3>2. IsFiniteSet(Holders \ {r}) /\ Cardinality(Holders \ {r}) = Cardinality(Holders) - 1
      BY <3>1, HoldersFinite, FS_RemoveElement
    <3>3. Cardinality(Holders') = Cardinality(Holders \ {r}) + 1
      BY <2>5, <3>1, <3>2, FS_AddElement
    <3> QED
      BY <3>2, <3>3, HoldersFinite
  <2>7. Those(waiting') = Those(waiting) \ {h} /\ EachOnce(waiting')
    <3>1. 1 \in 1..Len(waiting) /\ \A i \in 1..(Len(waiting) - 1) :
             waiting'[i] = IF i < 1 THEN waiting[i] ELSE waiting[i + 1]
      BY <2>2
    <3>2. EachOnce(waiting)
      BY DEF ReportsInv, SlotsExact, EachOnce
    <3>3. Those(waiting') = Those(waiting) \ {waiting[1]} /\ EachOnce(waiting')
      BY <1>0, <2>2, <3>1, <3>2, QueueWithout, Zenon
    <3> QED
      BY <2>2, <3>3
  <2>8. {x \in Reports : at'[x] = "waiting"} = {x \in Reports : at[x] = "waiting"} \ {h}
    BY <1>0, <2>3, <2>4
  <2>9. ReportsTypeOK'
    BY <1>0, <2>1, <2>2, <2>3, <2>4 DEF ReportsInv, ReportsTypeOK, Working
  <2>10. SlotsExact'
    BY <1>2, <2>1, <2>6, <2>7, <2>8 DEF ReportsInv, SlotsExact, Those, EachOnce
  <2> QED
    BY <2>9, <2>10 DEF ReportsInv
<1>3. CASE r \in Heavy /\ waiting = <<>>
  <2>1. at' = [at EXCEPT ![r] = "idle"] /\ inUse' = inUse - 1 /\ waiting' = waiting
    BY <1>3 DEF Finish
  <2>2. Holders' = Holders \ {r} /\ r \in Holders
    BY <1>0, <1>3, <2>1 DEF Holders, Working
  <2>3. Cardinality(Holders') = Cardinality(Holders) - 1 /\ Cardinality(Holders') \in Nat
    BY <2>2, HoldersFinite, FS_RemoveElement, FS_CardinalityType
  <2>4. {x \in Reports : at'[x] = "waiting"} = {x \in Reports : at[x] = "waiting"}
    BY <1>0, <2>1
  <2>5. inUse = Cardinality(Holders) /\ inUse <= Limit
    BY DEF ReportsInv, SlotsExact
  <2>6. inUse' \in 0..Cardinality(Reports) /\ inUse' <= Limit
    BY <1>0, <2>1, <2>3, <2>5, HoldersFinite
  <2>7. ReportsTypeOK'
    BY <1>0, <2>1, <2>6 DEF ReportsInv, ReportsTypeOK
  <2>8. SlotsExact'
    BY <1>3, <2>1, <2>3, <2>4, <2>5, <2>6 DEF ReportsInv, SlotsExact
  <2> QED
    BY <2>7, <2>8 DEF ReportsInv
<1> QED
  BY <1>1, <1>2, <1>3

LEMMA ReadKeeps ==
  ASSUME ReportsInv,
         \/ \E r \in Reports : Health(r) \/ ReplicaFails(r) \/ Deadline(r)
         \/ ProbeRead \/ Probed \/ HealthAges \/ ReplicaChanges
  PROVE  ReportsInv'
<1>0. ReportsTypeOK
  BY DEF ReportsInv
<1>1. \A h \in [healthy : BOOLEAN, checked : BOOLEAN] : Route(h) \in {"replica", "primary"}
  BY DEF Route
<1>2. ASSUME NEW r \in Reports, Health(r) PROVE ReportsInv'
  <2>1. PICK a \in {"primary", "probing", "replica"} : at' = [at EXCEPT ![r] = a]
    BY <1>0, <1>1, <1>2 DEF Health, ReportsTypeOK
  <2>2. /\ UNCHANGED <<semaphoreVars, health, replica>> /\ at[r] = "began"
        /\ probing' \in {"none", "asked", "healthy", "unhealthy"}
    BY <1>0, <1>2 DEF Health, ReportsTypeOK
  <2> QED
    BY <1>0, <2>1, <2>2, ReadMoves DEF ReportsTypeOK, Working
<1>3. ASSUME NEW r \in Reports, ReplicaFails(r) \/ Deadline(r) PROVE ReportsInv'
  <2>1. /\ at[r] = "replica" /\ at' = [at EXCEPT ![r] = "primary"]
        /\ health' = [healthy |-> FALSE, checked |-> TRUE]
        /\ UNCHANGED <<semaphoreVars, probing, replica>>
    BY <1>3 DEF ReplicaFails, Deadline, Unhealthy
  <2> QED
    BY <1>0, <2>1, ReadMoves DEF ReportsTypeOK, Working
<1>4. CASE ProbeRead
  <2>1. /\ UNCHANGED <<at, semaphoreVars, health, replica>>
        /\ probing' \in {"none", "asked", "healthy", "unhealthy"}
    BY <1>4 DEF ProbeRead
  <2> QED
    BY <1>0, <2>1, ReadMoves DEF ReportsTypeOK
<1>5. CASE Probed
  <2>1. /\ probing' = "none" /\ health' = [healthy |-> probing = "healthy", checked |-> TRUE]
        /\ at' = [r \in Reports |-> IF at[r] = "probing" THEN Route(health') ELSE at[r]]
        /\ UNCHANGED <<semaphoreVars, replica>>
    BY <1>5 DEF Probed
  <2>2. (probing = "healthy") \in BOOLEAN
    OBVIOUS
  <2>3. health' \in [healthy : BOOLEAN, checked : BOOLEAN]
    BY <2>1, <2>2
  <2>4. Route(health') \in {"replica", "primary"}
    BY <1>1, <2>3
  <2> QED
    BY <1>0, <2>1, <2>3, <2>4, ReadMoves DEF ReportsTypeOK, Working
<1>6. CASE HealthAges
  <2>1. /\ UNCHANGED <<at, semaphoreVars, probing, replica>>
        /\ health' \in [healthy : BOOLEAN, checked : BOOLEAN]
    BY <1>0, <1>6 DEF HealthAges, ReportsTypeOK
  <2> QED
    BY <1>0, <2>1, ReadMoves DEF ReportsTypeOK
<1>7. CASE ReplicaChanges
  <2>1. /\ UNCHANGED <<at, semaphoreVars, health, probing>>
        /\ replica' \in {"up", "behind", "down", "silent"}
    BY <1>7 DEF ReplicaChanges
  <2> QED
    BY <1>0, <2>1, ReadMoves DEF ReportsTypeOK
<1> QED
  BY <1>2, <1>3, <1>4, <1>5, <1>6, <1>7

LEMMA ReportsStep == ReportsInv /\ [ReportsNext]_reportVars => ReportsInv'
<1> SUFFICES ASSUME ReportsInv, [ReportsNext]_reportVars PROVE ReportsInv'
  OBVIOUS
<1>1. CASE UNCHANGED reportVars
  BY <1>1 DEF ReportsInv, ReportsTypeOK, SlotsExact, Holders, reportVars, semaphoreVars
<1>2. ASSUME NEW r \in Reports, ReplicaAnswers(r) \/ PrimaryAnswers(r) PROVE ReportsInv'
  <2>1. at[r] \in Working /\ Finish(r) /\ UNCHANGED <<health, probing, replica>>
    BY <1>2 DEF ReplicaAnswers, PrimaryAnswers, Working
  <2> QED
    BY <2>1, FinishKeeps
<1>3. CASE ReportsNext
  BY <1>2, <1>3, RunKeeps, BusyKeeps, ReadKeeps DEF ReportsNext, Step
<1> QED
  BY <1>1, <1>3

----------------------------------------------------------------------------
(* A process with its three parts.                                          *)

ServerInv == WorkerInv /\ RealtimeInv /\ Shown /\ ReportsInv

\* Where the three parts work side by side, each keeps its own invariant.
THEOREM ServerInvariant == Spec => []ServerInv
<1>1. Init => ServerInv
  <2> SUFFICES ASSUME Init PROVE ServerInv
    OBVIOUS
  <2>1. WorkerInv
    BY InitInv DEF Init
  <2>2. RealtimeInv /\ Shown
    BY RealtimeStart DEF Init, RealtimeInit, Shown
  <2>3. ReportsInv
    BY ReportsStart DEF Init
  <2> QED
    BY <2>1, <2>2, <2>3 DEF ServerInv
<1>2. ServerInv /\ [Next]_serverVars => ServerInv'
  <2> SUFFICES ASSUME ServerInv, [Next]_serverVars PROVE ServerInv'
    OBVIOUS
  <2>1. [WorkerNext]_workerVars /\ [RealtimeNext]_realtimeVars /\ [ReportsNext]_reportVars
    BY DEF Next, serverVars
  <2>2. WorkerInv'
    BY <2>1, NextKeeps DEF ServerInv
  <2>3. RealtimeInv'
    BY <2>1, RealtimeStep DEF ServerInv
  <2>4. Shown'
    BY <2>1, ShownStep DEF ServerInv, RealtimeInv
  <2>5. ReportsInv'
    BY <2>1, ReportsStep DEF ServerInv
  <2> QED
    BY <2>2, <2>3, <2>4, <2>5 DEF ServerInv
<1> QED
  BY <1>1, <1>2, PTL DEF Spec

\* The variables of the worker, the live updates and the reports keep their types.
THEOREM ServerTyped == Spec => []TypeOK
<1>1. ServerInv => TypeOK
  BY DEF ServerInv, WorkerInv, RealtimeInv, ReportsInv, TypeOK
<1> QED
  BY <1>1, ServerInvariant, PTL

\* No change is lost between the trigger and the screen but what `blind` counts: neither
\* hub nor stream nor tab may drop one without a reconciliation that follows.
THEOREM ScreenFresh == Spec => []Fresh
<1>1. ServerInv => Fresh
  BY FreshFollows DEF ServerInv
<1> QED
  BY <1>1, ServerInvariant, PTL

\* The semaphore leaks no slot and gives none twice, for every number of reports and of
\* slots: a waiter that gives up and a report that ends may come in any order.
THEOREM SlotsSound == Spec => []SlotsExact
<1>1. ServerInv => SlotsExact
  BY DEF ServerInv, ReportsInv
<1> QED
  BY <1>1, ServerInvariant, PTL
=============================================================================
