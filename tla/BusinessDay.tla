---------------------------- MODULE BusinessDay ----------------------------
(***************************************************************************)
(* What night audit promises the property (docs/SCALABILITY.md section 33   *)
(* and the comments of night-audit.service.ts): there is one current        *)
(* business date, postings go to it while it is open, an audit that fails    *)
(* leaves nothing behind, and an audit that succeeds posts its charges,      *)
(* takes the statistics of everything posted, closes the date for good and   *)
(* opens the next one, all at once.                                         *)
(***************************************************************************)
EXTENDS Naturals

CONSTANTS Clerks,    \* whoever posts to folios
          Runs,      \* night audit runs
          LastDate   \* dates are 1..LastDate

VARIABLES today,    \* the current date
          status,   \* status[d]: none, OPEN, IN_AUDIT or CLOSED
          lines,    \* lines[d]: who has ledger lines on d
          stats     \* stats[d]: the lines the statistics of d were taken from

vars == <<today, status, lines, stats>>

Dates == 1..LastDate

Init ==
  /\ today = 1
  /\ status = [d \in Dates |-> IF d = 1 THEN "OPEN" ELSE "none"]
  /\ lines = [d \in Dates |-> {}]
  /\ stats = [d \in Dates |-> {}]

Post(c) ==
  /\ status[today] = "OPEN"
  /\ lines' = [lines EXCEPT ![today] = @ \cup {c}]
  /\ UNCHANGED <<today, status, stats>>

Begin ==
  /\ status[today] = "OPEN"
  /\ status' = [status EXCEPT ![today] = "IN_AUDIT"]
  /\ UNCHANGED <<today, lines, stats>>

Abandon ==
  /\ status[today] = "IN_AUDIT"
  /\ status' = [status EXCEPT ![today] = "OPEN"]
  /\ UNCHANGED <<today, lines, stats>>

Close(r) ==
  /\ status[today] = "IN_AUDIT"
  /\ today < LastDate
  /\ \A d \in Dates : r \notin lines[d]
  /\ lines' = [lines EXCEPT ![today] = @ \cup {r}]
  /\ stats' = [stats EXCEPT ![today] = lines[today] \cup {r}]
  /\ status' = [status EXCEPT ![today] = "CLOSED", ![today + 1] = "OPEN"]
  /\ today' = today + 1

Next ==
  \/ Begin \/ Abandon
  \/ \E c \in Clerks : Post(c)
  \/ \E r \in Runs : Close(r)

Spec == Init /\ [][Next]_vars
=============================================================================
