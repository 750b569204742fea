----------------------------- MODULE MCAttempts -----------------------------
(***************************************************************************)
(* Attempts of jobs that fail, and what must happen in the end: one job of    *)
(* the queue with a handler that does anything, and one night audit.  They    *)
(* share no row; the initial state picks the part that works.                *)
(***************************************************************************)
EXTENDS JobQueue

CONSTANTS w1, w2, j1, r1, Runs, Clerks, LastDate, ClockSkew

VARIABLES part, today, status, localDate, asked, run, aJob, aExec, aGiveUp,
          posting, lines, stats

auditVars == <<today, status, localDate, asked, run, aJob, aExec, aGiveUp,
               posting, lines, stats>>

SameKey == [j \in Jobs |-> "k"]

Audit == INSTANCE NightAudit WITH job <- aJob, exec <- aExec, giveUp <- aGiveUp

AttemptsInit ==
  /\ part \in {"queue", "audit"} /\ Init /\ Audit!Init
  /\ part = "audit" \/ localDate = 1

AttemptsNext ==
  /\ UNCHANGED part
  /\ \/ part = "queue" /\ Next /\ UNCHANGED auditVars
     \/ part = "audit" /\ Audit!Next /\ UNCHANGED vars

\* The part that rests has no job: nothing is enabled that must be taken.
AttemptsSpec ==
  AttemptsInit /\ [][AttemptsNext]_<<part, vars, auditVars>> /\ Fairness /\ Audit!Fairness

AuditEnds == Audit!AuditEnds
=============================================================================
