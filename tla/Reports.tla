------------------------------- MODULE Reports -------------------------------
(***************************************************************************)
(* Reports in one process: heavy ones hold a slot of a semaphore             *)
(* (lib/utils/concurrency.ts) for the whole read, and a read goes to the     *)
(* replica when its health allows, to the primary otherwise                  *)
(* (lib/db/read-replica.ts, runHeavy in modules/reports/reports.service.ts). *)
(***************************************************************************)
EXTENDS Naturals, Sequences, FiniteSets

CONSTANTS
  Reports,  \* requests; one that has been answered may be made again
  Heavy,    \* those for a heavy report
  Limit     \* REPORT_HEAVY_CONCURRENCY

ASSUME ReportsAssumption == IsFiniteSet(Reports) /\ Heavy \subseteq Reports /\ Limit \in Nat \ {0}

VARIABLES
  at,       \* at[r]: idle, waiting for a slot, began, probing, replica, primary
  inUse,    \* Semaphore.active
  waiting,  \* Semaphore.waiting
  health,   \* replica.health: healthy, and checked within the interval
  probing,  \* the probe under way: none, asked, and what it will report
  replica   \* the replica: up, behind (its lag is too large), down, silent

semaphoreVars == <<inUse, waiting>>
reportVars == <<at, semaphoreVars, health, probing, replica>>

Working == {"began", "probing", "replica", "primary"}
Holders == {r \in Heavy : at[r] \in Working}

Seqs == INSTANCE SequencesExt

----------------------------------------------------------------------------
(* Semaphore.run                                                            *)

Run(r) ==
  /\ at[r] = "idle"
  /\ CASE r \notin Heavy -> at' = [at EXCEPT ![r] = "began"] /\ UNCHANGED semaphoreVars
       [] r \in Heavy /\ inUse >= Limit ->
            at' = [at EXCEPT ![r] = "waiting"] /\ waiting' = Append(waiting, r) /\ UNCHANGED inUse
       [] OTHER -> at' = [at EXCEPT ![r] = "began"] /\ inUse' = inUse + 1 /\ UNCHANGED waiting
  /\ UNCHANGED <<health, probing, replica>>

MutGivesUp(s, r) == s    \* it stays in the queue
\* this.waiting.indexOf(wake), and splice there.
GivesUp(s, r) ==
  IF \E i \in 1..Len(s) : s[i] = r
  THEN Seqs!RemoveAt(s, CHOOSE i \in 1..Len(s) : s[i] = r)
  ELSE s

\* Its timer fires: the report is refused as busy.
Busy(r) ==
  /\ at[r] = "waiting"
  /\ at' = [at EXCEPT ![r] = "idle"]
  /\ waiting' = GivesUp(waiting, r)
  /\ UNCHANGED <<inUse, health, probing, replica>>

MutHandOver(n) == n - 1    \* the slot is freed as well
HandOver(n) == n
\* The report is answered; the slot goes to the next waiter as it is.
Finish(r) ==
  IF r \notin Heavy THEN at' = [at EXCEPT ![r] = "idle"] /\ UNCHANGED semaphoreVars
  ELSE IF waiting # <<>>
  THEN /\ at' = [at EXCEPT ![r] = "idle", ![Head(waiting)] = IF @ = "waiting" THEN "began" ELSE @]
       /\ waiting' = Tail(waiting) /\ inUse' = HandOver(inUse)
  ELSE at' = [at EXCEPT ![r] = "idle"] /\ inUse' = inUse - 1 /\ UNCHANGED waiting

----------------------------------------------------------------------------
(* readFromReplica                                                          *)

Route(h) == IF h.healthy THEN "replica" ELSE "primary"

\* freshHealth(): a health checked long ago is checked again, by one probe for all.
\* A read of an open date, or with no replica, goes to the primary.
Health(r) ==
  /\ at[r] = "began"
  /\ \/ at' = [at EXCEPT ![r] = "primary"] /\ UNCHANGED probing
     \/ health.checked /\ at' = [at EXCEPT ![r] = Route(health)] /\ UNCHANGED probing
     \/ /\ ~health.checked /\ at' = [at EXCEPT ![r] = "probing"]
        /\ probing' = IF probing = "none" THEN "asked" ELSE probing
  /\ UNCHANGED <<semaphoreVars, health, replica>>

ProbeRead ==
  /\ probing = "asked"
  /\ probing' = CASE replica = "up" -> "healthy" [] replica = "silent" -> "asked" [] OTHER -> "unhealthy"
  /\ UNCHANGED <<at, semaphoreVars, health, replica>>

\* checkHealth() ends, within its timeout, and the readers that waited for it go on.
Probed ==
  /\ probing # "none"
  /\ probing' = "none"
  /\ health' = [healthy |-> probing = "healthy", checked |-> TRUE]
  /\ at' = [r \in Reports |-> IF at[r] = "probing" THEN Route(health') ELSE at[r]]
  /\ UNCHANGED <<semaphoreVars, replica>>

\* Answered, or failed in a way that the primary would not mend.
ReplicaAnswers(r) ==
  /\ at[r] = "replica" /\ replica \in {"up", "behind"}
  /\ Finish(r)
  /\ UNCHANGED <<health, probing, replica>>

Unhealthy(r) ==
  /\ health' = [healthy |-> FALSE, checked |-> TRUE]
  /\ at' = [at EXCEPT ![r] = "primary"]
  /\ UNCHANGED <<semaphoreVars, probing, replica>>

\* A connection error or a recovery conflict: the same read on the primary.
ReplicaFails(r) == at[r] = "replica" /\ replica # "silent" /\ Unhealthy(r)

MutDeadline(r) == FALSE    \* no deadline of the client's
\* withReplicaDeadline: a replica that never answers is given up.
Deadline(r) == at[r] = "replica" /\ Unhealthy(r)

PrimaryAnswers(r) ==
  /\ at[r] = "primary"
  /\ Finish(r)
  /\ UNCHANGED <<health, probing, replica>>

HealthAges ==
  /\ health.checked /\ health' = [health EXCEPT !.checked = FALSE]
  /\ UNCHANGED <<at, semaphoreVars, probing, replica>>

ReplicaChanges ==
  /\ replica' \in {"up", "behind", "down", "silent"} \ {replica}
  /\ UNCHANGED <<at, semaphoreVars, health, probing>>

----------------------------------------------------------------------------

ReportsInit ==
  /\ at = [r \in Reports |-> "idle"] /\ inUse = 0 /\ waiting = <<>>
  /\ health = [healthy |-> FALSE, checked |-> FALSE] /\ probing = "none"
  /\ replica \in {"up", "behind", "down", "silent"}

Step(r) ==
  \/ Run(r) \/ Busy(r) \/ Health(r)
  \/ ReplicaAnswers(r) \/ ReplicaFails(r) \/ Deadline(r) \/ PrimaryAnswers(r)

ReportsNext == (\E r \in Reports : Step(r)) \/ ProbeRead \/ Probed \/ HealthAges \/ ReplicaChanges

\* Timers fire, the process runs what it may, and the primary answers every read: at the
\* latest its statement timeout does.  Nothing is assumed of the replica.
ReportsFairness ==
  /\ WF_reportVars(Probed)
  /\ \A r \in Reports :
       WF_reportVars(Health(r)) /\ WF_reportVars(Deadline(r)) /\ WF_reportVars(PrimaryAnswers(r))

----------------------------------------------------------------------------
(* Properties.                                                              *)

ReportsTypeOK ==
  /\ at \in [Reports -> {"idle", "waiting"} \cup Working]
  /\ inUse \in 0..Cardinality(Reports) /\ waiting \in Seq(Heavy)
  /\ health \in [healthy : BOOLEAN, checked : BOOLEAN]
  /\ probing \in {"none", "asked", "healthy", "unhealthy"}
  /\ replica \in {"up", "behind", "down", "silent"}

\* A slot is held for each unit of `active`, never more than there are, and reports wait,
\* each once, only while all are held: no slot leaks and none is given twice, whichever of
\* the timer of a waiter and the end of a report comes first.
SlotsExact ==
  /\ inUse = Cardinality(Holders) /\ inUse <= Limit
  /\ waiting # <<>> => inUse = Limit
  /\ {r \in Reports : at[r] = "waiting"} = {waiting[i] : i \in 1..Len(waiting)}
  /\ \A i, j \in 1..Len(waiting) : i # j => waiting[i] # waiting[j]

\* Every report that runs ends, even with a replica that never answers: a heavy one does
\* not keep its slot.
Answered == \A r \in Reports : at[r] \in Working ~> at[r] = "idle"
=============================================================================
