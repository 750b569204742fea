------------------------------ MODULE MCServer ------------------------------
(***************************************************************************)
(* Parts of one server process that share no state: its job worker, the live *)
(* updates it sends to a tab, the reports it runs.  The initial state picks  *)
(* the part that works; the others rest.                                     *)
(***************************************************************************)
EXTENDS JobWorker, Realtime, Reports

VARIABLE part

serverVars == <<part, workerVars, realtimeVars, reportVars>>

Init ==
  /\ part \in {"worker", "realtime", "reports"}
  /\ WorkerInit(part = "worker") /\ RealtimeInit /\ ReportsInit
  /\ part = "reports" \/ replica = "down"

Next ==
  /\ UNCHANGED part
  /\ \/ part = "worker" /\ WorkerNext /\ UNCHANGED <<realtimeVars, reportVars>>
     \/ part = "realtime" /\ RealtimeNext /\ UNCHANGED <<workerVars, reportVars>>
     \/ part = "reports" /\ ReportsNext /\ UNCHANGED <<workerVars, realtimeVars>>

\* What rests has no action enabled that must be taken.
Spec == Init /\ [][Next]_serverVars /\ WorkerFairness /\ ReportsFairness

TypeOK == WorkerTypeOK /\ RealtimeTypeOK /\ ReportsTypeOK
=============================================================================
