----------------------------- MODULE FencedWork -----------------------------
(***************************************************************************)
(* What the job queue promises the work it runs (the comments of            *)
(* lib/jobs/worker.ts and modules/jobs/jobs.repository.ts): a job is held by *)
(* one attempt at a time, attempts are numbered in the order they hold it,   *)
(* only the holder commits work, and nothing of the job is committed or run  *)
(* again once it is over.                                                   *)
(***************************************************************************)
EXTENDS Naturals

CONSTANTS Jobs, MaxAttempts

VARIABLES phase,   \* phase[j]: absent, waiting, held or over
          token,   \* token[j]: the last attempt that held j
          worked   \* worked[j]: the attempts that committed work

vars == <<phase, token, worked>>

Init ==
  /\ phase = [j \in Jobs |-> "absent"]
  /\ token = [j \in Jobs |-> 0]
  /\ worked = [j \in Jobs |-> {}]

Move(j, from, to) ==
  /\ phase[j] \in from
  /\ phase' = [phase EXCEPT ![j] = to]

Queue(j) == Move(j, {"absent"}, "waiting") /\ UNCHANGED <<token, worked>>

Grant(j) ==
  /\ Move(j, {"waiting"}, "held")
  /\ token[j] < MaxAttempts
  /\ token' = [token EXCEPT ![j] = @ + 1]
  /\ UNCHANGED worked

\* The holder fails or is given up on: another attempt is still possible.
Lose(j) ==
  /\ Move(j, {"held"}, "waiting")
  /\ token[j] < MaxAttempts
  /\ UNCHANGED <<token, worked>>

End(j) == Move(j, {"waiting", "held"}, "over") /\ UNCHANGED <<token, worked>>

Work(j) ==
  /\ \/ Move(j, {"held"}, "over")
     \/ phase[j] = "held" /\ UNCHANGED phase
  /\ worked' = [worked EXCEPT ![j] = @ \cup {token[j]}]
  /\ UNCHANGED token

Next == \E j \in Jobs : Queue(j) \/ Grant(j) \/ Lose(j) \/ End(j) \/ Work(j)

Spec == Init /\ [][Next]_vars
=============================================================================
