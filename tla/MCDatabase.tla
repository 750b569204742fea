----------------------------- MODULE MCDatabase -----------------------------
(***************************************************************************)
(* Four uses of the database as the only referee between clients: the dedupe *)
(* key of queued jobs, the row locks of commands, the account of a user, and *)
(* the session that the tabs of a browser share.  Each is checked on its own  *)
(* rows; the initial state picks the one that works.                         *)
(***************************************************************************)
EXTENDS JobQueue, LockOrder, SignIn, Refresh, TLC

CONSTANTS w1, w2, j1, j2, c1, c2, q1, q2, q3, h1, h2, h3, h4, l1, l2, l3, t1, t2, t3

VARIABLE part

SameKey == [j \in Jobs |-> "k"]

Symmetry == Permutations(Workers) \cup Permutations(Clients)

\* Which hash and which link come first does not matter.
DatabaseInit ==
  /\ part \in {"queue", "locks", "account", "tabs"}
  /\ Init /\ LockInit /\ AccountInit /\ RefreshInit
  /\ account.hash \in {Null, h1} /\ reset.link \in {Null, l1}
  /\ part = "account" \/ account.status = "INVITED"

DatabaseNext ==
  /\ UNCHANGED part
  /\ \/ part = "queue" /\ Next /\ UNCHANGED <<lockVars, accountVars, refreshVars>>
     \/ part = "locks" /\ LockNext /\ UNCHANGED <<vars, accountVars, refreshVars>>
     \/ part = "account" /\ AccountNext /\ UNCHANGED <<vars, lockVars, refreshVars>>
     \/ part = "tabs" /\ RefreshNext /\ UNCHANGED <<vars, lockVars, accountVars>>

DatabaseSpec ==
  DatabaseInit /\ [][DatabaseNext]_<<part, vars, lockVars, accountVars, refreshVars>>

\* What StaysSignedIn excludes is not followed any further.
WellBehaved == ~(lost \/ late \/ overtaken)

DatabaseTypeOK == TypeOK /\ LockTypeOK /\ AccountTypeOK /\ RefreshTypeOK
=============================================================================
