---------------------------- MODULE MCBackOffice ----------------------------
(***************************************************************************)
(* Two parts of the back office that share no row: the night audit of a      *)
(* property, and the administration of the organization's users.  The        *)
(* initial state picks the part that works.                                  *)
(***************************************************************************)
EXTENDS NightAudit, Administration, TLC

CONSTANTS w1, w2, r1, r2, c1, u1, u2, u3, k1, k2, admin, manager, property

VARIABLE part

RolePermits == admin :> {"users:manage", "roles:manage"} @@ manager :> {"users:manage"}
RoleOffers == {<<admin, Org>>, <<manager, property>>}

Symmetry ==
  Permutations(Workers) \cup Permutations(Runs)
    \cup Permutations(Users \ {Founder}) \cup Permutations(Requests)

BackOfficeInit ==
  /\ part \in {"audit", "users"} /\ Init /\ AdminInit
  /\ part = "audit" \/ localDate = 1

BackOfficeNext ==
  /\ UNCHANGED part
  /\ \/ part = "audit" /\ Next /\ UNCHANGED adminVars
     \/ part = "users" /\ AdminNext /\ UNCHANGED vars

BackOfficeSpec == BackOfficeInit /\ [][BackOfficeNext]_<<part, vars, adminVars>>
=============================================================================
