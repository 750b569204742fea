--------------------------- MODULE Administration ---------------------------
(***************************************************************************)
(* The administration of the users of one organization: invitations, role   *)
(* grants, disabling and enabling, and the links with which invited users   *)
(* set their first password.                                                *)
(*                                                                          *)
(* A request is three steps: the caller's access is read when it arrives;    *)
(* then, under the lock of the organization, the caller is read again and    *)
(* the command checked; then it is committed, or rolled back.  A link is     *)
(* used without that lock.                                                  *)
(***************************************************************************)
CONSTANTS
  Users, Supers,      \* is_super_admin, which no command changes
  Roles, Permits,     \* Permits[r]: the permissions of a role
  Properties, Org,    \* the scopes of a role assignment
  Permissions,
  Manage,             \* users:manage
  Administrative,     \* ADMINISTRATOR_PERMISSIONS
  Founder, FirstRole, \* the first user and role of the organization
  Offers,             \* bound: the roles, with their scopes, that requests name
  Requests,
  Nobody

Scopes == Properties \cup {Org}

ASSUME PermitsAssumption ==
  /\ Permits \in [Roles -> SUBSET Permissions]
  /\ Manage \in Administrative /\ Administrative \subseteq Permissions
  /\ FirstRole \in Roles /\ Administrative \subseteq Permits[FirstRole]
ASSUME UsersAssumption == Supers \subseteq Users /\ Founder \in Users
ASSUME ScopesAssumption == Org \notin Properties /\ Offers \subseteq Roles \X Scopes

VARIABLES
  userStatus, \* userStatus[u]: the status of the row of users
  grants,     \* the rows of user_role_assignments
  link,       \* the users with a live link to set a password
  req         \* req[k]: the request k

adminVars == <<userStatus, grants, link, req>>

Assignment == [user : Users, role : Roles, scope : Scopes]
Grant(u, r, s) == [user |-> u, role |-> r, scope |-> s]
RequestRow == [pc : {"none", "asked", "checked"}, caller : Users \cup {Nobody}, may : SUBSET Scopes,
               op : {"none", "invite", "grant", "revoke", "disable", "enable", "reset"},
               row : Assignment \cup {Nobody}]
NoRequest == [pc |-> "none", caller |-> Nobody, may |-> {}, op |-> "none", row |-> Nobody]

----------------------------------------------------------------------------
(* Permissions                                                              *)

GrantsOf(u) == {g \in grants : g.user = u}

\* What the user holds in a scope; a grant of the organization covers every property.
InScope(u, s) == UNION {Permits[g.role] : g \in {h \in GrantsOf(u) : h.scope \in {Org, s}}}

MayManage(c, s) == c \in Supers \/ Manage \in InScope(c, s)

Outranks(c, u) ==
  \/ c \in Supers
  \/ u \notin Supers /\ \A g \in GrantsOf(u) : Permits[g.role] \subseteq InScope(c, g.scope)

NoEscalation(c, r, s) == c \in Supers \/ Permits[r] \subseteq InScope(c, s)

\* countOrganizationAdministrators, among the users and grants that are left.
Administrators(users, rows) ==
  {u \in users :
     /\ userStatus[u] = "ACTIVE"
     /\ \/ u \in Supers
        \/ Administrative \subseteq UNION {Permits[g.role] : g \in {h \in rows : h.user = u /\ h.scope = Org}}}

KeepsAnAdministrator(users, rows) ==
  Administrators(Users, grants) # {} => Administrators(users, rows) # {}

----------------------------------------------------------------------------
(* Requests                                                                 *)

\* The session and its access are resolved in one statement.
Arrive(k, c) ==
  /\ req[k] = NoRequest /\ userStatus[c] = "ACTIVE"
  /\ LET may == {s \in Scopes : MayManage(c, s)}
     IN  may # {} /\ req' = [req EXCEPT ![k] = [@ EXCEPT !.pc = "asked", !.caller = c, !.may = may]]
  /\ UNCHANGED <<userStatus, grants, link>>

MutLockFree == TRUE    \* the organization is not locked
LockFree == \A k \in Requests : req[k].pc # "checked"

MutAuthorized(k, s) == s \in req[k].may    \* the caller is not read again

\* lockAdministration and the checks of the scope.
Authorized(k, s) ==
  /\ s \in req[k].may
  /\ userStatus[req[k].caller] = "ACTIVE" /\ MayManage(req[k].caller, s)

Checked(k, op, u, r, s) ==
  /\ req[k].pc = "asked" /\ LockFree /\ Authorized(k, s)
  /\ req' = [req EXCEPT ![k] = [@ EXCEPT !.pc = "checked", !.may = {}, !.op = op, !.row = Grant(u, r, s)]]
  /\ UNCHANGED <<userStatus, grants, link>>

InviteUser(k, u, r, s) ==
  /\ userStatus[u] = "ABSENT" /\ NoEscalation(req[k].caller, r, s)
  /\ Checked(k, "invite", u, r, s)

GrantRole(k, u, r, s) ==
  /\ u # req[k].caller /\ userStatus[u] # "ABSENT" /\ Grant(u, r, s) \notin grants
  /\ NoEscalation(req[k].caller, r, s)
  /\ Checked(k, "grant", u, r, s)

RevokeRole(k, u, r, s) ==
  /\ u # req[k].caller /\ Grant(u, r, s) \in grants
  /\ NoEscalation(req[k].caller, r, s)
  /\ s = Org => KeepsAnAdministrator(Users, grants \ {Grant(u, r, s)})
  /\ Checked(k, "revoke", u, r, s)

DisableUser(k, u) ==
  /\ u # req[k].caller /\ userStatus[u] \in {"INVITED", "ACTIVE"}
  /\ Outranks(req[k].caller, u) /\ KeepsAnAdministrator(Users \ {u}, grants)
  /\ Checked(k, "disable", u, FirstRole, Org)

EnableUser(k, u) ==
  /\ u # req[k].caller /\ userStatus[u] = "DISABLED" /\ Outranks(req[k].caller, u)
  /\ Checked(k, "enable", u, FirstRole, Org)

\* Of a user who has joined it changes the password only.
IssuePasswordReset(k, u) ==
  /\ u # req[k].caller /\ userStatus[u] = "INVITED" /\ Outranks(req[k].caller, u)
  /\ Checked(k, "reset", u, FirstRole, Org)

CommitChange(k) ==
  /\ req[k].pc = "checked"
  /\ LET op == req[k].op
         u == req[k].row.user
     IN  /\ userStatus' = CASE op = "invite" -> [userStatus EXCEPT ![u] = "INVITED"]
                                [] op = "disable" -> [userStatus EXCEPT ![u] = "DISABLED"]
                            [] op = "enable" -> [userStatus EXCEPT ![u] = "ACTIVE"]
                            [] OTHER -> userStatus
         /\ grants' = CASE op \in {"invite", "grant"} -> grants \cup {req[k].row}
                        [] op = "revoke" -> grants \ {req[k].row}
                        [] OTHER -> grants
         /\ link' = IF op \in {"invite", "reset"} THEN link \cup {u} ELSE link
  /\ req' = [req EXCEPT ![k] = NoRequest]

\* It is refused, or fails.
Withdraw(k) ==
  /\ req[k] # NoRequest
  /\ req' = [req EXCEPT ![k] = NoRequest]
  /\ UNCHANGED <<userStatus, grants, link>>

----------------------------------------------------------------------------
(* Links                                                                    *)

CompletePasswordReset(u) ==
  /\ u \in link /\ userStatus[u] \in {"ACTIVE", "INVITED"}
  /\ userStatus' = [userStatus EXCEPT ![u] = "ACTIVE"]
  /\ link' = link \ {u}
  /\ UNCHANGED <<grants, req>>

LinkExpires(u) ==
  /\ u \in link /\ link' = link \ {u}
  /\ UNCHANGED <<userStatus, grants, req>>

----------------------------------------------------------------------------

\* bootstrapFirstOrganization
AdminInit ==
  /\ userStatus = [u \in Users |-> IF u = Founder THEN "ACTIVE" ELSE "ABSENT"]
  /\ grants = {Grant(Founder, FirstRole, Org)}
  /\ link = {}
  /\ req = [k \in Requests |-> NoRequest]

Command(k) ==
  \/ \E c \in Users : Arrive(k, c)
  \/ \E u \in Users, o \in Offers :
       InviteUser(k, u, o[1], o[2]) \/ GrantRole(k, u, o[1], o[2]) \/ RevokeRole(k, u, o[1], o[2])
  \/ \E u \in Users : DisableUser(k, u) \/ EnableUser(k, u) \/ IssuePasswordReset(k, u)
  \/ CommitChange(k) \/ Withdraw(k)

AdminNext ==
  \/ \E k \in Requests : Command(k)
  \/ \E u \in Users : CompletePasswordReset(u) \/ LinkExpires(u)

AdminSpec == AdminInit /\ [][AdminNext]_adminVars

----------------------------------------------------------------------------
(* Properties                                                               *)

AdminTypeOK ==
  /\ userStatus \in [Users -> {"ABSENT", "INVITED", "ACTIVE", "DISABLED"}]
  /\ grants \subseteq Assignment /\ link \subseteq Users
  /\ req \in [Requests -> RequestRow]
  /\ \A k \in Requests : /\ req[k].pc # "none" => req[k].caller \in Users
                         /\ req[k].pc = "checked" => req[k].row \in Assignment

Active == {u \in Users : userStatus[u] = "ACTIVE"}

PermissionsHeld(rows) ==
  [u \in Users |-> {x \in Scopes \X Permissions :
                     \E g \in rows : g.user = u /\ g.scope = x[1] /\ x[2] \in Permits[g.role]}]

Mandate == INSTANCE Authority WITH
  active <- Active, disabled <- {u \in Users : userStatus[u] = "DISABLED"}, held <- PermissionsHeld(grants)

\* Every change of a user's role or status is made by a user who, when it is
\* committed, is active and outranks what it changes, whatever was revoked since
\* the request arrived; and an active administrator remains (lockAdministration,
\* assertOutranks, assertNoEscalation, assertKeepsAnAdministrator).
ImplementsAuthority == Mandate!Spec
=============================================================================
