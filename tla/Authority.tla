------------------------------ MODULE Authority -----------------------------
(***************************************************************************)
(* What the administration of users promises: whoever changes what a user   *)
(* may do, or whether the user may act at all, is active and has, at that    *)
(* moment, authority over all that changes; and the organization is never   *)
(* left without an active administrator.                                    *)
(***************************************************************************)
CONSTANTS Users, Supers, Scopes, Org, Permissions, Manage, Administrative

VARIABLES active,    \* who may act
          disabled,  \* who was switched off
          held       \* held[u]: the permissions of user u, each with its scope

vars == <<active, disabled, held>>

Holdings == [Users -> SUBSET (Scopes \X Permissions)]

Holds(c, s, p) == c \in Supers \/ {<<Org, p>>, <<s, p>>} \cap held[c] # {}

Administrators == {u \in active : u \in Supers \/ {Org} \X Administrative \subseteq held[u]}

Init ==
  /\ active \subseteq Users /\ disabled = {}
  /\ held \in Holdings
  /\ Administrators # {}

\* c changes what u may do in scope s: all that is won or lost is held by c there.
Regrade(c, u, s) ==
  /\ c \in active /\ c # u /\ Holds(c, s, Manage)
  /\ held' \in Holdings
  /\ \A g \in (held[u] \ held'[u]) \cup (held'[u] \ held[u]) : g[1] = s /\ Holds(c, s, g[2])
  /\ \A v \in Users \ {u} : held'[v] = held[v]
  /\ UNCHANGED <<active, disabled>>

Outranks(c, u) ==
  /\ c \in active /\ c # u /\ Holds(c, Org, Manage)
  /\ u \in Supers => c \in Supers
  /\ \A g \in held[u] : Holds(c, g[1], g[2])

SwitchOff(c, u) ==
  /\ Outranks(c, u)
  /\ active' = active \ {u} /\ disabled' = disabled \cup {u}
  /\ UNCHANGED held

SwitchOn(c, u) ==
  /\ Outranks(c, u) /\ u \in disabled
  /\ active' = active \cup {u} /\ disabled' = disabled \ {u}
  /\ UNCHANGED held

\* An invited user sets a password.
Join(u) ==
  /\ u \notin disabled
  /\ active' = active \cup {u}
  /\ UNCHANGED <<disabled, held>>

Next ==
  /\ \/ \E c, u \in Users, s \in Scopes : Regrade(c, u, s)
     \/ \E c, u \in Users : SwitchOff(c, u) \/ SwitchOn(c, u)
     \/ \E u \in Users : Join(u)
  /\ Administrators' # {}

Spec == Init /\ [][Next]_vars
=============================================================================
