------------------------------- MODULE Lodging ------------------------------
(***************************************************************************)
(* What the front desk promises of the guests of a house: a guest is in one  *)
(* room, which is occupied by no other; a move empties the old room as it    *)
(* fills the new one; who has checked out does not come back.                *)
(***************************************************************************)
CONSTANTS Rooms, Guests, Nowhere

VARIABLES in,        \* in[g]: the room of guest g
          occupied,  \* the rooms that are occupied
          gone       \* who has checked out

vars == <<in, occupied, gone>>

Init == in = [g \in Guests |-> Nowhere] /\ occupied = {} /\ gone = {}

Arrive(g, r) ==
  /\ in[g] = Nowhere /\ g \notin gone
  /\ r \notin occupied
  /\ in' = [in EXCEPT ![g] = r]
  /\ occupied' = occupied \cup {r}
  /\ UNCHANGED gone

Move(g, r) ==
  /\ in[g] # Nowhere
  /\ r \notin occupied
  /\ in' = [in EXCEPT ![g] = r]
  /\ occupied' = (occupied \ {in[g]}) \cup {r}
  /\ UNCHANGED gone

Go(g) ==
  /\ in[g] # Nowhere
  /\ in' = [in EXCEPT ![g] = Nowhere]
  /\ occupied' = occupied \ {in[g]}

Leave(g) == Go(g) /\ gone' = gone \cup {g}

\* The arrival was a mistake: the guest may still come.
Undo(g) == Go(g) /\ UNCHANGED gone

Next ==
  \E g \in Guests :
    \/ Leave(g) \/ Undo(g)
    \/ \E r \in Rooms : Arrive(g, r) \/ Move(g, r)

Spec == Init /\ [][Next]_vars
=============================================================================
