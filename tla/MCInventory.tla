---------------------------- MODULE MCInventory -----------------------------
(***************************************************************************)
(* Constants for the TLC runs of Inventory.                                 *)
(***************************************************************************)
EXTENDS Inventory, TLC

CONSTANTS t1, t2, r1, r2, i1, i2, i3, b1, b2, k1, k2, k3

Symmetry == Permutations(Rooms) \cup Permutations(Ids) \cup Permutations(Clients)
              \cup Permutations(Blocks) \cup Permutations(Types)

Reservations == {"book", "modify", "confirm", "release", "reinstate", "checkIn", "checkOut", "extend"}
Groups == {"createBlock", "setAllocation", "changeBlockStatus", "releaseBlock", "pickup"}
Setup == {"addRoom", "editRoom", "place", "return"}

StayCommands == Reservations \cup Setup
BlockCommands == Groups \cup {"book", "release", "reinstate", "closeGroup", "cancelGroup"}
CancelCommands == {"createBlock", "setAllocation", "cancelGroup"}

\* Where no room is added, one that does not exist is as good as one out of use.
RoomsExist == \A r \in Rooms : room[r].type # None
=============================================================================
