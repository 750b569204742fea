------------------------------ MODULE MCRefresh ------------------------------
(* Three tabs, of which two refresh with one token and the third with the next. *)
EXTENDS Refresh, TLC

CONSTANTS t1, t2, t3

Symmetry == Permutations(Tabs)
=============================================================================
