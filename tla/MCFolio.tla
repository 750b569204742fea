------------------------------ MODULE MCFolio -------------------------------
(***************************************************************************)
(* Constants for the TLC runs of Folio.                                     *)
(***************************************************************************)
EXTENDS Folio, TLC

CONSTANTS c1, c2, k1, k2, k3, k4, i1, i2, i3, i4, p1, p2

TwoAndOne == 0 :> 2 @@ 1 :> 1
Untaxed == 0 :> 1 @@ 1 :> 0
Charges == {TwoAndOne}
LastNightFree == {<<"ROOM", LastNight>>, <<"PKG", LastNight>>}

Symmetry == Permutations(Clients) \cup Permutations(Keys)
=============================================================================
