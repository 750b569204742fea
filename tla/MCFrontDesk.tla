---------------------------- MODULE MCFrontDesk -----------------------------
(***************************************************************************)
(* Constants for the TLC runs of FrontDesk.                                 *)
(***************************************************************************)
EXTENDS FrontDesk, TLC

CONSTANTS r1, r2, s1, s2, k1, k2

\* The rooms differ in who works on them.
Symmetry == Permutations(Stays) \cup Permutations(Clerks)
=============================================================================
