----------------------------- MODULE MCParking -----------------------------
(***************************************************************************)
(* Small instances of the parking.  A week has a few days, the first of    *)
(* them worked.  Requests and people are interchangeable (everything is    *)
(* chosen for them nondeterministically); spots are numbers, in the order  *)
(* of their codes.                                                         *)
(***************************************************************************)
EXTENDS Parking, TLC

Symmetry == Permutations(Requests) \cup Permutations(People)
=============================================================================
