---------------------------- MODULE MCReception ----------------------------
(***************************************************************************)
(* Small instances of the front desk.  Requests are interchangeable, so    *)
(* the safety runs check one representative of each permutation.           *)
(***************************************************************************)
EXTENDS Reception, TLC

RequestSymmetry == Permutations(Requests)
=============================================================================
