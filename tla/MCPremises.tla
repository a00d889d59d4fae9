----------------------------- MODULE MCPremises -----------------------------
(***************************************************************************)
(* A small instance of every part of a site.  A behaviour follows one of   *)
(* them, so the parts can use the same model values for their own things:  *)
(* a permutation then acts on the one that moves.                          *)
(***************************************************************************)
EXTENDS Premises, TLC

CONSTANTS Requests, Pair, Twins

Interchangeable == Permutations(Requests) \cup Permutations(Pair) \cup Permutations(Twins)
=============================================================================
