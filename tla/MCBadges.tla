------------------------------ MODULE MCBadges ------------------------------
(***************************************************************************)
(* Small instances of the employees and their badges.                      *)
(***************************************************************************)
EXTENDS Badges, TLC

CONSTANTS m1, m2, c1, j1

\* What a PUT says: each input changes one thing of a plain employee.
Plain == [card |-> Keep, email |-> m1, active |-> TRUE, valid |-> TRUE, rule |-> "inside", project |-> Keep]
SmallInputs ==
  {[Plain EXCEPT !.email = m2, !.card = c1], [Plain EXCEPT !.card = None, !.project = j1],
   [Plain EXCEPT !.active = FALSE], [Plain EXCEPT !.rule = "none", !.project = None]}

Interchangeable == Permutations(Requests) \cup Permutations(Phones)
=============================================================================
