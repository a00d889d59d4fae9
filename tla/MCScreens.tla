------------------------------ MODULE MCScreens ------------------------------
(* A small instance of every screen: its values are given in the .cfg files. *)
EXTENDS Screens
=============================================================================
