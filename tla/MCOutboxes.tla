----------------------------- MODULE MCOutboxes -----------------------------
(***************************************************************************)
(* Small instances of the outboxes.                                        *)
(***************************************************************************)
EXTENDS Outboxes
=============================================================================
