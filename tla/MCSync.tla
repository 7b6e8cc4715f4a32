------------------------------- MODULE MCSync -------------------------------
(***************************************************************************)
(* Sync on a small machine.                                                *)
(***************************************************************************)
EXTENDS Sync

=============================================================================
