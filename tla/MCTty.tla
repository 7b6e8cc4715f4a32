-------------------------------- MODULE MCTty --------------------------------
(***************************************************************************)
(* Tty on a small machine.                                                 *)
(***************************************************************************)
EXTENDS Tty
=============================================================================
