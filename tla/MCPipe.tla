------------------------------- MODULE MCPipe -------------------------------
(***************************************************************************)
(* Pipe on a small machine.                                                *)
(***************************************************************************)
EXTENDS Pipe

=============================================================================
