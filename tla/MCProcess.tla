----------------------------- MODULE MCProcess -----------------------------
(***************************************************************************)
(* Process on a small machine: init and the processes it forks.            *)
(***************************************************************************)
EXTENDS Process

=============================================================================
