------------------------------- MODULE MCIpc -------------------------------
(* TLC instance of Ipc. *)
EXTENDS Ipc
=============================================================================
