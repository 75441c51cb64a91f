------------------------------ MODULE MCCapture ------------------------------
(***************************************************************************)
(* TLC instance of Capture, and the mutants of its properties.             *)
(***************************************************************************)
EXTENDS Capture
=============================================================================
