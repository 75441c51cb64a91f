---------------------------- MODULE MCStreamPublish ----------------------------
(***************************************************************************)
(* Instances of StreamPublish for TLC: one URL source and the browser      *)
(* source, two or three pipelines, a frame channel that a single chunk of  *)
(* a pipeline can fill, and one Ready event in flight.                     *)
(***************************************************************************)
EXTENDS StreamPublish
=============================================================================
