---------------------------- MODULE MCAudioSend ----------------------------
(* TLC instance of AudioSend. *)
EXTENDS AudioSend
=============================================================================
