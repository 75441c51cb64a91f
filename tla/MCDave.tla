--------------------------------- MODULE MCDave ---------------------------------
(***************************************************************************)
(* Instances of Dave for TLC: transition 0 and two others, versions 0 and  *)
(* 1, and enough opcodes to prepare, store, execute and reinitialize in    *)
(* any order.                                                              *)
(***************************************************************************)
EXTENDS Dave
=============================================================================
