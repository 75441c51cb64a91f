---------------------------- MODULE MCConnection ----------------------------
(***************************************************************************)
(* TLC instance of Connection: session ids are interchangeable, so they    *)
(* are a symmetry set of model values.                                     *)
(***************************************************************************)
EXTENDS Connection, TLC

SessionSymmetry == Permutations(Sessions)
=============================================================================
