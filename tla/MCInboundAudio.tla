--------------------------- MODULE MCInboundAudio ---------------------------
(***************************************************************************)
(* TLC instance of InboundAudio: two users who take turns on one SSRC,     *)
(* twice, and an event queue that fills.                                   *)
(***************************************************************************)
EXTENDS InboundAudio, TLC

\* The users are interchangeable.
UserSymmetry == Permutations(Users)

=============================================================================
