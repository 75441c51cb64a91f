----------------------------- MODULE SpeechLine -----------------------------
(***************************************************************************)
(* What the speech side of the mixer promises, without its counters: a     *)
(* bounded first-in first-out line of samples. Samples are lost only at    *)
(* the end of what is pushed, when the line is full, or when somebody      *)
(* clears the line. Every tick plays the head of the line, holds it or     *)
(* finds it empty, and patience bounds the holds: each one uses some of it *)
(* up, so speech nobody adds to is on its way after at most MaxPatience    *)
(* ticks. Once it flows a full frame is never held. An empty line is       *)
(* followed by its silence frames before speech is over.                   *)
(***************************************************************************)
EXTENDS Integers, Sequences

CONSTANTS
  Samples,      \* the sample values
  Frame,        \* samples played per tick
  Cap,          \* samples the line holds
  MaxSilence,   \* silence frames after the last sample
  MaxPatience   \* ticks a line that does not grow may be held

VARIABLES
  line,       \* the samples waiting
  flowing,    \* playback of this stretch of speech has begun
  owed,       \* silence frames still to be sent
  patience    \* holds that are left

vars == <<line, flowing, owed, patience>>

Patience == 0 .. MaxPatience

Init ==
  /\ line = <<>> /\ flowing = FALSE
  /\ owed \in {0, MaxSilence} /\ patience \in Patience

\* Pushed samples join the end, as many as fit.
Join ==
  /\ line' \in Seq(Samples) /\ Len(line') \in Len(line) .. Cap
  /\ line = SubSeq(line', 1, Len(line))
  /\ owed' = MaxSilence
  /\ patience' \in Patience
  /\ UNCHANGED flowing

\* The head of the line is played, at least one sample of it if there is any.
\* A frame the encoder refuses is lost and owes no silence.
Play ==
  /\ \E n \in 0 .. Frame :
       /\ n = 0 <=> line = <<>>
       /\ n <= Len(line)
       /\ line' = SubSeq(line, n + 1, Len(line))
  /\ owed' \in {owed, MaxSilence}
  /\ flowing' \in BOOLEAN /\ (flowing => flowing')
  /\ patience' \in Patience

\* Speech waits for more of it: before it flows, or while it is less than a frame.
Hold ==
  /\ line # <<>>
  /\ ~flowing \/ Len(line) < Frame
  /\ patience' \in Patience /\ patience' < patience
  /\ flowing' \in BOOLEAN /\ (flowing => flowing')
  /\ UNCHANGED <<line, owed>>

Silence ==
  /\ line = <<>> /\ owed > 0
  /\ owed' = owed - 1
  /\ patience' \in Patience
  /\ UNCHANGED <<line, flowing>>

\* Speech is over; the next stretch starts from the beginning.
End ==
  /\ line = <<>> /\ owed = 0
  /\ flowing' = FALSE /\ patience' \in Patience
  /\ UNCHANGED <<line, owed>>

\* Somebody clears the line; the silence owed may be cut short with it.
Clear ==
  /\ line' = <<>> /\ flowing' = FALSE
  /\ owed' \in {0, owed, MaxSilence} /\ patience' \in Patience

\* Music starts or stops: silence is owed again, or no longer.
MusicTurns ==
  /\ owed' \in {0, MaxSilence}
  /\ UNCHANGED <<line, flowing, patience>>

Next == Join \/ Play \/ Hold \/ Silence \/ End \/ Clear \/ MusicTurns

Spec == Init /\ [][Next]_vars
=============================================================================
