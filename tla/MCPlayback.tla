----------------------------- MODULE MCPlayback -----------------------------
(***************************************************************************)
(* TLC instance of Playback: two pipelines, so that a replaced worker runs *)
(* beside its successor, and channels and buffers of one frame.            *)
(***************************************************************************)
EXTENDS Playback

\* Whom the last fade-out was asked of is looked at while one is pending, and
\* written when the next is asked for: in between, states that differ in it alone
\* go on alike.
StopView ==
  <<music, pending, threads, pcm, events, send, ttsFlag, telemetry, parent,
    IF music.stopping THEN stopFor ELSE NoWorker>>
=============================================================================
