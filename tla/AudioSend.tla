----------------------------- MODULE AudioSend -----------------------------
(***************************************************************************)
(* AudioSendState (audio_pipeline.rs): the speech and music buffers of the *)
(* voice connection and the decision, every 20 ms, which frame is sent.    *)
(* Speech is counted in samples, music in frames: the music worker pushes  *)
(* whole frames. The music gain is modelled in Playback, which in turn     *)
(* abstracts the speech gate modelled here. The counters saturate far      *)
(* above the values they reach.                                            *)
(***************************************************************************)
EXTENDS Integers, Sequences

CONSTANTS
  Samples,      \* the sample values
  MaxChunk,     \* bound: samples in one push
  MaxMusic,     \* MAX_MUSIC_BUFFER_SAMPLES, in frames
  Frame,        \* AUDIO_FRAME_SAMPLES
  Prebuffer,    \* TTS_PREBUFFER_SAMPLES
  Cap,          \* MAX_PCM_BUFFER_SAMPLES
  StallTicks,   \* TTS_PREBUFFER_STALL_TICKS
  FlushTicks,   \* PARTIAL_TTS_FLUSH_TICKS
  MaxSilence    \* MAX_TRAILING_SILENCE

ASSUME AudioSendAssumption ==
  /\ MaxChunk \in Nat /\ MaxMusic \in Nat /\ MaxSilence \in Nat
  /\ Frame \in Nat \ {0} /\ Prebuffer \in Nat /\ Cap \in Nat
  /\ StallTicks \in Nat \ {0} /\ FlushTicks \in Nat \ {0}
  /\ Frame < Prebuffer /\ Prebuffer <= Cap

VARIABLES
  speech,      \* pcm_buffer
  music,       \* music_buffer, in frames
  suppressed,  \* music_output_suppressed
  speaking,
  silence,     \* trailing_silence_frames
  tailTicks,   \* partial_tts_stall_ticks
  gate,        \* tts_prebuffer_satisfied, _stall_ticks and _last_len
  refused      \* ghost: the encoder refused a frame that should have started speech

vars == <<speech, music, suppressed, speaking, silence, tailTicks, gate, refused>>

Chunks == UNION {[1 .. n -> Samples] : n \in 1 .. MaxChunk}

Shut == [open |-> FALSE, stalled |-> 0, seen |-> 0]

FlagsOK == suppressed \in BOOLEAN /\ speaking \in BOOLEAN /\ refused \in BOOLEAN

Gates == [open : BOOLEAN, stalled : 0 .. StallTicks, seen : 0 .. Cap]

SizesOK ==
  /\ speech \in Seq(Samples) /\ Len(speech) <= Cap
  /\ music \in 0 .. MaxMusic
  /\ silence \in 0 .. MaxSilence
  /\ tailTicks \in 0 .. FlushTicks
  /\ gate \in Gates

TypeOK == FlagsOK /\ SizesOK

Init ==
  /\ speech = <<>> /\ music = 0 /\ suppressed = FALSE
  /\ speaking = FALSE /\ silence = 0 /\ tailTicks = 0
  /\ gate = Shut /\ refused = FALSE

-----------------------------------------------------------------------------
(* What the main loop does to the buffers.                                   *)

\* Mutant of Kept: the buffer keeps the newest samples and skips queued speech.
KeptNewest(s) == IF Len(s) > Cap THEN SubSeq(s, Len(s) - Cap + 1, Len(s)) ELSE s

\* Mutant of Kept: the buffer is not bounded before the next frame.
KeptAll(s) == s

\* The overflow of push_pcm: the newest samples are dropped.
Kept(s) == IF Len(s) > Cap THEN SubSeq(s, 1, Cap) ELSE s

PushPcm ==
  /\ \E c \in Chunks : speech' = Kept(speech \o c)
  /\ silence' = 0 /\ tailTicks' = 0
  /\ UNCHANGED <<music, suppressed, speaking, gate, refused>>

\* on_audio_tick pushes a chunk when can_accept_music_chunk.
PushMusicPcm ==
  /\ music < MaxMusic
  /\ music' = music + 1 /\ silence' = 0
  /\ UNCHANGED <<speech, suppressed, speaking, tailTicks, gate, refused>>

SuppressMusic ==
  /\ suppressed' = TRUE
  /\ UNCHANGED <<speech, music, speaking, silence, tailTicks, gate, refused>>

ResumeMusic ==
  /\ suppressed' = FALSE /\ silence' = 0
  /\ UNCHANGED <<speech, music, speaking, tailTicks, gate, refused>>

Clear ==
  /\ speech' = <<>> /\ music' = 0 /\ suppressed' = FALSE
  /\ silence' = MaxSilence /\ tailTicks' = 0
  /\ gate' = Shut /\ refused' = FALSE
  /\ UNCHANGED speaking

ClearTts ==
  /\ speech' = <<>> /\ tailTicks' = 0
  /\ gate' = Shut /\ refused' = FALSE
  /\ UNCHANGED <<music, suppressed, speaking, silence>>

ClearMusic ==
  /\ music' = 0 /\ suppressed' = FALSE /\ silence' = MaxSilence
  /\ UNCHANGED <<speech, speaking, tailTicks, gate, refused>>

\* The connection is lost (clear_voice_connection) and ready again.
Renewed ==
  /\ speech' = <<>> /\ music' = 0 /\ suppressed' = FALSE
  /\ speaking' = FALSE /\ silence' = 0 /\ tailTicks' = 0
  /\ gate' = Shut /\ refused' = FALSE

-----------------------------------------------------------------------------
(* next_opus_frame, in the order of its decisions.                           *)

Ready == ~suppressed /\ music > 0

\* The prebuffer gate looks at the buffer only while it is shut.
Gating == ~gate.open /\ speech # <<>> /\ Len(speech) < Prebuffer

\* Mutant of Stalled: an unchanged buffer counts as growing.
StalledUnlessShrunk == IF Len(speech) >= gate.seen THEN 0 ELSE gate.stalled + 1

Stalled == IF Len(speech) > gate.seen THEN 0 ELSE gate.stalled + 1

Waits == Gating /\ Stalled < StallTicks /\ ~Ready

WaitForMore ==
  /\ Waits
  /\ gate' = [gate EXCEPT !.stalled = Stalled, !.seen = Len(speech)]
  /\ tailTicks' = 0
  /\ UNCHANGED <<speech, music, suppressed, speaking, silence, refused>>

\* The gate after it let the tick pass: released by the stall or by music,
\* opened by the threshold, or as it was.
Passed ==
  IF Gating THEN [open |-> TRUE, stalled |-> Stalled, seen |-> Len(speech)]
  ELSE IF ~gate.open /\ Len(speech) >= Prebuffer THEN [open |-> TRUE, stalled |-> 0, seen |-> 0]
  ELSE gate

Partial == speech # <<>> /\ Len(speech) < Frame

Ticks == IF Partial THEN tailTicks + 1 ELSE 0

Taken ==
  IF Len(speech) >= Frame THEN Frame
  ELSE IF Partial /\ (Ready \/ Ticks >= FlushTicks) THEN Len(speech)
  ELSE 0

\* A frame of speech, of music or of both is encoded; the encoder may refuse it.
Mix ==
  /\ ~Waits
  /\ Taken > 0 \/ Ready
  /\ speech' = SubSeq(speech, Taken + 1, Len(speech))
  /\ music' = IF Ready THEN music - 1 ELSE music
  /\ gate' = Passed
  /\ \/ /\ speaking' = TRUE /\ silence' = 0 /\ tailTicks' = 0
        /\ refused' = FALSE
     \/ /\ tailTicks' = Ticks
        /\ refused' = IF speaking THEN refused ELSE TRUE
        /\ UNCHANGED <<speaking, silence>>
  /\ UNCHANGED suppressed

\* An underfilled frame waits for the next delta.
HoldPartial ==
  /\ ~Waits /\ Taken = 0 /\ ~Ready /\ Partial
  /\ gate' = Passed /\ tailTicks' = Ticks
  /\ UNCHANGED <<speech, music, suppressed, speaking, silence, refused>>

TrailingSilence ==
  /\ speech = <<>> /\ ~Ready /\ silence < MaxSilence
  /\ silence' = silence + 1 /\ tailTicks' = 0
  /\ UNCHANGED <<speech, music, suppressed, speaking, gate, refused>>

\* Mutant of ShutAtEnd: the gate is forgotten when speech is over.
LeftAtEnd == gate

\* The gate when the trailing silence is over.
ShutAtEnd == IF speaking THEN Shut ELSE gate

Idle ==
  /\ speech = <<>> /\ ~Ready /\ silence = MaxSilence
  /\ speaking' = FALSE /\ gate' = ShutAtEnd /\ tailTicks' = 0
  /\ UNCHANGED <<speech, music, suppressed, silence, refused>>

NextOpusFrame == WaitForMore \/ Mix \/ HoldPartial \/ TrailingSilence \/ Idle

Command ==
  \/ PushPcm \/ PushMusicPcm \/ SuppressMusic \/ ResumeMusic
  \/ Clear \/ ClearTts \/ ClearMusic \/ Renewed

Next == NextOpusFrame \/ Command

Spec == Init /\ [][Next]_vars

\* send_interval of main.rs ticks for as long as the process runs.
FairSpec == Spec /\ WF_vars(NextOpusFrame)

-----------------------------------------------------------------------------
(* Properties. *)

\* tts_just_drained.
JustDrained == ~speaking /\ speech = <<>> /\ silence >= MaxSilence /\ ~gate.open

\* Whenever the mixer is at rest the gate is shut, so that the next stretch of
\* speech is prebuffered and the drain of this one is reported; only a frame the
\* encoder refused before anything was sent leaves the gate open.
ArmedAtRest == ~speaking /\ speech = <<>> /\ gate.open => refused

\* Once nobody pushes, clears or resumes any more, the mixer comes to rest and
\* reports the drain at every tick from then on: no sample, however few, stays
\* in a buffer, whatever the counters were when the pushes stopped.
ComesToRest == <>[][NextOpusFrame]_vars => <>[](JustDrained \/ refused)

-----------------------------------------------------------------------------
(* The mixer implements the line of speech.                                  *)

\* The longest wait of a buffer that does not grow.
MaxPatience == StallTicks + FlushTicks - 1

\* How often the buffer, as it is, was held so far.
HeldSoFar ==
  IF gate.open THEN StallTicks + tailTicks
  ELSE IF Gating /\ Len(speech) <= gate.seen THEN 1 + gate.stalled
  ELSE 0

PatienceLeft == IF HeldSoFar <= MaxPatience THEN MaxPatience - HeldSoFar ELSE 0

Owed == MaxSilence - silence

Line == INSTANCE SpeechLine WITH
  line <- speech, flowing <- gate.open, owed <- Owed, patience <- PatienceLeft

\* The mixer implements SpeechLine: samples leave in the order they came in, are
\* lost only at a full buffer's end or to a clear, and are never held for longer
\* than MaxPatience ticks by the gate, its stall counter and the partial flush
\* together, nor at all once a whole frame of flowing speech is there.
ImplementsLine == Line!Spec
=============================================================================
