------------------------------ MODULE Playback ------------------------------
(***************************************************************************)
(* Music and speech playback of clankvox: the music state machine of       *)
(* AppState, the worker thread of each MusicPlayer, the bounded PCM and    *)
(* event channels between them, the send buffers that the 20 ms tick       *)
(* mixes, and the playback telemetry the parent process acts on.           *)
(*                                                                         *)
(* The handlers run one at a time on the main loop.  A worker is a thread  *)
(* of its own: MusicPlayer::stop only raises its flag and signals its      *)
(* process, so a replaced worker still runs beside its successor and       *)
(* writes the same two channels.  Nothing in a chunk or in an event says   *)
(* who sent it; the worker ids below are ghosts.                           *)
(*                                                                         *)
(* PCM is counted in 20 ms frames.  The detail of the speech gate (see     *)
(* next_opus_frame) is abstracted to a choice: speech may be held back     *)
(* while no music frame is mixed.                                          *)
(***************************************************************************)
EXTENDS Integers, Sequences

CONSTANTS
  MaxWorkers,      \* bound: pipelines started in one behaviour
  PcmCap,          \* capacity of the PCM channel (100 chunks)
  MusicEventCap,   \* capacity of the MusicEvent channel (32)
  MaxTts,          \* MAX_PCM_BUFFER_SAMPLES in frames
  MaxMusic,        \* MAX_MUSIC_BUFFER_SAMPLES in frames
  GainFull,        \* gain 1.0 in steps of a fade
  SafetyAge,       \* ticks of the 15 s safety timeout of a pending start
  ReportInterval   \* BUFFER_DEPTH_REPORT_INTERVAL in ticks

ASSUME PlaybackAssumption ==
  /\ MaxWorkers \in Nat
  /\ PcmCap \in Nat \ {0}
  /\ MusicEventCap \in Nat \ {0}
  /\ MaxTts \in Nat \ {0}
  /\ MaxMusic \in Nat \ {0}
  /\ GainFull \in Nat \ {0}
  /\ SafetyAge \in Nat
  /\ ReportInterval \in Nat \ {0}

Workers == 1 .. MaxWorkers
NoWorker == 0
Gains == 0 .. GainFull
Statuses == {"playing", "paused", "idle"}

VARIABLES
  music,       \* MusicState without the pending start; url: active_url is set
  pending,     \* the pending_* fields; age: ticks since pending_received_at
  worker,      \* the worker threads
  nextWorker,  \* ghost: the next worker's identity
  pcm,         \* the PCM channel, as the workers that sent the chunks
  events,      \* the MusicEvent channel
  send,        \* AudioSendState; up: it is Some
  ttsFlag,     \* tts_playback_buffered
  wasNonEmpty, \* buffer_depth_was_nonempty
  reportTick,  \* buffer_depth_tick_counter
  told,        \* ghost: the last PlayerState the parent was sent
  cutOff,      \* ghost: voice was lost while told was "playing", which no PlayerState corrected
  stopFor      \* ghost: the player that was asked for the last fade-out

threads == <<worker, nextWorker>>
telemetry == <<wasNonEmpty, reportTick>>
parent == <<told, cutOff>>
vars == <<music, pending, threads, pcm, events, send, ttsFlag, telemetry, parent, stopFor>>

MusicStates == [active : BOOLEAN, paused : BOOLEAN, finishing : BOOLEAN, url : BOOLEAN,
                stopping : BOOLEAN, player : Workers \cup {NoWorker}]
PendingStates == [on : BOOLEAN, seen : BOOLEAN, draining : BOOLEAN, age : 0 .. SafetyAge + 1]
Phases == {"idle", "spawning", "reading", "pushing", "closing", "closed",
           "ending", "failed", "done"}
WorkerStates == [phase : Phases, stop : BOOLEAN]
MusicEvents == [kind : {"idle", "error"}, by : Workers]
SendStates == [up : BOOLEAN, tts : 0 .. MaxTts, music : 0 .. MaxMusic, muted : BOOLEAN,
               gain : Gains, target : Gains, noted : Gains]

TypeOK ==
  /\ music \in MusicStates
  /\ pending \in PendingStates
  /\ worker \in [Workers -> WorkerStates]
  /\ nextWorker \in 1 .. MaxWorkers + 1
  /\ pcm \in Seq(Workers) /\ Len(pcm) <= PcmCap
  /\ events \in Seq(MusicEvents) /\ Len(events) <= MusicEventCap
  /\ send \in SendStates
  /\ ttsFlag \in BOOLEAN
  /\ wasNonEmpty \in BOOLEAN
  /\ reportTick \in 0 .. ReportInterval - 1
  /\ told \in Statuses
  /\ cutOff \in BOOLEAN
  /\ stopFor \in Workers \cup {NoWorker}

-----------------------------------------------------------------------------
(* The helpers of MusicState and AudioSendState.                             *)

\* clear_pending_start, reset (but for the player's flag) and a send state that
\* is absent or new.
NoPending == [on |-> FALSE, seen |-> FALSE, draining |-> FALSE, age |-> 0]
Reset == [active |-> FALSE, paused |-> FALSE, finishing |-> FALSE, url |-> FALSE,
          stopping |-> FALSE, player |-> NoWorker]
FreshSend(isUp) == [up |-> isUp, tts |-> 0, music |-> 0, muted |-> FALSE,
                    gain |-> GainFull, target |-> GainFull, noted |-> GainFull]

Init ==
  /\ music = Reset
  /\ pending = NoPending
  /\ worker = [w \in Workers |-> [phase |-> "idle", stop |-> FALSE]]
  /\ nextWorker = 1
  /\ pcm = <<>>
  /\ events = <<>>
  /\ send = FreshSend(FALSE)
  /\ ttsFlag = FALSE
  /\ wasNonEmpty = FALSE
  /\ reportTick = 0
  /\ told = "idle"
  /\ cutOff = FALSE
  /\ stopFor = NoWorker

\* stop_player: the flag of the worker is raised; it ends in its own time.
StopPlayer == IF music.player = NoWorker THEN worker
              ELSE [worker EXCEPT ![music.player].stop = TRUE]

\* child_pid is set from the spawn until the process was waited for.
Alive(w) == w # NoWorker /\ worker[w].phase \in {"reading", "pushing", "closing"}

\* AudioSendState::clear, clear_tts and clear_music; nothing happens to a state
\* that is absent, whose fields are those of FreshSend.
Clear(s) == [s EXCEPT !.tts = 0, !.music = 0, !.muted = FALSE]
ClearTts(s) == [s EXCEPT !.tts = 0]

\* Mutant of ClearMusic: the suppression of the last pause stays.
ClearMusicOnly(s) == [s EXCEPT !.music = 0]

ClearMusic(s) == [s EXCEPT !.music = 0, !.muted = FALSE]
Mute(s, muted) == [s EXCEPT !.muted = muted /\ s.up]

BufferedMusic == pcm # <<>> \/ send.music > 0

\* set_music_gain: without a fade the gain is reached and reported at once.
SetGain(s, target, atOnce) ==
  IF ~s.up THEN s
  ELSE IF atOnce THEN [s EXCEPT !.gain = target, !.target = target, !.noted = target]
  ELSE [s EXCEPT !.target = target]

Ducked == send.up /\ send.target < GainFull
FadedOut(s) == s.gain = s.target /\ s.target = 0

\* MusicPlayer::start: `stopped` are the worker states after the old one was told
\* to stop.
StartWorker(stopped) ==
  /\ nextWorker <= MaxWorkers
  /\ worker' = [stopped EXCEPT ![nextWorker].phase = "spawning"]
  /\ nextWorker' = nextWorker + 1

\* A PlayerState goes out.
Tell(status) == told' = status /\ cutOff' = FALSE

\* What StopPlayback, the immediate MusicStop and a finished fade-out share.
StopEverything ==
  /\ music' = Reset
  /\ pending' = NoPending
  /\ worker' = StopPlayer
  /\ pcm' = <<>>
  /\ send' = Clear(send)
  /\ ttsFlag' = FALSE
  /\ Tell("idle")
  /\ UNCHANGED <<nextWorker, events, telemetry, stopFor>>

-----------------------------------------------------------------------------
(* IPC commands (handle_playback_command).                                   *)

\* Mutant of WithSpeech: the speech buffer is not bounded.
WithSpeechAll(n) == n + 1

\* push_pcm: what exceeds the buffer is dropped.
WithSpeech(n) == IF n < MaxTts THEN n + 1 ELSE n

\* Audio: it marks the announcement of a pending start, and is dropped while
\* music plays unducked.
Audio ==
  /\ pending' = IF pending.on THEN [pending EXCEPT !.seen = TRUE] ELSE pending
  /\ IF (music.active /\ ~music.paused /\ ~Ducked) \/ ~send.up
       THEN UNCHANGED <<send, ttsFlag>>
       ELSE /\ send' = [send EXCEPT !.tts = WithSpeech(@)]
            /\ ttsFlag' = TRUE
  /\ UNCHANGED <<music, threads, pcm, events, telemetry, parent, stopFor>>

StopPlayback == StopEverything

StopTtsPlayback ==
  /\ send' = ClearTts(send)
  /\ ttsFlag' = FALSE
  /\ UNCHANGED <<music, pending, threads, pcm, events, telemetry, parent, stopFor>>

\* Mutant of QueuedTrack: pending_stop is not reset.
QueuedTrackStillStopping ==
  [Reset EXCEPT !.url = TRUE, !.player = nextWorker, !.stopping = music.stopping]

\* queue_pending_start leaves nothing of the previous track.
QueuedTrack == [Reset EXCEPT !.url = TRUE, !.player = nextWorker]

\* MusicPlay: the pipeline starts at once and fills the PCM channel, the track
\* waits for the announcement.
MusicPlay ==
  /\ StartWorker(StopPlayer)
  /\ music' = QueuedTrack
  /\ pending' = [NoPending EXCEPT !.on = TRUE]
  /\ pcm' = <<>>
  /\ send' = ClearMusic(send)
  /\ UNCHANGED <<events, ttsFlag, telemetry, parent, stopFor>>

\* MusicStop: a track that plays is faded out first.
MusicStop ==
  IF music.player # NoWorker /\ music.active
    THEN /\ send' = SetGain(send, 0, FALSE)
         /\ music' = [music EXCEPT !.stopping = TRUE]
         /\ stopFor' = music.player
         /\ UNCHANGED <<pending, threads, pcm, events, ttsFlag, telemetry, parent>>
    ELSE StopEverything

\* MusicPause: the pending start is forgotten even when there is nothing to pause.
MusicPause ==
  LET alive == Alive(music.player) IN
  /\ pending' = NoPending
  /\ IF alive \/ music.active \/ music.finishing
       THEN /\ music' = [music EXCEPT
                           !.stopping = FALSE, !.paused = TRUE, !.active = FALSE,
                           !.finishing = @ \/ (~alive /\ BufferedMusic)]
            /\ send' = Mute(send, TRUE)
            /\ Tell("paused")
       ELSE /\ music' = [music EXCEPT !.stopping = FALSE]
            /\ UNCHANGED <<send, parent>>
  /\ UNCHANGED <<threads, pcm, events, ttsFlag, telemetry, stopFor>>

\* MusicResume, in its four cases: in place, the buffered tail, from the start of
\* the track, and nothing to resume.  The signal to a process that ends just now
\* may fail.
ResumeInPlace ==
  /\ Alive(music.player)
  /\ music' = [music EXCEPT !.stopping = FALSE, !.finishing = FALSE,
                            !.paused = FALSE, !.active = TRUE]
  /\ send' = Mute(send, FALSE)
  /\ Tell("playing")
  /\ UNCHANGED <<threads, pcm, ttsFlag>>

ResumeTail ==
  /\ ~Alive(music.player) /\ BufferedMusic
  /\ music' = [music EXCEPT !.stopping = FALSE, !.finishing = TRUE,
                            !.paused = FALSE, !.active = TRUE]
  /\ send' = Mute(send, FALSE)
  /\ Tell("playing")
  /\ UNCHANGED <<threads, pcm, ttsFlag>>

NotResumed == \/ ~Alive(music.player) /\ ~BufferedMusic
              \/ Alive(music.player) /\ worker[music.player].phase = "closing"

RestartTrack ==
  /\ NotResumed /\ music.url
  /\ StartWorker(StopPlayer)
  /\ music' = [Reset EXCEPT !.url = TRUE, !.active = TRUE, !.player = nextWorker]
  /\ pcm' = <<>>
  /\ send' = Clear(send)
  /\ Tell("playing")
  /\ UNCHANGED ttsFlag

NothingToResume ==
  /\ NotResumed /\ ~music.url
  /\ music' = [music EXCEPT !.stopping = FALSE, !.finishing = FALSE]
  /\ UNCHANGED <<threads, pcm, send, ttsFlag, parent>>

MusicResume ==
  /\ ResumeInPlace \/ ResumeTail \/ RestartTrack \/ NothingToResume
  /\ pending' = NoPending
  /\ UNCHANGED <<events, telemetry, stopFor>>

MusicSetGain(target, atOnce) ==
  /\ send' = SetGain(send, target, atOnce)
  /\ UNCHANGED <<music, pending, threads, pcm, events, ttsFlag, telemetry, parent, stopFor>>

-----------------------------------------------------------------------------
(* What the voice transport does to playback.                                *)

\* Ready of the voice role replaces the send state by a new one.
VoiceReady ==
  /\ send' = FreshSend(TRUE)
  /\ UNCHANGED <<music, pending, threads, pcm, events, ttsFlag, telemetry, parent, stopFor>>

\* handle_disconnected ends the music without a PlayerState: the parent hears of
\* the connection only, and still takes the player for what it was told last.
VoiceLost ==
  /\ music' = Reset
  /\ pending' = NoPending
  /\ worker' = StopPlayer
  /\ pcm' = <<>>
  /\ send' = FreshSend(FALSE)
  /\ told' = told /\ cutOff' = (told = "playing")
  /\ UNCHANGED <<nextWorker, events, ttsFlag, telemetry, stopFor>>

\* A changed session only clears the connection: music goes on without output.
SessionChanged ==
  /\ send' = FreshSend(FALSE)
  /\ UNCHANGED <<music, pending, threads, pcm, events, ttsFlag, telemetry, parent, stopFor>>

-----------------------------------------------------------------------------
(* The events of the workers (handle_music_event).                           *)

\* Mutant of AfterIdle: the rest of the track is not waited for.
AfterIdleNoTail == [music EXCEPT !.player = NoWorker, !.paused = FALSE, !.stopping = FALSE]

\* What Idle leaves of the music state when the tail still has to play.
AfterIdle == [music EXCEPT !.player = NoWorker, !.paused = FALSE,
                           !.finishing = music.active, !.stopping = FALSE]

HandleIdle ==
  /\ events # <<>> /\ Head(events).kind = "idle"
  /\ events' = Tail(events)
  /\ worker' = StopPlayer
  /\ pending' = NoPending
  /\ IF music.active
       THEN music' = AfterIdle /\ UNCHANGED parent
       ELSE music' = [AfterIdle EXCEPT !.url = FALSE] /\ Tell("idle")
  /\ UNCHANGED <<nextWorker, pcm, send, ttsFlag, telemetry, stopFor>>

HandleError ==
  /\ events # <<>> /\ Head(events).kind = "error"
  /\ events' = Tail(events)
  /\ music' = Reset
  /\ pending' = NoPending
  /\ worker' = StopPlayer
  /\ pcm' = <<>>
  /\ Tell("idle")
  /\ UNCHANGED <<nextWorker, send, ttsFlag, telemetry, stopFor>>

-----------------------------------------------------------------------------
(* The worker thread of one MusicPlayer.                                     *)

Goes(w, phase) == worker' = [worker EXCEPT ![w].phase = phase]
SameButWorker == UNCHANGED <<music, pending, nextWorker, send, ttsFlag, telemetry, parent, stopFor>>

\* A process that cannot be spawned reports an error, stopped or not.
Spawn(w) ==
  /\ worker[w].phase = "spawning"
  /\ \/ Goes(w, "reading")
     \/ Goes(w, "failed")
  /\ SameButWorker /\ UNCHANGED <<pcm, events>>

\* The stop flag is read before each chunk, not while the thread waits to send.
Read(w) ==
  /\ worker[w].phase = "reading" /\ ~worker[w].stop
  /\ Goes(w, "pushing")
  /\ SameButWorker /\ UNCHANGED <<pcm, events>>

Push(w) ==
  /\ worker[w].phase = "pushing" /\ Len(pcm) < PcmCap
  /\ pcm' = Append(pcm, w)
  /\ Goes(w, "reading")
  /\ SameButWorker /\ UNCHANGED events

\* The stop flag, the end of the stream or a read error ends the loop.
LeaveLoop(w) ==
  /\ worker[w].phase = "reading"
  /\ Goes(w, "closing")
  /\ SameButWorker /\ UNCHANGED <<pcm, events>>

\* The process was waited for; child_pid is cleared.
Close(w) ==
  /\ worker[w].phase = "closing"
  /\ Goes(w, "closed")
  /\ SameButWorker /\ UNCHANGED <<pcm, events>>

\* The flag is read once, before an event is sent that may have to wait.
Decide(w) ==
  /\ worker[w].phase = "closed"
  /\ Goes(w, IF worker[w].stop THEN "done" ELSE "ending")
  /\ SameButWorker /\ UNCHANGED <<pcm, events>>

Report(w) ==
  /\ worker[w].phase \in {"ending", "failed"} /\ Len(events) < MusicEventCap
  /\ \E kind \in IF worker[w].phase = "failed" THEN {"error"} ELSE {"idle", "error"} :
       events' = Append(events, [kind |-> kind, by |-> w])
  /\ Goes(w, "done")
  /\ SameButWorker /\ UNCHANGED pcm

-----------------------------------------------------------------------------
(* The 20 ms tick (on_audio_tick), as the steps it takes in order.           *)

\* Mutant of SafetyTimeout: only the announcement decides.
NoSafetyTimeout(p) == FALSE

\* The 15 s timeout that overrides the wait for the announcement.
SafetyTimeout(p) == p.age > SafetyAge

\* tick_pending_music_start.  `over` are the shorter timers that ran out: the 5 s
\* wait for any announcement, the 500 ms gap after it and the 5 s drain timeout.
Timers == IF ~pending.on THEN {}
          ELSE IF pending.seen THEN {"gap", "drain"} ELSE {"silence"}
AgedPending == IF pending.on /\ pending.age <= SafetyAge
                 THEN [pending EXCEPT !.age = @ + 1] ELSE pending
Draining(p, over) == p.draining \/ "gap" \in over
Commits(p, over) ==
  /\ p.on
  /\ \/ SafetyTimeout(p)
     \/ "silence" \in over
     \/ p.seen /\ Draining(p, over) /\ (send.tts = 0 \/ "drain" \in over)
Committed == [music EXCEPT !.finishing = FALSE, !.url = TRUE, !.active = TRUE, !.paused = FALSE]
FadeIn(s) == IF s.up THEN [s EXCEPT !.gain = 0, !.target = GainFull, !.noted = 0] ELSE s

\* Mutant of PrefetchCount: the tail is left in the channel once the player ended.
PrefetchWhilePlaying(m, s) ==
  IF m.active /\ ~m.paused /\ s.up /\ m.player # NoWorker
    THEN IF Len(pcm) < MaxMusic - s.music THEN Len(pcm) ELSE MaxMusic - s.music
    ELSE 0

\* Chunks moved from the PCM channel to the music buffer.
PrefetchCount(m, s) ==
  IF m.active /\ ~m.paused /\ s.up
    THEN IF Len(pcm) < MaxMusic - s.music THEN Len(pcm) ELSE MaxMusic - s.music
    ELSE 0

\* A tail that was played to its end is reported idle, and so is a track whose
\* fade-out ended; `left` is what remains in the channel.
TailEnded(m, s, left) == m.finishing /\ left = <<>> /\ s.music = 0
StopDue(m, s) == m.stopping /\ (~s.up \/ FadedOut(s))
TookGain(s) == IF s.gain = s.target THEN [s EXCEPT !.noted = s.target] ELSE s

\* next_opus_frame: a music frame takes a speech frame along; speech alone may be
\* held back to coalesce, and its end by trailing silence (`holds`).
HasMusic(s) == s.music > 0 /\ ~s.muted
Toward(from, to) == IF from < to THEN from + 1 ELSE IF from > to THEN from - 1 ELSE from
Mixed(s, holds) ==
  [s EXCEPT !.music = IF HasMusic(s) THEN @ - 1 ELSE @,
            !.gain = IF HasMusic(s) THEN Toward(@, s.target) ELSE @,
            !.tts = IF @ > 0 /\ (HasMusic(s) \/ ~holds) THEN @ - 1 ELSE @]

\* tick_buffer_depth_report: the new value of the flag and of was_nonempty.
ReportDue == reportTick + 1 >= ReportInterval
Depth(s) == s.tts + s.music
Reported(flag, s) ==
  IF s.up /\ Depth(s) > 0 THEN flag \/ s.tts > 0
  ELSE IF wasNonEmpty THEN FALSE ELSE flag
NowNonEmpty(s) == s.up /\ Depth(s) > 0

\* Mutant of StatusAfter: a finished fade-out is not reported.
StatusAfterTail(started, ended, stopped) ==
  IF ended THEN "idle" ELSE IF started THEN "playing" ELSE told

\* The player state the parent was told last in this tick.
StatusAfter(started, ended, stopped) ==
  IF ended \/ stopped THEN "idle" ELSE IF started THEN "playing" ELSE told

Tick(over, holds) ==
  LET aged    == AgedPending
      starts  == Commits(aged, over)
      m1      == IF starts THEN Committed ELSE music
      s1      == IF starts THEN FadeIn(send) ELSE send
      n       == PrefetchCount(m1, s1)
      left    == SubSeq(pcm, n + 1, Len(pcm))
      s2      == [s1 EXCEPT !.music = @ + n]
      ends    == TailEnded(m1, s2, left)
      m2      == IF ends THEN [m1 EXCEPT !.finishing = FALSE, !.active = FALSE,
                                         !.paused = FALSE, !.url = FALSE] ELSE m1
      s3      == TookGain(s2)
      stops   == StopDue(m2, s3)
      s4      == IF stops THEN Clear(s3) ELSE s3
      flag    == ttsFlag /\ ~stops
      told1   == IF ReportDue THEN Reported(flag, s4) ELSE flag
  IN  /\ pending' = IF starts \/ stops THEN NoPending
                    ELSE [aged EXCEPT !.draining = aged.on /\ Draining(aged, over)]
      /\ music' = IF stops THEN Reset ELSE m2
      /\ worker' = IF stops THEN StopPlayer ELSE worker
      /\ pcm' = IF stops THEN <<>> ELSE left
      /\ send' = Mixed(s4, holds)
      /\ ttsFlag' = (told1 /\ ~(~holds /\ s4.up /\ s4.tts = 0 /\ ~HasMusic(s4)))
      /\ reportTick' = IF ReportDue THEN 0 ELSE reportTick + 1
      /\ wasNonEmpty' = IF ReportDue THEN NowNonEmpty(s4) ELSE wasNonEmpty
      /\ told' = StatusAfter(starts, ends, stops)
      /\ cutOff' = (cutOff /\ ~(starts \/ ends \/ stops))
      /\ UNCHANGED <<nextWorker, events, stopFor>>

-----------------------------------------------------------------------------
Command ==
  \/ Audio
  \/ StopPlayback
  \/ StopTtsPlayback
  \/ MusicPlay
  \/ MusicStop
  \/ MusicPause
  \/ MusicResume
  \/ \E target \in Gains, atOnce \in BOOLEAN : MusicSetGain(target, atOnce)

Voice == VoiceReady \/ VoiceLost \/ SessionChanged

HandleEvent == HandleIdle \/ HandleError

Work(w) == \/ Spawn(w)
           \/ Read(w)
           \/ Push(w)
           \/ LeaveLoop(w)
           \/ Close(w)
           \/ Decide(w)
           \/ Report(w)

AudioTick == \E over \in SUBSET Timers, holds \in BOOLEAN : Tick(over, holds)

Next == Command \/ Voice \/ HandleEvent \/ AudioTick \/ (\E w \in Workers : Work(w))

Spec == Init /\ [][Next]_vars

\* The interval keeps ticking whatever the parent sends; nothing is assumed of
\* the workers, whose processes may stall.
FairSpec == Spec /\ WF_vars(AudioTick)

-----------------------------------------------------------------------------
(* Properties.                                                               *)

\* Music that plays is heard: no sequence of pauses, stops and starts leaves the
\* output suppressed under an active track.
ActiveIsAudible == music.active => ~send.muted

\* A fade-out in progress is of the player it was asked of: a track that is
\* queued, restarted or resumed while the gain falls is not cut off by the
\* MusicStop of an earlier one.
StopIsOfThisTrack ==
  music.stopping => music.player # NoWorker /\ music.player = stopFor

\* A track that plays and is known by its url can still end: its worker has yet
\* to report, or its report is in the channel.
ActiveHasSource ==
  music.active /\ ~music.finishing /\ music.url =>
    /\ music.player # NoWorker
    /\ \/ worker[music.player].phase # "done"
       \/ \E i \in 1 .. Len(events) : events[i].by = music.player

\* A parent that was told the player is playing is right, or a player is there
\* whose end will be reported, or voice was lost since: the end of the music is
\* then never reported (handle_disconnected), only that of the connection.
ParentViewTrue ==
  told = "playing" => music.active \/ music.player # NoWorker \/ cutOff

\* A track that waits for its announcement does not wait for ever, however the
\* parent keeps sending speech.
PendingResolves == pending.on ~> ~pending.on

\* Once the pipeline ended, the rest of the track is played out and reported,
\* unless the track is paused or voice is down.
TailDrains ==
  music.finishing /\ ~Alive(music.player)
    ~> (~music.finishing \/ music.paused \/ ~send.up \/ Alive(music.player))

=============================================================================
