--------------------------- MODULE PlaybackProofs ---------------------------
(***************************************************************************)
(* Proofs about Playback for every capacity of the channels and buffers,   *)
(* every fade and timeout and every number of pipelines.                   *)
(***************************************************************************)
EXTENDS Playback, SequenceTheorems, TLAPS

\* The player's end is still to be reported, or its report is in the channel.
Reports(w) == \E i \in 1 .. Len(events) : events[i].by = w

HasSource ==
  /\ music.player # NoWorker
  /\ worker[music.player].phase # "done" \/ Reports(music.player)

\* A queued track can start at any tick, so what an active one needs it has
\* already: output that is not suppressed, and a worker.
PendingIsReady == pending.on => ~send.muted /\ HasSource

\* Whoever is told to stop is no longer the player; identities are not reused.
PlayerRuns ==
  /\ music.player # NoWorker => ~worker[music.player].stop
  /\ music.player < nextWorker
  /\ \A w \in Workers : w >= nextWorker => worker[w] = [phase |-> "idle", stop |-> FALSE]

IInv == /\ TypeOK
        /\ ActiveIsAudible /\ StopIsOfThisTrack /\ ActiveHasSource /\ ParentViewTrue
        /\ PendingIsReady /\ PlayerRuns

-----------------------------------------------------------------------------
(* Types of what the handlers compute.                                       *)

LEMMA Sizes ==
  /\ MaxWorkers \in Nat /\ PcmCap \in Nat \ {0} /\ MusicEventCap \in Nat \ {0}
  /\ MaxTts \in Nat \ {0} /\ MaxMusic \in Nat \ {0} /\ GainFull \in Nat \ {0}
  /\ SafetyAge \in Nat /\ ReportInterval \in Nat \ {0}
  /\ Workers \subseteq Nat /\ NoWorker \notin Workers /\ NoWorker \in Nat
  /\ \A w \in Workers : w > NoWorker
BY PlaybackAssumption DEF Workers, NoWorker

LEMMA Constants ==
  /\ Reset \in MusicStates /\ NoPending \in PendingStates
  /\ \A isUp \in BOOLEAN : FreshSend(isUp) \in SendStates
BY Sizes DEF Reset, NoPending, FreshSend, MusicStates, PendingStates, SendStates, Gains

\* AudioSendState stays in its bounds, and only Mute suppresses music.
LEMMA SendTyped ==
  ASSUME NEW s \in SendStates
  PROVE  /\ Clear(s) \in SendStates /\ ~Clear(s).muted
         /\ ClearMusic(s) \in SendStates /\ ~ClearMusic(s).muted
         /\ ClearTts(s) \in SendStates /\ ClearTts(s).muted = s.muted
         /\ \A muted \in BOOLEAN : Mute(s, muted) \in SendStates
         /\ ~Mute(s, FALSE).muted
         /\ \A target \in Gains, atOnce \in BOOLEAN :
              SetGain(s, target, atOnce) \in SendStates /\ SetGain(s, target, atOnce).muted = s.muted
<1> USE DEF SendStates
<1>0. 0 \in 0 .. MaxTts /\ 0 \in 0 .. MaxMusic
  BY Sizes
<1>1. Clear(s) \in SendStates /\ ~Clear(s).muted
  BY <1>0 DEF Clear
<1>2. ClearMusic(s) \in SendStates /\ ~ClearMusic(s).muted
  BY <1>0 DEF ClearMusic
<1>3. ClearTts(s) \in SendStates /\ ClearTts(s).muted = s.muted
  BY <1>0 DEF ClearTts
<1>4. /\ \A muted \in BOOLEAN : Mute(s, muted) \in SendStates
      /\ ~Mute(s, FALSE).muted
  BY DEF Mute
<1>5. \A target \in Gains, atOnce \in BOOLEAN :
        SetGain(s, target, atOnce) \in SendStates /\ SetGain(s, target, atOnce).muted = s.muted
  BY DEF SetGain
<1> QED
  BY <1>1, <1>2, <1>3, <1>4, <1>5

\* The worker states after the player was told to stop.
LEMMA StopPlayerTyped ==
  ASSUME TypeOK
  PROVE  /\ StopPlayer \in [Workers -> WorkerStates]
         /\ \A w \in Workers : StopPlayer[w].phase = worker[w].phase
         /\ \A w \in Workers : w # music.player => StopPlayer[w] = worker[w]
<1>1. CASE music.player = NoWorker
  BY <1>1 DEF StopPlayer, TypeOK
<1>2. CASE music.player # NoWorker
  <2>1. music.player \in Workers /\ worker \in [Workers -> WorkerStates]
    BY <1>2 DEF TypeOK, MusicStates
  <2> QED
    BY <1>2, <2>1 DEF StopPlayer, WorkerStates
<1> QED
  BY <1>1, <1>2

\* Identities that are not used yet stay so when the player is told to stop.
LEMMA FreshAfterStop ==
  ASSUME TypeOK, PlayerRuns, NEW w \in Workers, w >= nextWorker
  PROVE  StopPlayer[w] = [phase |-> "idle", stop |-> FALSE]
<1>1. music.player \in Workers \cup {NoWorker} /\ nextWorker \in 1 .. MaxWorkers + 1
  BY DEF TypeOK, MusicStates
<1>2. music.player \in Nat /\ nextWorker \in Nat /\ w \in Nat
  <2>1. music.player \in Nat
    BY <1>1, Sizes
  <2>2. nextWorker \in Nat
    BY <1>1, Sizes
  <2> QED
    BY <2>1, <2>2, Sizes
<1>3. w # music.player
  BY <1>2 DEF PlayerRuns
<1> QED
  BY <1>3, StopPlayerTyped DEF PlayerRuns

LEMMA NoChunks == <<>> \in Seq(Workers) /\ Len(<<>>) = 0 /\ <<>> \in Seq(MusicEvents)
BY EmptySeq

LEMMA InitIInv == Init => IInv
<1> SUFFICES ASSUME Init PROVE IInv
  OBVIOUS
<1>1. TypeOK
  <2>1. worker \in [Workers -> WorkerStates]
    BY DEF Init, WorkerStates, Phases
  <2>2. music \in MusicStates /\ pending \in PendingStates /\ send \in SendStates
    BY Constants DEF Init
  <2>3. /\ pcm \in Seq(Workers) /\ Len(pcm) <= PcmCap
        /\ events \in Seq(MusicEvents) /\ Len(events) <= MusicEventCap
    BY NoChunks, Sizes DEF Init
  <2>4. nextWorker \in 1 .. MaxWorkers + 1 /\ reportTick \in 0 .. ReportInterval - 1
    BY Sizes DEF Init
  <2> QED
    BY <2>1, <2>2, <2>3, <2>4 DEF Init, TypeOK, Statuses
<1>2. PlayerRuns
  BY DEF Init, Reset, PlayerRuns, NoWorker
<1>3. ActiveIsAudible /\ StopIsOfThisTrack /\ ActiveHasSource /\ ParentViewTrue /\ PendingIsReady
  BY DEF Init, Reset, NoPending, ActiveIsAudible, StopIsOfThisTrack, ActiveHasSource,
     ParentViewTrue, PendingIsReady
<1> QED
  BY <1>1, <1>2, <1>3 DEF IInv

-----------------------------------------------------------------------------
(* What the steps do to the workers.                                         *)

\* The player of an old track is told to stop and nothing takes its place.
LEMMA Stopped ==
  ASSUME IInv, worker' = StopPlayer, nextWorker' = nextWorker, music'.player = NoWorker
  PROVE  worker' \in [Workers -> WorkerStates] /\ PlayerRuns'
<1>1. worker' \in [Workers -> WorkerStates]
  BY StopPlayerTyped DEF IInv
<1>2. \A w \in Workers : w >= nextWorker => worker'[w] = [phase |-> "idle", stop |-> FALSE]
  BY FreshAfterStop DEF IInv
<1>3. NoWorker < nextWorker
  BY Sizes DEF IInv, TypeOK, NoWorker
<1> QED
  BY <1>1, <1>2, <1>3 DEF PlayerRuns

\* MusicPlayer::start: the new worker is the player and has everything before it.
LEMMA Started ==
  ASSUME IInv, StartWorker(StopPlayer), music'.player = nextWorker
  PROVE  /\ nextWorker \in Workers /\ nextWorker' \in 1 .. MaxWorkers + 1
         /\ worker' \in [Workers -> WorkerStates]
         /\ PlayerRuns' /\ HasSource'
<1>1. nextWorker \in Workers /\ nextWorker \in Nat /\ nextWorker' = nextWorker + 1
      /\ nextWorker' \in 1 .. MaxWorkers + 1
  <2>1. nextWorker \in 1 .. MaxWorkers + 1
    BY DEF IInv, TypeOK
  <2>2. nextWorker <= MaxWorkers /\ nextWorker' = nextWorker + 1
    BY DEF StartWorker
  <2>3. MaxWorkers \in Nat
    BY Sizes
  <2> QED
    BY <2>1, <2>2, <2>3 DEF Workers
<1>2. StopPlayer \in [Workers -> WorkerStates]
  BY StopPlayerTyped DEF IInv
<1>3. StopPlayer[nextWorker] = [phase |-> "idle", stop |-> FALSE]
  BY <1>1, FreshAfterStop DEF IInv
<1>4. worker' = [StopPlayer EXCEPT ![nextWorker].phase = "spawning"]
  BY DEF StartWorker
<1>5. worker'[nextWorker].phase = "spawning" /\ ~worker'[nextWorker].stop
  <2>1. worker'[nextWorker] = [StopPlayer[nextWorker] EXCEPT !.phase = "spawning"]
    BY <1>1, <1>2, <1>4
  <2> QED
    BY <1>3, <2>1
<1>6. worker' \in [Workers -> WorkerStates]
  BY <1>1, <1>2, <1>4 DEF WorkerStates, Phases
<1>7. ASSUME NEW w \in Workers, w >= nextWorker'
      PROVE  worker'[w] = [phase |-> "idle", stop |-> FALSE]
  <2>1. w >= nextWorker /\ w # nextWorker
    BY <1>1, <1>7, Sizes
  <2>2. worker'[w] = StopPlayer[w]
    BY <1>1, <1>2, <1>4, <2>1
  <2> QED
    BY <2>1, <2>2, FreshAfterStop DEF IInv
<1>8. PlayerRuns'
  <2>1. ~worker'[music'.player].stop
    BY <1>5
  <2>2. music'.player < nextWorker'
    BY <1>1
  <2> QED
    BY <1>7, <2>1, <2>2 DEF PlayerRuns
<1>9. HasSource'
  BY <1>1, <1>5, Sizes DEF HasSource
<1> QED
  BY <1>1, <1>6, <1>8, <1>9

\* A handler that leaves the workers and the events alone.
LEMMA Undisturbed ==
  ASSUME IInv, UNCHANGED <<worker, nextWorker, events>>, music'.player = music.player
  PROVE  /\ worker' \in [Workers -> WorkerStates] /\ nextWorker' \in 1 .. MaxWorkers + 1
         /\ events' \in Seq(MusicEvents) /\ Len(events') <= MusicEventCap
         /\ PlayerRuns' /\ HasSource' = HasSource
BY DEF IInv, TypeOK, PlayerRuns, HasSource, Reports

\* ActiveHasSource and the promise of a queued track in terms of HasSource.
LEMMA SourceOfActive ==
  ActiveHasSource <=> (music.active /\ ~music.finishing /\ music.url => HasSource)
BY DEF ActiveHasSource, HasSource, Reports

\* A step of a worker: it neither starts nor is told anything, and it is not done
\* before its end was reported, unless it was told to stop.
LEMMA WorkerKeeps ==
  ASSUME IInv, NEW w \in Workers, NEW phase \in Phases,
         worker[w].phase # "idle", Goes(w, phase), SameButWorker,
         pcm' \in Seq(Workers), Len(pcm') <= PcmCap,
         events' \in Seq(MusicEvents), Len(events') <= MusicEventCap,
         \A v \in Workers : Reports(v) => Reports(v)',
         phase = "done" => worker[w].stop \/ Reports(w)'
  PROVE  IInv'
<1>1. worker' \in [Workers -> WorkerStates]
  BY DEF Goes, IInv, TypeOK, WorkerStates
<1>2. /\ worker'[w].phase = phase
      /\ \A v \in Workers : worker'[v].stop = worker[v].stop
      /\ \A v \in Workers : v # w => worker'[v] = worker[v]
  BY DEF Goes, IInv, TypeOK, WorkerStates
<1>3. TypeOK'
  BY <1>1 DEF IInv, TypeOK, SameButWorker, telemetry, parent
<1>4. music.player # NoWorker => music.player \in Workers
  BY DEF IInv, TypeOK, MusicStates
<1>5. PlayerRuns'
  <2>1. \A v \in Workers : v >= nextWorker => v # w
    BY DEF IInv, PlayerRuns
  <2> QED
    BY <1>2, <1>4, <2>1 DEF IInv, PlayerRuns, SameButWorker
<1>6. HasSource => HasSource'
  <2>1. SUFFICES ASSUME HasSource PROVE HasSource'
    OBVIOUS
  <2>2. music'.player = music.player /\ music.player \in Workers /\ ~worker[music.player].stop
    BY <1>4, <2>1 DEF HasSource, SameButWorker, IInv, PlayerRuns
  <2>3. CASE music.player = w
    BY <1>2, <2>1, <2>2, <2>3 DEF HasSource
  <2>4. CASE music.player # w
    BY <1>2, <2>1, <2>2, <2>4 DEF HasSource
  <2> QED
    BY <2>3, <2>4
<1>7. ActiveHasSource'
  <2>1. music.active /\ ~music.finishing /\ music.url => HasSource
    BY SourceOfActive DEF IInv
  <2> QED
    BY <1>6, <2>1 DEF SameButWorker, ActiveHasSource, HasSource, Reports
<1>8. ActiveIsAudible' /\ StopIsOfThisTrack' /\ ParentViewTrue' /\ PendingIsReady'
  BY <1>6 DEF IInv, SameButWorker, parent, ActiveIsAudible, StopIsOfThisTrack, ParentViewTrue,
     PendingIsReady
<1> QED
  BY <1>3, <1>5, <1>7, <1>8 DEF IInv

-----------------------------------------------------------------------------
(* The steps of the workers.                                                 *)

LEMMA WorkKeeps == ASSUME IInv, NEW w \in Workers, Work(w) PROVE IInv'
<1> USE DEF Phases
<1>1. ASSUME UNCHANGED <<pcm, events>>
      PROVE  /\ pcm' \in Seq(Workers) /\ Len(pcm') <= PcmCap
             /\ events' \in Seq(MusicEvents) /\ Len(events') <= MusicEventCap
             /\ \A v \in Workers : Reports(v) => Reports(v)'
  BY <1>1 DEF IInv, TypeOK, Reports
<1>2. CASE Spawn(w)
  <2>1. PICK phase \in {"reading", "failed"} : Goes(w, phase)
    BY <1>2 DEF Spawn
  <2> QED
    BY <1>1, <1>2, <2>1, WorkerKeeps DEF Spawn
<1>3. CASE Read(w)
  BY <1>1, <1>3, WorkerKeeps DEF Read
<1>4. CASE Push(w)
  <2>1. pcm' \in Seq(Workers) /\ Len(pcm') <= PcmCap
    BY <1>4, Sizes, AppendProperties DEF Push, IInv, TypeOK
  <2>2. /\ events' \in Seq(MusicEvents) /\ Len(events') <= MusicEventCap
        /\ \A v \in Workers : Reports(v) => Reports(v)'
    BY <1>4 DEF Push, IInv, TypeOK, Reports
  <2> QED
    BY <1>4, <2>1, <2>2, WorkerKeeps DEF Push
<1>5. CASE LeaveLoop(w)
  BY <1>1, <1>5, WorkerKeeps DEF LeaveLoop
<1>6. CASE Close(w)
  BY <1>1, <1>6, WorkerKeeps DEF Close
<1>7. CASE Decide(w)
  <2>1. CASE worker[w].stop
    <3>1. Goes(w, "done") /\ SameButWorker /\ worker[w].phase # "idle"
      BY <1>7, <2>1 DEF Decide
    <3> QED
      BY <1>1, <1>7, <2>1, <3>1, WorkerKeeps DEF Decide
  <2>2. CASE ~worker[w].stop
    <3>1. Goes(w, "ending") /\ SameButWorker /\ worker[w].phase # "idle"
      BY <1>7, <2>2 DEF Decide
    <3> QED
      BY <1>1, <1>7, <3>1, WorkerKeeps DEF Decide
  <2> QED
    BY <2>1, <2>2
<1>8. CASE Report(w)
  <2>1. PICK kind \in {"idle", "error"} : events' = Append(events, [kind |-> kind, by |-> w])
    BY <1>8 DEF Report
  <2>2. events \in Seq(MusicEvents) /\ Len(events) \in Nat /\ Len(events) < MusicEventCap
    BY <1>8, LenProperties DEF Report, IInv, TypeOK
  <2>3. [kind |-> kind, by |-> w] \in MusicEvents
    BY DEF MusicEvents
  <2>4. /\ events' \in Seq(MusicEvents) /\ Len(events') = Len(events) + 1
        /\ \A i \in 1 .. Len(events) : events'[i] = events[i]
        /\ events'[Len(events) + 1] = [kind |-> kind, by |-> w]
    BY <2>1, <2>2, <2>3, AppendProperties
  <2>5. \A v \in Workers : Reports(v) => Reports(v)'
    BY <2>2, <2>4 DEF Reports
  <2>6. Reports(w)'
    <3>1. Len(events) + 1 \in 1 .. Len(events')
      BY <2>2, <2>4
    <3> QED
      BY <2>4, <3>1 DEF Reports
  <2>7. Len(events') <= MusicEventCap
    BY <2>2, <2>4, Sizes
  <2>8. pcm' \in Seq(Workers) /\ Len(pcm') <= PcmCap
    BY <1>8 DEF Report, IInv, TypeOK
  <2>9. Goes(w, "done") /\ SameButWorker /\ worker[w].phase # "idle"
    BY <1>8 DEF Report
  <2> QED
    BY <2>4, <2>5, <2>6, <2>7, <2>8, <2>9, WorkerKeeps
<1> QED
  BY <1>2, <1>3, <1>4, <1>5, <1>6, <1>7, <1>8 DEF Work

-----------------------------------------------------------------------------
(* The IPC commands.                                                         *)

\* A handler that ends the player for good.
LEMMA EndKeeps ==
  ASSUME IInv, worker' = StopPlayer, nextWorker' = nextWorker, music' = Reset,
         pending' = NoPending, pcm' = <<>>, send' \in SendStates,
         told' \in Statuses, cutOff' \in BOOLEAN, told' = "playing" => cutOff',
         stopFor' = stopFor,
         events' \in Seq(MusicEvents), Len(events') <= MusicEventCap,
         ttsFlag' \in BOOLEAN, wasNonEmpty' \in BOOLEAN, reportTick' \in 0 .. ReportInterval - 1
  PROVE  IInv'
<1>1. worker' \in [Workers -> WorkerStates] /\ PlayerRuns'
  BY Stopped DEF Reset
<1>2. music' \in MusicStates /\ pending' \in PendingStates
  BY Constants
<1>3. pcm' \in Seq(Workers) /\ Len(pcm') <= PcmCap
  BY NoChunks, Sizes
<1>4. TypeOK'
  BY <1>1, <1>2, <1>3 DEF IInv, TypeOK
<1>5. ActiveIsAudible' /\ StopIsOfThisTrack' /\ ActiveHasSource' /\ ParentViewTrue' /\ PendingIsReady'
  BY DEF Reset, NoPending, ActiveIsAudible, StopIsOfThisTrack, ActiveHasSource, ParentViewTrue,
     PendingIsReady
<1> QED
  BY <1>1, <1>4, <1>5 DEF IInv

\* The types of what a handler leaves alone.
LEMMA Typed ==
  ASSUME IInv
  PROVE  /\ music \in MusicStates /\ pending \in PendingStates /\ send \in SendStates
         /\ events \in Seq(MusicEvents) /\ Len(events) <= MusicEventCap
         /\ ttsFlag \in BOOLEAN /\ wasNonEmpty \in BOOLEAN
         /\ reportTick \in 0 .. ReportInterval - 1
         /\ told \in Statuses /\ cutOff \in BOOLEAN
BY DEF IInv, TypeOK

LEMMA StopEverythingKeeps == ASSUME IInv, StopEverything PROVE IInv'
<1>1. send' \in SendStates
  BY Typed, SendTyped DEF StopEverything
<1> QED
  BY <1>1, Typed, EndKeeps DEF StopEverything, telemetry, Tell, Statuses

\* A handler that only changes the send state, the flag and whether the
\* announcement was seen.
LEMMA SendKeeps ==
  ASSUME IInv, UNCHANGED <<music, threads, pcm, events, telemetry, parent, stopFor>>,
         send' \in SendStates, ttsFlag' \in BOOLEAN,
         ~send.muted => ~send'.muted,
         pending' \in PendingStates, pending'.on = pending.on
  PROVE  IInv'
<1>1. /\ worker' \in [Workers -> WorkerStates] /\ nextWorker' \in 1 .. MaxWorkers + 1
      /\ events' \in Seq(MusicEvents) /\ Len(events') <= MusicEventCap
      /\ PlayerRuns' /\ HasSource' = HasSource
  BY Undisturbed DEF threads
<1>2. TypeOK'
  BY <1>1 DEF IInv, TypeOK, telemetry, parent
<1>3. ActiveIsAudible' /\ StopIsOfThisTrack' /\ ParentViewTrue'
  BY DEF IInv, parent, ActiveIsAudible, StopIsOfThisTrack, ParentViewTrue
<1>4. ActiveHasSource'
  BY DEF IInv, ActiveHasSource, threads
<1>5. PendingIsReady'
  BY <1>1 DEF IInv, PendingIsReady
<1> QED
  BY <1>1, <1>2, <1>3, <1>4, <1>5 DEF IInv

LEMMA AudioKeeps == ASSUME IInv, Audio PROVE IInv'
<1>1. pending' \in PendingStates /\ pending'.on = pending.on
  BY Typed DEF Audio, PendingStates
<1>2. send' \in SendStates /\ send'.muted = send.muted /\ ttsFlag' \in BOOLEAN
  <2>1. \A n \in 0 .. MaxTts : WithSpeech(n) \in 0 .. MaxTts
    BY Sizes DEF WithSpeech
  <2> QED
    BY <2>1, Typed DEF Audio, SendStates
<1> QED
  BY <1>1, <1>2, SendKeeps DEF Audio

\* SetGain, ClearTts and a new send state.
LEMMA SendHandlersKeep ==
  ASSUME IInv,
         \/ StopTtsPlayback
         \/ \E target \in Gains, atOnce \in BOOLEAN : MusicSetGain(target, atOnce)
         \/ VoiceReady
         \/ SessionChanged
  PROVE  IInv'
<1>1. /\ send' \in SendStates /\ (~send.muted => ~send'.muted)
      /\ ttsFlag' \in BOOLEAN
      /\ UNCHANGED <<music, pending, threads, pcm, events, telemetry, parent, stopFor>>
  <2>1. CASE StopTtsPlayback
    BY <2>1, Typed, SendTyped DEF StopTtsPlayback
  <2>2. CASE \E target \in Gains, atOnce \in BOOLEAN : MusicSetGain(target, atOnce)
    <3>1. PICK target \in Gains, atOnce \in BOOLEAN : MusicSetGain(target, atOnce)
      BY <2>2
    <3>2. send' = SetGain(send, target, atOnce)
      BY <3>1 DEF MusicSetGain
    <3>3. send' \in SendStates /\ send'.muted = send.muted
      BY <3>2, Typed, SendTyped
    <3> QED
      BY <3>1, <3>3, Typed DEF MusicSetGain
  <2>3. CASE VoiceReady
    BY <2>3, Typed, Constants DEF VoiceReady, FreshSend
  <2>4. CASE SessionChanged
    BY <2>4, Typed, Constants DEF SessionChanged, FreshSend
  <2> QED
    BY <2>1, <2>2, <2>3, <2>4
<1>2. pending' \in PendingStates /\ pending'.on = pending.on
  BY <1>1, Typed
<1> QED
  BY <1>1, <1>2, SendKeeps

LEMMA VoiceLostKeeps == ASSUME IInv, VoiceLost PROVE IInv'
BY Typed, Constants, EndKeeps DEF VoiceLost, telemetry

\* MusicPlay: the queued track has its worker from the start.
LEMMA MusicPlayKeeps == ASSUME IInv, MusicPlay PROVE IInv'
<1>1. music'.player = nextWorker /\ ~music'.active /\ music'.stopping = FALSE /\ music'.url
  BY DEF MusicPlay, QueuedTrack, Reset
<1>2. /\ nextWorker \in Workers /\ nextWorker' \in 1 .. MaxWorkers + 1
      /\ worker' \in [Workers -> WorkerStates]
      /\ PlayerRuns' /\ HasSource'
  BY <1>1, Started DEF MusicPlay
<1>3. music' \in MusicStates
  BY <1>2 DEF MusicPlay, QueuedTrack, Reset, MusicStates
<1>4. pending' \in PendingStates
  BY Constants DEF MusicPlay, PendingStates
<1>5. send' \in SendStates /\ ~send'.muted
  BY Typed, SendTyped DEF MusicPlay
<1>6. pcm' \in Seq(Workers) /\ Len(pcm') <= PcmCap
  BY NoChunks, Sizes DEF MusicPlay
<1>7. TypeOK'
  BY <1>2, <1>3, <1>4, <1>5, <1>6 DEF IInv, TypeOK, MusicPlay, telemetry, parent
<1>8. music'.player # NoWorker
  BY <1>1, <1>2, Sizes
<1>9. ActiveIsAudible' /\ StopIsOfThisTrack' /\ ActiveHasSource' /\ ParentViewTrue' /\ PendingIsReady'
  BY <1>1, <1>2, <1>5, <1>8 DEF ActiveIsAudible, StopIsOfThisTrack, ActiveHasSource,
     ParentViewTrue, PendingIsReady
<1> QED
  BY <1>2, <1>7, <1>9 DEF IInv

LEMMA MusicStopKeeps == ASSUME IInv, MusicStop PROVE IInv'
<1>1. CASE ~(music.player # NoWorker /\ music.active)
  BY <1>1, StopEverythingKeeps DEF MusicStop
<1>2. CASE music.player # NoWorker /\ music.active
  <2>1. /\ music' = [music EXCEPT !.stopping = TRUE] /\ send' = SetGain(send, 0, FALSE)
        /\ stopFor' = music.player
        /\ UNCHANGED <<pending, threads, pcm, events, ttsFlag, telemetry, parent>>
    BY <1>2 DEF MusicStop
  <2>2. send' \in SendStates /\ send'.muted = send.muted
    <3>1. 0 \in Gains
      BY Sizes DEF Gains
    <3> QED
      BY <2>1, <3>1, Typed, SendTyped
  <2>3. /\ music' \in MusicStates /\ music'.player = music.player /\ music'.active = music.active
        /\ music'.finishing = music.finishing /\ music'.url = music.url
    BY <2>1, Typed DEF MusicStates
  <2>4. /\ worker' \in [Workers -> WorkerStates] /\ nextWorker' \in 1 .. MaxWorkers + 1
        /\ events' \in Seq(MusicEvents) /\ Len(events') <= MusicEventCap
        /\ PlayerRuns' /\ HasSource' = HasSource
    BY <2>1, <2>3, Undisturbed DEF threads
  <2>5. TypeOK'
    BY <2>1, <2>2, <2>3, <2>4, Typed DEF IInv, TypeOK, telemetry, parent, MusicStates
  <2>6. ActiveHasSource'
    BY <2>1, <2>3 DEF IInv, ActiveHasSource, threads
  <2>7. ActiveIsAudible' /\ StopIsOfThisTrack' /\ ParentViewTrue' /\ PendingIsReady'
    BY <1>2, <2>1, <2>2, <2>3, <2>4 DEF IInv, parent, ActiveIsAudible, ParentViewTrue, PendingIsReady,
       StopIsOfThisTrack
  <2> QED
    BY <2>4, <2>5, <2>6, <2>7 DEF IInv
<1> QED
  BY <1>1, <1>2

\* MusicPause: the one handler that suppresses music leaves nothing that plays and
\* nothing that waits.
LEMMA MusicPauseKeeps == ASSUME IInv, MusicPause PROVE IInv'
<1>1. /\ music' \in MusicStates /\ music'.player = music.player
      /\ ~music'.active /\ ~music'.stopping
  <2>1. CASE Alive(music.player) \/ music.active \/ music.finishing
    BY <2>1, Typed DEF MusicPause, MusicStates
  <2>2. CASE ~(Alive(music.player) \/ music.active \/ music.finishing)
    BY <2>2, Typed DEF MusicPause, MusicStates
  <2> QED
    BY <2>1, <2>2
<1>2. send' \in SendStates
  <2>1. send' = send \/ send' = Mute(send, TRUE)
    BY DEF MusicPause
  <2> QED
    BY <2>1, Typed, SendTyped
<1>3. /\ \/ told' = "paused" /\ cutOff' = FALSE
         \/ told' = told /\ cutOff' = cutOff /\ music'.active = music.active
      /\ told' \in Statuses /\ cutOff' \in BOOLEAN
  BY Typed DEF MusicPause, MusicStates, Tell, parent, Statuses
<1>4. UNCHANGED <<threads, pcm, events, ttsFlag, telemetry, stopFor>> /\ pending' = NoPending
  BY DEF MusicPause
<1>5. /\ worker' \in [Workers -> WorkerStates] /\ nextWorker' \in 1 .. MaxWorkers + 1
      /\ events' \in Seq(MusicEvents) /\ Len(events') <= MusicEventCap
      /\ PlayerRuns'
  BY <1>1, <1>4, Undisturbed DEF threads
<1>6. TypeOK'
  BY <1>1, <1>2, <1>3, <1>4, <1>5, Constants DEF IInv, TypeOK, telemetry, Statuses
<1>7. ParentViewTrue'
  BY <1>1, <1>3 DEF IInv, ParentViewTrue
<1>8. ActiveIsAudible' /\ StopIsOfThisTrack' /\ ActiveHasSource' /\ PendingIsReady'
  BY <1>1, <1>4 DEF ActiveIsAudible, StopIsOfThisTrack, ActiveHasSource, PendingIsReady, NoPending
<1> QED
  BY <1>5, <1>6, <1>7, <1>8 DEF IInv

\* A resume that needs no new worker makes the output audible again.
LEMMA ResumeKeeps ==
  ASSUME IInv, pending' = NoPending,
         UNCHANGED <<threads, pcm, events, ttsFlag, telemetry, stopFor>>,
         send' = Mute(send, FALSE), Tell("playing"),
         music' \in MusicStates, music'.player = music.player,
         ~music'.stopping, music'.active,
         music'.finishing \/ Alive(music.player)
  PROVE  IInv'
<1>1. send' \in SendStates /\ ~send'.muted
  BY Typed, SendTyped
<1>2. /\ worker' \in [Workers -> WorkerStates] /\ nextWorker' \in 1 .. MaxWorkers + 1
      /\ events' \in Seq(MusicEvents) /\ Len(events') <= MusicEventCap
      /\ PlayerRuns' /\ HasSource' = HasSource
  BY Undisturbed DEF threads
<1>3. TypeOK'
  BY <1>1, <1>2, Constants DEF IInv, TypeOK, telemetry, Statuses, Tell
<1>4. Alive(music.player) => HasSource
  BY DEF Alive, HasSource
<1>5. ActiveHasSource'
  BY <1>2, <1>4 DEF ActiveHasSource, HasSource, Reports
<1>6. ActiveIsAudible' /\ StopIsOfThisTrack' /\ ParentViewTrue' /\ PendingIsReady'
  BY <1>1 DEF ActiveIsAudible, StopIsOfThisTrack, ParentViewTrue, PendingIsReady, NoPending
<1> QED
  BY <1>2, <1>3, <1>5, <1>6 DEF IInv

LEMMA MusicResumeKeeps == ASSUME IInv, MusicResume PROVE IInv'
<1>1. pending' = NoPending /\ UNCHANGED <<events, telemetry, stopFor>>
  BY DEF MusicResume
<1>2. CASE ResumeInPlace
  <2>1. music' \in MusicStates /\ music'.player = music.player /\ ~music'.stopping /\ music'.active
    BY <1>2, Typed DEF ResumeInPlace, MusicStates
  <2> QED
    BY <1>1, <1>2, <2>1, ResumeKeeps DEF ResumeInPlace
<1>3. CASE ResumeTail
  <2>1. /\ music' \in MusicStates /\ music'.player = music.player /\ ~music'.stopping /\ music'.active
        /\ music'.finishing
    BY <1>3, Typed DEF ResumeTail, MusicStates
  <2> QED
    BY <1>1, <1>3, <2>1, ResumeKeeps DEF ResumeTail
<1>4. CASE RestartTrack
  <2>1. music'.player = nextWorker /\ music'.active /\ ~music'.stopping
    BY <1>4 DEF RestartTrack, Reset
  <2>2. /\ nextWorker \in Workers /\ nextWorker' \in 1 .. MaxWorkers + 1
        /\ worker' \in [Workers -> WorkerStates]
        /\ PlayerRuns' /\ HasSource'
    BY <1>4, <2>1, Started DEF RestartTrack
  <2>3. music' \in MusicStates
    BY <1>4, <2>2 DEF RestartTrack, Reset, MusicStates
  <2>4. send' \in SendStates /\ ~send'.muted
    BY <1>4, Typed, SendTyped DEF RestartTrack
  <2>5. pcm' \in Seq(Workers) /\ Len(pcm') <= PcmCap
    BY <1>4, NoChunks, Sizes DEF RestartTrack
  <2>6. TypeOK'
    BY <1>1, <1>4, <2>2, <2>3, <2>4, <2>5, Constants DEF IInv, TypeOK, RestartTrack, telemetry, Statuses, Tell
  <2>7. ActiveHasSource'
    BY <2>2 DEF ActiveHasSource, HasSource, Reports
  <2>8. ActiveIsAudible' /\ StopIsOfThisTrack' /\ ParentViewTrue' /\ PendingIsReady'
    BY <1>1, <2>1, <2>4 DEF ActiveIsAudible, StopIsOfThisTrack, ParentViewTrue, PendingIsReady, NoPending
  <2> QED
    BY <2>2, <2>6, <2>7, <2>8 DEF IInv
<1>5. CASE NothingToResume
  <2>1. /\ music' \in MusicStates /\ music'.player = music.player /\ ~music'.stopping
        /\ music'.active = music.active /\ music'.url = music.url /\ ~music.url
    BY <1>5, Typed DEF NothingToResume, MusicStates
  <2>2. UNCHANGED <<threads, pcm, send, ttsFlag, parent>>
    BY <1>5 DEF NothingToResume
  <2>3. /\ worker' \in [Workers -> WorkerStates] /\ nextWorker' \in 1 .. MaxWorkers + 1
        /\ events' \in Seq(MusicEvents) /\ Len(events') <= MusicEventCap
        /\ PlayerRuns'
    BY <1>1, <2>1, <2>2, Undisturbed DEF threads
  <2>4. TypeOK'
    BY <1>1, <2>1, <2>2, <2>3, Constants DEF IInv, TypeOK, telemetry, parent
  <2>5. /\ ActiveIsAudible' /\ StopIsOfThisTrack' /\ ActiveHasSource' /\ ParentViewTrue'
        /\ PendingIsReady'
    BY <1>1, <2>1, <2>2 DEF IInv, parent, ActiveIsAudible, StopIsOfThisTrack, ActiveHasSource, ParentViewTrue,
       PendingIsReady, NoPending
  <2> QED
    BY <2>3, <2>4, <2>5 DEF IInv
<1> QED
  BY <1>2, <1>3, <1>4, <1>5 DEF MusicResume

-----------------------------------------------------------------------------
(* The events of the workers.                                                *)

\* An event taken from the channel leaves a channel of its type.
LEMMA EventTaken ==
  ASSUME IInv, events # <<>>, events' = Tail(events)
  PROVE  events' \in Seq(MusicEvents) /\ Len(events') <= MusicEventCap
<1>1. /\ events \in Seq(MusicEvents) /\ Len(events) \in Nat
      /\ Len(events) <= MusicEventCap /\ MusicEventCap \in Nat
  BY Typed, LenProperties, Sizes
<1>2. events' \in Seq(MusicEvents) /\ Len(events') = Len(events) - 1
  BY <1>1, HeadTailProperties
<1> QED
  BY <1>1, <1>2

\* Idle: what still plays is a tail from now on.
LEMMA HandleIdleKeeps == ASSUME IInv, HandleIdle PROVE IInv'
<1>1. /\ music' \in MusicStates /\ music'.player = NoWorker /\ ~music'.stopping
      /\ music'.active = music.active /\ music'.finishing = music.active
  <2>1. AfterIdle \in MusicStates /\ [AfterIdle EXCEPT !.url = FALSE] \in MusicStates
    BY Typed DEF AfterIdle, MusicStates
  <2>2. music' = AfterIdle \/ music' = [AfterIdle EXCEPT !.url = FALSE]
    BY DEF HandleIdle
  <2> QED
    BY <2>1, <2>2, Typed DEF AfterIdle, MusicStates
<1>2. events' \in Seq(MusicEvents) /\ Len(events') <= MusicEventCap
  BY EventTaken DEF HandleIdle
<1>3. worker' \in [Workers -> WorkerStates] /\ PlayerRuns'
  BY <1>1, Stopped DEF HandleIdle
<1>4. pending' = NoPending /\ UNCHANGED <<nextWorker, pcm, send, ttsFlag, telemetry, stopFor>>
  BY DEF HandleIdle
<1>5. /\ told' = "idle" \/ (told' = told /\ music'.active)
      /\ told' \in Statuses /\ cutOff' \in BOOLEAN
  BY <1>1, Typed DEF HandleIdle, Tell, parent, Statuses
<1>6. TypeOK'
  BY <1>1, <1>2, <1>3, <1>4, <1>5, Constants DEF IInv, TypeOK, telemetry, Statuses
<1>7. /\ ActiveIsAudible' /\ StopIsOfThisTrack' /\ ActiveHasSource' /\ ParentViewTrue'
      /\ PendingIsReady'
  BY <1>1, <1>4, <1>5 DEF IInv, ActiveIsAudible, StopIsOfThisTrack, ActiveHasSource, ParentViewTrue,
     PendingIsReady, NoPending
<1> QED
  BY <1>3, <1>6, <1>7 DEF IInv

LEMMA HandleErrorKeeps == ASSUME IInv, HandleError PROVE IInv'
BY Typed, EventTaken, EndKeeps DEF HandleError, telemetry, Tell, Statuses

-----------------------------------------------------------------------------
(* The tick.                                                                 *)

LEMMA AgedTyped ==
  ASSUME IInv, NEW over
  PROVE  /\ AgedPending \in PendingStates /\ AgedPending.on = pending.on
         /\ Commits(AgedPending, over) => pending.on
         /\ [AgedPending EXCEPT !.draining = AgedPending.on /\ Draining(AgedPending, over)]
              \in PendingStates
<1>1. \A n \in 0 .. SafetyAge + 1 : n <= SafetyAge => n + 1 \in 0 .. SafetyAge + 1
  BY Sizes
<1>2. AgedPending \in PendingStates /\ AgedPending.on = pending.on
  BY <1>1, Typed DEF AgedPending, PendingStates
<1>3. Commits(AgedPending, over) => pending.on
  BY <1>2 DEF Commits
<1>4. (AgedPending.on /\ Draining(AgedPending, over)) \in BOOLEAN
  OBVIOUS
<1> QED
  BY <1>2, <1>3, <1>4 DEF PendingStates

\* A tick takes at most what the channel holds and the music buffer has room for.
LEMMA PrefetchFits ==
  ASSUME IInv, NEW m, NEW s \in SendStates
  PROVE  /\ PrefetchCount(m, s) \in 0 .. Len(pcm)
         /\ s.music + PrefetchCount(m, s) \in 0 .. MaxMusic
<1>1. Len(pcm) \in Nat /\ s.music \in 0 .. MaxMusic
  BY LenProperties DEF IInv, TypeOK, SendStates
<1> QED
  BY <1>1, Sizes DEF PrefetchCount

LEMMA MixedTyped ==
  ASSUME NEW s \in SendStates, NEW holds \in BOOLEAN
  PROVE  Mixed(s, holds) \in SendStates /\ Mixed(s, holds).muted = s.muted
<1>1. \A from, to \in Gains : Toward(from, to) \in Gains
  BY Sizes DEF Toward, Gains
<1>2. \A n \in 0 .. MaxMusic : n > 0 => n - 1 \in 0 .. MaxMusic
  BY Sizes
<1>3. \A n \in 0 .. MaxTts : n > 0 => n - 1 \in 0 .. MaxTts
  BY Sizes
<1> QED
  BY <1>1, <1>2, <1>3 DEF Mixed, HasMusic, SendStates

LEMMA FadeTyped ==
  ASSUME NEW s \in SendStates
  PROVE  /\ FadeIn(s) \in SendStates /\ FadeIn(s).muted = s.muted
         /\ TookGain(s) \in SendStates /\ TookGain(s).muted = s.muted
<1>1. 0 \in Gains /\ GainFull \in Gains
  BY Sizes DEF Gains
<1>2. FadeIn(s) \in SendStates /\ FadeIn(s).muted = s.muted
  BY <1>1 DEF FadeIn, SendStates
<1>3. TookGain(s) \in SendStates /\ TookGain(s).muted = s.muted
  BY DEF TookGain, SendStates
<1> QED
  BY <1>2, <1>3

\* A track starts only out of a queued start, whose worker and output are ready;
\* a finished fade-out and a tail played to its end leave nothing that plays.
LEMMA TickKeeps ==
  ASSUME IInv, NEW over \in SUBSET Timers, NEW holds \in BOOLEAN, Tick(over, holds)
  PROVE  IInv'
<1> DEFINE aged   == AgedPending
           starts == Commits(aged, over)
           m1     == IF starts THEN Committed ELSE music
           s1     == IF starts THEN FadeIn(send) ELSE send
           n      == PrefetchCount(m1, s1)
           left   == SubSeq(pcm, n + 1, Len(pcm))
           s2     == [s1 EXCEPT !.music = @ + n]
           ends   == TailEnded(m1, s2, left)
           m2     == IF ends THEN [m1 EXCEPT !.finishing = FALSE, !.active = FALSE,
                                             !.paused = FALSE, !.url = FALSE] ELSE m1
           s3     == TookGain(s2)
           stops  == StopDue(m2, s3)
           s4     == IF stops THEN Clear(s3) ELSE s3
           flag   == ttsFlag /\ ~stops
           told1  == IF ReportDue THEN Reported(flag, s4) ELSE flag
<1>1. /\ pending' = IF starts \/ stops THEN NoPending
                    ELSE [aged EXCEPT !.draining = aged.on /\ Draining(aged, over)]
      /\ music' = IF stops THEN Reset ELSE m2
      /\ worker' = IF stops THEN StopPlayer ELSE worker
      /\ pcm' = IF stops THEN <<>> ELSE left
      /\ send' = Mixed(s4, holds)
      /\ ttsFlag' = (told1 /\ ~(~holds /\ s4.up /\ s4.tts = 0 /\ ~HasMusic(s4)))
      /\ reportTick' = IF ReportDue THEN 0 ELSE reportTick + 1
      /\ wasNonEmpty' = IF ReportDue THEN NowNonEmpty(s4) ELSE wasNonEmpty
      /\ told' = StatusAfter(starts, ends, stops)
      /\ cutOff' = (cutOff /\ ~(starts \/ ends \/ stops))
      /\ UNCHANGED <<nextWorker, events, stopFor>>
  BY DEF Tick
<1>2. starts => pending.on
  BY AgedTyped
<1>3. /\ m1 \in MusicStates /\ m1.player = music.player /\ m1.stopping = music.stopping
      /\ starts => m1.active
      /\ ~starts => m1 = music
  BY Typed DEF Committed, MusicStates
<1>4. s1 \in SendStates /\ s1.muted = send.muted
  BY Typed, FadeTyped
<1>5. n \in 0 .. Len(pcm) /\ s1.music + n \in 0 .. MaxMusic
  BY <1>4, PrefetchFits
<1>6. left \in Seq(Workers) /\ Len(left) <= PcmCap
  <2>1. pcm \in Seq(Workers) /\ Len(pcm) \in Nat /\ Len(pcm) <= PcmCap /\ PcmCap \in Nat
    BY LenProperties, Sizes DEF IInv, TypeOK
  <2>2. n + 1 \in 1 .. Len(pcm) + 1
    BY <1>5, <2>1
  <2>3. left \in Seq(Workers) /\ Len(left) <= Len(pcm)
    BY <1>5, <2>1, <2>2, SubSeqProperties
  <2>4. Len(left) \in Nat
    BY <2>3, LenProperties
  <2> QED
    BY <2>1, <2>3, <2>4
<1>7. s2 \in SendStates /\ s2.muted = send.muted
  BY <1>4, <1>5 DEF SendStates
<1>8. /\ m2 \in MusicStates /\ m2.player = music.player /\ m2.stopping = music.stopping
      /\ ends => ~m2.active /\ ~m2.url
      /\ ~ends => m2 = m1
  BY <1>3 DEF MusicStates
<1>9. s3 \in SendStates /\ s3.muted = send.muted
  BY <1>7, FadeTyped
<1>10. s4 \in SendStates /\ (~stops => s4.muted = send.muted)
  BY <1>9, SendTyped
<1>11. send' \in SendStates /\ send'.muted = s4.muted
  BY <1>1, <1>10, MixedTyped
<1>12. ttsFlag' \in BOOLEAN /\ wasNonEmpty' \in BOOLEAN
  <2>1. told1 \in BOOLEAN
    BY Typed DEF Reported
  <2>2. ttsFlag' \in BOOLEAN
    BY <1>1, <2>1
  <2>3. NowNonEmpty(s4) \in BOOLEAN
    BY <1>10 DEF NowNonEmpty, SendStates
  <2> QED
    BY <1>1, <2>2, <2>3, Typed
<1>13. reportTick' \in 0 .. ReportInterval - 1
  BY <1>1, Typed, Sizes DEF ReportDue
<1>14. /\ told' = IF ends \/ stops THEN "idle" ELSE IF starts THEN "playing" ELSE told
       /\ ~starts /\ ~ends /\ ~stops => cutOff' = cutOff
       /\ told' \in Statuses /\ cutOff' \in BOOLEAN
  BY <1>1, Typed DEF StatusAfter, Statuses
<1>15. pending' \in PendingStates /\ (pending'.on => pending.on /\ ~starts /\ ~stops)
  <2>1. CASE starts \/ stops
    BY <1>1, <2>1, Constants DEF NoPending
  <2>2. CASE ~(starts \/ stops)
    <3>1. pending' = [aged EXCEPT !.draining = aged.on /\ Draining(aged, over)]
      BY <1>1, <2>2
    <3>2. pending' \in PendingStates
      BY <3>1, AgedTyped
    <3>3. pending'.on = pending.on
      BY <3>1, AgedTyped DEF PendingStates
    <3> QED
      BY <2>2, <3>2, <3>3
  <2> QED
    BY <2>1, <2>2
<1>16. nextWorker' = nextWorker /\ events' = events /\ stopFor' = stopFor
  BY <1>1
<1>17. /\ music' = IF stops THEN Reset ELSE m2
       /\ worker' = IF stops THEN StopPlayer ELSE worker
       /\ pcm' = IF stops THEN <<>> ELSE left
       /\ stops => pending' = NoPending
  BY <1>1
<1> HIDE DEF aged, starts, m1, s1, n, left, s2, ends, m2, s3, stops, s4, flag, told1
<1>18. CASE stops
  <2>1. music' = Reset /\ worker' = StopPlayer /\ pcm' = <<>> /\ pending' = NoPending /\ told' = "idle"
    BY <1>14, <1>17, <1>18
  <2>2. nextWorker' = nextWorker /\ events' \in Seq(MusicEvents) /\ Len(events') <= MusicEventCap
    BY <1>16, Typed
  <2> QED
    BY <1>11, <1>12, <1>13, <1>14, <1>16, <2>1, <2>2, EndKeeps
<1>19. CASE ~stops
  <2>1. music' = m2 /\ worker' = worker /\ pcm' = left /\ send'.muted = send.muted
    BY <1>10, <1>11, <1>17, <1>19
  <2>2. /\ worker' \in [Workers -> WorkerStates] /\ nextWorker' \in 1 .. MaxWorkers + 1
        /\ events' \in Seq(MusicEvents) /\ Len(events') <= MusicEventCap
        /\ PlayerRuns' /\ HasSource' = HasSource
    BY <1>8, <1>16, <2>1, Undisturbed
  <2>3. TypeOK'
    BY <1>6, <1>8, <1>11, <1>12, <1>13, <1>14, <1>15, <1>16, <2>1, <2>2 DEF IInv, TypeOK
  <2>4. starts => HasSource /\ ~send.muted
    BY <1>2 DEF IInv, PendingIsReady
  <2>5. ActiveHasSource'
    <3>1. ActiveHasSource' <=> (music'.active /\ ~music'.finishing /\ music'.url => HasSource')
      BY DEF ActiveHasSource, HasSource, Reports
    <3>2. music.active /\ ~music.finishing /\ music.url => HasSource
      BY SourceOfActive DEF IInv
    <3> QED
      BY <1>3, <1>8, <2>1, <2>2, <2>4, <3>1, <3>2
  <2>6. ActiveIsAudible'
    BY <1>3, <1>8, <2>1, <2>4 DEF IInv, ActiveIsAudible
  <2>7. StopIsOfThisTrack'
    BY <1>8, <1>16, <2>1 DEF IInv, StopIsOfThisTrack
  <2>8. ParentViewTrue'
    BY <1>3, <1>8, <1>14, <1>19, <2>1 DEF IInv, ParentViewTrue
  <2>9. PendingIsReady'
    BY <1>15, <2>1, <2>2 DEF IInv, PendingIsReady
  <2> QED
    BY <2>2, <2>3, <2>5, <2>6, <2>7, <2>8, <2>9 DEF IInv
<1> QED
  BY <1>18, <1>19

-----------------------------------------------------------------------------
LEMMA NextIInv == IInv /\ [Next]_vars => IInv'
<1> SUFFICES ASSUME IInv, [Next]_vars PROVE IInv'
  OBVIOUS
<1>1. CASE Command
  BY <1>1, AudioKeeps, StopEverythingKeeps, SendHandlersKeep, MusicPlayKeeps, MusicStopKeeps,
     MusicPauseKeeps, MusicResumeKeeps DEF Command, StopPlayback
<1>2. CASE Voice
  BY <1>2, SendHandlersKeep, VoiceLostKeeps DEF Voice
<1>3. CASE HandleEvent
  BY <1>3, HandleIdleKeeps, HandleErrorKeeps DEF HandleEvent
<1>4. CASE AudioTick
  BY <1>4, TickKeeps DEF AudioTick
<1>5. CASE \E w \in Workers : Work(w)
  BY <1>5, WorkKeeps
<1>6. CASE UNCHANGED vars
  <2>1. UNCHANGED <<music, threads, pcm, events, telemetry, parent, stopFor>>
    BY <1>6 DEF vars, threads, telemetry, parent
  <2>2. send' = send /\ ttsFlag' = ttsFlag /\ pending' = pending
    BY <1>6 DEF vars
  <2>3. send' \in SendStates /\ ttsFlag' \in BOOLEAN /\ pending' \in PendingStates
    BY <2>2, Typed
  <2>4. pending'.on = pending.on /\ (~send.muted => ~send'.muted)
    BY <2>2
  <2> QED
    BY <2>1, <2>3, <2>4, SendKeeps
<1> QED
  BY <1>1, <1>2, <1>3, <1>4, <1>5, <1>6 DEF Next

LEMMA AlwaysIInv == Spec => []IInv
BY InitIInv, NextIInv, PTL DEF Spec

\* The buffers stay within their bounds, the channels within their capacities, and
\* the fades between silence and full gain.
THEOREM TypeCorrect == Spec => []TypeOK
<1>1. IInv => TypeOK
  BY DEF IInv
<1> QED
  BY <1>1, AlwaysIInv, PTL

\* Music that plays is heard, whatever order of plays, pauses, resumes, stops,
\* lost connections and reports of old workers led to it.
THEOREM AudibleSound == Spec => []ActiveIsAudible
<1>1. IInv => ActiveIsAudible
  BY DEF IInv
<1> QED
  BY <1>1, AlwaysIInv, PTL

\* The player a fade-out runs on is the one it was asked of, however many
\* pipelines were queued, restarted or ended while it ran.
THEOREM StopSound == Spec => []StopIsOfThisTrack
<1>1. IInv => StopIsOfThisTrack
  BY DEF IInv
<1> QED
  BY <1>1, AlwaysIInv, PTL

\* A track that plays can still end: its worker has yet to report, or its report
\* waits in the channel and not behind a stop flag.
THEOREM SourceSound == Spec => []ActiveHasSource
<1>1. IInv => ActiveHasSource
  BY DEF IInv
<1> QED
  BY <1>1, AlwaysIInv, PTL

\* What the parent was told last of the player is true or will be corrected by a
\* report, unless voice was lost since, which no report of the player follows.
THEOREM ParentViewSound == Spec => []ParentViewTrue
<1>1. IInv => ParentViewTrue
  BY DEF IInv
<1> QED
  BY <1>1, AlwaysIInv, PTL
=============================================================================
