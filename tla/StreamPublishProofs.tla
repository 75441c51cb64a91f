----------------------- MODULE StreamPublishProofs -----------------------
(***************************************************************************)
(* Proofs about StreamPublish for every set of sources, every capacity of  *)
(* the channels and every number of pipelines.                             *)
(***************************************************************************)
EXTENDS StreamPublish, SequenceTheorems, TLAPS

\* While the main loop joins a worker nothing is announced, and if it is going
\* to start the next one there is an identity left for it.
JoinIsQuiet ==
  loop = "joining" => /\ ~announced
                      /\ after \in {"start", "frame"} => nextWorker <= MaxWorkers

IInv == TypeOK /\ OnePipeline /\ NothingStale /\ AnnouncedHasPlayer /\ JoinIsQuiet

-----------------------------------------------------------------------------
(* The channels, as sequences.                                               *)

LEMMA AppendedTo ==
  ASSUME NEW channel \in Seq(Workers), NEW w \in Workers
  PROVE  /\ Append(channel, w) \in Seq(Workers)
         /\ Len(Append(channel, w)) = Len(channel) + 1
         /\ \A i \in 1 .. Len(channel) + 1 :
              Append(channel, w)[i] = IF i <= Len(channel) THEN channel[i] ELSE w
BY AppendProperties

\* The rest of a channel after its first k entries.
LEMMA RestOf ==
  ASSUME NEW channel \in Seq(Workers), NEW k \in 0 .. Len(channel)
  PROVE  LET rest == SubSeq(channel, k + 1, Len(channel)) IN
         /\ rest \in Seq(Workers)
         /\ Len(rest) = Len(channel) - k
         /\ \A i \in 1 .. Len(rest) : rest[i] = channel[k + i]
<1>1. \A i \in k + 1 .. Len(channel) : channel[i] \in Workers
  BY ElementOfSeq
<1> QED
  BY <1>1, SubSeqProperties

LEMMA TailOf ==
  ASSUME NEW channel \in Seq(Workers), channel # <<>>
  PROVE  /\ Tail(channel) \in Seq(Workers)
         /\ Len(Tail(channel)) = Len(channel) - 1
         /\ \A i \in 1 .. Len(channel) - 1 : Tail(channel)[i] = channel[i + 1]
BY HeadTailProperties

LEMMA Sizes ==
  /\ MaxWorkers \in Nat /\ FrameCap \in Nat \ {0} /\ EventCap \in Nat \ {0}
  /\ MaxFramesPerTick \in Nat \ {0} /\ MaxReady \in Nat
  /\ NoWorker \notin Workers /\ Workers \subseteq Nat
  /\ NoSource \notin Sources /\ Browser \in Sources
BY StreamPublishAssumption DEF Workers, NoWorker, Sources

-----------------------------------------------------------------------------
(* Changes to one worker.                                                    *)

LEMMA StopRaised ==
  ASSUME worker \in [Workers -> WorkerStates], NEW w \in Workers
  PROVE  LET raised == [worker EXCEPT ![w].stop = TRUE] IN
         /\ raised \in [Workers -> WorkerStates]
         /\ \A v \in Workers : raised[v].phase = worker[v].phase
BY DEF WorkerStates

LEMMA PhaseSet ==
  ASSUME worker \in [Workers -> WorkerStates], NEW w \in Workers, NEW phase \in Phases
  PROVE  LET gone == [worker EXCEPT ![w].phase = phase] IN
         /\ gone \in [Workers -> WorkerStates]
         /\ gone[w].phase = phase
         /\ \A v \in Workers \ {w} : gone[v] = worker[v]
BY DEF WorkerStates

LEMMA ProcSet ==
  ASSUME worker \in [Workers -> WorkerStates], NEW w \in Workers,
         NEW proc \in {"none", "running", "suspended", "exited"}
  PROVE  LET gone == [worker EXCEPT ![w].proc = proc] IN
         /\ gone \in [Workers -> WorkerStates]
         /\ \A v \in Workers : gone[v].phase = worker[v].phase
BY DEF WorkerStates

-----------------------------------------------------------------------------
(* The inductive invariant.                                                  *)

LEMMA InitIInv == Init => IInv
<1> SUFFICES ASSUME Init PROVE IInv
  OBVIOUS
<1>1. <<>> \in Seq(Workers) /\ Len(<<>>) = 0
  BY EmptySeq
<1>2. TypeOK
  <2>1. worker \in [Workers -> WorkerStates]
    BY DEF Init, WorkerStates, Phases
  <2>2. pub \in Pubs
    BY DEF Init, Idle, Pubs
  <2>3. /\ frames \in Seq(Workers) /\ Len(frames) <= FrameCap
        /\ events \in Seq(Workers) /\ Len(events) <= EventCap
    BY <1>1, Sizes DEF Init
  <2>4. nextWorker \in 1 .. MaxWorkers + 1 /\ readies \in 0 .. MaxReady
    BY Sizes DEF Init
  <2>5. loop = "select" /\ after = "clear" /\ up = FALSE /\ announced = FALSE
    BY DEF Init
  <2> QED
    BY <2>1, <2>2, <2>3, <2>4, <2>5 DEF TypeOK
<1>3. OnePipeline /\ NothingStale /\ AnnouncedHasPlayer /\ JoinIsQuiet
  BY DEF Init, Idle, OnePipeline, NothingStale, AnnouncedHasPlayer, JoinIsQuiet
<1> QED
  BY <1>2, <1>3 DEF IInv

\* A handler that stops the player goes to its join; the publish state is as it
\* was but for the pending source.
LEMMA StopRuntimeKeeps ==
  ASSUME IInv, NEW rest \in {"clear", "start", "frame", "reset", "exit"},
         NEW waits \in Sources \cup {NoSource}, StopRuntime(rest, waits),
         announced' = FALSE, up' \in BOOLEAN, readies' \in 0 .. MaxReady, frames' = frames,
         events' \in Seq(Workers), Len(events') <= EventCap,
         pub.active => \A i \in 1 .. Len(events') : events'[i] = pub.player
  PROVE  IInv'
<1>1. TypeOK /\ OnePipeline /\ NothingStale
  BY DEF IInv
<1>2. pub' \in Pubs /\ pub'.player = pub.player /\ pub'.active = pub.active
  BY <1>1 DEF StopRuntime, TypeOK, Pubs
<1>3. /\ worker' \in [Workers -> WorkerStates]
      /\ \A w \in Workers : worker'[w].phase = worker[w].phase
  <2>1. CASE pub.player = NoWorker
    BY <1>1, <2>1 DEF StopRuntime, TypeOK
  <2>2. CASE pub.player # NoWorker
    <3>1. pub.player \in Workers /\ worker \in [Workers -> WorkerStates]
      BY <1>1, <2>2 DEF TypeOK, Pubs
    <3>2. worker' = [worker EXCEPT ![pub.player].stop = TRUE]
      BY <2>2 DEF StopRuntime
    <3> QED
      BY <3>1, <3>2, StopRaised
  <2> QED
    BY <2>1, <2>2
<1>4. TypeOK'
  BY <1>1, <1>2, <1>3 DEF StopRuntime, TypeOK
<1>5. OnePipeline'
  BY <1>1, <1>2, <1>3 DEF OnePipeline
<1>6. NothingStale'
  BY <1>1, <1>2 DEF NothingStale
<1>7. AnnouncedHasPlayer' /\ JoinIsQuiet'
  BY DEF AnnouncedHasPlayer, JoinIsQuiet, StopRuntime
<1> QED
  BY <1>4, <1>5, <1>6, <1>7 DEF IInv

\* The join is over: no worker runs, and if one is started the channels are empty.
LEMMA JoinedKeeps ==
  ASSUME IInv, Joined
  PROVE  IInv'
<1>1. TypeOK /\ OnePipeline /\ JoinIsQuiet /\ loop = "joining" /\ ~announced
  BY DEF IInv, Joined, JoinIsQuiet
<1>2. \A w \in Workers : worker[w].phase \in {"idle", "done"}
  BY <1>1, Sizes DEF Joined, MustJoin, OnePipeline, TypeOK, Pubs
<1>3. <<>> \in Seq(Workers) /\ Len(<<>>) = 0
  BY EmptySeq
<1>4. /\ frames' \in Seq(Workers) /\ Len(frames') <= FrameCap
      /\ events' \in Seq(Workers) /\ Len(events') <= EventCap
  BY <1>1, <1>3, Sizes DEF Joined, KeptBy, TypeOK
<1>5. loop' \in {"select", "frame", "exited"} /\ UNCHANGED <<after, up, readies>>
  BY DEF Joined
<1>6. CASE Starts
  <2>1. /\ nextWorker \in Workers /\ nextWorker # NoWorker
        /\ nextWorker' \in 1 .. MaxWorkers + 1
    BY <1>1, <1>6, Sizes DEF Starts, JoinIsQuiet, TypeOK, Workers, Joined
  <2>2. pub' \in Pubs /\ pub'.player = nextWorker /\ ~pub'.paused
    BY <1>1, <1>6, <2>1 DEF Joined, Started, Idle, TypeOK, Pubs
  <2>3. /\ worker' \in [Workers -> WorkerStates]
        /\ \A w \in Workers \ {nextWorker} : worker'[w] = worker[w]
    BY <1>1, <1>6, <2>1 DEF Joined, TypeOK, WorkerStates, Phases
  <2>4. frames' = <<>> /\ events' = <<>>
    BY <1>6 DEF Joined, Starts, KeptBy
  <2>5. TypeOK'
    BY <1>1, <1>4, <1>5, <1>6, <2>1, <2>2, <2>3 DEF Joined, TypeOK
  <2>6. OnePipeline' /\ NothingStale' /\ AnnouncedHasPlayer' /\ JoinIsQuiet'
    BY <1>2, <1>5, <1>6, <2>1, <2>2, <2>3, <2>4
    DEF Starts, OnePipeline, NothingStale, AnnouncedHasPlayer, JoinIsQuiet
  <2> QED
    BY <2>5, <2>6 DEF IInv
<1>7. CASE ~Starts
  <2>1. pub' \in Pubs /\ ~pub'.active
    BY <1>1, <1>7 DEF Joined, Stopped, Idle, TypeOK, Pubs
  <2>2. UNCHANGED <<worker, nextWorker, announced>>
    BY <1>7 DEF Joined, threads
  <2>3. TypeOK'
    BY <1>1, <1>4, <1>5, <2>1, <2>2 DEF TypeOK
  <2>4. OnePipeline' /\ NothingStale' /\ AnnouncedHasPlayer' /\ JoinIsQuiet'
    BY <1>1, <1>2, <1>5, <2>1, <2>2
    DEF OnePipeline, NothingStale, AnnouncedHasPlayer, JoinIsQuiet
  <2> QED
    BY <2>3, <2>4 DEF IInv
<1> QED
  BY <1>6, <1>7

-----------------------------------------------------------------------------
(* The steps of the main loop.                                               *)

\* A step that leaves the player, the activity and the channels alone, and may
\* only silence what is announced.
LEMMA QuietKeeps ==
  ASSUME IInv, TypeOK', UNCHANGED <<frames, events, nextWorker, after>>,
         pub'.player = pub.player, pub'.active => pub.active,
         \A w \in Workers : worker'[w].phase = worker[w].phase,
         loop' # "joining",
         announced' => announced /\ up' /\ ~pub'.paused
  PROVE  IInv'
<1>1. OnePipeline' /\ NothingStale' /\ JoinIsQuiet'
  BY DEF IInv, OnePipeline, NothingStale, JoinIsQuiet
<1>2. AnnouncedHasPlayer'
  BY DEF IInv, AnnouncedHasPlayer
<1> QED
  BY <1>1, <1>2 DEF IInv

\* Resume announces again only what it continues.
LEMMA ResumeKeeps ==
  ASSUME IInv, Resume
  PROVE  IInv'
<1>0. TypeOK /\ NothingStale /\ AnnouncedHasPlayer /\ OnePipeline /\ loop = "select"
  BY DEF IInv, Resume, AtSelect
<1>1. CASE ResumeInPlace
  <2>1. /\ pub' = [pub EXCEPT !.paused = FALSE] /\ announced' = up /\ worker' = Continued
        /\ UNCHANGED <<loop, after, nextWorker, frames, events, up, readies>>
    BY <1>1 DEF ResumeInPlace
  <2>2. /\ pub' \in Pubs /\ pub'.player = pub.player /\ pub'.active = pub.active /\ ~pub'.paused
        /\ pub.player # NoWorker /\ pub.player \in Workers
    BY <1>0, <1>1, <2>1 DEF ResumeInPlace, Alive, TypeOK, Pubs
  <2>3. worker' \in [Workers -> WorkerStates] /\ \A w \in Workers : worker'[w].phase = worker[w].phase
    BY <1>0, <2>1, <2>2, ProcSet DEF Continued, TypeOK
  <2>4. TypeOK'
    BY <1>0, <2>1, <2>2, <2>3 DEF TypeOK
  <2>5. OnePipeline' /\ NothingStale' /\ AnnouncedHasPlayer' /\ JoinIsQuiet'
    BY <1>0, <2>1, <2>2, <2>3 DEF OnePipeline, NothingStale, AnnouncedHasPlayer, JoinIsQuiet
  <2> QED
    BY <2>4, <2>5 DEF IInv
<1>2. CASE ResumeFromStart
  <2>1. /\ Requeued \in Pubs /\ Requeued.player = pub.player
        /\ Requeued.active => pub.active
        /\ ~Requeued.paused
    BY <1>0 DEF Requeued, TypeOK, Pubs
  <2>2. CASE MayStart(up, Requeued)
    <3>1. StopRuntime("start", Requeued.pending) /\ announced' = FALSE
          /\ UNCHANGED <<frames, events, up, readies>>
      BY <1>2, <2>2 DEF ResumeFromStart
    <3>2. Requeued.pending \in Sources \cup {NoSource}
      BY <2>1 DEF Pubs
    <3> QED
      BY <1>0, <3>1, <3>2, StopRuntimeKeeps DEF TypeOK, NothingStale
  <2>3. CASE ~MayStart(up, Requeued)
    <3>1. pub' = Requeued /\ UNCHANGED <<loop, after, worker, nextWorker, announced, frames, events, up, readies>>
      BY <1>2, <2>3 DEF ResumeFromStart, threads
    <3>2. TypeOK'
      BY <1>0, <2>1, <3>1 DEF TypeOK
    <3> QED
      BY <1>0, <2>1, <3>1, <3>2, QuietKeeps DEF AnnouncedHasPlayer
  <2> QED
    BY <2>2, <2>3
<1> QED
  BY <1>1, <1>2 DEF Resume

LEMMA CommandKeeps ==
  ASSUME IInv, Command
  PROVE  IInv'
<1>0. TypeOK /\ NothingStale /\ AnnouncedHasPlayer
  BY DEF IInv
<1>1. ASSUME NEW s \in Sources, Play(s) PROVE IInv'
  <2>1. CASE Switches(s)
    <3>1. StopRuntime("start", s) /\ announced' = FALSE /\ UNCHANGED <<frames, events, up, readies>>
      BY <1>1, <2>1 DEF Play
    <3> QED
      BY <1>0, <3>1, StopRuntimeKeeps DEF TypeOK, NothingStale
  <2>2. CASE ~Switches(s)
    <3>1. /\ pub' = [pub EXCEPT !.pending = s] /\ loop = "select"
          /\ UNCHANGED <<loop, after, worker, nextWorker, announced, frames, events, up, readies>>
      BY <1>1, <2>2 DEF Play, threads, AtSelect
    <3>2. pub' \in Pubs /\ pub'.player = pub.player /\ pub'.active = pub.active
          /\ pub'.paused = pub.paused
      BY <1>0, <3>1 DEF TypeOK, Pubs
    <3>3. TypeOK'
      BY <1>0, <3>1, <3>2 DEF TypeOK
    <3> QED
      BY <1>0, <3>1, <3>2, <3>3, QuietKeeps DEF AnnouncedHasPlayer
  <2> QED
    BY <2>1, <2>2
<1>2. CASE Stop
  <2>1. StopRuntime("clear", NoSource) /\ announced' = FALSE /\ UNCHANGED <<frames, events, up, readies>>
    BY <1>2 DEF Stop
  <2> QED
    BY <1>0, <2>1, StopRuntimeKeeps DEF TypeOK, NothingStale
<1>3. CASE Pause
  <2>1. /\ pub' = [pub EXCEPT !.paused = TRUE] /\ announced' = FALSE /\ loop = "select"
        /\ UNCHANGED <<loop, after, nextWorker, frames, events, up, readies>>
    BY <1>3 DEF Pause, AnnouncedByPause, AtSelect
  <2>2. pub' \in Pubs /\ pub'.player = pub.player /\ pub'.active = pub.active
    BY <1>0, <2>1 DEF TypeOK, Pubs
  <2>3. worker' \in [Workers -> WorkerStates] /\ \A w \in Workers : worker'[w].phase = worker[w].phase
    <3>1. CASE Alive(pub.player) /\ worker[pub.player].proc = "running"
      <4>1. pub.player \in Workers
        BY <1>0, <3>1 DEF Alive, TypeOK, Pubs
      <4>2. worker' = [worker EXCEPT ![pub.player].proc = "suspended"]
        BY <1>3, <3>1 DEF Pause
      <4> QED
        BY <1>0, <4>1, <4>2, ProcSet DEF TypeOK
    <3>2. CASE ~(Alive(pub.player) /\ worker[pub.player].proc = "running")
      BY <1>0, <1>3, <3>2 DEF Pause, TypeOK
    <3> QED
      BY <3>1, <3>2
  <2>4. TypeOK'
    BY <1>0, <2>1, <2>2, <2>3 DEF TypeOK
  <2> QED
    BY <2>1, <2>2, <2>3, <2>4, QuietKeeps
<1>4. CASE Resume
  BY <1>4, ResumeKeeps
<1>5. CASE BrowserFrame
  <2>1. CASE MayStart(up, pub) /\ pub.pending = Browser
    <3>1. StopRuntime("frame", Browser) /\ announced' = FALSE /\ UNCHANGED <<frames, events, up, readies>>
      BY <1>5, <2>1 DEF BrowserFrame
    <3> QED
      BY <1>0, <3>1, Sizes, StopRuntimeKeeps DEF TypeOK, NothingStale
  <2>2. CASE ~(MayStart(up, pub) /\ pub.pending = Browser)
    <3>1. /\ loop' = "frame"
          /\ UNCHANGED <<pub, after, worker, nextWorker, announced, frames, events, up, readies>>
      BY <1>5, <2>2 DEF BrowserFrame, threads
    <3>2. TypeOK'
      BY <1>0, <3>1 DEF TypeOK
    <3> QED
      BY <1>0, <3>1, <3>2, QuietKeeps DEF AnnouncedHasPlayer
  <2> QED
    BY <2>1, <2>2
<1>6. CASE Destroy
  <2>1. StopRuntime("exit", NoSource) /\ announced' = FALSE /\ up' = FALSE
        /\ UNCHANGED <<frames, events, readies>>
    BY <1>6 DEF Destroy
  <2> QED
    BY <1>0, <2>1, StopRuntimeKeeps DEF TypeOK, NothingStale
<1> QED
  BY <1>1, <1>2, <1>3, <1>4, <1>5, <1>6 DEF Command

LEMMA TransportKeeps ==
  ASSUME IInv, Transport
  PROVE  IInv'
<1>0. TypeOK /\ NothingStale
  BY DEF IInv
<1>1. CASE Connect \/ SessionChanged
  <2>1. /\ announced' = FALSE /\ up' \in BOOLEAN /\ readies' \in 0 .. MaxReady /\ loop = "select"
        /\ UNCHANGED <<pub, loop, after, worker, nextWorker, frames, events>>
    <3>1. readies \in 0 .. MaxReady /\ up \in BOOLEAN
      BY <1>0 DEF TypeOK
    <3>2. /\ announced' = FALSE /\ up' \in BOOLEAN /\ loop = "select" /\ Quiet
          /\ \/ readies' = readies
             \/ readies < MaxReady /\ readies' = readies + 1
      BY <1>1, <3>1 DEF Connect, SessionChanged, AtSelect
    <3>3. readies' \in 0 .. MaxReady
      BY <3>1, <3>2, Sizes
    <3> QED
      BY <3>2, <3>3 DEF Quiet, threads
  <2>2. TypeOK'
    BY <1>0, <2>1 DEF TypeOK
  <2> QED
    BY <2>1, <2>2, QuietKeeps
<1>2. CASE Disconnect
  <2>1. pub.pending \in Sources \cup {NoSource}
    BY <1>0 DEF TypeOK, Pubs
  <2>2. StopRuntime("clear", pub.pending) /\ announced' = FALSE /\ up' = FALSE
        /\ UNCHANGED <<frames, events, readies>>
    BY <1>2 DEF Disconnect
  <2> QED
    BY <1>0, <2>1, <2>2, StopRuntimeKeeps DEF TypeOK, NothingStale
<1>3. CASE VoiceLost
  <2>1. StopRuntime("reset", NoSource) /\ announced' = FALSE /\ up' = FALSE
        /\ UNCHANGED <<frames, events, readies>>
    BY <1>3 DEF VoiceLost
  <2> QED
    BY <1>0, <2>1, StopRuntimeKeeps DEF TypeOK, NothingStale
<1>4. CASE HandleReady
  <2>1. readies' \in 0 .. MaxReady /\ loop = "select" /\ UNCHANGED <<frames, events, up>>
    BY <1>0, <1>4, Sizes DEF HandleReady, AtSelect, TypeOK
  <2>2. pub.pending \in Sources \cup {NoSource}
    BY <1>0 DEF TypeOK, Pubs
  <2>3. CASE MayStart(up, pub)
    <3>1. StopRuntime("start", pub.pending) /\ announced' = FALSE
      BY <1>4, <2>3 DEF HandleReady
    <3> QED
      BY <1>0, <2>1, <2>2, <3>1, StopRuntimeKeeps DEF TypeOK, NothingStale
  <2>4. CASE ~MayStart(up, pub)
    <3>1. UNCHANGED <<pub, loop, after, worker, nextWorker, announced>>
      BY <1>4, <2>4 DEF HandleReady, threads
    <3>2. TypeOK'
      BY <1>0, <2>1, <3>1 DEF TypeOK
    <3> QED
      BY <2>1, <3>1, <3>2, QuietKeeps DEF IInv, AnnouncedHasPlayer
  <2> QED
    BY <2>3, <2>4
<1> QED
  BY <1>1, <1>2, <1>3, <1>4 DEF Transport

LEMMA BlockedKeeps ==
  ASSUME IInv, Blocked
  PROVE  IInv'
<1>1. CASE Joined
  BY <1>1, JoinedKeeps
<1>2. CASE PushFrame \/ Written
  <2>1. /\ loop' \in {"frame", "select", "writing"}
        /\ UNCHANGED <<pub, after, worker, nextWorker, frames, events, up, announced, readies>>
    BY <1>2 DEF PushFrame, Written, threads, transport
  <2>2. TypeOK'
    BY <2>1 DEF IInv, TypeOK
  <2> QED
    BY <2>1, <2>2, QuietKeeps DEF IInv, AnnouncedHasPlayer
<1> QED
  BY <1>1, <1>2 DEF Blocked

LEMMA AudioTickKeeps ==
  ASSUME IInv, AudioTick
  PROVE  IInv'
<1>0. TypeOK /\ NothingStale
  BY DEF IInv
<1>1. CASE TickEnds
  <2>1. StopRuntime("clear", pub.pending) /\ announced' = FALSE /\ events' = Tail(events)
        /\ events # <<>> /\ UNCHANGED <<frames, up, readies>>
    BY <1>1 DEF TickEnds, EndSeen
  <2>2. pub.pending \in Sources \cup {NoSource}
    BY <1>0 DEF TypeOK, Pubs
  <2>3. Len(events) \in Nat /\ Len(events) <= EventCap /\ events \in Seq(Workers)
    BY <1>0, LenProperties DEF TypeOK
  <2>4. /\ events' \in Seq(Workers) /\ Len(events') = Len(events) - 1
        /\ \A i \in 1 .. Len(events) - 1 : events'[i] = events[i + 1]
    BY <2>1, <2>3, TailOf
  <2>5. Len(events') <= EventCap
    BY <2>3, <2>4, Sizes
  <2>6. pub.active => \A i \in 1 .. Len(events') : events'[i] = pub.player
    BY <1>0, <2>3, <2>4 DEF NothingStale
  <2> QED
    BY <1>0, <2>1, <2>2, <2>4, <2>5, <2>6, StopRuntimeKeeps DEF TypeOK
<1>2. CASE TickSends
  <2>1. /\ frames' = SubSeq(frames, SentNow + 1, Len(frames))
        /\ UNCHANGED <<pub, loop, after, worker, nextWorker, events, up, announced, readies>>
    BY <1>2 DEF TickSends, threads, transport
  <2>2. Len(frames) \in Nat /\ Len(frames) <= FrameCap /\ frames \in Seq(Workers)
    BY <1>0, LenProperties DEF TypeOK
  <2>3. SentNow \in 0 .. Len(frames)
    BY <2>2, Sizes DEF SentNow
  <2>4. /\ frames' \in Seq(Workers) /\ Len(frames') = Len(frames) - SentNow
        /\ \A i \in 1 .. Len(frames') : frames'[i] = frames[SentNow + i]
    BY <2>1, <2>2, <2>3, RestOf
  <2>5. TypeOK'
    BY <1>0, <2>1, <2>2, <2>3, <2>4, Sizes DEF TypeOK
  <2>6. NothingStale'
    BY <1>0, <2>1, <2>2, <2>3, <2>4 DEF NothingStale
  <2>7. OnePipeline' /\ AnnouncedHasPlayer' /\ JoinIsQuiet'
    BY <2>1 DEF IInv, OnePipeline, AnnouncedHasPlayer, JoinIsQuiet
  <2> QED
    BY <2>5, <2>6, <2>7 DEF IInv
<1> QED
  BY <1>1, <1>2 DEF AudioTick

-----------------------------------------------------------------------------
(* The steps of the worker threads and their processes.                      *)

\* A worker that runs is the player's, so what it sends is the player's.
LEMMA SentKeeps ==
  ASSUME IInv, NEW w \in Workers, worker[w].phase \notin {"idle", "done"},
         worker' \in [Workers -> WorkerStates],
         \A v \in Workers \ {w} : worker'[v].phase = worker[v].phase,
         UNCHANGED <<pub, loop, after, nextWorker, up, announced, readies>>,
         \/ frames' = frames
         \/ frames' = Append(frames, w) /\ Len(frames) < FrameCap,
         \/ events' = events
         \/ events' = Append(events, w) /\ Len(events) < EventCap
  PROVE  IInv'
<1>1. TypeOK /\ OnePipeline /\ NothingStale
  BY DEF IInv
<1>2. w = pub.player
  BY <1>1 DEF OnePipeline
<1>3. Len(frames) \in Nat /\ Len(events) \in Nat /\ frames \in Seq(Workers) /\ events \in Seq(Workers)
  BY <1>1, LenProperties DEF TypeOK
<1>4. /\ frames' \in Seq(Workers) /\ Len(frames') <= FrameCap
      /\ pub.active => \A i \in 1 .. Len(frames') : frames'[i] = pub.player
  <2>1. CASE frames' = frames
    BY <1>1, <2>1 DEF TypeOK, NothingStale
  <2>2. CASE frames' = Append(frames, w) /\ Len(frames) < FrameCap
    <3>1. frames' \in Seq(Workers) /\ Len(frames') = Len(frames) + 1
          /\ \A i \in 1 .. Len(frames) + 1 : frames'[i] = IF i <= Len(frames) THEN frames[i] ELSE w
      BY <1>3, <2>2, AppendedTo
    <3> QED
      BY <1>1, <1>2, <1>3, <2>2, <3>1, Sizes DEF NothingStale
  <2> QED
    BY <2>1, <2>2
<1>5. /\ events' \in Seq(Workers) /\ Len(events') <= EventCap
      /\ pub.active => \A i \in 1 .. Len(events') : events'[i] = pub.player
  <2>1. CASE events' = events
    BY <1>1, <2>1 DEF TypeOK, NothingStale
  <2>2. CASE events' = Append(events, w) /\ Len(events) < EventCap
    <3>1. events' \in Seq(Workers) /\ Len(events') = Len(events) + 1
          /\ \A i \in 1 .. Len(events) + 1 : events'[i] = IF i <= Len(events) THEN events[i] ELSE w
      BY <1>3, <2>2, AppendedTo
    <3> QED
      BY <1>1, <1>2, <1>3, <2>2, <3>1, Sizes DEF NothingStale
  <2> QED
    BY <2>1, <2>2
<1>6. TypeOK' /\ NothingStale'
  BY <1>1, <1>4, <1>5 DEF TypeOK, NothingStale
<1>7. OnePipeline' /\ AnnouncedHasPlayer' /\ JoinIsQuiet'
  BY <1>1, <1>2 DEF IInv, OnePipeline, AnnouncedHasPlayer, JoinIsQuiet
<1> QED
  BY <1>6, <1>7 DEF IInv

LEMMA WorkKeeps ==
  ASSUME IInv, NEW w \in Workers, Work(w)
  PROVE  IInv'
<1>0. TypeOK /\ worker \in [Workers -> WorkerStates]
  BY DEF IInv, TypeOK
<1>1. worker[w].phase \notin {"idle", "done"}
  BY DEF Work, Spawn, Read, Push, LeaveLoop, ReadFails, Flush, Close, Decide, Report
<1>2. /\ worker' \in [Workers -> WorkerStates]
      /\ \A v \in Workers \ {w} : worker'[v].phase = worker[v].phase
  <2>1. ASSUME NEW phase \in Phases, Goes(w, phase)
        PROVE  /\ worker' \in [Workers -> WorkerStates]
               /\ \A v \in Workers \ {w} : worker'[v].phase = worker[v].phase
    BY <1>0, <2>1, PhaseSet DEF Goes
  <2>2. CASE worker' = [worker EXCEPT ![w].phase = "reading", ![w].proc = "running"]
    <3>1. worker' = [worker EXCEPT ![w] = [worker[w] EXCEPT !.phase = "reading", !.proc = "running"]]
      BY <1>0, <2>2 DEF WorkerStates
    <3>2. worker[w] \in WorkerStates
      BY <1>0
    <3>3. [worker[w] EXCEPT !.phase = "reading", !.proc = "running"] \in WorkerStates
      BY <3>2 DEF WorkerStates, Phases
    <3> QED
      BY <1>0, <3>1, <3>3
  <2>3. CASE \E phase \in Phases : Goes(w, phase)
    BY <2>1, <2>3
  <2> QED
    BY <2>2, <2>3
    DEF Work, Spawn, Read, Push, LeaveLoop, ReadFails, Flush, Close, Decide, Report, Phases
<1>3. UNCHANGED <<pub, loop, after, nextWorker, up, announced, readies>>
  BY DEF Work, Spawn, Read, Push, LeaveLoop, ReadFails, Flush, Close, Decide, Report,
     SameButWorker, transport
<1>4. \/ frames' = frames
      \/ frames' = Append(frames, w) /\ Len(frames) < FrameCap
  BY DEF Work, Spawn, Read, Push, LeaveLoop, ReadFails, Flush, Close, Decide, Report, FrameRoom
<1>5. \/ events' = events
      \/ events' = Append(events, w) /\ Len(events) < EventCap
  BY DEF Work, Spawn, Read, Push, LeaveLoop, ReadFails, Flush, Close, Decide, Report
<1> QED
  BY <1>1, <1>2, <1>3, <1>4, <1>5, SentKeeps

LEMMA ProcessExitsKeeps ==
  ASSUME IInv, NEW w \in Workers, ProcessExits(w)
  PROVE  IInv'
<1>0. TypeOK
  BY DEF IInv
<1>1. /\ worker' \in [Workers -> WorkerStates]
      /\ \A v \in Workers : worker'[v].phase = worker[v].phase
  BY <1>0, ProcSet DEF ProcessExits, TypeOK
<1>2. UNCHANGED <<pub, loop, after, nextWorker, up, announced, readies, frames, events>>
  BY DEF ProcessExits, SameButWorker, transport
<1>3. TypeOK'
  BY <1>0, <1>1, <1>2 DEF TypeOK
<1>4. OnePipeline' /\ NothingStale' /\ AnnouncedHasPlayer' /\ JoinIsQuiet'
  BY <1>1, <1>2 DEF IInv, OnePipeline, NothingStale, AnnouncedHasPlayer, JoinIsQuiet
<1> QED
  BY <1>3, <1>4 DEF IInv

-----------------------------------------------------------------------------

LEMMA StepIInv == IInv /\ [Next]_vars => IInv'
<1> SUFFICES ASSUME IInv, [Next]_vars PROVE IInv'
  OBVIOUS
<1>1. CASE Next
  BY <1>1, CommandKeeps, TransportKeeps, BlockedKeeps, AudioTickKeeps, WorkKeeps, ProcessExitsKeeps
  DEF Next
<1>2. CASE UNCHANGED vars
  BY <1>2 DEF vars, threads, transport, IInv, TypeOK, OnePipeline, NothingStale,
     AnnouncedHasPlayer, JoinIsQuiet
<1> QED
  BY <1>1, <1>2

LEMMA AlwaysIInv == Spec => []IInv
BY InitIInv, StepIInv, PTL DEF Spec

\* The channels stay within their capacities and no identity runs out, for every
\* number of pipelines.
THEOREM TypeCorrect == Spec => []TypeOK
<1>1. IInv => TypeOK
  BY DEF IInv
<1> QED
  BY <1>1, AlwaysIInv, PTL

\* There is never a second pipeline, because whoever starts one has joined the
\* last, whatever happened in between.
THEOREM PipelineSound == Spec => []OnePipeline
<1>1. IInv => OnePipeline
  BY DEF IInv
<1> QED
  BY <1>1, AlwaysIInv, PTL

\* No frame and no end of an earlier source is in the channels of an active one.
THEOREM ChannelsSound == Spec => []NothingStale
<1>1. IInv => NothingStale
  BY DEF IInv
<1> QED
  BY <1>1, AlwaysIInv, PTL

\* What is announced on the transport has a transport, a player and no pause.
THEOREM AnnouncementSound == Spec => []AnnouncedHasPlayer
<1>1. IInv => AnnouncedHasPlayer
  BY DEF IInv
<1> QED
  BY <1>1, AlwaysIInv, PTL
=============================================================================
