----------------------------- MODULE StreamPublish -----------------------------
(***************************************************************************)
(* Outbound Go Live video of clankvox: the publish state of AppState, the  *)
(* worker thread and the ffmpeg process of each StreamPublishPlayer, the   *)
(* bounded frame and event channels, and what is announced on the publish  *)
(* transport.                                                              *)
(*                                                                         *)
(* Unlike MusicPlayer::stop, StreamPublishPlayer::stop joins the worker,   *)
(* and BrowserFrame writes to the process: the main loop blocks in both.   *)
(* `loop` says where it is; while it is not at its select! the workers and *)
(* their processes go on alone.                                            *)
(*                                                                         *)
(* The transport itself is Connection's; here it is up or down, with its   *)
(* Ready events counted.  A command channel that is full (128 entries) and *)
(* loses an announcement is not modelled.  Windows, where nothing can be   *)
(* suspended, is not modelled either.                                      *)
(***************************************************************************)
EXTENDS Integers, Sequences

CONSTANTS
  Urls,             \* URL and visualizer sources, with their parameters
  Browser,          \* the browser source (one mime type is accepted)
  NoSource,         \* Option::None for a source
  MaxWorkers,       \* bound: pipelines started in one behaviour
  FrameCap,         \* capacity of the frame channel (90)
  EventCap,         \* capacity of the event channel (32)
  MaxFramesPerTick, \* frames sent in one tick (4)
  MaxReady          \* bound: Ready events of publish transports in flight

ASSUME StreamPublishAssumption ==
  /\ Browser \notin Urls
  /\ NoSource \notin Urls \cup {Browser}
  /\ MaxWorkers \in Nat
  /\ FrameCap \in Nat \ {0}
  /\ EventCap \in Nat \ {0}
  /\ MaxFramesPerTick \in Nat \ {0}
  /\ MaxReady \in Nat

Sources == Urls \cup {Browser}
Workers == 1 .. MaxWorkers
NoWorker == 0

VARIABLES
  pub,        \* StreamPublishState
  loop,       \* where the main loop is: at its select!, or blocked
  after,      \* what the handler does once the worker is joined
  worker,     \* the worker threads and their processes
  nextWorker, \* ghost: the next worker's identity
  frames,     \* the frame channel, as the workers that sent the frames
  events,     \* the event channel, likewise; Idle and Error are treated alike
  up,         \* stream_publish_conn is Some
  announced,  \* the transport was told that we speak and send video
  readies     \* Ready events of publish transports in the VoiceEvent channel

threads == <<worker, nextWorker>>
transport == <<up, announced, readies>>
vars == <<pub, loop, after, threads, frames, events, transport>>

Pubs == [player : Workers \cup {NoWorker}, pending : Sources \cup {NoSource},
         source : Sources \cup {NoSource}, active : BOOLEAN, paused : BOOLEAN]
Phases == {"idle", "spawning", "reading", "pushing", "flushing", "closing",
           "closed", "ending", "done"}
WorkerStates == [phase : Phases, stop : BOOLEAN,
                 proc : {"none", "running", "suspended", "exited"}]

TypeOK ==
  /\ pub \in Pubs
  /\ loop \in {"select", "joining", "frame", "writing", "exited"}
  /\ after \in {"clear", "start", "frame", "reset", "exit"}
  /\ worker \in [Workers -> WorkerStates]
  /\ nextWorker \in 1 .. MaxWorkers + 1
  /\ frames \in Seq(Workers) /\ Len(frames) <= FrameCap
  /\ events \in Seq(Workers) /\ Len(events) <= EventCap
  /\ up \in BOOLEAN
  /\ announced \in BOOLEAN
  /\ readies \in 0 .. MaxReady

Idle == [player |-> NoWorker, pending |-> NoSource, source |-> NoSource,
         active |-> FALSE, paused |-> FALSE]

Init ==
  /\ pub = Idle
  /\ loop = "select"
  /\ after = "clear"
  /\ worker = [w \in Workers |-> [phase |-> "idle", stop |-> FALSE, proc |-> "none"]]
  /\ nextWorker = 1
  /\ frames = <<>>
  /\ events = <<>>
  /\ up = FALSE
  /\ announced = FALSE
  /\ readies = 0

-----------------------------------------------------------------------------
(* Helpers of the handlers.                                                  *)

AtSelect == loop = "select"

\* child_pid is set from the spawn until the process was waited for.
Alive(w) == w # NoWorker /\ worker[w].phase \in {"reading", "pushing", "flushing", "closing"}

\* StreamPublishPlayer::stop up to its join: the flag is raised and the process
\* signalled, which ends one that runs.  The handler goes on in Joined, as `rest`
\* says; `waits` is the pending source it leaves.
StopRuntime(rest, waits) ==
  /\ rest \in {"start", "frame"} => nextWorker <= MaxWorkers
  /\ loop' = "joining"
  /\ after' = rest
  /\ pub' = [pub EXCEPT !.pending = waits]
  /\ worker' = IF pub.player = NoWorker THEN worker
               ELSE [worker EXCEPT ![pub.player].stop = TRUE]
  /\ UNCHANGED nextWorker

\* maybe_start_stream_publish_pipeline: whether it starts anything.
MayStart(isUp, p) == isUp /\ ~p.active /\ ~p.paused /\ p.pending # NoSource

Quiet == UNCHANGED <<pub, loop, after, threads, frames, events>>

\* Mutant of KeptBy: what the stopped pipeline sent stays in the channels.
KeptAlways(rest, channel) == channel

\* What a channel keeps when its player stops.  StreamPublishState::reset clears
\* neither channel.
KeptBy(rest, channel) == IF rest = "reset" THEN channel ELSE <<>>

\* The publish state the handler leaves after the join: stopped, and started
\* again if it asked for that and the transport is up.
Starts == after \in {"start", "frame"} /\ up /\ pub.pending # NoSource
Stopped == [Idle EXCEPT !.pending = IF after \in {"reset", "exit"} THEN NoSource ELSE pub.pending]
Started == [Idle EXCEPT !.player = nextWorker, !.source = pub.pending, !.active = TRUE]

\* Mutant of MustJoin: the stopped worker is left to end in its own time.
MustJoinNobody == FALSE

\* JoinHandle::join of a worker that has not ended.
MustJoin == pub.player # NoWorker /\ worker[pub.player].phase # "done"

\* The worker ended: the rest of the handler.
Joined ==
  /\ loop = "joining" /\ ~MustJoin
  /\ frames' = KeptBy(after, frames)
  /\ events' = KeptBy(after, events)
  /\ loop' = IF after = "exit" THEN "exited" ELSE IF after = "frame" THEN "frame" ELSE "select"
  /\ IF Starts
       THEN /\ pub' = Started
            /\ worker' = [worker EXCEPT ![nextWorker].phase = "spawning"]
            /\ nextWorker' = nextWorker + 1
            /\ announced' = TRUE
       ELSE /\ pub' = Stopped
            /\ UNCHANGED <<threads, announced>>
  /\ UNCHANGED <<after, up, readies>>

-----------------------------------------------------------------------------
(* IPC commands (handle_stream_publish_command).                             *)

\* Only another source stops the pipeline that runs.
Switches(s) == pub.source # s

\* Play, PlayVisualizer and BrowserStart: at once if the transport is up, when it
\* is Ready otherwise.  The source of a paused pipeline is queued behind it.
Play(s) ==
  /\ AtSelect
  /\ ~(pub.active /\ ~pub.paused /\ pub.source = s)
  /\ IF Switches(s)
       THEN /\ StopRuntime("start", s)
            /\ announced' = FALSE
       ELSE /\ pub' = [pub EXCEPT !.pending = s]
            /\ UNCHANGED <<loop, after, threads, announced>>
  /\ UNCHANGED <<frames, events, up, readies>>

Stop ==
  /\ AtSelect
  /\ StopRuntime("clear", NoSource)
  /\ announced' = FALSE
  /\ UNCHANGED <<frames, events, up, readies>>

\* Mutant of AnnouncedByPause: the transport is not told.
AnnouncedAsBefore == announced

AnnouncedByPause == FALSE

\* The flag is raised whatever there is to pause; a process whose pid is not
\* known yet runs on.
Pause ==
  /\ AtSelect
  /\ pub' = [pub EXCEPT !.paused = TRUE]
  /\ worker' = IF Alive(pub.player) /\ worker[pub.player].proc = "running"
                 THEN [worker EXCEPT ![pub.player].proc = "suspended"] ELSE worker
  /\ announced' = AnnouncedByPause
  /\ UNCHANGED <<loop, after, nextWorker, frames, events, up, readies>>

\* SIGCONT to the process group of the player.
Continued == IF worker[pub.player].proc = "suspended"
               THEN [worker EXCEPT ![pub.player].proc = "running"] ELSE worker

\* Resume continues a process that is there (its signal is taken to succeed while
\* the pid is set); what was played otherwise starts again.
ResumeInPlace ==
  /\ Alive(pub.player)
  /\ pub' = [pub EXCEPT !.paused = FALSE]
  /\ worker' = Continued
  /\ announced' = up
  /\ UNCHANGED <<loop, after, nextWorker, frames, events, up, readies>>

Requeued == IF pub.source = NoSource THEN [pub EXCEPT !.paused = FALSE]
            ELSE [pub EXCEPT !.paused = FALSE, !.pending = pub.source,
                             !.active = FALSE, !.source = NoSource]

ResumeFromStart ==
  /\ ~Alive(pub.player)
  /\ IF MayStart(up, Requeued)
       THEN /\ StopRuntime("start", Requeued.pending)
            /\ announced' = FALSE
       ELSE /\ pub' = Requeued
            /\ UNCHANGED <<loop, after, threads, announced>>
  /\ UNCHANGED <<frames, events, up, readies>>

Resume == AtSelect /\ (ResumeInPlace \/ ResumeFromStart)

\* BrowserFrame: it starts a queued browser source first, then writes.
BrowserFrame ==
  /\ AtSelect
  /\ IF MayStart(up, pub) /\ pub.pending = Browser
       THEN /\ StopRuntime("frame", Browser)
            /\ announced' = FALSE
       ELSE /\ loop' = "frame"
            /\ UNCHANGED <<pub, after, threads, announced>>
  /\ UNCHANGED <<frames, events, up, readies>>

\* push_browser_frame: nothing here asks whether the publish is paused.  A frame
\* that fits the pipe is written at once.
PushFrame ==
  /\ loop = "frame"
  /\ \/ loop' = "select"
     \/ Alive(pub.player) /\ pub.source = Browser /\ loop' = "writing"
  /\ UNCHANGED <<pub, after, threads, frames, events, transport>>

\* write_all returns when the process reads, or ended; it reads only while the
\* worker takes its output.
Written ==
  /\ loop = "writing"
  /\ \/ worker[pub.player].proc = "exited"
     \/ worker[pub.player].proc = "running" /\ worker[pub.player].phase # "pushing"
  /\ loop' = "select"
  /\ UNCHANGED <<pub, after, threads, frames, events, transport>>

\* Destroy resets the publish state and leaves the main loop.
Destroy ==
  /\ AtSelect
  /\ StopRuntime("exit", NoSource)
  /\ up' = FALSE
  /\ announced' = FALSE
  /\ UNCHANGED <<frames, events, readies>>

-----------------------------------------------------------------------------
(* The publish transport.                                                    *)

\* StreamPublishConnect replaces the transport and leaves the publish state; a
\* new transport announces itself inactive.
Connect ==
  /\ AtSelect
  /\ announced' = FALSE
  /\ \/ /\ up' = TRUE
        /\ readies < MaxReady
        /\ readies' = readies + 1
     \/ up' = FALSE /\ UNCHANGED readies
  /\ Quiet

\* A changed session closes the transport and leaves the publish state.
SessionChanged ==
  /\ AtSelect /\ up
  /\ up' = FALSE
  /\ announced' = FALSE
  /\ UNCHANGED readies
  /\ Quiet

\* StreamPublishDisconnect, and Disconnected from the publish transport.
Disconnect ==
  /\ AtSelect
  /\ StopRuntime("clear", pub.pending)
  /\ up' = FALSE
  /\ announced' = FALSE
  /\ UNCHANGED <<frames, events, readies>>

\* handle_disconnected of the voice transport.
VoiceLost ==
  /\ AtSelect
  /\ StopRuntime("reset", NoSource)
  /\ up' = FALSE
  /\ announced' = FALSE
  /\ UNCHANGED <<frames, events, readies>>

HandleReady ==
  /\ AtSelect /\ readies > 0
  /\ readies' = readies - 1
  /\ IF MayStart(up, pub)
       THEN /\ StopRuntime("start", pub.pending)
            /\ announced' = FALSE
       ELSE UNCHANGED <<pub, loop, after, threads, announced>>
  /\ UNCHANGED <<frames, events, up>>

-----------------------------------------------------------------------------
(* The 20 ms tick: drain_stream_publish_runtime_events, then                 *)
(* send_pending_stream_publish_frame.                                        *)

\* Mutant of EndSeen: the end of a pipeline is noticed only while it plays.
EndSeenPlaying == events # <<>> /\ ~pub.paused

EndSeen == events # <<>>

\* Idle or Error: the pipeline is stopped, the rest of the tick finds nothing.
TickEnds ==
  /\ AtSelect /\ EndSeen
  /\ StopRuntime("clear", pub.pending)
  /\ events' = Tail(events)
  /\ announced' = FALSE
  /\ UNCHANGED <<frames, up, readies>>

\* A frame without a transport is taken and dropped.
SentNow == IF Len(frames) < MaxFramesPerTick THEN Len(frames) ELSE MaxFramesPerTick

TickSends ==
  /\ AtSelect /\ events = <<>>
  /\ pub.active /\ ~pub.paused
  /\ frames' = SubSeq(frames, SentNow + 1, Len(frames))
  /\ UNCHANGED <<pub, loop, after, threads, events, transport>>

-----------------------------------------------------------------------------
(* The worker thread and its process.                                        *)

Goes(w, phase) == worker' = [worker EXCEPT ![w].phase = phase]
SameButWorker == UNCHANGED <<pub, loop, after, nextWorker, transport>>

\* Mutant of FrameRoom: the channel is taken for an unbounded one.
FrameRoomAlways == TRUE

FrameRoom == Len(frames) < FrameCap

\* A process that cannot be spawned is reported, stopped or not.
Spawn(w) ==
  /\ worker[w].phase = "spawning"
  /\ \/ worker' = [worker EXCEPT ![w].phase = "reading", ![w].proc = "running"]
     \/ Goes(w, "ending")
  /\ SameButWorker /\ UNCHANGED <<frames, events>>

\* The process ends by itself or by SIGTERM, unless it is suspended.
ProcessExits(w) ==
  /\ worker[w].proc = "running"
  /\ worker' = [worker EXCEPT ![w].proc = "exited"]
  /\ SameButWorker /\ UNCHANGED <<frames, events>>

\* The flag is read before each chunk; the pipe may still hold data of a process
\* that was suspended or ended.
Read(w) ==
  /\ worker[w].phase = "reading" /\ ~worker[w].stop
  /\ Goes(w, "pushing")
  /\ SameButWorker /\ UNCHANGED <<frames, events>>

\* A chunk may hold several access units, sent without a look at the flag.
Push(w) ==
  /\ worker[w].phase = "pushing" /\ FrameRoom
  /\ frames' = Append(frames, w)
  /\ Goes(w, "reading") \/ Goes(w, "pushing")
  /\ SameButWorker /\ UNCHANGED events

\* The flag, the end of the stream or a read error ends the loop; a read error is
\* reported at once, and what is left in the parser is flushed unless stopped.
LeaveLoop(w) ==
  /\ worker[w].phase = "reading"
  /\ worker[w].stop \/ worker[w].proc = "exited"
  /\ Goes(w, "closing") \/ (~worker[w].stop /\ Goes(w, "flushing"))
  /\ SameButWorker /\ UNCHANGED <<frames, events>>

ReadFails(w) ==
  /\ worker[w].phase = "reading" /\ Len(events) < EventCap
  /\ events' = Append(events, w)
  /\ Goes(w, "closing") \/ Goes(w, "flushing")
  /\ SameButWorker /\ UNCHANGED frames

Flush(w) ==
  /\ worker[w].phase = "flushing" /\ FrameRoom
  /\ frames' = Append(frames, w)
  /\ Goes(w, "closing")
  /\ SameButWorker /\ UNCHANGED events

\* terminate_child and wait: a suspended process is waited for until it resumes.
Close(w) ==
  /\ worker[w].phase = "closing" /\ worker[w].proc = "exited"
  /\ Goes(w, "closed")
  /\ SameButWorker /\ UNCHANGED <<frames, events>>

\* The flag is read once, before the event is sent.
Decide(w) ==
  /\ worker[w].phase = "closed"
  /\ Goes(w, IF worker[w].stop THEN "done" ELSE "ending")
  /\ SameButWorker /\ UNCHANGED <<frames, events>>

Report(w) ==
  /\ worker[w].phase = "ending" /\ Len(events) < EventCap
  /\ events' = Append(events, w)
  /\ Goes(w, "done")
  /\ SameButWorker /\ UNCHANGED frames

-----------------------------------------------------------------------------
Command ==
  \/ \E s \in Sources : Play(s)
  \/ Stop
  \/ Pause
  \/ Resume
  \/ BrowserFrame
  \/ Destroy

Transport ==
  \/ Connect
  \/ SessionChanged
  \/ Disconnect
  \/ VoiceLost
  \/ HandleReady

Blocked == Joined \/ PushFrame \/ Written

AudioTick == TickEnds \/ TickSends

Work(w) ==
  \/ Spawn(w)
  \/ Read(w)
  \/ Push(w)
  \/ LeaveLoop(w)
  \/ ReadFails(w)
  \/ Flush(w)
  \/ Close(w)
  \/ Decide(w)
  \/ Report(w)

Next == Command \/ Transport \/ Blocked \/ AudioTick
        \/ (\E w \in Workers : Work(w) \/ ProcessExits(w))

Spec == Init /\ [][Next]_vars

\* A call that can return does; threads are scheduled; a process that was told to
\* stop and runs does end; select! polls its branches in random order, so a tick
\* that is due again and again is taken.
FairSpec ==
  /\ Spec
  /\ WF_vars(Blocked)
  /\ SF_vars(AudioTick)
  /\ \A w \in Workers : WF_vars(Work(w)) /\ WF_vars(worker[w].stop /\ ProcessExits(w))

-----------------------------------------------------------------------------
(* Properties.                                                               *)

\* There is never a second pipeline: whoever starts one has joined the last.
OnePipeline == \A w \in Workers : worker[w].phase \in {"idle", "done"} \/ w = pub.player

\* Whatever is in the channels while a source is active comes from its own
\* pipeline: neither a frame nor the end of an earlier source reaches it.
NothingStale ==
  pub.active => /\ \A i \in 1 .. Len(frames) : frames[i] = pub.player
                /\ \A i \in 1 .. Len(events) : events[i] = pub.player

\* What is announced on the transport is what happens: no path leaves us speaking
\* and sending video with the publish paused, or with no pipeline.
AnnouncedHasPlayer == announced => up /\ ~pub.paused /\ pub.player # NoWorker

\* A pipeline that ended is noticed, paused or not, however busy the loop is.
EndIsNoticed ==
  \A w \in Workers :
    pub.player = w /\ pub.active /\ worker[w].phase = "done" ~> ~(pub.player = w /\ pub.active)

-----------------------------------------------------------------------------
(* What the documentation says and the code does not do.                     *)

\* docs/go-live.md: pause, resume and "stop: ... stream_publish_stop" are "split
\* cleanly".  The main loop comes back from a handler, whatever came before it.
LoopComesBack == loop \in {"joining", "writing"} ~> loop \notin {"joining", "writing"}
=============================================================================
