# clankvox in TLA+

This directory holds TLA+ models of `clankvox`, the Rust process that carries
Discord voice and Go Live video for a parent process: the commands it takes on
stdin, the voice transports it dials, the audio and video it sends and the DAVE
sessions it keeps. TLC checks the models on small instances; TLAPS proves the
properties that matter most for every instance.

File and line references are to `src/src/*.rs` and `src/docs/*.md`.

## The system

One task, the *main loop* (`main.rs:113`), owns `AppState` and selects over five
sources: the reconnect timer, voice events, commands of the parent, music events
and a 20 ms audio tick. Every handler runs to its end before the next source is
looked at, and a handler that awaits or blocks stops the others. Beside the loop
run, per transport, a WebSocket read task, a WebSocket write task and a UDP task;
per music track a worker thread with a yt-dlp/ffmpeg process; per published source
another one. They reach the loop through channels and through a few locks.

| Component | State | Operations | Interaction | What is hard | What makes it correct |
|---|---|---|---|---|---|
| Roles and reconnect (`connection_supervisor`, `app_state`) | three slots, credentials, reconnect deadline and attempt | join, server and session updates, stream connects, timer, Ready, Disconnected | dials inside the loop; tasks report on one `VoiceEvent` channel of 256 | late events, the loop waiting for itself | no leaked or dead transport, one retry per loss, backoff in step, losses reported |
| Transport tasks (`voice_conn`) | WebSocket, UDP socket, SSRC maps, sequence number | handshake, read, write, heartbeat, receive, send | share the DAVE slot and SSRC maps under locks | three tasks report one loss; state changed under a lock and sent after it | one report per loss, nothing sent for a role no longer held |
| Outbound audio (`playback_supervisor`, `music`, `audio_pipeline`) | music state, mixer buffers, gain | audio, play, pause, resume, stop, gain, tick | worker sends PCM and Idle/Error; the tick mixes | workers outlive their tracks, fades span ticks, announcements delay starts | played music is heard and ends, the parent's view is right, no stale audio |
| Outbound video (`stream_publish`) | publish state, worker, process | play, browser start and frames, pause, resume, stop, tick | frame channel (90), event channel (32), blocking join | suspended processes, replaced transports | one pipeline, no stale frame, announcements true |
| DAVE (`dave`, opcodes of `voice_conn`) | manager in each role's slot | OP21, 22, 24, 25, 27, 29, 30, packets | read task and UDP task share it, loop empties it | Discord's order of opcodes, missing OP22 | confirmations, readiness and failure suppression agree with the manager |
| Inbound audio (`capture_supervisor`, `capture`, UDP and read task of `voice_conn`) | SSRC map of the transport and of the loop, sequence numbers, Opus decoders, speaking states, subscriptions | Opus packets, OP5, OP12/13, remapping by decryption, subscribe, unsubscribe, tick | read task and UDP task report on the voice event channel | reordering, wrap of RTP numbers, SSRCs that change hands, two writers of one map | every stream and speaker the parent hears of is ended; decoders see one user, in order |
| Inbound video (`h264`, `vp8`, `voice_conn`) | a partial frame and a sequence number per SSRC | push a packet | UDP task only | loss, repetition, reordering, overflow | nothing is pieced together across a hole; an intact frame is emitted |
| Video state and decoding (`video_state`, `video_decoder`, `media_sink_wants`) | streams per user, wants, decoders | state payloads, subscribe, decode | main loop | merging of payloads | not modelled |
| IPC (`ipc*`, `main`) | two lanes in, three lanes out | read and sort lines, serve, send, write | threads around stdin and stdout | bounded lanes drop, a parent that stalls or exits | commands are neither lost nor starved; the process ends with its parent if handlers return |

Packet formats, transport encryption, logging and start-up have no state worth a
model; `PROJECT.json` lists them with the rest.

## The modules

**`Connection`** models the roles. A connection is a number; its tasks run while
it is in `live`; `slot` says which role holds it. Each command of
`handle_connection_command` is an action. A dial is two steps, because
`VoiceConnection::connect` awaits: the handler sets `connecting` and only
`FinishConnect` (with any outcome) brings the loop back, while tasks go on sending
into `queue`, the bounded event channel. Events carry their connection as a ghost:
the code's events carry the role only, so handlers never read it. A task that was
aborted can still complete the one send it was in (`LateDisconnected`). `deadline`
holds the backoff shift, `attempt` the count that `schedule_reconnect` doubles by.

**`Playback`** models `MusicState`, the pending start, `AudioSendState` and the
workers. Buffers are counted in mixer frames (0 .. `MaxMusic`, 0 .. `MaxTts`), the
gain in steps, timers in ticks. A worker goes through spawning, reading, pushing,
closing, ending; `stop` is its flag, which it reads at the top of its loop, so a
chunk in hand still goes out. `Tick` is `on_audio_tick` whole:
pending start, pending stop, report, prefetch, end of tail, mix. `told` is the last
PlayerState the parent got. Ghosts: `cutOff`, that voice was lost since, which ends the
music without a PlayerState; `stopFor`, the player that was asked for the last fade-out.

**`StreamPublish`** models the publish runtime. `loop` says where the main loop is,
because here it blocks: in `JoinHandle::join` of a worker (`joining`) and in a
write to ffmpeg's stdin (`writing`). A handler that stops a player is therefore two
steps, `StopRuntime` and `Joined`, and workers, processes and transport tasks run in
between. A process is running, suspended (SIGSTOP) or exited; a suspended process
does not end. Frames and events in the channels are marked with their worker.

**`Dave`** models one role's slot. The manager's methods are functions on a record;
an opcode's action applies them and leaves in `todo` the sends that the read task
awaits after dropping the lock. `Packet` is `maybe_auto_execute_downgrade`, which the
UDP task calls in between; `Teardown` is the loop emptying the slot. Discord sends
anything, and davey's verdicts are free choices. Ghosts: `acked`, `told`, `asked`.

**`AudioSend`** models the mixer that `Playback` reduces to "speech or none":
`push_pcm` with its overflow, the clears, and `next_opus_frame` as the alternatives
its early returns make: `WaitForMore` (the prebuffer gate), `Mix`, `HoldPartial` (a
tail shorter than a frame), `TrailingSilence` and `Idle`. Speech is a sequence of
samples, so that order and loss can be seen; music is a count of frames. `refused`
is a ghost: the encoder refused the frame that should have started speech.
`Renewed` is the loss of the voice connection and the new state that Ready makes;
in between the state is absent and pushes do nothing.

**`SpeechLine`** is what the mixer promises for speech: a bounded first-in first-out
line that is played, held while `patience` lasts, followed by its silence, and that
loses samples only at its end or to a clear. `AudioSend` instantiates it: `line` is
the speech buffer, `flowing` the gate, `owed` the silence frames left, and `patience`
a function of the gate's stall counter and the flush counter (`PatienceLeft`), so
that the refinement says that the three counters together hold speech for at most
`StallTicks + FlushTicks - 1` ticks.

**`Capture`** models inbound audio in the main loop. A packet is known by its index in
the stream, the code sees the index modulo `SeqMod`; so the properties can speak of
the order and age the code has to guess. `classify_rtp_sequence` becomes `IsStale`,
`LostBefore` and `IsForwardLarge` over a signed `Distance`. `OpusReceived` drops or
accepts; accepting updates speaking first, and decodes only for a subscribed user,
with any outcome. Timers are ages in ticks; `heard` and `open` are what the parent
was told; `fed` and `timeline` are ghosts of the index last decoded and the index up
to which the parent has audio.

**`InboundAudio`** composes `Capture` with the two transport tasks. The read task
changes the transport's map under its lock and sends afterwards (`ReadTask`,
`ReaderSends`); the UDP task reads the map, decrypts with the DAVE lock held, writes
the map, and sends up to two events (`UdpReceive` .. `UdpSendsOpus`). Decryption is
external. An encrypted frame opens with the key of its sender, who is anybody who ever
sent on the SSRC: a late packet of a former owner moves the SSRC back to him. A frame in
the clear opens for the first candidate, so it may remap a mapped SSRC as well.
`Reconnect` is `handle_disconnected` and the next dial in one step: `shutdown` only
aborts, so a task that runs at that moment may still send what it has at hand
(`AtHand`, kept in `late`; `LateSend`, `LateStops`), and what is queued is handled
after it. Ghosts: `astray`, the SSRCs of which two conflicting changes were unreported
at the same time (they may be reported in the other order) or that a former transport
mapped last, until the next announcement; and in a queued packet `voice`, whose it is,
`clean`, whether the SSRC changed hands while it was at work, and `old`, whether its
transport was replaced since. Subscriptions and ticks touch no map and take no part
here.

**`Depacketizer`** models one SSRC: the gap check of `VideoDepacketizerState::push`,
then the `push` of the codec's depacketizer. Both codecs share one record: `open`
stands for `in_fu` and `saw_partition_start`. A packet has a kind (single NAL,
aggregate, first, middle, last fragment; start or rest of a VP8 partition), a frame,
a marker and whether it is an IDR. A buffer is the sequence of packets in it. The
streams are what a sender of the RTP payload formats produces (`WellFormed`): frames
one after the other, markers last, no fragment without the one before it.

**`Ipc`** models the lanes of `ipc.rs`. The writer's nested `try_recv`s are steps
(`control`, `audio`, `select`, `writing`), because messages arrive between them. The
parent writes lines of six kinds, stalls, reads again, closes stdin or exits. The main
loop takes a message or another event in hand (`handling`), and its handler returns or
does not: Destroy, for one, joins the publish worker before it ends the loop, and
a dial waits for the server. Ghosts:
`unserved` counts the commands written and not yet handled, `passed` the media written
while a control message waited.

`MC*.tla` instantiate the modules, `MC*.cfg` give the constants. `XProofs` holds the
proofs about `X`; those about `Capture` stand in `InboundAudioProofs`. Operators named as mutants in a
comment are deliberate bugs, one per property, that show the property can fail; no
behaviour uses them.

## The runs

| Run | Bounds | Shows |
|---|---|---|
| `conn` | 2 sessions (symmetric), 2 connections, queue 2, backoff shift 1, 2 attempts | the reconnect timer, slots, live tasks and reports agree |
| `playback` | 2 pipelines, 1 chunk, 1 frame of each buffer, gain 0/1 | mute, the end of tracks, fade-outs and the parent's view |
| `playback_live` | 1 pipeline, 2 chunks, 2 frames of music | a queued track resolves; a tail drains |
| `mixer` | 2 sample values, frames of 2, prebuffer 4, cap 6, tick counts of the code | the mixer implements `SpeechLine` and comes to rest armed |
| `publish` | 2 pipelines, 2 sources, frame channel 2, event channel 2 | one pipeline, clean channels, true announcements, ends noticed |
| `publish_hang` (violation) | 1 pipeline, frame channel 4 | the loop joins a worker that cannot end |
| `dave` | transitions 0, 1, 2, versions 0, 1, wait 2, 8 opcodes | suppression, confirmation, readiness, downgrade timer |
| `dave_epoch` (violation) | 3 opcodes | an epoch prepared at version 0 gets no key package |
| `capture` | 2 users, 2 SSRCs, numbers modulo 6 that wrap, 5 packets each, up to 3 lost in a row, 1 place late, 2 mappings | reports end, decoders and timelines are right, no packet is decoded twice or late |
| `inbound_audio` | 2 users (symmetric), 1 SSRC, 2 changes of the sender, 4 mappings, new and late packets of either user, reconnects, event queue 2 | the two SSRC maps come to agree; audio goes to the user whose voice it is |
| `depacket` | 13 H264 and 11 VP8 packets, numbers modulo 16 that wrap, frames up to 4 packets, up to 3 lost or late | unbroken runs go out, intact frames do |
| `ipc` | lanes of 1, 3 lines, 2 unasked messages | control is neither lost nor starved; the process ends if handlers return |

Why the bounds are enough. Two connections or two workers give a predecessor and a
successor, which is what stale events, late chunks and leaks need. A channel of two
entries is empty, partly filled and full; the lanes of `Ipc` are read by one thread
each and a lane of one overflows. Two attempts reach the cap of the backoff shift.
Three transition ids are the special id 0, one, and another one; versions above 0
behave alike, so one stands for all. In `capture`, five packets cover the number
space of six past its half, so every class of `classify_rtp_sequence` occurs, with and
without a wrap; two SSRCs may belong to one user. In `mixer`, the cap is not a
multiple of what is pushed, tails shorter than a frame occur, and every counter
reaches its limit. In `depacket`, each codec has a frame that fits, one that does not
and one-packet frames. Counters that only grow are cut in guards by `MaxConns`,
`MaxWorkers`, `MaxOps`, `MaxAttempt`, `MaxReady`, `MaxIndex`, `MaxRemaps` (how often an
SSRC is mapped), `MaxChanges`, `MaxLines` and `MaxSends`; nothing else is cut.

`playback` has a VIEW that forgets the ghost `stopFor` while no fade-out is pending, when
nothing reads it. `CHECK_DEADLOCK FALSE` stands where the system really stops or a bound ends it: after
Destroy in `Connection` and `StreamPublish`, and where their main loop blocks for
ever; after the end of the process in `Ipc`; in `inbound_audio` where nothing is left
to receive.

Fairness. `Playback`, `AudioSend` and `Capture`: the tick keeps coming, because it is
an interval branch of the select and no handler of theirs blocks; that the handlers of
the other parts come back is assumed there. Nothing is assumed of the parent, the network
or the workers. `StreamPublish`: the tick comes if the loop
is back at its select again and again; workers make steps; a process that was
signalled ends unless it is suspended. `Dave`: the read task's sends are taken and
seconds pass; that packets keep coming is no fairness of the code, so
`OverdueDowngradeEnds` says it itself, as `ComesToRest` says that commands stop.
`Ipc`: the threads run, and a control message is taken if the loop comes back to its
select again and again with one there (strong fairness, because `select!` begins with a
branch at random). Nothing is assumed of the parent, not even that it reads, nor that a
handler returns: the join of `publish_hang` and the dial of `voice_conn.rs:839` may not.
So `EndsWithParentIfHandlersReturn` has it as its condition. What the property adds is
that nothing else keeps the process: a full lane, a blocked writer, or events that
compete with the end of input.

## What the code does and its documentation does not say

Two runs are violations, each a statement of a document or a comment that the code
does not keep:

1. `publish_hang`: the publish player is joined on the main loop while its process
   may be suspended, or its worker waits for the frame channel (`stream_publish.rs:936`).
2. `dave_epoch`: `reinit` after a downgrade finds version 0 and fails, so no epoch ever
   gets a key package again (`voice_conn.rs:1564`, `dave.rs:472`).

The rest is reachable in the models and has no run of its own.

Roles and transports:

- Events carry no connection identity, so a Ready or Disconnected of a torn-down
  transport acts on its successor (`capture_supervisor.rs:1044`), though `docs/architecture.md:34`
  speaks of events "from active transport connections". If a new session id tears voice
  down while its Ready is still queued, that Ready cancels the retry just armed
  (`capture_supervisor.rs:387`), and voice stays down until the next command.
- The dial ends with a send into the channel that only the loop drains, and the loop is
  in the dial (`voice_conn.rs:839`).
- Voice loss takes the publish transport down unreported. A publish transport replaced
  under an active source is not announced (`connection_supervisor.rs:467`,
  `stream_publish.rs:966`). `stream_publish` Idle events that survive a reset report
  "ready" with no transport.
- A failed dial may leave its manager in the slot for a session without DAVE.
- A stored transition takes the current version; at version 0 it undoes the upgrade
  that OP21 prepared under the same id. OP31 names the last executed transition.

Outbound audio and video:

- Idle before the announcement drops the queued track (`playback_supervisor.rs:250`,
  while `:302` waits for it).
- The periodic report only ever raises the speech flag (`playback_supervisor.rs:436`,
  cleared at `:419`), so it stays set with music buffered and no speech.
- Resume of a leftover tail (a late chunk behind StopPlayback, or Idle while paused)
  makes music active with no url; a second Resume clears `finishing`, and it then stays
  active with no source and drops speech. `ActiveHasSource` therefore speaks of tracks
  known by their url.
- Pause before the worker has spawned its process forgets the queued start silently;
  a fade-out stop never completes if the gain is raised again or nothing is mixed; the
  loss of the voice transport does not report music idle (`app_state.rs:343`), so the
  parent goes on believing that it plays; `ParentViewTrue` excepts that with the ghost
  `cutOff`.
- Play of the published source while paused stays queued and restarts after its end.
- The prebuffer gate, once open, stays open while music plays and through the trailing
  silence, and not only "until the buffer fully drains back to zero"
  (`audio_pipeline.rs:86`). The clears cut the trailing silence short. If the encoder
  refuses the frame that should start speech, the gate stays open at rest; `ArmedAtRest`
  excepts that with the ghost `refused`.

Inbound media:

- A packet of a user nobody subscribed to is not entered in `last_rtp_seq`
  (`capture_supervisor.rs:590`, before `:715`). The entry of the earlier
  subscription stands, so after half the number space every packet counts as old, and a
  resubscription soon after conceals packets that were received and not decoded. A
  repeated packet of such a user does prolong "speaking".
- A session change and the loss of the voice transport clear the speaking states with
  no SpeakingEnd (`app_state.rs:275`).
- The read task and the UDP task each change the transport's map under its lock and
  report afterwards. If one changes an SSRC before the other has reported (a departure
  or OP5 that races a remapping), the reports may come in the other order and the main
  loop keeps another owner than the transport, or none, until the SSRC is announced
  again. A packet at work meanwhile may be heard as the other user's.
- A late packet of the former owner moves the SSRC back to him, in both maps, and the
  next packet of the new one forward again. A frame in the clear goes to whichever
  candidate comes first.
- Events of the connection before a reconnect, and those its aborted tasks still send,
  are applied to the map of the new one.
- The tail of a fragmented H264 frame whose head was lost goes out as a frame of its own,
  if it holds a whole unit, though the log says "dropping partial frame"
  (`voice_conn.rs:285`); a late or repeated last packet may be emitted again.
- `decrypt_media` counts failures during transitions, and each packet more than once.

IPC: control overtakes audio in both directions, so StopTts is served before up to a
lane of older Audio, and UserAudioEnd reaches the parent before queued UserAudio. The
`select!` of the writer may take one medium after a control message came, never two
(`ControlFirst`). Video waits as long as control or audio keeps coming. A line that is
not UTF-8 ends the reader and with it the process. What is queued for the parent when
the process ends is lost.

## The proofs

Every safety invariant and every action property of the passing runs is a theorem
about its specification, for every value of the constants; so is the refinement of
`SpeechLine`. The eight proof modules follow one argument. `IInv` is the conjunction of
the checked invariants with what makes them inductive; `Init => IInv` and
`IInv /\ [Next]_vars => IInv'` are proved action by action, and the theorems follow
with PTL. Every strengthening was checked with TLC on the instance of its run before it
was proved.

`ConnectionProofs`. The invariants are `TypeOK`, `DeadlineMeansDown`, `LiveIsOwned`,
`SlotSessionCurrent` and `BackoffMatchesAttempt` (proved only, no run checks it). They
are not inductive alone: `FinishConnect` puts the dialled connection into its slot, so
the slot must be empty and the session unchanged since the dial began, and a new
connection must not collide with a live one. `ConnectingIsFresh` says that; it holds
because the loop handles nothing while it dials. Theorems: `TypeCorrect`,
`ReconnectSound`, `OwnershipSound`, `SessionSound`, for every set of sessions, capacity
and bound. The action properties are theorems too. `WatchSound` is a matter of each
action (`WatchStep`). `RetrySound` needs one more invariant, `VoiceHasCreds`: while
voice is connected or dialled its endpoint and session are known, since `schedule_reconnect` does
nothing without them. Discarding credentials therefore has to take the transport down
in the same handler, and it does.

`PlaybackProofs`. The five invariants are not inductive alone, because `start_pending`
can turn a queued track into an active one at any tick. `PendingIsReady` says that a
queued track has what an active one needs, an audible output and a worker that has
still to report; `PlayerRuns` that a worker told to stop is no longer the player and
identities are not used twice, so that a report in the channel can be told from one of
an earlier worker, and a fade-out asked of an earlier one from one of the player. Theorems: `TypeCorrect`, `AudibleSound`, `StopSound`, `SourceSound`,
`ParentViewSound`.

`StreamPublishProofs`. A handler that stops a player is two steps with the blocking
join between. `JoinIsQuiet` says what holds in between: nothing is announced, and
whoever joins in order to start again has an identity for the next worker. Theorems:
`TypeCorrect`, `PipelineSound`, `ChannelsSound`, `AnnouncementSound`.

`InboundAudioProofs`, first about `Capture`. `NumbersAgree` ties what the code keeps
modulo `SeqMod` to the ghosts that know the index: the last number is that of the
packet last fed, which is not ahead of the newest received. With it, `DistanceIsExact`
and its neighbours say that the signed 16-bit difference of `classify_rtp_sequence` is
the true one as long as it is below half the number space, and differs by the modulus
otherwise; the theorems follow for every width. A packet may be late by less than that
half (`NetworkAssumption`), or no receiver could tell old from new. Theorems:
`TypeCorrect`, `ReportsSound`, `DecoderSound`, `TimelineSound`, and `OrderSound` and
`FreshSound` for the two action properties.

Then about the composition. `TasksInv` says that the main loop's map, carried through
the events in the queue and the changes the tasks have still to report, becomes the
transport's map. For every SSRC there is a path of owners (`Path`), one for each event
in the queue, that begins with the main loop's owner, follows what each event does to it
(`After`), and at each clean packet passes through the owner of its voice. Where it ends,
some unreported change leads to the transport's owner, and none leads away from it
(`LeadsTo`), unless the SSRC is astray. That survives a new change exactly if it conflicts
with no unreported one (`ChangeLeads`) and the report of any of them (`ReportLeads`).
`UdpKnows` says that while a clean packet is at work the map has its user. Sending
prolongs the path by one step (`PathGrows`), handling an event removes its first
(`PathShrinks`), a reconnect begins it anew (`PathRestarts`). `MapsAgreeSound` is the
path of an empty queue, `AttributedSound` the first step of any. `TasksDriveCapture`
proves that the composed system implements `Capture`: each step of it is a step of
`Capture` or leaves its state alone; `ComposedSound` carries all of `Capture`'s theorems
over.

`DepacketizerProofs`. The partial frame is a `Run`: consecutive packets of one frame that
end with the last packet received, begin where a unit begins, and may be continued if
the last packet may. Sequence numbers tell the packets of a stream apart because there
are fewer of them than numbers (`SeqOfTellsApart`), so `OutOfOrder` recognises every gap.
A packet extends the run (`ExtendedIsRun`) or drops it; one that is ignored finds nothing
in the buffer (`IgnoredIsTail`), so it leaves no hole. `HasWhole` says that a frame
without a gap so far is in the buffer from its first packet on. Theorems: `TypeCorrect`,
`EmittedSound`, `KeySound`, `IntactSound`, for every set of well-formed streams.

`IpcProofs`. That every command is handled is a count in the model, so the invariant
is one: `Counted` says that, until a Destroy is taken in hand, the commands not yet
handled are at most the one in hand (`InHand`) and those in the control lane and in stdin
that nothing ahead of them stops (`Waiting`, by `Served`); from then on there are none. Moving a line
from stdin to a lane shifts the places of the others; that the number of them stays is
shown with injections. `NextIsControl` says that after one message went past a
waiting control message the writer's next look is at the control lane. Theorems:
`TypeCorrect`, `ControlSound`, `EndSound`, for lanes of every capacity.

`DaveProofs`. `SuppressionEnds`, `PendingIsConfirmed` and `ReadyIsReported` need
`LeftoverIsFresh`: a manager in the slot of no connection is one that a failed dial
left, and it has taken part in nothing, so the next connection may inherit it. The
lemmas `ExecuteFacts`, `StorePendingFacts`, `PrepareFacts` and `ReinitFacts` say what
the manager's methods do to the pending transitions; `SendKeeps` that handing over the
first send keeps the others owed. Theorems: `TypeCorrect` (again proved only),
`SuppressionSound`, `ConfirmationSound`, `ReadySound`, for every set of transitions and
versions.

`AudioSendProofs`. `IInv` is `TypeOK`, `ArmedAtRest` and `CountersBelow`: the
stall counter of a shut gate and the flush counter of a buffer in use stay below the
number of ticks at which the code resets them. The refinement, `MixerImplementsLine`, proves that every step of the mixer is
a step of `SpeechLine` or a stutter, with `patience` mapped to what
`HeldSoFar` leaves of it; `HeldSoFar` counts the ticks at the gate first and the ticks
of a partial frame after them, so each hold lowers the patience (`WaitIsHold`,
`PartialIsHold`, by `PatienceFalls`). Theorems: `TypeCorrect`, `RestIsArmed`, `MixerImplementsLine`, for
every set of samples, frame length, prebuffer, cap and tick count that
`AudioSendAssumption` allows.

Assumptions: the named ASSUMEs on constants only (`ConnectionAssumption`,
`DaveAssumption`, `ManagerAssumption`, `AudioSendAssumption`, `PlaybackAssumption`,
`StreamPublishAssumption`, `IpcAssumption`, `SequenceAssumption`, `NetworkAssumption`,
`TimerAssumption`, `UserAssumption`, `StreamAssumption`, `BoundAssumption`), which TLC
evaluates on the instances. Most say that sizes are positive and that "none" is not a
member. Two are about the surroundings: `NetworkAssumption` bounds how late a packet is, and
`StreamAssumption` says that senders keep to the payload formats; without it a middle
fragment with no first one would be dropped from the midst of a frame.

Only model-checked: every liveness property (`PendingResolves`, `TailDrains`, `ComesToRest`,
`EndIsNoticed`, `OverdueDowngradeEnds`, `StreamEnds`, `EndsWithParentIfHandlersReturn`), since liveness
under fairness is out of the prover's reach. The violations are counterexamples of TLC.
Some theorems state what no run checks: the type invariants of `Dave`, `Capture`,
`Depacketizer` and `Ipc`, `BackoffMatchesAttempt`, `TasksDriveCapture` and
`ComposedSound`.

## Abstractions

Credentials are one flag and a session id. `Playback` counts audio in frames and knows
speech as some or none; the counters it leaves out are in `AudioSend`, which in turn
leaves out the gain curve and the conversion of samples. The worker's SIGSTOP on pause,
first-PCM events and gain-reached messages are left out of `Playback`. `StreamPublish`
leaves out first-frame events, timestamps, encryption, a full WebSocket command channel
that loses an announcement, and Windows, where a process cannot be suspended; Idle and
Error are treated alike. `Dave` leaves out the media path and the decrypt-failure count,
which has no effect since recovery is suppressed (`dave.rs:457`), and opcodes 25 and 27,
which reach davey alone. What Opus and the ciphers return is a success or a failure.
`Depacketizer` leaves out an SSRC that changes its codec and the parameter-set cache,
which never touches the frame in progress. `Ipc` leaves out JSON, framing and base64.

Not modelled: packet formats and transport encryption, the merging of video state
payloads, sink wants and the video decoder (conversions, and calls of OpenH264 on a
thread that shares nothing), the heartbeat, IP discovery and what overflows during the
handshake, start-up, configuration and logging.

## Plan

1. Composition of `Connection` and `StreamPublish` (who announces what on which
   transport), and an abstract reconnect life cycle that `Connection` implements.
2. `VideoState`: subscriptions, wanted streams and the decoders' life.
3. Proofs about these two, and that `Connection` implements the abstract life cycle.
