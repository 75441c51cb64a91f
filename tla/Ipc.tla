-------------------------------- MODULE Ipc --------------------------------
(***************************************************************************)
(* The lanes between clankvox and its parent process (ipc.rs). Inbound: a  *)
(* reader thread takes the lines of stdin and sorts them into an unbounded *)
(* control lane and a bounded audio lane; the main loop serves control     *)
(* first. Outbound: every task sends without blocking into an unbounded    *)
(* control lane and bounded audio and video lanes; a writer thread writes  *)
(* one message at a time to stdout and blocks while the parent does not    *)
(* read it.                                                                *)
(*                                                                         *)
(* A message is its kind. What a command does is the matter of the other   *)
(* modules; here a query is a command that is answered with a control      *)
(* message, and a handler, of a message or of another event, may be at     *)
(* work for ever: the dial waits for the server, and Destroy, like every   *)
(* stop of a publish, joins a worker (StreamPublish). The process ends     *)
(* with its main loop, once Destroy has returned.                          *)
(***************************************************************************)
EXTENDS Integers, Sequences

CONSTANTS
  AudioCap,     \* capacity of the inbound audio lane (256)
  OutAudioCap,  \* capacity of the outbound audio lane (512)
  VideoCap,     \* capacity of the outbound video lane (64)
  MaxLines,     \* bound: lines the parent writes
  MaxSends      \* bound: messages sent to the parent unasked

ASSUME IpcAssumption ==
  /\ {AudioCap, OutAudioCap, VideoCap} \subseteq Nat \ {0}
  /\ MaxLines \in Nat /\ MaxSends \in Nat

\* An InMsg, a line that is too long or not one, or a line that read_line fails on
\* (it is not UTF-8). "audio" is the lossy kind.
Commands == {"command", "query"}
Lines == Commands \cup {"destroy", "audio", "bad", "garbled"}
Steps == {"control", "audio", "select", "writing", "ended"}

\* The handlers of the main loop: of a message, or of a voice or music event, the
\* reconnect timer or a tick.
AtWork == Commands \cup {"destroy", "audio", "other"}

VARIABLES
  parent,    \* what it does with stdout: "reads", "stalls" or "gone"
  stdin,     \* the lines written and not yet read
  closed,    \* the parent's end of stdin is closed
  lines,     \* bound: how many lines were written
  reading,   \* the reader thread runs
  unserved,  \* ghost: commands not handled yet that were written before the last line
  last,      \* ghost: a destroy or garbled line was written
  control,   \* the control lane to the main loop
  audio,     \* length of the audio lane to the main loop
  running,   \* the main loop runs
  handling,  \* the handler it is in, "answer" when all but the answer is done, or "nothing"
  writer,    \* where the writer thread is
  out,       \* lengths of the lanes to the writer
  sends,     \* bound: how many messages were sent unasked
  passed     \* ghost: audio and video written past a waiting control message

inbound  == <<stdin, closed, lines, reading, unserved, last, control, audio>>
outbound == <<writer, out, passed>>
loop     == <<running, handling>>
vars == <<parent, inbound, loop, outbound, sends>>

TypeOK ==
  /\ parent \in {"reads", "stalls", "gone"}
  /\ stdin \in Seq(Lines) /\ closed \in BOOLEAN /\ lines \in 0 .. MaxLines
  /\ reading \in BOOLEAN /\ running \in BOOLEAN /\ last \in BOOLEAN
  /\ handling \in AtWork \cup {"answer", "nothing"}
  /\ unserved \in 0 .. MaxLines
  /\ control \in Seq(Commands \cup {"destroy"})
  /\ audio \in 0 .. AudioCap
  /\ writer \in Steps
  /\ out \in [control : Nat, audio : 0 .. OutAudioCap, video : 0 .. VideoCap]
  /\ sends \in 0 .. MaxSends
  /\ passed \in Nat

Init ==
  /\ parent = "reads"
  /\ stdin = <<>> /\ closed = FALSE /\ lines = 0
  /\ reading = TRUE /\ unserved = 0 /\ last = FALSE /\ control = <<>> /\ audio = 0
  /\ running = TRUE /\ handling = "nothing"
  /\ writer = "control" /\ out = [control |-> 0, audio |-> 0, video |-> 0]
  /\ sends = 0 /\ passed = 0

-----------------------------------------------------------------------------
(* send_msg: no send blocks, whatever the parent does.                       *)

\* The control lane takes everything, the other two drop what does not fit. A
\* writer that has ended takes nothing.
With(lane) ==
  IF writer = "ended" THEN out
  ELSE CASE lane = "control" -> [out EXCEPT !.control = @ + 1]
         [] lane = "audio"   -> [out EXCEPT !.audio = IF @ < OutAudioCap THEN @ + 1 ELSE @]
         [] lane = "video"   -> [out EXCEPT !.video = IF @ < VideoCap THEN @ + 1 ELSE @]

\* Mutant of CanSend: a control message waits for the writer.
CanSendBlocking(lane) == lane = "control" => writer # "writing"

\* When a send returns: at once, on every lane.
CanSend(lane) == TRUE

SendMsg(lane) == CanSend(lane) /\ out' = With(lane)

\* A task, or the main loop on its own account, sends a message.
TaskSends(lane) ==
  /\ running /\ sends < MaxSends /\ sends' = sends + 1
  /\ SendMsg(lane)
  /\ UNCHANGED <<parent, inbound, loop, writer, passed>>

-----------------------------------------------------------------------------
(* The parent.                                                               *)

ParentWrites(line) ==
  /\ ~closed /\ lines < MaxLines
  /\ stdin' = Append(stdin, line) /\ lines' = lines + 1
  /\ last' = (last \/ line \in {"destroy", "garbled"})
  /\ unserved' = IF line \in Commands /\ ~last THEN unserved + 1 ELSE unserved
  /\ UNCHANGED <<parent, closed, reading, control, audio, loop, outbound, sends>>

\* It stops reading stdout, reads it again, or exits.
ParentTurns(to) ==
  /\ parent # "gone" /\ parent # to
  /\ parent' = to /\ closed' = (closed \/ to = "gone")
  /\ UNCHANGED <<stdin, lines, reading, unserved, last, control, audio, loop, outbound, sends>>

ParentCloses ==
  /\ ~closed /\ closed' = TRUE
  /\ UNCHANGED <<parent, stdin, lines, reading, unserved, last, control, audio, loop, outbound, sends>>

-----------------------------------------------------------------------------
(* The reader thread.                                                        *)

\* Mutant of Sorted: the control lane is bounded like the audio lane.
SortedBounded(line) ==
  IF line \in Commands \cup {"destroy"} /\ Len(control) < AudioCap
  THEN Append(control, line) ELSE control

\* The control lane after a line.
Sorted(line) == IF line \in Commands \cup {"destroy"} THEN Append(control, line) ELSE control

\* A line is read. Audio that does not fit is dropped; a bad line is answered
\* with an error.
ReadLine ==
  /\ running /\ reading /\ stdin # <<>> /\ Head(stdin) # "garbled"
  /\ stdin' = Tail(stdin)
  /\ control' = Sorted(Head(stdin))
  /\ audio' = IF Head(stdin) = "audio" /\ audio < AudioCap THEN audio + 1 ELSE audio
  /\ out' = IF Head(stdin) = "bad" THEN With("control") ELSE out
  /\ UNCHANGED <<parent, closed, lines, reading, unserved, last, loop, writer, passed, sends>>

\* The control lane after the reader ended.
AtEof == Append(control, "destroy")

\* End of file, or an error: what follows in stdin is not read.
ReaderEnds ==
  /\ running /\ reading
  /\ IF stdin = <<>> THEN closed ELSE Head(stdin) = "garbled"
  /\ reading' = FALSE /\ control' = AtEof
  /\ UNCHANGED <<parent, stdin, closed, lines, unserved, last, audio, loop, outbound, sends>>

-----------------------------------------------------------------------------
(* The main loop: recv serves control before audio, and competes in select! *)
(* with the events of the other parts. One handler runs at a time.           *)

Handles(what) == running /\ handling = "nothing" /\ handling' = what

TakeControl ==
  /\ control # <<>> /\ control' = Tail(control)
  /\ Handles(Head(control))
  /\ UNCHANGED <<parent, stdin, closed, lines, reading, unserved, last, audio, running, outbound, sends>>

TakeAudio ==
  /\ control = <<>> /\ audio > 0 /\ audio' = audio - 1
  /\ Handles("audio")
  /\ UNCHANGED <<parent, stdin, closed, lines, reading, unserved, last, control, running, outbound, sends>>

OtherEvent ==
  /\ Handles("other")
  /\ UNCHANGED <<parent, inbound, running, outbound, sends>>

\* The handler is done but for its answer; after Destroy the loop is left.
HandlerReturns ==
  /\ running /\ handling \in AtWork
  /\ handling' = IF handling = "query" THEN "answer" ELSE "nothing"
  /\ running' = (handling # "destroy")
  /\ unserved' = IF handling = "command" /\ unserved > 0 THEN unserved - 1 ELSE unserved
  /\ UNCHANGED <<parent, stdin, closed, lines, reading, last, control, audio, outbound, sends>>

Answers ==
  /\ handling = "answer" /\ handling' = "nothing"
  /\ SendMsg("control")
  /\ unserved' = IF unserved > 0 THEN unserved - 1 ELSE unserved
  /\ UNCHANGED <<parent, stdin, closed, lines, reading, last, control, audio, running, writer, passed, sends>>

-----------------------------------------------------------------------------
(* The writer thread.                                                        *)

\* It takes the first message of a lane and writes it.
Takes(lane) ==
  /\ out[lane] > 0
  /\ out' = [out EXCEPT ![lane] = @ - 1]
  /\ writer' = "writing"
  /\ passed' = IF lane = "control" \/ out.control = 0 THEN 0 ELSE passed + 1

\* try_recv on one lane; the next is looked at when this one is empty.
Tries(lane, next) ==
  /\ writer = lane
  /\ \/ Takes(lane)
     \/ out[lane] = 0 /\ writer' = next /\ UNCHANGED <<out, passed>>

\* select! takes from any lane that is not empty by then.
Selects == writer = "select" /\ \E lane \in {"control", "audio", "video"} : Takes(lane)

\* Mutant of AfterWrite: the next message is taken from any lane.
AfterWriteSelect == "select"

\* Where the loop goes on after a write.
AfterWrite == "control"

WriterTakes ==
  /\ running
  /\ Tries("control", "audio") \/ Tries("audio", "select") \/ Selects
  /\ UNCHANGED <<parent, inbound, loop, sends>>

\* write_all and flush: they return when the parent reads, and fail when it is gone.
Writes ==
  /\ running /\ writer = "writing" /\ parent # "stalls"
  /\ writer' = IF parent = "gone" THEN "ended" ELSE AfterWrite
  /\ out' = IF parent = "gone" THEN [l \in DOMAIN out |-> 0] ELSE out
  /\ UNCHANGED <<parent, inbound, loop, sends, passed>>

-----------------------------------------------------------------------------

Next ==
  \/ \E lane \in {"control", "audio", "video"} : TaskSends(lane)
  \/ \E line \in Lines : ParentWrites(line)
  \/ \E to \in {"reads", "stalls", "gone"} : ParentTurns(to)
  \/ ParentCloses
  \/ ReadLine \/ ReaderEnds
  \/ TakeControl \/ TakeAudio \/ OtherEvent
  \/ HandlerReturns \/ Answers
  \/ WriterTakes \/ Writes

Spec == Init /\ [][Next]_vars

\* The threads are scheduled, and select! begins with a branch at random, so that a
\* message is taken if the loop comes back for it again and again. A handler sends its
\* answer when it can; that it gets there is not assumed, nor is anything of the parent.
FairSpec ==
  /\ Spec
  /\ WF_vars(ReadLine) /\ WF_vars(ReaderEnds)
  /\ SF_vars(TakeControl) /\ WF_vars(Answers)
  /\ WF_vars(WriterTakes) /\ WF_vars(Writes)

-----------------------------------------------------------------------------
(* Properties. *)

\* A control message for the parent waits for the write that is going on and for
\* at most one more audio or video message: the one the writer was about to take
\* when it found the control lane empty.
ControlFirst == passed <= 1

\* The process ends only when every command written before a destroy line, a line
\* that cannot be read or the end of file was handled: bursts of audio displace none of
\* them, and the Destroy that stands for the end of file comes last.
EndServesAll == ~running => unserved = 0

\* A parent that closes stdin or exits ends the process, however full the lanes are
\* and although nobody reads stdout any more, if no handler is at work for ever:
\* sending, at least, makes none wait for a writer that is blocked.  That handlers
\* return is not a fact of the code: see StreamPublish for one that does not.
EndsWithParentIfHandlersReturn ==
  []<>(handling \notin AtWork) => (closed ~> ~running)
=============================================================================
