----------------------------- MODULE Connection -----------------------------
(***************************************************************************)
(* The transport supervisor of clankvox: the three connection slots of     *)
(* AppState (voice, stream_watch, stream_publish), the reconnect timer of  *)
(* the voice role, the bounded VoiceEvent channel that the background      *)
(* tasks of every connection write and only the main loop reads, and the   *)
(* IPC commands that open, replace and close connections.                  *)
(*                                                                         *)
(* The main loop is one tokio task.  A handler runs to completion before   *)
(* the loop returns to its select!, but it may await: the last thing       *)
(* VoiceConnection::connect does is to send Ready on the event channel,    *)
(* after it spawned the tasks of the connection.  `connecting` is that     *)
(* await, so the tasks interleave with it.                                 *)
(*                                                                         *)
(* Connections carry an identity here, a ghost: VoiceEvent has only the    *)
(* role, and the handlers below read nothing else of an event.             *)
(***************************************************************************)
EXTENDS Integers, Sequences

CONSTANTS
  Sessions,         \* Discord voice session ids
  NoSession,        \* Option::None for a session id
  MaxConns,         \* bound: connections opened in one behaviour
  QueueCap,         \* capacity of the VoiceEvent channel (256 in main.rs)
  MaxBackoffShift,  \* last doubling of the backoff (4 in schedule_reconnect)
  MaxAttempt        \* where reconnect_attempt saturates (u32::MAX in the code)

ASSUME ConnectionAssumption ==
  /\ NoSession \notin Sessions
  /\ MaxConns \in Nat
  /\ QueueCap \in Nat \ {0}
  /\ MaxBackoffShift \in Nat
  /\ MaxAttempt \in Nat \ {0}

StreamRoles == {"watch", "publish"}
Roles == {"voice"} \cup StreamRoles
Conns == 1 .. MaxConns
NoConn == 0
NoDeadline == -1

States == [role : Roles,
           status : {"connecting", "ready", "reconnecting", "disconnected", "failed"}]
Events == [kind : {"ready", "disconnected", "media"}, conn : Conns]

VARIABLES
  slot,        \* voice_conn, stream_watch_conn, stream_publish_conn
  connecting,  \* the connection whose connect() awaits its Ready send
  via,         \* who awaits it: an IPC command (also when nobody does) or the timer
  joined,      \* guild_id and channel_id are set
  server,      \* pending_conn.endpoint and pending_conn.token are both set
  user,        \* pending_conn.user_id is set
  session,     \* session_id of the three pending connections
  deadline,    \* reconnect_deadline, as the backoff shift it was armed with
  attempt,     \* reconnect_attempt
  queue,       \* the VoiceEvent channel
  live,        \* connections whose background tasks were not aborted
  claimed,     \* disconnect_sent flag of each connection
  opened,      \* ghost: role and session each connection was opened with
  nextConn,    \* ghost: the next connection's identity
  out,         \* the TransportState messages the last step sent to the parent
  exited       \* the loop was left

slots == <<slot, live, connecting, via, opened, nextConn>>
creds == <<joined, server, user, session>>
retry == <<deadline, attempt>>
vars == <<slots, creds, retry, queue, claimed, out, exited>>

TypeOK ==
  /\ slot \in [Roles -> Conns \cup {NoConn}]
  /\ connecting \in Conns \cup {NoConn}
  /\ via \in {"command", "timer"}
  /\ joined \in BOOLEAN
  /\ server \in BOOLEAN
  /\ user \in BOOLEAN
  /\ session \in [Roles -> Sessions \cup {NoSession}]
  /\ deadline \in 0 .. MaxBackoffShift \cup {NoDeadline}
  /\ attempt \in 0 .. MaxAttempt
  /\ queue \in Seq(Events)
  /\ Len(queue) <= QueueCap
  /\ live \in SUBSET Conns
  /\ claimed \in [Conns -> {"no", "claimed", "sent"}]
  /\ opened \in [Conns -> [role : Roles, session : Sessions \cup {NoSession}]]
  /\ nextConn \in 1 .. MaxConns + 1
  /\ out \in SUBSET States
  /\ exited \in BOOLEAN

Init ==
  /\ slot = [r \in Roles |-> NoConn]
  /\ connecting = NoConn
  /\ via = "command"
  /\ joined = FALSE
  /\ server = FALSE
  /\ user = FALSE
  /\ session = [r \in Roles |-> NoSession]
  /\ deadline = NoDeadline
  /\ attempt = 0
  /\ queue = <<>>
  /\ live = {}
  /\ claimed = [c \in Conns |-> "no"]
  /\ opened = [c \in Conns |-> [role |-> "voice", session |-> NoSession]]
  /\ nextConn = 1
  /\ out = {}
  /\ exited = FALSE

-----------------------------------------------------------------------------
(* Helpers of the handlers.  Each gives the new value of the variables it    *)
(* names; a handler composes them in the order the code calls them.          *)

\* The main loop waits in select!: it runs a handler only from here.
AtSelect == ~exited /\ connecting = NoConn

\* A message of emit_transport_state, and a step that sends none.
Say(role, status) == [role |-> role, status |-> status]
Silent == out' = {}

HasRoom == Len(queue) < QueueCap

\* The slots and the live connections once the roles of `torn` are cleared.
Without(torn) == [r \in Roles |-> IF r \in torn THEN NoConn ELSE slot[r]]
Surviving(torn) == live \ {slot[r] : r \in torn}

\* What try_connect needs before it dials.
HasCredentials(srv, usr, sess) ==
  /\ joined
  /\ srv
  /\ usr
  /\ sess # NoSession

\* VoiceConnection::connect succeeded up to its last await: the tasks run,
\* the slot is still empty.
Opens(role, sess, how, kept) ==
  /\ nextConn <= MaxConns
  /\ connecting' = nextConn
  /\ via' = how
  /\ opened' = [opened EXCEPT ![nextConn] = [role |-> role, session |-> sess]]
  /\ nextConn' = nextConn + 1
  /\ live' = kept \cup {nextConn}

\* No connection is opened: not tried, or connect() failed before the spawns.
OpensNone(kept) ==
  /\ live' = kept
  /\ UNCHANGED <<connecting, via, opened, nextConn>>

BackoffShift(n) == IF n - 1 < MaxBackoffShift THEN n - 1 ELSE MaxBackoffShift

ResetReconnect == deadline' = NoDeadline /\ attempt' = 0

\* schedule_reconnect: `said` are the messages the handler sent before, `armed`
\* the deadline at the call.
ScheduleReconnect(said, armed) ==
  IF joined
    THEN /\ attempt' = IF attempt < MaxAttempt THEN attempt + 1 ELSE MaxAttempt
         /\ deadline' = BackoffShift(attempt')
         /\ out' = said \cup {Say("voice", "reconnecting")}
    ELSE /\ deadline' = armed
         /\ out' = said
         /\ UNCHANGED attempt

\* maybe_try_connect, try_connect and apply_connect_outcome: `up` says whether
\* the voice slot is still occupied, `ready` whether the credentials are there,
\* `sess` is the pending session.  The outcome Connected resets the reconnect
\* state when connect() returns, in FinishConnect.
MaybeTryConnect(up, ready, sess, said, kept) ==
  IF deadline # NoDeadline \/ up \/ ~ready
    THEN OpensNone(kept) /\ out' = said /\ UNCHANGED retry
    ELSE \/ Opens("voice", sess, "command", kept) /\ out' = said /\ UNCHANGED retry
         \/ OpensNone(kept) /\ ScheduleReconnect(said, NoDeadline)

-----------------------------------------------------------------------------
(* IPC commands.  The parent may send any of them at any time.               *)

Join ==
  /\ AtSelect
  /\ joined' = TRUE
  /\ ResetReconnect
  /\ UNCHANGED <<slots, server, user, session, queue, claimed, exited>>
  /\ Silent

\* Either field may be missing from the message and is then kept; `completes`
\* says that both are known after it.
VoiceServer(completes) ==
  /\ AtSelect
  /\ server' = (server \/ completes)
  /\ UNCHANGED <<joined, user, session, slot, queue, claimed, exited>>
  /\ MaybeTryConnect(slot["voice"] # NoConn,
                     HasCredentials(server \/ completes, user, session["voice"]),
                     session["voice"], {}, live)

\* Mutant of SessionChanged: the stream roles are not compared.
SessionChangedVoiceOnly(sess) ==
  {r \in {"voice"} : slot[r] # NoConn /\ sess # NoSession /\ session[r] # sess}

\* The roles whose connection was opened under another session id.
SessionChanged(sess) ==
  {r \in Roles : slot[r] # NoConn /\ sess # NoSession /\ session[r] # sess}

\* A session id or a numeric user id may be missing from the message.  A changed
\* session closes every connection opened under the old one, and only the stream
\* roles report it.
VoiceState(sess, hasUser) ==
  LET torn == SessionChanged(sess)
      said == {Say(r, "disconnected") : r \in torn \cap StreamRoles}
      now  == IF sess = NoSession THEN session["voice"] ELSE sess
  IN  /\ AtSelect
      /\ session' = IF sess = NoSession THEN session ELSE [r \in Roles |-> sess]
      /\ user' = (user \/ hasUser)
      /\ slot' = Without(torn)
      /\ UNCHANGED <<joined, server, queue, claimed, exited>>
      /\ MaybeTryConnect(Without(torn)["voice"] # NoConn,
                         HasCredentials(server, user \/ hasUser, now),
                         now, said, Surviving(torn))

\* Mutant of Replaced: the running connection is dropped from its slot only.
ReplacedNotAborted(role) == live

\* What survives when a stream connect command clears its role first.
Replaced(role) == Surviving({role})

\* StreamWatchConnect and StreamPublishConnect carry every credential, so the
\* attempt always runs; a failure is reported and never retried.
StreamConnect(role, sess) ==
  /\ AtSelect
  /\ slot' = Without({role})
  /\ session' = [session EXCEPT ![role] = sess]
  /\ UNCHANGED <<joined, server, user, retry, queue, claimed, exited>>
  /\ \/ /\ Opens(role, sess, "command", Replaced(role))
        /\ out' = {Say(role, "connecting")}
     \/ /\ OpensNone(Replaced(role))
        /\ out' = {Say(role, "connecting"), Say(role, "failed")}

StreamDisconnect(role) ==
  /\ AtSelect
  /\ slot' = Without({role})
  /\ OpensNone(Surviving({role}))
  /\ out' = {Say(role, "disconnected")}
  /\ UNCHANGED <<creds, retry, queue, claimed, exited>>

\* Destroy clears voice and publish and leaves the loop; dropping AppState then
\* shuts the watch connection down.  A closed stdin arrives as Destroy.
Destroy ==
  /\ AtSelect
  /\ exited' = TRUE
  /\ slot' = Without(Roles)
  /\ OpensNone({})
  /\ Silent
  /\ UNCHANGED <<creds, retry, queue, claimed>>

-----------------------------------------------------------------------------
(* The end of an await, the timer and the events.                            *)

\* Mutant of ReadyFits: the channel is taken for an unbounded one.
ReadyAlwaysFits == TRUE

\* A bounded send completes only when the channel has room.
ReadyFits == HasRoom

\* connect() returns: Ready is queued, the slot is filled, and the caller treats
\* the outcome Connected.  The timer resets only the counter, since it cleared
\* the deadline before it dialled.
FinishConnect ==
  /\ ~exited /\ connecting # NoConn
  /\ ReadyFits
  /\ LET role == opened[connecting].role IN
       /\ queue' = Append(queue, [kind |-> "ready", conn |-> connecting])
       /\ slot' = [slot EXCEPT ![role] = connecting]
       /\ deadline' = IF role = "voice" /\ via = "command" THEN NoDeadline ELSE deadline
       /\ attempt' = IF role = "voice" THEN 0 ELSE attempt
  /\ connecting' = NoConn
  /\ via' = "command"
  /\ UNCHANGED <<creds, live, opened, nextConn, claimed, exited>>
  /\ Silent

ReconnectTimer ==
  /\ AtSelect /\ deadline # NoDeadline
  /\ UNCHANGED <<slot, creds, queue, claimed, exited>>
  /\ IF slot["voice"] # NoConn
       THEN ResetReconnect /\ OpensNone(live) /\ Silent
       ELSE \/ /\ HasCredentials(server, user, session["voice"])
               /\ Opens("voice", session["voice"], "timer", live)
               /\ deadline' = NoDeadline
               /\ UNCHANGED attempt
               /\ Silent
            \/ OpensNone(live) /\ ScheduleReconnect({}, NoDeadline)

Received(kind) == /\ AtSelect /\ queue # <<>>
                  /\ Head(queue).kind = kind
                  /\ queue' = Tail(queue)

RoleOf(e) == opened[e.conn].role

\* Ready, for whatever connection it was sent: the handler reads the role only.
HandleReady ==
  /\ Received("ready")
  /\ out' = {Say(RoleOf(Head(queue)), "ready")}
  /\ IF RoleOf(Head(queue)) = "voice" THEN ResetReconnect ELSE UNCHANGED retry
  /\ UNCHANGED <<slots, creds, claimed, exited>>

\* Mutant of VoiceLossClears: the voice slot stays occupied.
VoiceLossKeepsVoice == {"publish"}

\* The slots handle_disconnected clears: the publish transport goes down with
\* voice, the watch transport stays.
VoiceLossClears == {"voice", "publish"}

\* Mutant of HandleVoiceLost: no reconnect is scheduled.
HandleVoiceLostForGood ==
  /\ Received("disconnected") /\ RoleOf(Head(queue)) = "voice"
  /\ slot' = Without(VoiceLossClears)
  /\ OpensNone(Surviving(VoiceLossClears))
  /\ out' = {Say("voice", "disconnected")}
  /\ UNCHANGED <<creds, retry, claimed, exited>>

\* handle_disconnected.
HandleVoiceLost ==
  /\ Received("disconnected") /\ RoleOf(Head(queue)) = "voice"
  /\ slot' = Without(VoiceLossClears)
  /\ OpensNone(Surviving(VoiceLossClears))
  /\ ScheduleReconnect({Say("voice", "disconnected")}, deadline)
  /\ UNCHANGED <<creds, claimed, exited>>

\* Mutant of LossReport: a lost stream transport is closed without a word.
LossUnreported(role) == {}

LossReport(role) == {Say(role, "disconnected")}

HandleStreamLost ==
  /\ Received("disconnected") /\ RoleOf(Head(queue)) \in StreamRoles
  /\ LET role == RoleOf(Head(queue)) IN
       /\ slot' = Without({role})
       /\ OpensNone(Surviving({role}))
       /\ out' = LossReport(role)
  /\ UNCHANGED <<creds, retry, claimed, exited>>

\* Every other event: it changes media state, no connection state.
HandleMedia ==
  /\ Received("media")
  /\ UNCHANGED <<slots, creds, retry, claimed, exited>>
  /\ Silent

-----------------------------------------------------------------------------
(* The background tasks of a connection (ws_read_loop, ws_write_loop,        *)
(* udp_recv_loop).  A task that finds the channel full waits in its send.    *)

Emit(c, kind) == HasRoom /\ queue' = Append(queue, [kind |-> kind, conn |-> c])

SendMedia(c) ==
  /\ c \in live
  /\ Emit(c, "media")
  /\ UNCHANGED <<slots, creds, retry, claimed, exited>>
  /\ Silent

\* The first task that fails wins the compare_exchange of send_disconnect_once;
\* the other tasks keep running.
TaskFails(c) ==
  /\ c \in live /\ claimed[c] = "no"
  /\ claimed' = [claimed EXCEPT ![c] = "claimed"]
  /\ UNCHANGED <<slots, creds, retry, queue, exited>>
  /\ Silent

SendDisconnected(c) ==
  /\ c \in live /\ claimed[c] = "claimed"
  /\ Emit(c, "disconnected")
  /\ claimed' = [claimed EXCEPT ![c] = "sent"]
  /\ UNCHANGED <<slots, creds, retry, exited>>
  /\ Silent

\* abort() stops a task at its next suspension: a poll that was running on
\* another worker thread still finishes, and may send without suspending.
LateDisconnected(c) ==
  /\ ~exited /\ c < nextConn /\ c \notin live /\ claimed[c] = "no"
  /\ Emit(c, "disconnected")
  /\ claimed' = [claimed EXCEPT ![c] = "sent"]
  /\ UNCHANGED <<slots, creds, retry, exited>>
  /\ Silent

-----------------------------------------------------------------------------
Command ==
  \/ Join
  \/ \E completes \in BOOLEAN : VoiceServer(completes)
  \/ \E sess \in Sessions \cup {NoSession}, u \in BOOLEAN : VoiceState(sess, u)
  \/ \E role \in StreamRoles, sess \in Sessions : StreamConnect(role, sess)
  \/ \E role \in StreamRoles : StreamDisconnect(role)
  \/ Destroy

HandleEvent == HandleReady \/ HandleVoiceLost \/ HandleStreamLost \/ HandleMedia

Tasks == \E c \in Conns : SendMedia(c) \/ TaskFails(c) \/ SendDisconnected(c) \/ LateDisconnected(c)

Next == Command \/ FinishConnect \/ ReconnectTimer \/ HandleEvent \/ Tasks

Spec == Init /\ [][Next]_vars

-----------------------------------------------------------------------------
(* Properties.                                                               *)

\* A reconnect is pending only while the voice role is down and nobody dials
\* it: the timer can never find a connection to replace (try_connect guards
\* against AlreadyConnected, handle_reconnect_timer would reset the backoff).
DeadlineMeansDown ==
  deadline # NoDeadline =>
    /\ slot["voice"] = NoConn
    /\ connecting # NoConn => opened[connecting].role # "voice"

\* No transport leaks and none is dead in its slot: the connections whose tasks
\* run are those in the slots and the one being opened, each under its role.
LiveIsOwned ==
  /\ live = ({slot[r] : r \in Roles} \cup {connecting}) \ {NoConn}
  /\ \A r \in Roles : slot[r] # NoConn => opened[slot[r]].role = r

\* A connection in a slot authenticated with the session id that role holds
\* now: the comparison in VoiceState uses the pending session, not the
\* connection's own, and it is enough.
SlotSessionCurrent ==
  \A r \in Roles : slot[r] # NoConn => opened[slot[r]].session = session[r]

\* The pending backoff is the one of the attempts counted: no path resets one
\* of the two and not the other.
BackoffMatchesAttempt ==
  deadline # NoDeadline => attempt > 0 /\ deadline = BackoffShift(attempt)

\* A watch transport never goes away unreported: the step that empties its slot
\* tells the parent (the publish transport has no such guarantee, see
\* HandleVoiceLost).
WatchLossReported ==
  [][slot["watch"] # NoConn /\ slot'["watch"] = NoConn /\ ~exited'
       => \E status \in {"connecting", "disconnected"} : Say("watch", status) \in out']_vars

\* Losing the voice transport, whatever the cause, leaves in the same handler
\* either a dial in progress or a reconnect deadline.
VoiceLossIsRetried ==
  [][slot["voice"] # NoConn /\ slot'["voice"] = NoConn /\ ~exited'
       => \/ deadline' # NoDeadline
          \/ connecting' # NoConn /\ opened'[connecting'].role = "voice"]_vars

=============================================================================
