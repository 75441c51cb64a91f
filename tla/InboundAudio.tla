---------------------------- MODULE InboundAudio ----------------------------
(***************************************************************************)
(* The two tasks of the voice transport that feed Capture: the WebSocket   *)
(* read task, which learns SSRC mappings from OP5 and drops them on OP12   *)
(* or OP13, and the UDP task, which moves an SSRC to the user whose DAVE   *)
(* key opens its packets (voice_conn.rs). Each changes the transport's     *)
(* SSRC map under its lock and reports the change to the main loop after   *)
(* the lock is released, on one bounded event queue.                       *)
(***************************************************************************)
EXTENDS Capture, Sequences

CONSTANTS
  QueueCap,     \* capacity of the voice event channel; 256 in the code
  MaxChanges    \* bound: how often users start to send or leave

VARIABLES
  senders,      \* the users who have sent on each SSRC
  gateway,      \* messages on the WebSocket, not yet read
  changes,      \* how many there have been
  tmap,         \* the transport's ssrc_map
  reader,       \* the event the read task has still to send, or Idle
  udp,          \* the packet the UDP task is at work on
  late,         \* what the aborted tasks of the former transport may still send
  seen,         \* the highest index received on each SSRC
  events,       \* the event queue to the main loop
  astray        \* ghost: the SSRCs of which the two maps may differ for good

taskVars == <<senders, gateway, changes, tmap, reader, udp, late, seen, astray>>
allVars == <<vars, taskVars, events>>

Idle == [kind |-> "none"]

Speaking(s, u) == [kind |-> "ssrc", ssrc |-> s, user |-> u]
Gone(u)        == [kind |-> "gone", user |-> u]
NoPacket       == [pc |-> "idle"]

\* OpusReceived carries the SSRC and the packet.  Ghosts: whose voice it is, by the
\* key that opened the frame or, of a frame in the clear, as the UDP task took it;
\* clean, if no mapping of the SSRC was in doubt while the packet was at work; old,
\* if its transport was replaced while it was queued.
Opus(p) == [kind |-> "opus", ssrc |-> p.ssrc, index |-> p.index,
            voice |-> IF p.sealed THEN p.from ELSE p.user, clean |-> p.clean, old |-> FALSE]

InitAll ==
  /\ Init
  /\ senders = [s \in Ssrcs |-> {}]
  /\ gateway = <<>> /\ changes = 0
  /\ tmap = [s \in Ssrcs |-> NoUser]
  /\ reader = Idle /\ udp = NoPacket /\ late = {}
  /\ seen = [s \in Ssrcs |-> None]
  /\ events = <<>>
  /\ astray = {}

-----------------------------------------------------------------------------
(* Discord: users start to send on an SSRC, and leave.  What they sent may *)
(* still be on its way when another user has taken the SSRC over.          *)

Change(msg) ==
  /\ changes < MaxChanges /\ changes' = changes + 1
  /\ gateway' = Append(gateway, msg)
  /\ UNCHANGED <<vars, tmap, reader, udp, late, seen, events, astray>>

StartsToSend(s, u) ==
  /\ senders' = [senders EXCEPT ![s] = @ \cup {u}]
  /\ Change(Speaking(s, u))

Leaves(u) ==
  /\ UNCHANGED senders
  /\ Change(Gone(u))

-----------------------------------------------------------------------------
(* What a change of the map does, and when two of them conflict.           *)

\* The owner of an SSRC after a change, from its owner before: the transport's map
\* and the main loop's change in the same way.
After(s, owner, msg) ==
  IF msg.kind = "ssrc" /\ msg.ssrc = s THEN msg.user
  ELSE IF msg.kind = "gone" /\ msg.user = owner THEN NoUser ELSE owner

\* The SSRCs a change may be about: a departure, any.
Concerns(msg) == IF msg.kind = "ssrc" THEN {msg.ssrc} ELSE Ssrcs

\* The changes that are made in the map but not yet reported: by the two tasks of
\* the transport, and by those of the former one.
Own == (IF reader = Idle THEN {} ELSE {reader})
         \cup (IF udp.pc = "update" THEN {Speaking(udp.ssrc, udp.user)} ELSE {})
Unreported == Own \cup {msg \in {Head(q) : q \in late} : msg.kind # "opus"}

\* The order of the two matters for who owns the SSRC in the end.
Conflict(s, m, n) ==
  \E owner \in Users \cup {NoUser} : After(s, After(s, owner, m), n) # After(s, After(s, owner, n), m)

\* Two changes that conflict and are unreported at the same time may be reported in
\* the other order; the next announcement of the SSRC that meets none sets it right.
AstrayAfter(msg) ==
  (astray \ (IF msg.kind = "ssrc" THEN {msg.ssrc} ELSE {}))
    \cup {s \in Ssrcs : \E m \in Unreported : Conflict(s, msg, m)}

-----------------------------------------------------------------------------
(* The read task.                                                          *)

\* A packet at work on an SSRC that changes hands now is no longer clean.
InDoubt(msg) ==
  IF udp.pc # "idle" /\ udp.ssrc \in Concerns(msg) THEN [udp EXCEPT !.clean = FALSE] ELSE udp

\* Mutant of ReadTask: a departure is reported but stays in the map.
ReadTaskKeepsGone ==
  /\ reader = Idle /\ gateway # <<>>
  /\ LET msg == Head(gateway) IN
     /\ tmap' = IF msg.kind = "ssrc" THEN [tmap EXCEPT ![msg.ssrc] = msg.user] ELSE tmap
     /\ reader' = msg
     /\ udp' = InDoubt(msg)
     /\ astray' = AstrayAfter(msg)
  /\ gateway' = Tail(gateway)
  /\ UNCHANGED <<vars, senders, changes, late, seen, events>>

ReadTask ==
  /\ reader = Idle /\ gateway # <<>>
  /\ LET msg == Head(gateway) IN
     /\ tmap' = [s \in Ssrcs |-> After(s, tmap[s], msg)]
     /\ reader' = msg
     /\ udp' = InDoubt(msg)
     /\ astray' = AstrayAfter(msg)
  /\ gateway' = Tail(gateway)
  /\ UNCHANGED <<vars, senders, changes, late, seen, events>>

Send(event) ==
  /\ Len(events) < QueueCap
  /\ events' = Append(events, event)

ReaderSends ==
  /\ reader # Idle /\ Send(reader)
  /\ reader' = Idle
  /\ UNCHANGED <<vars, senders, gateway, changes, tmap, udp, late, seen, astray>>

-----------------------------------------------------------------------------
(* The UDP task.                                                           *)

\* A packet of any user who ever sent on the SSRC arrives; the map is read, and its
\* lock released.
UdpReceive(s, n) ==
  /\ udp.pc = "idle"
  /\ n \in seen[s] - Window .. seen[s] + Jump
  /\ seen' = [seen EXCEPT ![s] = IF n > @ THEN n ELSE @]
  /\ \E from \in senders[s] :
       udp' = [pc |-> "decrypt", ssrc |-> s, index |-> n, from |-> from, user |-> tmap[s],
               sealed |-> FALSE,
               clean |-> s \notin astray /\ \A msg \in Unreported : s \notin Concerns(msg)]
  /\ UNCHANGED <<vars, senders, gateway, changes, tmap, reader, late, events, astray>>

\* Whom a frame opens for: an encrypted one for its sender, wherever the map points;
\* one in the clear for the first candidate with a decryptor, whom the map's user
\* comes before, if that user has one.
Candidates(encrypted) == IF encrypted THEN {udp.from} ELSE Users

\* Mutant of UdpDecrypted: only an unmapped SSRC is reported.
UdpDecryptedQuietly(encrypted) ==
  \E c \in Candidates(encrypted) :
    /\ udp' = [udp EXCEPT !.pc = IF udp.user = NoUser THEN "update" ELSE "opus",
                          !.user = c, !.sealed = encrypted]
    /\ IF udp.user = c THEN UNCHANGED <<tmap, astray>>
       ELSE /\ tmap' = [tmap EXCEPT ![udp.ssrc] = c]
            /\ astray' = AstrayAfter(Speaking(udp.ssrc, c))

UdpDecrypted(encrypted) ==
  \E c \in Candidates(encrypted) :
    /\ udp' = [udp EXCEPT !.pc = IF udp.user = c THEN "opus" ELSE "update",
                          !.user = c, !.sealed = encrypted]
    /\ IF udp.user = c THEN UNCHANGED <<tmap, astray>>
       ELSE /\ tmap' = [tmap EXCEPT ![udp.ssrc] = c]
            /\ astray' = AstrayAfter(Speaking(udp.ssrc, c))

UdpDecrypt ==
  /\ udp.pc = "decrypt"
  /\ \/ \E encrypted \in BOOLEAN : UdpDecrypted(encrypted)
     \/ udp' = [udp EXCEPT !.pc = "opus"] /\ UNCHANGED <<tmap, astray>>   \* no session yet
     \/ udp' = NoPacket /\ UNCHANGED <<tmap, astray>>                     \* decrypt failed
  /\ UNCHANGED <<vars, senders, gateway, changes, reader, late, seen, events>>

UdpSendsUpdate ==
  /\ udp.pc = "update" /\ Send(Speaking(udp.ssrc, udp.user))
  /\ udp' = [udp EXCEPT !.pc = "opus"]
  /\ UNCHANGED <<vars, senders, gateway, changes, tmap, reader, late, seen, astray>>

UdpSendsOpus ==
  /\ udp.pc = "opus" /\ Send(Opus(udp))
  /\ udp' = NoPacket
  /\ UNCHANGED <<vars, senders, gateway, changes, tmap, reader, late, seen, astray>>

-----------------------------------------------------------------------------
(* The main loop. Subscriptions and ticks touch no SSRC map: they are part *)
(* of Capture's own specification and left out of this one.                *)

Handle(event) ==
  \/ event.kind = "ssrc" /\ SsrcUpdate(event.ssrc, event.user)
  \/ event.kind = "gone" /\ ClientDisconnect(event.user)
  \/ event.kind = "opus" /\ OpusReceived(event.ssrc, event.index)

MainHandlesEvent ==
  /\ events # <<>> /\ Handle(Head(events))
  /\ events' = Tail(events)
  /\ UNCHANGED taskVars

-----------------------------------------------------------------------------
(* The transport is torn down and another one starts.  What the old one    *)
(* had queued is still handled, and shutdown only aborts its tasks: one    *)
(* that runs at that moment goes on to its next wait, so it may still send *)
(* what it has at hand.                                                    *)

AtHand ==
  (IF reader = Idle THEN {} ELSE {<<reader>>})
    \cup (LET opus == [Opus(udp) EXCEPT !.clean = FALSE] IN
          CASE udp.pc = "update" -> {<<Speaking(udp.ssrc, udp.user), opus>>}
            [] udp.pc = "opus"   -> {<<opus>>}
            [] OTHER             -> {})

\* The SSRCs that the new transport has no owner for, but the main loop will.
Leftover == {s \in Ssrcs : \/ \E i \in 1 .. Len(events) :
                                 events[i].kind = "ssrc" /\ events[i].ssrc = s
                           \/ \E m \in Own : m.kind = "ssrc" /\ m.ssrc = s}

Reconnect ==
  /\ late = {}     \* a task aborted earlier came to its wait long ago
  /\ ClearTransport
  /\ tmap' = [s \in Ssrcs |-> NoUser]
  /\ reader' = Idle /\ udp' = NoPacket
  /\ gateway' = <<>>
  /\ late' = AtHand
  /\ events' = [i \in 1 .. Len(events) |->
                  IF events[i].kind = "opus" THEN [events[i] EXCEPT !.old = TRUE] ELSE events[i]]
  /\ astray' = Leftover
  /\ UNCHANGED <<senders, changes, seen>>

LateSend ==
  /\ \E q \in late :
       /\ Send(Head(q))
       /\ late' = (late \ {q}) \cup ({Tail(q)} \ {<<>>})
  /\ UNCHANGED <<vars, senders, gateway, changes, tmap, reader, udp, seen, astray>>

LateStops ==
  /\ \E q \in late : late' = late \ {q}
  /\ UNCHANGED <<vars, senders, gateway, changes, tmap, reader, udp, seen, events, astray>>

NextAll ==
  \/ \E s \in Ssrcs, u \in Users : StartsToSend(s, u)
  \/ \E u \in Users : Leaves(u)
  \/ ReadTask \/ ReaderSends
  \/ \E s \in Ssrcs, n \in 0 .. MaxIndex : UdpReceive(s, n)
  \/ UdpDecrypt \/ UdpSendsUpdate \/ UdpSendsOpus
  \/ MainHandlesEvent
  \/ Reconnect \/ LateSend \/ LateStops

SpecAll == InitAll /\ [][NextAll]_allVars

-----------------------------------------------------------------------------
(* Properties. *)

\* The two SSRC maps agree whenever nothing is queued and neither task owes a
\* report, however the changes of the two tasks interleave, whatever late packets
\* move an SSRC back to a former owner, and whatever the tasks of a former
\* transport still send.  They may stay apart only on an SSRC of which two changes
\* that conflict were unreported at the same time, or that a former transport
\* mapped last, until the next announcement.
MapsAgree ==
  events = <<>> /\ reader = Idle /\ udp.pc # "update"
    => \A s \in Ssrcs \ astray : tmap[s] = ssrcMap[s]

\* Audio goes to the user whose key opened it, although the packet does not name
\* its user, the map may have pointed to another, and other events were queued
\* ahead of it: unless the SSRC changed hands while the packet was at work.  What
\* the transport had queued when it was replaced is dropped or goes to that user.
Attributed ==
  events # <<>> /\ Head(events).kind = "opus" /\ Head(events).clean
    => LET e == Head(events) IN
       \/ ssrcMap[e.ssrc] = e.voice
       \/ e.old /\ ssrcMap[e.ssrc] = NoUser
=============================================================================
