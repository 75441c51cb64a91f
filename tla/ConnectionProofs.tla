-------------------------- MODULE ConnectionProofs --------------------------
(***************************************************************************)
(* Proofs about Connection for every set of sessions, every number of      *)
(* connections, every channel capacity and every backoff bound.            *)
(***************************************************************************)
EXTENDS Connection, TLAPS

\* The connection being opened is new, its role is empty and it uses the
\* session that role holds: this is what FinishConnect needs.
ConnectingIsFresh ==
  /\ connecting # NoConn => /\ slot[opened[connecting].role] = NoConn
                            /\ opened[connecting].session = session[opened[connecting].role]
  /\ \A c \in live : c < nextConn

\* The inductive invariant.
IInv ==
  /\ TypeOK
  /\ DeadlineMeansDown
  /\ LiveIsOwned
  /\ SlotSessionCurrent
  /\ BackoffMatchesAttempt
  /\ ConnectingIsFresh

-----------------------------------------------------------------------------
(* Type correctness.                                                         *)

\* The first element of a channel that is not empty is an event, and the rest
\* is a shorter channel.
LEMMA QueueHead ==
  ASSUME TypeOK, queue # <<>>
  PROVE  /\ Head(queue) \in Events
         /\ RoleOf(Head(queue)) \in Roles
         /\ Tail(queue) \in Seq(Events)
         /\ Len(Tail(queue)) <= QueueCap
<1>1. queue \in Seq(Events) /\ Len(queue) <= QueueCap
  BY DEF TypeOK
<1>2. Head(queue) \in Events
  BY <1>1
<1>3. Tail(queue) \in Seq(Events) /\ Len(Tail(queue)) = Len(queue) - 1
  BY <1>1
<1>4. RoleOf(Head(queue)) \in Roles
  BY <1>2 DEF RoleOf, TypeOK, Events
<1> QED
  BY <1>1, <1>2, <1>3, <1>4, ConnectionAssumption

\* A channel with room takes one more event.
LEMMA QueueAppend ==
  ASSUME TypeOK, HasRoom, NEW e \in Events
  PROVE  Append(queue, e) \in Seq(Events) /\ Len(Append(queue, e)) <= QueueCap
BY ConnectionAssumption DEF TypeOK, HasRoom

\* A backoff shift is within the bound once an attempt was counted.
LEMMA ShiftBounded ==
  ASSUME NEW n \in Nat \ {0}
  PROVE  BackoffShift(n) \in 0 .. MaxBackoffShift
BY ConnectionAssumption DEF BackoffShift

\* The variables a new connection changes keep their types.
LEMMA OpensTyped ==
  ASSUME TypeOK, NEW role \in Roles, NEW sess \in Sessions \cup {NoSession},
         NEW how \in {"command", "timer"}, NEW kept \in SUBSET Conns,
         Opens(role, sess, how, kept) \/ OpensNone(kept)
  PROVE  /\ connecting' \in Conns \cup {NoConn}
         /\ via' \in {"command", "timer"}
         /\ live' \in SUBSET Conns
         /\ opened' \in [Conns -> [role : Roles, session : Sessions \cup {NoSession}]]
         /\ nextConn' \in 1 .. MaxConns + 1
<1>1. CASE OpensNone(kept)
  BY <1>1 DEF OpensNone, TypeOK
<1>2. CASE Opens(role, sess, how, kept)
  <2>1. nextConn \in Conns /\ nextConn + 1 \in 1 .. MaxConns + 1
    BY <1>2, ConnectionAssumption DEF Opens, TypeOK, Conns
  <2> QED
    BY <1>2, <2>1 DEF Opens, TypeOK
<1> QED
  BY <1>1, <1>2

\* Scheduling a reconnect keeps the types of what it changes.
LEMMA ScheduleTyped ==
  ASSUME TypeOK, NEW said \in SUBSET States,
         NEW armed \in 0 .. MaxBackoffShift \cup {NoDeadline},
         ScheduleReconnect(said, armed)
  PROVE  /\ deadline' \in 0 .. MaxBackoffShift \cup {NoDeadline}
         /\ attempt' \in 0 .. MaxAttempt
         /\ out' \in SUBSET States
<1>1. CASE joined
  <2>1. attempt' \in Nat \ {0} /\ attempt' <= MaxAttempt
    BY <1>1, ConnectionAssumption DEF ScheduleReconnect, TypeOK
  <2>2. Say("voice", "reconnecting") \in States
    BY DEF Say, States, Roles
  <2> QED
    BY <1>1, <2>1, <2>2, ShiftBounded DEF ScheduleReconnect
<1>2. CASE ~joined
  BY <1>2 DEF ScheduleReconnect, TypeOK
<1> QED
  BY <1>1, <1>2

\* Clearing roles keeps the types of the slots and the live connections.
LEMMA ClearTyped ==
  ASSUME TypeOK, NEW torn \in SUBSET Roles
  PROVE  /\ Without(torn) \in [Roles -> Conns \cup {NoConn}]
         /\ Surviving(torn) \in SUBSET Conns
BY DEF Without, Surviving, TypeOK

\* A message about one of the roles is a message.
LEMMA SayTyped ==
  ASSUME NEW r \in Roles, 
         NEW status \in {"connecting", "ready", "reconnecting", "disconnected", "failed"}
  PROVE  Say(r, status) \in States
BY DEF Say, States

\* maybe_try_connect keeps the types of what it changes.
LEMMA TryConnectTyped ==
  ASSUME TypeOK, NEW up \in BOOLEAN, NEW ready \in BOOLEAN,
         NEW sess \in Sessions \cup {NoSession}, NEW said \in SUBSET States,
         NEW kept \in SUBSET Conns, MaybeTryConnect(up, ready, sess, said, kept)
  PROVE  /\ connecting' \in Conns \cup {NoConn}
         /\ via' \in {"command", "timer"}
         /\ live' \in SUBSET Conns
         /\ opened' \in [Conns -> [role : Roles, session : Sessions \cup {NoSession}]]
         /\ nextConn' \in 1 .. MaxConns + 1
         /\ deadline' \in 0 .. MaxBackoffShift \cup {NoDeadline}
         /\ attempt' \in 0 .. MaxAttempt
         /\ out' \in SUBSET States
<1>1. \/ OpensNone(kept) /\ out' = said /\ UNCHANGED retry
      \/ Opens("voice", sess, "command", kept) /\ out' = said /\ UNCHANGED retry
      \/ OpensNone(kept) /\ ScheduleReconnect(said, NoDeadline)
  BY DEF MaybeTryConnect
<1>2. Opens("voice", sess, "command", kept) \/ OpensNone(kept)
  BY <1>1
<1>3. "voice" \in Roles
  BY DEF Roles
<1>4. (out' = said /\ UNCHANGED retry) \/ ScheduleReconnect(said, NoDeadline)
  BY <1>1
<1> QED
  BY <1>2, <1>3, <1>4, OpensTyped, ScheduleTyped DEF retry, TypeOK

LEMMA TypeStep == TypeOK /\ [Next]_vars => TypeOK'
<1> SUFFICES ASSUME TypeOK, [Next]_vars PROVE TypeOK'
  OBVIOUS
<1> USE DEF slots, creds, retry
<1>1. CASE Join
  BY <1>1, ConnectionAssumption DEF Join, TypeOK, ResetReconnect, Silent
<1>2. ASSUME NEW completes \in BOOLEAN, VoiceServer(completes) PROVE TypeOK'
  <2>1. MaybeTryConnect(slot["voice"] # NoConn,
                        HasCredentials(server \/ completes, user, session["voice"]),
                        session["voice"], {}, live)
    BY <1>2 DEF VoiceServer
  <2>2. session["voice"] \in Sessions \cup {NoSession} /\ live \in SUBSET Conns
    BY DEF TypeOK, Roles
  <2> QED
    BY <1>2, <2>1, <2>2, TryConnectTyped DEF VoiceServer, TypeOK, HasCredentials
<1>3. ASSUME NEW sess \in Sessions \cup {NoSession}, NEW u \in BOOLEAN, VoiceState(sess, u)
      PROVE TypeOK'
  <2> DEFINE torn == SessionChanged(sess)
             said == {Say(r, "disconnected") : r \in torn \cap StreamRoles}
             now  == IF sess = NoSession THEN session["voice"] ELSE sess
  <2>1. torn \in SUBSET Roles /\ said \in SUBSET States
    BY SayTyped DEF SessionChanged
  <2>2. now \in Sessions \cup {NoSession}
    BY DEF TypeOK, Roles
  <2>3. MaybeTryConnect(Without(torn)["voice"] # NoConn,
                        HasCredentials(server, user \/ u, now), now, said, Surviving(torn))
    BY <1>3 DEF VoiceState
  <2>4. HasCredentials(server, user \/ u, now) \in BOOLEAN
    BY DEF HasCredentials, TypeOK
  <2>5. session' \in [Roles -> Sessions \cup {NoSession}] /\ user' \in BOOLEAN
    BY <1>3 DEF VoiceState, TypeOK
  <2>6. slot' \in [Roles -> Conns \cup {NoConn}] /\ Surviving(torn) \in SUBSET Conns
    BY <1>3, <2>1, ClearTyped DEF VoiceState
  <2> HIDE DEF torn, said, now
  <2> QED
    BY <1>3, <2>1, <2>2, <2>3, <2>4, <2>5, <2>6, TryConnectTyped DEF VoiceState, TypeOK
<1>4. ASSUME NEW role \in StreamRoles, NEW sess \in Sessions, StreamConnect(role, sess)
      PROVE TypeOK'
  <2>1. role \in Roles /\ {role} \in SUBSET Roles
    BY DEF Roles
  <2>2. Opens(role, sess, "command", Surviving({role})) \/ OpensNone(Surviving({role}))
    BY <1>4 DEF StreamConnect, Replaced
  <2>3. out' \in SUBSET States
    BY <1>4, <2>1, SayTyped DEF StreamConnect
  <2>4. session' \in [Roles -> Sessions \cup {NoSession}]
    BY <1>4, <2>1 DEF StreamConnect, TypeOK
  <2> QED
    BY <1>4, <2>1, <2>2, <2>3, <2>4, OpensTyped, ClearTyped DEF StreamConnect, TypeOK
<1>5. ASSUME NEW role \in StreamRoles, StreamDisconnect(role) PROVE TypeOK'
  <2>1. role \in Roles /\ {role} \in SUBSET Roles
    BY DEF Roles
  <2> QED
    BY <1>5, <2>1, SayTyped, ClearTyped DEF StreamDisconnect, OpensNone, TypeOK
<1>6. CASE Destroy
  BY <1>6, ClearTyped DEF Destroy, OpensNone, Silent, TypeOK
<1>7. CASE FinishConnect
  <2>1. connecting \in Conns /\ HasRoom
    BY <1>7 DEF FinishConnect, TypeOK, ReadyFits
  <2>2. [kind |-> "ready", conn |-> connecting] \in Events
    BY <2>1 DEF Events
  <2>3. queue' \in Seq(Events) /\ Len(queue') <= QueueCap
    BY <1>7, <2>1, <2>2, QueueAppend DEF FinishConnect
  <2> QED
    BY <1>7, <2>1, <2>3, ConnectionAssumption DEF FinishConnect, Silent, TypeOK, NoConn
<1>8. CASE ReconnectTimer
  <2>1. session["voice"] \in Sessions \cup {NoSession} /\ live \in SUBSET Conns /\ "voice" \in Roles
    BY DEF TypeOK, Roles
  <2>2. \/ ResetReconnect /\ OpensNone(live) /\ Silent
        \/ /\ Opens("voice", session["voice"], "timer", live)
           /\ deadline' = NoDeadline /\ UNCHANGED attempt /\ Silent
        \/ OpensNone(live) /\ ScheduleReconnect({}, NoDeadline)
    BY <1>8 DEF ReconnectTimer
  <2>3. Opens("voice", session["voice"], "timer", live) \/ OpensNone(live)
    BY <2>2
  <2>4. /\ deadline' \in 0 .. MaxBackoffShift \cup {NoDeadline}
        /\ attempt' \in 0 .. MaxAttempt
        /\ out' \in SUBSET States
    <3>1. CASE ScheduleReconnect({}, NoDeadline)
      BY <3>1, ScheduleTyped
    <3>2. CASE deadline' = NoDeadline /\ attempt' \in {0, attempt} /\ out' = {}
      BY <3>2, ConnectionAssumption DEF TypeOK
    <3> QED
      BY <2>2, <3>1, <3>2 DEF ResetReconnect, Silent
  <2> QED
    BY <1>8, <2>1, <2>3, <2>4, OpensTyped DEF ReconnectTimer, TypeOK
<1>9. CASE HandleReady
  BY <1>9, QueueHead, SayTyped, ConnectionAssumption
     DEF HandleReady, Received, ResetReconnect, TypeOK
<1>10. CASE HandleVoiceLost
  <2>1. VoiceLossClears \in SUBSET Roles /\ "voice" \in Roles
    BY DEF VoiceLossClears, Roles, StreamRoles
  <2>2. {Say("voice", "disconnected")} \in SUBSET States
    BY <2>1, SayTyped
  <2>3. ScheduleReconnect({Say("voice", "disconnected")}, deadline)
    BY <1>10 DEF HandleVoiceLost
  <2>4. deadline \in 0 .. MaxBackoffShift \cup {NoDeadline}
    BY DEF TypeOK
  <2>5. /\ deadline' \in 0 .. MaxBackoffShift \cup {NoDeadline}
        /\ attempt' \in 0 .. MaxAttempt
        /\ out' \in SUBSET States
    BY <2>2, <2>3, <2>4, ScheduleTyped
  <2> QED
    BY <1>10, <2>1, <2>5, QueueHead, ClearTyped DEF HandleVoiceLost, Received, OpensNone, TypeOK
<1>11. CASE HandleStreamLost
  <2>1. RoleOf(Head(queue)) \in Roles /\ {RoleOf(Head(queue))} \in SUBSET Roles
    BY <1>11 DEF HandleStreamLost, Roles
  <2> QED
    BY <1>11, <2>1, QueueHead, ClearTyped, SayTyped
       DEF HandleStreamLost, Received, OpensNone, LossReport, TypeOK
<1>12. CASE HandleMedia
  BY <1>12, QueueHead DEF HandleMedia, Received, Silent, TypeOK
<1>13. ASSUME NEW c \in Conns, SendMedia(c) PROVE TypeOK'
  BY <1>13, QueueAppend DEF SendMedia, Emit, Silent, TypeOK, Events
<1>14. ASSUME NEW c \in Conns, TaskFails(c) PROVE TypeOK'
  BY <1>14 DEF TaskFails, Silent, TypeOK
<1>15. ASSUME NEW c \in Conns, SendDisconnected(c) \/ LateDisconnected(c) PROVE TypeOK'
  <2>1. [kind |-> "disconnected", conn |-> c] \in Events
    BY DEF Events
  <2>2. queue' \in Seq(Events) /\ Len(queue') <= QueueCap
    BY <1>15, <2>1, QueueAppend DEF SendDisconnected, LateDisconnected, Emit
  <2>3. claimed' \in [Conns -> {"no", "claimed", "sent"}] /\ out' = {}
    BY <1>15 DEF SendDisconnected, LateDisconnected, Silent, TypeOK
  <2>4. UNCHANGED <<slots, creds, retry, exited>>
    BY <1>15 DEF SendDisconnected, LateDisconnected
  <2> QED
    BY <2>2, <2>3, <2>4 DEF TypeOK
<1>16. CASE UNCHANGED vars
  BY <1>16 DEF vars, TypeOK
<1> QED
  BY <1>1, <1>2, <1>3, <1>4, <1>5, <1>6, <1>7, <1>8, <1>9, <1>10, <1>11, <1>12, <1>13,
     <1>14, <1>15, <1>16 DEF Next, Command, HandleEvent, Tasks

-----------------------------------------------------------------------------
(* The safety invariants.                                                    *)

\* Clearing roles and then opening at most one connection keeps every transport
\* owned, current and fresh.  Every handler that touches a slot is an instance:
\* `torn` are the roles it clears, `role` the one it dials.
LEMMA ClearThenOpen ==
  ASSUME IInv, TypeOK', connecting = NoConn,
         NEW torn \in SUBSET Roles, NEW role \in Roles, NEW sess, NEW how,
         slot' = Without(torn),
         \/ OpensNone(Surviving(torn))
         \/ /\ Opens(role, sess, how, Surviving(torn))
            /\ slot'[role] = NoConn
            /\ session'[role] = sess,
         \A r \in Roles : slot'[r] # NoConn => session'[r] = session[r]
  PROVE  LiveIsOwned' /\ SlotSessionCurrent' /\ ConnectingIsFresh'
<1> USE DEF NoConn, Conns
<1>1. /\ \A r \in Roles : slot[r] \in Nat /\ (slot[r] # NoConn => slot[r] \in live)
      /\ live = {slot[r] : r \in Roles} \ {NoConn}
      /\ \A c \in live : c < nextConn
      /\ \A r, q \in Roles : slot[r] # NoConn /\ r # q => slot[r] # slot[q]
  BY DEF IInv, LiveIsOwned, ConnectingIsFresh, TypeOK
<1>2. Surviving(torn) = {slot'[r] : r \in Roles} \ {NoConn}
  <2>1. ASSUME NEW c \in Surviving(torn) PROVE c \in {slot'[r] : r \in Roles} \ {NoConn}
    <3>1. PICK r \in Roles : c = slot[r] /\ c # NoConn
      BY <1>1, <2>1 DEF Surviving
    <3>2. r \notin torn
      BY <3>1, <2>1 DEF Surviving
    <3> QED
      BY <3>1, <3>2 DEF Without
  <2>2. ASSUME NEW r \in Roles, slot'[r] # NoConn PROVE slot'[r] \in Surviving(torn)
    <3>1. r \notin torn /\ slot'[r] = slot[r]
      BY <2>2 DEF Without
    <3> QED
      BY <1>1, <2>2, <3>1 DEF Surviving
  <2> QED
    BY <2>1, <2>2
<1>3. \A r \in Roles : slot'[r] # NoConn => slot'[r] = slot[r]
  BY DEF Without
<1>4. CASE OpensNone(Surviving(torn))
  <2>1. live' = ({slot'[r] : r \in Roles} \cup {connecting'}) \ {NoConn}
    BY <1>2, <1>4 DEF OpensNone
  <2>2. LiveIsOwned'
    BY <1>3, <1>4, <2>1 DEF OpensNone, LiveIsOwned, IInv
  <2>3. SlotSessionCurrent'
    BY <1>3, <1>4 DEF OpensNone, SlotSessionCurrent, IInv
  <2>4. ConnectingIsFresh'
    BY <1>1, <1>4 DEF OpensNone, ConnectingIsFresh, Surviving
  <2> QED
    BY <2>2, <2>3, <2>4
<1>5. CASE /\ Opens(role, sess, how, Surviving(torn))
           /\ slot'[role] = NoConn
           /\ session'[role] = sess
  <2>1. nextConn \in Conns /\ nextConn # NoConn
    BY <1>5 DEF Opens, IInv, TypeOK
  <2>2. live' = ({slot'[r] : r \in Roles} \cup {connecting'}) \ {NoConn}
    BY <1>2, <1>5, <2>1 DEF Opens
  <2>3. \A r \in Roles : slot'[r] # NoConn => slot'[r] # nextConn /\ slot'[r] \in Conns
    <3>1. ASSUME NEW r \in Roles, slot'[r] # NoConn
          PROVE  slot'[r] # nextConn /\ slot'[r] \in Conns
      <4>1. slot'[r] = slot[r] /\ slot[r] < nextConn
        BY <1>1, <1>3, <3>1
      <4>2. slot[r] \in Conns
        BY <3>1, <4>1 DEF IInv, TypeOK
      <4> QED
        BY <2>1, <4>1, <4>2
    <3> QED
      BY <3>1
  <2>4. opened'[nextConn] = [role |-> role, session |-> sess]
    BY <1>5, <2>1 DEF Opens, IInv, TypeOK
  <2>5. \A r \in Roles : slot'[r] # NoConn => opened'[slot'[r]] = opened[slot[r]]
    BY <1>3, <1>5, <2>1, <2>3 DEF Opens, IInv, TypeOK
  <2>6. LiveIsOwned'
    BY <1>3, <2>2, <2>5 DEF LiveIsOwned, IInv
  <2>7. SlotSessionCurrent'
    BY <1>3, <2>5 DEF SlotSessionCurrent, IInv
  <2>8. connecting' = nextConn /\ nextConn' = nextConn + 1 /\ live' \subseteq live \cup {nextConn}
    BY <1>5 DEF Opens, Surviving
  <2>9. ConnectingIsFresh'
    <3>1. \A c \in live' : c < nextConn'
      BY <1>1, <2>1, <2>8 DEF IInv, TypeOK
    <3> QED
      BY <1>5, <2>4, <2>8, <3>1 DEF ConnectingIsFresh
  <2> QED
    BY <2>6, <2>7, <2>9
<1> QED
  BY <1>4, <1>5

\* Scheduling a reconnect while the voice role is down and nobody dials keeps
\* the two invariants of the timer.
LEMMA ScheduleKeepsTimer ==
  ASSUME IInv, TypeOK', NEW said, NEW armed \in {deadline, NoDeadline},
         ScheduleReconnect(said, armed),
         slot'["voice"] = NoConn, connecting' = NoConn
  PROVE  DeadlineMeansDown' /\ BackoffMatchesAttempt'
<1>1. DeadlineMeansDown'
  BY DEF DeadlineMeansDown
<1>2. CASE joined
  <2>1. attempt' > 0 /\ deadline' = BackoffShift(attempt')
    BY <1>2, ConnectionAssumption DEF ScheduleReconnect, IInv, TypeOK
  <2> QED
    BY <1>1, <2>1 DEF BackoffMatchesAttempt
<1>3. CASE ~joined
  BY <1>1, <1>3 DEF ScheduleReconnect, BackoffMatchesAttempt, IInv
<1> QED
  BY <1>2, <1>3

\* maybe_try_connect keeps the two invariants of the timer: it dials only when
\* no deadline is pending and schedules only when the voice slot is empty.
LEMMA TryConnectKeepsTimer ==
  ASSUME IInv, TypeOK', connecting = NoConn,
         NEW up \in BOOLEAN, NEW ready, NEW sess, NEW said, NEW kept,
         MaybeTryConnect(up, ready, sess, said, kept),
         up <=> slot'["voice"] # NoConn,
         slot["voice"] = NoConn => slot'["voice"] = NoConn
  PROVE  DeadlineMeansDown' /\ BackoffMatchesAttempt'
<1>1. CASE deadline # NoDeadline \/ up \/ ~ready
  <2>1. OpensNone(kept) /\ UNCHANGED retry
    BY <1>1 DEF MaybeTryConnect
  <2> QED
    BY <2>1 DEF OpensNone, retry, IInv, DeadlineMeansDown, BackoffMatchesAttempt
<1>2. CASE ~(deadline # NoDeadline \/ up \/ ~ready)
  <2>1. \/ Opens("voice", sess, "command", kept) /\ UNCHANGED retry
        \/ OpensNone(kept) /\ ScheduleReconnect(said, NoDeadline)
    BY <1>2 DEF MaybeTryConnect
  <2>2. CASE UNCHANGED retry
    BY <1>2, <2>2 DEF retry, DeadlineMeansDown, BackoffMatchesAttempt
  <2>3. CASE OpensNone(kept) /\ ScheduleReconnect(said, NoDeadline)
    BY <1>2, <2>3, ScheduleKeepsTimer DEF OpensNone
  <2> QED
    BY <2>1, <2>2, <2>3
<1> QED
  BY <1>1, <1>2

\* A step that leaves the slots, the sessions and the timer alone keeps all.
LEMMA SameControl ==
  ASSUME IInv, UNCHANGED <<slots, session, retry>>
  PROVE  /\ DeadlineMeansDown' /\ BackoffMatchesAttempt'
         /\ LiveIsOwned' /\ SlotSessionCurrent' /\ ConnectingIsFresh'
BY DEF slots, retry, IInv, DeadlineMeansDown, BackoffMatchesAttempt, LiveIsOwned,
       SlotSessionCurrent, ConnectingIsFresh

LEMMA InvStep == IInv /\ [Next]_vars => IInv'
<1> SUFFICES ASSUME IInv, [Next]_vars PROVE IInv'
  OBVIOUS
<1>0. TypeOK /\ TypeOK'
  BY TypeStep DEF IInv
<1> DEFINE Safe == /\ DeadlineMeansDown /\ BackoffMatchesAttempt
                   /\ LiveIsOwned /\ SlotSessionCurrent /\ ConnectingIsFresh
<1> SUFFICES Safe'
  BY <1>0 DEF IInv
<1> USE DEF slots, creds
<1>1. CASE Join
  <2>1. UNCHANGED <<slots, session>> /\ ResetReconnect
    BY <1>1 DEF Join
  <2>2. DeadlineMeansDown' /\ BackoffMatchesAttempt'
    BY <2>1 DEF ResetReconnect, DeadlineMeansDown, BackoffMatchesAttempt
  <2> QED
    BY <2>1, <2>2 DEF IInv, LiveIsOwned, SlotSessionCurrent, ConnectingIsFresh
<1>2. ASSUME NEW completes \in BOOLEAN, VoiceServer(completes) PROVE Safe'
  <2>1. /\ MaybeTryConnect(slot["voice"] # NoConn,
                           HasCredentials(server \/ completes, user, session["voice"]),
                           session["voice"], {}, live)
        /\ UNCHANGED <<slot, session>> /\ connecting = NoConn
    BY <1>2 DEF VoiceServer, AtSelect
  <2>2. DeadlineMeansDown' /\ BackoffMatchesAttempt'
    BY <1>0, <2>1, TryConnectKeepsTimer
  <2>3. slot' = Without({}) /\ Surviving({}) = live
    BY <1>0, <2>1 DEF Without, Surviving, TypeOK
  <2>4. \/ OpensNone(Surviving({}))
        \/ /\ Opens("voice", session["voice"], "command", Surviving({}))
           /\ slot'["voice"] = NoConn
           /\ session'["voice"] = session["voice"]
    BY <2>1, <2>3 DEF MaybeTryConnect
  <2>5. "voice" \in Roles /\ {} \in SUBSET Roles
    BY DEF Roles
  <2>6. \A r \in Roles : slot'[r] # NoConn => session'[r] = session[r]
    BY <2>1
  <2>7. LiveIsOwned' /\ SlotSessionCurrent' /\ ConnectingIsFresh'
    BY <1>0, <2>1, <2>3, <2>4, <2>5, <2>6, ClearThenOpen
  <2> QED
    BY <2>2, <2>7
<1>3. ASSUME NEW sess \in Sessions \cup {NoSession}, NEW u \in BOOLEAN, VoiceState(sess, u)
      PROVE Safe'
  <2> DEFINE torn == SessionChanged(sess)
             said == {Say(r, "disconnected") : r \in torn \cap StreamRoles}
             now  == IF sess = NoSession THEN session["voice"] ELSE sess
             has  == HasCredentials(server, user \/ u, now)
  <2>1. /\ MaybeTryConnect(Without(torn)["voice"] # NoConn, has, now, said, Surviving(torn))
        /\ slot' = Without(torn) /\ connecting = NoConn
        /\ session' = IF sess = NoSession THEN session ELSE [r \in Roles |-> sess]
    BY <1>3 DEF VoiceState, AtSelect
  <2>2. torn \in SUBSET Roles /\ "voice" \in Roles
    BY DEF SessionChanged, Roles
  <2>3. \A r \in Roles : slot'[r] # NoConn => session'[r] = session[r]
    BY <2>1 DEF Without, SessionChanged
  <2>4. session'["voice"] = now
    BY <2>1, <2>2
  <2>5. slot["voice"] = NoConn => slot'["voice"] = NoConn
    BY <2>1, <2>2 DEF Without
  <2> HIDE DEF torn, said, now, has
  <2>6. \/ OpensNone(Surviving(torn))
        \/ /\ Opens("voice", now, "command", Surviving(torn))
           /\ slot'["voice"] = NoConn
           /\ session'["voice"] = now
    BY <2>1, <2>4 DEF MaybeTryConnect
  <2>7. DeadlineMeansDown' /\ BackoffMatchesAttempt'
    BY <1>0, <2>1, <2>5, TryConnectKeepsTimer
  <2>8. LiveIsOwned' /\ SlotSessionCurrent' /\ ConnectingIsFresh'
    BY <1>0, <2>1, <2>2, <2>3, <2>6, ClearThenOpen
  <2> QED
    BY <2>7, <2>8
<1>4. ASSUME NEW role \in StreamRoles, NEW sess \in Sessions, StreamConnect(role, sess)
      PROVE Safe'
  <2>1. /\ slot' = Without({role}) /\ connecting = NoConn /\ UNCHANGED retry
        /\ session' = [session EXCEPT ![role] = sess]
        /\ \/ Opens(role, sess, "command", Surviving({role}))
           \/ OpensNone(Surviving({role}))
    BY <1>4 DEF StreamConnect, Replaced, AtSelect
  <2>2. role \in Roles /\ {role} \in SUBSET Roles /\ role # "voice" /\ "voice" \in Roles
    BY DEF Roles, StreamRoles
  <2>3. slot'[role] = NoConn /\ session'[role] = sess /\ slot'["voice"] = slot["voice"]
    BY <1>0, <2>1, <2>2 DEF Without, TypeOK
  <2>4. \A r \in Roles : slot'[r] # NoConn => session'[r] = session[r]
    BY <1>0, <2>1, <2>2, <2>3 DEF TypeOK
  <2>5. LiveIsOwned' /\ SlotSessionCurrent' /\ ConnectingIsFresh'
    BY <1>0, <2>1, <2>2, <2>3, <2>4, ClearThenOpen
  <2>6. connecting' # NoConn => opened'[connecting'].role = role
    BY <1>0, <2>1 DEF Opens, OpensNone, TypeOK, Conns
  <2>7. DeadlineMeansDown' /\ BackoffMatchesAttempt'
    BY <2>1, <2>2, <2>3, <2>6 DEF IInv, DeadlineMeansDown, BackoffMatchesAttempt, retry
  <2> QED
    BY <2>5, <2>7
<1>5. ASSUME NEW torn \in SUBSET Roles, connecting = NoConn, slot' = Without(torn),
             OpensNone(Surviving(torn)), UNCHANGED session
      PROVE LiveIsOwned' /\ SlotSessionCurrent' /\ ConnectingIsFresh'
  <2>1. "voice" \in Roles
    BY DEF Roles
  <2> QED
    BY <1>0, <1>5, <2>1, ClearThenOpen
<1>6. ASSUME NEW torn \in SUBSET Roles, connecting = NoConn, slot' = Without(torn),
             OpensNone(Surviving(torn)), UNCHANGED <<session, retry>>
      PROVE Safe'
  <2>1. slot["voice"] = NoConn => slot'["voice"] = NoConn
    BY <1>6 DEF Without, Roles
  <2>2. DeadlineMeansDown' /\ BackoffMatchesAttempt'
    BY <1>6, <2>1 DEF OpensNone, IInv, DeadlineMeansDown, BackoffMatchesAttempt, retry
  <2> QED
    BY <1>5, <1>6, <2>2
<1>7. ASSUME NEW role \in StreamRoles, StreamDisconnect(role) PROVE Safe'
  <2>1. {role} \in SUBSET Roles
    BY DEF Roles
  <2> QED
    BY <1>6, <1>7, <2>1 DEF StreamDisconnect, AtSelect
<1>8. CASE Destroy
  <2>1. connecting = NoConn /\ slot' = Without(Roles) /\ OpensNone({}) /\ UNCHANGED <<session, retry>>
    BY <1>8 DEF Destroy, AtSelect
  <2>2. Surviving(Roles) = {}
    BY <2>1 DEF Surviving, IInv, LiveIsOwned
  <2> QED
    BY <1>6, <2>1, <2>2
<1>9. CASE FinishConnect
  <2> DEFINE role == opened[connecting].role
  <2>1. /\ connecting \in Conns /\ role \in Roles /\ connecting # NoConn
        /\ slot' = [slot EXCEPT ![role] = connecting]
        /\ connecting' = NoConn /\ UNCHANGED <<session, live, opened, nextConn>>
    BY <1>0, <1>9 DEF FinishConnect, TypeOK
  <2>2. slot[role] = NoConn /\ opened[connecting].session = session[role]
    BY <2>1 DEF IInv, ConnectingIsFresh
  <2>3. slot'[role] = connecting /\ \A r \in Roles : r # role => slot'[r] = slot[r]
    BY <1>0, <2>1 DEF TypeOK
  <2>4. live' = ({slot'[r] : r \in Roles} \cup {connecting'}) \ {NoConn}
    BY <2>1, <2>2, <2>3 DEF IInv, LiveIsOwned
  <2>5. LiveIsOwned' /\ SlotSessionCurrent' /\ ConnectingIsFresh'
    BY <2>1, <2>2, <2>3, <2>4 DEF IInv, LiveIsOwned, SlotSessionCurrent, ConnectingIsFresh
  <2>6. CASE role = "voice"
    <3>1. deadline' = NoDeadline
      BY <1>9, <2>1, <2>6 DEF FinishConnect, IInv, DeadlineMeansDown
    <3> QED
      BY <2>5, <3>1 DEF DeadlineMeansDown, BackoffMatchesAttempt
  <2>7. CASE role # "voice"
    <3>1. UNCHANGED retry /\ slot'["voice"] = slot["voice"]
      BY <1>9, <2>3, <2>7 DEF FinishConnect, retry, Roles
    <3> QED
      BY <2>1, <2>5, <3>1 DEF IInv, DeadlineMeansDown, BackoffMatchesAttempt, retry
  <2> QED
    BY <2>6, <2>7
<1>10. CASE ReconnectTimer
  <2>1. /\ connecting = NoConn /\ UNCHANGED <<slot, session>> /\ slot["voice"] = NoConn
    BY <1>10 DEF ReconnectTimer, AtSelect, IInv, DeadlineMeansDown
  <2>2. \/ Opens("voice", session["voice"], "timer", live) /\ deadline' = NoDeadline
        \/ OpensNone(live) /\ ScheduleReconnect({}, NoDeadline)
    BY <1>10, <2>1 DEF ReconnectTimer
  <2>3. slot' = Without({}) /\ Surviving({}) = live /\ {} \in SUBSET Roles /\ "voice" \in Roles
    BY <1>0, <2>1 DEF Without, Surviving, TypeOK, Roles
  <2>4. LiveIsOwned' /\ SlotSessionCurrent' /\ ConnectingIsFresh'
    BY <1>0, <2>1, <2>2, <2>3, ClearThenOpen
  <2>5. CASE deadline' = NoDeadline
    BY <2>4, <2>5 DEF DeadlineMeansDown, BackoffMatchesAttempt
  <2>6. CASE OpensNone(live) /\ ScheduleReconnect({}, NoDeadline)
    BY <1>0, <2>1, <2>4, <2>6, ScheduleKeepsTimer DEF OpensNone
  <2> QED
    BY <2>2, <2>5, <2>6
<1>11. CASE HandleReady
  <2>1. UNCHANGED <<slots, session>> /\ (ResetReconnect \/ UNCHANGED retry)
    BY <1>11 DEF HandleReady
  <2>2. CASE ResetReconnect
    BY <2>1, <2>2 DEF ResetReconnect, IInv, DeadlineMeansDown, BackoffMatchesAttempt,
                      LiveIsOwned, SlotSessionCurrent, ConnectingIsFresh
  <2> QED
    BY <2>1, <2>2, SameControl
<1>12. CASE HandleVoiceLost
  <2>1. /\ connecting = NoConn /\ slot' = Without(VoiceLossClears) /\ UNCHANGED session
        /\ OpensNone(Surviving(VoiceLossClears))
        /\ ScheduleReconnect({Say("voice", "disconnected")}, deadline)
    BY <1>12 DEF HandleVoiceLost, Received, AtSelect
  <2>2. VoiceLossClears \in SUBSET Roles /\ slot'["voice"] = NoConn
    BY <2>1 DEF VoiceLossClears, Without, Roles, StreamRoles
  <2>3. DeadlineMeansDown' /\ BackoffMatchesAttempt'
    BY <1>0, <2>1, <2>2, ScheduleKeepsTimer DEF OpensNone
  <2> QED
    BY <1>5, <2>1, <2>2, <2>3
<1>13. CASE HandleStreamLost
  <2>1. {RoleOf(Head(queue))} \in SUBSET Roles
    BY <1>13 DEF HandleStreamLost, Roles
  <2> QED
    BY <1>6, <1>13, <2>1 DEF HandleStreamLost, Received, AtSelect
<1>14. CASE HandleMedia
  BY <1>14, SameControl DEF HandleMedia
<1>15. ASSUME NEW c \in Conns,
              SendMedia(c) \/ TaskFails(c) \/ SendDisconnected(c) \/ LateDisconnected(c)
       PROVE Safe'
  BY <1>15, SameControl DEF SendMedia, TaskFails, SendDisconnected, LateDisconnected
<1>16. CASE UNCHANGED vars
  BY <1>16, SameControl DEF vars, retry
<1> QED
  BY <1>1, <1>2, <1>3, <1>4, <1>7, <1>8, <1>9, <1>10, <1>11, <1>12, <1>13, <1>14, <1>15,
     <1>16 DEF Next, Command, HandleEvent, Tasks

-----------------------------------------------------------------------------
\* The initial state satisfies the inductive invariant.
LEMMA InvInit == Init => IInv
<1> SUFFICES ASSUME Init PROVE IInv
  OBVIOUS
<1> USE DEF Init
<1>1. /\ slot \in [Roles -> Conns \cup {NoConn}]
      /\ session \in [Roles -> Sessions \cup {NoSession}]
      /\ claimed \in [Conns -> {"no", "claimed", "sent"}]
  OBVIOUS
<1>2. opened \in [Conns -> [role : Roles, session : Sessions \cup {NoSession}]]
  BY DEF Roles
<1>3. queue \in Seq(Events) /\ Len(queue) <= QueueCap
  BY ConnectionAssumption
<1>4. TypeOK
  <2>1. attempt \in 0 .. MaxAttempt /\ nextConn \in 1 .. MaxConns + 1
    BY ConnectionAssumption
  <2>2. /\ connecting \in Conns \cup {NoConn} /\ via \in {"command", "timer"}
        /\ deadline \in 0 .. MaxBackoffShift \cup {NoDeadline}
        /\ live \in SUBSET Conns /\ out \in SUBSET States
    OBVIOUS
  <2>3. joined \in BOOLEAN /\ server \in BOOLEAN /\ user \in BOOLEAN /\ exited \in BOOLEAN
    OBVIOUS
  <2> QED
    BY <1>1, <1>2, <1>3, <2>1, <2>2, <2>3, Zenon DEF TypeOK
<1>5. LiveIsOwned
  BY DEF LiveIsOwned, NoConn
<1> QED
  BY <1>4, <1>5 DEF IInv, DeadlineMeansDown, SlotSessionCurrent, BackoffMatchesAttempt,
                    ConnectingIsFresh

\* Every variable of the supervisor keeps its type, whatever the bounds.
THEOREM TypeCorrect == Spec => []TypeOK
<1>1. Init => TypeOK
  BY InvInit DEF IInv
<1> QED
  BY <1>1, TypeStep, PTL DEF Spec

\* The inductive invariant holds in every reachable state.
THEOREM InvHolds == Spec => []IInv
BY InvInit, InvStep, PTL DEF Spec

\* A reconnect is pending only while the voice role is down and nobody dials it,
\* and it was armed with the backoff of the attempts counted
\* (schedule_reconnect, reset_reconnect, handle_reconnect_timer).
THEOREM ReconnectSound == Spec => [](DeadlineMeansDown /\ BackoffMatchesAttempt)
<1>1. IInv => DeadlineMeansDown /\ BackoffMatchesAttempt
  BY DEF IInv
<1> QED
  BY <1>1, InvHolds, PTL

\* No connection leaks and every slot holds a running connection of its role
\* (clear_*_connection, try_connect*, VoiceConnection::shutdown).
THEOREM OwnershipSound == Spec => []LiveIsOwned
<1>1. IInv => LiveIsOwned
  BY DEF IInv
<1> QED
  BY <1>1, InvHolds, PTL

\* A connection in a slot authenticated with the session its role holds
\* (the session comparison of the VoiceState command).
THEOREM SessionSound == Spec => []SlotSessionCurrent
<1>1. IInv => SlotSessionCurrent
  BY DEF IInv
<1> QED
  BY <1>1, InvHolds, PTL

-----------------------------------------------------------------------------
(* What a step may do to a slot: the action properties.                      *)

\* The credentials a dial needed are still there while its connection is, so a
\* lost voice transport can be dialled again.
VoiceHasCreds ==
  slot["voice"] # NoConn \/ (connecting # NoConn /\ opened[connecting].role = "voice")
    => joined /\ server /\ user

\* A role that is not cleared keeps its slot, and a role that is has none.
LEMMA WithoutSlot ==
  ASSUME NEW torn, NEW r \in Roles
  PROVE  Without(torn)[r] = IF r \in torn THEN NoConn ELSE slot[r]
BY DEF Without

\* maybe_try_connect sends what the handler said before.
LEMMA SaidIsSent ==
  ASSUME NEW up, NEW ready, NEW sess, NEW said, NEW kept,
         MaybeTryConnect(up, ready, sess, said, kept)
  PROVE  said \subseteq out'
BY DEF MaybeTryConnect, ScheduleReconnect

\* Only the steps that clear slots empty one, and those that clear the watch role
\* report it.
LEMMA WatchStep ==
  ASSUME IInv, Next, slot["watch"] # NoConn, slot'["watch"] = NoConn, ~exited'
  PROVE  \E status \in {"connecting", "disconnected"} : Say("watch", status) \in out'
<1> DEFINE Reported == \E status \in {"connecting", "disconnected"} : Say("watch", status) \in out'
<1> USE DEF slots, Roles, StreamRoles
<1>1. ASSUME UNCHANGED slot PROVE Reported
  BY <1>1
<1>2. CASE Join \/ (\E completes \in BOOLEAN : VoiceServer(completes)) \/ ReconnectTimer
           \/ HandleReady \/ HandleMedia \/ Tasks
  BY <1>1, <1>2 DEF Join, VoiceServer, ReconnectTimer, HandleReady, HandleMedia, Tasks,
     SendMedia, TaskFails, SendDisconnected, LateDisconnected
<1>3. ASSUME NEW sess \in Sessions \cup {NoSession}, NEW u \in BOOLEAN, VoiceState(sess, u)
      PROVE  Reported
  <2> DEFINE torn == SessionChanged(sess)
             said == {Say(r, "disconnected") : r \in torn \cap StreamRoles}
             now  == IF sess = NoSession THEN session["voice"] ELSE sess
  <2>1. /\ slot' = Without(torn)
        /\ MaybeTryConnect(Without(torn)["voice"] # NoConn, HasCredentials(server, user \/ u, now),
                           now, said, Surviving(torn))
    BY <1>3 DEF VoiceState
  <2>2. "watch" \in torn
    BY <2>1, WithoutSlot
  <2>3. Say("watch", "disconnected") \in said
    BY <2>2
  <2>4. said \subseteq out'
    BY <2>1, SaidIsSent
  <2> QED
    BY <2>3, <2>4
<1>4. ASSUME NEW role \in StreamRoles, NEW sess \in Sessions, StreamConnect(role, sess)
      PROVE  Reported
  <2>1. role = "watch"
    BY <1>4, WithoutSlot DEF StreamConnect
  <2> QED
    BY <1>4, <2>1 DEF StreamConnect
<1>5. ASSUME NEW role \in StreamRoles, StreamDisconnect(role) PROVE Reported
  <2>1. role = "watch"
    BY <1>5, WithoutSlot DEF StreamDisconnect
  <2> QED
    BY <1>5, <2>1 DEF StreamDisconnect
<1>6. CASE Destroy
  BY <1>6 DEF Destroy
<1>7. CASE FinishConnect
  <2>1. slot' = [slot EXCEPT ![opened[connecting].role] = connecting] /\ connecting # NoConn
    BY <1>7 DEF FinishConnect
  <2>2. slot \in [Roles -> Conns \cup {NoConn}]
    BY DEF IInv, TypeOK
  <2> QED
    BY <2>1, <2>2
<1>8. CASE HandleVoiceLost
  <2>1. slot'["watch"] = slot["watch"]
    BY <1>8, WithoutSlot DEF HandleVoiceLost, VoiceLossClears
  <2> QED
    BY <2>1
<1>9. CASE HandleStreamLost
  <2>1. RoleOf(Head(queue)) = "watch"
    BY <1>9, WithoutSlot DEF HandleStreamLost
  <2> QED
    BY <1>9, <2>1 DEF HandleStreamLost, LossReport
<1> QED
  BY <1>2, <1>3, <1>4, <1>5, <1>6, <1>7, <1>8, <1>9 DEF Next, Command, HandleEvent

\* A step that dials has the credentials, one that does not opens nothing.
LEMMA TryConnectKeepsCreds ==
  ASSUME IInv, connecting = NoConn,
         NEW up \in BOOLEAN, NEW ready \in BOOLEAN, NEW sess, NEW said, NEW kept,
         MaybeTryConnect(up, ready, sess, said, kept),
         ready => joined' /\ server' /\ user'
  PROVE  connecting' # NoConn => joined' /\ server' /\ user'
BY DEF MaybeTryConnect, OpensNone

LEMMA CredsStep == IInv /\ VoiceHasCreds /\ [Next]_vars => VoiceHasCreds'
<1> SUFFICES ASSUME IInv, VoiceHasCreds, [Next]_vars PROVE VoiceHasCreds'
  OBVIOUS
<1> USE DEF slots, creds, Roles, StreamRoles
<1>0. TypeOK
  BY DEF IInv
<1>1. ASSUME UNCHANGED <<slot, connecting, opened>>, joined => joined', server => server',
             user => user'
      PROVE  VoiceHasCreds'
  BY <1>1 DEF VoiceHasCreds
<1>2. CASE Join \/ HandleReady \/ HandleMedia \/ Tasks \/ UNCHANGED vars
  BY <1>0, <1>1, <1>2 DEF Join, HandleReady, HandleMedia, Tasks, SendMedia, TaskFails,
     SendDisconnected, LateDisconnected, vars
<1>3. ASSUME NEW completes \in BOOLEAN, VoiceServer(completes) PROVE VoiceHasCreds'
  <2> DEFINE ready == HasCredentials(server \/ completes, user, session["voice"])
  <2>1. /\ MaybeTryConnect(slot["voice"] # NoConn, ready, session["voice"], {}, live)
        /\ connecting = NoConn /\ slot' = slot
        /\ joined' = joined /\ user' = user /\ server' = (server \/ completes)
    BY <1>3 DEF VoiceServer, AtSelect
  <2>2. ready => joined' /\ server' /\ user'
    BY <2>1 DEF HasCredentials
  <2>3. ready \in BOOLEAN
    BY <1>0 DEF HasCredentials, TypeOK
  <2>4. connecting' # NoConn => joined' /\ server' /\ user'
    BY <2>1, <2>2, <2>3, TryConnectKeepsCreds
  <2> QED
    BY <2>1, <2>4 DEF VoiceHasCreds
<1>4. ASSUME NEW sess \in Sessions \cup {NoSession}, NEW u \in BOOLEAN, VoiceState(sess, u)
      PROVE  VoiceHasCreds'
  <2> DEFINE torn == SessionChanged(sess)
             said == {Say(r, "disconnected") : r \in torn \cap StreamRoles}
             now  == IF sess = NoSession THEN session["voice"] ELSE sess
             ready == HasCredentials(server, user \/ u, now)
  <2>1. /\ MaybeTryConnect(Without(torn)["voice"] # NoConn, ready, now, said, Surviving(torn))
        /\ connecting = NoConn /\ slot' = Without(torn)
        /\ joined' = joined /\ server' = server /\ user' = (user \/ u)
    BY <1>4 DEF VoiceState, AtSelect
  <2>2. ready => joined' /\ server' /\ user'
    BY <2>1 DEF HasCredentials
  <2>3. ready \in BOOLEAN
    BY <1>0 DEF HasCredentials, TypeOK
  <2> HIDE DEF ready, said, now
  <2>4. connecting' # NoConn => joined' /\ server' /\ user'
    BY <2>1, <2>2, <2>3, TryConnectKeepsCreds
  <2>5. slot'["voice"] # NoConn => slot["voice"] # NoConn
    BY <2>1, WithoutSlot
  <2> QED
    BY <2>1, <2>4, <2>5 DEF VoiceHasCreds
<1>5. ASSUME NEW role \in StreamRoles,
             (\E sess \in Sessions : StreamConnect(role, sess)) \/ StreamDisconnect(role)
      PROVE  VoiceHasCreds'
  <2>1. /\ UNCHANGED <<joined, server, user>> /\ slot' = Without({role})
        /\ \/ \E sess \in Sessions : Opens(role, sess, "command", Replaced(role))
           \/ connecting' = NoConn
    BY <1>5 DEF StreamConnect, StreamDisconnect, OpensNone, AtSelect
  <2>2. slot'["voice"] = slot["voice"]
    BY <2>1, WithoutSlot
  <2>3. connecting' # NoConn => opened'[connecting'].role = role
    <3>1. opened \in [Conns -> [role : Roles, session : Sessions \cup {NoSession}]]
          /\ nextConn \in 1 .. MaxConns + 1
      BY <1>0 DEF TypeOK
    <3>2. ASSUME NEW sess, Opens(role, sess, "command", Replaced(role))
          PROVE  opened'[connecting'].role = role
      <4>1. nextConn \in Conns
        BY <3>1, <3>2, ConnectionAssumption DEF Opens, Conns
      <4> QED
        BY <3>1, <3>2, <4>1 DEF Opens
    <3> QED
      BY <2>1, <3>2
  <2> QED
    BY <2>1, <2>2, <2>3 DEF VoiceHasCreds
<1>6. CASE Destroy
  BY <1>6, WithoutSlot DEF Destroy, OpensNone, AtSelect, VoiceHasCreds
<1>7. CASE FinishConnect
  <2>1. /\ slot' = [slot EXCEPT ![opened[connecting].role] = connecting] /\ connecting # NoConn
        /\ connecting' = NoConn /\ UNCHANGED <<joined, server, user>>
    BY <1>7 DEF FinishConnect
  <2>2. slot \in [Roles -> Conns \cup {NoConn}]
    BY <1>0 DEF TypeOK
  <2> QED
    BY <2>1, <2>2 DEF VoiceHasCreds
<1>8. CASE ReconnectTimer
  <2>1. UNCHANGED <<slot, joined, server, user>> /\ connecting = NoConn
    BY <1>8 DEF ReconnectTimer, AtSelect
  <2>2. connecting' # NoConn => joined /\ server /\ user
    BY <1>8, <2>1 DEF ReconnectTimer, OpensNone, HasCredentials
  <2> QED
    BY <2>1, <2>2 DEF VoiceHasCreds
<1>9. CASE HandleVoiceLost
  BY <1>9, WithoutSlot DEF HandleVoiceLost, OpensNone, Received, AtSelect, VoiceLossClears, VoiceHasCreds
<1>10. CASE HandleStreamLost
  <2>1. UNCHANGED <<joined, server, user>> /\ connecting' = NoConn
    BY <1>10 DEF HandleStreamLost, OpensNone, Received, AtSelect
  <2>2. slot'["voice"] = slot["voice"]
    BY <1>10, WithoutSlot DEF HandleStreamLost
  <2> QED
    BY <2>1, <2>2 DEF VoiceHasCreds
<1> QED
  BY <1>2, <1>3, <1>4, <1>5, <1>6, <1>7, <1>8, <1>9, <1>10 DEF Next, Command, HandleEvent

\* A reconnect scheduled for a joined channel has a deadline.
LEMMA ScheduleArms ==
  ASSUME TypeOK, NEW said, NEW armed, ScheduleReconnect(said, armed), joined
  PROVE  deadline' # NoDeadline
<1>1. attempt' \in Nat \ {0} /\ deadline' = BackoffShift(attempt')
  BY ConnectionAssumption DEF ScheduleReconnect, TypeOK
<1>2. deadline' \in 0 .. MaxBackoffShift
  BY <1>1, ShiftBounded
<1> QED
  BY <1>2, ConnectionAssumption DEF NoDeadline

LEMMA VoiceStep ==
  ASSUME IInv, VoiceHasCreds, Next, slot["voice"] # NoConn, slot'["voice"] = NoConn, ~exited'
  PROVE  \/ deadline' # NoDeadline
         \/ connecting' # NoConn /\ opened'[connecting'].role = "voice"
<1> DEFINE Retried == \/ deadline' # NoDeadline
                      \/ connecting' # NoConn /\ opened'[connecting'].role = "voice"
<1> USE DEF slots, creds, Roles, StreamRoles
<1>0. TypeOK /\ joined /\ server /\ user
  BY DEF IInv, VoiceHasCreds
<1>1. ASSUME UNCHANGED slot PROVE Retried
  BY <1>1
<1>2. CASE Join \/ (\E completes \in BOOLEAN : VoiceServer(completes)) \/ ReconnectTimer
           \/ HandleReady \/ HandleMedia \/ Tasks
  BY <1>1, <1>2 DEF Join, VoiceServer, ReconnectTimer, HandleReady, HandleMedia, Tasks,
     SendMedia, TaskFails, SendDisconnected, LateDisconnected
<1>3. ASSUME NEW sess \in Sessions \cup {NoSession}, NEW u \in BOOLEAN, VoiceState(sess, u)
      PROVE  Retried
  <2> DEFINE torn == SessionChanged(sess)
             said == {Say(r, "disconnected") : r \in torn \cap StreamRoles}
             now  == IF sess = NoSession THEN session["voice"] ELSE sess
             ready == HasCredentials(server, user \/ u, now)
  <2>1. /\ slot' = Without(torn)
        /\ MaybeTryConnect(Without(torn)["voice"] # NoConn, ready, now, said, Surviving(torn))
    BY <1>3 DEF VoiceState
  <2>2. "voice" \in torn
    BY <2>1, WithoutSlot
  <2>3. sess # NoSession
    BY <2>2 DEF SessionChanged
  <2>4. ready /\ Without(torn)["voice"] = NoConn
    BY <1>0, <2>1, <2>3 DEF HasCredentials
  <2> HIDE DEF ready, now, said, torn
  <2>5. \/ deadline # NoDeadline /\ deadline' = deadline
        \/ Opens("voice", now, "command", Surviving(torn))
        \/ ScheduleReconnect(said, NoDeadline)
    BY <2>1, <2>4 DEF MaybeTryConnect, retry
  <2>6. CASE Opens("voice", now, "command", Surviving(torn))
    <3>1. opened \in [Conns -> [role : Roles, session : Sessions \cup {NoSession}]]
          /\ nextConn \in 1 .. MaxConns + 1
      BY <1>0 DEF TypeOK
    <3>2. nextConn \in Conns /\ nextConn # NoConn
      BY <2>6, <3>1, ConnectionAssumption DEF Opens, Conns, NoConn
    <3> QED
      BY <2>6, <3>1, <3>2 DEF Opens
  <2> QED
    BY <1>0, <2>5, <2>6, ScheduleArms
<1>4. ASSUME NEW role \in StreamRoles,
             (\E sess \in Sessions : StreamConnect(role, sess)) \/ StreamDisconnect(role)
      PROVE  Retried
  <2>1. slot'["voice"] = slot["voice"]
    BY <1>4, WithoutSlot DEF StreamConnect, StreamDisconnect
  <2> QED
    BY <2>1
<1>5. CASE Destroy
  BY <1>5 DEF Destroy
<1>6. CASE FinishConnect
  <2>1. slot' = [slot EXCEPT ![opened[connecting].role] = connecting] /\ connecting # NoConn
    BY <1>6 DEF FinishConnect
  <2>2. slot \in [Roles -> Conns \cup {NoConn}]
    BY <1>0 DEF TypeOK
  <2> QED
    BY <2>1, <2>2
<1>7. CASE HandleVoiceLost
  BY <1>0, <1>7, ScheduleArms DEF HandleVoiceLost
<1>8. CASE HandleStreamLost
  <2>1. slot'["voice"] = slot["voice"]
    BY <1>8, WithoutSlot DEF HandleStreamLost
  <2> QED
    BY <2>1
<1> QED
  BY <1>2, <1>3, <1>4, <1>5, <1>6, <1>7, <1>8 DEF Next, Command, HandleEvent

-----------------------------------------------------------------------------
\* The step that empties the slot of the watch transport tells the parent, unless
\* the process exits (clear_stream_watch_connection and its callers).
THEOREM WatchSound == Spec => WatchLossReported
<1>1. IInv /\ [Next]_vars =>
        [slot["watch"] # NoConn /\ slot'["watch"] = NoConn /\ ~exited'
           => \E status \in {"connecting", "disconnected"} : Say("watch", status) \in out']_vars
  BY WatchStep
<1> QED
  BY <1>1, InvHolds, PTL DEF Spec, WatchLossReported

\* The step that empties the slot of the voice transport leaves a dial in progress
\* or an armed reconnect timer: the credentials of the lost connection are known
\* still, so no path ends with voice down for good (handle_disconnected,
\* apply_session_update, schedule_reconnect).
THEOREM RetrySound == Spec => VoiceLossIsRetried
<1>1. Init => VoiceHasCreds
  BY DEF Init, VoiceHasCreds, Roles
<1>2. Spec => []VoiceHasCreds
  BY <1>1, CredsStep, InvHolds, PTL DEF Spec
<1>3. IInv /\ VoiceHasCreds /\ [Next]_vars =>
        [slot["voice"] # NoConn /\ slot'["voice"] = NoConn /\ ~exited'
           => \/ deadline' # NoDeadline
              \/ connecting' # NoConn /\ opened'[connecting'].role = "voice"]_vars
  BY VoiceStep
<1> QED
  BY <1>2, <1>3, InvHolds, PTL DEF Spec, VoiceLossIsRetried
=============================================================================
