---------------------------------- MODULE Dave ----------------------------------
(***************************************************************************)
(* The DAVE session of one transport of clankvox: the DaveManager in the   *)
(* role's slot, the voice WebSocket's read task that drives it from        *)
(* Discord's opcodes, and the UDP task that executes an overdue downgrade. *)
(*                                                                         *)
(* The read task changes the manager under its lock, drops the lock, and   *)
(* then awaits its sends one by one: `todo` is what it still has to send,  *)
(* and until that is empty it reads no opcode.  The UDP task and the main  *)
(* loop, which empties the slot, run in between.                           *)
(*                                                                         *)
(* Discord is unrestricted: any opcode, any transition, at any time.  The  *)
(* MLS session is davey's, an external crate: whether it accepts a commit, *)
(* a welcome or a reinit is a choice here, and opcodes that reach davey    *)
(* alone (OP25, OP27) and the decryption of media are not modelled.  Nor   *)
(* is the recovery from decrypt failures: track_decrypt_failure always     *)
(* answers FALSE (src/dave.rs:457), so its callers never start one.        *)
(***************************************************************************)
EXTENDS Integers, Sequences

CONSTANTS
  Tids,       \* transition ids, 0 (immediate initialization) among them
  Versions,   \* protocol versions, 0 (no encryption) among them
  Wait,       \* PENDING_DOWNGRADE_AUTO_EXECUTE_SECS
  NoManager,  \* Option::None in the slot
  NoTimer,    \* Option::None for pending_downgrade_since
  NotPending, \* no entry of pending_transitions
  MaxOps      \* bound: opcodes Discord sends in one behaviour

ASSUME DaveAssumption ==
  /\ Tids \subseteq Nat /\ 0 \in Tids
  /\ Versions \subseteq Nat /\ 0 \in Versions
  /\ Wait \in Nat \ {0}
  /\ NoTimer \notin 0 .. Wait
  /\ NotPending \notin Versions
  /\ MaxOps \in Nat

Managers == [ready : BOOLEAN, version : Versions,
             pending : [Tids -> Versions \cup {NotPending}], last : Tids,
             reinitializing : BOOLEAN, since : 0 .. Wait \cup {NoTimer}]

ASSUME ManagerAssumption == NoManager \notin Managers

Sends == [op : {"OP23", "OP31"}, tid : Tids] \cup [op : {"OP26", "DaveReady", "AskReady"}]

VARIABLES
  dm,     \* the role's slot: a manager or none
  conn,   \* the role's connection; "closed": its read task has ended
  todo,   \* what it still has to send before the next opcode
  ops,    \* opcodes received
  acked,  \* ghost: transitions OP23 was sent for since they became pending
  asked,  \* ghost: a prepared epoch waits for its key package
  told    \* ghost: the main loop knows that this session is ready

vars == <<dm, conn, todo, ops, acked, asked, told>>

TypeOK ==
  /\ dm \in Managers \cup {NoManager}
  /\ conn \in {"none", "open", "closed"}
  /\ todo \in Seq(Sends)
  /\ ops \in 0 .. MaxOps
  /\ acked \subseteq Tids
  /\ asked \in BOOLEAN
  /\ told \in BOOLEAN

Init ==
  /\ dm = NoManager
  /\ conn = "none"
  /\ todo = <<>>
  /\ ops = 0
  /\ acked = {}
  /\ asked = FALSE
  /\ told = FALSE

-----------------------------------------------------------------------------
(* The DaveManager's methods, as functions of a manager.                     *)

NothingPending == [t \in Tids |-> NotPending]
Pending(m) == {t \in Tids : m.pending[t] # NotPending}

\* DaveManager::new; it fails at version 0.
NewManager(v) ==
  [ready |-> FALSE, version |-> v, pending |-> NothingPending, last |-> 0,
   reinitializing |-> FALSE, since |-> NoTimer]

\* pending_downgrade_since after an execution: only a change to version 0
\* stops the timer.
TimerAfter(m, v) == IF m.version # v /\ v = 0 THEN NoTimer ELSE m.since

\* execute_transition of a pending t; of any other it does nothing.
Execute(m, t) ==
  [m EXCEPT !.version = m.pending[t], !.since = TimerAfter(m, m.pending[t]),
            !.pending[t] = NotPending, !.reinitializing = FALSE, !.last = t]

\* prepare_transition: transition 0 is executed at once.
Prepare(m, t, v) ==
  LET prepared == [m EXCEPT !.pending[t] = v]
  IN  IF t = 0 THEN Execute(prepared, 0)
      ELSE IF v = 0 THEN [prepared EXCEPT !.since = 0]
      ELSE prepared

\* Mutant of StorePending: a commit of transition 0 leaves the reinitialization open.
StorePendingOnly(m, t) ==
  IF t = 0 THEN [m EXCEPT !.last = 0] ELSE [m EXCEPT !.pending[t] = m.version]

\* store_pending_transition: the version is the current one, whatever was prepared.
StorePending(m, t) ==
  IF t = 0 THEN [m EXCEPT !.reinitializing = FALSE, !.last = 0]
  ELSE [m EXCEPT !.pending[t] = m.version]

\* Mutant of Reinit: the transitions of the old session stay pending.
ReinitKeepsPending(m) ==
  [m EXCEPT !.ready = FALSE, !.reinitializing = TRUE, !.since = NoTimer]

\* Mutant of Reinit: the new session counts as ready.
ReinitStaysReady(m) ==
  [m EXCEPT !.reinitializing = TRUE, !.since = NoTimer, !.pending = NothingPending]

\* reinit, when it succeeds: never at version 0, where NonZeroU16::new fails.
Reinit(m) ==
  [m EXCEPT !.ready = FALSE, !.reinitializing = TRUE, !.since = NoTimer,
            !.pending = NothingPending]

-----------------------------------------------------------------------------
(* The transport: it is connected, fails, is torn down.                      *)

Op23(t) == [op |-> "OP23", tid |-> t]
Op31(t) == [op |-> "OP31", tid |-> t]
Op26 == [op |-> "OP26"]
DaveReady == [op |-> "DaveReady"]
AskReady == [op |-> "AskReady"]
If(send, condition) == IF condition THEN <<send>> ELSE <<>>
Owed(send) == \E i \in DOMAIN todo : todo[i] = send

\* connect: the session description's version, and davey, decide whether a manager
\* is made; without one the slot keeps what it held.  connect itself fails when its
\* OP26 cannot be sent, and leaves the manager it made in the slot.
Connect(v, accepts, sends) ==
  LET made == v > 0 /\ accepts
  IN  /\ conn = "none"
      /\ dm' = IF made THEN NewManager(v) ELSE dm
      /\ conn' = IF made /\ ~sends THEN "none" ELSE "open"
      /\ acked' = {}
      /\ told' = FALSE
      /\ UNCHANGED <<todo, ops, asked>>

\* The WebSocket closes between two opcodes: the read loop ends, the slot stays.
ReaderEnds ==
  /\ conn = "open" /\ todo = <<>>
  /\ conn' = "closed"
  /\ UNCHANGED <<dm, todo, ops, acked, asked, told>>

\* clear_*_connection: the tasks are aborted and the slot is emptied, whatever was
\* still to be sent.
Teardown ==
  /\ dm' = NoManager
  /\ conn' = "none"
  /\ todo' = <<>>
  /\ asked' = FALSE
  /\ UNCHANGED <<ops, acked, told>>

-----------------------------------------------------------------------------
(* The read task: one opcode, then its sends.                                *)

Receive == conn = "open" /\ todo = <<>> /\ ops < MaxOps /\ ops' = ops + 1 /\ UNCHANGED conn
WithManager == Receive /\ dm # NoManager

\* DavePrepareTransition
OP21(t, v) ==
  /\ WithManager
  /\ dm' = Prepare(dm, t, v)
  /\ todo' = If(Op23(t), t # 0)
  /\ acked' = acked \ {t}
  /\ UNCHANGED <<asked, told>>

\* Mutant of Executable: an unknown transition is executed too.
ExecutableAny(t) == TRUE

\* execute_transition finds t among the pending ones.
Executable(t) == t \in Pending(dm)

\* DaveExecuteTransition: whether the session is ready is asked in a second lock.
OP22(t) ==
  /\ WithManager
  /\ Executable(t)
  /\ dm' = Execute(dm, t)
  /\ todo' = <<AskReady>>
  /\ UNCHANGED <<acked, asked, told>>

\* DavePrepareEpoch with a version above 0: a manager is made, or the one in the
\* slot is initialized again, at the version it has.  (Version 0 is ignored.)
OP24(v, accepts) ==
  LET made == accepts /\ (dm = NoManager \/ dm.version > 0)
  IN  /\ Receive /\ v > 0
      /\ dm' = IF ~made THEN dm ELSE IF dm = NoManager THEN NewManager(v) ELSE Reinit(dm)
      /\ todo' = If(Op26, made)
      /\ acked' = IF made THEN {} ELSE acked
      /\ asked' = (asked \/ accepts)
      /\ told' = (told /\ ~made)

\* A commit or welcome that davey accepts; davey says whether the session is ready.
Accepted(t, isReady) ==
  /\ WithManager
  /\ dm' = [StorePending(dm, t) EXCEPT !.ready = isReady]
  /\ todo' = If(Op23(t), t # 0) \o If(DaveReady, isReady)
  /\ acked' = acked \ {t}
  /\ told' = (told /\ isReady)
  /\ UNCHANGED asked

\* A commit or welcome that davey refuses: reinit, and OP31 with OP26 if that works.
Refused(accepts) ==
  LET made == accepts /\ dm.version > 0
  IN  /\ WithManager
      /\ dm' = IF made THEN Reinit(dm) ELSE dm
      /\ todo' = IF made THEN <<Op31(dm.last), Op26>> ELSE <<>>
      /\ acked' = IF made THEN {} ELSE acked
      /\ told' = (told /\ ~made)
      /\ UNCHANGED asked

\* A welcome to a group we are in: harmless if the commit is pending, stale if not.
AlreadyInGroup(t) ==
  /\ WithManager
  /\ IF t \in Pending(dm)
       THEN /\ dm' = StorePending(dm, t)
            /\ todo' = If(Op23(t), t # 0) \o If(DaveReady, dm.ready)
            /\ acked' = acked \ {t}
       ELSE /\ todo' = If(DaveReady, dm.ready)
            /\ UNCHANGED <<dm, acked>>
  /\ UNCHANGED <<asked, told>>

\* MLS Announce Commit Transition
OP29(t, isReady, accepts) == Accepted(t, isReady) \/ Refused(accepts)

\* MLS Welcome
OP30(t, isReady, accepts) == Accepted(t, isReady) \/ AlreadyInGroup(t) \/ Refused(accepts)

\* Hands the next send to the writer or the main loop, which take it in time.
Send ==
  /\ todo # <<>>
  /\ LET send == Head(todo)
         isReady == send.op = "AskReady" /\ dm # NoManager /\ dm.ready
     IN  /\ todo' = If(DaveReady, isReady) \o Tail(todo)
         /\ acked' = IF send.op = "OP23" THEN acked \cup {send.tid} ELSE acked
         /\ asked' = (asked /\ send.op # "OP26")
         /\ told' = (told \/ send.op = "DaveReady")
  /\ UNCHANGED <<dm, conn, ops>>

-----------------------------------------------------------------------------
(* The UDP task, on every audio packet and every complete video frame.       *)

\* Mutant of AutoExecute: an overdue timer is started again.
AutoExecuteLater == {[dm EXCEPT !.since = 0]}

\* maybe_auto_execute_downgrade once the timer is overdue: the managers it may
\* leave.  HashMap::iter finds any pending downgrade.
AutoExecute ==
  LET downgrades == {t \in Tids : dm.pending[t] = 0}
  IN  IF downgrades = {} THEN {[dm EXCEPT !.since = NoTimer]}
      ELSE {Execute(dm, t) : t \in downgrades}

TimerRuns == dm # NoManager /\ dm.since # NoTimer

Packet ==
  /\ conn # "none" /\ TimerRuns /\ dm.since = Wait
  /\ dm' \in AutoExecute
  /\ UNCHANGED <<conn, todo, ops, acked, asked, told>>

\* A second passes.
Second ==
  /\ TimerRuns /\ dm.since < Wait
  /\ dm' = [dm EXCEPT !.since = @ + 1]
  /\ UNCHANGED <<conn, todo, ops, acked, asked, told>>

-----------------------------------------------------------------------------

Opcode ==
  \/ \E t \in Tids, v \in Versions : OP21(t, v)
  \/ \E t \in Tids : OP22(t)
  \/ \E v \in Versions, accepts \in BOOLEAN : OP24(v, accepts)
  \/ \E t \in Tids, isReady, accepts \in BOOLEAN : OP29(t, isReady, accepts)
  \/ \E t \in Tids, isReady, accepts \in BOOLEAN : OP30(t, isReady, accepts)

Next ==
  \/ \E v \in Versions, accepts, sends \in BOOLEAN : Connect(v, accepts, sends)
  \/ ReaderEnds
  \/ Teardown
  \/ Opcode
  \/ Send
  \/ Packet
  \/ Second

Spec == Init /\ [][Next]_vars

\* Time passes and the read task's sends are taken.  That packets keep coming is
\* no fairness of the code; a property that needs it says so.
FairSpec == Spec /\ WF_vars(Send) /\ WF_vars(Second)

-----------------------------------------------------------------------------
(* Properties.                                                               *)

\* A session that is ready is reinitializing only while a transition is pending:
\* the suppression of decrypt failures that reinit starts ends with the transition
\* that ends it, for every order of commits, welcomes and refusals.
SuppressionEnds ==
  dm # NoManager => (dm.ready /\ dm.reinitializing => Pending(dm) # {})

\* Discord executes a transition when all members confirmed it: each one that waits
\* for OP22 was confirmed by OP23, or is about to be, in the session it belongs to.
PendingIsConfirmed ==
  dm # NoManager =>
    \A t \in Pending(dm) :
      t # 0 /\ (t \in acked \/ Owed(Op23(t)))

\* The main loop asks for keyframes once it knows the session ready: it was told of
\* every session that is, or is about to be.
ReadyIsReported ==
  dm # NoManager /\ dm.ready => told \/ Owed(DaveReady)

\* If packets keep coming, a downgrade that waits with its timer running is executed
\* or superseded, although its OP22 never arrives.  (MaxOps keeps Discord from
\* preparing it again for ever.)
OverdueDowngradeEnds ==
  WF_vars(Packet) => ((TimerRuns /\ dm.version > 0) ~> ~(TimerRuns /\ dm.version > 0))

\* Claim (src/voice_conn.rs:1637): "We already sent OP26 when the session/epoch was
\* initialized."  So a prepared epoch that davey accepts has got its OP26, or is
\* about to.
EpochGetsKeyPackage ==
  asked /\ conn = "open" => Owed(Op26)
=============================================================================
