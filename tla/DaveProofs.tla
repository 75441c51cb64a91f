------------------------------- MODULE DaveProofs -------------------------------
(***************************************************************************)
(* Proofs about Dave for every set of transition ids and of versions and   *)
(* every number of opcodes Discord sends.                                  *)
(***************************************************************************)
EXTENDS Dave, TLAPS

\* A manager without a connection is one a failed connect left behind: it took
\* part in nothing yet.  The next connection may inherit it.
LeftoverIsFresh ==
  conn = "none" /\ dm # NoManager => ~dm.ready /\ Pending(dm) = {}

\* The inductive invariant.
IInv ==
  /\ TypeOK
  /\ SuppressionEnds
  /\ PendingIsConfirmed
  /\ ReadyIsReported
  /\ LeftoverIsFresh

-----------------------------------------------------------------------------
(* The DaveManager's methods return managers, and what they do to `pending`. *)

LEMMA NewManagerFacts ==
  ASSUME NEW v \in Versions
  PROVE  /\ NewManager(v) \in Managers
         /\ Pending(NewManager(v)) = {}
         /\ ~NewManager(v).ready /\ ~NewManager(v).reinitializing
BY DaveAssumption DEF NewManager, Managers, Pending, NothingPending

LEMMA ReinitFacts ==
  ASSUME NEW m \in Managers
  PROVE  /\ Reinit(m) \in Managers
         /\ Pending(Reinit(m)) = {}
         /\ ~Reinit(m).ready
BY DEF Reinit, Managers, Pending, NothingPending

LEMMA ExecuteFacts ==
  ASSUME NEW m \in Managers, NEW t \in Pending(m)
  PROVE  /\ Execute(m, t) \in Managers
         /\ Pending(Execute(m, t)) = Pending(m) \ {t}
         /\ Execute(m, t).ready = m.ready
         /\ ~Execute(m, t).reinitializing
<1>1. t \in Tids /\ m.pending[t] \in Versions
  BY DEF Pending, Managers
<1>2. TimerAfter(m, m.pending[t]) \in 0 .. Wait \cup {NoTimer}
  BY DEF TimerAfter, Managers
<1>3. Execute(m, t) \in Managers
  BY <1>1, <1>2 DEF Execute, Managers
<1>4. Execute(m, t).pending = [m.pending EXCEPT ![t] = NotPending]
  BY DEF Execute, Managers
<1>5. Pending(Execute(m, t)) = Pending(m) \ {t}
  BY <1>1, <1>4 DEF Pending, Managers
<1> QED
  BY <1>3, <1>5 DEF Execute, Managers

LEMMA StorePendingFacts ==
  ASSUME NEW m \in Managers, NEW t \in Tids
  PROVE  /\ StorePending(m, t) \in Managers
         /\ Pending(StorePending(m, t)) = Pending(m) \cup ({t} \ {0})
         /\ StorePending(m, t).ready = m.ready
         /\ t = 0 => ~StorePending(m, t).reinitializing
<1>1. CASE t = 0
  BY <1>1, DaveAssumption DEF StorePending, Managers, Pending
<1>2. CASE t # 0
  <2>1. m.version \in Versions /\ m.version # NotPending
    BY DaveAssumption DEF Managers
  <2>2. StorePending(m, t) = [m EXCEPT !.pending[t] = m.version]
    BY <1>2 DEF StorePending
  <2>3. StorePending(m, t) \in Managers
    BY <2>1, <2>2 DEF Managers
  <2>4. StorePending(m, t).pending = [m.pending EXCEPT ![t] = m.version]
    BY <2>2 DEF Managers
  <2>5. Pending(StorePending(m, t)) = Pending(m) \cup {t}
    BY <2>1, <2>4 DEF Pending, Managers
  <2> QED
    BY <1>2, <2>2, <2>3, <2>5 DEF Managers
<1> QED
  BY <1>1, <1>2

LEMMA PrepareFacts ==
  ASSUME NEW m \in Managers, NEW t \in Tids, NEW v \in Versions
  PROVE  /\ Prepare(m, t, v) \in Managers
         /\ t = 0 => /\ Pending(Prepare(m, t, v)) = Pending(m) \ {0}
                     /\ ~Prepare(m, t, v).reinitializing
         /\ t # 0 => Pending(Prepare(m, t, v)) = Pending(m) \cup {t}
         /\ Prepare(m, t, v).ready = m.ready
<1> DEFINE p == [m EXCEPT !.pending[t] = v]
<1>1. v # NotPending
  BY DaveAssumption
<1>2. p \in Managers /\ p.ready = m.ready
  BY DEF Managers
<1>3. Pending(p) = Pending(m) \cup {t}
  BY <1>1 DEF Pending, Managers
<1> HIDE DEF p
<1>4. Prepare(m, t, v) = IF t = 0 THEN Execute(p, 0)
                         ELSE IF v = 0 THEN [p EXCEPT !.since = 0] ELSE p
  BY DEF Prepare, p
<1>5. CASE t = 0
  <2>1. 0 \in Pending(p)
    BY <1>3, <1>5
  <2> QED
    BY <1>2, <1>3, <1>4, <1>5, <2>1, ExecuteFacts
<1>6. CASE t # 0 /\ v = 0
  <2>1. Prepare(m, t, v) = [p EXCEPT !.since = 0]
    BY <1>4, <1>6
  <2>2. 0 \in 0 .. Wait
    BY DaveAssumption
  <2>3. Prepare(m, t, v) \in Managers /\ Prepare(m, t, v).ready = p.ready
    BY <1>2, <2>1, <2>2 DEF Managers
  <2>4. Pending(Prepare(m, t, v)) = Pending(p)
    BY <1>2, <2>1 DEF Pending, Managers
  <2> QED
    BY <1>2, <1>3, <1>6, <2>3, <2>4
<1>7. CASE t # 0 /\ v # 0
  BY <1>2, <1>3, <1>4, <1>7
<1> QED
  BY <1>5, <1>6, <1>7

-----------------------------------------------------------------------------
(* What the read task still has to send.                                     *)

LEMMA SendsTyped ==
  /\ \A t \in Tids : Op23(t) \in Sends /\ Op31(t) \in Sends
  /\ Op26 \in Sends /\ DaveReady \in Sends /\ AskReady \in Sends
BY DEF Op23, Op31, Op26, DaveReady, AskReady, Sends

\* The three shapes that an opcode leaves.
LEMMA TodoTyped ==
  ASSUME NEW a \in Sends, NEW b \in Sends, NEW p \in BOOLEAN, NEW q \in BOOLEAN
  PROVE  /\ If(a, p) \in Seq(Sends)
         /\ If(a, p) \o If(b, q) \in Seq(Sends)
         /\ <<a>> \in Seq(Sends) /\ <<a, b>> \in Seq(Sends)
BY DEF If

\* A send that goes behind another one is owed, and so is that one.
LEMMA OwedAfter ==
  ASSUME NEW a \in Sends, NEW b \in Sends, NEW p \in BOOLEAN, NEW q \in BOOLEAN,
         todo' = If(a, p) \o If(b, q)
  PROVE  /\ p => Owed(a)'
         /\ q => Owed(b)'
<1>1. <<a>> \in Seq(Sends) /\ <<b>> \in Seq(Sends) /\ <<>> \in Seq(Sends)
  OBVIOUS
<1>2. ASSUME p PROVE Owed(a)'
  <2>1. todo' = <<a>> \o If(b, q) /\ If(b, q) \in Seq(Sends)
    BY <1>1, <1>2 DEF If
  <2>2. 1 \in DOMAIN todo' /\ todo'[1] = a
    BY <1>1, <2>1
  <2> QED
    BY <2>2 DEF Owed
<1>3. ASSUME q PROVE Owed(b)'
  <2>1. todo' = If(a, p) \o <<b>> /\ If(a, p) \in Seq(Sends)
    BY <1>1, <1>3 DEF If
  <2>2. Len(If(a, p)) + 1 \in DOMAIN todo' /\ todo'[Len(If(a, p)) + 1] = b
    BY <1>1, <2>1
  <2> QED
    BY <2>2 DEF Owed
<1> QED
  BY <1>2, <1>3

LEMMA OwedAlone ==
  ASSUME NEW a, NEW p \in BOOLEAN, todo' = If(a, p), p
  PROVE  Owed(a)'
BY DEF If, Owed

\* Handing over the first send keeps the others owed.
LEMMA SendKeeps ==
  ASSUME TypeOK, Send, NEW s, Owed(s), s # Head(todo)
  PROVE  Owed(s)'
<1> DEFINE ready == Head(todo).op = "AskReady" /\ dm # NoManager /\ dm.ready
<1>1. todo \in Seq(Sends) /\ todo # <<>>
  BY DEF TypeOK, Send
<1>2. PICK i \in DOMAIN todo : todo[i] = s
  BY DEF Owed
<1>3. i # 1 /\ i \in 2 .. Len(todo)
  BY <1>1, <1>2
<1>4. todo' = If(DaveReady, ready) \o Tail(todo)
  BY DEF Send
<1> HIDE DEF ready
<1>5. Tail(todo) \in Seq(Sends) /\ Len(Tail(todo)) = Len(todo) - 1 /\ Tail(todo)[i - 1] = s
  BY <1>1, <1>2, <1>3
<1>6. CASE ready
  <2>1. todo' = <<DaveReady>> \o Tail(todo)
    BY <1>4, <1>6 DEF If
  <2>2. i \in DOMAIN todo' /\ todo'[i] = s
    BY <1>1, <1>3, <1>5, <2>1, SendsTyped
  <2> QED
    BY <2>2 DEF Owed
<1>7. CASE ~ready
  <2>1. todo' = Tail(todo)
    BY <1>4, <1>5, <1>7 DEF If
  <2>2. i - 1 \in DOMAIN todo' /\ todo'[i - 1] = s
    BY <1>3, <1>5, <2>1
  <2> QED
    BY <2>2 DEF Owed
<1> QED
  BY <1>6, <1>7

LEMMA SendTyped ==
  ASSUME TypeOK, Send
  PROVE  todo' \in Seq(Sends) /\ acked' \subseteq Tids /\ asked' \in BOOLEAN /\ told' \in BOOLEAN
<1>1. todo \in Seq(Sends) /\ todo # <<>> /\ Head(todo) \in Sends /\ Tail(todo) \in Seq(Sends)
  BY DEF TypeOK, Send
<1>2. Head(todo).op = "OP23" => Head(todo).tid \in Tids
  BY <1>1 DEF Sends
<1>3. If(DaveReady, Head(todo).op = "AskReady" /\ dm # NoManager /\ dm.ready) \in Seq(Sends)
  BY SendsTyped DEF If
<1>4. todo' \in Seq(Sends)
  BY <1>1, <1>3 DEF Send
<1>5. acked' \subseteq Tids
  BY <1>2 DEF Send, TypeOK
<1> QED
  BY <1>4, <1>5 DEF Send, TypeOK

-----------------------------------------------------------------------------
(* Each action keeps the invariant.                                          *)

LEMMA ConnectKeeps ==
  ASSUME IInv, NEW v \in Versions, NEW accepts \in BOOLEAN, NEW sends \in BOOLEAN,
         Connect(v, accepts, sends)
  PROVE  IInv'
<1>1. dm' = NewManager(v) \/ dm' = dm
  BY DEF Connect
<1>2. TypeOK'
  BY <1>1, NewManagerFacts DEF Connect, IInv, TypeOK
<1>3. dm' # NoManager => ~dm'.ready /\ Pending(dm') = {}
  BY <1>1, NewManagerFacts DEF Connect, IInv, LeftoverIsFresh
<1> QED
  BY <1>2, <1>3 DEF IInv, SuppressionEnds, PendingIsConfirmed, ReadyIsReported, LeftoverIsFresh

LEMMA TeardownKeeps ==
  ASSUME IInv, Teardown
  PROVE  IInv'
<1>1. TypeOK'
  <2>1. todo' \in Seq(Sends)
    BY DEF Teardown
  <2> QED
    BY <2>1 DEF Teardown, IInv, TypeOK
<1>2. dm' = NoManager
  BY DEF Teardown
<1> QED
  BY <1>1, <1>2 DEF IInv, SuppressionEnds, PendingIsConfirmed, ReadyIsReported, LeftoverIsFresh

LEMMA ReaderEndsKeeps == IInv /\ ReaderEnds => IInv'
BY DEF ReaderEnds, IInv, TypeOK, SuppressionEnds, PendingIsConfirmed, ReadyIsReported,
       LeftoverIsFresh, Owed

\* What holds when an opcode is received: nothing is owed, so every pending
\* transition was confirmed and a ready session was reported.
LEMMA Received ==
  ASSUME IInv, WithManager
  PROVE  /\ dm \in Managers
         /\ Pending(dm) \subseteq acked \ {0}
         /\ dm.ready => told
         /\ dm.ready /\ dm.reinitializing => Pending(dm) # {}
         /\ ops' \in 0 .. MaxOps
         /\ conn' = "open"
<1>1. TypeOK /\ dm # NoManager /\ todo = <<>>
  BY DEF WithManager, Receive, IInv
<1>2. \A s : ~Owed(s)
  BY <1>1 DEF Owed
<1>3. dm \in Managers /\ Pending(dm) \subseteq Tids
  BY <1>1 DEF TypeOK, Pending
<1>4. Pending(dm) \subseteq acked \ {0}
  BY <1>1, <1>2, <1>3 DEF IInv, PendingIsConfirmed
<1>5. ops' \in 0 .. MaxOps /\ conn' = "open"
  BY <1>1, DaveAssumption DEF WithManager, Receive, TypeOK
<1> QED
  BY <1>1, <1>2, <1>3, <1>4, <1>5 DEF IInv, ReadyIsReported, SuppressionEnds

\* Enough for IInv' when the manager stays and the connection is open.
LEMMA OpenKeeps ==
  ASSUME TypeOK', dm' \in Managers, conn' # "none",
         dm'.ready /\ dm'.reinitializing => Pending(dm') # {},
         \A t \in Pending(dm') : t # 0 /\ (t \in acked' \/ Owed(Op23(t))'),
         dm'.ready => told' \/ Owed(DaveReady)'
  PROVE  IInv'
BY DEF IInv, SuppressionEnds, PendingIsConfirmed, ReadyIsReported, LeftoverIsFresh

LEMMA OP21Keeps ==
  ASSUME IInv, NEW t \in Tids, NEW v \in Versions, OP21(t, v)
  PROVE  IInv'
<1>1. WithManager /\ TypeOK
  BY DEF OP21, IInv
<1>2. dm' = Prepare(dm, t, v) /\ dm' \in Managers
  BY <1>1, Received, PrepareFacts DEF OP21
<1>3. Pending(dm') \subseteq (Pending(dm) \cup {t}) \ {0} /\ dm'.ready = dm.ready
  BY <1>1, <1>2, Received, PrepareFacts
<1>4. t # 0 => Owed(Op23(t))'
  BY OwedAlone DEF OP21
<1>5. todo' \in Seq(Sends)
  BY SendsTyped, TodoTyped DEF OP21
<1>6. TypeOK'
  BY <1>1, <1>2, <1>5, Received DEF OP21, TypeOK
<1>7. ASSUME dm'.ready, dm'.reinitializing PROVE Pending(dm') # {}
  <2>1. CASE t = 0
    BY <1>1, <1>2, <1>7, <2>1, Received, PrepareFacts
  <2>2. CASE t # 0
    BY <1>1, <1>2, <2>2, Received, PrepareFacts
  <2> QED
    BY <2>1, <2>2
<1>8. \A u \in Pending(dm') : u # 0 /\ (u \in acked' \/ Owed(Op23(u))')
  <2> SUFFICES ASSUME NEW u \in Pending(dm') PROVE u # 0 /\ (u \in acked' \/ Owed(Op23(u))')
    OBVIOUS
  <2>1. u # 0 /\ (u \in Pending(dm) \/ u = t)
    BY <1>3
  <2>2. CASE u = t
    BY <1>4, <2>1, <2>2
  <2>3. CASE u # t
    BY <1>1, <2>1, <2>3, Received DEF OP21
  <2> QED
    BY <2>2, <2>3
<1>9. dm'.ready => told'
  BY <1>1, <1>3, Received DEF OP21
<1>10. conn' # "none"
  BY <1>1, Received
<1> QED
  BY <1>2, <1>6, <1>7, <1>8, <1>9, <1>10, OpenKeeps

LEMMA OP22Keeps ==
  ASSUME IInv, NEW t \in Tids, OP22(t)
  PROVE  IInv'
<1>1. WithManager /\ TypeOK /\ t \in Pending(dm)
  BY DEF OP22, Executable, IInv
<1>2. dm' = Execute(dm, t)
  BY DEF OP22
<1>3. /\ dm' \in Managers /\ Pending(dm') = Pending(dm) \ {t}
      /\ dm'.ready = dm.ready /\ ~dm'.reinitializing
  BY <1>1, <1>2, Received, ExecuteFacts
<1>4. TypeOK'
  BY <1>1, <1>3, Received, SendsTyped, TodoTyped DEF OP22, TypeOK
<1>5. acked' = acked /\ told' = told
  BY DEF OP22
<1> QED
  BY <1>1, <1>3, <1>4, <1>5, Received, OpenKeeps

\* A manager that was made or initialized again: nothing is pending, nothing ready.
LEMMA FreshKeeps ==
  ASSUME TypeOK', dm' \in Managers, conn' # "none", ~dm'.ready, Pending(dm') = {}
  PROVE  IInv'
BY OpenKeeps

LEMMA OP24Keeps ==
  ASSUME IInv, NEW v \in Versions, NEW accepts \in BOOLEAN, OP24(v, accepts)
  PROVE  IInv'
<1> DEFINE made == accepts /\ (dm = NoManager \/ dm.version > 0)
<1>1. TypeOK /\ Receive
  BY DEF OP24, IInv
<1>2. ops' \in 0 .. MaxOps /\ conn' = "open"
  BY <1>1, DaveAssumption DEF Receive, TypeOK
<1>3. CASE made
  <2>1. dm' = IF dm = NoManager THEN NewManager(v) ELSE Reinit(dm)
    BY <1>3 DEF OP24
  <2>2. dm' \in Managers /\ ~dm'.ready /\ Pending(dm') = {}
    BY <1>1, <2>1, NewManagerFacts, ReinitFacts DEF TypeOK
  <2>3. todo' = <<Op26>> /\ acked' = {}
    BY <1>3 DEF OP24, If
  <2>4. TypeOK'
    BY <1>1, <1>2, <2>2, <2>3, SendsTyped, TodoTyped DEF OP24, TypeOK
  <2> QED
    BY <1>2, <2>2, <2>4, FreshKeeps
<1>4. CASE ~made
  <2>1. dm' = dm /\ todo' = <<>> /\ acked' = acked /\ told' = told
    BY <1>1, <1>4 DEF OP24, If, TypeOK
  <2>2. TypeOK'
    <3>1. todo' \in Seq(Sends)
      BY <2>1
    <3>2. asked' \in BOOLEAN
      BY <1>1 DEF OP24, TypeOK
    <3> QED
      BY <1>1, <1>2, <2>1, <3>1, <3>2 DEF TypeOK
  <2>3. CASE dm = NoManager
    BY <2>1, <2>2, <2>3
       DEF IInv, SuppressionEnds, PendingIsConfirmed, ReadyIsReported, LeftoverIsFresh
  <2>4. CASE dm # NoManager
    BY <1>1, <2>1, <2>2, <2>4, Received, OpenKeeps DEF WithManager
  <2> QED
    BY <2>3, <2>4
<1> QED
  BY <1>3, <1>4

LEMMA AcceptedKeeps ==
  ASSUME IInv, NEW t \in Tids, NEW isReady \in BOOLEAN, Accepted(t, isReady)
  PROVE  IInv'
<1> DEFINE m == StorePending(dm, t)
<1>1. WithManager /\ TypeOK
  BY DEF Accepted, IInv
<1>2. m \in Managers /\ Pending(m) = Pending(dm) \cup ({t} \ {0}) /\ (t = 0 => ~m.reinitializing)
  BY <1>1, Received, StorePendingFacts
<1>3. dm' = [m EXCEPT !.ready = isReady]
  BY DEF Accepted
<1> HIDE DEF m
<1>4. /\ dm' \in Managers /\ dm'.ready = isReady
      /\ dm'.reinitializing = m.reinitializing /\ dm'.pending = m.pending
  BY <1>2, <1>3 DEF Managers
<1>5. Pending(dm') = Pending(dm) \cup ({t} \ {0})
  BY <1>2, <1>4 DEF Pending
<1>6. todo' = If(Op23(t), t # 0) \o If(DaveReady, isReady)
  BY DEF Accepted
<1>7. (t # 0 => Owed(Op23(t))') /\ (isReady => Owed(DaveReady)')
  BY <1>6, SendsTyped, OwedAfter
<1>8. TypeOK'
  <2>1. todo' \in Seq(Sends)
    BY <1>6, SendsTyped, TodoTyped
  <2>2. acked' \subseteq Tids /\ asked' \in BOOLEAN /\ told' \in BOOLEAN
    BY <1>1 DEF Accepted, TypeOK
  <2> QED
    BY <1>1, <1>4, <2>1, <2>2, Received DEF TypeOK
<1>9. ASSUME dm'.reinitializing PROVE Pending(dm') # {}
  BY <1>2, <1>4, <1>5, <1>9
<1>10. \A u \in Pending(dm') : u # 0 /\ (u \in acked' \/ Owed(Op23(u))')
  <2> SUFFICES ASSUME NEW u \in Pending(dm') PROVE u # 0 /\ (u \in acked' \/ Owed(Op23(u))')
    OBVIOUS
  <2>1. CASE u = t /\ t # 0
    BY <1>7, <2>1
  <2>2. CASE u # t \/ t = 0
    BY <1>1, <1>5, <2>2, Received DEF Accepted
  <2> QED
    BY <2>1, <2>2
<1>11. conn' # "none"
  BY <1>1, Received
<1> QED
  BY <1>4, <1>7, <1>8, <1>9, <1>10, <1>11, OpenKeeps

LEMMA RefusedKeeps ==
  ASSUME IInv, NEW accepts \in BOOLEAN, Refused(accepts)
  PROVE  IInv'
<1> DEFINE made == accepts /\ dm.version > 0
<1>1. WithManager /\ TypeOK
  BY DEF Refused, IInv
<1>2. conn' = "open" /\ ops' \in 0 .. MaxOps /\ asked' = asked
  BY <1>1, Received DEF Refused
<1>3. CASE made
  <2>1. dm' = Reinit(dm) /\ todo' = <<Op31(dm.last), Op26>> /\ acked' = {} /\ told' = FALSE
    BY <1>1, <1>3 DEF Refused, TypeOK
  <2>2. dm' \in Managers /\ ~dm'.ready /\ Pending(dm') = {}
    BY <1>1, <2>1, Received, ReinitFacts
  <2>3. dm.last \in Tids
    BY <1>1, Received DEF Managers
  <2>4. todo' \in Seq(Sends)
    BY <2>1, <2>3, SendsTyped, TodoTyped
  <2>5. TypeOK'
    BY <1>1, <1>2, <2>1, <2>2, <2>4 DEF TypeOK
  <2> QED
    BY <1>2, <2>2, <2>5, FreshKeeps
<1>4. CASE ~made
  <2>1. dm' = dm /\ todo' = <<>> /\ acked' = acked /\ told' = told
    BY <1>1, <1>4 DEF Refused, TypeOK
  <2>2. todo' \in Seq(Sends)
    BY <2>1
  <2>3. TypeOK'
    BY <1>1, <1>2, <2>1, <2>2 DEF TypeOK
  <2> QED
    BY <1>1, <1>2, <2>1, <2>3, Received, OpenKeeps
<1> QED
  BY <1>3, <1>4

LEMMA AlreadyInGroupKeeps ==
  ASSUME IInv, NEW t \in Tids, AlreadyInGroup(t)
  PROVE  IInv'
<1>1. WithManager /\ TypeOK
  BY DEF AlreadyInGroup, IInv
<1>2. conn' = "open" /\ ops' \in 0 .. MaxOps /\ asked' = asked /\ told' = told
  BY <1>1, Received DEF AlreadyInGroup
<1>3. dm \in Managers /\ dm.ready \in BOOLEAN
  BY <1>1, Received DEF Managers
<1>4. CASE t \in Pending(dm)
  <2>1. dm' = StorePending(dm, t) /\ acked' = acked \ {t}
    BY <1>4 DEF AlreadyInGroup
  <2>2. /\ dm' \in Managers /\ dm'.ready = dm.ready
        /\ Pending(dm') = Pending(dm) \cup ({t} \ {0})
    BY <1>3, <2>1, StorePendingFacts
  <2>3. t # 0
    BY <1>1, <1>4, Received
  <2>4. todo' = If(Op23(t), t # 0) \o If(DaveReady, dm.ready)
    BY <1>4 DEF AlreadyInGroup
  <2>5. Owed(Op23(t))' /\ (dm.ready => Owed(DaveReady)')
    BY <1>3, <2>3, <2>4, SendsTyped, OwedAfter
  <2>6. TypeOK'
    <3>1. todo' \in Seq(Sends)
      BY <1>3, <2>4, SendsTyped, TodoTyped
    <3> QED
      BY <1>1, <1>2, <2>1, <2>2, <3>1 DEF TypeOK
  <2>7. \A u \in Pending(dm') : u # 0 /\ (u \in acked' \/ Owed(Op23(u))')
    <3> SUFFICES ASSUME NEW u \in Pending(dm') PROVE u # 0 /\ (u \in acked' \/ Owed(Op23(u))')
      OBVIOUS
    <3>1. CASE u = t
      BY <2>3, <2>5, <3>1
    <3>2. CASE u # t
      BY <1>1, <2>1, <2>2, <3>2, Received
    <3> QED
      BY <3>1, <3>2
  <2>8. Pending(dm') # {}
    BY <1>4, <2>2
  <2> QED
    BY <1>2, <2>2, <2>5, <2>6, <2>7, <2>8, OpenKeeps
<1>5. CASE t \notin Pending(dm)
  <2>1. dm' = dm /\ acked' = acked /\ todo' = If(DaveReady, dm.ready)
    BY <1>5 DEF AlreadyInGroup
  <2>2. todo' \in Seq(Sends)
    BY <1>3, <2>1, SendsTyped, TodoTyped
  <2>3. TypeOK'
    BY <1>1, <1>2, <2>1, <2>2 DEF TypeOK
  <2> QED
    BY <1>1, <1>2, <1>3, <2>1, <2>3, Received, OpenKeeps
<1> QED
  BY <1>4, <1>5

LEMMA SendStepKeeps ==
  ASSUME IInv, Send
  PROVE  IInv'
<1>1. TypeOK /\ dm' = dm /\ conn' = conn /\ ops' = ops
  BY DEF Send, IInv
<1>2. TypeOK'
  BY <1>1, SendTyped DEF TypeOK
<1>3. ASSUME dm # NoManager, NEW u \in Pending(dm)
      PROVE  u # 0 /\ (u \in acked' \/ Owed(Op23(u))')
  <2>1. u # 0 /\ (u \in acked \/ Owed(Op23(u)))
    BY <1>3 DEF IInv, PendingIsConfirmed
  <2>2. CASE u \in acked
    BY <2>1, <2>2 DEF Send
  <2>3. CASE Owed(Op23(u)) /\ Op23(u) = Head(todo)
    BY <2>1, <2>3 DEF Send, Op23
  <2>4. CASE Owed(Op23(u)) /\ Op23(u) # Head(todo)
    BY <1>1, <2>1, <2>4, SendKeeps
  <2> QED
    BY <2>1, <2>2, <2>3, <2>4
<1>4. ASSUME dm # NoManager, dm.ready PROVE told' \/ Owed(DaveReady)'
  <2>1. told \/ Owed(DaveReady)
    BY <1>4 DEF IInv, ReadyIsReported
  <2>2. CASE told
    BY <2>2 DEF Send
  <2>3. CASE Owed(DaveReady) /\ DaveReady = Head(todo)
    <3>1. Head(todo).op = "DaveReady"
      BY <2>3 DEF DaveReady
    <3> QED
      BY <3>1 DEF Send
  <2>4. CASE Owed(DaveReady) /\ DaveReady # Head(todo)
    BY <1>1, <2>4, SendKeeps
  <2> QED
    BY <2>1, <2>2, <2>3, <2>4
<1>5. SuppressionEnds' /\ LeftoverIsFresh'
  BY <1>1 DEF IInv, SuppressionEnds, LeftoverIsFresh
<1> QED
  BY <1>1, <1>2, <1>3, <1>4, <1>5 DEF IInv, PendingIsConfirmed, ReadyIsReported

\* The UDP task changes the manager only: it executes one transition, or none.
LEMMA PacketKeeps ==
  ASSUME IInv, Packet
  PROVE  IInv'
<1>1. /\ TypeOK /\ dm \in Managers /\ dm # NoManager /\ conn # "none"
      /\ UNCHANGED <<conn, todo, ops, acked, asked, told>>
  BY ManagerAssumption DEF Packet, TimerRuns, IInv, TypeOK
<1>2. \/ dm' = [dm EXCEPT !.since = NoTimer]
      \/ \E t \in Tids : dm.pending[t] = 0 /\ dm' = Execute(dm, t)
  BY DEF Packet, AutoExecute
<1>3. /\ dm' \in Managers /\ dm'.ready = dm.ready /\ Pending(dm') \subseteq Pending(dm)
      /\ dm'.reinitializing => dm.reinitializing /\ Pending(dm') = Pending(dm)
  <2>1. CASE dm' = [dm EXCEPT !.since = NoTimer]
    <3>1. /\ dm' \in Managers /\ dm'.ready = dm.ready /\ dm'.pending = dm.pending
          /\ dm'.reinitializing = dm.reinitializing
      BY <1>1, <2>1 DEF Managers
    <3> QED
      BY <3>1 DEF Pending
  <2>2. ASSUME NEW t \in Tids, dm.pending[t] = 0, dm' = Execute(dm, t)
        PROVE  /\ dm' \in Managers /\ dm'.ready = dm.ready
               /\ Pending(dm') \subseteq Pending(dm) /\ ~dm'.reinitializing
    <3>1. t \in Pending(dm)
      BY <2>2, DaveAssumption DEF Pending
    <3> QED
      BY <1>1, <2>2, <3>1, ExecuteFacts
  <2> QED
    BY <1>2, <2>1, <2>2
<1>4. TypeOK'
  BY <1>1, <1>3 DEF TypeOK
<1>5. \A s : Owed(s)' = Owed(s)
  BY <1>1 DEF Owed
<1> QED
  BY <1>1, <1>3, <1>4, <1>5, OpenKeeps
     DEF IInv, SuppressionEnds, PendingIsConfirmed, ReadyIsReported

LEMMA SecondKeeps ==
  ASSUME IInv, Second
  PROVE  IInv'
<1>1. /\ TypeOK /\ dm \in Managers /\ dm # NoManager
      /\ UNCHANGED <<conn, todo, ops, acked, asked, told>>
  BY ManagerAssumption DEF Second, TimerRuns, IInv, TypeOK
<1>2. dm.since \in 0 .. Wait /\ dm.since < Wait /\ dm' = [dm EXCEPT !.since = dm.since + 1]
  BY <1>1 DEF Second, TimerRuns, Managers
<1>3. /\ dm' \in Managers /\ dm'.ready = dm.ready /\ dm'.reinitializing = dm.reinitializing
      /\ dm'.pending = dm.pending
  BY <1>1, <1>2, DaveAssumption DEF Managers
<1>4. Pending(dm') = Pending(dm)
  BY <1>3 DEF Pending
<1>5. TypeOK'
  BY <1>1, <1>3 DEF TypeOK
<1>6. \A s : Owed(s)' = Owed(s)
  BY <1>1 DEF Owed
<1> QED
  BY <1>1, <1>3, <1>4, <1>5, <1>6
     DEF IInv, SuppressionEnds, PendingIsConfirmed, ReadyIsReported, LeftoverIsFresh

LEMMA OpcodeKeeps ==
  ASSUME IInv, Opcode
  PROVE  IInv'
<1>1. ASSUME NEW t \in Tids, NEW v \in Versions, OP21(t, v) PROVE IInv'
  BY <1>1, OP21Keeps
<1>2. ASSUME NEW t \in Tids, OP22(t) PROVE IInv'
  BY <1>2, OP22Keeps
<1>3. ASSUME NEW v \in Versions, NEW accepts \in BOOLEAN, OP24(v, accepts) PROVE IInv'
  BY <1>3, OP24Keeps
<1>4. ASSUME NEW t \in Tids, NEW isReady \in BOOLEAN, NEW accepts \in BOOLEAN,
             OP29(t, isReady, accepts)
      PROVE  IInv'
  BY <1>4, AcceptedKeeps, RefusedKeeps DEF OP29
<1>5. ASSUME NEW t \in Tids, NEW isReady \in BOOLEAN, NEW accepts \in BOOLEAN,
             OP30(t, isReady, accepts)
      PROVE  IInv'
  BY <1>5, AcceptedKeeps, RefusedKeeps, AlreadyInGroupKeeps DEF OP30
<1> QED
  BY <1>1, <1>2, <1>3, <1>4, <1>5 DEF Opcode

LEMMA StepKeeps == IInv /\ [Next]_vars => IInv'
<1> SUFFICES ASSUME IInv, [Next]_vars PROVE IInv'
  OBVIOUS
<1>1. CASE UNCHANGED vars
  BY <1>1 DEF vars, IInv, TypeOK, SuppressionEnds, PendingIsConfirmed, ReadyIsReported,
              LeftoverIsFresh, Owed
<1>2. CASE Next
  BY <1>2, ConnectKeeps, ReaderEndsKeeps, TeardownKeeps, OpcodeKeeps, SendStepKeeps,
     PacketKeeps, SecondKeeps DEF Next
<1> QED
  BY <1>1, <1>2

LEMMA InitHolds ==
  ASSUME Init
  PROVE  IInv
<1>1. TypeOK
  <2>1. todo \in Seq(Sends)
    BY DEF Init
  <2>2. ops \in 0 .. MaxOps
    BY DaveAssumption DEF Init
  <2> QED
    BY <2>1, <2>2 DEF Init, TypeOK
<1> QED
  BY <1>1 DEF Init, IInv, SuppressionEnds, PendingIsConfirmed, ReadyIsReported, LeftoverIsFresh

-----------------------------------------------------------------------------
(* The theorems.                                                             *)

\* The inductive invariant holds in every reachable state.
THEOREM InvHolds == Spec => []IInv
<1>1. Init => IInv
  BY InitHolds
<1> QED
  BY <1>1, StepKeeps, PTL DEF Spec

\* The variables keep their types, whatever Discord sends: the handlers of
\* src/voice_conn.rs never execute a version that was not prepared or stored.
THEOREM TypeCorrect == Spec => []TypeOK
<1>1. IInv => TypeOK
  BY DEF IInv
<1> QED
  BY <1>1, InvHolds, PTL

\* Failure suppression ends with the reinitialization that began it: a ready session
\* (process_commit, process_welcome) is reinitializing only while a transition waits
\* for its execution (execute_transition, store_pending_transition).
THEOREM SuppressionSound == Spec => []SuppressionEnds
<1>1. IInv => SuppressionEnds
  BY DEF IInv
<1> QED
  BY <1>1, InvHolds, PTL

\* Every transition that waits for Discord's OP22 was confirmed with OP23 in the session
\* it belongs to, or the read task is about to confirm it (send_transition_ready).
THEOREM ConfirmationSound == Spec => []PendingIsConfirmed
<1>1. IInv => PendingIsConfirmed
  BY DEF IInv
<1> QED
  BY <1>1, InvHolds, PTL

\* The main loop was told of every session that is ready, or the read task is about to
\* tell it (VoiceEvent::DaveReady after OP22, OP29 and OP30).
THEOREM ReadySound == Spec => []ReadyIsReported
<1>1. IInv => ReadyIsReported
  BY DEF IInv
<1> QED
  BY <1>1, InvHolds, PTL
=============================================================================
