----------------------------- MODULE IpcProofs -----------------------------
(***************************************************************************)
(* Proofs about Ipc for lanes of every capacity and every number of lines  *)
(* and messages.                                                           *)
(***************************************************************************)
EXTENDS Ipc, SequenceTheorems, FiniteSetTheorems, TLAPS

\* What ends the main loop or the reader.
Stops == {"destroy", "garbled"}
NoStop(s) == \A i \in 1 .. Len(s) : s[i] \notin Stops

\* The places of the commands of a lane that no stop is ahead of.
Served(s) == {i \in 1 .. Len(s) : s[i] \in Commands /\ \A j \in 1 .. i : s[j] \notin Stops}

\* The command in hand; and those that wait in the control lane, or behind it in stdin
\* with a reader to fetch them, and nothing on their way will end the loop first.
InHand == IF handling \in Commands \cup {"answer"} THEN 1 ELSE 0
Waiting == Cardinality(Served(control))
             + IF reading /\ NoStop(control) THEN Cardinality(Served(stdin)) ELSE 0

\* Every command that is owed its handling is one of these, and Destroy is not begun
\* before all of them are handled.
Going == running /\ handling # "destroy"
Counted == IF Going THEN unserved <= InHand + Waiting ELSE unserved = 0

\* As long as lines are counted nothing was written that stops anything.
StillCounting == ~last /\ ~closed => Going /\ reading /\ NoStop(control) /\ NoStop(stdin)

\* A message that was written past a waiting control message is the last one: the
\* control message is still there when the writer looks at its lane next.
NextIsControl ==
  \/ passed = 0
  \/ passed = 1 /\ writer \in {"writing", "control"} /\ out.control > 0
  \/ passed = 1 /\ writer = "ended"

IInv == TypeOK /\ unserved <= lines /\ Counted /\ StillCounting /\ NextIsControl

-----------------------------------------------------------------------------
(* Places in a lane, when lines come and go.                                 *)

LEMMA PlacesFinite ==
  ASSUME NEW s \in Seq(Lines)
  PROVE  IsFiniteSet(Served(s)) /\ Cardinality(Served(s)) \in Nat
<1>1. Len(s) \in Nat
  BY LenProperties
<1>2. IsFiniteSet(1 .. Len(s))
  BY <1>1, FS_Interval
<1>3. Served(s) \in SUBSET (1 .. Len(s))
  BY DEF Served
<1>4. IsFiniteSet(Served(s))
  BY <1>2, <1>3, FS_Subset
<1> QED
  BY <1>4, FS_CardinalityType

LEMMA PlacesOfEmpty == NoStop(<<>>) /\ Served(<<>>) = {} /\ Cardinality(Served(<<>>)) = 0
<1>1. Len(<<>>) = 0
  OBVIOUS
<1>2. NoStop(<<>>) /\ Served(<<>>) = {}
  BY <1>1 DEF NoStop, Served
<1> QED
  BY <1>2, FS_EmptySet

\* A line at the end adds to what was there, and a command unless a stop is ahead.
LEMMA PlacesOfAppend ==
  ASSUME NEW s \in Seq(Lines), NEW line \in Lines
  PROVE  /\ NoStop(Append(s, line)) <=> NoStop(s) /\ line \notin Stops
         /\ Cardinality(Served(s)) <= Cardinality(Served(Append(s, line)))
         /\ line \in Commands /\ NoStop(s) =>
              Cardinality(Served(s)) + 1 <= Cardinality(Served(Append(s, line)))
<1> DEFINE t == Append(s, line)
           k == Len(s) + 1
<1>1. /\ t \in Seq(Lines) /\ Len(s) \in Nat /\ Len(t) = k
      /\ \A i \in 1 .. Len(s) : t[i] = s[i]
      /\ t[k] = line
  BY AppendProperties, LenProperties
<1> HIDE DEF t
<1>2. NoStop(t) <=> NoStop(s) /\ line \notin Stops
  BY <1>1 DEF NoStop
<1>3. Served(s) \in SUBSET Served(t)
  BY <1>1 DEF Served
<1>4. IsFiniteSet(Served(t)) /\ IsFiniteSet(Served(s)) /\ Cardinality(Served(s)) \in Nat
  BY <1>1, PlacesFinite
<1>5. Cardinality(Served(s)) <= Cardinality(Served(t))
  BY <1>3, <1>4, FS_Subset
<1>6. ASSUME line \in Commands, NoStop(s)
      PROVE  Cardinality(Served(s)) + 1 <= Cardinality(Served(t))
  <2>1. line \notin Stops
    BY <1>6 DEF Commands, Stops
  <2>2. k \in Served(t) /\ k \notin Served(s)
    BY <1>1, <1>6, <2>1 DEF Served, NoStop
  <2>3. Served(s) \cup {k} \in SUBSET Served(t)
    BY <1>3, <2>2
  <2>4. Cardinality(Served(s) \cup {k}) = Cardinality(Served(s)) + 1
    BY <1>4, <2>2, FS_AddElement
  <2> QED
    BY <1>4, <2>3, <2>4, FS_Subset
<1> QED
  BY <1>2, <1>5, <1>6 DEF t

\* The first line is taken: with a stop nothing is served behind it, with a
\* command one place is freed, and with any other line none.
LEMMA PlacesOfTail ==
  ASSUME NEW s \in Seq(Lines), s # <<>>
  PROVE  /\ Head(s) \in Lines /\ Tail(s) \in Seq(Lines)
         /\ NoStop(s) <=> NoStop(Tail(s)) /\ Head(s) \notin Stops
         /\ Head(s) \in Stops => Cardinality(Served(s)) = 0
         /\ Head(s) \notin Commands => Cardinality(Served(s)) <= Cardinality(Served(Tail(s)))
         /\ Cardinality(Served(s)) <= Cardinality(Served(Tail(s))) + 1
<1> DEFINE t == Tail(s)
           S == Served(s) \ {1}
           f == [i \in S |-> i - 1]
<1>1. /\ t \in Seq(Lines) /\ Len(s) \in Nat \ {0} /\ Len(t) = Len(s) - 1
      /\ \A i \in 1 .. Len(t) : t[i] = s[i + 1]
      /\ s[1] = Head(s) /\ Head(s) \in Lines
  BY HeadTailProperties, EmptySeq
<1> HIDE DEF t
<1>2. NoStop(s) <=> NoStop(t) /\ Head(s) \notin Stops
  <2>1. NoStop(s) => NoStop(t) /\ Head(s) \notin Stops
    BY <1>1 DEF NoStop
  <2>2. ASSUME NoStop(t), Head(s) \notin Stops, NEW i \in 1 .. Len(s) PROVE s[i] \notin Stops
    <3>1. CASE i = 1
      BY <1>1, <2>2, <3>1
    <3>2. CASE i # 1
      <4>1. i - 1 \in 1 .. Len(t) /\ (i - 1) + 1 = i
        BY <1>1, <3>2
      <4> QED
        BY <1>1, <2>2, <4>1 DEF NoStop
    <3> QED
      BY <3>1, <3>2
  <2> QED
    BY <2>1, <2>2 DEF NoStop
<1>3. Head(s) \in Stops => Cardinality(Served(s)) = 0
  <2>1. SUFFICES ASSUME Head(s) \in Stops PROVE Served(s) = {}
    BY FS_EmptySet
  <2> QED
    BY <1>1, <2>1 DEF Served
<1>4. /\ IsFiniteSet(Served(s)) /\ IsFiniteSet(Served(t))
      /\ Cardinality(Served(s)) \in Nat /\ Cardinality(Served(t)) \in Nat
  BY <1>1, PlacesFinite
<1>5. f \in Injection(S, Served(t))
  <2>1. ASSUME NEW i \in S PROVE i - 1 \in Served(t)
    <3>1. i \in 1 .. Len(s) /\ i # 1 /\ s[i] \in Commands /\ \A j \in 1 .. i : s[j] \notin Stops
      BY DEF Served
    <3>2. i - 1 \in 1 .. Len(t) /\ (i - 1) + 1 = i
      BY <1>1, <3>1
    <3>3. t[i - 1] \in Commands
      BY <1>1, <3>1, <3>2
    <3>4. ASSUME NEW j \in 1 .. i - 1 PROVE t[j] \notin Stops
      <4>1. j \in 1 .. Len(t) /\ j + 1 \in 1 .. i
        BY <1>1, <3>1
      <4> QED
        BY <1>1, <3>1, <4>1
    <3> QED
      BY <3>2, <3>3, <3>4 DEF Served
  <2>2. f \in [S -> Served(t)]
    BY <2>1
  <2>3. \A a, b \in S : f[a] = f[b] => a = b
    BY DEF Served
  <2> QED
    BY <2>2, <2>3 DEF Injection, IsInjective
<1>6. Cardinality(S) <= Cardinality(Served(t))
  BY <1>4, <1>5, FS_Injection
<1>7. Cardinality(S) = IF 1 \in Served(s) THEN Cardinality(Served(s)) - 1 ELSE Cardinality(Served(s))
  BY <1>4, FS_RemoveElement
<1>8. Head(s) \notin Commands => 1 \notin Served(s)
  BY <1>1 DEF Served
<1>9. Cardinality(Served(s)) <= Cardinality(Served(t)) + 1
  BY <1>4, <1>6, <1>7
<1>10. Head(s) \notin Commands => Cardinality(Served(s)) <= Cardinality(Served(t))
  BY <1>4, <1>6, <1>7, <1>8
<1> QED
  BY <1>1, <1>2, <1>3, <1>9, <1>10 DEF t

-----------------------------------------------------------------------------
(* The lanes to the parent.                                                  *)

LEMMA Sizes ==
  /\ AudioCap \in Nat \ {0} /\ OutAudioCap \in Nat \ {0} /\ VideoCap \in Nat \ {0}
  /\ MaxLines \in Nat /\ MaxSends \in Nat
BY IpcAssumption

\* A send keeps the lanes in their bounds and takes no control message away.
LEMMA WithTyped ==
  ASSUME TypeOK, NEW lane \in {"control", "audio", "video"}
  PROVE  /\ With(lane) \in [control : Nat, audio : 0 .. OutAudioCap, video : 0 .. VideoCap]
         /\ With(lane).control >= out.control
<1>1. /\ \A n \in 0 .. OutAudioCap : n < OutAudioCap => n + 1 \in 0 .. OutAudioCap
      /\ \A n \in 0 .. VideoCap : n < VideoCap => n + 1 \in 0 .. VideoCap
  BY Sizes
<1>2. out \in [control : Nat, audio : 0 .. OutAudioCap, video : 0 .. VideoCap]
  BY DEF TypeOK
<1>3. CASE writer = "ended"
  BY <1>2, <1>3 DEF With
<1>4. CASE writer # "ended" /\ lane = "control"
  BY <1>2, <1>4 DEF With
<1>5. CASE writer # "ended" /\ lane = "audio"
  BY <1>1, <1>2, <1>5 DEF With
<1>6. CASE writer # "ended" /\ lane = "video"
  BY <1>1, <1>2, <1>6 DEF With
<1> QED
  BY <1>3, <1>4, <1>5, <1>6

\* What is left of NextIsControl when messages are only added.
LEMMA MoreToWrite ==
  ASSUME IInv, writer' = writer, passed' = passed, out'.control \in Nat,
         out'.control >= out.control
  PROVE  NextIsControl'
BY DEF IInv, TypeOK, NextIsControl

\* The control lane as a lane of lines.
LEMMA AsLines == Seq(Commands \cup {"destroy"}) \subseteq Seq(Lines)
<1>1. Commands \cup {"destroy"} \subseteq Lines
  BY DEF Commands, Lines
<1> QED
  BY <1>1, SeqMonotonic

LEMMA ControlLane ==
  ASSUME TypeOK
  PROVE  control \in Seq(Lines) /\ stdin \in Seq(Lines)
BY AsLines DEF TypeOK

LEMMA Counts ==
  ASSUME TypeOK
  PROVE  /\ Cardinality(Served(stdin)) \in Nat /\ Cardinality(Served(control)) \in Nat
         /\ InHand \in {0, 1} /\ Waiting \in Nat /\ unserved \in Nat
<1>1. Cardinality(Served(stdin)) \in Nat /\ Cardinality(Served(control)) \in Nat
  BY ControlLane, PlacesFinite
<1> QED
  BY <1>1 DEF InHand, Waiting, TypeOK

\* A step that changes nothing of what is owed or of the main loop.
LEMMA NothingOwed ==
  ASSUME UNCHANGED <<stdin, reading, unserved, control, loop>>, Counted
  PROVE  Counted'
BY DEF loop, Counted, Going, InHand, Waiting

\* What is on its way is at least what was, although one left the lane for a hand.
LEMMA AtLeast ==
  ASSUME NEW n \in Nat, NEW h \in Nat, NEW w \in Nat, NEW h1 \in Nat, NEW w1 \in Nat,
         n <= h + w, h <= h1, w <= w1 \/ (h < h1 /\ w <= w1 + 1)
  PROVE  n <= h1 + w1
OBVIOUS

\* A step after which at least as many commands are on their way.
LEMMA NoneLost ==
  ASSUME Counted, unserved' = unserved, Going' <=> Going,
         unserved \in Nat, InHand \in Nat, Waiting \in Nat, InHand' \in Nat, Waiting' \in Nat,
         InHand <= InHand', Waiting <= Waiting' \/ (InHand < InHand' /\ Waiting <= Waiting' + 1)
  PROVE  Counted'
<1>1. CASE Going
  <2>1. unserved <= InHand + Waiting
    BY <1>1 DEF Counted
  <2>2. unserved <= InHand' + Waiting'
    BY <2>1, AtLeast
  <2> QED
    BY <1>1, <2>2 DEF Counted
<1>2. CASE ~Going
  BY <1>2 DEF Counted
<1> QED
  BY <1>1, <1>2

LEMMA InitIInv == Init => IInv
<1> SUFFICES ASSUME Init PROVE IInv
  OBVIOUS
<1>1. TypeOK
  <2>1. stdin \in Seq(Lines) /\ control \in Seq(Commands \cup {"destroy"})
    BY EmptySeq DEF Init
  <2>2. out \in [control : Nat, audio : 0 .. OutAudioCap, video : 0 .. VideoCap]
    BY Sizes DEF Init
  <2>3. 0 \in 0 .. MaxLines /\ 0 \in 0 .. MaxSends /\ 0 \in 0 .. AudioCap /\ 0 \in Nat
    BY Sizes
  <2> QED
    BY <2>1, <2>2, <2>3 DEF Init, TypeOK, Steps
<1>2. Going /\ InHand = 0
  BY DEF Init, Going, InHand, Commands
<1>3. Counted
  BY <1>2, PlacesOfEmpty DEF Init, Counted, Waiting
<1> QED
  BY <1>1, <1>2, <1>3, PlacesOfEmpty DEF IInv, Init, StillCounting, NextIsControl

-----------------------------------------------------------------------------
(* The steps.                                                                *)

LEMMA TaskSendsKeeps ==
  ASSUME IInv, NEW lane \in {"control", "audio", "video"}, TaskSends(lane)
  PROVE  IInv'
<1>1. /\ out' \in [control : Nat, audio : 0 .. OutAudioCap, video : 0 .. VideoCap]
      /\ out'.control >= out.control
  BY WithTyped DEF IInv, TaskSends, SendMsg
<1>2. sends' \in 0 .. MaxSends
  BY Sizes DEF IInv, TypeOK, TaskSends
<1>3. TypeOK' /\ unserved' <= lines'
  BY <1>1, <1>2 DEF IInv, TypeOK, TaskSends, inbound, loop
<1>4. NextIsControl'
  BY <1>1, MoreToWrite DEF TaskSends
<1>5. Counted' /\ StillCounting'
  BY NothingOwed DEF IInv, TaskSends, inbound, loop, Going, StillCounting
<1> QED
  BY <1>3, <1>4, <1>5 DEF IInv

LEMMA ParentWritesKeeps ==
  ASSUME IInv, NEW line \in Lines, ParentWrites(line)
  PROVE  IInv'
<1>1. /\ stdin' = Append(stdin, line) /\ lines' = lines + 1 /\ lines < MaxLines
      /\ last' = (last \/ line \in {"destroy", "garbled"})
      /\ unserved' = IF line \in Commands /\ ~last THEN unserved + 1 ELSE unserved
      /\ UNCHANGED <<parent, closed, reading, control, audio, loop, outbound, sends>>
      /\ ~closed
  BY DEF ParentWrites
<1>2. UNCHANGED <<writer, out, passed, running, handling>>
  BY <1>1 DEF outbound, loop
<1>3. stdin' \in Seq(Lines) /\ lines' \in 0 .. MaxLines
  BY <1>1, ControlLane, AppendProperties, Sizes DEF IInv, TypeOK
<1>4. unserved' \in 0 .. MaxLines /\ unserved' <= lines'
  BY <1>1, Sizes DEF IInv, TypeOK
<1>5. TypeOK'
  BY <1>1, <1>2, <1>3, <1>4 DEF IInv, TypeOK
<1>6. /\ NoStop(stdin') <=> NoStop(stdin) /\ line \notin Stops
      /\ Cardinality(Served(stdin)) <= Cardinality(Served(stdin'))
      /\ line \in Commands /\ NoStop(stdin) =>
           Cardinality(Served(stdin)) + 1 <= Cardinality(Served(stdin'))
  BY <1>1, ControlLane, PlacesOfAppend DEF IInv
<1>7. /\ Cardinality(Served(stdin)) \in Nat /\ Cardinality(Served(stdin')) \in Nat
      /\ Cardinality(Served(control)) \in Nat /\ InHand \in Nat /\ unserved \in Nat
  BY <1>3, PlacesFinite, Counts DEF IInv
<1>8. InHand' = InHand /\ (Going' <=> Going)
  BY <1>2 DEF InHand, Going
<1>9. Counted'
  <2>1. CASE line \in Commands /\ ~last
    <3>1. Going /\ reading /\ NoStop(control) /\ NoStop(stdin)
      BY <1>1, <2>1 DEF IInv, StillCounting
    <3>2. unserved <= InHand + (Cardinality(Served(control)) + Cardinality(Served(stdin)))
      BY <3>1 DEF IInv, Counted, Waiting
    <3>3. unserved' <= InHand + (Cardinality(Served(control)) + Cardinality(Served(stdin')))
      BY <1>1, <1>6, <1>7, <2>1, <3>1, <3>2
    <3> QED
      BY <1>1, <1>8, <3>1, <3>3 DEF Counted, Waiting
  <2>2. CASE ~(line \in Commands /\ ~last)
    <3>1. unserved' = unserved
      BY <1>1, <2>2
    <3>2. Waiting <= Waiting'
      BY <1>1, <1>6, <1>7 DEF Waiting
    <3>3. Waiting \in Nat /\ Waiting' \in Nat
      BY <1>1, <1>7 DEF Waiting
    <3> QED
      BY <1>7, <1>8, <3>1, <3>2, <3>3, NoneLost DEF IInv
  <2> QED
    BY <2>1, <2>2
<1>10. StillCounting'
  BY <1>1, <1>6, <1>8 DEF IInv, StillCounting, Stops
<1>11. NextIsControl'
  BY <1>2 DEF IInv, NextIsControl
<1> QED
  BY <1>4, <1>5, <1>9, <1>10, <1>11 DEF IInv

LEMMA ParentTurnsKeeps ==
  ASSUME IInv, (\E to \in {"reads", "stalls", "gone"} : ParentTurns(to)) \/ ParentCloses
  PROVE  IInv'
<1>1. /\ parent' \in {"reads", "stalls", "gone"} /\ closed' \in BOOLEAN /\ (closed => closed')
      /\ UNCHANGED <<stdin, lines, reading, unserved, last, control, audio, loop, outbound, sends>>
  BY DEF IInv, TypeOK, ParentTurns, ParentCloses
<1>2. UNCHANGED <<writer, out, passed, running, handling>>
  BY <1>1 DEF outbound, loop
<1>3. TypeOK' /\ unserved' <= lines'
  BY <1>1, <1>2 DEF IInv, TypeOK
<1>4. Counted' /\ StillCounting' /\ NextIsControl'
  BY <1>1, <1>2, NothingOwed DEF IInv, Going, StillCounting, NextIsControl
<1> QED
  BY <1>3, <1>4 DEF IInv

\* A line goes from stdin to its lane, and what is owed moves along with it.
LEMMA ReadLineKeeps == ASSUME IInv, ReadLine PROVE IInv'
<1>1. /\ running /\ reading /\ stdin # <<>> /\ Head(stdin) # "garbled"
      /\ stdin' = Tail(stdin)
      /\ control' = Sorted(Head(stdin))
      /\ audio' = IF Head(stdin) = "audio" /\ audio < AudioCap THEN audio + 1 ELSE audio
      /\ out' = IF Head(stdin) = "bad" THEN With("control") ELSE out
      /\ UNCHANGED <<parent, closed, lines, reading, unserved, last, loop, writer, passed, sends>>
      /\ UNCHANGED <<running, handling>>
  BY DEF ReadLine, loop
<1>2. control \in Seq(Lines) /\ stdin \in Seq(Lines) /\ TypeOK
  BY ControlLane DEF IInv
<1>3. /\ Head(stdin) \in Lines /\ stdin' \in Seq(Lines)
      /\ NoStop(stdin) <=> NoStop(stdin') /\ Head(stdin) \notin Stops
      /\ Head(stdin) \in Stops => Cardinality(Served(stdin)) = 0
      /\ Head(stdin) \notin Commands => Cardinality(Served(stdin)) <= Cardinality(Served(stdin'))
      /\ Cardinality(Served(stdin)) <= Cardinality(Served(stdin')) + 1
  BY <1>1, <1>2, PlacesOfTail
<1>4. control' \in Seq(Commands \cup {"destroy"})
  <2>1. control \in Seq(Commands \cup {"destroy"})
    BY <1>2 DEF TypeOK
  <2> QED
    BY <1>1, <2>1, AppendProperties DEF Sorted
<1>5. /\ out' \in [control : Nat, audio : 0 .. OutAudioCap, video : 0 .. VideoCap]
      /\ out'.control >= out.control
  <2>1. CASE Head(stdin) = "bad"
    BY <1>1, <1>2, <2>1, WithTyped
  <2>2. CASE Head(stdin) # "bad"
    <3>1. out' = out
      BY <1>1, <2>2
    <3> QED
      BY <1>2, <3>1 DEF TypeOK
  <2> QED
    BY <2>1, <2>2
<1>6. audio' \in 0 .. AudioCap
  BY <1>1, <1>2, Sizes DEF TypeOK
<1>7. TypeOK' /\ unserved' <= lines'
  BY <1>1, <1>2, <1>3, <1>4, <1>5, <1>6 DEF IInv, TypeOK
<1>8. /\ Cardinality(Served(stdin)) \in Nat /\ Cardinality(Served(stdin')) \in Nat
      /\ Cardinality(Served(control)) \in Nat /\ Cardinality(Served(control')) \in Nat
  BY <1>2, <1>3, <1>4, AsLines, PlacesFinite
<1>9. /\ Cardinality(Served(control)) <= Cardinality(Served(control'))
      /\ Head(stdin) \in Commands /\ NoStop(control) =>
           Cardinality(Served(control)) + 1 <= Cardinality(Served(control'))
      /\ ~NoStop(control) => ~NoStop(control')
      /\ NoStop(control) /\ Head(stdin) \notin Stops => NoStop(control')
  <2>1. CASE Head(stdin) \in Commands \cup {"destroy"}
    <3>1. control' = Append(control, Head(stdin))
      BY <1>1, <2>1 DEF Sorted
    <3> QED
      BY <1>2, <1>3, <3>1, PlacesOfAppend
  <2>2. CASE Head(stdin) \notin Commands \cup {"destroy"}
    <3>1. control' = control
      BY <1>1, <2>2 DEF Sorted
    <3> QED
      BY <1>8, <2>2, <3>1
  <2> QED
    BY <2>1, <2>2
<1>10. InHand' = InHand /\ InHand \in Nat /\ (Going' <=> Going) /\ unserved \in Nat
  BY <1>1, <1>2, Counts DEF InHand, Going
<1>11. Waiting <= Waiting' /\ Waiting \in Nat /\ Waiting' \in Nat
  <2>1. CASE ~NoStop(control)
    BY <1>1, <1>8, <1>9, <2>1 DEF Waiting
  <2>2. CASE NoStop(control) /\ Head(stdin) \in Stops
    BY <1>1, <1>3, <1>8, <1>9, <2>2 DEF Waiting
  <2>3. CASE NoStop(control) /\ Head(stdin) \notin Stops
    <3>1. NoStop(control') /\ reading'
      BY <1>1, <1>9, <2>3
    <3>2. Cardinality(Served(control)) + Cardinality(Served(stdin))
            <= Cardinality(Served(control')) + Cardinality(Served(stdin'))
      BY <1>3, <1>8, <1>9, <2>3
    <3> QED
      BY <1>1, <1>8, <2>3, <3>1, <3>2 DEF Waiting
  <2> QED
    BY <2>1, <2>2, <2>3
<1>12. Counted'
  BY <1>1, <1>10, <1>11, NoneLost DEF IInv
<1>13. StillCounting'
  BY <1>1, <1>3, <1>9, <1>10 DEF IInv, StillCounting
<1>14. NextIsControl'
  BY <1>1, <1>5, MoreToWrite
<1> QED
  BY <1>7, <1>12, <1>13, <1>14 DEF IInv

\* The Destroy of the reader's end comes behind everything that is owed.
LEMMA ReaderEndsKeeps == ASSUME IInv, ReaderEnds PROVE IInv'
<1>1. /\ running /\ reading
      /\ IF stdin = <<>> THEN closed ELSE Head(stdin) = "garbled"
      /\ reading' = FALSE /\ control' = Append(control, "destroy")
      /\ UNCHANGED <<parent, stdin, closed, lines, unserved, last, audio, loop, outbound, sends>>
  BY DEF ReaderEnds, AtEof
<1>2. /\ UNCHANGED <<writer, out, passed, running, handling>>
      /\ InHand' = InHand /\ (Going' <=> Going)
  BY <1>1 DEF outbound, loop, InHand, Going
<1>3. control \in Seq(Lines) /\ stdin \in Seq(Lines) /\ TypeOK
  BY ControlLane DEF IInv
<1>4. control' \in Seq(Commands \cup {"destroy"})
  BY <1>1, <1>3, AppendProperties DEF TypeOK
<1>5. TypeOK' /\ unserved' <= lines'
  BY <1>1, <1>2, <1>3, <1>4 DEF IInv, TypeOK
<1>6. Cardinality(Served(stdin)) = 0
  BY <1>1, <1>3, PlacesOfEmpty, PlacesOfTail DEF Stops
<1>7. Cardinality(Served(control)) <= Cardinality(Served(control'))
  BY <1>1, <1>3, PlacesOfAppend DEF Lines
<1>8. Cardinality(Served(control)) \in Nat /\ Cardinality(Served(control')) \in Nat
  BY <1>3, <1>4, AsLines, PlacesFinite
<1>9. Counted'
  <2>1. Waiting = Cardinality(Served(control)) /\ Waiting' = Cardinality(Served(control'))
    BY <1>1, <1>6, <1>8 DEF Waiting
  <2>2. InHand \in Nat /\ unserved \in Nat
    BY <1>3, Counts
  <2> QED
    BY <1>1, <1>2, <1>7, <1>8, <2>1, <2>2 DEF IInv, Counted
<1>10. StillCounting'
  <2>1. ~last => NoStop(stdin) \/ closed
    BY DEF IInv, StillCounting
  <2>2. Head(stdin) = "garbled" /\ stdin # <<>> => ~NoStop(stdin)
    BY <1>3, PlacesOfTail DEF Stops
  <2> QED
    BY <1>1, <2>1, <2>2 DEF StillCounting
<1>11. NextIsControl'
  BY <1>2 DEF IInv, NextIsControl
<1> QED
  BY <1>5, <1>9, <1>10, <1>11 DEF IInv

\* The first of the control lane is taken in hand: a Destroy finds nothing owed.
LEMMA TakeControlKeeps == ASSUME IInv, TakeControl PROVE IInv'
<1>1. /\ control # <<>> /\ control' = Tail(control)
      /\ running /\ handling = "nothing" /\ handling' = Head(control)
      /\ UNCHANGED <<parent, stdin, closed, lines, reading, unserved, last, audio, running, outbound, sends>>
  BY DEF TakeControl, Handles
<1>2. control \in Seq(Lines) /\ stdin \in Seq(Lines) /\ TypeOK
  BY ControlLane DEF IInv
<1>3. Head(control) \in Commands \cup {"destroy"} /\ control' \in Seq(Commands \cup {"destroy"})
  BY <1>1, <1>2, HeadTailProperties DEF TypeOK
<1>4. /\ NoStop(control) <=> NoStop(control') /\ Head(control) \notin Stops
      /\ Head(control) \in Stops => Cardinality(Served(control)) = 0
      /\ Cardinality(Served(control)) <= Cardinality(Served(control')) + 1
  BY <1>1, <1>2, PlacesOfTail
<1>5. UNCHANGED <<writer, out, passed>>
  BY <1>1 DEF outbound
<1>6. TypeOK' /\ unserved' <= lines'
  BY <1>1, <1>2, <1>3, <1>5 DEF IInv, TypeOK, AtWork
<1>7. /\ Cardinality(Served(stdin)) \in Nat /\ unserved \in Nat
      /\ Cardinality(Served(control)) \in Nat /\ Cardinality(Served(control')) \in Nat
  BY <1>2, <1>3, AsLines, PlacesFinite, Counts
<1>8. Going /\ InHand = 0 /\ unserved <= Waiting
  <2>1. Going /\ InHand = 0
    BY <1>1 DEF Going, InHand, Commands
  <2> QED
    BY <1>2, <1>7, <2>1, Counts DEF IInv, Counted
<1>9. CASE Head(control) = "destroy"
  <2>1. ~NoStop(control) /\ Cardinality(Served(control)) = 0
    BY <1>4, <1>9 DEF Stops
  <2>2. Waiting = 0
    BY <2>1 DEF Waiting
  <2>3. unserved' = 0 /\ ~Going'
    BY <1>1, <1>7, <1>8, <1>9, <2>2 DEF Going
  <2> QED
    BY <1>1, <1>5, <1>6, <2>1, <2>3 DEF IInv, Counted, StillCounting, NextIsControl
<1>10. CASE Head(control) # "destroy"
  <2>1. Head(control) \in Commands /\ Head(control) \notin Stops
    BY <1>3, <1>10 DEF Commands, Stops
  <2>2. Going' /\ InHand' = 1 /\ (NoStop(control) <=> NoStop(control'))
    BY <1>1, <1>4, <1>10, <2>1 DEF Going, InHand
  <2>3. Waiting <= Waiting' + 1 /\ Waiting \in Nat /\ Waiting' \in Nat
    BY <1>1, <1>4, <1>7, <2>2 DEF Waiting
  <2>4. Counted'
    <3>1. unserved' = unserved /\ InHand < InHand' /\ InHand \in Nat /\ InHand' \in Nat
      BY <1>1, <1>8, <2>2
    <3> QED
      BY <1>7, <1>8, <2>2, <2>3, <3>1, NoneLost DEF IInv
  <2>5. StillCounting'
    BY <1>1, <1>8, <2>2 DEF IInv, StillCounting
  <2> QED
    BY <1>5, <1>6, <2>4, <2>5 DEF IInv, NextIsControl
<1> QED
  BY <1>9, <1>10

\* Audio or another event is taken in hand.
LEMMA TakeOtherKeeps == ASSUME IInv, TakeAudio \/ OtherEvent PROVE IInv'
<1>1. /\ running /\ handling = "nothing" /\ handling' \in {"audio", "other"}
      /\ audio' = audio \/ (audio > 0 /\ audio' = audio - 1)
      /\ UNCHANGED <<parent, stdin, closed, lines, reading, unserved, last, control, running, outbound, sends>>
  BY DEF TakeAudio, OtherEvent, Handles, inbound
<1>2. UNCHANGED <<writer, out, passed>>
  BY <1>1 DEF outbound
<1>3. audio' \in 0 .. AudioCap /\ handling' \in AtWork
  BY <1>1, Sizes DEF IInv, TypeOK, AtWork
<1>4. TypeOK' /\ unserved' <= lines'
  BY <1>1, <1>2, <1>3 DEF IInv, TypeOK
<1>5. InHand' = InHand /\ Going' /\ Going /\ Waiting' = Waiting
  BY <1>1 DEF InHand, Going, Waiting, Commands
<1>6. Counted' /\ StillCounting' /\ NextIsControl'
  BY <1>1, <1>2, <1>5 DEF IInv, Counted, StillCounting, NextIsControl
<1> QED
  BY <1>4, <1>6 DEF IInv

\* What was in hand is handled.
LEMMA HandledKeeps == ASSUME IInv, HandlerReturns \/ Answers PROVE IInv'
<1>1. UNCHANGED <<parent, stdin, closed, lines, reading, last, control, audio, writer, passed, sends>>
  BY DEF HandlerReturns, Answers, outbound
<1>2. TypeOK /\ unserved \in Nat /\ InHand \in Nat /\ Waiting \in Nat
  BY Counts DEF IInv
<1>3. /\ out' \in [control : Nat, audio : 0 .. OutAudioCap, video : 0 .. VideoCap]
      /\ out'.control >= out.control
  <2>1. CASE HandlerReturns
    BY <1>2, <2>1 DEF HandlerReturns, outbound, TypeOK
  <2>2. CASE Answers
    BY <1>2, <2>2, WithTyped DEF Answers, SendMsg
  <2> QED
    BY <2>1, <2>2
<1>4. /\ unserved' = IF InHand = 1 /\ handling # "query" /\ unserved > 0 THEN unserved - 1 ELSE unserved
      /\ handling' \in {"answer", "nothing"} /\ (handling' = "answer" <=> handling = "query")
      /\ handling # "nothing"
      /\ running' = (running /\ handling # "destroy")
  <2>1. CASE HandlerReturns
    BY <1>2, <2>1 DEF HandlerReturns, InHand, Commands, AtWork, TypeOK
  <2>2. CASE Answers
    BY <1>2, <2>2 DEF Answers, InHand, Commands, TypeOK
  <2> QED
    BY <2>1, <2>2
<1>5. unserved' \in 0 .. MaxLines /\ unserved' <= lines'
  BY <1>1, <1>2, <1>4, Sizes DEF IInv, TypeOK
<1>6. TypeOK'
  BY <1>1, <1>2, <1>3, <1>4, <1>5 DEF TypeOK
<1>7. (Going' <=> Going) /\ Waiting' = Waiting
  BY <1>1, <1>4 DEF Going, Waiting
<1>8. Counted'
  <2>1. CASE ~Going
    <3>1. unserved = 0
      BY <2>1 DEF IInv, Counted
    <3> QED
      BY <1>4, <1>7, <2>1, <3>1 DEF Counted
  <2>2. CASE Going /\ handling = "query"
    <3>1. InHand = 1 /\ InHand' = 1
      BY <1>4, <2>2 DEF InHand, Commands
    <3> QED
      BY <1>2, <1>4, <1>7, <2>2, <3>1 DEF IInv, Counted
  <2>3. CASE Going /\ handling # "query"
    <3>1. InHand' = 0 /\ InHand \in {0, 1}
      BY <1>4, <2>3 DEF InHand, Commands
    <3>2. unserved <= InHand + Waiting
      BY <2>3 DEF IInv, Counted
    <3>3. unserved' <= Waiting
      BY <1>2, <1>4, <2>3, <3>1, <3>2
    <3> QED
      BY <1>2, <1>7, <2>3, <3>1, <3>3 DEF Counted
  <2> QED
    BY <2>1, <2>2, <2>3
<1>9. StillCounting'
  BY <1>1, <1>7 DEF IInv, StillCounting
<1>10. NextIsControl'
  BY <1>1, <1>3, MoreToWrite
<1> QED
  BY <1>5, <1>6, <1>8, <1>9, <1>10 DEF IInv

\* A message taken past a control message was preceded by none: the writer came
\* from its control lane when that was empty.
LEMMA TakesKeeps ==
  ASSUME IInv, NEW lane \in {"control", "audio", "video"}, Takes(lane),
         writer \in {"control", "audio", "select"}, lane = "control" \/ writer # "control"
  PROVE  /\ out' \in [control : Nat, audio : 0 .. OutAudioCap, video : 0 .. VideoCap]
         /\ passed' \in Nat /\ writer' = "writing" /\ NextIsControl'
<1>1. /\ out[lane] > 0 /\ out' = [out EXCEPT ![lane] = @ - 1] /\ writer' = "writing"
      /\ passed' = IF lane = "control" \/ out.control = 0 THEN 0 ELSE passed + 1
  BY DEF Takes
<1>2. out \in [control : Nat, audio : 0 .. OutAudioCap, video : 0 .. VideoCap] /\ passed \in Nat
  BY DEF IInv, TypeOK
<1>3. out' \in [control : Nat, audio : 0 .. OutAudioCap, video : 0 .. VideoCap]
      /\ (lane # "control" => out'.control = out.control)
  <2>1. CASE lane = "control"
    BY <1>1, <1>2, <2>1
  <2>2. CASE lane = "audio"
    BY <1>1, <1>2, <2>2, Sizes
  <2>3. CASE lane = "video"
    BY <1>1, <1>2, <2>3, Sizes
  <2> QED
    BY <2>1, <2>2, <2>3
<1>4. lane # "control" => passed = 0
  BY DEF IInv, NextIsControl
<1>5. passed' \in Nat /\ NextIsControl'
  BY <1>1, <1>2, <1>3, <1>4 DEF NextIsControl
<1> QED
  BY <1>1, <1>3, <1>5

LEMMA WriterKeeps == ASSUME IInv, WriterTakes \/ Writes PROVE IInv'
<1>1. UNCHANGED <<parent, inbound, loop, sends>>
  BY DEF WriterTakes, Writes
<1>2. /\ out' \in [control : Nat, audio : 0 .. OutAudioCap, video : 0 .. VideoCap]
      /\ passed' \in Nat /\ writer' \in Steps /\ NextIsControl'
  <2>1. CASE \E lane \in {"control", "audio"} : writer = lane /\ Takes(lane)
    BY <2>1, TakesKeeps DEF Steps
  <2>2. CASE Selects
    BY <2>2, TakesKeeps DEF Selects, Steps
  <2>3. CASE writer = "control" /\ out.control = 0 /\ writer' = "audio" /\ UNCHANGED <<out, passed>>
    BY <2>3 DEF IInv, TypeOK, Steps, NextIsControl
  <2>4. CASE writer = "audio" /\ out.audio = 0 /\ writer' = "select" /\ UNCHANGED <<out, passed>>
    BY <2>4 DEF IInv, TypeOK, Steps, NextIsControl
  <2>5. CASE Writes
    <3>1. CASE parent = "gone"
      <4>1. out \in [control : Nat, audio : 0 .. OutAudioCap, video : 0 .. VideoCap]
        BY DEF IInv, TypeOK
      <4>2. out' \in [control : Nat, audio : 0 .. OutAudioCap, video : 0 .. VideoCap]
        BY <2>5, <3>1, <4>1, Sizes DEF Writes
      <4> QED
        BY <2>5, <3>1, <4>2 DEF Writes, IInv, TypeOK, Steps, NextIsControl
    <3>2. CASE parent # "gone"
      BY <2>5, <3>2 DEF Writes, AfterWrite, IInv, TypeOK, Steps, NextIsControl
    <3> QED
      BY <3>1, <3>2
  <2> QED
    BY <2>1, <2>2, <2>3, <2>4, <2>5 DEF WriterTakes, Tries
<1>3. TypeOK' /\ unserved' <= lines'
  BY <1>1, <1>2 DEF IInv, TypeOK, inbound, loop
<1>4. Counted' /\ StillCounting'
  BY <1>1, NothingOwed DEF IInv, Going, StillCounting, inbound, loop
<1> QED
  BY <1>2, <1>3, <1>4 DEF IInv

LEMMA NextIInv == IInv /\ [Next]_vars => IInv'
<1> SUFFICES ASSUME IInv, [Next]_vars PROVE IInv'
  OBVIOUS
<1>1. CASE Next
  BY <1>1, TaskSendsKeeps, ParentWritesKeeps, ParentTurnsKeeps, ReadLineKeeps, ReaderEndsKeeps,
     TakeControlKeeps, TakeOtherKeeps, HandledKeeps, WriterKeeps DEF Next
<1>2. CASE UNCHANGED vars
  <2>1. TypeOK' /\ unserved' <= lines'
    BY <1>2 DEF IInv, TypeOK, vars, inbound, outbound, loop
  <2>2. Counted' /\ StillCounting' /\ NextIsControl'
    BY <1>2, NothingOwed
    DEF IInv, Going, StillCounting, NextIsControl, vars, inbound, outbound, loop
  <2> QED
    BY <2>1, <2>2 DEF IInv
<1> QED
  BY <1>1, <1>2

-----------------------------------------------------------------------------
LEMMA AlwaysIInv == Spec => []IInv
BY InitIInv, NextIInv, PTL DEF Spec

\* The bounded lanes stay within their capacities, whoever sends and however long
\* the parent does not read.
THEOREM TypeCorrect == Spec => []TypeOK
<1>1. IInv => TypeOK
  BY DEF IInv
<1> QED
  BY <1>1, AlwaysIInv, PTL

\* At most one audio or video message is written past a waiting control message.
THEOREM ControlSound == Spec => []ControlFirst
<1>1. IInv => ControlFirst
  BY DEF IInv, NextIsControl, ControlFirst
<1> QED
  BY <1>1, AlwaysIInv, PTL

\* The process ends with every command handled that was written before its end was
\* asked for: none is lost in stdin or in the control lane.
THEOREM EndSound == Spec => []EndServesAll
<1>1. IInv => EndServesAll
  BY DEF IInv, Counted, Going, EndServesAll
<1> QED
  BY <1>1, AlwaysIInv, PTL
=============================================================================
