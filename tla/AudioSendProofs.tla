-------------------------- MODULE AudioSendProofs --------------------------
(***************************************************************************)
(* Proofs about AudioSend for every sample set, buffer size and tick       *)
(* count: its invariants, and that it implements SpeechLine.               *)
(***************************************************************************)
EXTENDS AudioSend, SequenceTheorems, TLAPS

\* A shut gate has not stalled for long enough to open, and a tail that is
\* still there has not waited for long enough to be flushed.
CountersBelow ==
  /\ ~gate.open => gate.stalled < StallTicks
  /\ speech # <<>> => tailTicks < FlushTicks

IInv == TypeOK /\ CountersBelow /\ ArmedAtRest

-----------------------------------------------------------------------------
(* The sequences of samples.                                                 *)

\* A chunk is a sequence of samples that is not empty.
LEMMA ChunkIsSeq ==
  ASSUME NEW c \in Chunks
  PROVE  c \in Seq(Samples) /\ Len(c) \in Nat \ {0}
<1>1. PICK n \in 1 .. MaxChunk : c \in [1 .. n -> Samples]
  BY DEF Chunks
<1>2. n \in Nat \ {0}
  BY <1>1, AudioSendAssumption
<1>3. c \in Seq(Samples)
  BY <1>1, <1>2, SeqDef
<1>4. Len(c) = n
  BY <1>1, <1>2, <1>3, LenProperties
<1> QED
  BY <1>2, <1>3, <1>4

\* The rest of a sequence after its first k elements.
LEMMA RestOfSeq ==
  ASSUME NEW s \in Seq(Samples), NEW k \in 0 .. Len(s)
  PROVE  /\ SubSeq(s, k + 1, Len(s)) \in Seq(Samples)
         /\ Len(SubSeq(s, k + 1, Len(s))) = Len(s) - k
<1>1. \A i \in k + 1 .. Len(s) : s[i] \in Samples
  BY ElementOfSeq
<1> QED
  BY <1>1, SubSeqProperties

\* What push_pcm keeps: the queued samples and as many new ones as fit.
LEMMA KeptProperties ==
  ASSUME NEW s \in Seq(Samples), Len(s) <= Cap, NEW c \in Chunks
  PROVE  /\ Kept(s \o c) \in Seq(Samples)
         /\ Len(Kept(s \o c)) \in Len(s) .. Cap
         /\ Kept(s \o c) # <<>>
         /\ s = SubSeq(Kept(s \o c), 1, Len(s))
<1> DEFINE t == s \o c
<1>0. Cap \in Nat \ {0}
  BY AudioSendAssumption
<1>1. c \in Seq(Samples) /\ Len(c) \in Nat \ {0}
  BY ChunkIsSeq
<1>2. t \in Seq(Samples) /\ Len(t) = Len(s) + Len(c)
  BY <1>1, ConcatProperties
<1>3. \A i \in 1 .. Len(s) : t[i] = s[i]
  BY <1>1, <1>2, ConcatProperties
<1>4. \A i \in 1 .. Len(t) : t[i] \in Samples
  BY <1>2, ElementOfSeq
<1>5. CASE Len(t) > Cap
  <2>1. Kept(t) = SubSeq(t, 1, Cap)
    BY <1>5 DEF Kept
  <2>2. Kept(t) \in Seq(Samples) /\ Len(Kept(t)) = Cap
    BY <1>0, <1>2, <1>4, <1>5, <2>1, SubSeqProperties
  <2>3. \A i \in 1 .. Cap : Kept(t)[i] = t[i]
    BY <1>0, <1>2, <1>4, <1>5, <2>1, SubSeqProperties
  <2>4. s = SubSeq(Kept(t), 1, Len(s))
    BY <1>0, <1>3, <2>2, <2>3, SubSeqProperties, SeqEqual, ElementOfSeq, LenProperties
  <2> QED
    BY <1>0, <2>2, <2>4, LenProperties
<1>6. CASE ~(Len(t) > Cap)
  <2>1. Kept(t) = t
    BY <1>6 DEF Kept
  <2>2. s = SubSeq(t, 1, Len(s))
    BY <1>2, <1>3, <1>4, SubSeqProperties, SeqEqual, ElementOfSeq, LenProperties
  <2> QED
    BY <1>0, <1>1, <1>2, <1>6, <2>1, <2>2, LenProperties
<1> QED
  BY <1>5, <1>6

-----------------------------------------------------------------------------
(* The inductive invariant.                                                  *)

\* The types the steps below need, one by one.
LEMMA Typed ==
  ASSUME TypeOK
  PROVE  /\ speech \in Seq(Samples) /\ Len(speech) \in 0 .. Cap
         /\ gate \in Gates /\ gate.open \in BOOLEAN
         /\ gate.stalled \in 0 .. StallTicks /\ gate.seen \in 0 .. Cap
         /\ tailTicks \in 0 .. FlushTicks
BY LenProperties, AudioSendAssumption DEF TypeOK, SizesOK, Gates

\* What a tick takes from the speech buffer is there.
LEMMA TakenBounded ==
  ASSUME TypeOK
  PROVE  /\ Taken \in 0 .. Len(speech)
         /\ Taken <= Frame
         /\ SubSeq(speech, Taken + 1, Len(speech)) \in Seq(Samples)
         /\ Len(SubSeq(speech, Taken + 1, Len(speech))) = Len(speech) - Taken
<1>1. Taken \in 0 .. Len(speech) /\ Taken <= Frame
  BY Typed, AudioSendAssumption DEF Taken, Partial
<1> QED
  BY <1>1, Typed, RestOfSeq

\* The stall counter at a tick that looks at it, and the gate after the tick.
LEMMA GateTyped ==
  ASSUME TypeOK, CountersBelow
  PROVE  /\ Gating => Stalled \in 0 .. StallTicks
         /\ Passed \in Gates
         /\ ~Passed.open => Passed = gate /\ speech = <<>>
         /\ gate.open => Passed.open
<1>1. Gating => Stalled \in 0 .. StallTicks
  BY Typed, AudioSendAssumption DEF Gating, Stalled, CountersBelow
<1>2. CASE Gating
  BY <1>1, <1>2, Typed DEF Passed, Gates
<1>3. CASE ~Gating /\ ~gate.open /\ Len(speech) >= Prebuffer
  BY <1>1, <1>3, Typed, AudioSendAssumption DEF Passed, Gates
<1>4. CASE ~Gating /\ (gate.open \/ Len(speech) < Prebuffer)
  <2>0. ~(~gate.open /\ Len(speech) >= Prebuffer)
    BY <1>4, Typed, AudioSendAssumption
  <2>1. Passed = gate
    BY <1>4, <2>0, Zenon DEF Passed
  <2> QED
    BY <1>1, <1>4, <2>1, Typed DEF Gating
<1> QED
  BY <1>2, <1>3, <1>4, Typed, AudioSendAssumption

\* A shut gate.
LEMMA ShutTyped == Shut \in Gates /\ ~Shut.open /\ Shut.stalled < StallTicks
BY AudioSendAssumption DEF Shut, Gates

LEMMA InitIInv == Init => IInv
<1> SUFFICES ASSUME Init PROVE IInv
  OBVIOUS
<1>1. FlagsOK
  BY DEF Init, FlagsOK
<1>2. SizesOK
  BY EmptySeq, ShutTyped, AudioSendAssumption DEF Init, SizesOK
<1>3. CountersBelow /\ ArmedAtRest
  BY ShutTyped DEF Init, CountersBelow, ArmedAtRest
<1> QED
  BY <1>1, <1>2, <1>3 DEF IInv, TypeOK

\* What the main loop does to the buffers keeps the invariant.
LEMMA CommandKeeps ==
  ASSUME IInv, Command
  PROVE  IInv'
<1>0. FlagsOK /\ SizesOK /\ CountersBelow /\ ArmedAtRest
  BY DEF IInv, TypeOK
<1>1. FlagsOK'
  BY <1>0 DEF Command, PushPcm, PushMusicPcm, SuppressMusic, ResumeMusic, Clear, ClearTts,
              ClearMusic, Renewed, FlagsOK
<1>2. CASE PushPcm
  <2>1. PICK c \in Chunks : speech' = Kept(speech \o c)
    BY <1>2 DEF PushPcm
  <2>2. speech' \in Seq(Samples) /\ Len(speech') <= Cap /\ speech' # <<>>
    BY <1>0, <2>1, KeptProperties, LenProperties DEF SizesOK
  <2>3. SizesOK'
    BY <1>0, <1>2, <2>2, AudioSendAssumption DEF PushPcm, SizesOK
  <2>4. CountersBelow' /\ ArmedAtRest'
    BY <1>0, <1>2, <2>2, AudioSendAssumption DEF PushPcm, CountersBelow, ArmedAtRest
  <2> QED
    BY <1>1, <2>3, <2>4 DEF IInv, TypeOK
<1>3. CASE PushMusicPcm \/ SuppressMusic \/ ResumeMusic \/ ClearMusic
  <2>1. speech' = speech /\ gate' = gate /\ tailTicks' = tailTicks
        /\ speaking' = speaking /\ refused' = refused
    BY <1>3 DEF PushMusicPcm, SuppressMusic, ResumeMusic, ClearMusic
  <2>2. music' \in 0 .. MaxMusic /\ silence' \in 0 .. MaxSilence
    BY <1>0, <1>3, AudioSendAssumption
       DEF PushMusicPcm, SuppressMusic, ResumeMusic, ClearMusic, SizesOK
  <2> QED
    BY <1>0, <1>1, <2>1, <2>2 DEF IInv, TypeOK, SizesOK, CountersBelow, ArmedAtRest
<1>4. CASE Clear \/ ClearTts \/ Renewed
  <2>1. speech' = <<>> /\ gate' = Shut /\ tailTicks' = 0
    BY <1>4 DEF Clear, ClearTts, Renewed
  <2>2. music' \in 0 .. MaxMusic /\ silence' \in 0 .. MaxSilence
    BY <1>0, <1>4, AudioSendAssumption DEF Clear, ClearTts, Renewed, SizesOK
  <2>3. SizesOK'
    BY <2>1, <2>2, EmptySeq, ShutTyped, AudioSendAssumption DEF SizesOK
  <2>4. CountersBelow' /\ ArmedAtRest'
    BY <2>1, ShutTyped DEF CountersBelow, ArmedAtRest
  <2> QED
    BY <1>1, <2>3, <2>4 DEF IInv, TypeOK
<1> QED
  BY <1>2, <1>3, <1>4 DEF Command

\* A tick keeps the invariant.
LEMMA TickKeeps ==
  ASSUME IInv, NextOpusFrame
  PROVE  IInv'
<1>0. TypeOK /\ FlagsOK /\ SizesOK /\ CountersBelow /\ ArmedAtRest
  BY DEF IInv, TypeOK
<1>1. CASE WaitForMore
  <2>1. Stalled \in 0 .. StallTicks /\ Stalled < StallTicks /\ ~gate.open
    BY <1>0, <1>1, GateTyped DEF WaitForMore, Waits, Gating
  <2>2. gate' \in Gates /\ ~gate'.open /\ gate'.stalled < StallTicks
    BY <1>0, <1>1, <2>1, Typed DEF WaitForMore, Gates
  <2>3. FlagsOK'
    BY <1>0, <1>1 DEF WaitForMore, FlagsOK
  <2>4. SizesOK'
    BY <1>0, <1>1, <2>2, AudioSendAssumption DEF WaitForMore, SizesOK
  <2>5. CountersBelow' /\ ArmedAtRest'
    BY <1>1, <2>2, AudioSendAssumption DEF WaitForMore, CountersBelow, ArmedAtRest
  <2> QED
    BY <2>3, <2>4, <2>5 DEF IInv, TypeOK
<1>2. CASE Mix
  <2>1. /\ speech' \in Seq(Samples) /\ Taken \in 0 .. Len(speech)
        /\ Len(speech') = Len(speech) - Taken
    BY <1>0, <1>2, TakenBounded DEF Mix
  <2>2. gate' \in Gates /\ (~gate'.open => gate' = gate)
    BY <1>0, <1>2, GateTyped DEF Mix
  <2>3. music' \in 0 .. MaxMusic
    BY <1>0, <1>2, AudioSendAssumption DEF Mix, Ready, SizesOK
  <2>4. Ticks \in 0 .. FlushTicks
    BY <1>0, Typed, AudioSendAssumption DEF Ticks, Partial, CountersBelow
  <2>5. Partial => Taken = Len(speech)
    BY <1>0, <1>2, Typed, AudioSendAssumption DEF Mix, Taken, Partial
  <2>6. Partial => speech' = <<>>
    BY <1>0, <2>1, <2>5, Typed, LenProperties, EmptySeq
  <2>7. tailTicks' = 0 \/ tailTicks' = Ticks
    BY <1>2 DEF Mix
  <2>8. tailTicks' \in 0 .. FlushTicks /\ (speech' # <<>> => tailTicks' < FlushTicks)
    BY <2>4, <2>6, <2>7, AudioSendAssumption DEF Ticks
  <2>9. FlagsOK' /\ (~speaking' => refused')
    <3>1. \/ speaking' = TRUE /\ refused' = FALSE
          \/ speaking' = speaking /\ refused' = IF speaking THEN refused ELSE TRUE
      BY <1>2, Zenon DEF Mix
    <3>2. suppressed' = suppressed
      BY <1>2, Zenon DEF Mix
    <3> QED
      BY <1>0, <3>1, <3>2, Zenon DEF FlagsOK
  <2>10. silence' \in 0 .. MaxSilence
    <3>1. silence' = 0 \/ silence' = silence
      BY <1>2, Zenon DEF Mix
    <3> QED
      BY <1>0, <3>1, AudioSendAssumption DEF SizesOK
  <2>11. SizesOK'
    BY <1>0, <2>1, <2>2, <2>3, <2>8, <2>10, Typed, AudioSendAssumption DEF SizesOK
  <2> QED
    BY <1>0, <2>2, <2>8, <2>9, <2>11 DEF IInv, TypeOK, CountersBelow, ArmedAtRest
<1>3. CASE HoldPartial
  <2>1. gate' \in Gates /\ (~gate'.open => gate' = gate)
    BY <1>0, <1>3, GateTyped DEF HoldPartial
  <2>2. Ticks \in 0 .. FlushTicks /\ Ticks < FlushTicks /\ speech # <<>>
    BY <1>0, <1>3, Typed, AudioSendAssumption DEF HoldPartial, Taken, Ticks, Partial
  <2>3. FlagsOK'
    BY <1>0, <1>3 DEF HoldPartial, FlagsOK
  <2>4. SizesOK'
    BY <1>0, <1>3, <2>1, <2>2 DEF HoldPartial, SizesOK
  <2>5. CountersBelow' /\ ArmedAtRest'
    BY <1>0, <1>3, <2>1, <2>2 DEF HoldPartial, CountersBelow, ArmedAtRest
  <2> QED
    BY <2>3, <2>4, <2>5 DEF IInv, TypeOK
<1>4. CASE TrailingSilence
  <2>1. FlagsOK'
    BY <1>0, <1>4 DEF TrailingSilence, FlagsOK
  <2>2. SizesOK'
    BY <1>0, <1>4, AudioSendAssumption DEF TrailingSilence, SizesOK
  <2>3. CountersBelow' /\ ArmedAtRest'
    BY <1>0, <1>4 DEF TrailingSilence, CountersBelow, ArmedAtRest
  <2> QED
    BY <2>1, <2>2, <2>3 DEF IInv, TypeOK
<1>5. CASE Idle
  <2>1. gate' = IF speaking THEN Shut ELSE gate
    BY <1>5 DEF Idle, ShutAtEnd
  <2>2. gate' \in Gates /\ (~gate'.open => gate'.stalled < StallTicks)
    BY <1>0, <2>1, Typed, ShutTyped DEF CountersBelow
  <2>3. FlagsOK'
    BY <1>0, <1>5 DEF Idle, FlagsOK
  <2>4. SizesOK'
    BY <1>0, <1>5, <2>2, AudioSendAssumption DEF Idle, SizesOK
  <2>5. ArmedAtRest'
    BY <1>0, <1>5, <2>1, ShutTyped DEF Idle, ArmedAtRest
  <2> QED
    BY <1>5, <2>2, <2>3, <2>4, <2>5 DEF Idle, IInv, TypeOK, CountersBelow
<1> QED
  BY <1>1, <1>2, <1>3, <1>4, <1>5 DEF NextOpusFrame

LEMMA StepIInv == IInv /\ [Next]_vars => IInv'
<1> SUFFICES ASSUME IInv, [Next]_vars PROVE IInv'
  OBVIOUS
<1>1. CASE Next
  BY <1>1, CommandKeeps, TickKeeps DEF Next
<1>2. CASE UNCHANGED vars
  BY <1>2 DEF vars, IInv, TypeOK, FlagsOK, SizesOK, CountersBelow, ArmedAtRest
<1> QED
  BY <1>1, <1>2

LEMMA AlwaysIInv == Spec => []IInv
BY InitIInv, StepIInv, PTL DEF Spec

\* The buffers stay bounded and the counters within their limits, for every
\* size of the buffers and every order of pushes, clears and ticks.
THEOREM TypeCorrect == Spec => []TypeOK
<1>1. IInv => TypeOK
  BY DEF IInv
<1> QED
  BY <1>1, AlwaysIInv, PTL

\* At rest the gate is shut unless the encoder refused a frame.
THEOREM RestIsArmed == Spec => []ArmedAtRest
<1>1. IInv => ArmedAtRest
  BY DEF IInv
<1> QED
  BY <1>1, AlwaysIInv, PTL

-----------------------------------------------------------------------------
(* The mixer implements SpeechLine.                                          *)

\* The mapped variables have the types of SpeechLine.
Mapped ==
  /\ HeldSoFar \in Nat /\ MaxPatience \in Nat
  /\ PatienceLeft \in 0 .. MaxPatience
  /\ Owed \in 0 .. MaxSilence
  /\ gate.open \in BOOLEAN

LEMMA MappedTyped == TypeOK => Mapped
<1> SUFFICES ASSUME TypeOK PROVE Mapped
  OBVIOUS
<1>1. HeldSoFar \in Nat /\ MaxPatience \in Nat
  BY Typed, AudioSendAssumption DEF HeldSoFar, MaxPatience
<1>2. PatienceLeft \in 0 .. MaxPatience
  BY <1>1 DEF PatienceLeft
<1>3. Owed \in 0 .. MaxSilence
  BY AudioSendAssumption DEF Owed, TypeOK, SizesOK
<1> QED
  BY <1>1, <1>2, <1>3, Typed DEF Mapped

\* The same in the next state.
LEMMA MappedTypedNext ==
  TypeOK' => /\ HeldSoFar' \in Nat /\ PatienceLeft' \in 0 .. MaxPatience
             /\ Owed' \in 0 .. MaxSilence /\ gate'.open \in BOOLEAN
<1>1. TypeOK' => Mapped'
  BY MappedTyped, PTL
<1>2. MaxPatience' = MaxPatience
  BY DEF MaxPatience
<1> QED
  BY <1>1, <1>2 DEF Mapped

\* Longer held, within the limit, means less patience left.
LEMMA PatienceFalls ==
  ASSUME TypeOK, TypeOK', HeldSoFar < HeldSoFar', HeldSoFar' <= MaxPatience
  PROVE  PatienceLeft' < PatienceLeft
<1>1. HeldSoFar \in Nat /\ HeldSoFar' \in Nat /\ MaxPatience \in Nat
  BY MappedTyped, MappedTypedNext DEF Mapped
<1>2. MaxPatience' = MaxPatience
  BY DEF MaxPatience
<1>3. PatienceLeft' = MaxPatience - HeldSoFar'
  BY <1>1, <1>2 DEF PatienceLeft
<1>4. PatienceLeft = MaxPatience - HeldSoFar
  BY <1>1 DEF PatienceLeft
<1>5. \A m, a, b \in Nat : a < b => m - b < m - a
  OBVIOUS
<1> QED
  BY <1>1, <1>3, <1>4, <1>5

\* Waiting for more speech, and for a full frame, are holds of the line.
LEMMA WaitIsHold ==
  ASSUME IInv, IInv', WaitForMore
  PROVE  Line!Hold
<1>0. TypeOK /\ TypeOK' /\ CountersBelow
  BY DEF IInv
<1>1. Gating /\ Stalled < StallTicks /\ speech # <<>> /\ ~gate.open /\ Len(speech) < Prebuffer
  BY DEF WaitForMore, Waits, Gating
<1>2. speech' = speech /\ silence' = silence
      /\ gate' = [gate EXCEPT !.stalled = Stalled, !.seen = Len(speech)]
  BY DEF WaitForMore
<1>3. ~gate'.open /\ gate'.stalled = Stalled /\ gate'.seen = Len(speech)
  BY <1>0, <1>1, <1>2, Typed DEF Gates
<1>4. Len(speech) \in Nat /\ gate.seen \in Nat /\ gate.stalled \in Nat
  BY <1>0, Typed
<1>5. Gating' /\ Len(speech') <= gate'.seen
  BY <1>1, <1>2, <1>3, <1>4 DEF Gating
<1>6. HeldSoFar' = 1 + Stalled
  BY <1>3, <1>5 DEF HeldSoFar
<1>7. HeldSoFar = IF Len(speech) <= gate.seen THEN 1 + gate.stalled ELSE 0
  BY <1>1 DEF HeldSoFar
<1>8. HeldSoFar < HeldSoFar' /\ HeldSoFar' <= MaxPatience
  BY <1>1, <1>4, <1>6, <1>7, AudioSendAssumption DEF Stalled, MaxPatience
<1>9. PatienceLeft' < PatienceLeft /\ PatienceLeft' \in Line!Patience
  <2>1. PatienceLeft' < PatienceLeft
    BY <1>0, <1>8, PatienceFalls
  <2>2. PatienceLeft' \in 0 .. MaxPatience
    BY <1>0, MappedTypedNext
  <2> QED
    BY <2>1, <2>2 DEF Line!Patience
<1>10. Owed' = Owed
  BY <1>2 DEF Owed
<1>11. gate'.open \in BOOLEAN /\ gate'.open = gate.open
  BY <1>0, <1>1, <1>3, Typed, MappedTypedNext
<1> QED
  BY <1>1, <1>2, <1>9, <1>10, <1>11 DEF Line!Hold

LEMMA PartialIsHold ==
  ASSUME IInv, IInv', HoldPartial
  PROVE  Line!Hold
<1>0. TypeOK /\ TypeOK' /\ CountersBelow
  BY DEF IInv
<1>1. ~Waits /\ Taken = 0 /\ ~Ready /\ Partial /\ speech # <<>> /\ Len(speech) < Frame
  BY DEF HoldPartial, Partial
<1>2. speech' = speech /\ silence' = silence /\ gate' = Passed /\ tailTicks' = Ticks
  BY DEF HoldPartial
<1>3. gate'.open
  BY <1>0, <1>1, <1>2, GateTyped
<1>4. Len(speech) \in Nat /\ gate.stalled \in Nat /\ tailTicks \in Nat /\ gate.seen \in Nat
  BY <1>0, Typed
<1>5. Ticks = tailTicks + 1 /\ Ticks < FlushTicks
  BY <1>1, <1>4, AudioSendAssumption DEF Ticks, Taken, Partial
<1>6. HeldSoFar' = StallTicks + Ticks
  BY <1>2, <1>3 DEF HeldSoFar
<1>7. HeldSoFar <= StallTicks + tailTicks
  BY <1>0, <1>4, AudioSendAssumption DEF HeldSoFar, CountersBelow
<1>8. HeldSoFar \in Nat
  BY <1>0, MappedTyped DEF Mapped
<1>9. HeldSoFar < HeldSoFar' /\ HeldSoFar' <= MaxPatience
  BY <1>4, <1>5, <1>6, <1>7, <1>8, AudioSendAssumption DEF MaxPatience
<1>10. PatienceLeft' < PatienceLeft
  BY <1>0, <1>9, PatienceFalls
<1>11. PatienceLeft' \in 0 .. MaxPatience
  BY <1>0, MappedTypedNext
<1>12. Owed' = Owed
  BY <1>2 DEF Owed
<1>13. gate'.open \in BOOLEAN
  BY <1>0, MappedTypedNext
<1> QED
  BY <1>1, <1>2, <1>3, <1>10, <1>11, <1>12, <1>13 DEF Line!Hold, Line!Patience

\* A mixed frame plays the head of the line.
LEMMA MixIsPlay ==
  ASSUME IInv, IInv', Mix
  PROVE  Line!Play
<1>0. TypeOK /\ TypeOK' /\ CountersBelow /\ speech \in Seq(Samples) /\ Len(speech) \in Nat
  BY Typed DEF IInv
<1>1. Taken \in 0 .. Len(speech) /\ Taken <= Frame
  BY <1>0, TakenBounded
<1>2. speech' = SubSeq(speech, Taken + 1, Len(speech))
  BY DEF Mix
<1>3. speech = <<>> => Taken = 0
  BY <1>0, <1>1, LenProperties, EmptySeq
<1>4. speech # <<>> => Taken # 0
  <2>1. speech # <<>> => Len(speech) > 0
    BY <1>0, LenProperties
  <2>2. Taken > 0 \/ Ready
    BY DEF Mix
  <2> QED
    BY <1>0, <1>1, <2>1, <2>2, AudioSendAssumption DEF Taken, Partial
<1>5. Taken \in 0 .. Frame
  BY <1>0, <1>1, AudioSendAssumption
<1>6. Owed' = Owed \/ Owed' = MaxSilence
  <2>1. silence' = 0 \/ silence' = silence
    BY Zenon DEF Mix
  <2> QED
    BY <2>1, AudioSendAssumption DEF Owed
<1>7. gate' = Passed
  BY Zenon DEF Mix
<1>8. gate'.open \in BOOLEAN /\ (gate.open => gate'.open)
  BY <1>0, <1>7, GateTyped, MappedTypedNext
<1>9. PatienceLeft' \in 0 .. MaxPatience
  BY <1>0, MappedTypedNext
<1>10. \E n \in 0 .. Frame : /\ n = 0 <=> speech = <<>>
                             /\ n <= Len(speech)
                             /\ speech' = SubSeq(speech, n + 1, Len(speech))
  BY <1>1, <1>2, <1>3, <1>4, <1>5
<1> QED
  BY <1>6, <1>8, <1>9, <1>10 DEF Line!Play, Line!Patience

\* Every tick is a step of the line.
LEMMA TickMaps ==
  ASSUME IInv, IInv', NextOpusFrame
  PROVE  Line!Next \/ UNCHANGED Line!vars
<1>0. TypeOK /\ TypeOK'
  BY DEF IInv
<1>1. CASE WaitForMore
  BY <1>1, WaitIsHold DEF Line!Next
<1>2. CASE Mix
  BY <1>2, MixIsPlay DEF Line!Next
<1>3. CASE HoldPartial
  BY <1>3, PartialIsHold DEF Line!Next
<1>4. CASE TrailingSilence
  <2>1. speech = <<>> /\ speech' = speech /\ gate' = gate
        /\ silence < MaxSilence /\ silence' = silence + 1
    BY <1>4 DEF TrailingSilence
  <2>2. silence \in 0 .. MaxSilence
    BY <1>0 DEF TypeOK, SizesOK
  <2>3. Owed > 0 /\ Owed' = Owed - 1
    BY <2>1, <2>2, AudioSendAssumption DEF Owed
  <2>4. PatienceLeft' \in 0 .. MaxPatience
    BY <1>0, MappedTypedNext
  <2> QED
    BY <2>1, <2>3, <2>4 DEF Line!Next, Line!Silence, Line!Patience
<1>5. CASE Idle
  <2>1. speech = <<>> /\ speech' = speech /\ silence = MaxSilence /\ silence' = silence
        /\ speaking' = FALSE /\ gate' = IF speaking THEN Shut ELSE gate
    BY <1>5 DEF Idle, ShutAtEnd
  <2>2. Owed = 0 /\ Owed' = Owed
    BY <2>1, AudioSendAssumption DEF Owed
  <2>3. PatienceLeft' \in 0 .. MaxPatience /\ gate'.open \in BOOLEAN
    BY <1>0, MappedTypedNext
  <2>4. CASE ~gate'.open
    <3>1. gate'.open = FALSE
      BY <2>3, <2>4
    <3> QED
      BY <2>1, <2>2, <2>3, <3>1 DEF Line!Next, Line!End, Line!Patience
  <2>5. CASE gate'.open
    <3>1. gate' = gate
      BY <2>1, <2>5, ShutTyped
    <3>2. tailTicks' = 0
      BY <1>5 DEF Idle
    <3>3. CASE PatienceLeft' = PatienceLeft
      BY <2>1, <2>2, <3>1, <3>3 DEF Line!vars
    <3>4. CASE PatienceLeft' # PatienceLeft
      <4>1. \E n \in 0 .. Frame : /\ n = 0 <=> speech = <<>>
                                  /\ n <= Len(speech)
                                  /\ speech' = SubSeq(speech, n + 1, Len(speech))
        BY <2>1, EmptySeq, AudioSendAssumption
      <4> QED
        BY <2>1, <2>2, <2>3, <3>1, <4>1 DEF Line!Next, Line!Play, Line!Patience
    <3> QED
      BY <3>3, <3>4
  <2> QED
    BY <2>4, <2>5
<1> QED
  BY <1>1, <1>2, <1>3, <1>4, <1>5 DEF NextOpusFrame

\* So is every command of the main loop.
LEMMA CommandMaps ==
  ASSUME IInv, IInv', Command
  PROVE  Line!Next \/ UNCHANGED Line!vars
<1>0. TypeOK /\ TypeOK' /\ speech \in Seq(Samples) /\ Len(speech) <= Cap
  BY DEF IInv, TypeOK, SizesOK
<1>1. PatienceLeft' \in 0 .. MaxPatience /\ gate'.open \in BOOLEAN
  BY <1>0, MappedTypedNext
<1>2. CASE PushPcm
  <2>1. PICK c \in Chunks : speech' = Kept(speech \o c)
    BY <1>2 DEF PushPcm
  <2>2. /\ speech' \in Seq(Samples) /\ Len(speech') \in Len(speech) .. Cap
        /\ speech = SubSeq(speech', 1, Len(speech))
    BY <1>0, <2>1, KeptProperties
  <2>3. Owed' = MaxSilence /\ gate' = gate
    BY <1>2, AudioSendAssumption DEF PushPcm, Owed
  <2> QED
    BY <1>1, <2>2, <2>3 DEF Line!Next, Line!Join, Line!Patience
<1>3. CASE PushMusicPcm \/ SuppressMusic \/ ResumeMusic \/ ClearMusic
  <2>1. speech' = speech /\ gate' = gate /\ tailTicks' = tailTicks
    BY <1>3 DEF PushMusicPcm, SuppressMusic, ResumeMusic, ClearMusic
  <2>2. PatienceLeft' = PatienceLeft
    BY <2>1 DEF PatienceLeft, HeldSoFar, Gating, MaxPatience
  <2>3. silence' = silence \/ silence' = 0 \/ silence' = MaxSilence
    BY <1>3 DEF PushMusicPcm, SuppressMusic, ResumeMusic, ClearMusic
  <2>4. Owed' = Owed \/ Owed' \in {0, MaxSilence}
    BY <2>3, AudioSendAssumption DEF Owed
  <2> QED
    BY <2>1, <2>2, <2>4 DEF Line!Next, Line!MusicTurns, Line!vars
<1>4. CASE Clear \/ ClearTts \/ Renewed
  <2>1. speech' = <<>> /\ gate'.open = FALSE
    BY <1>4 DEF Clear, ClearTts, Renewed, Shut
  <2>2. silence' = silence \/ silence' = 0 \/ silence' = MaxSilence
    BY <1>4 DEF Clear, ClearTts, Renewed
  <2>3. Owed' \in {0, Owed, MaxSilence}
    BY <2>2, AudioSendAssumption DEF Owed
  <2> QED
    BY <1>1, <2>1, <2>3 DEF Line!Next, Line!Clear, Line!Patience
<1> QED
  BY <1>2, <1>3, <1>4 DEF Command

\* The mixer implements the line of speech, for every buffer size, frame size and
\* tick count: no order of pushes, clears, music and ticks makes it drop queued
\* speech, play it out of order or hold it longer than MaxPatience ticks.
THEOREM MixerImplementsLine == Spec => ImplementsLine
<1>1. Init => Line!Init
  <2> SUFFICES ASSUME Init PROVE Line!Init
    OBVIOUS
  <2>1. IInv /\ TypeOK
    BY InitIInv DEF IInv
  <2>2. PatienceLeft \in 0 .. MaxPatience
    BY <2>1, MappedTyped DEF Mapped
  <2>3. speech = <<>> /\ gate.open = FALSE
    BY DEF Init, Shut
  <2>4. Owed = MaxSilence
    BY AudioSendAssumption DEF Init, Owed
  <2> QED
    BY <2>2, <2>3, <2>4 DEF Line!Init, Line!Patience
<1>2. IInv /\ IInv' /\ [Next]_vars => [Line!Next]_(Line!vars)
  <2> SUFFICES ASSUME IInv, IInv', [Next]_vars PROVE Line!Next \/ UNCHANGED Line!vars
    OBVIOUS
  <2>1. CASE Next
    BY <2>1, TickMaps, CommandMaps DEF Next
  <2>2. CASE UNCHANGED vars
    BY <2>2 DEF vars, Line!vars, PatienceLeft, HeldSoFar, Gating, MaxPatience, Owed
  <2> QED
    BY <2>1, <2>2
<1> QED
  BY <1>1, <1>2, AlwaysIInv, PTL DEF Spec, ImplementsLine, Line!Spec
=============================================================================
