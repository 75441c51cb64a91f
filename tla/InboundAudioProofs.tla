------------------------- MODULE InboundAudioProofs -------------------------
(***************************************************************************)
(* Proofs about inbound audio: first about Capture alone, for every set of *)
(* users and SSRCs, every width of the sequence number and every timeout;  *)
(* then about InboundAudio, where the two tasks of the transport feed it,  *)
(* for every capacity of the event queue.                                  *)
(***************************************************************************)
EXTENDS InboundAudio, SequenceTheorems, TLAPS

-----------------------------------------------------------------------------
(* Sequence numbers.                                                         *)

\* The sizes the proofs need.
LEMMA Sizes ==
  /\ SeqMod \in Nat \ {0} /\ SeqMod \div 2 \in Nat /\ SeqMod = 2 * (SeqMod \div 2)
  /\ MaxGap \in Nat \ {0} /\ FirstSeq \in Nat
  /\ MaxIndex \in Nat /\ Window \in Nat /\ Window < SeqMod \div 2 /\ Jump \in Nat
BY SequenceAssumption, NetworkAssumption

\* Multiples of the modulus are the modulus apart.
LEMMA Multiples ==
  ASSUME NEW k \in Int
  PROVE  /\ k * SeqMod \in Int
         /\ k > 0 => k * SeqMod >= SeqMod
         /\ k < 0 => k * SeqMod <= -SeqMod
BY Sizes

\* Division with a remainder.
LEMMA Division ==
  ASSUME NEW x \in Int, NEW m \in Nat \ {0}
  PROVE  \E q \in Int, r \in 0 .. m - 1 : x % m = r /\ x = q * m + r
<1>1. x \div m \in Int
  OBVIOUS
<1>2. x % m \in 0 .. m - 1
  OBVIOUS
<1>3. x = m * (x \div m) + (x % m)
  OBVIOUS
<1> DEFINE q == x \div m
           r == x % m
<1>4. q \in Int /\ r \in 0 .. m - 1 /\ x % m = r /\ x = q * m + r
  BY <1>1, <1>2, <1>3
<1> HIDE DEF q, r
<1> QED
  BY <1>4, Zenon

\* The remainders of two numbers differ as the numbers do, but for a multiple.
LEMMA Quotients ==
  ASSUME NEW m \in Int, NEW i \in Int, NEW n \in Int, NEW f \in Int,
         NEW x \in Int, NEW y \in Int, NEW d \in Int,
         NEW a \in Int, NEW b \in Int, NEW c \in Int,
         i + n = a * m + x, i + f = b * m + y, x - (y + 1) = c * m + d
  PROVE  /\ d = (n - f - 1) + (b - a - c) * m
         /\ d - m = (n - f - 1) + (b - a - c - 1) * m
<1>1. (b - a - c) * m = b * m - a * m - c * m
  OBVIOUS
<1>2. (b - a - c - 1) * m = b * m - a * m - c * m - m
  OBVIOUS
<1> QED
  BY <1>1, <1>2

\* classify_rtp_sequence sees how far packet n is from the one after f, but for a
\* multiple of the modulus, as a signed number of the width.
LEMMA DistanceOfIndices ==
  ASSUME NEW f \in Int, NEW n \in Int
  PROVE  /\ Distance(SeqOf(f), SeqOf(n)) \in -(SeqMod \div 2) .. (SeqMod \div 2) - 1
         /\ \E k \in Int : Distance(SeqOf(f), SeqOf(n)) = (n - f - 1) + k * SeqMod
<1>1. PICK a \in Int, x \in 0 .. SeqMod - 1 : SeqOf(n) = x /\ FirstSeq + n = a * SeqMod + x
  BY Division, Sizes DEF SeqOf
<1>2. PICK b \in Int, y \in 0 .. SeqMod - 1 : SeqOf(f) = y /\ FirstSeq + f = b * SeqMod + y
  BY Division, Sizes DEF SeqOf
<1>3. PICK c \in Int, d \in 0 .. SeqMod - 1 :
        (x - (y + 1)) % SeqMod = d /\ x - (y + 1) = c * SeqMod + d
  BY Division, Sizes
<1>4. Distance(SeqOf(f), SeqOf(n)) = IF d >= SeqMod \div 2 THEN d - SeqMod ELSE d
  BY <1>1, <1>2, <1>3 DEF Distance
<1>5. d = (n - f - 1) + (b - a - c) * SeqMod /\ d - SeqMod = (n - f - 1) + (b - a - c - 1) * SeqMod
  BY <1>1, <1>2, <1>3, Sizes, Quotients
<1>6. b - a - c \in Int /\ b - a - c - 1 \in Int
  OBVIOUS
<1>7. Distance(SeqOf(f), SeqOf(n)) \in -(SeqMod \div 2) .. (SeqMod \div 2) - 1
  BY <1>4, Sizes
<1>8. \E k \in Int : Distance(SeqOf(f), SeqOf(n)) = (n - f - 1) + k * SeqMod
  BY <1>4, <1>5, <1>6
<1> QED
  BY <1>7, <1>8

\* Within half of the number space the distance is exact.
LEMMA DistanceIsExact ==
  ASSUME NEW f \in Int, NEW n \in Int, n - f - 1 \in -(SeqMod \div 2) .. (SeqMod \div 2) - 1
  PROVE  Distance(SeqOf(f), SeqOf(n)) = n - f - 1
<1>1. PICK k \in Int : Distance(SeqOf(f), SeqOf(n)) = (n - f - 1) + k * SeqMod
  BY DistanceOfIndices
<1>2. Distance(SeqOf(f), SeqOf(n)) \in -(SeqMod \div 2) .. (SeqMod \div 2) - 1
  BY DistanceOfIndices
<1>3. k = 0
  BY <1>1, <1>2, Multiples, Sizes
<1> QED
  BY <1>1, <1>3, Sizes

\* A packet that is really ahead is never taken for one that is farther ahead.
LEMMA DistanceNotBeyond ==
  ASSUME NEW f \in Int, NEW n \in Int, f < n
  PROVE  Distance(SeqOf(f), SeqOf(n)) <= n - f - 1
<1>1. PICK k \in Int : Distance(SeqOf(f), SeqOf(n)) = (n - f - 1) + k * SeqMod
  BY DistanceOfIndices
<1>2. Distance(SeqOf(f), SeqOf(n)) \in -(SeqMod \div 2) .. (SeqMod \div 2) - 1
  BY DistanceOfIndices
<1>3. k <= 0
  BY <1>1, <1>2, Multiples, Sizes
<1> QED
  BY <1>1, <1>3, Multiples, Sizes

\* Sequence numbers are numbers.
LEMMA SeqOfTyped ==
  ASSUME NEW n \in Int
  PROVE  SeqOf(n) \in 0 .. SeqMod - 1
<1>1. PICK a \in Int, x \in 0 .. SeqMod - 1 : SeqOf(n) = x
  BY Division, Sizes DEF SeqOf
<1> QED
  BY <1>1

-----------------------------------------------------------------------------
(* The inductive invariant.                                                  *)

\* What the code keeps of an SSRC is the number of the packet it decoded last,
\* which is no newer than the newest that was seen, and the parent's timeline
\* is not ahead of it.
NumbersOK(s) ==
  /\ lastSeq[s] = IF fed[s] = None THEN None ELSE SeqOf(fed[s])
  /\ timeline[s] = None <=> fed[s] = None
  /\ timeline[s] <= fed[s]
  /\ fed[s] <= newest[s]

NumbersAgree == \A s \in Ssrcs : NumbersOK(s)

IInv == TypeOK /\ ParentInformed /\ DecoderOfOneUser /\ NumbersAgree

LEMMA InitIInv == Init => IInv
<1> SUFFICES ASSUME Init PROVE IInv
  OBVIOUS
<1>1. TypeOK
  BY Sizes, SequenceAssumption DEF Init, TypeOK
<1>2. ParentInformed
  BY DEF Init, ParentInformed
<1>3. DecoderOfOneUser
  BY DEF Init, DecoderOfOneUser
<1>4. NumbersAgree
  BY DEF Init, NumbersAgree, NumbersOK, None
<1> QED
  BY <1>1, <1>2, <1>3, <1>4 DEF IInv

\* The packet that classify_rtp_sequence accepts is newer than the last decoded
\* one, although the code sees no more than its number, and what is concealed
\* before it fits between the two.
LEMMA AcceptedIsAhead ==
  ASSUME IInv, NEW s \in Ssrcs, NEW n \in 0 .. MaxIndex,
         n >= newest[s] - Window, fed[s] # None, ~IsStale(lastSeq[s], SeqOf(n))
  PROVE  /\ fed[s] < n
         /\ \A r \in Concealed(s, n) : r \in Nat /\ timeline[s] + r + 1 <= n
<1> DEFINE d == Distance(SeqOf(fed[s]), SeqOf(n))
<1>1. /\ fed[s] \in 0 .. MaxIndex /\ timeline[s] \in 0 .. MaxIndex /\ newest[s] \in 0 .. MaxIndex
      /\ lastSeq[s] = SeqOf(fed[s]) /\ timeline[s] <= fed[s] /\ fed[s] <= newest[s]
  BY Sizes DEF IInv, TypeOK, NumbersAgree, NumbersOK, None
<1>2. lastSeq[s] # None
  BY <1>1, SeqOfTyped, Sizes DEF None
<1>3. d \in Int /\ d >= 0
  <2>1. d \in -(SeqMod \div 2) .. (SeqMod \div 2) - 1
    <3>1. fed[s] \in Int /\ n \in Int
      BY <1>1, Sizes
    <3> QED
      BY <3>1, DistanceOfIndices, Zenon
  <2>2. ~(d < 0)
    BY <1>1, <1>2 DEF IsStale
  <2> HIDE DEF d
  <2> QED
    BY <2>1, <2>2, Sizes
<1>4. fed[s] < n
  <2> SUFFICES ASSUME n <= fed[s] PROVE FALSE
    BY <1>1, Sizes
  <2>1. n - fed[s] - 1 \in -(SeqMod \div 2) .. (SeqMod \div 2) - 1
    BY <1>1, Sizes
  <2>2. d = n - fed[s] - 1
    BY <1>1, <2>1, DistanceIsExact, Sizes
  <2> QED
    BY <1>1, <1>3, <2>2, Sizes
<1>5. d <= n - fed[s] - 1
  BY <1>1, <1>4, DistanceNotBeyond, Sizes
<1>6. \A r \in Concealed(s, n) : r \in Nat /\ r <= d
  BY <1>1, <1>3, Sizes DEF Concealed, LostBefore
<1> HIDE DEF d
<1> QED
  BY <1>1, <1>3, <1>4, <1>5, <1>6, Sizes

\* What a remapping forgets leaves the numbers of every SSRC in step.
LEMMA ForgetKeeps ==
  ASSUME IInv, NEW S, ForgetDecoders(S), newest' = newest
  PROVE  /\ decoder' \in [Ssrcs -> Users \cup {NoUser}]
         /\ lastSeq' \in [Ssrcs -> {None} \cup 0 .. SeqMod - 1]
         /\ fed' \in [Ssrcs -> {None} \cup 0 .. MaxIndex]
         /\ timeline' \in [Ssrcs -> {None} \cup 0 .. MaxIndex]
         /\ NumbersAgree'
<1>1. TypeOK /\ NumbersAgree
  BY DEF IInv
<1>2. NumbersAgree'
  <2> SUFFICES ASSUME NEW s \in Ssrcs PROVE NumbersOK(s)'
    BY DEF NumbersAgree
  <2>1. CASE s \in S
    BY <1>1, <2>1, Sizes DEF ForgetDecoders, TypeOK, NumbersOK, None
  <2>2. CASE s \notin S
    BY <1>1, <2>2 DEF ForgetDecoders, NumbersAgree, NumbersOK
  <2> QED
    BY <2>1, <2>2
<1> QED
  BY <1>1, <1>2 DEF ForgetDecoders, TypeOK

\* The packets that are decoded, with what was concealed before them.
LEMMA DecodedKeeps ==
  ASSUME IInv, NEW s \in Ssrcs, NEW n \in 0 .. MaxIndex, NEW u, NEW r \in Concealed(s, n),
         n >= newest[s] - Window, Accepted(s, n), Decoded(s, u, n, r),
         newest' = [newest EXCEPT ![s] = IF n > @ THEN n ELSE @]
  PROVE  /\ lastSeq' \in [Ssrcs -> {None} \cup 0 .. SeqMod - 1]
         /\ fed' \in [Ssrcs -> {None} \cup 0 .. MaxIndex]
         /\ timeline' \in [Ssrcs -> {None} \cup 0 .. MaxIndex]
         /\ fed[s] < n
         /\ NumbersAgree'
<1>0. TypeOK /\ NumbersAgree
  BY DEF IInv
<1>1. /\ fed[s] \in {None} \cup 0 .. MaxIndex /\ timeline[s] \in {None} \cup 0 .. MaxIndex
      /\ newest[s] \in {None} \cup 0 .. MaxIndex
      /\ timeline[s] = None <=> fed[s] = None
  BY <1>0 DEF TypeOK, NumbersAgree, NumbersOK
<1>2. SeqOf(n) \in 0 .. SeqMod - 1
  BY SeqOfTyped, Sizes
<1>3. fed[s] # None => fed[s] < n /\ r \in Nat /\ timeline[s] + r + 1 <= n
  BY AcceptedIsAhead DEF Accepted
<1>4. fed[s] < n
  BY <1>1, <1>3, Sizes DEF None
<1>5. /\ timeline'[s] \in 0 .. MaxIndex /\ timeline'[s] <= n
      /\ fed'[s] = n /\ lastSeq'[s] = SeqOf(n)
      /\ newest'[s] \in 0 .. MaxIndex /\ n <= newest'[s]
  BY <1>0, <1>1, <1>3, Sizes DEF Decoded, TypeOK, None
<1>6. \A q \in Ssrcs \ {s} : /\ timeline'[q] = timeline[q] /\ fed'[q] = fed[q]
                             /\ lastSeq'[q] = lastSeq[q] /\ newest'[q] = newest[q]
  BY <1>0 DEF Decoded, TypeOK
<1>7. NumbersAgree'
  <2> SUFFICES ASSUME NEW q \in Ssrcs PROVE NumbersOK(q)'
    BY DEF NumbersAgree
  <2>1. CASE q = s
    BY <1>5, <2>1, Sizes DEF NumbersOK, None
  <2>2. CASE q # s
    BY <1>0, <1>6, <2>2 DEF NumbersAgree, NumbersOK
  <2> QED
    BY <2>1, <2>2
<1>8. /\ lastSeq' \in [Ssrcs -> {None} \cup 0 .. SeqMod - 1]
      /\ fed' \in [Ssrcs -> {None} \cup 0 .. MaxIndex]
  BY <1>0, <1>2 DEF Decoded, TypeOK
<1>9. timeline' \in [Ssrcs -> {None} \cup 0 .. MaxIndex]
  <2>1. PICK v : timeline' = [timeline EXCEPT ![s] = v]
    BY <1>0 DEF Decoded, TypeOK
  <2>2. v = timeline'[s]
    BY <1>0, <2>1 DEF TypeOK
  <2> QED
    BY <1>0, <1>5, <2>1, <2>2 DEF TypeOK
<1> QED
  BY <1>4, <1>7, <1>8, <1>9

-----------------------------------------------------------------------------
(* Every step keeps the invariant.                                           *)

LEMMA SsrcUpdateKeeps ==
  ASSUME IInv, NEW s \in Ssrcs, NEW u \in Users, SsrcUpdate(s, u)
  PROVE  IInv'
<1>1. TypeOK /\ ParentInformed /\ DecoderOfOneUser
  BY DEF IInv
<1>2. ForgetDecoders(IF ssrcMap[s] = u THEN {} ELSE {s}) /\ newest' = newest
  BY DEF SsrcUpdate
<1>3. /\ decoder' \in [Ssrcs -> Users \cup {NoUser}]
      /\ lastSeq' \in [Ssrcs -> {None} \cup 0 .. SeqMod - 1]
      /\ fed' \in [Ssrcs -> {None} \cup 0 .. MaxIndex]
      /\ timeline' \in [Ssrcs -> {None} \cup 0 .. MaxIndex]
      /\ NumbersAgree'
  BY <1>2, ForgetKeeps
<1>4. TypeOK'
  BY <1>1, <1>3, SequenceAssumption DEF SsrcUpdate, TypeOK, parent
<1>5. ParentInformed'
  BY <1>1 DEF SsrcUpdate, ParentInformed, parent
<1>6. DecoderOfOneUser'
  BY <1>1 DEF SsrcUpdate, DecoderOfOneUser, ForgetDecoders, TypeOK
<1> QED
  BY <1>3, <1>4, <1>5, <1>6 DEF IInv

LEMMA ClientDisconnectKeeps ==
  ASSUME IInv, NEW u \in Users, ClientDisconnect(u)
  PROVE  IInv'
<1> DEFINE gone == {s \in Ssrcs : ssrcMap[s] = u}
<1>1. TypeOK /\ ParentInformed /\ DecoderOfOneUser
  BY DEF IInv
<1>2. ForgetDecoders(gone) /\ newest' = newest
      /\ ssrcMap' = [s \in Ssrcs |-> IF s \in gone THEN NoUser ELSE ssrcMap[s]]
  BY DEF ClientDisconnect
<1>3. /\ decoder' \in [Ssrcs -> Users \cup {NoUser}]
      /\ lastSeq' \in [Ssrcs -> {None} \cup 0 .. SeqMod - 1]
      /\ fed' \in [Ssrcs -> {None} \cup 0 .. MaxIndex]
      /\ timeline' \in [Ssrcs -> {None} \cup 0 .. MaxIndex]
      /\ NumbersAgree'
  BY <1>2, ForgetKeeps
<1>4. TypeOK'
  BY <1>1, <1>2, <1>3 DEF ClientDisconnect, TypeOK
<1>5. ParentInformed'
  BY <1>1 DEF ClientDisconnect, ParentInformed, TypeOK
<1>6. DecoderOfOneUser'
  BY <1>1, <1>2 DEF DecoderOfOneUser, ForgetDecoders, TypeOK
<1> QED
  BY <1>3, <1>4, <1>5, <1>6 DEF IInv

\* A packet of a user nobody is subscribed to only makes that user a speaker; one
\* that fails to decode leaves a decoder of the SSRC's present user behind.
LEMMA OpusReceivedKeeps ==
  ASSUME IInv, NEW s \in Ssrcs, NEW n \in 0 .. MaxIndex, OpusReceived(s, n)
  PROVE  IInv'
<1> DEFINE u == ssrcMap[s]
<1>1. TypeOK /\ ParentInformed /\ DecoderOfOneUser /\ NumbersAgree
  BY DEF IInv
<1>2. /\ newest' = [newest EXCEPT ![s] = IF n > @ THEN n ELSE @]
      /\ newest' \in [Ssrcs -> {None} \cup 0 .. MaxIndex]
      /\ \A q \in Ssrcs : newest[q] <= newest'[q]
      /\ n >= newest[s] - Window
  BY <1>1, Sizes DEF OpusReceived, TypeOK, None
<1>3. subscribed' = subscribed /\ remaps' = remaps
  BY DEF OpusReceived
<1>4. ASSUME UNCHANGED <<lastSeq, fed, timeline>> PROVE NumbersAgree'
  <2> SUFFICES ASSUME NEW q \in Ssrcs PROVE NumbersOK(q)'
    BY DEF NumbersAgree
  <2>1. /\ NumbersOK(q) /\ newest[q] <= newest'[q]
        /\ newest[q] \in Int /\ newest'[q] \in Int /\ fed[q] \in Int
    BY <1>1, <1>2, Sizes DEF NumbersAgree, TypeOK, None
  <2> QED
    BY <1>4, <2>1 DEF NumbersOK
<1>5. CASE DropOpus(s, n)
  <2>1. UNCHANGED <<ssrcMap, lastSeq, decoder, fed, timeline, speakingAge, audioAge, heard, open>>
    BY <1>5 DEF DropOpus, transport, parent
  <2>2. NumbersAgree'
    BY <1>4, <2>1
  <2>3. TypeOK' /\ ParentInformed' /\ DecoderOfOneUser'
    BY <1>1, <1>2, <1>3, <2>1 DEF TypeOK, ParentInformed, DecoderOfOneUser
  <2> QED
    BY <2>2, <2>3 DEF IInv
<1>6. CASE AcceptOpus(s, n)
  <2>1. /\ ssrcMap' = ssrcMap /\ Accepted(s, n)
        /\ u # NoUser /\ u \in Users
        /\ TouchSpeaking(u)
    BY <1>1, <1>6 DEF AcceptOpus, Accepted, TypeOK
  <2>2. /\ speakingAge' \in [Users -> {Off} \cup 0 .. SpeakTicks - 1]
        /\ heard' \subseteq Users
        /\ {v \in Users : speakingAge'[v] # Off} \subseteq heard'
    BY <1>1, <2>1, TimerAssumption DEF TouchSpeaking, TypeOK, ParentInformed
  <2>3. CASE UNCHANGED <<lastSeq, decoder, fed, timeline, audioAge, open>>
    BY <1>1, <1>2, <1>3, <1>4, <2>1, <2>2, <2>3
    DEF IInv, TypeOK, ParentInformed, DecoderOfOneUser
  <2>4. CASE u \in subscribed /\ decoder' = [decoder EXCEPT ![s] = IF @ = NoUser THEN u ELSE @]
    <3>1. /\ decoder' \in [Ssrcs -> Users \cup {NoUser}]
          /\ decoder'[s] = u
          /\ \A q \in Ssrcs \ {s} : decoder'[q] = decoder[q]
      BY <1>1, <2>1, <2>4 DEF TypeOK, DecoderOfOneUser
    <3>2. CASE UNCHANGED <<lastSeq, fed, timeline, audioAge, open>>
      <4>1. TypeOK' /\ ParentInformed'
        BY <1>1, <1>2, <1>3, <2>1, <2>2, <3>1, <3>2 DEF TypeOK, ParentInformed
      <4>2. DecoderOfOneUser'
        BY <1>1, <2>1, <3>1, <3>2 DEF DecoderOfOneUser
      <4> QED
        BY <1>4, <3>2, <4>1, <4>2 DEF IInv
    <3>3. CASE \E r \in Concealed(s, n) : Decoded(s, u, n, r)
      <4>1. PICK r \in Concealed(s, n) : Decoded(s, u, n, r)
        BY <3>3
      <4>2. /\ lastSeq' \in [Ssrcs -> {None} \cup 0 .. SeqMod - 1]
            /\ fed' \in [Ssrcs -> {None} \cup 0 .. MaxIndex]
            /\ timeline' \in [Ssrcs -> {None} \cup 0 .. MaxIndex]
            /\ NumbersAgree'
        BY <1>2, <2>1, <4>1, DecodedKeeps
      <4>3. /\ audioAge' = [audioAge EXCEPT ![u] = 0] /\ open' = open \cup {u}
            /\ \A q \in Ssrcs \ {s} : lastSeq'[q] = lastSeq[q]
        BY <1>1, <4>1 DEF Decoded, TypeOK
      <4>4. TypeOK'
        <5>1. audioAge' \in [Users -> {Off} \cup 0 .. SilenceTicks - 1]
          <6>1. audioAge \in [Users -> {Off} \cup 0 .. SilenceTicks - 1] /\ 0 \in 0 .. SilenceTicks - 1
            BY <1>1, TimerAssumption DEF TypeOK
          <6> QED
            BY <4>3, <6>1
        <5>2. open' \subseteq Users
          BY <1>1, <2>1, <4>3 DEF TypeOK
        <5> QED
          BY <1>1, <1>2, <1>3, <2>1, <2>2, <3>1, <4>2, <5>1, <5>2 DEF TypeOK
      <4>5. ParentInformed'
        BY <1>1, <2>1, <2>2, <4>3 DEF TypeOK, ParentInformed, Off
      <4>6. DecoderOfOneUser'
        BY <1>1, <2>1, <3>1, <4>3 DEF DecoderOfOneUser
      <4> QED
        BY <4>2, <4>4, <4>5, <4>6 DEF IInv
    <3> QED
      BY <1>6, <2>3, <2>4, <3>2, <3>3 DEF AcceptOpus
  <2> QED
    BY <1>6, <2>3, <2>4 DEF AcceptOpus
<1> QED
  BY <1>5, <1>6 DEF OpusReceived

LEMMA SubscriptionKeeps ==
  ASSUME IInv, NEW u \in Users, SubscribeUser(u) \/ UnsubscribeUser(u)
  PROVE  IInv'
<1>1. UNCHANGED <<transport, speakingAge, heard, newest, remaps>>
  BY DEF SubscribeUser, UnsubscribeUser, parent
<1>2. TypeOK' /\ ParentInformed'
  BY <1>1 DEF SubscribeUser, UnsubscribeUser, transport, parent, IInv, TypeOK, ParentInformed
<1>3. DecoderOfOneUser' /\ NumbersAgree'
  BY <1>1 DEF transport, IInv, DecoderOfOneUser, NumbersAgree, NumbersOK
<1> QED
  BY <1>2, <1>3 DEF IInv

LEMMA AgedTyped ==
  ASSUME NEW limit \in Nat \ {0}, NEW age \in [Users -> {Off} \cup 0 .. limit - 1]
  PROVE  /\ Aged(age, limit) \in [Users -> {Off} \cup 0 .. limit - 1]
         /\ \A u \in Users : age[u] = Off => Aged(age, limit)[u] = Off
BY DEF Aged, Off

LEMMA CaptureTickKeeps ==
  ASSUME IInv, CaptureTick
  PROVE  IInv'
<1>1. TypeOK /\ ParentInformed
  BY DEF IInv
<1>2. /\ speakingAge' \in [Users -> {Off} \cup 0 .. SpeakTicks - 1]
      /\ audioAge' \in [Users -> {Off} \cup 0 .. SilenceTicks - 1]
      /\ \A u \in Users : speakingAge[u] = Off => speakingAge'[u] = Off
      /\ \A u \in Users : audioAge[u] = Off => audioAge'[u] = Off
  BY <1>1, AgedTyped, TimerAssumption DEF CaptureTick, TypeOK
<1>3. TypeOK' /\ ParentInformed'
  BY <1>1, <1>2 DEF CaptureTick, transport, TypeOK, ParentInformed
<1>4. DecoderOfOneUser' /\ NumbersAgree'
  BY DEF CaptureTick, transport, IInv, DecoderOfOneUser, NumbersAgree, NumbersOK
<1> QED
  BY <1>3, <1>4 DEF IInv

LEMMA ClearTransportKeeps ==
  ASSUME IInv, ClearTransport
  PROVE  IInv'
<1>1. TypeOK /\ ParentInformed /\ DecoderOfOneUser
  BY DEF IInv
<1>2. /\ decoder' \in [Ssrcs -> Users \cup {NoUser}]
      /\ lastSeq' \in [Ssrcs -> {None} \cup 0 .. SeqMod - 1]
      /\ fed' \in [Ssrcs -> {None} \cup 0 .. MaxIndex]
      /\ timeline' \in [Ssrcs -> {None} \cup 0 .. MaxIndex]
      /\ NumbersAgree'
  BY ForgetKeeps DEF ClearTransport
<1>3. TypeOK' /\ ParentInformed'
  BY <1>1, <1>2 DEF ClearTransport, parent, TypeOK, ParentInformed
<1>4. DecoderOfOneUser'
  BY DEF ClearTransport, ForgetDecoders, DecoderOfOneUser
<1> QED
  BY <1>2, <1>3, <1>4 DEF IInv

LEMMA StepIInv == IInv /\ [Next]_vars => IInv'
<1> SUFFICES ASSUME IInv, [Next]_vars PROVE IInv'
  OBVIOUS
<1>1. CASE Next
  BY <1>1, SsrcUpdateKeeps, OpusReceivedKeeps, ClientDisconnectKeeps, SubscriptionKeeps,
     CaptureTickKeeps, ClearTransportKeeps DEF Next
<1>2. CASE UNCHANGED vars
  BY <1>2 DEF vars, transport, parent, IInv, TypeOK, ParentInformed, DecoderOfOneUser,
     NumbersAgree, NumbersOK
<1> QED
  BY <1>1, <1>2

LEMMA AlwaysIInv == Spec => []IInv
BY InitIInv, StepIInv, PTL DEF Spec

\* The maps, numbers and timers keep their types, for every number of users and
\* SSRCs and every width of the sequence number.
THEOREM TypeCorrect == Spec => []TypeOK
<1>1. IInv => TypeOK
  BY DEF IInv
<1> QED
  BY <1>1, AlwaysIInv, PTL

\* The parent's view of streams and speakers is what the code will take back.
THEOREM ReportsSound == Spec => []ParentInformed
<1>1. IInv => ParentInformed
  BY DEF IInv
<1> QED
  BY <1>1, AlwaysIInv, PTL

\* No Opus decoder outlives the mapping of its SSRC.
THEOREM DecoderSound == Spec => []DecoderOfOneUser
<1>1. IInv => DecoderOfOneUser
  BY DEF IInv
<1> QED
  BY <1>1, AlwaysIInv, PTL

\* The parent never has more audio of a stream than time has passed in it,
\* however the sequence number wraps.
THEOREM TimelineSound == Spec => []TimelineNotAhead
<1>1. IInv => TimelineNotAhead
  BY DEF IInv, NumbersAgree, NumbersOK, TimelineNotAhead
<1> QED
  BY <1>1, AlwaysIInv, PTL

-----------------------------------------------------------------------------
(* What a step may do.                                                       *)

\* The packets of one mapping are fed to Opus in the order of the stream.
LEMMA StepFeedsInOrder ==
  ASSUME IInv, [Next]_vars, NEW s \in Ssrcs, fed'[s] # None,
         <<fed'[s], timeline'[s]>> # <<fed[s], timeline[s]>>
  PROVE  fed[s] < fed'[s]
<1>1. TypeOK
  BY DEF IInv
<1>3. fed'[s] # fed[s] \/ timeline'[s] # timeline[s]
  OBVIOUS
<1>4. ASSUME NEW S, ForgetDecoders(S) PROVE FALSE
  BY <1>1, <1>3, <1>4 DEF ForgetDecoders, TypeOK
<1>5. PICK q \in Ssrcs, n \in 0 .. MaxIndex : OpusReceived(q, n)
  BY <1>3, <1>4 DEF Next, vars, transport, SsrcUpdate, ClientDisconnect, SubscribeUser,
     UnsubscribeUser, CaptureTick, ClearTransport
<1>6. PICK r \in Concealed(q, n) : Accepted(q, n) /\ Decoded(q, ssrcMap[q], n, r)
  BY <1>3, <1>5 DEF OpusReceived, DropOpus, AcceptOpus, transport
<1>7. fed[q] < n
  <2>1. /\ n >= newest[q] - Window
        /\ newest' = [newest EXCEPT ![q] = IF n > @ THEN n ELSE @]
    BY <1>1, <1>5, Sizes DEF OpusReceived, TypeOK, None
  <2> QED
    BY <1>6, <2>1, DecodedKeeps
<1>8. q = s /\ fed'[s] = n
  BY <1>1, <1>3, <1>6 DEF Decoded, TypeOK
<1> QED
  BY <1>7, <1>8

\* No packet is decoded twice and none after a later one, however sequence numbers
\* wrap: classify_rtp_sequence rejects every packet that is repeated, or late by
\* less than half of the number space.
THEOREM OrderSound == Spec => FedInOrder
<1>1. IInv /\ [Next]_vars
      => [\A s \in Ssrcs :
            fed'[s] # None /\ <<fed'[s], timeline'[s]>> # <<fed[s], timeline[s]>>
              => fed[s] < fed'[s]]_vars
  BY StepFeedsInOrder
<1> QED
  BY <1>1, AlwaysIInv, PTL DEF Spec, FedInOrder

\* A packet that is newer than all before it and within half of the number space
\* of the packet last decoded is accepted.
LEMMA FreshIsAccepted ==
  ASSUME IInv, NEW s \in Ssrcs, NEW n \in 0 .. MaxIndex, n > newest[s], ssrcMap[s] # NoUser,
         fed[s] = None \/ n - fed[s] <= SeqMod \div 2
  PROVE  Accepted(s, n)
<1>1. /\ fed[s] \in {None} \cup 0 .. MaxIndex /\ newest[s] \in {None} \cup 0 .. MaxIndex
      /\ fed[s] <= newest[s]
      /\ lastSeq[s] = IF fed[s] = None THEN None ELSE SeqOf(fed[s])
  BY DEF IInv, TypeOK, NumbersAgree, NumbersOK
<1>2. CASE fed[s] = None
  BY <1>1, <1>2 DEF Accepted, IsStale
<1>3. CASE fed[s] # None
  <2>1. n - fed[s] - 1 \in 0 .. (SeqMod \div 2) - 1
    BY <1>1, <1>3, Sizes DEF None
  <2>2. Distance(SeqOf(fed[s]), SeqOf(n)) = n - fed[s] - 1
    BY <1>1, <1>3, <2>1, DistanceIsExact, Sizes
  <2> QED
    BY <1>1, <1>3, <2>1, <2>2, Sizes DEF Accepted, IsStale
<1> QED
  BY <1>2, <1>3

\* Such a packet makes its user a speaker, subscribed or not.
THEOREM FreshSound == Spec => FreshSpeaks
<1>1. ASSUME IInv, NEW s \in Ssrcs, NEW n \in 0 .. MaxIndex, OpusReceived(s, n),
             n > newest[s], ssrcMap[s] # NoUser,
             ~(fed[s] # None /\ n - fed[s] > SeqMod \div 2)
      PROVE  speakingAge'[ssrcMap[s]] = 0
  <2>1. fed[s] = None \/ n - fed[s] <= SeqMod \div 2
    BY <1>1, Sizes DEF IInv, TypeOK
  <2>2. Accepted(s, n)
    BY <1>1, <2>1, FreshIsAccepted
  <2>3. TouchSpeaking(ssrcMap[s])
    BY <1>1, <2>2 DEF OpusReceived, DropOpus, AcceptOpus
  <2> QED
    BY <1>1, <2>3 DEF TouchSpeaking, IInv, TypeOK
<1>2. IInv /\ [Next]_vars
      => [\A s \in Ssrcs, n \in 0 .. MaxIndex :
            OpusReceived(s, n) /\ n > newest[s] /\ ssrcMap[s] # NoUser
              => \/ speakingAge'[ssrcMap[s]] = 0
                 \/ fed[s] # None /\ n - fed[s] > SeqMod \div 2]_vars
  BY <1>1
<1> QED
  BY <1>2, AlwaysIInv, PTL DEF Spec, FreshSpeaks

-----------------------------------------------------------------------------
(* The two tasks and the main loop together.                                 *)

\* What the tasks announce and what waits in the event queue.
Owners == Users \cup {NoUser}
Announcements ==
  [kind : {"ssrc"}, ssrc : Ssrcs, user : Users] \cup [kind : {"gone"}, user : Users]
OpusEvents ==
  [kind : {"opus"}, ssrc : Ssrcs, index : 0 .. MaxIndex, voice : Owners,
   clean : BOOLEAN, old : BOOLEAN]
QueuedEvents == Announcements \cup OpusEvents

\* What an aborted task may still send: its packet was never clean.
LateOpus == {e \in OpusEvents : ~e.clean}
LateTasks == {<<e>> : e \in Announcements \cup LateOpus}
               \cup {<<m, e>> : m \in Announcements, e \in LateOpus}

\* The UDP task reports a mapping only to a user.
UdpStates ==
  {NoPacket}
    \cup [pc : {"decrypt", "opus"}, ssrc : Ssrcs, index : 0 .. MaxIndex, from : Users,
          user : Owners, sealed : BOOLEAN, clean : BOOLEAN]
    \cup [pc : {"update"}, ssrc : Ssrcs, index : 0 .. MaxIndex, from : Users,
          user : Users, sealed : BOOLEAN, clean : BOOLEAN]

TasksTyped ==
  /\ ssrcMap \in [Ssrcs -> Owners]
  /\ tmap \in [Ssrcs -> Owners] /\ senders \in [Ssrcs -> SUBSET Users]
  /\ gateway \in Seq(Announcements) /\ reader \in Announcements \cup {Idle}
  /\ udp \in UdpStates
  /\ udp.pc # "idle" /\ udp.sealed => udp.pc # "decrypt" /\ udp.user = udp.from
  /\ late \subseteq LateTasks
  /\ events \in Seq(QueuedEvents)
  /\ astray \subseteq Ssrcs

\* An owner to whom audio may go.
Right(owner, e) == owner = e.voice \/ (e.old /\ owner = NoUser)

\* The owners the main loop will see as it handles the queue, and at every clean
\* packet the user it is of.
Paths == [0 .. Len(events) -> Owners]
Path(s, g) ==
  /\ g[0] = ssrcMap[s]
  /\ \A i \in 1 .. Len(events) : g[i] = After(s, g[i - 1], events[i])
  /\ \A i \in 1 .. Len(events) :
       events[i].kind = "opus" => (events[i].ssrc = s /\ events[i].clean => Right(g[i], events[i]))

\* From the owner w that the main loop comes to, some change of `own` leads to the
\* owner t that the transport has, and no change of `all` leads away from it.
LeadsTo(s, t, w, own, all) ==
  /\ \A m \in all : After(s, t, m) = t
  /\ t = w \/ \E m \in own : After(s, w, m) = t
Leads(s, w) == LeadsTo(s, tmap[s], w, Own, Unreported)

\* What is unreported beside the UDP task's own change.
Others == (IF reader = Idle THEN {} ELSE {reader})
            \cup {msg \in {Head(q) : q \in late} : msg.kind # "opus"}

\* While a clean packet is at work nobody else changes its SSRC.
UdpKnows ==
  udp.pc # "idle" /\ udp.clean =>
    /\ udp.ssrc \notin astray
    /\ udp.user = tmap[udp.ssrc]
    /\ \A msg \in Others : udp.ssrc \notin Concerns(msg)

Follows(s) ==
  \E g \in Paths : Path(s, g) /\ (s \notin astray => Leads(s, g[Len(events)]))

TasksInv == TasksTyped /\ UdpKnows /\ \A s \in Ssrcs : Follows(s)

-----------------------------------------------------------------------------
(* Changes of the owner of an SSRC.                                          *)

LEMMA AnnouncementKinds ==
  ASSUME NEW m \in Announcements
  PROVE  /\ \/ m.kind = "ssrc" /\ m.ssrc \in Ssrcs /\ m.user \in Users
            \/ m.kind = "gone" /\ m.user \in Users
         /\ m.user # NoUser /\ m.kind # "opus" /\ m # Idle
         /\ m \in QueuedEvents /\ Concerns(m) \subseteq Ssrcs
BY UserAssumption DEF Announcements, QueuedEvents, Concerns, Idle

LEMMA AfterTyped ==
  ASSUME NEW s \in Ssrcs, NEW owner \in Owners, NEW e \in QueuedEvents
  PROVE  After(s, owner, e) \in Owners
BY DEF After, Owners, QueuedEvents, Announcements, OpusEvents

\* A change that is not about the SSRC leaves its owner, and conflicts with none.
LEMMA Unconcerned ==
  ASSUME NEW s \in Ssrcs, NEW m \in Announcements, s \notin Concerns(m)
  PROVE  /\ \A owner : After(s, owner, m) = owner
         /\ \A n : ~Conflict(s, m, n) /\ ~Conflict(s, n, m)
<1>1. m.kind = "ssrc" /\ m.ssrc # s
  BY AnnouncementKinds DEF Concerns
<1>2. \A owner : After(s, owner, m) = owner
  BY <1>1 DEF After
<1> QED
  BY <1>2 DEF Conflict

\* An owed change may be owed to more, and the others may be fewer.
LEMMA LeadsMore ==
  ASSUME NEW s, NEW t, NEW w, NEW own, NEW all, NEW own2, NEW all2,
         LeadsTo(s, t, w, own, all), own \subseteq own2, all2 \subseteq all
  PROVE  LeadsTo(s, t, w, own2, all2)
BY DEF LeadsTo

\* A new change conflicts with no unreported one: it leads on from where the others
\* lead to, or sets the owner whatever they do.
LEMMA ChangeLeads ==
  ASSUME NEW s \in Ssrcs, NEW t \in Owners, NEW w \in Owners, NEW msg \in Announcements,
         NEW all \in SUBSET Announcements, NEW own \in SUBSET all,
         \A m \in all : ~Conflict(s, msg, m),
         LeadsTo(s, t, w, own, all) \/ (msg.kind = "ssrc" /\ msg.ssrc = s),
         NEW t2, t2 = After(s, t, msg)
  PROVE  LeadsTo(s, t2, w, own \cup {msg}, all \cup {msg})
<1>1. \A m \in all : \A owner \in Owners :
        After(s, After(s, owner, msg), m) = After(s, After(s, owner, m), msg)
  BY DEF Conflict, Owners
<1>2. After(s, t2, msg) = t2
  BY AnnouncementKinds DEF After
<1>3. CASE msg.kind = "ssrc" /\ msg.ssrc = s
  <2>1. t2 = msg.user /\ \A owner : After(s, owner, msg) = msg.user
    BY <1>3 DEF After
  <2>2. \A m \in all : After(s, t2, m) = t2
    BY <1>1, <2>1
  <2> QED
    BY <1>2, <2>1, <2>2 DEF LeadsTo
<1>4. CASE ~(msg.kind = "ssrc" /\ msg.ssrc = s)
  <2>1. LeadsTo(s, t, w, own, all)
    BY <1>4
  <2>2. \A m \in all : After(s, t2, m) = t2
    BY <1>1, <2>1 DEF LeadsTo
  <2>3. t2 = w \/ \E m \in own \cup {msg} : After(s, w, m) = t2
    <3>1. CASE t = w
      BY <3>1
    <3>2. CASE t2 = t
      BY <2>1, <3>2 DEF LeadsTo
    <3>3. CASE t # w /\ t2 # t
      <4>1. PICK m \in own : After(s, w, m) = t
        BY <2>1, <3>3 DEF LeadsTo
      <4>2. msg.kind = "gone" /\ msg.user = t /\ t2 = NoUser /\ t # NoUser
        BY <1>4, <3>3, AnnouncementKinds DEF After
      <4>3. m \in Announcements /\ m \in all
        OBVIOUS
      <4>4. m.kind = "ssrc" /\ m.ssrc = s /\ m.user = t
        BY <3>3, <4>1, <4>2, <4>3, AnnouncementKinds DEF After
      <4>5. After(s, After(s, t, msg), m) = t /\ After(s, After(s, t, m), msg) = NoUser
        BY <4>2, <4>4 DEF After
      <4> QED
        BY <1>1, <4>2, <4>3, <4>5
    <3> QED
      BY <3>1, <3>2, <3>3
  <2> QED
    BY <1>2, <2>2, <2>3 DEF LeadsTo
<1> QED
  BY <1>3, <1>4

\* Once a change is reported the main loop comes to the owner after it.
LEMMA ReportLeads ==
  ASSUME NEW s \in Ssrcs, NEW t \in Owners, NEW w \in Owners,
         NEW all \in SUBSET Announcements, NEW own \in SUBSET all, NEW m \in all,
         LeadsTo(s, t, w, own, all),
         NEW w2, w2 = After(s, w, m)
  PROVE  LeadsTo(s, t, w2, own \ {m}, all)
<1>1. \A n \in all : After(s, t, n) = t
  BY DEF LeadsTo
<1>2. CASE t = w
  BY <1>1, <1>2 DEF LeadsTo
<1>3. CASE t # w
  <2>1. PICK n \in own : After(s, w, n) = t
    BY <1>3 DEF LeadsTo
  <2>2. CASE n = m
    BY <1>1, <2>1, <2>2 DEF LeadsTo
  <2>3. CASE n # m
    <3>1. n \in Announcements /\ m \in Announcements /\ After(s, t, m) = t /\ After(s, t, n) = t
      BY <1>1
    <3>2. n.user # NoUser /\ m.user # NoUser
      BY <3>1, AnnouncementKinds
    <3>3. After(s, w2, n) = t
      <4>1. CASE n.kind = "ssrc" /\ n.ssrc = s
        BY <2>1, <4>1 DEF After
      <4>2. CASE ~(n.kind = "ssrc" /\ n.ssrc = s)
        <5>1. n.kind = "gone" /\ n.user = w /\ t = NoUser
          BY <1>3, <2>1, <4>2 DEF After
        <5>2. ~(m.kind = "ssrc" /\ m.ssrc = s)
          BY <3>1, <3>2, <5>1 DEF After
        <5>3. w2 = w \/ w2 = NoUser
          BY <5>2 DEF After
        <5> QED
          BY <2>1, <3>2, <5>1, <5>3 DEF After
      <4> QED
        BY <4>1, <4>2
    <3>4. n \in own \ {m}
      BY <2>3
    <3> QED
      BY <1>1, <3>3, <3>4 DEF LeadsTo
  <2> QED
    BY <2>2, <2>3
<1> QED
  BY <1>2, <1>3

-----------------------------------------------------------------------------
(* Types of what is under way.                                               *)

\* What the UDP task is at work on, while it is.
LEMMA AtWork ==
  ASSUME TasksTyped, udp.pc # "idle"
  PROVE  /\ udp.ssrc \in Ssrcs /\ udp.index \in 0 .. MaxIndex /\ udp.from \in Users
         /\ udp.user \in Owners /\ udp.sealed \in BOOLEAN /\ udp.clean \in BOOLEAN
         /\ udp.pc \in {"decrypt", "opus", "update"}
         /\ udp.pc = "update" => udp.user \in Users
         /\ udp = [pc |-> udp.pc, ssrc |-> udp.ssrc, index |-> udp.index, from |-> udp.from,
                   user |-> udp.user, sealed |-> udp.sealed, clean |-> udp.clean]
BY DEF TasksTyped, UdpStates, NoPacket, Owners

\* The packet as the event it is sent as.
LEMMA OpusTyped ==
  ASSUME TasksTyped, udp.pc # "idle", NEW e, e = Opus(udp)
  PROVE  /\ e \in OpusEvents /\ e \in QueuedEvents /\ e.kind = "opus"
         /\ e.ssrc = udp.ssrc /\ e.clean = udp.clean
         /\ udp.pc # "decrypt" => e.voice = udp.user
BY AtWork DEF Opus, OpusEvents, QueuedEvents, TasksTyped, Owners

LEMMA UpdateTyped ==
  ASSUME TasksTyped, udp.pc = "update", NEW e, e = Speaking(udp.ssrc, udp.user)
  PROVE  /\ e \in Announcements /\ e.kind = "ssrc" /\ e.ssrc = udp.ssrc /\ e.user = udp.user
BY AtWork DEF Speaking, Announcements

\* What an aborted task still sends, and what it has left then.
LEMMA LateTyped ==
  ASSUME NEW q \in LateTasks
  PROVE  /\ Head(q) \in Announcements \cup LateOpus
         /\ Tail(q) = <<>> \/ (Tail(q) \in LateTasks /\ Head(Tail(q)) \in LateOpus)
<1>1. CASE \E e \in Announcements \cup LateOpus : q = <<e>>
  BY <1>1
<1>2. CASE \E m \in Announcements, e \in LateOpus : q = <<m, e>>
  <2>1. PICK m \in Announcements, e \in LateOpus : q = <<m, e>>
    BY <1>2
  <2>2. Head(q) = m /\ Tail(q) = <<e>> /\ Head(<<e>>) = e
    BY <2>1
  <2>3. <<e>> \in LateTasks
    BY DEF LateTasks
  <2> QED
    BY <2>2, <2>3
<1> QED
  BY <1>1, <1>2 DEF LateTasks

LEMMA LateOpusTyped ==
  ASSUME NEW e \in LateOpus
  PROVE  e \in QueuedEvents /\ e.kind = "opus" /\ ~e.clean
BY DEF LateOpus, OpusEvents, QueuedEvents

LEMMA PendingTyped ==
  ASSUME TasksTyped
  PROVE  /\ Own \subseteq Unreported /\ Unreported \subseteq Announcements
         /\ Others \subseteq Unreported
         /\ udp.pc # "update" => Unreported = Others /\ Own \subseteq Others
<1>1. reader # Idle => reader \in Announcements
  BY DEF TasksTyped
<1>2. udp.pc = "update" => Speaking(udp.ssrc, udp.user) \in Announcements
  BY UpdateTyped
<1>3. \A q \in late : Head(q).kind # "opus" => Head(q) \in Announcements
  BY LateTyped, LateOpusTyped DEF TasksTyped
<1> QED
  BY <1>1, <1>2, <1>3 DEF Own, Unreported, Others

-----------------------------------------------------------------------------
(* The path of the main loop as the queue changes.                           *)

\* A queued event sends the path on by one step.
LEMMA PathGrows ==
  ASSUME TasksTyped, NEW s \in Ssrcs, NEW e \in QueuedEvents,
         events' = Append(events, e), ssrcMap' = ssrcMap,
         NEW g \in Paths, Path(s, g),
         e.kind = "opus" => (e.ssrc = s /\ e.clean => Right(g[Len(events)], e))
  PROVE  \E h \in Paths' : Path(s, h)' /\ h[Len(events')] = After(s, g[Len(events)], e)
<1> DEFINE k == Len(events)
           last == After(s, g[k], e)
           h == [i \in 0 .. k + 1 |-> IF i <= k THEN g[i] ELSE last]
<1>1. /\ k \in Nat /\ Len(events') = k + 1
      /\ \A i \in 1 .. k : events'[i] = events[i]
      /\ events'[k + 1] = e
  BY DEF TasksTyped
<1>2. g \in [0 .. k -> Owners] /\ g[k] \in Owners
  BY <1>1 DEF Paths
<1>3. last \in Owners
  BY <1>2, AfterTyped
<1>4. e.kind = "opus" => After(s, g[k], e) = g[k]
  BY DEF After
<1>5. PICK f : f = h
  OBVIOUS
<1> HIDE DEF last
<1>6. /\ f \in [0 .. k + 1 -> Owners]
      /\ \A i \in 0 .. k : f[i] = g[i]
      /\ f[k + 1] = last
  BY <1>1, <1>2, <1>3, <1>5
<1>7. f \in Paths'
  BY <1>1, <1>6 DEF Paths
<1>8. f[0] = ssrcMap'[s]
  BY <1>1, <1>6 DEF Path
<1>9. ASSUME NEW i \in 1 .. k + 1
      PROVE  /\ f[i] = After(s, f[i - 1], events'[i])
             /\ events'[i].kind = "opus" =>
                  (events'[i].ssrc = s /\ events'[i].clean => Right(f[i], events'[i]))
  <2>1. CASE i \in 1 .. k
    <3>1. /\ events'[i] = events[i] /\ f[i] = g[i] /\ f[i - 1] = g[i - 1]
      BY <1>1, <1>6, <2>1
    <3> QED
      BY <2>1, <3>1 DEF Path
  <2>2. CASE i = k + 1
    <3>1. events'[i] = e /\ f[i] = last /\ f[i - 1] = g[k]
      BY <1>1, <1>6, <2>2
    <3> QED
      BY <1>4, <3>1 DEF last
  <2> QED
    BY <1>1, <2>1, <2>2
<1>10. Path(s, f)'
  BY <1>1, <1>8, <1>9 DEF Path
<1>11. f[Len(events')] = After(s, g[Len(events)], e)
  BY <1>1, <1>6 DEF last
<1> QED
  BY <1>7, <1>10, <1>11

\* A handled event takes the first step of it.
LEMMA PathShrinks ==
  ASSUME TasksTyped, NEW s \in Ssrcs, events # <<>>, events' = Tail(events),
         ssrcMap'[s] = After(s, ssrcMap[s], Head(events)),
         NEW g \in Paths, Path(s, g)
  PROVE  \E h \in Paths' : Path(s, h)' /\ h[Len(events')] = g[Len(events)]
<1> DEFINE k == Len(events)
           h == [i \in 0 .. k - 1 |-> g[i + 1]]
<1>1. /\ k \in Nat \ {0} /\ Len(events') = k - 1
      /\ \A i \in 1 .. k - 1 : events'[i] = events[i + 1]
      /\ Head(events) = events[1]
  BY DEF TasksTyped
<1>2. g \in [0 .. k -> Owners]
  BY DEF Paths
<1>3. PICK f : f = h
  OBVIOUS
<1>4. /\ f \in [0 .. k - 1 -> Owners]
      /\ \A i \in 0 .. k - 1 : f[i] = g[i + 1]
  BY <1>1, <1>2, <1>3
<1>5. f \in Paths'
  BY <1>1, <1>4 DEF Paths
<1>6. f[0] = ssrcMap'[s]
  BY <1>1, <1>4 DEF Path
<1>7. ASSUME NEW i \in 1 .. k - 1
      PROVE  /\ f[i] = After(s, f[i - 1], events'[i])
             /\ events'[i].kind = "opus" =>
                  (events'[i].ssrc = s /\ events'[i].clean => Right(f[i], events'[i]))
  <2>1. /\ events'[i] = events[i + 1] /\ f[i] = g[i + 1] /\ f[i - 1] = g[i]
        /\ i + 1 \in 1 .. k /\ (i + 1) - 1 = i
    BY <1>1, <1>4
  <2> QED
    BY <2>1 DEF Path
<1>8. Path(s, f)'
  BY <1>1, <1>6, <1>7 DEF Path
<1>9. f[Len(events')] = g[Len(events)]
  BY <1>1, <1>4
<1> QED
  BY <1>5, <1>8, <1>9

\* A step that leaves the queue leaves the path.
LEMMA QueueKept ==
  ASSUME TasksTyped, NEW s \in Ssrcs, Follows(s), UNCHANGED <<events, ssrcMap>>,
         s \notin astray' => \A w \in Owners : (s \notin astray => Leads(s, w)) => Leads(s, w)'
  PROVE  Follows(s)'
<1>1. PICK g \in Paths : Path(s, g) /\ (s \notin astray => Leads(s, g[Len(events)]))
  BY DEF Follows
<1>2. g \in Paths' /\ Path(s, g)'
  BY <1>1 DEF Paths, Path
<1>3. PICK w : w = g[Len(events)]
  OBVIOUS
<1>4. w \in Owners
  BY <1>3 DEF Paths, TasksTyped
<1>5. s \notin astray' => Leads(s, w)'
  BY <1>1, <1>3, <1>4
<1>6. w = g[Len(events')]
  BY <1>3
<1> QED
  BY <1>2, <1>5, <1>6 DEF Follows

\* A step that queues an event sends the path on.
LEMMA QueueGrown ==
  ASSUME TasksTyped, NEW s \in Ssrcs, Follows(s), NEW e \in QueuedEvents,
         events' = Append(events, e), ssrcMap' = ssrcMap, astray' = astray,
         s \notin astray => \A w \in Owners : Leads(s, w) =>
                              \A next \in Owners : next = After(s, w, e) => Leads(s, next)',
         e.kind = "opus" => (e.ssrc = s /\ e.clean =>
           s \notin astray /\ \A w \in Owners : Leads(s, w) => Right(w, e))
  PROVE  Follows(s)'
<1>1. PICK g \in Paths : Path(s, g) /\ (s \notin astray => Leads(s, g[Len(events)]))
  BY DEF Follows
<1>2. PICK w : w = g[Len(events)]
  OBVIOUS
<1>3. w \in Owners
  BY <1>2 DEF Paths, TasksTyped
<1>4. e.kind = "opus" => (e.ssrc = s /\ e.clean => Right(g[Len(events)], e))
  BY <1>1, <1>2, <1>3
<1>5. PICK h \in Paths' : Path(s, h)' /\ h[Len(events')] = After(s, g[Len(events)], e)
  BY <1>1, <1>4, PathGrows
<1>6. PICK next : next = h[Len(events')]
  OBVIOUS
<1>7. next = After(s, w, e) /\ next \in Owners
  BY <1>2, <1>3, <1>5, <1>6, AfterTyped
<1>8. s \notin astray' => Leads(s, next)'
  BY <1>1, <1>2, <1>3, <1>7
<1> QED
  BY <1>5, <1>6, <1>8 DEF Follows

-----------------------------------------------------------------------------
(* The transport's map as it changes.                                        *)

\* A change that conflicts with nothing unreported leaves the main loop on its way.
LEMMA MapChanged ==
  ASSUME TasksTyped, NEW s \in Ssrcs, NEW msg \in Announcements,
         astray' = AstrayAfter(msg), tmap'[s] = After(s, tmap[s], msg),
         Own' = Own \cup {msg}, Unreported' \subseteq Unreported \cup {msg},
         s \notin astray', NEW w \in Owners, s \notin astray => Leads(s, w)
  PROVE  Leads(s, w)'
<1>1. \A m \in Unreported : ~Conflict(s, msg, m)
  BY DEF AstrayAfter
<1>2. s \notin astray \/ (msg.kind = "ssrc" /\ msg.ssrc = s)
  BY AnnouncementKinds DEF AstrayAfter
<1>3. PICK t : t = tmap[s]
  OBVIOUS
<1>4. t \in Owners
  BY <1>3 DEF TasksTyped
<1>5. LeadsTo(s, t, w, Own, Unreported) \/ (msg.kind = "ssrc" /\ msg.ssrc = s)
  BY <1>2, <1>3 DEF Leads
<1>6. PICK t2 : t2 = After(s, t, msg)
  OBVIOUS
<1>7. Own \in SUBSET Unreported /\ Unreported \in SUBSET Announcements
  BY PendingTyped
<1>8. LeadsTo(s, t2, w, Own \cup {msg}, Unreported \cup {msg})
  BY <1>1, <1>4, <1>5, <1>6, <1>7, ChangeLeads
<1>9. LeadsTo(s, t2, w, Own', Unreported')
  BY <1>8, LeadsMore
<1>10. t2 = tmap'[s]
  BY <1>3, <1>6
<1> QED
  BY <1>9, <1>10 DEF Leads

\* A report takes the main loop a step on its way.
LEMMA Reported ==
  ASSUME TasksTyped, NEW s \in Ssrcs, NEW m \in Unreported,
         tmap' = tmap, Own \ {m} \subseteq Own', Unreported' \subseteq Unreported,
         NEW w \in Owners, Leads(s, w), NEW next, next = After(s, w, m)
  PROVE  Leads(s, next)'
<1>1. PICK t : t = tmap[s]
  OBVIOUS
<1>2. t \in Owners /\ Own \in SUBSET Unreported /\ Unreported \in SUBSET Announcements
  BY <1>1, PendingTyped DEF TasksTyped
<1>3. LeadsTo(s, t, w, Own, Unreported)
  BY <1>1 DEF Leads
<1>4. LeadsTo(s, t, next, Own \ {m}, Unreported)
  BY <1>2, <1>3, ReportLeads
<1>5. LeadsTo(s, t, next, Own', Unreported')
  BY <1>4, LeadsMore
<1> QED
  BY <1>1, <1>5 DEF Leads

\* Where nothing is owed of the SSRC, the main loop comes to its owner.
LEMMA NothingOwed ==
  ASSUME TasksTyped, NEW s \in Ssrcs, \A m \in Own : s \notin Concerns(m),
         NEW w \in Owners, Leads(s, w)
  PROVE  w = tmap[s]
<1>1. tmap[s] = w \/ \E m \in Own : After(s, w, m) = tmap[s]
  BY DEF Leads, LeadsTo
<1>2. \A m \in Own : m \in Announcements
  BY PendingTyped
<1> QED
  BY <1>1, <1>2, Unconcerned

\* Fewer reports owed by others keep the main loop on its way.
LEMMA FewerOwed ==
  ASSUME NEW s, NEW w, tmap' = tmap, Own' = Own, Unreported' \subseteq Unreported, Leads(s, w)
  PROVE  Leads(s, w)'
<1>1. LeadsTo(s, tmap[s], w, Own, Unreported)
  BY DEF Leads
<1>2. LeadsTo(s, tmap[s], w, Own', Unreported')
  BY <1>1, LeadsMore
<1> QED
  BY <1>2 DEF Leads

-----------------------------------------------------------------------------
(* Every step of the tasks keeps the invariant.                              *)

LEMMA TasksInit == InitAll => TasksInv
<1> SUFFICES ASSUME InitAll PROVE TasksInv
  OBVIOUS
<1>1. TasksTyped
  BY DEF InitAll, Init, TasksTyped, Owners, UdpStates, NoPacket
<1>2. UdpKnows
  BY DEF InitAll, UdpKnows, NoPacket
<1>3. ASSUME NEW s \in Ssrcs PROVE Follows(s)
  <2>1. PICK g : g = [i \in 0 .. 0 |-> NoUser]
    OBVIOUS
  <2>2. Len(events) = 0 /\ g \in Paths /\ g[0] = NoUser
    BY <2>1 DEF InitAll, Paths, Owners
  <2>3. Path(s, g)
    BY <2>2 DEF Path, InitAll, Init
  <2>4. Unreported = {} /\ tmap[s] = NoUser
    BY DEF InitAll, Unreported, Own, NoPacket
  <2>5. Leads(s, g[Len(events)])
    BY <2>2, <2>4 DEF Leads, LeadsTo
  <2> QED
    BY <2>2, <2>3, <2>5 DEF Follows
<1> QED
  BY <1>1, <1>2, <1>3 DEF TasksInv

LEMMA ChangeKeeps ==
  ASSUME TasksInv, NEW msg \in Announcements, Change(msg),
         senders' \in [Ssrcs -> SUBSET Users]
  PROVE  TasksInv'
<1>1. TasksTyped /\ UdpKnows /\ \A s \in Ssrcs : Follows(s)
  BY DEF TasksInv
<1>2. /\ UNCHANGED <<vars, tmap, reader, udp, late, seen, events, astray>>
      /\ gateway' = Append(gateway, msg) /\ ssrcMap' = ssrcMap
  BY DEF Change, vars, transport
<1>3. TasksTyped'
  BY <1>1, <1>2 DEF TasksTyped
<1>4. Own' = Own /\ Unreported' = Unreported /\ Others' = Others
  BY <1>2 DEF Own, Unreported, Others
<1>5. UdpKnows'
  BY <1>1, <1>2, <1>4 DEF UdpKnows
<1>6. ASSUME NEW s \in Ssrcs PROVE Follows(s)'
  <2>1. \A w \in Owners : Leads(s, w) => Leads(s, w)'
    BY <1>2, <1>4, FewerOwed
  <2> QED
    BY <1>1, <1>2, <2>1, QueueKept
<1> QED
  BY <1>3, <1>5, <1>6 DEF TasksInv

\* The packet at work stays at work when its SSRC changes hands.
LEMMA Doubted ==
  ASSUME TasksTyped, NEW msg \in Announcements, udp' = InDoubt(msg)
  PROVE  /\ udp'.pc = udp.pc
         /\ udp.pc # "idle" => /\ udp'.ssrc = udp.ssrc /\ udp'.user = udp.user
                               /\ udp'.from = udp.from /\ udp'.sealed = udp.sealed
                               /\ udp'.clean => udp.clean /\ udp.ssrc \notin Concerns(msg)
         /\ udp' \in UdpStates
<1>1. CASE udp' = udp /\ (udp.pc # "idle" => udp.ssrc \notin Concerns(msg))
  BY <1>1 DEF TasksTyped
<1>2. CASE udp' = [udp EXCEPT !.clean = FALSE] /\ udp.pc # "idle"
  <2>1. udp' = [pc |-> udp.pc, ssrc |-> udp.ssrc, index |-> udp.index, from |-> udp.from,
                user |-> udp.user, sealed |-> udp.sealed, clean |-> FALSE]
    BY <1>2, AtWork
  <2>2. udp' \in UdpStates
    BY <1>2, <2>1, AtWork DEF UdpStates
  <2> QED
    BY <2>1, <2>2
<1> QED
  BY <1>1, <1>2 DEF InDoubt

LEMMA ReadTaskKeeps ==
  ASSUME TasksInv, ReadTask
  PROVE  TasksInv'
<1>1. TasksTyped /\ UdpKnows /\ \A s \in Ssrcs : Follows(s)
  BY DEF TasksInv
<1>2. PICK msg : msg = Head(gateway)
  OBVIOUS
<1>3. msg \in Announcements /\ Tail(gateway) \in Seq(Announcements)
  BY <1>1, <1>2 DEF ReadTask, TasksTyped
<1>4. /\ reader = Idle /\ reader' = msg /\ gateway' = Tail(gateway)
      /\ tmap' = [s \in Ssrcs |-> After(s, tmap[s], msg)]
      /\ udp' = InDoubt(msg) /\ astray' = AstrayAfter(msg)
      /\ UNCHANGED <<vars, senders, late, events>> /\ ssrcMap' = ssrcMap
  BY <1>2 DEF ReadTask, vars, transport
<1>5. /\ udp'.pc = udp.pc
      /\ udp.pc # "idle" => /\ udp'.ssrc = udp.ssrc /\ udp'.user = udp.user
                            /\ udp'.from = udp.from /\ udp'.sealed = udp.sealed
                            /\ udp'.clean => udp.clean /\ udp.ssrc \notin Concerns(msg)
      /\ udp' \in UdpStates
  BY <1>1, <1>3, <1>4, Doubted
<1>6. TasksTyped'
  <2>1. \A s \in Ssrcs : After(s, tmap[s], msg) \in Owners
    BY <1>1, <1>3, AnnouncementKinds, AfterTyped DEF TasksTyped
  <2>2. astray' \subseteq Ssrcs
    BY <1>1, <1>4 DEF AstrayAfter, TasksTyped
  <2> QED
    BY <1>1, <1>3, <1>4, <1>5, <2>1, <2>2 DEF TasksTyped
<1>7. Own' = Own \cup {msg} /\ Unreported' = Unreported \cup {msg} /\ Others' = Others \cup {msg}
  <2>1. msg # Idle
    BY <1>3, AnnouncementKinds
  <2> QED
    BY <1>4, <1>5, <2>1 DEF Own, Unreported, Others
<1>8. UdpKnows'
  <2> SUFFICES ASSUME udp'.pc # "idle", udp'.clean
               PROVE  /\ udp'.ssrc \notin astray'
                      /\ udp'.user = tmap'[udp'.ssrc]
                      /\ \A m \in Others' : udp'.ssrc \notin Concerns(m)
    BY DEF UdpKnows
  <2>1. PICK q : q = udp.ssrc
    OBVIOUS
  <2>2. /\ udp.pc # "idle" /\ udp.clean /\ q \notin Concerns(msg) /\ q \in Ssrcs
        /\ udp'.ssrc = q /\ udp'.user = udp.user
    BY <1>1, <1>5, <2>1, AtWork
  <2>3. /\ q \notin astray /\ udp.user = tmap[q]
        /\ \A m \in Others : q \notin Concerns(m)
    BY <1>1, <2>1, <2>2 DEF UdpKnows
  <2>4. /\ \A owner : After(q, owner, msg) = owner
        /\ \A n : ~Conflict(q, msg, n)
    BY <1>3, <2>2, Unconcerned
  <2>5. q \notin astray'
    BY <1>4, <2>3, <2>4 DEF AstrayAfter
  <2>6. tmap'[q] = tmap[q]
    BY <1>4, <2>2, <2>4
  <2> QED
    BY <1>7, <2>2, <2>3, <2>5, <2>6
<1>9. ASSUME NEW s \in Ssrcs PROVE Follows(s)'
  <2>1. ASSUME s \notin astray', NEW w \in Owners, s \notin astray => Leads(s, w)
        PROVE  Leads(s, w)'
    <3>1. tmap'[s] = After(s, tmap[s], msg)
      BY <1>4
    <3> QED
      BY <1>1, <1>3, <1>4, <1>7, <2>1, <3>1, MapChanged
  <2> QED
    BY <1>1, <1>4, <2>1, QueueKept
<1> QED
  BY <1>6, <1>8, <1>9 DEF TasksInv

LEMMA ReaderSendsKeeps ==
  ASSUME TasksInv, ReaderSends
  PROVE  TasksInv'
<1>1. TasksTyped /\ UdpKnows /\ \A s \in Ssrcs : Follows(s)
  BY DEF TasksInv
<1>2. PICK m : m = reader
  OBVIOUS
<1>3. m \in Announcements /\ m \in QueuedEvents /\ m.kind # "opus"
  BY <1>1, <1>2, AnnouncementKinds DEF ReaderSends, TasksTyped
<1>4. /\ reader # Idle /\ reader' = Idle /\ events' = Append(events, m)
      /\ UNCHANGED <<vars, senders, gateway, tmap, udp, late, astray>> /\ ssrcMap' = ssrcMap
  BY <1>2 DEF ReaderSends, Send, vars, transport
<1>5. TasksTyped'
  BY <1>1, <1>3, <1>4 DEF TasksTyped
<1>6. /\ Own \ {m} \subseteq Own' /\ Unreported' \subseteq Unreported /\ Others' \subseteq Others
      /\ m \in Unreported
  BY <1>2, <1>4 DEF Own, Unreported, Others
<1>7. UdpKnows'
  BY <1>1, <1>4, <1>6 DEF UdpKnows
<1>8. ASSUME NEW s \in Ssrcs PROVE Follows(s)'
  <2>1. \A w \in Owners : Leads(s, w) =>
          \A next \in Owners : next = After(s, w, m) => Leads(s, next)'
    BY <1>1, <1>4, <1>6, Reported
  <2> QED
    BY <1>1, <1>3, <1>4, <2>1, QueueGrown
<1> QED
  BY <1>5, <1>7, <1>8 DEF TasksInv

LEMMA UdpReceiveKeeps ==
  ASSUME TasksInv, NEW s \in Ssrcs, NEW n \in 0 .. MaxIndex, UdpReceive(s, n)
  PROVE  TasksInv'
<1>1. TasksTyped /\ UdpKnows /\ \A q \in Ssrcs : Follows(q)
  BY DEF TasksInv
<1>2. PICK from \in senders[s] :
        udp' = [pc |-> "decrypt", ssrc |-> s, index |-> n, from |-> from, user |-> tmap[s],
                sealed |-> FALSE,
                clean |-> s \notin astray /\ \A msg \in Unreported : s \notin Concerns(msg)]
  BY DEF UdpReceive
<1>3. /\ udp.pc = "idle"
      /\ UNCHANGED <<vars, senders, gateway, tmap, reader, late, events, astray>>
      /\ ssrcMap' = ssrcMap
  BY DEF UdpReceive, vars, transport
<1>4. from \in Users /\ tmap[s] \in Owners
  BY <1>1, <1>2 DEF TasksTyped
<1>5. TasksTyped'
  <2>1. udp' \in UdpStates
    BY <1>2, <1>4 DEF UdpStates
  <2> QED
    BY <1>1, <1>2, <1>3, <2>1 DEF TasksTyped
<1>6. Own' = Own /\ Unreported' = Unreported /\ Others' = Others
  BY <1>2, <1>3 DEF Own, Unreported, Others
<1>7. UdpKnows'
  BY <1>1, <1>2, <1>3, <1>6, PendingTyped DEF UdpKnows
<1>8. ASSUME NEW q \in Ssrcs PROVE Follows(q)'
  <2>1. \A w \in Owners : Leads(q, w) => Leads(q, w)'
    BY <1>3, <1>6, FewerOwed
  <2> QED
    BY <1>1, <1>3, <2>1, QueueKept
<1> QED
  BY <1>5, <1>7, <1>8 DEF TasksInv

\* What opening the frame leaves the UDP task with.
LEMMA Opened ==
  ASSUME TasksTyped, udp.pc = "decrypt", NEW c \in Users, NEW pc \in {"opus", "update"},
         NEW encrypted \in BOOLEAN, encrypted => c = udp.from,
         udp' = [udp EXCEPT !.pc = pc, !.user = c, !.sealed = encrypted]
  PROVE  /\ udp'.pc = pc /\ udp'.ssrc = udp.ssrc /\ udp'.user = c
         /\ udp'.from = udp.from /\ udp'.clean = udp.clean
         /\ udp'.sealed => udp'.user = udp'.from
         /\ udp' \in UdpStates
<1>1. udp' = [pc |-> pc, ssrc |-> udp.ssrc, index |-> udp.index, from |-> udp.from,
              user |-> c, sealed |-> encrypted, clean |-> udp.clean]
  BY AtWork
<1>2. udp' \in UdpStates
  BY <1>1, AtWork DEF UdpStates, Owners
<1> QED
  BY <1>1, <1>2

\* The frame was opened for another user than the map's, and the map is changed.
LEMMA RemapKeeps ==
  ASSUME TasksInv, NEW c \in Users, udp.pc = "decrypt",
         udp'.pc = "update", udp'.ssrc = udp.ssrc, udp'.user = c,
         udp'.from = udp.from, udp'.clean = udp.clean,
         udp'.sealed => udp'.user = udp'.from, udp' \in UdpStates,
         tmap' = [tmap EXCEPT ![udp.ssrc] = c],
         astray' = AstrayAfter(Speaking(udp.ssrc, c)),
         UNCHANGED <<ssrcMap, senders, gateway, reader, late, events>>
  PROVE  TasksInv'
<1>1. TasksTyped /\ UdpKnows /\ \A q \in Ssrcs : Follows(q)
  BY DEF TasksInv
<1>2. PICK q : q = udp.ssrc
  OBVIOUS
<1>3. PICK msg : msg = Speaking(q, c)
  OBVIOUS
<1>4. q \in Ssrcs
  BY <1>1, <1>2, AtWork
<1>10. udp'.pc = "update" /\ udp'.ssrc = q /\ udp'.user = c /\ udp'.clean = udp.clean
  BY <1>2
<1>5. msg \in Announcements /\ msg.kind = "ssrc" /\ msg.ssrc = q /\ msg.user = c
  BY <1>3, <1>4 DEF Speaking, Announcements
<1>6. TasksTyped'
  <2>1. astray' \subseteq Ssrcs
    BY <1>1 DEF AstrayAfter, TasksTyped
  <2>2. tmap' \in [Ssrcs -> Owners]
    BY <1>1 DEF TasksTyped, Owners
  <2> QED
    BY <1>1, <2>1, <2>2 DEF TasksTyped
<1>7. Own' = Own \cup {msg} /\ Unreported' = Unreported \cup {msg} /\ Others' = Others
  <2>1. Speaking(udp'.ssrc, udp'.user) = msg
    BY <1>3, <1>10
  <2> QED
    BY <1>10, <2>1 DEF Own, Unreported, Others
<1>8. UdpKnows'
  <2> SUFFICES ASSUME udp'.clean
               PROVE  /\ q \notin astray' /\ c = tmap'[q]
                      /\ \A m \in Others' : q \notin Concerns(m)
    BY <1>10 DEF UdpKnows
  <2>1. \A m \in Others : q \notin Concerns(m)
    BY <1>1, <1>2, <1>10 DEF UdpKnows
  <2>2. Unreported = Others /\ Unreported \subseteq Announcements
    BY <1>1, PendingTyped
  <2>3. \A m \in Unreported : ~Conflict(q, msg, m)
    BY <1>4, <2>1, <2>2, Unconcerned
  <2>4. q \notin astray'
    BY <1>2, <1>3, <1>5, <2>3 DEF AstrayAfter
  <2> QED
    BY <1>1, <1>2, <1>4, <1>7, <1>10, <2>1, <2>4 DEF TasksTyped
<1>9. ASSUME NEW s \in Ssrcs PROVE Follows(s)'
  <2>1. tmap'[s] = After(s, tmap[s], msg)
    BY <1>1, <1>2, <1>5 DEF After, TasksTyped
  <2>2. ASSUME s \notin astray', NEW w \in Owners, s \notin astray => Leads(s, w)
        PROVE  Leads(s, w)'
    <3>1. astray' = AstrayAfter(msg)
      BY <1>2, <1>3
    <3> QED
      BY <1>1, <1>5, <1>7, <2>1, <2>2, <3>1, MapChanged
  <2> QED
    BY <1>1, <2>2, QueueKept
<1> QED
  BY <1>6, <1>8, <1>9 DEF TasksInv

\* The packet is the map's user's, or could not be opened.
LEMMA UnmappedKeeps ==
  ASSUME TasksInv, udp.pc = "decrypt",
         \/ udp'.pc = "idle"
         \/ /\ udp'.pc = "opus" /\ udp'.ssrc = udp.ssrc /\ udp'.user = udp.user
            /\ udp'.from = udp.from /\ udp'.clean = udp.clean
            /\ udp'.sealed => udp'.user = udp'.from,
         udp' \in UdpStates,
         UNCHANGED <<ssrcMap, senders, gateway, tmap, reader, late, events, astray>>
  PROVE  TasksInv'
<1>1. TasksTyped /\ UdpKnows /\ \A q \in Ssrcs : Follows(q)
  BY DEF TasksInv
<1>2. TasksTyped'
  BY <1>1 DEF TasksTyped
<1>3. Own' = Own /\ Unreported' = Unreported /\ Others' = Others
  BY DEF Own, Unreported, Others
<1>4. UdpKnows'
  BY <1>1, <1>3 DEF UdpKnows
<1>5. ASSUME NEW s \in Ssrcs PROVE Follows(s)'
  <2>1. \A w \in Owners : Leads(s, w) => Leads(s, w)'
    BY <1>3, FewerOwed
  <2> QED
    BY <1>1, <2>1, QueueKept
<1> QED
  BY <1>2, <1>4, <1>5 DEF TasksInv

LEMMA UdpDecryptKeeps ==
  ASSUME TasksInv, UdpDecrypt
  PROVE  TasksInv'
<1>1. TasksTyped
  BY DEF TasksInv
<1>2. /\ udp.pc = "decrypt"
      /\ UNCHANGED <<ssrcMap, senders, gateway, reader, late, events>>
  BY DEF UdpDecrypt, vars, transport
<1>3. ASSUME NEW encrypted \in BOOLEAN, UdpDecrypted(encrypted) PROVE TasksInv'
  <2>1. PICK c \in Candidates(encrypted) :
          /\ udp' = [udp EXCEPT !.pc = IF udp.user = c THEN "opus" ELSE "update",
                                !.user = c, !.sealed = encrypted]
          /\ IF udp.user = c THEN UNCHANGED <<tmap, astray>>
             ELSE /\ tmap' = [tmap EXCEPT ![udp.ssrc] = c]
                  /\ astray' = AstrayAfter(Speaking(udp.ssrc, c))
    BY <1>3 DEF UdpDecrypted
  <2>2. c \in Users /\ (encrypted => c = udp.from)
    BY <1>1, <1>2, <2>1, AtWork DEF Candidates
  <2>3. PICK pc \in {"opus", "update"} : pc = IF udp.user = c THEN "opus" ELSE "update"
    OBVIOUS
  <2>4. udp' = [udp EXCEPT !.pc = pc, !.user = c, !.sealed = encrypted]
    BY <2>1, <2>3
  <2>5. /\ udp'.pc = pc /\ udp'.ssrc = udp.ssrc /\ udp'.user = c
        /\ udp'.from = udp.from /\ udp'.clean = udp.clean
        /\ udp'.sealed => udp'.user = udp'.from
        /\ udp' \in UdpStates
    BY <1>1, <1>2, <2>2, <2>4, Opened
  <2>6. CASE udp.user = c
    BY <1>2, <2>1, <2>3, <2>5, <2>6, UnmappedKeeps
  <2>7. CASE udp.user # c
    BY <1>2, <2>1, <2>2, <2>3, <2>5, <2>7, RemapKeeps
  <2> QED
    BY <2>6, <2>7
<1>4. CASE udp' = [udp EXCEPT !.pc = "opus"] /\ UNCHANGED <<tmap, astray>>
  <2>1. udp.sealed = FALSE
    BY <1>1, <1>2, AtWork DEF TasksTyped
  <2>2. udp' = [pc |-> "opus", ssrc |-> udp.ssrc, index |-> udp.index, from |-> udp.from,
                user |-> udp.user, sealed |-> udp.sealed, clean |-> udp.clean]
    BY <1>1, <1>2, <1>4, AtWork
  <2>3. udp' \in UdpStates
    BY <1>1, <1>2, <2>2, AtWork DEF UdpStates
  <2>4. /\ udp'.pc = "opus" /\ udp'.ssrc = udp.ssrc /\ udp'.user = udp.user
        /\ udp'.from = udp.from /\ udp'.clean = udp.clean /\ ~udp'.sealed
    BY <2>1, <2>2
  <2> QED
    BY <1>2, <1>4, <2>3, <2>4, UnmappedKeeps
<1>5. CASE udp' = NoPacket /\ UNCHANGED <<tmap, astray>>
  <2>1. udp'.pc = "idle" /\ udp' \in UdpStates
    BY <1>5 DEF NoPacket, UdpStates
  <2> QED
    BY <1>2, <1>5, <2>1, UnmappedKeeps
<1> QED
  BY <1>3, <1>4, <1>5 DEF UdpDecrypt

LEMMA UdpSendsUpdateKeeps ==
  ASSUME TasksInv, UdpSendsUpdate
  PROVE  TasksInv'
<1>1. TasksTyped /\ UdpKnows /\ \A q \in Ssrcs : Follows(q)
  BY DEF TasksInv
<1>2. PICK m : m = Speaking(udp.ssrc, udp.user)
  OBVIOUS
<1>3. /\ udp.pc = "update" /\ events' = Append(events, m)
      /\ udp' = [udp EXCEPT !.pc = "opus"]
      /\ UNCHANGED <<vars, senders, gateway, tmap, reader, late, astray>> /\ ssrcMap' = ssrcMap
  BY <1>2 DEF UdpSendsUpdate, Send, vars, transport
<1>4. m \in Announcements /\ m \in QueuedEvents /\ m.kind # "opus"
  BY <1>1, <1>2, <1>3, UpdateTyped, AnnouncementKinds
<1>5. udp' = [pc |-> "opus", ssrc |-> udp.ssrc, index |-> udp.index, from |-> udp.from,
              user |-> udp.user, sealed |-> udp.sealed, clean |-> udp.clean]
  BY <1>1, <1>3, AtWork
<1>6. TasksTyped'
  <2>1. udp' \in UdpStates
    BY <1>1, <1>3, <1>5, AtWork DEF UdpStates
  <2>2. events' \in Seq(QueuedEvents)
    BY <1>1, <1>3, <1>4 DEF TasksTyped
  <2>3. udp'.pc # "idle" /\ udp'.sealed => udp'.pc # "decrypt" /\ udp'.user = udp'.from
    BY <1>1, <1>3, <1>5 DEF TasksTyped
  <2> QED
    BY <1>1, <1>3, <2>1, <2>2, <2>3 DEF TasksTyped
<1>7. /\ Own \ {m} \subseteq Own' /\ Unreported' \subseteq Unreported /\ Others' = Others
      /\ m \in Unreported
  BY <1>2, <1>3, <1>5 DEF Own, Unreported, Others
<1>8. UdpKnows'
  BY <1>1, <1>3, <1>5, <1>7 DEF UdpKnows
<1>9. ASSUME NEW s \in Ssrcs PROVE Follows(s)'
  <2>1. \A w \in Owners : Leads(s, w) =>
          \A next \in Owners : next = After(s, w, m) => Leads(s, next)'
    BY <1>1, <1>3, <1>7, Reported
  <2> QED
    BY <1>1, <1>3, <1>4, <2>1, QueueGrown
<1> QED
  BY <1>6, <1>8, <1>9 DEF TasksInv

LEMMA UdpSendsOpusKeeps ==
  ASSUME TasksInv, UdpSendsOpus
  PROVE  TasksInv'
<1>1. TasksTyped /\ UdpKnows /\ \A q \in Ssrcs : Follows(q)
  BY DEF TasksInv
<1>2. PICK e : e = Opus(udp)
  OBVIOUS
<1>3. /\ udp.pc = "opus" /\ events' = Append(events, e) /\ udp' = NoPacket
      /\ UNCHANGED <<vars, senders, gateway, tmap, reader, late, astray>> /\ ssrcMap' = ssrcMap
  BY <1>2 DEF UdpSendsOpus, Send, vars, transport
<1>4. /\ e \in QueuedEvents /\ e.kind = "opus" /\ e.ssrc = udp.ssrc /\ e.clean = udp.clean
      /\ e.voice = udp.user
  BY <1>1, <1>2, <1>3, OpusTyped
<1>5. TasksTyped'
  <2>1. udp' \in UdpStates /\ udp'.pc = "idle"
    BY <1>3 DEF UdpStates, NoPacket
  <2>2. events' \in Seq(QueuedEvents)
    BY <1>1, <1>3, <1>4 DEF TasksTyped
  <2> QED
    BY <1>1, <1>3, <2>1, <2>2 DEF TasksTyped
<1>6. Own' = Own /\ Unreported' = Unreported
  BY <1>3 DEF Own, Unreported, NoPacket
<1>7. UdpKnows'
  BY <1>3 DEF UdpKnows, NoPacket
<1>8. ASSUME NEW s \in Ssrcs PROVE Follows(s)'
  <2>1. ASSUME NEW w \in Owners, Leads(s, w), NEW next \in Owners, next = After(s, w, e)
        PROVE  Leads(s, next)'
    <3>1. next = w
      BY <1>4, <2>1 DEF After
    <3> QED
      BY <1>3, <1>6, <2>1, <3>1, FewerOwed
  <2>2. ASSUME e.ssrc = s, e.clean
        PROVE  s \notin astray /\ \A w \in Owners : Leads(s, w) => Right(w, e)
    <3>1. /\ s \notin astray /\ e.voice = tmap[s]
          /\ \A m \in Others : s \notin Concerns(m)
      BY <1>1, <1>3, <1>4, <2>2 DEF UdpKnows
    <3>2. \A m \in Own : s \notin Concerns(m)
      BY <1>1, <1>3, <3>1, PendingTyped
    <3>3. \A w \in Owners : Leads(s, w) => w = tmap[s]
      BY <1>1, <3>2, NothingOwed
    <3> QED
      BY <3>1, <3>3 DEF Right
  <2> QED
    BY <1>1, <1>3, <1>4, <2>1, <2>2, QueueGrown
<1> QED
  BY <1>5, <1>7, <1>8 DEF TasksInv

\* The main loop changes its map as the event says.
LEMMA HandleIsAfter ==
  ASSUME ssrcMap \in [Ssrcs -> Owners], NEW e \in QueuedEvents, Handle(e)
  PROVE  /\ \A s \in Ssrcs : ssrcMap'[s] = After(s, ssrcMap[s], e)
         /\ ssrcMap' \in [Ssrcs -> Owners]
<1>1. CASE e.kind = "ssrc"
  <2>1. e.ssrc \in Ssrcs /\ e.user \in Users
    BY <1>1 DEF QueuedEvents, Announcements, OpusEvents
  <2>2. ssrcMap' = [ssrcMap EXCEPT ![e.ssrc] = e.user]
    BY <1>1 DEF Handle, SsrcUpdate
  <2> QED
    BY <1>1, <2>1, <2>2 DEF After, Owners
<1>2. CASE e.kind = "gone"
  <2>1. ssrcMap' = [q \in Ssrcs |-> IF ssrcMap[q] = e.user THEN NoUser ELSE ssrcMap[q]]
    BY <1>2 DEF Handle, ClientDisconnect
  <2> QED
    BY <1>2, <2>1 DEF After, Owners
<1>3. CASE e.kind = "opus"
  <2>1. ssrcMap' = ssrcMap
    BY <1>3 DEF Handle, OpusReceived, DropOpus, AcceptOpus, transport
  <2> QED
    BY <1>3, <2>1 DEF After
<1> QED
  BY <1>1, <1>2, <1>3 DEF Handle

LEMMA MainHandlesEventKeeps ==
  ASSUME TasksInv, MainHandlesEvent
  PROVE  TasksInv'
<1>1. TasksTyped /\ UdpKnows /\ \A q \in Ssrcs : Follows(q)
  BY DEF TasksInv
<1>2. PICK e : e = Head(events)
  OBVIOUS
<1>3. /\ events # <<>> /\ Handle(e) /\ events' = Tail(events)
      /\ UNCHANGED <<senders, gateway, tmap, reader, udp, late, astray>>
  BY <1>2 DEF MainHandlesEvent, taskVars
<1>4. e \in QueuedEvents /\ events' \in Seq(QueuedEvents)
  BY <1>1, <1>2, <1>3 DEF TasksTyped
<1>5. \A s \in Ssrcs : ssrcMap'[s] = After(s, ssrcMap[s], Head(events))
  BY <1>1, <1>2, <1>3, <1>4, HandleIsAfter DEF TasksTyped
<1>6. ssrcMap' \in [Ssrcs -> Owners]
  BY <1>1, <1>3, <1>4, HandleIsAfter DEF TasksTyped
<1>7. TasksTyped'
  BY <1>1, <1>3, <1>4, <1>6 DEF TasksTyped
<1>8. Own' = Own /\ Unreported' = Unreported /\ Others' = Others
  BY <1>3 DEF Own, Unreported, Others
<1>9. UdpKnows'
  BY <1>1, <1>3, <1>8 DEF UdpKnows
<1>10. ASSUME NEW s \in Ssrcs PROVE Follows(s)'
  <2>1. PICK g \in Paths : Path(s, g) /\ (s \notin astray => Leads(s, g[Len(events)]))
    BY <1>1 DEF Follows
  <2>2. PICK h \in Paths' : Path(s, h)' /\ h[Len(events')] = g[Len(events)]
    BY <1>1, <1>3, <1>5, <2>1, PathShrinks
  <2>3. PICK w : w = g[Len(events)]
    OBVIOUS
  <2>4. s \notin astray' => Leads(s, w)'
    BY <1>3, <1>8, <2>1, <2>3, FewerOwed
  <2>5. w = h[Len(events')]
    BY <2>2, <2>3
  <2> QED
    BY <2>2, <2>4, <2>5 DEF Follows
<1> QED
  BY <1>7, <1>9, <1>10 DEF TasksInv

LEMMA LateSendKeeps ==
  ASSUME TasksInv, LateSend
  PROVE  TasksInv'
<1>1. TasksTyped /\ UdpKnows /\ \A q \in Ssrcs : Follows(q)
  BY DEF TasksInv
<1>2. PICK q \in late : /\ Send(Head(q))
                        /\ late' = (late \ {q}) \cup ({Tail(q)} \ {<<>>})
  BY DEF LateSend
<1>3. PICK e : e = Head(q)
  OBVIOUS
<1>4. /\ events' = Append(events, e)
      /\ UNCHANGED <<senders, gateway, tmap, reader, udp, astray>> /\ ssrcMap' = ssrcMap
  BY <1>2, <1>3 DEF LateSend, Send, vars, transport
<1>5. /\ e \in Announcements \cup LateOpus
      /\ Tail(q) = <<>> \/ (Tail(q) \in LateTasks /\ Head(Tail(q)) \in LateOpus)
  BY <1>1, <1>3, LateTyped DEF TasksTyped
<1>6. e \in QueuedEvents
  BY <1>5, AnnouncementKinds, LateOpusTyped
<1>7. TasksTyped'
  <2>1. late' \subseteq LateTasks
    BY <1>1, <1>2, <1>5 DEF TasksTyped
  <2>2. events' \in Seq(QueuedEvents)
    BY <1>1, <1>4, <1>6 DEF TasksTyped
  <2> QED
    BY <1>1, <1>4, <2>1, <2>2 DEF TasksTyped
<1>8. Own' = Own /\ Unreported' \subseteq Unreported /\ Others' \subseteq Others
  <2>1. \A p \in late' : p \in late \/ Head(p).kind = "opus"
    BY <1>2, <1>5, LateOpusTyped
  <2>2. Own' = Own
    BY <1>4 DEF Own
  <2> QED
    BY <1>4, <2>1, <2>2 DEF Unreported, Others
<1>9. UdpKnows'
  BY <1>1, <1>4, <1>8 DEF UdpKnows
<1>10. ASSUME NEW s \in Ssrcs PROVE Follows(s)'
  <2>1. CASE e \in Announcements
    <3>1. e \in Unreported /\ e.kind # "opus"
      BY <1>2, <1>3, <2>1, AnnouncementKinds DEF Unreported
    <3>2. \A w \in Owners : Leads(s, w) =>
            \A next \in Owners : next = After(s, w, e) => Leads(s, next)'
      BY <1>1, <1>4, <1>8, <3>1, Reported
    <3> QED
      BY <1>1, <1>4, <1>6, <3>1, <3>2, QueueGrown
  <2>2. CASE e \in LateOpus
    <3>1. e.kind = "opus" /\ ~e.clean
      BY <2>2, LateOpusTyped
    <3>2. ASSUME NEW w \in Owners, Leads(s, w), NEW next \in Owners, next = After(s, w, e)
          PROVE  Leads(s, next)'
      <4>1. next = w
        BY <3>1, <3>2 DEF After
      <4> QED
        BY <1>4, <1>8, <3>2, <4>1, FewerOwed
    <3> QED
      BY <1>1, <1>4, <1>6, <3>1, <3>2, QueueGrown
  <2> QED
    BY <1>5, <2>1, <2>2
<1> QED
  BY <1>7, <1>9, <1>10 DEF TasksInv

LEMMA LateStopsKeeps ==
  ASSUME TasksInv, LateStops
  PROVE  TasksInv'
<1>1. TasksTyped /\ UdpKnows /\ \A q \in Ssrcs : Follows(q)
  BY DEF TasksInv
<1>2. /\ late' \subseteq late
      /\ UNCHANGED <<senders, gateway, tmap, reader, udp, events, astray>> /\ ssrcMap' = ssrcMap
  BY DEF LateStops, vars, transport
<1>3. TasksTyped'
  BY <1>1, <1>2 DEF TasksTyped
<1>4. Own' = Own /\ Unreported' \subseteq Unreported /\ Others' \subseteq Others
  BY <1>2 DEF Own, Unreported, Others
<1>5. UdpKnows'
  BY <1>1, <1>2, <1>4 DEF UdpKnows
<1>6. ASSUME NEW s \in Ssrcs PROVE Follows(s)'
  <2>1. \A w \in Owners : Leads(s, w) => Leads(s, w)'
    BY <1>2, <1>4, FewerOwed
  <2> QED
    BY <1>1, <1>2, <2>1, QueueKept
<1> QED
  BY <1>3, <1>5, <1>6 DEF TasksInv

\* What the tasks have at hand when they are aborted.
LEMMA AtHandTyped ==
  ASSUME TasksTyped
  PROVE  /\ AtHand \subseteq LateTasks
         /\ \A q \in AtHand : Head(q).kind # "opus" => Head(q) \in Own
<1>1. PICK opus : opus = [Opus(udp) EXCEPT !.clean = FALSE]
  OBVIOUS
<1>2. udp.pc # "idle" => opus \in LateOpus
  <2> SUFFICES ASSUME udp.pc # "idle" PROVE opus \in LateOpus
    OBVIOUS
  <2>1. PICK e : e = Opus(udp)
    OBVIOUS
  <2>2. e \in OpusEvents
    BY <2>1, OpusTyped
  <2>3. opus = [e EXCEPT !.clean = FALSE]
    BY <1>1, <2>1
  <2> QED
    BY <2>2, <2>3 DEF OpusEvents, LateOpus
<1>3. PICK m : m = Speaking(udp.ssrc, udp.user)
  OBVIOUS
<1>4. udp.pc = "update" => m \in Announcements
  BY <1>3, UpdateTyped
<1>5. reader # Idle => reader \in Announcements
  BY DEF TasksTyped
<1>6. \A q \in AtHand : \/ q = <<reader>> /\ reader # Idle
                        \/ q = <<m, opus>> /\ udp.pc = "update"
                        \/ q = <<opus>> /\ udp.pc = "opus"
  BY <1>1, <1>3 DEF AtHand
<1>7. ASSUME NEW q \in AtHand
      PROVE  q \in LateTasks /\ (Head(q).kind # "opus" => Head(q) \in Own)
  <2>1. CASE q = <<reader>> /\ reader # Idle
    BY <1>5, <2>1 DEF LateTasks, Own
  <2>2. CASE q = <<m, opus>> /\ udp.pc = "update"
    <3>1. m \in Announcements /\ opus \in LateOpus /\ Head(q) = m
      BY <1>2, <1>4, <2>2
    <3>2. m \in Own
      BY <1>3, <2>2 DEF Own
    <3> QED
      BY <2>2, <3>1, <3>2 DEF LateTasks
  <2>3. CASE q = <<opus>> /\ udp.pc = "opus"
    <3>1. opus \in LateOpus /\ Head(q) = opus
      BY <1>2, <2>3
    <3> QED
      BY <2>3, <3>1, LateOpusTyped DEF LateTasks
  <2> QED
    BY <1>6, <2>1, <2>2, <2>3
<1> QED
  BY <1>7

\* A new transport marks what is queued.
Marked(e) == IF e.kind = "opus" THEN [e EXCEPT !.old = TRUE] ELSE e

LEMMA MarkedTyped ==
  ASSUME NEW e \in QueuedEvents, NEW f, f = Marked(e)
  PROVE  /\ f \in QueuedEvents /\ f.kind = e.kind
         /\ e.kind # "opus" => f = e
         /\ e.kind = "opus" => f.ssrc = e.ssrc /\ f.clean = e.clean /\ f.voice = e.voice /\ f.old
         /\ \A s, owner : After(s, owner, f) = After(s, owner, e)
<1>1. CASE e.kind = "opus"
  <2>1. e \in OpusEvents /\ f = [e EXCEPT !.old = TRUE]
    BY <1>1, AnnouncementKinds DEF Marked, QueuedEvents
  <2>2. /\ f \in OpusEvents /\ f.kind = "opus" /\ f.ssrc = e.ssrc /\ f.clean = e.clean
        /\ f.voice = e.voice /\ f.old
    BY <2>1 DEF OpusEvents
  <2> QED
    BY <1>1, <2>2 DEF QueuedEvents, After
<1>2. CASE e.kind # "opus"
  BY <1>2 DEF Marked
<1> QED
  BY <1>1, <1>2

\* The main loop's map is emptied with the transport's: what is still queued fills
\* it from there.
LEMMA PathRestarts ==
  ASSUME TasksTyped, NEW s \in Ssrcs, NEW g \in Paths, Path(s, g),
         events' = [i \in 1 .. Len(events) |-> Marked(events[i])], ssrcMap'[s] = NoUser
  PROVE  \E h \in Paths' :
           /\ Path(s, h)'
           /\ (\A i \in 1 .. Len(events) : ~(events[i].kind = "ssrc" /\ events[i].ssrc = s))
                => h[Len(events')] = NoUser
<1> DEFINE k == Len(events)
           Mapped(i) == \E j \in 1 .. i : events[j].kind = "ssrc" /\ events[j].ssrc = s
<1>1. /\ k \in Nat /\ Len(events') = k
      /\ \A i \in 1 .. k : events[i] \in QueuedEvents /\ events'[i] = Marked(events[i])
  BY DEF TasksTyped
<1>2. g \in [0 .. k -> Owners]
  BY DEF Paths
<1>3. PICK f : f = [i \in 0 .. k |-> IF Mapped(i) THEN g[i] ELSE NoUser]
  OBVIOUS
<1>4. /\ f \in [0 .. k -> Owners]
      /\ \A i \in 0 .. k : f[i] = IF Mapped(i) THEN g[i] ELSE NoUser
  BY <1>2, <1>3 DEF Owners
<1>5. f \in Paths'
  BY <1>1, <1>4 DEF Paths
<1>6. f[0] = ssrcMap'[s]
  BY <1>1, <1>4
<1>7. ASSUME NEW i \in 1 .. k
      PROVE  /\ f[i] = After(s, f[i - 1], events'[i])
             /\ events'[i].kind = "opus" =>
                  (events'[i].ssrc = s /\ events'[i].clean => Right(f[i], events'[i]))
  <2>1. PICK e : e = events[i]
    OBVIOUS
  <2>2. PICK d : d = events'[i]
    OBVIOUS
  <2>3. /\ d.kind = e.kind
        /\ e.kind = "opus" => d.ssrc = e.ssrc /\ d.clean = e.clean /\ d.voice = e.voice /\ d.old
        /\ \A owner : After(s, owner, d) = After(s, owner, e)
    BY <1>1, <2>1, <2>2, MarkedTyped
  <2>4. /\ g[i] = After(s, g[i - 1], e)
        /\ e.kind = "opus" => (e.ssrc = s /\ e.clean => Right(g[i], e))
    BY <2>1 DEF Path
  <2>5. i - 1 \in 0 .. k /\ i \in 0 .. k
    BY <1>1
  <2>6. Mapped(i) <=> Mapped(i - 1) \/ (e.kind = "ssrc" /\ e.ssrc = s)
    BY <1>1, <2>1
  <2>7. f[i] = After(s, f[i - 1], e)
    <3>1. CASE Mapped(i - 1)
      BY <1>4, <2>4, <2>5, <2>6, <3>1
    <3>2. CASE ~Mapped(i - 1) /\ e.kind = "ssrc" /\ e.ssrc = s
      <4>1. f[i] = g[i]
        BY <1>4, <2>5, <2>6, <3>2
      <4> QED
        BY <2>4, <3>2, <4>1 DEF After
    <3>3. CASE ~Mapped(i - 1) /\ ~(e.kind = "ssrc" /\ e.ssrc = s)
      <4>1. f[i] = NoUser /\ f[i - 1] = NoUser
        BY <1>4, <2>5, <2>6, <3>3
      <4> QED
        BY <3>3, <4>1 DEF After
    <3> QED
      BY <3>1, <3>2, <3>3
  <2>8. d.kind = "opus" => (d.ssrc = s /\ d.clean => Right(f[i], d))
    <3>1. f[i] = g[i] \/ f[i] = NoUser
      BY <1>4, <2>5
    <3> QED
      BY <2>3, <2>4, <3>1 DEF Right
  <2> QED
    BY <2>2, <2>3, <2>7, <2>8
<1>8. Path(s, f)'
  BY <1>1, <1>6, <1>7 DEF Path
<1>9. (\A i \in 1 .. k : ~(events[i].kind = "ssrc" /\ events[i].ssrc = s))
        => f[Len(events')] = NoUser
  BY <1>1, <1>4
<1> QED
  BY <1>5, <1>8, <1>9

LEMMA ReconnectKeeps ==
  ASSUME TasksInv, Reconnect
  PROVE  TasksInv'
<1>1. TasksTyped /\ UdpKnows /\ \A q \in Ssrcs : Follows(q)
  BY DEF TasksInv
<1>2. /\ ssrcMap' = [s \in Ssrcs |-> NoUser] /\ tmap' = [s \in Ssrcs |-> NoUser]
      /\ reader' = Idle /\ udp' = NoPacket /\ gateway' = <<>>
      /\ late' = AtHand /\ astray' = Leftover /\ senders' = senders
  BY DEF Reconnect, ClearTransport
<1>3. events' = [i \in 1 .. Len(events) |-> Marked(events[i])]
  BY DEF Reconnect, Marked
<1>4. /\ AtHand \subseteq LateTasks
      /\ \A q \in AtHand : Head(q).kind # "opus" => Head(q) \in Own
  BY <1>1, AtHandTyped
<1>5. TasksTyped'
  <2>1. events' \in Seq(QueuedEvents)
    <3>1. \A i \in 1 .. Len(events) : Marked(events[i]) \in QueuedEvents
      BY <1>1, MarkedTyped DEF TasksTyped
    <3> QED
      BY <1>1, <1>3, <3>1 DEF TasksTyped
  <2>2. udp' \in UdpStates /\ udp'.pc = "idle"
    BY <1>2 DEF UdpStates, NoPacket
  <2>3. astray' \subseteq Ssrcs
    BY <1>2 DEF Leftover
  <2> QED
    BY <1>1, <1>2, <1>4, <2>1, <2>2, <2>3 DEF TasksTyped, Owners
<1>6. Own' = {} /\ Unreported' \subseteq Own
  BY <1>2, <1>4 DEF Own, Unreported, NoPacket
<1>7. UdpKnows'
  BY <1>2 DEF UdpKnows, NoPacket
<1>8. ASSUME NEW s \in Ssrcs PROVE Follows(s)'
  <2>1. PICK g \in Paths : Path(s, g)
    BY <1>1 DEF Follows
  <2>2. PICK h \in Paths' :
          /\ Path(s, h)'
          /\ (\A i \in 1 .. Len(events) : ~(events[i].kind = "ssrc" /\ events[i].ssrc = s))
               => h[Len(events')] = NoUser
    BY <1>1, <1>2, <1>3, <2>1, PathRestarts
  <2>3. PICK w : w = h[Len(events')]
    OBVIOUS
  <2>4. ASSUME s \notin astray' PROVE Leads(s, w)'
    <3>1. /\ \A i \in 1 .. Len(events) : ~(events[i].kind = "ssrc" /\ events[i].ssrc = s)
          /\ \A m \in Own : ~(m.kind = "ssrc" /\ m.ssrc = s)
      BY <1>2, <2>4 DEF Leftover
    <3>2. w = NoUser /\ tmap'[s] = NoUser
      BY <1>2, <2>2, <2>3, <3>1
    <3>3. \A m \in Own : After(s, NoUser, m) = NoUser
      BY <3>1 DEF After
    <3> QED
      BY <1>6, <3>2, <3>3 DEF Leads, LeadsTo
  <2> QED
    BY <2>2, <2>3, <2>4 DEF Follows
<1> QED
  BY <1>5, <1>7, <1>8 DEF TasksInv

LEMMA TasksStep == TasksInv /\ [NextAll]_allVars => TasksInv'
<1> SUFFICES ASSUME TasksInv, [NextAll]_allVars PROVE TasksInv'
  OBVIOUS
<1>1. ASSUME NEW s \in Ssrcs, NEW u \in Users, StartsToSend(s, u) PROVE TasksInv'
  <2>1. PICK m : m = Speaking(s, u)
    OBVIOUS
  <2>2. m \in Announcements /\ Change(m)
    BY <1>1, <2>1 DEF StartsToSend, Speaking, Announcements
  <2>3. senders' \in [Ssrcs -> SUBSET Users]
    BY <1>1 DEF StartsToSend, TasksInv, TasksTyped
  <2> QED
    BY <2>2, <2>3, ChangeKeeps
<1>2. ASSUME NEW u \in Users, Leaves(u) PROVE TasksInv'
  <2>1. PICK m : m = Gone(u)
    OBVIOUS
  <2>2. m \in Announcements /\ Change(m)
    BY <1>2, <2>1 DEF Leaves, Gone, Announcements
  <2>3. senders' \in [Ssrcs -> SUBSET Users]
    BY <1>2 DEF Leaves, TasksInv, TasksTyped
  <2> QED
    BY <2>2, <2>3, ChangeKeeps
<1>3. CASE UNCHANGED allVars
  <2>1. /\ UNCHANGED <<events, ssrcMap, senders, gateway, tmap, reader, udp, late, astray>>
    BY <1>3 DEF allVars, taskVars, vars, transport
  <2>2. Own' = Own /\ Unreported' = Unreported /\ Others' = Others
    BY <2>1 DEF Own, Unreported, Others
  <2>3. TasksTyped' /\ UdpKnows'
    BY <2>1, <2>2 DEF TasksInv, TasksTyped, UdpKnows
  <2>4. ASSUME NEW s \in Ssrcs PROVE Follows(s)'
    <3>1. \A w \in Owners : Leads(s, w) => Leads(s, w)'
      BY <2>1, <2>2, FewerOwed
    <3>2. TasksTyped /\ Follows(s)
      BY DEF TasksInv
    <3> QED
      BY <2>1, <3>1, <3>2, QueueKept
  <2> QED
    BY <2>3, <2>4 DEF TasksInv
<1> QED
  BY <1>1, <1>2, <1>3, ReadTaskKeeps, ReaderSendsKeeps, UdpReceiveKeeps, UdpDecryptKeeps,
     UdpSendsUpdateKeeps, UdpSendsOpusKeeps, MainHandlesEventKeeps, ReconnectKeeps,
     LateSendKeeps, LateStopsKeeps DEF NextAll

LEMMA TasksAlways == SpecAll => []TasksInv
BY TasksInit, TasksStep, PTL DEF SpecAll

\* The two SSRC maps agree whenever nothing is queued and neither task owes a
\* report, for every capacity of the queue and every number of users and SSRCs.  The
\* invariant walks the queue: the owner the main loop comes to at its end is the
\* transport's, or one unreported change away from it, and no unreported change, the
\* former transport's late ones included, leads away.
THEOREM MapsAgreeSound == SpecAll => []MapsAgree
<1>1. TasksInv => MapsAgree
  <2> SUFFICES ASSUME TasksInv, events = <<>>, reader = Idle, udp.pc # "update",
                      NEW s \in Ssrcs, s \notin astray
               PROVE  tmap[s] = ssrcMap[s]
    BY DEF MapsAgree
  <2>1. PICK g \in Paths : Path(s, g) /\ Leads(s, g[Len(events)])
    BY DEF TasksInv, Follows
  <2>2. Len(events) = 0 /\ g[0] = ssrcMap[s]
    BY <2>1 DEF Path
  <2>3. Own = {}
    BY DEF Own
  <2> QED
    BY <2>1, <2>2, <2>3 DEF Leads, LeadsTo
<1> QED
  BY <1>1, TasksAlways, PTL

\* Audio that no change of its SSRC overtook goes to the user whose key opened it,
\* whatever is queued ahead of it.
THEOREM AttributedSound == SpecAll => []Attributed
<1>1. TasksInv => Attributed
  <2> SUFFICES ASSUME TasksInv, events # <<>>, Head(events).kind = "opus", Head(events).clean
               PROVE  \/ ssrcMap[Head(events).ssrc] = Head(events).voice
                      \/ Head(events).old /\ ssrcMap[Head(events).ssrc] = NoUser
    BY DEF Attributed
  <2>1. PICK e : e = Head(events)
    OBVIOUS
  <2>2. e \in QueuedEvents /\ e = events[1] /\ Len(events) \in Nat \ {0}
    BY <2>1 DEF TasksInv, TasksTyped
  <2>3. PICK s : s = e.ssrc
    OBVIOUS
  <2>4. s \in Ssrcs
    BY <2>1, <2>2, <2>3, AnnouncementKinds DEF QueuedEvents, OpusEvents
  <2>5. PICK g \in Paths : Path(s, g)
    BY <2>4 DEF TasksInv, Follows
  <2>6. /\ g[0] = ssrcMap[s] /\ g[1] = After(s, g[0], e)
        /\ e.kind = "opus" => (e.ssrc = s /\ e.clean => Right(g[1], e))
    <3>1. 1 \in 1 .. Len(events) /\ 1 - 1 = 0
      BY <2>2
    <3> QED
      BY <2>2, <2>5, <3>1 DEF Path
  <2>7. g[1] = ssrcMap[s]
    BY <2>1, <2>6 DEF After
  <2> QED
    BY <2>1, <2>3, <2>6, <2>7 DEF Right
<1> QED
  BY <1>1, TasksAlways, PTL

\* Driven by the two tasks, the main loop only does what Capture says: what is proved
\* of Capture holds of the composition.
THEOREM TasksDriveCapture == SpecAll => Spec
<1>1. InitAll => Init
  BY DEF InitAll
<1>2. TasksInv /\ [NextAll]_allVars => [Next]_vars
  <2> SUFFICES ASSUME TasksInv, [NextAll]_allVars PROVE [Next]_vars
    OBVIOUS
  <2>1. CASE MainHandlesEvent
    <3>1. PICK e : e = Head(events)
      OBVIOUS
    <3>2. e \in QueuedEvents /\ Handle(e)
      BY <2>1, <3>1 DEF MainHandlesEvent, TasksInv, TasksTyped
    <3>3. /\ e.kind = "ssrc" => e.ssrc \in Ssrcs /\ e.user \in Users
          /\ e.kind = "gone" => e.user \in Users
          /\ e.kind = "opus" => e.ssrc \in Ssrcs /\ e.index \in 0 .. MaxIndex
      BY <3>2 DEF QueuedEvents, Announcements, OpusEvents
    <3> QED
      BY <3>2, <3>3 DEF Handle, Next
  <2>2. CASE Reconnect
    BY <2>2 DEF Reconnect, Next
  <2>3. CASE ~MainHandlesEvent /\ ~Reconnect
    BY <2>3 DEF NextAll, allVars, StartsToSend, Leaves, Change, ReadTask, ReaderSends,
       UdpReceive, UdpDecrypt, UdpSendsUpdate, UdpSendsOpus, LateSend, LateStops
  <2> QED
    BY <2>1, <2>2, <2>3
<1> QED
  BY <1>1, <1>2, TasksAlways, PTL DEF SpecAll, Spec

\* So the parent is told of every stream, no decoder outlives its mapping, no packet
\* is decoded twice or after a later one, and none is ahead of its time, however the
\* two tasks interleave.
THEOREM ComposedSound ==
  SpecAll => /\ [](ParentInformed /\ DecoderOfOneUser /\ TimelineNotAhead)
             /\ FedInOrder /\ FreshSpeaks
<1>1. Spec => [](ParentInformed /\ DecoderOfOneUser /\ TimelineNotAhead)
  BY ReportsSound, DecoderSound, TimelineSound, PTL
<1> QED
  BY <1>1, TasksDriveCapture, OrderSound, FreshSound

=============================================================================
