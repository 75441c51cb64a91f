------------------------ MODULE DepacketizerProofs ------------------------
(***************************************************************************)
(* Proofs about Depacketizer for every set of well-formed streams, every   *)
(* width of the sequence number, every size limit, and whatever is lost,   *)
(* repeated or late.                                                       *)
(***************************************************************************)
EXTENDS Depacketizer, SequenceTheorems, FiniteSetTheorems, TLAPS

-----------------------------------------------------------------------------
(* Streams and sequence numbers.                                             *)

Packet(n) == stream.packets[n]

Kinds == H264Kinds \cup Vp8Kinds

\* What a stream consists of.
LEMMA StreamTyped ==
  ASSUME stream \in Streams
  PROVE  /\ Len(stream.packets) \in Nat /\ Len(stream.packets) < SeqMod
         /\ Packets = 1 .. Len(stream.packets)
         /\ \A n \in Packets : /\ Packet(n).frame \in Nat \ {0} /\ Packet(n).kind \in Kinds
                               /\ Packet(n).idr \in BOOLEAN /\ Packet(n).marker \in BOOLEAN
         /\ WellFormed(stream.packets)
<1>0. PICK K \in SUBSET Kinds :
        stream.packets \in Seq([frame : Nat \ {0}, idr : BOOLEAN, marker : BOOLEAN, kind : K])
  BY StreamAssumption DEF Kinds
<1>1. PICK S : /\ stream.packets \in Seq(S)
               /\ S = [frame : Nat \ {0}, idr : BOOLEAN, marker : BOOLEAN, kind : K]
  BY <1>0
<1>2. PICK p \in Seq(S) : p = stream.packets
  BY <1>1
<1>3. Len(p) \in Nat /\ DOMAIN p = 1 .. Len(p)
  BY LenProperties
<1>4. \A n \in 1 .. Len(p) : p[n] \in S
  BY <1>2, ElementOfSeq
<1>5. /\ Len(stream.packets) \in Nat /\ Packets = 1 .. Len(stream.packets)
      /\ \A n \in Packets : Packet(n) \in S
  BY <1>2, <1>3, <1>4 DEF Packets, Packet
<1> QED
  BY <1>1, <1>5, StreamAssumption, BoundAssumption

\* A frame's packets lie between its first and its last.
LEMMA FrameIsInterval ==
  ASSUME stream \in Streams, NEW n \in Packets
  PROVE  \E a, b \in Packets :
           /\ a <= n /\ n <= b
           /\ PacketsOf(Packet(n).frame) = a .. b
           /\ Packet(n).kind = "start" => n = a
           /\ Packet(n).marker => n = b
           /\ Packet(n).kind \in Fragments
                => n > a /\ Packet(n - 1).kind \in Unfinished /\ ~Packet(n).idr
<1>1. PICK a, b \in Packets :
        /\ {j \in Packets : Packet(j).frame = Packet(n).frame} = a .. b
        /\ Packet(n).kind = "start" => n = a
        /\ Packet(n).marker => n = b
        /\ Packet(n).kind \in Fragments
             => n > a /\ Packet(n - 1).kind \in Unfinished /\ ~Packet(n).idr
  BY StreamTyped DEF WellFormed, Packets, Packet
<1>2. PacketsOf(Packet(n).frame) = a .. b
  BY <1>1 DEF PacketsOf, Packet
<1>3. n \in a .. b
  BY <1>1
<1>4. a \in Int /\ b \in Int
  BY StreamTyped
<1> QED
  BY <1>1, <1>2, <1>3, <1>4

\* A fragment has a packet before it that is of its frame and may be continued.
LEMMA FragmentContinues ==
  ASSUME stream \in Streams, NEW n \in Packets, Packet(n).kind \in Fragments
  PROVE  /\ n - 1 \in Packets /\ Packet(n - 1).frame = Packet(n).frame
         /\ Packet(n - 1).kind \in Unfinished /\ ~Packet(n).idr
<1>1. PICK a, b \in Packets :
        /\ a <= n /\ n <= b /\ PacketsOf(Packet(n).frame) = a .. b
        /\ n > a /\ Packet(n - 1).kind \in Unfinished /\ ~Packet(n).idr
  BY FrameIsInterval
<1>2. a \in Int /\ b \in Int /\ n \in Int
  BY StreamTyped
<1>3. n - 1 \in a .. b
  BY <1>1, <1>2
<1> QED
  BY <1>1, <1>3 DEF PacketsOf, Packet

\* A multiple of the modulus that is smaller than it is zero.
LEMMA SmallMultiple ==
  ASSUME NEW k \in Int, k * SeqMod < SeqMod, k * SeqMod > -SeqMod
  PROVE  k = 0
<1>1. SeqMod \in Nat \ {0}
  BY BoundAssumption
<1>2. k >= 1 => k * SeqMod >= SeqMod
  BY <1>1
<1>3. k <= -1 => k * SeqMod <= -SeqMod
  BY <1>1
<1> QED
  BY <1>1, <1>2, <1>3

LEMMA Division ==
  ASSUME NEW x \in Int
  PROVE  \E q \in Int, r \in 0 .. SeqMod - 1 : x % SeqMod = r /\ x = q * SeqMod + r
<1>0. SeqMod \in Nat \ {0}
  BY BoundAssumption
<1>1. x \div SeqMod \in Int /\ (x % SeqMod) \in 0 .. SeqMod - 1
  BY <1>0
<1>2. x = SeqMod * (x \div SeqMod) + (x % SeqMod)
  BY <1>0
<1> DEFINE q == x \div SeqMod
           r == x % SeqMod
<1>3. q \in Int /\ r \in 0 .. SeqMod - 1 /\ x % SeqMod = r /\ x = q * SeqMod + r
  BY <1>0, <1>1, <1>2
<1> HIDE DEF q, r
<1> QED
  BY <1>3, Zenon

\* Within one stream sequence numbers tell packets apart, and the next one follows.
LEMMA SeqOfTellsApart ==
  ASSUME NEW n \in 0 .. SeqMod - 1, NEW m \in 0 .. SeqMod - 1
  PROVE  /\ SeqOf(n) \in 0 .. SeqMod - 1
         /\ SeqOf(n) = SeqOf(m) => n = m
         /\ SeqOf(n) = (SeqOf(m) + 1) % SeqMod /\ n >= 1 => n = m + 1
         /\ n = m + 1 => SeqOf(n) = (SeqOf(m) + 1) % SeqMod
<1>0. SeqMod \in Nat \ {0} /\ FirstSeq \in Nat
  BY BoundAssumption
<1>1. ASSUME NEW x \in 0 .. SeqMod, NEW y \in 0 .. SeqMod, x - y < SeqMod, y - x < SeqMod,
             SeqOf(x) = SeqOf(y)
      PROVE  x = y
  <2>1. PICK q \in Int, r \in 0 .. SeqMod - 1 :
          (FirstSeq + x) % SeqMod = r /\ FirstSeq + x = q * SeqMod + r
    <3>1. FirstSeq + x \in Int
      BY <1>0
    <3> QED
      BY <3>1, Division, Zenon
  <2>2. PICK p \in Int, t \in 0 .. SeqMod - 1 :
          (FirstSeq + y) % SeqMod = t /\ FirstSeq + y = p * SeqMod + t
    <3>1. FirstSeq + y \in Int
      BY <1>0
    <3> QED
      BY <3>1, Division, Zenon
  <2>3. r = t
    BY <1>1, <2>1, <2>2 DEF SeqOf
  <2>4. (q - p) * SeqMod = q * SeqMod - p * SeqMod
    BY <1>0
  <2>5. (q - p) * SeqMod = x - y
    BY <1>0, <2>1, <2>2, <2>3, <2>4
  <2>6. q - p = 0
    BY <1>0, <1>1, <2>5, SmallMultiple
  <2> QED
    BY <1>0, <2>5, <2>6
<1>2. SeqOf(n) \in 0 .. SeqMod - 1
  BY <1>0 DEF SeqOf
<1>3. (SeqOf(m) + 1) % SeqMod = SeqOf(m + 1)
  <2>1. PICK q \in Int, r \in 0 .. SeqMod - 1 :
          (FirstSeq + m) % SeqMod = r /\ FirstSeq + m = q * SeqMod + r
    <3>1. FirstSeq + m \in Int
      BY <1>0
    <3> QED
      BY <3>1, Division, Zenon
  <2>2. PICK p \in Int, t \in 0 .. SeqMod - 1 :
          (r + 1) % SeqMod = t /\ r + 1 = p * SeqMod + t
    <3>1. r + 1 \in Int
      BY <1>0
    <3> QED
      BY <3>1, Division, Zenon
  <2>3. PICK k \in Int, v \in 0 .. SeqMod - 1 :
          (FirstSeq + (m + 1)) % SeqMod = v /\ FirstSeq + (m + 1) = k * SeqMod + v
    <3>1. FirstSeq + (m + 1) \in Int
      BY <1>0
    <3> QED
      BY <3>1, Division, Zenon
  <2>4. (k - q - p) * SeqMod = k * SeqMod - q * SeqMod - p * SeqMod
    BY <1>0
  <2>5. (k - q - p) * SeqMod = t - v
    BY <1>0, <2>1, <2>2, <2>3, <2>4
  <2>6. k - q - p = 0
    BY <1>0, <2>5, SmallMultiple
  <2>7. t = v
    BY <1>0, <2>5, <2>6
  <2> QED
    BY <2>1, <2>2, <2>3, <2>7 DEF SeqOf
<1> QED
  BY <1>0, <1>1, <1>2, <1>3

-----------------------------------------------------------------------------
(* The partial frame.                                                        *)

Units == [frame : Nat, buffer : Seq(Packets), key : BOOLEAN, open : BOOLEAN]

\* A partial frame that is not empty is an unbroken run of packets of its frame up
\* to packet n; it begins where a NAL unit or partition does, may be continued if
\* its last packet may, and is a key frame if it holds an IDR packet.
Run(u, n) ==
  LET b == u.buffer
      k == Len(b)
  IN  /\ b # <<>> /\ k <= MaxUnit /\ b[k] = n
      /\ \A i \in 1 .. k : b[i] = b[1] + i - 1 /\ Packet(b[i]).frame = u.frame
      /\ Packet(b[1]).kind \notin Fragments
      /\ Packet(n).kind \in Unfinished => u.open
      /\ u.key = HasIdr(b)

\* Packet a is the first of its frame, and the frame goes on at least to m.
BeginsFrameOf(a, m) ==
  \A j \in Packets : j <= m => (Packet(j).frame = Packet(m).frame <=> a <= j)

\* A frame that arrived without a gap so far, up to packet m, is all in the buffer.
HasWhole(m) ==
  \A a \in 1 .. m :
    BeginsFrameOf(a, m) /\ m - a < intact /\ m - a < MaxUnit /\ ~Packet(m).marker
      => unit.buffer # <<>> /\ unit.buffer[1] = a

\* What is true between two packets, of which m was the last.
Received(m) ==
  /\ lastSeq = SeqOf(m) /\ intact \in 1 .. m
  /\ unit.buffer # <<>> => Run(unit, m)
  /\ HasWhole(m)

Typed ==
  /\ stream \in Streams /\ newest \in {0} \cup Packets
  /\ unit \in Units /\ unit.frame \in {NoFrame} \cup Frames
  /\ unit.buffer = <<>> => ~unit.open /\ ~unit.key
  /\ out = <<>> \/ out.key \in BOOLEAN

IInv ==
  /\ Typed
  /\ \/ lastSeq = None /\ intact = 0 /\ unit = Cleared
     \/ \E m \in Packets : Received(m)

LEMMA RunNonempty ==
  ASSUME NEW u \in Units, NEW n, Run(u, n)
  PROVE  Len(u.buffer) \in Nat \ {0}
<1>1. PICK b \in Seq(Packets) : b = u.buffer
  BY DEF Units
<1> QED
  BY <1>1, EmptySeq, LenProperties DEF Run

LEMMA InitIInv == Init => IInv
<1> SUFFICES ASSUME Init PROVE IInv
  OBVIOUS
<1>1. <<>> \in Seq(Packets)
  BY EmptySeq
<1>2. Cleared \in Units /\ Cleared.buffer = <<>> /\ Cleared.frame = NoFrame
      /\ ~Cleared.open /\ ~Cleared.key
  BY <1>1 DEF Cleared, Units, NoFrame
<1> QED
  BY <1>2 DEF Init, IInv, Typed

\* What the partial frame is when packet n is looked at: nothing, or the run up to
\* the packet before it.
LEMMA PreparedIsRun ==
  ASSUME IInv, NEW n \in Packets, NEW u, u = Prepared(AfterGap(n), Packet(n))
  PROVE  /\ u \in Units /\ u.frame = Packet(n).frame
         /\ u.buffer = <<>> => ~u.open /\ ~u.key
         /\ u.buffer # <<>> => u = unit /\ n - 1 \in Packets /\ Run(u, n - 1) /\ lastSeq = SeqOf(n - 1)
<1>1. /\ stream \in Streams /\ unit \in Units /\ (unit.buffer = <<>> => ~unit.open /\ ~unit.key)
  BY DEF IInv, Typed
<1>2. /\ Packet(n).frame \in Nat \ {0} /\ Packets = 1 .. Len(stream.packets)
      /\ Len(stream.packets) \in Nat /\ Len(stream.packets) < SeqMod
  BY <1>1, StreamTyped
<1>3. <<>> \in Seq(Packets)
  BY EmptySeq
<1>4. Cleared \in Units /\ Cleared.buffer = <<>> /\ Cleared.frame = 0 /\ ~Cleared.open /\ ~Cleared.key
  BY <1>3 DEF Cleared, Units, NoFrame
<1>5. \/ u = [Cleared EXCEPT !.frame = Packet(n).frame]
      \/ ~OutOfOrder(n) /\ u = unit /\ unit.frame = Packet(n).frame
  BY <1>2, <1>4 DEF Prepared, AfterGap
<1>6. CASE u = [Cleared EXCEPT !.frame = Packet(n).frame]
  <2>1. u = [frame |-> Packet(n).frame, buffer |-> <<>>, key |-> FALSE, open |-> FALSE]
    BY <1>6 DEF Cleared
  <2> QED
    BY <1>2, <1>3, <2>1 DEF Units
<1>7. CASE ~OutOfOrder(n) /\ u = unit /\ unit.frame = Packet(n).frame
  <2>1. ASSUME u.buffer # <<>> PROVE n - 1 \in Packets /\ Run(u, n - 1) /\ lastSeq = SeqOf(n - 1)
    <3>1. unit # Cleared
      BY <1>4, <1>7, <2>1
    <3>2. PICK m \in Packets : Received(m)
      BY <3>1 DEF IInv
    <3>3. Run(u, m) /\ lastSeq = SeqOf(m)
      BY <1>7, <2>1, <3>2 DEF Received
    <3>4. m \in 0 .. SeqMod - 1 /\ n \in 0 .. SeqMod - 1 /\ SeqMod \in Nat /\ FirstSeq \in Nat
      BY <1>2, BoundAssumption
    <3>5. lastSeq # None
      BY <3>3, <3>4, SeqOfTellsApart DEF None
    <3>6. SeqOf(n) = (SeqOf(m) + 1) % SeqMod
      BY <1>7, <3>3, <3>5 DEF OutOfOrder
    <3>7. n = m + 1
      BY <1>2, <3>4, <3>6, SeqOfTellsApart
    <3>8. m = n - 1
      BY <1>2, <3>7
    <3> QED
      BY <3>3, <3>8
  <2> QED
    BY <1>1, <1>7, <2>1
<1> QED
  BY <1>5, <1>6, <1>7

\* Only the fragments of a frame whose beginning is lost are ignored.
LEMMA IgnoredIsTail ==
  ASSUME IInv, NEW n \in Packets, NEW u, u = Prepared(AfterGap(n), Packet(n)),
         Ignored(u, Packet(n))
  PROVE  u.buffer = <<>> /\ Packet(n).kind \in Fragments
<1>1. Packet(n).kind \in Fragments
  BY DEF Ignored, Fragments
<1>2. stream \in Streams
  BY DEF IInv, Typed
<1>3. ASSUME u.buffer # <<>> PROVE FALSE
  <2>1. Run(u, n - 1)
    BY <1>3, PreparedIsRun
  <2>2. Packet(n - 1).kind \in Unfinished
    BY <1>1, <1>2, FragmentContinues
  <2> QED
    BY <1>3, <2>1, <2>2 DEF Run, Ignored
<1> QED
  BY <1>1, <1>3

\* A packet that is kept makes the run one longer.
LEMMA ExtendedIsRun ==
  ASSUME IInv, NEW n \in Packets, NEW u, u = Prepared(AfterGap(n), Packet(n)),
         ~Ignored(u, Packet(n)), HasRoom(u), NEW e, e = Extended(u, Packet(n), n)
  PROVE  /\ e \in Units /\ e.frame = Packet(n).frame /\ Run(e, n)
         /\ Len(e.buffer) = Len(u.buffer) + 1
         /\ e.buffer[1] = IF u.buffer = <<>> THEN n ELSE u.buffer[1]
<1> DEFINE p == Packet(n)
<1>1. /\ u \in Units /\ u.frame = p.frame
      /\ u.buffer = <<>> => ~u.open /\ ~u.key
      /\ u.buffer # <<>> => n - 1 \in Packets /\ Run(u, n - 1)
  BY PreparedIsRun
<1>2. stream \in Streams
  BY DEF IInv, Typed
<1>3. /\ p.frame \in Nat \ {0} /\ p.kind \in Kinds /\ p.idr \in BOOLEAN
      /\ Packets = 1 .. Len(stream.packets) /\ Len(stream.packets) \in Nat
  BY <1>2, StreamTyped
<1>4. PICK b \in Seq(Packets) : b = u.buffer
  BY <1>1 DEF Units
<1>5. PICK c : c = Append(b, n)
  OBVIOUS
<1>6. PICK k \in Nat : k = Len(b)
  BY <1>4, LenProperties
<1>7. /\ c \in Seq(Packets) /\ Len(c) = k + 1 /\ c[k + 1] = n
      /\ \A i \in 1 .. k : c[i] = b[i]
  BY <1>4, <1>5, <1>6, AppendProperties
<1>8. e = [frame |-> p.frame, buffer |-> c, key |-> (u.key \/ p.idr), open |-> OpenAfter(u, p)]
  BY <1>1, <1>4, <1>5 DEF Extended, Units
<1>9. OpenAfter(u, p) \in BOOLEAN
  BY <1>1, <1>3 DEF OpenAfter, Kinds, H264Kinds, Vp8Kinds, Units
<1>10. e \in Units
  BY <1>1, <1>3, <1>7, <1>8, <1>9 DEF Units
<1>11. k <= MaxUnit - 1 /\ MaxUnit \in Nat \ {0}
  BY <1>4, <1>6, BoundAssumption DEF HasRoom
<1>12. p.kind \in Fragments => u.buffer # <<>> /\ u.open
  <2>1. SUFFICES ASSUME p.kind \in Fragments PROVE u.buffer # <<>> /\ u.open
    OBVIOUS
  <2>2. u.buffer # <<>>
    BY <1>1, <2>1 DEF Ignored, Fragments
  <2>3. Packet(n - 1).kind \in Unfinished
    BY <1>2, <2>1, FragmentContinues
  <2> QED
    BY <1>1, <2>2, <2>3 DEF Run
<1>13. p.kind \in Unfinished => OpenAfter(u, p)
  BY <1>12 DEF OpenAfter, Unfinished, Fragments
<1>14. b = <<>> <=> k = 0
  BY <1>4, <1>6, EmptySeq
<1>15. b # <<>> => /\ b[k] = n - 1 /\ Packet(b[1]).kind \notin Fragments /\ u.key = HasIdr(b)
                   /\ \A i \in 1 .. k : b[i] = b[1] + i - 1 /\ Packet(b[i]).frame = p.frame
  BY <1>1, <1>4, <1>6 DEF Run
<1>16. c[1] = IF b = <<>> THEN n ELSE b[1]
  BY <1>6, <1>7, <1>14
<1>17. \A i \in 1 .. k + 1 : c[i] = c[1] + i - 1 /\ Packet(c[i]).frame = p.frame
  <2>1. CASE b = <<>>
    BY <1>3, <1>7, <1>14, <1>16, <2>1
  <2>2. CASE b # <<>>
    <3>1. k \in 1 .. k /\ b[1] \in Int
      BY <1>3, <1>4, <1>6, <1>14, <2>2, ElementOfSeq
    <3>2. n - 1 = b[1] + k - 1
      BY <1>15, <2>2, <3>1
    <3>3. ASSUME NEW i \in 1 .. k PROVE c[i] = c[1] + i - 1 /\ Packet(c[i]).frame = p.frame
      BY <1>7, <1>15, <1>16, <2>2
    <3>4. c[k + 1] = c[1] + (k + 1) - 1 /\ Packet(c[k + 1]).frame = p.frame
      <4>1. PICK x \in Int : x = b[1]
        BY <3>1
      <4>2. c[1] = x /\ c[k + 1] = n /\ n - 1 = x + k - 1 /\ n \in Int
        BY <1>3, <1>7, <1>16, <2>2, <3>2, <4>1
      <4> QED
        BY <1>6, <4>2
    <3> QED
      BY <1>6, <3>3, <3>4
  <2> QED
    BY <2>1, <2>2
<1>18. Packet(c[1]).kind \notin Fragments
  BY <1>4, <1>12, <1>15, <1>16
<1>19. (u.key \/ p.idr) = HasIdr(c)
  <2>1. DOMAIN b = 1 .. k /\ DOMAIN c = 1 .. k + 1
    BY <1>4, <1>6, <1>7, LenProperties
  <2>2. HasIdr(b) <=> \E i \in 1 .. k : Packet(b[i]).idr
    BY <2>1, Zenon DEF HasIdr, Packet
  <2>3. HasIdr(c) <=> \E i \in 1 .. k + 1 : Packet(c[i]).idr
    BY <2>1, Zenon DEF HasIdr, Packet
  <2>4. HasIdr(c) <=> HasIdr(b) \/ p.idr
    BY <1>6, <1>7, <2>2, <2>3
  <2>5. u.key <=> HasIdr(b)
    BY <1>1, <1>4, <1>6, <1>14, <1>15, <2>2 DEF Units
  <2>6. HasIdr(c) \in BOOLEAN /\ u.key \in BOOLEAN
    BY <1>1 DEF HasIdr, Units
  <2> QED
    BY <1>3, <2>4, <2>5, <2>6
<1>20. c # <<>>
  BY <1>6, <1>7, EmptySeq
<1>21. Run(e, n)
  BY <1>7, <1>8, <1>11, <1>13, <1>17, <1>18, <1>19, <1>20 DEF Run
<1> QED
  BY <1>4, <1>6, <1>7, <1>8, <1>10, <1>16, <1>21

\* A frame that arrived without a gap up to packet n, and is not too large, is kept
\* and is in the buffer from its first packet on.
LEMMA WholeIsKept ==
  ASSUME IInv, NEW n \in Packets, Receive(n),
         NEW u, u = Prepared(AfterGap(n), Packet(n)), NEW e, e = Extended(u, Packet(n), n),
         NEW a \in 1 .. n, BeginsFrameOf(a, n), n - a < intact', n - a < MaxUnit
  PROVE  ~Ignored(u, Packet(n)) /\ HasRoom(u) /\ e.buffer[1] = a
<1>1. stream \in Streams /\ intact' = IF lastSeq = SeqOf(n - 1) THEN intact + 1 ELSE 1
  BY DEF IInv, Typed, Receive
<1>2. /\ Packets = 1 .. Len(stream.packets) /\ Len(stream.packets) \in Nat
      /\ Len(stream.packets) < SeqMod
      /\ SeqMod \in Nat \ {0} /\ MaxUnit \in Nat \ {0}
  BY <1>1, StreamTyped, BoundAssumption
<1>3. /\ u \in Units /\ u.frame = Packet(n).frame
      /\ u.buffer # <<>> => n - 1 \in Packets /\ Run(u, n - 1)
  BY PreparedIsRun
<1>4. PICK b \in Seq(Packets) : b = u.buffer
  BY <1>3 DEF Units
<1>5. PICK k \in Nat : k = Len(b) /\ (b = <<>> <=> k = 0)
  BY <1>4, EmptySeq, LenProperties
<1>6. ~Ignored(u, Packet(n)) /\ HasRoom(u) => e.buffer[1] = IF b = <<>> THEN n ELSE b[1]
  BY <1>4, ExtendedIsRun
<1>7. b # <<>> => /\ Packet(n - 1).frame = Packet(n).frame
                  /\ n - 1 = b[1] + k - 1
  <2>1. SUFFICES ASSUME b # <<>>
                 PROVE  Packet(n - 1).frame = Packet(n).frame /\ n - 1 = b[1] + k - 1
    OBVIOUS
  <2>2. k \in 1 .. k /\ b[k] = n - 1
    BY <1>3, <1>4, <1>5, <2>1 DEF Run
  <2> QED
    BY <1>3, <1>4, <1>5, <2>1, <2>2 DEF Run
<1>8. CASE a = n
  <2>1. n - 1 \in Packets => Packet(n - 1).frame # Packet(n).frame
    BY <1>2, <1>8 DEF BeginsFrameOf
  <2>2. b = <<>>
    BY <1>3, <1>4, <1>7, <2>1
  <2>3. Packet(n).kind \notin Fragments
    BY <1>1, <2>1, FragmentContinues
  <2>4. ~Ignored(u, Packet(n))
    BY <2>3, IgnoredIsTail
  <2> QED
    BY <1>2, <1>4, <1>5, <1>6, <1>8, <2>2, <2>4 DEF HasRoom
<1>9. CASE a # n
  <2>1. n - 1 \in 1 .. n /\ a <= n - 1 /\ n - 1 \in Packets
    BY <1>2, <1>9
  <2>2. lastSeq = SeqOf(n - 1) /\ n - 1 - a < intact
    <3>1. intact \in Nat
      BY <1>2 DEF IInv, Received
    <3> QED
      BY <1>1, <1>2, <2>1, <3>1
  <2>3. Received(n - 1)
    <3>0. n - 1 \in 0 .. SeqMod - 1
      BY <1>2, <2>1
    <3>1. SeqOf(n - 1) \in 0 .. SeqMod - 1
      BY <3>0, SeqOfTellsApart, Zenon
    <3>2. PICK m \in Packets : Received(m)
      BY <1>2, <2>2, <3>1 DEF IInv, None
    <3>3. m \in 0 .. SeqMod - 1 /\ SeqOf(n - 1) = SeqOf(m)
      BY <1>2, <2>2, <3>2 DEF Received
    <3>4. m = n - 1
      BY <3>0, <3>3, SeqOfTellsApart, Zenon
    <3> QED
      BY <3>2, <3>4
  <2>4. Packet(n - 1).frame = Packet(n).frame
    BY <1>2, <2>1 DEF BeginsFrameOf
  <2>5. BeginsFrameOf(a, n - 1)
    BY <1>2, <2>1, <2>4 DEF BeginsFrameOf
  <2>6. ~Packet(n - 1).marker
    <3>1. PICK c, d \in Packets :
            PacketsOf(Packet(n - 1).frame) = c .. d /\ (Packet(n - 1).marker => n - 1 = d)
      BY <1>1, <2>1, FrameIsInterval
    <3>2. n \in c .. d
      BY <2>4, <3>1 DEF PacketsOf, Packet
    <3> QED
      BY <1>2, <3>1, <3>2
  <2>7. a \in 1 .. n - 1 /\ n - 1 - a < MaxUnit
    BY <1>2, <2>1
  <2>8. unit.buffer # <<>> /\ unit.buffer[1] = a
    BY <2>2, <2>3, <2>5, <2>6, <2>7 DEF Received, HasWhole
  <2>9. Run(unit, n - 1) /\ unit \in Units
    BY <2>3, <2>8 DEF Received, IInv, Typed
  <2>10. unit.frame = Packet(n - 1).frame
    <3>1. Len(unit.buffer) \in 1 .. Len(unit.buffer)
      BY <2>9, RunNonempty
    <3> QED
      BY <2>9, <3>1 DEF Run
  <2>11. ~OutOfOrder(n)
    <3>1. n - 1 \in 0 .. SeqMod - 1 /\ n \in 0 .. SeqMod - 1 /\ n = (n - 1) + 1
      BY <1>2, <2>1
    <3>2. SeqOf(n) = (SeqOf(n - 1) + 1) % SeqMod
      BY <3>1, SeqOfTellsApart
    <3> QED
      BY <2>2, <3>2 DEF OutOfOrder
  <2>12. u = unit
    BY <2>4, <2>10, <2>11 DEF Prepared, AfterGap
  <2>13. ~Ignored(u, Packet(n))
    BY <2>8, <2>12, IgnoredIsTail
  <2>14. b # <<>> /\ b[1] = a
    BY <1>4, <2>8, <2>12
  <2>15. HasRoom(u)
    <3>1. k = n - a
      BY <1>2, <1>7, <2>14
    <3> QED
      BY <1>4, <1>5, <3>1 DEF HasRoom
  <2> QED
    BY <1>6, <2>13, <2>14, <2>15
<1> QED
  BY <1>8, <1>9

\* The outcomes of a packet: ignored, too large, kept, or the end of its frame.
LEMMA Outcomes ==
  ASSUME NEW n \in Packets, Receive(n),
         NEW u, u = Prepared(AfterGap(n), Packet(n)), NEW e, e = Extended(u, Packet(n), n)
  PROVE  \/ Ignored(u, Packet(n)) /\ unit' = u /\ out' = <<>>
         \/ ~HasRoom(u) /\ unit' = Cleared /\ out' = <<>>
         \/ /\ ~Ignored(u, Packet(n)) /\ HasRoom(u) /\ ~Packet(n).marker
            /\ unit' = e /\ out' = <<>>
         \/ /\ ~Ignored(u, Packet(n)) /\ HasRoom(u) /\ Packet(n).marker
            /\ unit' = Cleared /\ out' = [packets |-> e.buffer, key |-> e.key]
BY DEF Receive, Packet

\* The partial frame is a run again after the packet.
LEMMA UnitAfter ==
  ASSUME IInv, NEW n \in Packets, Receive(n)
  PROVE  /\ unit' \in Units /\ unit'.frame \in {NoFrame} \cup Frames
         /\ unit'.buffer = <<>> => ~unit'.open /\ ~unit'.key
         /\ unit'.buffer # <<>> => Run(unit, n)'
         /\ out' = <<>> \/ out'.key \in BOOLEAN
<1>1. PICK u : u = Prepared(AfterGap(n), Packet(n))
  OBVIOUS
<1>2. PICK e : e = Extended(u, Packet(n), n)
  OBVIOUS
<1>3. /\ u \in Units /\ u.frame = Packet(n).frame
      /\ u.buffer = <<>> => ~u.open /\ ~u.key
  BY <1>1, PreparedIsRun
<1>4. Packet(n).frame \in Frames /\ stream' = stream
  BY DEF Frames, Packet, Receive
<1>5. /\ Cleared \in Units /\ Cleared.buffer = <<>> /\ Cleared.frame = NoFrame
      /\ ~Cleared.open /\ ~Cleared.key
  BY EmptySeq DEF Cleared, Units, NoFrame
<1>6. CASE Ignored(u, Packet(n)) /\ unit' = u /\ out' = <<>>
  BY <1>1, <1>3, <1>4, <1>6, IgnoredIsTail
<1>7. CASE unit' = Cleared /\ out' = <<>>
  BY <1>5, <1>7
<1>8. CASE ~Ignored(u, Packet(n)) /\ HasRoom(u)
  <2>1. e \in Units /\ e.frame = Packet(n).frame /\ Run(e, n)
    BY <1>1, <1>2, <1>8, ExtendedIsRun
  <2>2. CASE unit' = e /\ out' = <<>>
    <3>1. Run(unit, n)'
      BY <1>4, <2>1, <2>2 DEF Run, Packet, HasIdr
    <3>2. e.buffer # <<>>
      BY <2>1 DEF Run
    <3> QED
      BY <1>4, <2>1, <2>2, <3>1, <3>2
  <2>3. CASE unit' = Cleared /\ out' = [packets |-> e.buffer, key |-> e.key]
    BY <1>5, <2>1, <2>3 DEF Units
  <2> QED
    BY <1>1, <1>2, <1>8, <2>2, <2>3, Outcomes
<1> QED
  BY <1>1, <1>2, <1>6, <1>7, <1>8, Outcomes

LEMMA ReceiveIInv == ASSUME IInv, NEW n \in Packets, Receive(n) PROVE IInv'
<1>1. /\ stream \in Streams /\ stream' = stream /\ lastSeq' = SeqOf(n)
      /\ newest' = (IF n > newest THEN n ELSE newest) /\ newest \in {0} \cup Packets
      /\ intact' = IF lastSeq = SeqOf(n - 1) THEN intact + 1 ELSE 1
  BY DEF IInv, Typed, Receive
<1>2. /\ Packets = 1 .. Len(stream.packets) /\ Len(stream.packets) \in Nat
      /\ Len(stream.packets) < SeqMod /\ SeqMod \in Nat \ {0}
      /\ Packet(n).marker \in BOOLEAN
  BY <1>1, StreamTyped, BoundAssumption
<1>3. Packets' = Packets /\ Frames' = Frames
  BY <1>1 DEF Packets, Frames
<1>4. Units' = Units
  BY <1>3 DEF Units
<1>5. Typed'
  BY <1>1, <1>3, <1>4, UnitAfter DEF Typed
<1>6. intact' \in 1 .. n
  <2>1. CASE lastSeq # SeqOf(n - 1)
    BY <1>1, <1>2, <2>1
  <2>2. CASE lastSeq = SeqOf(n - 1)
    <3>0. n - 1 \in 0 .. SeqMod - 1
      BY <1>2
    <3>1. SeqOf(n - 1) \in 0 .. SeqMod - 1
      BY <3>0, SeqOfTellsApart, Zenon
    <3>2. PICK m \in Packets : Received(m)
      BY <1>2, <2>2, <3>1 DEF IInv, None
    <3>3. m \in 0 .. SeqMod - 1 /\ SeqOf(n - 1) = SeqOf(m)
      BY <1>2, <2>2, <3>2 DEF Received
    <3>4. m = n - 1
      BY <3>0, <3>3, SeqOfTellsApart, Zenon
    <3> QED
      BY <1>1, <1>2, <2>2, <3>2, <3>4 DEF Received
  <2> QED
    BY <2>1, <2>2
<1>7. HasWhole(n)'
  <2>1. SUFFICES ASSUME NEW a \in 1 .. n, BeginsFrameOf(a, n)', n - a < intact',
                        n - a < MaxUnit, ~Packet(n)'.marker
                 PROVE  unit'.buffer # <<>> /\ unit'.buffer[1] = a
    BY DEF HasWhole
  <2>2. BeginsFrameOf(a, n) /\ ~Packet(n).marker
    BY <1>1, <1>3, <2>1 DEF BeginsFrameOf, Packet
  <2>3. PICK u : u = Prepared(AfterGap(n), Packet(n))
    OBVIOUS
  <2>4. PICK e : e = Extended(u, Packet(n), n)
    OBVIOUS
  <2>5. ~Ignored(u, Packet(n)) /\ HasRoom(u) /\ e.buffer[1] = a
    BY <2>1, <2>2, <2>3, <2>4, WholeIsKept
  <2>6. unit' = e
    BY <2>2, <2>3, <2>4, <2>5, Outcomes
  <2>7. e.buffer # <<>>
    BY <2>3, <2>4, <2>5, ExtendedIsRun DEF Run
  <2> QED
    BY <2>5, <2>6, <2>7
<1>8. Received(n)'
  BY <1>1, <1>6, <1>7, UnitAfter DEF Received, SeqOf
<1> QED
  BY <1>3, <1>5, <1>8 DEF IInv

LEMMA StutterIInv == ASSUME IInv, UNCHANGED vars PROVE IInv'
<1>1. UNCHANGED <<stream, newest, intact, lastSeq, unit, out>>
  BY DEF vars
<1>2. Packets' = Packets /\ Frames' = Frames
  BY <1>1 DEF Packets, Frames
<1>3. Typed'
  BY <1>1, <1>2 DEF IInv, Typed, Units
<1>4. \A m \in Packets : Received(m) => Received(m)'
  BY <1>1, <1>2 DEF Received, Run, HasWhole, BeginsFrameOf, Packet, HasIdr
<1> QED
  BY <1>1, <1>2, <1>3, <1>4 DEF IInv

LEMMA AlwaysIInv == Spec => []IInv
<1>1. IInv /\ [Next]_vars => IInv'
  BY ReceiveIInv, StutterIInv DEF Next
<1> QED
  BY <1>1, InitIInv, PTL DEF Spec

-----------------------------------------------------------------------------
(* What is emitted.                                                          *)

LEMMA MinOfInterval ==
  ASSUME NEW a \in Int, NEW b \in Int, a <= b
  PROVE  Min(a .. b) = a
BY DEF Min

\* Every variable keeps its type and the partial frame its bound of
\* MAX_VIDEO_FRAME_BYTES (h264.rs, vp8.rs).
THEOREM TypeCorrect == Spec => []TypeOK
<1>1. IInv => TypeOK
  <2> SUFFICES ASSUME IInv PROVE TypeOK
    OBVIOUS
  <2>1. /\ Packets = 1 .. Len(stream.packets) /\ Len(stream.packets) \in Nat
        /\ Len(stream.packets) < SeqMod /\ SeqMod \in Nat \ {0} /\ MaxUnit \in Nat \ {0}
    BY StreamTyped, BoundAssumption DEF IInv, Typed
  <2>2. CASE lastSeq = None /\ intact = 0 /\ unit = Cleared
    <3>1. Cleared.buffer = <<>> /\ Len(<<>>) = 0
      BY DEF Cleared
    <3> QED
      BY <2>1, <2>2, <3>1 DEF IInv, Typed, TypeOK, Units
  <2>3. ASSUME NEW m \in Packets, Received(m) PROVE TypeOK
    <3>1. m \in 0 .. SeqMod - 1 /\ intact \in 1 .. m /\ lastSeq = SeqOf(m)
      BY <2>1, <2>3 DEF Received
    <3>2. lastSeq \in 0 .. SeqMod - 1
      BY <3>1, SeqOfTellsApart
    <3>3. Len(unit.buffer) <= MaxUnit
      <4>1. CASE unit.buffer = <<>>
        BY <2>1, <4>1
      <4>2. CASE unit.buffer # <<>>
        BY <2>3, <4>2 DEF Received, Run
      <4> QED
        BY <4>1, <4>2
    <3> QED
      BY <2>1, <3>1, <3>2, <3>3 DEF IInv, Typed, TypeOK, Units
  <2> QED
    BY <2>2, <2>3 DEF IInv
<1> QED
  BY <1>1, AlwaysIInv, PTL

\* A run that ends with its frame's marker is fit to be emitted.
LEMMA RunIsFit ==
  ASSUME stream \in Streams, stream' = stream, NEW n \in Packets, Packet(n).marker,
         NEW e \in Units, Run(e, n), out' = [packets |-> e.buffer, key |-> e.key]
  PROVE  EmittedIsRun' /\ KeyIsOfThisFrame'
<1>1. PICK b \in Seq(Packets) : b = e.buffer
  BY DEF Units
<1>2. PICK k \in Nat \ {0} : k = Len(b)
  BY <1>1, RunNonempty
<1>3. /\ b[k] = n /\ Packet(b[1]).kind \notin Fragments
      /\ \A i \in 1 .. k : b[i] = b[1] + i - 1 /\ Packet(b[i]).frame = e.frame
      /\ e.key = HasIdr(b)
  BY <1>1, <1>2 DEF Run
<1>4. b[1] \in Packets /\ Packets \subseteq Int
  BY <1>1, <1>2, ElementOfSeq, StreamTyped
<1>5. out'.packets = b /\ out'.key = e.key
  BY <1>1
<1>6. \A i \in 1 .. k - 1 : b[i + 1] = b[i] + 1
  <2>1. SUFFICES ASSUME NEW i \in 1 .. k - 1 PROVE b[i + 1] = b[i] + 1
    OBVIOUS
  <2>2. PICK j \in 1 .. k : i \in 1 .. k /\ j = i + 1
    BY <1>2
  <2>3. b[i] = b[1] + i - 1 /\ b[j] = b[1] + j - 1
    BY <1>3, <2>2
  <2>4. PICK x \in Int : x = b[1]
    BY <1>4
  <2>5. b[j] = b[i] + 1
    BY <2>2, <2>3, <2>4
  <2> QED
    BY <2>2, <2>5
<1>7. Packet(b[1]).frame = Packet(b[k]).frame
  BY <1>2, <1>3
<1>8. Packet(b[1]).kind \in {"nal", "stap", "fuStart", "start"}
  <2>1. Packet(b[1]).kind \in Kinds
    BY <1>4, StreamTyped
  <2> QED
    BY <1>3, <2>1 DEF Kinds, H264Kinds, Vp8Kinds, Fragments
<1>9. ASSUME Packet(b[1]).kind = "start" PROVE b[1] = Min(PacketsOf(Packet(b[1]).frame))
  <2>0. PICK m \in Packets : m = b[1]
    BY <1>4
  <2>1. PICK c, d \in Packets : c <= m /\ m <= d /\ m = c
                                /\ PacketsOf(Packet(m).frame) = c .. d
    <3>1. Packet(m).kind = "start"
      BY <1>9, <2>0
    <3> QED
      BY <3>1, FrameIsInterval
  <2>2. c \in Int /\ d \in Int /\ c <= d
    BY <1>4, <2>1
  <2>3. Min(c .. d) = c
    BY <2>2, MinOfInterval
  <2> QED
    BY <2>0, <2>1, <2>3
<1>10. EmittedIsRun'
  <2>1. Len(out'.packets) = k /\ out'.packets[k] = n
    BY <1>2, <1>3, <1>5
  <2>2. stream'.packets[b[1]] = Packet(b[1]) /\ stream'.packets[n] = Packet(n)
    BY DEF Packet
  <2>3. \A f : PacketsOf(f)' = PacketsOf(f)
    BY DEF PacketsOf, Packets
  <2> QED
    BY <1>3, <1>5, <1>6, <1>7, <1>8, <1>9, <2>1, <2>2, <2>3 DEF EmittedIsRun
<1>11. KeyIsOfThisFrame'
  BY <1>3, <1>5 DEF KeyIsOfThisFrame, HasIdr
<1> QED
  BY <1>10, <1>11

LEMMA EmittedIsFit == Spec => [](EmittedIsRun /\ KeyIsOfThisFrame)
<1> DEFINE Fit == EmittedIsRun /\ KeyIsOfThisFrame
<1>1. Init => Fit
  BY DEF Init, EmittedIsRun, KeyIsOfThisFrame
<1>2. IInv /\ Fit /\ [Next]_vars => Fit'
  <2>1. ASSUME IInv, NEW n \in Packets, Receive(n) PROVE Fit'
    <3>1. PICK u : u = Prepared(AfterGap(n), Packet(n))
      OBVIOUS
    <3>2. PICK e : e = Extended(u, Packet(n), n)
      OBVIOUS
    <3>3. CASE out' = <<>>
      BY <3>3 DEF EmittedIsRun, KeyIsOfThisFrame
    <3>4. CASE ~Ignored(u, Packet(n)) /\ HasRoom(u) /\ Packet(n).marker
               /\ out' = [packets |-> e.buffer, key |-> e.key]
      <4>1. e \in Units /\ Run(e, n)
        BY <2>1, <3>1, <3>2, <3>4, ExtendedIsRun
      <4>2. stream \in Streams /\ stream' = stream
        BY <2>1 DEF IInv, Typed, Receive
      <4> QED
        BY <3>4, <4>1, <4>2, RunIsFit
    <3> QED
      BY <2>1, <3>1, <3>2, <3>3, <3>4, Outcomes
  <2>2. ASSUME Fit, UNCHANGED vars PROVE Fit'
    BY <2>2 DEF vars, EmittedIsRun, KeyIsOfThisFrame, HasIdr, PacketsOf, Packets
  <2> QED
    BY <2>1, <2>2 DEF Next
<1> QED
  BY <1>1, <1>2, AlwaysIInv, PTL DEF Spec

\* What goes on to decryption is an unbroken run of packets of one frame up to its
\* marker and begins where a unit begins, whatever was lost, repeated or late
\* (voice_conn.rs resets on a gap, h264.rs and vp8.rs on a new timestamp).
THEOREM EmittedSound == Spec => []EmittedIsRun
BY EmittedIsFit, PTL

\* The keyframe flag says that an IDR packet is in this very frame (h264.rs, vp8.rs).
THEOREM KeySound == Spec => []KeyIsOfThisFrame
BY EmittedIsFit, PTL

\* A whole frame goes out whole: from its marker, the first packet is the frame's
\* first and the run has every packet between.
LEMMA StepEmitsIntact ==
  ASSUME IInv, NEW n \in Packets, Receive(n), Packet(n).marker,
         Cardinality(PacketsOf(Packet(n).frame)) \in 1 .. Least(intact', MaxUnit)
  PROVE  /\ out' # <<>>
         /\ {out'.packets[i] : i \in DOMAIN out'.packets} = PacketsOf(Packet(n).frame)
<1>1. stream \in Streams
  BY DEF IInv, Typed
<1>2. PICK a, z \in Packets : a <= n /\ n <= z /\ PacketsOf(Packet(n).frame) = a .. z /\ n = z
  BY <1>1, FrameIsInterval
<1>3. /\ Packets = 1 .. Len(stream.packets) /\ Len(stream.packets) \in Nat
      /\ MaxUnit \in Nat \ {0}
  BY <1>1, StreamTyped, BoundAssumption
<1>4. intact' \in Nat
  <2>1. IInv'
    BY ReceiveIInv
  <2> QED
    BY <1>3, <2>1 DEF IInv, Received, Receive, Packets
<1>5. Cardinality(a .. n) = n - a + 1
  BY <1>2, <1>3, FS_Interval
<1>6. n - a < intact' /\ n - a < MaxUnit
  BY <1>2, <1>3, <1>4, <1>5 DEF Least
<1>7. BeginsFrameOf(a, n)
  BY <1>2, <1>3 DEF BeginsFrameOf, PacketsOf, Packet
<1>8. PICK u : u = Prepared(AfterGap(n), Packet(n))
  OBVIOUS
<1>9. PICK e : e = Extended(u, Packet(n), n)
  OBVIOUS
<1>10. ~Ignored(u, Packet(n)) /\ HasRoom(u) /\ e.buffer[1] = a
  <2>1. a \in 1 .. n
    BY <1>2, <1>3
  <2> QED
    BY <1>6, <1>7, <1>8, <1>9, <2>1, WholeIsKept
<1>11. e \in Units /\ Run(e, n)
  BY <1>8, <1>9, <1>10, ExtendedIsRun
<1>12. out' = [packets |-> e.buffer, key |-> e.key]
  BY <1>8, <1>9, <1>10, Outcomes
<1>13. PICK b \in Seq(Packets) : b = e.buffer
  BY <1>11 DEF Units
<1>14. PICK k \in Nat \ {0} : k = Len(b) /\ DOMAIN b = 1 .. k
  BY <1>11, <1>13, RunNonempty, LenProperties
<1>15. b[1] = a /\ b[k] = n /\ \A i \in 1 .. k : b[i] = a + i - 1
  BY <1>10, <1>11, <1>13, <1>14 DEF Run
<1>16. k = n - a + 1
  <2>1. b[k] = a + k - 1
    BY <1>14, <1>15
  <2>2. a \in Int /\ n \in Int /\ k \in Int /\ n = a + k - 1
    BY <1>2, <1>3, <1>14, <1>15, <2>1
  <2> QED
    BY <2>2
<1>17. {b[i] : i \in 1 .. k} = a .. n
  <2>1. ASSUME NEW i \in 1 .. k PROVE b[i] \in a .. n
    <3>1. a \in Int /\ n \in Int
      BY <1>2, <1>3
    <3>2. b[i] = a + i - 1
      BY <1>15
    <3> QED
      BY <1>16, <3>1, <3>2
  <2>2. ASSUME NEW j \in a .. n PROVE \E i \in 1 .. k : j = b[i]
    <3>1. PICK i \in 1 .. k : i = j - a + 1
      BY <1>2, <1>3, <1>16
    <3>2. b[i] = a + i - 1
      BY <1>15
    <3> QED
      BY <1>2, <1>3, <3>1, <3>2
  <2> QED
    BY <2>1, <2>2
<1>18. out'.packets = b
  BY <1>12, <1>13
<1>19. out' # <<>>
  <2>1. DOMAIN out' = {"packets", "key"}
    BY <1>12
  <2>2. PICK q \in Seq(Packets) : q = <<>>
    BY EmptySeq
  <2>3. DOMAIN q = 1 .. Len(q) /\ Len(q) = 0
    BY <2>2, EmptySeq, LenProperties
  <2>4. DOMAIN q = {}
    BY <2>3
  <2> QED
    BY <2>1, <2>2, <2>4
<1> QED
  BY <1>2, <1>14, <1>17, <1>18, <1>19

\* A frame whose packets arrived in order and without a gap is emitted whole on its
\* marker, whatever losses, late packets and overflows came before it, and wherever
\* the sequence number wraps.
THEOREM IntactSound == Spec => IntactIsEmitted
<1>1. ASSUME IInv, NEW n \in Packets, Receive(n), stream.packets[n].marker,
             Cardinality(PacketsOf(stream.packets[n].frame)) \in 1 .. Least(intact', MaxUnit)
      PROVE  /\ out' # <<>>
             /\ {out'.packets[i] : i \in DOMAIN out'.packets} = PacketsOf(stream.packets[n].frame)
  BY <1>1, StepEmitsIntact DEF Packet
<1>2. IInv /\ [Next]_vars
      => [\A n \in Packets :
            LET mine == PacketsOf(stream.packets[n].frame) IN
            Receive(n) /\ stream.packets[n].marker
              /\ Cardinality(mine) \in 1 .. Least(intact', MaxUnit)
              => out' # <<>> /\ {out'.packets[i] : i \in DOMAIN out'.packets} = mine]_vars
  BY <1>1
<1> QED
  BY <1>2, AlwaysIInv, PTL DEF Spec, IntactIsEmitted
=============================================================================
