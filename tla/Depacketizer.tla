---------------------------- MODULE Depacketizer ----------------------------
(***************************************************************************)
(* How the UDP task puts the video packets of one SSRC together again:     *)
(* VideoDepacketizerState (voice_conn.rs), H264Depacketizer (h264.rs) and  *)
(* Vp8Depacketizer (vp8.rs). The depacketizers of different SSRCs share    *)
(* nothing; the primary and the fallback one see the same packets.         *)
(*                                                                         *)
(* A stream is a sequence of packets that belong to numbered frames; the   *)
(* number stands for the RTP timestamp. Packet n has sequence number       *)
(* SeqOf(n). The network loses fewer than Jump packets in a row, repeats   *)
(* packets and delivers them at most Window places late.                   *)
(***************************************************************************)
EXTENDS Integers, Sequences, FiniteSetsExt

CONSTANTS
  Streams,   \* records [codec, packets]; a packet is [frame, kind, idr, marker]
  SeqMod,    \* sequence numbers are modulo SeqMod; 2^16 in the code
  FirstSeq,  \* the sequence number before that of packet 1
  MaxUnit,   \* MAX_VIDEO_FRAME_BYTES, in packets
  Window,    \* bound: how many places late a packet may arrive
  Jump       \* bound: one more than the packets lost in a row

H264Kinds == {"nal", "stap", "fuStart", "fuMid", "fuEnd"}
Vp8Kinds  == {"start", "rest"}

Fragments == {"fuMid", "fuEnd", "rest"}            \* need what comes before them
Unfinished == {"fuStart", "fuMid", "start", "rest"}  \* may have more behind them

\* What a sender of RFC 6184 or RFC 7741 sends: a frame's packets one after the
\* other, a VP8 frame begun and any frame marked once, no fragment first.
WellFormed(packets) ==
  \A i \in DOMAIN packets : \E first, last \in DOMAIN packets :
    /\ {j \in DOMAIN packets : packets[j].frame = packets[i].frame} = first .. last
    /\ packets[i].kind = "start" => i = first
    /\ packets[i].marker => i = last
    /\ packets[i].kind \in Fragments
         => i > first /\ packets[i - 1].kind \in Unfinished /\ ~packets[i].idr

ASSUME StreamAssumption ==
  \A s \in Streams :
    /\ s.packets \in Seq([frame : Nat \ {0}, idr : BOOLEAN, marker : BOOLEAN,
                          kind : IF s.codec = "h264" THEN H264Kinds ELSE Vp8Kinds])
    /\ WellFormed(s.packets)

ASSUME BoundAssumption ==
  /\ SeqMod \in Nat \ {0} /\ FirstSeq \in Nat
  /\ MaxUnit \in Nat \ {0} /\ Window \in Nat /\ Jump \in Nat
  /\ \A s \in Streams : Len(s.packets) < SeqMod

None    == -1    \* no sequence number yet
NoFrame == 0     \* timestamp: None

VARIABLES
  stream,    \* the stream that is received
  newest,    \* the highest packet received
  intact,    \* how many packets up to the last one came in order, gap-free
  lastSeq,   \* last_sequence
  unit,      \* the partial frame: what both depacketizers keep
  out        \* the frame the last packet completed, or <<>>

vars == <<stream, newest, intact, lastSeq, unit, out>>

\* h264: timestamp, buffer, keyframe, in_fu. vp8: saw_partition_start is open.
Cleared == [frame |-> NoFrame, buffer |-> <<>>, key |-> FALSE, open |-> FALSE]

Packets == DOMAIN stream.packets
Frames  == {stream.packets[n].frame : n \in Packets}

TypeOK ==
  /\ stream \in Streams
  /\ newest \in {0} \cup Packets
  /\ intact \in 0 .. Len(stream.packets)
  /\ lastSeq \in {None} \cup 0 .. SeqMod - 1
  /\ unit.frame \in {NoFrame} \cup Frames
  /\ Len(unit.buffer) <= MaxUnit /\ unit.key \in BOOLEAN /\ unit.open \in BOOLEAN
  /\ out = <<>> \/ out.key \in BOOLEAN

Init ==
  /\ stream \in Streams
  /\ newest = 0 /\ intact = 0 /\ lastSeq = None
  /\ unit = Cleared /\ out = <<>>

-----------------------------------------------------------------------------

SeqOf(n) == (FirstSeq + n) % SeqMod

\* Mutant of OutOfOrder: sequence numbers do not wrap.
OutOfOrderUnwrapped(n) == lastSeq # None /\ SeqOf(n) # lastSeq + 1

\* A gap or a packet out of order: VideoDepacketizerState::push resets both
\* depacketizers before the packet is looked at.
OutOfOrder(n) == lastSeq # None /\ SeqOf(n) # (lastSeq + 1) % SeqMod

\* Mutant of AfterGap: only the buffered bytes are dropped.
AfterGapBufferOnly(n) == IF OutOfOrder(n) THEN [unit EXCEPT !.buffer = <<>>] ELSE unit

\* Mutant of AfterGap: gaps go unnoticed.
AfterGapUnnoticed(n) == unit

AfterGap(n) == IF OutOfOrder(n) THEN Cleared ELSE unit

\* prepare_timestamp: a new timestamp drops what is left of the old frame.
Prepared(u, p) == IF u.frame = p.frame THEN u ELSE [Cleared EXCEPT !.frame = p.frame]

\* Fragments and partitions whose beginning was not seen are ignored, marker
\* and all.
Ignored(u, p) ==
  \/ p.kind \in {"fuMid", "fuEnd"} /\ ~u.open
  \/ p.kind = "rest" /\ ~u.open /\ u.buffer = <<>>

\* in_fu and saw_partition_start after a packet that was kept.
OpenAfter(u, p) ==
  CASE p.kind \in {"fuStart", "start"}         -> TRUE
    [] p.kind \in {"nal", "fuEnd"}             -> FALSE
    [] p.kind \in {"stap", "fuMid", "rest"}    -> u.open

Extended(u, p, n) ==
  [u EXCEPT !.buffer = Append(@, n),
            !.open = OpenAfter(u, p),
            !.key = @ \/ p.idr]

\* The size check of MAX_VIDEO_FRAME_BYTES before a packet is appended.
HasRoom(u) == Len(u.buffer) < MaxUnit

HasIdr(buffer) == \E i \in DOMAIN buffer : stream.packets[buffer[i]].idr

\* One packet: gap check, then the codec's push.
Receive(n) ==
  /\ n \in newest - Window .. newest + Jump
  /\ newest' = IF n > newest THEN n ELSE newest
  /\ intact' = IF lastSeq = SeqOf(n - 1) THEN intact + 1 ELSE 1
  /\ lastSeq' = SeqOf(n)
  /\ LET p == stream.packets[n]
         u == Prepared(AfterGap(n), p)
         e == Extended(u, p, n)
     IN  \/ Ignored(u, p) /\ unit' = u /\ out' = <<>>
         \/ /\ ~Ignored(u, p) /\ ~HasRoom(u)
            /\ unit' = Cleared /\ out' = <<>>
         \/ /\ ~Ignored(u, p) /\ HasRoom(u) /\ ~p.marker
            /\ unit' = e /\ out' = <<>>
         \/ /\ ~Ignored(u, p) /\ HasRoom(u) /\ p.marker
            /\ unit' = Cleared
            /\ out' = [packets |-> e.buffer, key |-> e.key]
  /\ UNCHANGED stream

Next == \E n \in Packets : Receive(n)

Spec == Init /\ [][Next]_vars

-----------------------------------------------------------------------------
(* Properties. *)

Least(a, b) == IF a < b THEN a ELSE b

PacketsOf(f) == {n \in Packets : stream.packets[n].frame = f}

\* What goes on to decryption is never pieced together across a hole or from
\* two frames: it is an unbroken run of packets of one frame up to its marker,
\* and begins where a NAL unit begins. A VP8 frame is complete; an H264 frame
\* whose beginning was lost goes out as its tail.
EmittedIsRun ==
  out # <<>> =>
    LET k == Len(out.packets)
        first == stream.packets[out.packets[1]]
        last  == stream.packets[out.packets[k]]
    IN  /\ \A i \in 1 .. k - 1 : out.packets[i + 1] = out.packets[i] + 1
        /\ first.frame = last.frame /\ last.marker
        /\ first.kind \in {"nal", "stap", "fuStart", "start"}
        /\ first.kind = "start" => out.packets[1] = Min(PacketsOf(first.frame))

\* A frame whose packets arrived in order and without a gap is emitted whole
\* on its marker, whatever losses, late packets and overflows came before it.
IntactIsEmitted ==
  [][\A n \in Packets :
       LET mine == PacketsOf(stream.packets[n].frame) IN
       Receive(n) /\ stream.packets[n].marker /\ Cardinality(mine) \in 1 .. Least(intact', MaxUnit)
         => out' # <<>> /\ {out'.packets[i] : i \in DOMAIN out'.packets} = mine]_vars

\* The keyframe flag is about this frame: it says that an IDR slice, or the
\* key frame header of VP8, is in it, and nothing of an earlier frame.
KeyIsOfThisFrame == out # <<>> => out.key = HasIdr(out.packets)
=============================================================================
