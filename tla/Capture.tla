------------------------------- MODULE Capture -------------------------------
(***************************************************************************)
(* Inbound audio in the main loop: what AppState does with the events      *)
(* SsrcUpdate, OpusReceived and ClientDisconnect of the voice transport,   *)
(* with the parent's subscribe_user and unsubscribe_user, and on the       *)
(* capture tick (capture_supervisor.rs, capture.rs, app_state.rs).         *)
(*                                                                         *)
(* An RTP packet is known by its absolute index n in the stream of its     *)
(* SSRC; the code sees only the sequence number SeqOf(n), modulo SeqMod.   *)
(* The network loses fewer than Jump packets in a row, repeats packets and *)
(* delivers them at most Window places late.                               *)
(***************************************************************************)
EXTENDS Integers

CONSTANTS
  Users,        \* the remote users of the voice channel
  Ssrcs,        \* the audio SSRCs
  SeqMod,       \* sequence numbers are modulo SeqMod; 2^16 in the code
  FirstSeq,     \* the sequence number of packet 0
  MaxGap,       \* MAX_RECOVERABLE_GAP; 5 in the code
  SpeakTicks,   \* SPEAKING_TIMEOUT_MS in steps of time
  SilenceTicks, \* silence_duration_ms in the same steps
  MaxIndex,     \* bound: the highest packet index
  Window,       \* bound: how many places late a packet may arrive
  Jump,         \* bound: one more than the packets lost in a row
  MaxRemaps     \* bound: how often an SSRC is mapped

ASSUME SequenceAssumption ==
  /\ SeqMod \in Nat /\ SeqMod % 2 = 0 /\ MaxGap \in Nat
  /\ 0 < MaxGap /\ 2 * MaxGap < SeqMod
  /\ FirstSeq \in 0 .. SeqMod - 1
  /\ MaxIndex \in Nat /\ Window \in Nat /\ Jump \in Nat /\ MaxRemaps \in Nat

\* A packet that is half of the number space late looks like a new one; in the
\* code that is 32768 packets, or eleven minutes of audio.
ASSUME NetworkAssumption == Window < SeqMod \div 2

ASSUME TimerAssumption ==
  /\ SpeakTicks \in Nat \ {0} /\ SilenceTicks \in Nat \ {0}
  /\ SpeakTicks <= SilenceTicks

NoUser == "no user"
None   == -1          \* no sequence number, no packet
Off    == -1          \* a timer that is not running

ASSUME UserAssumption == NoUser \notin Users

VARIABLES
  ssrcMap,      \* the user each SSRC belongs to
  lastSeq,      \* last_rtp_seq: the sequence number last decoded
  decoder,      \* the user whose packets created the SSRC's Opus decoder
  speakingAge,  \* time since the last packet of a speaking user, or Off
  subscribed,   \* the keys of user_capture_states
  audioAge,     \* time since the last audio of an active stream, or Off
  heard,        \* the users the parent was last told are speaking
  open,         \* the users whose audio the parent has had no end for
  newest,       \* the highest index that reached the main loop
  fed,          \* the index last decoded under the present mapping
  timeline,     \* the index up to which the parent has audio of the SSRC
  remaps        \* how often an SSRC was mapped

transport == <<ssrcMap, lastSeq, decoder, fed, timeline>>
parent    == <<heard, open>>
vars == <<transport, speakingAge, subscribed, audioAge, parent, newest, remaps>>

TypeOK ==
  /\ ssrcMap \in [Ssrcs -> Users \cup {NoUser}]
  /\ decoder \in [Ssrcs -> Users \cup {NoUser}]
  /\ lastSeq \in [Ssrcs -> {None} \cup 0 .. SeqMod - 1]
  /\ fed \in [Ssrcs -> {None} \cup 0 .. MaxIndex]
  /\ timeline \in [Ssrcs -> {None} \cup 0 .. MaxIndex]
  /\ newest \in [Ssrcs -> {None} \cup 0 .. MaxIndex]
  /\ speakingAge \in [Users -> {Off} \cup 0 .. SpeakTicks - 1]
  /\ audioAge \in [Users -> {Off} \cup 0 .. SilenceTicks - 1]
  /\ subscribed \subseteq Users /\ heard \subseteq Users /\ open \subseteq Users
  /\ remaps \in 0 .. MaxRemaps

Init ==
  /\ ssrcMap = [s \in Ssrcs |-> NoUser]
  /\ decoder = [s \in Ssrcs |-> NoUser]
  /\ lastSeq = [s \in Ssrcs |-> None]
  /\ fed = [s \in Ssrcs |-> None]
  /\ timeline = [s \in Ssrcs |-> None]
  /\ newest = [s \in Ssrcs |-> None]
  /\ speakingAge = [u \in Users |-> Off]
  /\ audioAge = [u \in Users |-> Off]
  /\ subscribed = {} /\ heard = {} /\ open = {}
  /\ remaps = 0

-----------------------------------------------------------------------------
(* Sequence numbers. *)

SeqOf(n) == (FirstSeq + n) % SeqMod

\* Mutant of Distance: plain subtraction, which forgets that numbers wrap.
DistanceUnwrapped(prev, seq) == seq - (prev + 1)

\* The distance from the expected number, as a signed number of the width.
Distance(prev, seq) ==
  LET d == (seq - (prev + 1)) % SeqMod
  IN  IF d >= SeqMod \div 2 THEN d - SeqMod ELSE d

\* Mutant of IsStale: off by one, so that a repeated packet passes.
IsStaleUnlessRepeated(prev, seq) ==
  prev # None /\ Distance(prev, seq) < -1

IsStale(prev, seq) ==
  prev # None /\ Distance(prev, seq) < 0

LostBefore(prev, seq) ==
  IF prev # None /\ Distance(prev, seq) \in 1 .. MaxGap
  THEN Distance(prev, seq) ELSE 0

IsForwardLarge(prev, seq) ==
  prev # None /\ Distance(prev, seq) > MaxGap

-----------------------------------------------------------------------------
(* Events of the voice transport. *)

\* Mutant of ForgetDecoders: the Opus decoder survives the remapping.
ForgetNumbersOnly(S) ==
  /\ lastSeq'  = [s \in Ssrcs |-> IF s \in S THEN None ELSE lastSeq[s]]
  /\ fed'      = [s \in Ssrcs |-> IF s \in S THEN None ELSE fed[s]]
  /\ timeline' = [s \in Ssrcs |-> IF s \in S THEN None ELSE timeline[s]]
  /\ UNCHANGED decoder

\* Forgets what belongs to the old owner of the SSRCs in S.
ForgetDecoders(S) ==
  /\ decoder'  = [s \in Ssrcs |-> IF s \in S THEN NoUser ELSE decoder[s]]
  /\ lastSeq'  = [s \in Ssrcs |-> IF s \in S THEN None ELSE lastSeq[s]]
  /\ fed'      = [s \in Ssrcs |-> IF s \in S THEN None ELSE fed[s]]
  /\ timeline' = [s \in Ssrcs |-> IF s \in S THEN None ELSE timeline[s]]

SsrcUpdate(s, u) ==
  /\ remaps < MaxRemaps /\ remaps' = remaps + 1
  /\ ssrcMap' = [ssrcMap EXCEPT ![s] = u]
  /\ ForgetDecoders(IF ssrcMap[s] = u THEN {} ELSE {s})
  /\ UNCHANGED <<speakingAge, subscribed, audioAge, parent, newest>>

\* remove_user_runtime_state.
ClientDisconnect(u) ==
  /\ LET gone == {s \in Ssrcs : ssrcMap[s] = u}
     IN  /\ ssrcMap' = [s \in Ssrcs |-> IF s \in gone THEN NoUser ELSE ssrcMap[s]]
         /\ ForgetDecoders(gone)
  /\ heard' = IF speakingAge[u] # Off THEN heard \ {u} ELSE heard
  /\ open'  = IF audioAge[u] # Off THEN open \ {u} ELSE open
  /\ speakingAge' = [speakingAge EXCEPT ![u] = Off]
  /\ audioAge' = [audioAge EXCEPT ![u] = Off]
  /\ subscribed' = subscribed \ {u}
  /\ UNCHANGED <<newest, remaps>>

\* update_speaking_state: SpeakingStart goes out when the user was silent.
TouchSpeaking(u) ==
  /\ speakingAge' = [speakingAge EXCEPT ![u] = 0]
  /\ heard' = IF speakingAge[u] = Off THEN heard \cup {u} ELSE heard

\* Opus decodes packet n, after r of the lost packets were concealed. More
\* than MaxGap lost packets are not concealed: the timeline jumps.
Decoded(s, u, n, r) ==
  /\ lastSeq' = [lastSeq EXCEPT ![s] = SeqOf(n)]
  /\ fed' = [fed EXCEPT ![s] = n]
  /\ timeline' = [timeline EXCEPT ![s] =
       IF @ = None \/ IsForwardLarge(lastSeq[s], SeqOf(n)) THEN n ELSE @ + r + 1]
  /\ audioAge' = [audioAge EXCEPT ![u] = 0]
  /\ open' = open \cup {u}

\* Mutant of Concealed: one PLC frame for every lost packet, and FEC beside.
ConcealedTwice(s, n) ==
  LET lost == LostBefore(lastSeq[s], SeqOf(n))
  IN  IF lost = 0 THEN {0} ELSE 0 .. lost + 1

\* How many frames stand for the lost packets when packet n decodes: PLC for
\* all but the last of them, FEC for the last; each attempt may fail.
Concealed(s, n) == 0 .. LostBefore(lastSeq[s], SeqOf(n))

\* A packet of a known user that is neither a duplicate nor stale.
Accepted(s, n) ==
  ssrcMap[s] # NoUser /\ ~IsStale(lastSeq[s], SeqOf(n))

\* Mutant of DropOpus: any packet keeps an active stream alive.
DropAfterTouch(s, n) ==
  /\ ~Accepted(s, n)
  /\ audioAge' = [u \in Users |->
       IF u = ssrcMap[s] /\ audioAge[u] # Off THEN 0 ELSE audioAge[u]]
  /\ UNCHANGED <<transport, speakingAge, parent>>

DropOpus(s, n) ==
  /\ ~Accepted(s, n)
  /\ UNCHANGED <<transport, speakingAge, audioAge, parent>>

AcceptOpus(s, n) ==
  LET u == ssrcMap[s] IN
  /\ Accepted(s, n)
  /\ TouchSpeaking(u)
  /\ UNCHANGED ssrcMap
  /\ \/ /\ u \notin subscribed
        /\ UNCHANGED <<lastSeq, decoder, fed, timeline, audioAge, open>>
     \/ /\ u \in subscribed
        /\ decoder' = [decoder EXCEPT ![s] = IF @ = NoUser THEN u ELSE @]
        /\ \/ \E r \in Concealed(s, n) : Decoded(s, u, n, r)
           \/ UNCHANGED <<lastSeq, fed, timeline, audioAge, open>>

OpusReceived(s, n) ==
  /\ n \in newest[s] - Window .. newest[s] + Jump
  /\ newest' = [newest EXCEPT ![s] = IF n > @ THEN n ELSE @]
  /\ \/ DropOpus(s, n)
     \/ AcceptOpus(s, n)
  /\ UNCHANGED <<subscribed, remaps>>

-----------------------------------------------------------------------------
(* Commands of the parent, the capture tick and the end of the transport. *)

SubscribeUser(u) ==
  /\ subscribed' = subscribed \cup {u}
  /\ UNCHANGED <<transport, speakingAge, audioAge, parent, newest, remaps>>

\* Mutant of UnsubscribeUser: an active stream is dropped without its end.
UnsubscribeSilently(u) ==
  /\ u \in subscribed
  /\ subscribed' = subscribed \ {u}
  /\ audioAge' = [audioAge EXCEPT ![u] = Off]
  /\ UNCHANGED <<transport, speakingAge, parent, newest, remaps>>

UnsubscribeUser(u) ==
  /\ u \in subscribed
  /\ subscribed' = subscribed \ {u}
  /\ audioAge' = [audioAge EXCEPT ![u] = Off]
  /\ open' = IF audioAge[u] # Off THEN open \ {u} ELSE open
  /\ UNCHANGED <<transport, speakingAge, heard, newest, remaps>>

Aged(age, limit) ==
  [u \in Users |-> IF age[u] = Off \/ age[u] + 1 >= limit THEN Off ELSE age[u] + 1]

\* One step of time, then on_capture_tick.
CaptureTick ==
  /\ speakingAge' = Aged(speakingAge, SpeakTicks)
  /\ audioAge' = Aged(audioAge, SilenceTicks)
  /\ heard' = heard \ {u \in Users : speakingAge[u] # Off /\ speakingAge'[u] = Off}
  /\ open' = open \ {u \in Users : audioAge[u] # Off /\ audioAge'[u] = Off}
  /\ UNCHANGED <<transport, subscribed, newest, remaps>>

\* clear_transport_runtime_state, on a disconnect or a changed session. The
\* subscriptions outlive it, and nothing is said of the users who spoke.
ClearTransport ==
  /\ ssrcMap' = [s \in Ssrcs |-> NoUser]
  /\ ForgetDecoders(Ssrcs)
  /\ speakingAge' = [u \in Users |-> Off]
  /\ UNCHANGED <<subscribed, audioAge, parent, newest, remaps>>

Next ==
  \/ \E s \in Ssrcs, u \in Users : SsrcUpdate(s, u)
  \/ \E s \in Ssrcs, n \in 0 .. MaxIndex : OpusReceived(s, n)
  \/ \E u \in Users : ClientDisconnect(u)
  \/ \E u \in Users : SubscribeUser(u)
  \/ \E u \in Users : UnsubscribeUser(u)
  \/ CaptureTick
  \/ ClearTransport

Spec == Init /\ [][Next]_vars

\* The capture tick comes from a tokio interval of the main loop.
FairSpec == Spec /\ WF_vars(CaptureTick)

-----------------------------------------------------------------------------
(* Properties. *)

\* What the parent was told is what the code will take back: the streams it
\* has open are those with a running timer, so none is left open by an
\* unsubscribe, a departure, a lost transport or a remapped SSRC; and whoever
\* counts as speaking was announced, subscribed or not, since the parent
\* subscribes on that announcement.
ParentInformed ==
  /\ open = {u \in Users : audioAge[u] # Off}
  /\ {u \in Users : speakingAge[u] # Off} \subseteq heard

\* The state of an Opus decoder, and the sequence number beside it, come
\* from one user only, however the SSRC is remapped.
DecoderOfOneUser ==
  \A s \in Ssrcs :
    /\ decoder[s] # NoUser => decoder[s] = ssrcMap[s]
    /\ lastSeq[s] # None => decoder[s] # NoUser

\* Concealment never gives the parent more audio than time has passed in the
\* stream, through losses, late packets, failed decodes and wrapped numbers.
TimelineNotAhead == \A s \in Ssrcs : timeline[s] <= fed[s]

\* Opus is fed in the order of the stream: no packet twice, none after a
\* later one.  Whatever is decoded lengthens the timeline, the packet decoded
\* last included, so each step that touches either decodes a newer packet.
FedInOrder ==
  [][\A s \in Ssrcs :
       fed'[s] # None /\ <<fed'[s], timeline'[s]>> # <<fed[s], timeline[s]>>
         => fed[s] < fed'[s]]_vars

\* A packet newer than every other of a known user makes that user a speaker,
\* subscribed or not, unless half of the number space has passed since the
\* packet last decoded: then the code cannot tell it from an old one.
FreshSpeaks ==
  [][\A s \in Ssrcs, n \in 0 .. MaxIndex :
       OpusReceived(s, n) /\ n > newest[s] /\ ssrcMap[s] # NoUser
         => \/ speakingAge'[ssrcMap[s]] = 0
            \/ fed[s] # None /\ n - fed[s] > SeqMod \div 2]_vars

\* An open stream is ended once its user is silent, whatever duplicates and
\* late packets still arrive.
StreamEnds == \A u \in Users : u \in open ~> u \notin open
=============================================================================
