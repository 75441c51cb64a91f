\* SSRCs that change hands between two users; numbers modulo 6 that wrap within
\* the run, and more packets than half of the number space.
SPECIFICATION FairSpec
CONSTANTS
  Users = {u1, u2}
  Ssrcs = {s1, s2}
  SeqMod = 6
  FirstSeq = 4
  MaxGap = 1
  SpeakTicks = 1
  SilenceTicks = 2
  MaxIndex = 4
  Window = 1
  Jump = 4
  MaxRemaps = 2
INVARIANTS
  ParentInformed
  DecoderOfOneUser
  TimelineNotAhead
PROPERTIES
  FedInOrder
  FreshSpeaks
  StreamEnds
