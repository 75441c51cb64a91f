\* Two users who take turns on one SSRC or leave, packets of either at any time, a
\* queue of two events; the bounds end the run.
SPECIFICATION SpecAll
CONSTANTS
  Users = {u1, u2}
  Ssrcs = {s1}
  SeqMod = 4
  FirstSeq = 3
  MaxGap = 1
  SpeakTicks = 1
  SilenceTicks = 1
  MaxIndex = 0
  Window = 1
  Jump = 2
  MaxRemaps = 4
  QueueCap = 2
  MaxChanges = 2
SYMMETRY UserSymmetry
INVARIANTS
  MapsAgree
  Attributed
CHECK_DEADLOCK FALSE
