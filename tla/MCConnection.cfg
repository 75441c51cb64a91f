\* Destroy and a full event channel really stop the loop: no deadlock check.
SPECIFICATION Spec
CONSTANTS
  Sessions = {s1, s2}
  NoSession = NoSession
  MaxConns = 2
  QueueCap = 2
  MaxBackoffShift = 1
  MaxAttempt = 2
SYMMETRY SessionSymmetry
INVARIANTS
  TypeOK
  DeadlineMeansDown
  LiveIsOwned
  SlotSessionCurrent
PROPERTIES
  WatchLossReported
  VoiceLossIsRetried
CHECK_DEADLOCK FALSE
