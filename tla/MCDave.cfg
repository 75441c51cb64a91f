\* Any eight opcodes; liveness for a transport whose packets keep coming.
SPECIFICATION FairSpec
CONSTANTS
  Tids = {0, 1, 2}
  Versions = {0, 1}
  Wait = 2
  NoManager = NoManager
  NoTimer = NoTimer
  NotPending = NotPending
  MaxOps = 8
INVARIANTS SuppressionEnds PendingIsConfirmed ReadyIsReported
PROPERTIES OverdueDowngradeEnds
