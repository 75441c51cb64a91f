\* The loop may block for ever or exit: no deadlock check.
SPECIFICATION FairSpec
CONSTANTS
  Urls = {u1}
  Browser = b
  NoSource = none
  MaxWorkers = 2
  FrameCap = 2
  EventCap = 2
  MaxFramesPerTick = 1
  MaxReady = 1
CHECK_DEADLOCK FALSE
INVARIANTS TypeOK OnePipeline NothingStale AnnouncedHasPlayer
PROPERTIES EndIsNoticed
