\* Expected violation: the loop joins a worker that cannot end.
SPECIFICATION FairSpec
CONSTANTS
  Urls = {u1}
  Browser = b
  NoSource = none
  MaxWorkers = 1
  FrameCap = 4
  EventCap = 2
  MaxFramesPerTick = 1
  MaxReady = 1
CHECK_DEADLOCK FALSE
PROPERTIES LoopComesBack
