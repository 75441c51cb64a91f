\* Liveness under a ticking interval, on one pipeline.
SPECIFICATION FairSpec
CONSTANTS
  MaxWorkers = 1
  PcmCap = 2
  MusicEventCap = 2
  MaxTts = 1
  MaxMusic = 2
  GainFull = 1
  SafetyAge = 1
  ReportInterval = 1
PROPERTIES
  PendingResolves
  TailDrains
