SPECIFICATION Spec
CONSTANTS
  MaxWorkers = 2
  PcmCap = 1
  MusicEventCap = 2
  MaxTts = 1
  MaxMusic = 1
  GainFull = 1
  SafetyAge = 1
  ReportInterval = 1
VIEW StopView
INVARIANTS
  TypeOK
  ActiveIsAudible
  StopIsOfThisTrack
  ActiveHasSource
  ParentViewTrue
