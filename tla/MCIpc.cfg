\* Lanes of one, three lines in and two messages out besides the answers: each
\* bounded lane overflows.
SPECIFICATION FairSpec
CONSTANTS
  AudioCap = 1
  OutAudioCap = 1
  VideoCap = 1
  MaxLines = 3
  MaxSends = 2
INVARIANTS
  ControlFirst
  EndServesAll
PROPERTIES
  EndsWithParentIfHandlersReturn
\* The process ends.
CHECK_DEADLOCK FALSE
