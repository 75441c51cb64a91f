\* Two sample values, frames of two samples, a prebuffer of two frames; the tick
\* counts are those of the code.
SPECIFICATION FairSpec
CONSTANTS
  Samples = {a, b}
  MaxChunk = 2
  MaxMusic = 1
  Frame = 2
  Prebuffer = 4
  Cap = 6
  StallTicks = 3
  FlushTicks = 2
  MaxSilence = 5
INVARIANTS
  TypeOK
  ArmedAtRest
PROPERTIES
  ImplementsLine
  ComesToRest
