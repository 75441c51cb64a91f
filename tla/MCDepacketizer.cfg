\* Up to thirteen packets whose numbers wrap, up to three lost in a row or late.
SPECIFICATION Spec
CONSTANTS
  Streams <- BothStreams
  SeqMod = 16
  FirstSeq = 13
  MaxUnit = 4
  Window = 3
  Jump = 4
INVARIANTS
  EmittedIsRun
  KeyIsOfThisFrame
PROPERTIES
  IntactIsEmitted
