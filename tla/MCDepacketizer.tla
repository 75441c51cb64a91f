--------------------------- MODULE MCDepacketizer ---------------------------
(***************************************************************************)
(* TLC instance of Depacketizer: an H264 stream with aggregated, single    *)
(* and fragmented units, one frame of it too large, and a VP8 stream.      *)
(***************************************************************************)
EXTENDS Depacketizer

P(f, k, i, m) == [frame |-> f, kind |-> k, idr |-> i, marker |-> m]

H264Stream ==
  [codec |-> "h264", packets |-> <<
     P(1, "stap", FALSE, FALSE), P(1, "fuStart", TRUE, FALSE),
     P(1, "fuMid", FALSE, FALSE), P(1, "fuEnd", FALSE, TRUE),
     P(2, "nal", FALSE, FALSE), P(2, "fuStart", FALSE, FALSE),
     P(2, "fuMid", FALSE, FALSE), P(2, "fuMid", FALSE, FALSE),
     P(2, "fuMid", FALSE, FALSE), P(2, "fuEnd", FALSE, TRUE),
     P(3, "nal", FALSE, FALSE), P(3, "nal", FALSE, TRUE),
     P(4, "nal", FALSE, TRUE) >>]

Vp8Stream ==
  [codec |-> "vp8", packets |-> <<
     P(1, "start", TRUE, FALSE), P(1, "rest", FALSE, FALSE), P(1, "rest", FALSE, TRUE),
     P(2, "start", FALSE, FALSE), P(2, "rest", FALSE, FALSE), P(2, "rest", FALSE, FALSE),
     P(2, "rest", FALSE, FALSE), P(2, "rest", FALSE, TRUE),
     P(3, "start", FALSE, FALSE), P(3, "rest", FALSE, TRUE),
     P(4, "start", FALSE, TRUE) >>]

BothStreams == {H264Stream, Vp8Stream}
=============================================================================
