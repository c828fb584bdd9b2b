----------------------------- MODULE MCMoflex -----------------------------
(* Sizes around those at which a frame just fits into a block: after the    *)
(* sync header and the flags 453 bytes of a block of 512 are left, 447 of   *)
(* them for a frame in one chunk.                                           *)
EXTENDS MoflexDemuxer

MCFrameSizes == {5, 445, 447, 448, 900}
MCLargeFrames == {9000}
=============================================================================
