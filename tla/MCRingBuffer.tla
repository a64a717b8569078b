----------------------------- MODULE MCRingBuffer -----------------------------
(* Instance of RingBuffer for TLC: vectors of two, blocks that are a whole  *)
(* number of vectors, blocks that are not and one that is longer than the   *)
(* ring, and a stream that wraps the ring three times.                      *)
EXTENDS RingBuffer

MCNominals == {2, 3, 7}
MCBlocks == {1, 2, 4}
=============================================================================
