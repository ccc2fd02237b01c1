------------------------------- MODULE MCBuffers -------------------------------
(* Constant values for the runs of Buffers. *)
EXTENDS Buffers, TLC

CONSTANTS t1, t2
MCThreads == {t1, t2}
Symmetry == Permutations(Threads)
MCBufferIds == 0 .. 2
MCImageIds == 0 .. 1
MCKinds == {"picture", "matrix"}
MCRequired == {"picture"}
=============================================================================
