--------------------------- MODULE MCDmaBufferMgr ---------------------------
(* Instances of DmaBufferMgr and DmaBufLoops for TLC.  Threads are          *)
(* interchangeable.                                                         *)
EXTENDS DmaBufLoops, TLC

Symmetry == Permutations(Threads) \cup Permutations(NonThreads)
=============================================================================
