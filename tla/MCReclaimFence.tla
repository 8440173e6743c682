--------------------------- MODULE MCReclaimFence ---------------------------
(***************************************************************************)
(* TLC instances of ReclaimFence.  Buffers are interchangeable.            *)
(***************************************************************************)
EXTENDS ReclaimFenceInv, TLC

BufferSymmetry == Permutations(Buffers)
=============================================================================
