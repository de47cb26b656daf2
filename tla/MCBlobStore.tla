---------------------------- MODULE MCBlobStore ----------------------------
(* BlobStore on small instances: threads that write the same blob and       *)
(* others at the same time.                                                 *)
EXTENDS BlobStore, TLC

Symmetry == Permutations(Writers) \cup Permutations(Digests)
=============================================================================
