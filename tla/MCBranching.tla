---------------------------- MODULE MCBranching ----------------------------
(* Branching on small instances: a session that is frozen and branched by a *)
(* request while the log grows, groups come and go and the machine stops.   *)
EXTENDS Branching, TLC

Symmetry == Permutations(SessionIds) \cup Permutations(VersionIds) \cup Permutations(Requests)

\* Bound: one blob that no version refers to, and one that is lost.
FewOrphans ==
  Cardinality(blobs \ {blobSha[v] : v \in DOMAIN blobSha}) <= 1 /\ Cardinality(lost) <= 1
=============================================================================
