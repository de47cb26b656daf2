------------------------------ MODULE MCPgStore ------------------------------
(* PgStore on a small instance.  Connections and ids are interchangeable.  *)
EXTENDS PgStore, TLC

PgSymmetry == Permutations(SessionIds) \cup Permutations(GroupIds) \cup Permutations(Txns)
=============================================================================
