----------------------------- MODULE MCForkGraph -----------------------------
(* ForkGraph on a small instance.                                          *)
EXTENDS ForkGraph, TLC

Symmetry == Permutations(SessionIds) \cup Permutations(VersionIds) \cup Permutations(GroupIds)

\* Bound: no reader and no property looks at a query's row, so one is followed only while
\* there is a single session.
QueriesEarly == DOMAIN queries # {} => Cardinality(DOMAIN sessions) <= 1
=============================================================================
