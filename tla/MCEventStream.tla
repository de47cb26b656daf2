---------------------------- MODULE MCEventStream ----------------------------
(* EventStream on small instances.  With one appender events are published *)
(* in the order of their seqs; with two they need not be.                  *)
EXTENDS EventStream, TLC

Symmetry == Permutations(Conns) \cup Permutations(Appenders)
=============================================================================
