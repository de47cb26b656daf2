---------------------------- MODULE MCAgentRunner ----------------------------
(* AgentRunner on a few runs and blocks.  Runs are interchangeable, blocks too. *)
EXTENDS AgentRunner, TLC

RunnerSymmetry == Permutations(Runs) \cup Permutations(Blocks)
=============================================================================
