---------------------------- MODULE MCAgentTurn ----------------------------
(* Small instances of AgentTurn for TLC. *)
EXTENDS AgentTurn, TLC

CONSTANTS s1, s2

\* tool_call_ids are interchangeable.
SlotSymmetry == Permutations(Slots)
=============================================================================
