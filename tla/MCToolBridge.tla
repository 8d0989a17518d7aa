---------------------------- MODULE MCToolBridge ----------------------------
(* One call of one task, for TLC. *)
EXTENDS ToolBridge, TLC

CONSTANTS t1, c1

OneOwner == [c \in {c1} |-> t1]

=============================================================================
