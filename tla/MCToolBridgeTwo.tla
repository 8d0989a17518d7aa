-------------------------- MODULE MCToolBridgeTwo ---------------------------
(* Two calls of one task, for TLC.                                         *)
EXTENDS ToolBridge, TLC

CONSTANTS t1, c1, c2

SharedOwner == [c \in {c1, c2} |-> t1]

=============================================================================
