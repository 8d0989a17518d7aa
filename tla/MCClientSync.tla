--------------------------- MODULE MCClientSync ---------------------------
(* One client device, two commands that answer the same approval request,  *)
(* and one that asks the runtime to stop a task.                           *)
EXTENDS ClientSync

AnswerTwiceAndStop ==
  [k \in Commands |-> IF k = "stop1" THEN "stop" ELSE IF k = "text1" THEN "text" ELSE "r1"]
===========================================================================
